----------------------------- MODULE GitHubPages -----------------------------
(***************************************************************************)
(* What the GitHub ingest writes: github.go's Run, writeOrg, writeRepo and *)
(* writeReleases, after the budget has been found sufficient (Budget).     *)
(* Organisation by organisation and repository by repository it asks for a *)
(* README and for releases, writes a file for each and then the menus, the *)
(* innermost first.  Anything may fail; most failures only leave something *)
(* out.                                                                    *)
(*                                                                         *)
(* A page is the path of a file or menu.  Its content is what it is about  *)
(* and, for a menu, the links it has; a link says what it leads to.        *)
(***************************************************************************)
EXTENDS Naturals, Sequences, FiniteSets, Functions

CONSTANTS Orgs,      \* Cfg.Orgs
          Listings,  \* what the listing of each organisation may be: repositories
          Tags,      \* what the releases of a repository may be: their tags
          Slug       \* slug of a repository's name or a tag

VARIABLES phase,     \* how far Run has got
          org,       \* the organisation at hand
          repos,     \* its repositories, as listed
          at,        \* the one at hand
          tags,      \* its releases whose notes are still to be written
          repoMenu, notesMenu, orgMenu, root,  \* the links of the menus begun
          written,   \* the pages on the disk
          skipped    \* what was left out: organisations and repositories

vars == <<phase, org, repos, at, tags, repoMenu, notesMenu, orgMenu, root,
          written, skipped>>
place == <<org, repos, at>>
menus == <<repoMenu, notesMenu, orgMenu, root>>

Repo == repos[at]

(* Paths.  Two names with one slug have one path. *)
RootPage == <<"github">>
OrgPage(o) == <<"github", o>>

(* Mutant: the path leaves the organisation out. *)
RepoPageAnyOrg(o, r) == <<"github", Slug[r]>>

RepoPage(o, r) == <<"github", o, Slug[r]>>
ReadmePage(o, r) == <<"github", o, Slug[r], "readme.txt">>
ReleasesPage(o, r) == <<"github", o, Slug[r], "releases">>
NotesPage(o, r, t) == <<"github", o, Slug[r], "releases", Slug[t]>>

Menu(about, links) == [about |-> about, links |-> links]
Text(about) == Menu(about, <<>>)
Link(to, about) == [to |-> to, about |-> about]
Put(page, content) == written' = [p \in DOMAIN written \cup {page} |->
                                     IF p = page THEN content ELSE written[p]]

Init ==
    /\ phase = "list" /\ org = 1 /\ repos = <<>> /\ at = 1 /\ tags = <<>>
    /\ repoMenu = <<>> /\ notesMenu = <<>> /\ orgMenu = <<>> /\ root = <<>>
    /\ written = <<>> /\ skipped = {}

-----------------------------------------------------------------------------
(* One organisation.                                                       *)

(* Mutant: it goes on at the number it had come to in the one before. *)
ListOnward ==
    /\ phase = "list" /\ org <= Len(Orgs)
    /\ repos' \in Listings[Orgs[org]]
    /\ orgMenu' = <<>>
    /\ phase' = "repo"
    /\ UNCHANGED <<org, at, tags, repoMenu, notesMenu, root, written, skipped>>

List ==
    /\ phase = "list" /\ org <= Len(Orgs)
    /\ repos' \in Listings[Orgs[org]] /\ at' = 1
    /\ orgMenu' = <<>>
    /\ phase' = "repo"
    /\ UNCHANGED <<org, tags, repoMenu, notesMenu, root, written, skipped>>

(* The listing, or the menu of the organisation, failed: Run goes on with
   the next one. *)
LeaveOutOrg ==
    /\ \/ phase = "list" /\ org <= Len(Orgs)
       \/ phase = "repo" /\ at = Len(repos) + 1
    /\ skipped' = skipped \cup {<<Orgs[org]>>}
    /\ org' = org + 1 /\ phase' = "list"
    /\ UNCHANGED <<repos, at, tags, menus, written>>

WriteOrg ==
    /\ phase = "repo" /\ at = Len(repos) + 1
    /\ Put(OrgPage(Orgs[org]), Menu(<<Orgs[org]>>, orgMenu))
    /\ root' = Append(root, Link(OrgPage(Orgs[org]), <<Orgs[org]>>))
    /\ org' = org + 1 /\ phase' = "list"
    /\ UNCHANGED <<repos, at, tags, repoMenu, notesMenu, orgMenu, skipped>>

-----------------------------------------------------------------------------
(* One repository.                                                         *)

Subject == <<Orgs[org], Repo>>

(* The README is written and linked. *)
Readme ==
    /\ phase = "repo" /\ at \in DOMAIN repos
    /\ Put(ReadmePage(Orgs[org], Repo), Text(Subject))
    /\ repoMenu' = <<Link(ReadmePage(Orgs[org], Repo), Subject)>>
    /\ phase' = "releases"
    /\ UNCHANGED <<place, tags, notesMenu, orgMenu, root, skipped>>

(* There is none, or it cannot be had. *)
NoReadme ==
    /\ phase = "repo" /\ at \in DOMAIN repos
    /\ repoMenu' = <<>>
    /\ phase' = "releases"
    /\ UNCHANGED <<place, tags, notesMenu, orgMenu, root, written, skipped>>

(* The releases have come; drafts are dropped. *)
Releases ==
    /\ phase = "releases"
    /\ tags' \in Tags
    /\ notesMenu' = <<>>
    /\ phase' = IF tags' = <<>> THEN "menu" ELSE "notes"
    /\ UNCHANGED <<place, repoMenu, orgMenu, root, written, skipped>>

NoReleases ==
    /\ phase = "releases"
    /\ phase' = "menu"
    /\ UNCHANGED <<place, tags, menus, written, skipped>>

(* Mutant: each link replaces the one before. *)
WriteNotesOver ==
    /\ phase = "notes" /\ tags # <<>>
    /\ LET tag == Head(tags) page == NotesPage(Orgs[org], Repo, tag)
       IN /\ Put(page, Text(Append(Subject, tag)))
          /\ notesMenu' = <<Link(page, Append(Subject, tag))>>
    /\ tags' = Tail(tags)
    /\ UNCHANGED <<phase, place, repoMenu, orgMenu, root, skipped>>

WriteNotes ==
    /\ phase = "notes" /\ tags # <<>>
    /\ LET tag == Head(tags) page == NotesPage(Orgs[org], Repo, tag)
       IN /\ Put(page, Text(Append(Subject, tag)))
          /\ notesMenu' = Append(notesMenu, Link(page, Append(Subject, tag)))
    /\ tags' = Tail(tags)
    /\ UNCHANGED <<phase, place, repoMenu, orgMenu, root, skipped>>

(* "Back to" the repository. *)
Back == Link(RepoPage(Orgs[org], Repo), Subject)

(* Mutant: the menu of the releases is linked and not written. *)
WriteReleasesUnsaved ==
    /\ phase = "notes" /\ tags = <<>>
    /\ LET page == ReleasesPage(Orgs[org], Repo)
       IN repoMenu' = Append(repoMenu, Link(page, Subject))
    /\ phase' = "menu"
    /\ UNCHANGED <<place, tags, notesMenu, orgMenu, root, written, skipped>>

WriteReleases ==
    /\ phase = "notes" /\ tags = <<>>
    /\ LET page == ReleasesPage(Orgs[org], Repo)
       IN /\ Put(page, Menu(Subject, Append(notesMenu, Back)))
          /\ repoMenu' = Append(repoMenu, Link(page, Subject))
    /\ phase' = "menu"
    /\ UNCHANGED <<place, tags, notesMenu, orgMenu, root, skipped>>

(* Mutant: the links of one repository are still there for the next. *)
WriteRepoOnto ==
    /\ phase = "menu"
    /\ LET page == RepoPage(Orgs[org], Repo)
       IN /\ Put(page, Menu(Subject, repoMenu))
          /\ orgMenu' = orgMenu \o repoMenu \o <<Link(page, Subject)>>
    /\ at' = at + 1 /\ phase' = "repo"
    /\ UNCHANGED <<org, repos, tags, repoMenu, notesMenu, root, skipped>>

WriteRepo ==
    /\ phase = "menu"
    /\ LET page == RepoPage(Orgs[org], Repo)
       IN /\ Put(page, Menu(Subject, repoMenu))
          /\ orgMenu' = Append(orgMenu, Link(page, Subject))
    /\ at' = at + 1 /\ phase' = "repo"
    /\ UNCHANGED <<org, repos, tags, repoMenu, notesMenu, root, skipped>>

(* Mutant: a repository that fails is not passed over. *)
SkipRepoHalfway ==
    /\ \/ phase = "repo" /\ at \in DOMAIN repos
       \/ phase \in {"notes", "menu"}
    /\ skipped' = skipped \cup {Subject}
    /\ phase' = "repo"
    /\ UNCHANGED <<place, tags, menus, written>>

(* The README cannot be decoded, or a file or menu cannot be written: the
   repository is passed over and what it has on the disk stays. *)
SkipRepo ==
    /\ \/ phase = "repo" /\ at \in DOMAIN repos
       \/ phase \in {"notes", "menu"}
    /\ skipped' = skipped \cup {Subject}
    /\ at' = at + 1 /\ phase' = "repo"
    /\ UNCHANGED <<org, repos, tags, menus, written>>

-----------------------------------------------------------------------------
WriteRoot ==
    /\ phase = "list" /\ org = Len(Orgs) + 1
    /\ Put(RootPage, Menu(<<>>, root))
    /\ phase' = "done"
    /\ UNCHANGED <<place, tags, menus, skipped>>

(* Only the part's own menu is fatal. *)
RunFails ==
    /\ phase = "list" /\ org = Len(Orgs) + 1
    /\ phase' = "failed"
    /\ UNCHANGED <<place, tags, menus, written, skipped>>

Next ==
    \/ List \/ LeaveOutOrg \/ WriteOrg
    \/ Readme \/ NoReadme \/ Releases \/ NoReleases \/ WriteNotes
    \/ WriteReleases \/ WriteRepo \/ SkipRepo
    \/ WriteRoot \/ RunFails

Spec == Init /\ [][Next]_vars

(* The run is one sequence of steps, and every request has a timeout. *)
FairSpec == Spec /\ WF_vars(Next)

-----------------------------------------------------------------------------
(* Properties.                                                             *)

TypeOK ==
    /\ phase \in {"list", "repo", "releases", "notes", "menu", "done", "failed"}
    /\ org \in 1..Len(Orgs) + 1
    /\ repos \in {<<>>} \cup UNION Range(Listings) /\ at \in 1..Len(repos) + 1
    /\ Range(tags) \subseteq DOMAIN Slug
    /\ \A p \in DOMAIN written : Len(p) \in 1..5
    /\ \A s \in skipped : Len(s) \in 1..2

(* When the run is done, no link that a reader can come to leads nowhere.
   (In what a skipped repository leaves behind the link back may.) *)
Kids(ps) ==
    UNION {{l.to : l \in Range(written[p].links)} : p \in ps \cap DOMAIN written}
Reached ==
    LET orgs == Kids({RootPage}) rps == Kids(orgs) leaves == Kids(rps)
    IN {RootPage} \cup orgs \cup rps \cup leaves \cup Kids(leaves)
LinksLead == phase = "done" => Reached \subseteq DOMAIN written

(* What a link says is what the page is about.  Two names of one directory
   with one slug are told apart by nothing: they are left out. *)
Alone(x, all) == \A y \in all : Slug[y] = Slug[x] => y = x
LinksTellTruth ==
    \A p \in DOMAIN written : \A k \in DOMAIN written[p].links :
        LET link == written[p].links[k]
            names == UNION {Range(l) : l \in Listings[link.about[1]]}
            marks == UNION {Range(t) : t \in Tags}
        IN (/\ link.to \in DOMAIN written
            /\ Len(link.about) >= 2 => Alone(link.about[2], names)
            /\ Len(link.about) = 3 => Alone(link.about[3], marks)) =>
               written[link.to].about = link.about

(* When the run is done, every page can be reached from the part's menu,
   but for those of repositories and organisations that were passed over:
   the search index lists such pages, and no menu does.  (The menu of a
   repository is overwritten by that of another one with its slug.) *)
OrphansWereSkipped ==
    phase = "done" => \A p \in DOMAIN written \ Reached :
        /\ Len(p) > 2
        /\ \/ \E s \in skipped : s[1] = p[2] /\ (Len(s) = 2 => Slug[s[2]] = p[3])
           \/ \E r, q \in DOMAIN Slug : r # q /\ Slug[r] = p[3] /\ Slug[q] = p[3]

(* An organisation's menu has one link per repository listed and not passed
   over, in the order of the listing: the count beside it is true. *)
MenuCounts ==
    phase = "repo" =>
        /\ Len(orgMenu) = Cardinality({i \in 1..at - 1 :
               \E k \in DOMAIN orgMenu : orgMenu[k].about = <<Orgs[org], repos[i]>>})
        /\ \A i \in 1..at - 1 :
               \/ <<Orgs[org], repos[i]>> \in skipped
               \/ \E k \in DOMAIN orgMenu : orgMenu[k].about = <<Orgs[org], repos[i]>>

(* Together: what a reader comes to is there, is what it is called, is all
   that was written for readers, and is counted right, whatever was skipped. *)
PagesAreSound == LinksLead /\ LinksTellTruth /\ OrphansWereSkipped /\ MenuCounts

(* The run ends. *)
RunEnds == <>(phase \in {"done", "failed"})

=============================================================================
