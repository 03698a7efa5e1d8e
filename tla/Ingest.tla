------------------------------- MODULE Ingest -------------------------------
(***************************************************************************)
(* The ingests that talk to the GitHub API and to the file server: Budget, *)
(* GitHubPages and Artifacts.  ngingest makes them one after the other,    *)
(* into directories of their own, and -only leaves some of them out.  The  *)
(* budget decides how many repositories there are, of which GitHubPages    *)
(* takes any number.  Nothing else is shared, so one behaviour is that of  *)
(* one of the three, and the others have ended.                            *)
(***************************************************************************)
EXTENDS Budget, Sequences

CONSTANTS OrgNames,   \* Cfg.Orgs
          Listings,   \* what the listing of each of them may be: repositories
          Tags,       \* what the releases of a repository may be: their tags
          Slug        \* slug of a repository's name or a tag

CONSTANTS Paths,       \* upstream paths
          Catalogues,  \* what artifacts.json may list, groups flattened
          BodySizes,   \* sizes of bodies
          CopyLimits,  \* what -mirror-max-bytes may be; 0: never copy
          ProxyLimit   \* -max-download; 0 is no limit

Distinct(s) == \A i, j \in DOMAIN s : s[i] = s[j] => i = j

(* Everything that has to have a value can have one. *)
ASSUME ValuesAssumption == Sizes # {} /\ Catalogues # {} /\ CopyLimits # {}

(* GitHub's names are unique: those of the repositories of an organisation,
   and the tags of a repository.  -orgs names an organisation once. *)
ASSUME NamesAssumption ==
    /\ OrgNames \in Seq(DOMAIN Listings) /\ Distinct(OrgNames)
    /\ \A o \in DOMAIN Listings : \A l \in Listings[o] :
           l \in Seq(DOMAIN Slug) /\ Distinct(l)
    /\ \A t \in Tags : t \in Seq(DOMAIN Slug) /\ Distinct(t)

ASSUME FilesAssumption ==
    /\ Catalogues \subseteq Seq(Paths)
    /\ BodySizes \subseteq Nat /\ CopyLimits \subseteq Nat /\ ProxyLimit \in Nat

VARIABLES gPhase, gOrg, gRepos, gAt, tags, repoMenu, notesMenu, orgMenu, gRoot,
          written, skipped
pageVars == <<gPhase, gOrg, gRepos, gAt, tags, repoMenu, notesMenu, orgMenu,
              gRoot, written, skipped>>

Pages == INSTANCE GitHubPages WITH
    Orgs <- OrgNames,
    phase <- gPhase, org <- gOrg, repos <- gRepos, at <- gAt, root <- gRoot

VARIABLES catalogue, aLimit, aPhase, aAt, reported, omitted, made, stored,
          links, menus, aRoot, got
fileVars == <<catalogue, aLimit, aPhase, aAt, reported, omitted, made, stored,
              links, menus, aRoot, got>>

Files == INSTANCE Artifacts WITH
    Sizes <- BodySizes, Limits <- CopyLimits,
    limit <- aLimit, phase <- aPhase, at <- aAt, root <- aRoot

RunOver ==
    /\ step = "failed" /\ attempt = 1 /\ remaining = Limit /\ known = FALSE
    /\ limit = 0 /\ size = [o \in Orgs |-> CHOOSE n \in Sizes : TRUE]
    /\ org = 1 /\ page = 1
    /\ listed = 0 /\ repo = 1 /\ extra = 0 /\ faults = 0 /\ others = MaxOthers

PagesOver ==
    /\ gPhase = "failed" /\ gOrg = 1 /\ gRepos = <<>> /\ gAt = 1 /\ tags = <<>>
    /\ repoMenu = <<>> /\ notesMenu = <<>> /\ orgMenu = <<>> /\ gRoot = <<>>
    /\ written = <<>> /\ skipped = {}

FilesOver ==
    /\ catalogue = CHOOSE c \in Catalogues : TRUE
    /\ aLimit = CHOOSE n \in CopyLimits : TRUE
    /\ aPhase = "failed" /\ aAt = 1
    /\ reported = 0 /\ omitted = {} /\ made = {}
    /\ stored = [p \in Paths |-> [size |-> 0, of |-> 0]]
    /\ links = <<>> /\ menus = {} /\ aRoot = {}
    /\ got = [by |-> "nobody", size |-> 0, of |-> 0]

IngestInit ==
    \/ Init /\ PagesOver /\ FilesOver
    \/ RunOver /\ Pages!Init /\ FilesOver
    \/ RunOver /\ PagesOver /\ Files!Init

IngestNext ==
    \/ Next /\ UNCHANGED <<pageVars, fileVars>>
    \/ Pages!Next /\ UNCHANGED <<vars, fileVars>>
    \/ Files!Next /\ UNCHANGED <<vars, pageVars>>

IngestSpec ==
    /\ IngestInit /\ [][IngestNext]_<<vars, pageVars, fileVars>>
    /\ WF_vars(RunStep) /\ WF_pageVars(Pages!Next) /\ WF_fileVars(Files!Run)

(* The type invariant of the pages, and that what a reader comes to is there,
   is what it is called, is all that was written for readers and is counted
   right, whatever was skipped (github.go's writeOrg and writeRepo). *)
PagesAreSound == Pages!TypeOK /\ Pages!PagesAreSound

(* The type invariant of the downloads, and that every entry that resolves is
   linked once, to all of it (artifactory.go's writeDownloads and mirror). *)
DownloadsAreSound == Files!TypeOK /\ Files!DownloadsAreSound

(* The run ends whatever the API and the file server answer. *)
AllEnd == IngestEnds /\ Pages!RunEnds /\ Files!RunEnds

=============================================================================
