------------------------------ MODULE Artifacts ------------------------------
(***************************************************************************)
(* The file server ingest, artifactory.go's Run, and the visitors of what  *)
(* it leaves.  Every item of a curated catalogue is checked with a HEAD    *)
(* request, copied into the content tree if it is small enough, and listed *)
(* in the downloads menu with a link to the copy or to the proxy.  The     *)
(* proxy is an external service here: its limits on connections are the    *)
(* business of Server, its cut at -max-download is not.                    *)
(*                                                                         *)
(* A body is its number of bytes.  Upstream may change between any two     *)
(* requests, so every answer is a choice of its own.                       *)
(***************************************************************************)
EXTENDS Naturals, Sequences, FiniteSets

CONSTANTS Paths,       \* upstream paths
          Catalogues,  \* what artifacts.json may list, groups flattened
          Sizes,       \* sizes of bodies
          Limits,      \* what -mirror-max-bytes may be; 0: never copy
          ProxyLimit   \* -max-download; 0 is no limit

VARIABLES catalogue,  \* the items, in the order of the file
          limit,      \* Cfg.MirrorMaxBytes
          phase,      \* how far Run has got
          at,         \* the item at hand
          reported,   \* the size its HEAD reported; 0: none
          omitted,    \* items whose HEAD failed
          made,       \* paths with a file under <root>/artifacts/
          stored,     \* each file: its size, and that of the body it is of
          links,      \* the items of the downloads menu
          menus,      \* menus written
          root,       \* menus the part's own menu links to
          got         \* the last download of a visitor

vars == <<catalogue, limit, phase, at, reported, omitted, made, stored, links,
          menus, root, got>>
config == <<catalogue, limit>>
tree == <<made, stored>>

Items == DOMAIN catalogue
Path == catalogue[at]
File == [size : Nat, of : Nat]
Link == [item : Nat, copied : BOOLEAN, size : Nat]
Nothing == [by |-> "nobody", size |-> 0, of |-> 0]

TypeOK ==
    /\ catalogue \in Catalogues /\ limit \in Limits
    /\ phase \in {"head", "copy", "repos", "root", "published", "failed"}
    /\ at \in 1..Len(catalogue) + 1
    /\ phase = "copy" => at \in Items
    /\ reported \in Sizes \cup {0}
    /\ omitted \subseteq Items
    /\ made \subseteq Paths
    /\ stored \in [Paths -> File]
    /\ \A p \in made : stored[p].size <= limit + 1
    /\ links \in Seq(Link)
    /\ \A k \in DOMAIN links : links[k].item \in Items
    /\ menus \subseteq {"downloads", "repositories", "root"}
    /\ root \subseteq {"downloads", "repositories"}
    /\ got \in [by : {"nobody", "copy", "proxy", "listing"}, size : Nat, of : Nat]

-----------------------------------------------------------------------------
(* The downloads menu: writeDownloads.                                     *)

Init ==
    /\ catalogue \in Catalogues /\ limit \in Limits
    /\ phase = "head" /\ at = 1 /\ reported = 0 /\ omitted = {}
    /\ made = {} /\ stored = [p \in Paths |-> [size |-> 0, of |-> 0]]
    /\ links = <<>> /\ menus = {} /\ root = {}
    /\ got = Nothing

(* No catalogue is configured, or it cannot be read or parsed. *)
NoCatalogue ==
    /\ phase = "head" /\ at = 1
    /\ phase' = "repos"
    /\ UNCHANGED <<config, at, reported, omitted, tree, links, menus, root, got>>

(* The item still resolves.  Upstream may leave the length out. *)
HeadSucceeds ==
    /\ phase = "head" /\ at \in Items
    /\ reported' \in Sizes \cup {0}
    /\ phase' = "copy"
    /\ UNCHANGED <<config, at, omitted, tree, links, menus, root, got>>

(* Mutant: the entry that is gone is listed all the same. *)
HeadFailsListed ==
    /\ phase = "head" /\ at \in Items
    /\ omitted' = omitted \cup {at}
    /\ links' = Append(links, [item |-> at, copied |-> FALSE, size |-> 0])
    /\ at' = at + 1
    /\ UNCHANGED <<config, phase, reported, tree, menus, root, got>>

HeadFails ==
    /\ phase = "head" /\ at \in Items
    /\ omitted' = omitted \cup {at}
    /\ at' = at + 1
    /\ UNCHANGED <<config, phase, reported, tree, links, menus, root, got>>

Wanted == limit > 0 /\ reported <= limit

List(copied, size) ==
    /\ links' = Append(links, [item |-> at, copied |-> copied, size |-> size])
    /\ at' = at + 1 /\ phase' = "head"
    /\ UNCHANGED <<config, reported, omitted, menus, root, got>>

Keep(size, of) ==
    /\ made' = made \cup {Path}
    /\ stored' = [stored EXCEPT ![Path] = [size |-> size, of |-> of]]

LeaveProxied ==
    /\ phase = "copy" /\ ~ Wanted
    /\ List(FALSE, reported)
    /\ UNCHANGED tree

(* The GET fails or is refused, or the file cannot be created, as when one
   path is a directory of another. *)
CopyRefused ==
    /\ phase = "copy" /\ Wanted
    /\ List(FALSE, reported)
    /\ UNCHANGED tree

CopySucceeds ==
    /\ phase = "copy" /\ Wanted
    /\ \E n \in Sizes : n <= limit /\ Keep(n, n) /\ List(TRUE, n)

(* Mutant: the body is not limited. *)
CopyTooLongUnlimited ==
    /\ phase = "copy" /\ Wanted
    /\ \E n \in Sizes : n > limit /\ Keep(n, n)
    /\ List(FALSE, reported)

(* Mutant: the copy is cut at the limit and taken for whole. *)
CopyTooLongUnheeded ==
    /\ phase = "copy" /\ Wanted
    /\ \E n \in Sizes : n > limit /\ Keep(limit, n)
    /\ List(TRUE, limit)

(* More came than the HEAD promised.  One byte over the limit is on disk. *)
CopyTooLong ==
    /\ phase = "copy" /\ Wanted
    /\ \E n \in Sizes : n > limit /\ Keep(limit + 1, n)
    /\ List(FALSE, reported)

(* Mutant: a copy that breaks off is tried again. *)
CopyBreaksAgain ==
    /\ phase = "copy" /\ Wanted
    /\ \E n \in Sizes : \E k \in 0..limit : k < n /\ Keep(k, n)
    /\ UNCHANGED <<config, phase, at, reported, omitted, links, menus, root, got>>

(* The body breaks off, or the disk is full. *)
CopyBreaks ==
    /\ phase = "copy" /\ Wanted
    /\ \E n \in Sizes : \E k \in 0..limit : k < n /\ Keep(k, n)
    /\ List(FALSE, reported)

-----------------------------------------------------------------------------
(* The other menus: the rest of Run.                                       *)

(* Mutant: a menu that could not be written is linked. *)
WriteDownloadsUnchecked(written) ==
    /\ phase = "head" /\ at = Len(catalogue) + 1
    /\ menus' = IF written THEN menus \cup {"downloads"} ELSE menus
    /\ root' = root \cup {"downloads"}
    /\ phase' = "repos"
    /\ UNCHANGED <<config, at, reported, omitted, tree, links, got>>

(* written: whether t.WriteMenu succeeded; its error is logged, no more. *)
WriteDownloads(written) ==
    /\ phase = "head" /\ at = Len(catalogue) + 1
    /\ menus' = IF written THEN menus \cup {"downloads"} ELSE menus
    /\ root' = IF written THEN root \cup {"downloads"} ELSE root
    /\ phase' = "repos"
    /\ UNCHANGED <<config, at, reported, omitted, tree, links, got>>

WriteRepositories ==
    /\ phase = "repos"
    /\ menus' = menus \cup {"repositories"}
    /\ root' = root \cup {"repositories"}
    /\ phase' = "root"
    /\ UNCHANGED <<config, at, reported, omitted, tree, links, got>>

(* The listing of repositories failed: no menu and no link. *)
NoRepositories ==
    /\ phase = "repos"
    /\ phase' = "root"
    /\ UNCHANGED <<config, at, reported, omitted, tree, links, menus, root, got>>

WriteRoot ==
    /\ phase = "root"
    /\ menus' = menus \cup {"root"}
    /\ phase' = "published"
    /\ UNCHANGED <<config, at, reported, omitted, tree, links, root, got>>

(* A menu that Run does not do without cannot be written: nothing is
   published. *)
RunFails ==
    /\ phase \in {"repos", "root"}
    /\ phase' = "failed"
    /\ UNCHANGED <<config, at, reported, omitted, tree, links, menus, root, got>>

-----------------------------------------------------------------------------
(* The visitors of the published tree.                                     *)

Linked(k) == phase = "published" /\ "downloads" \in menus /\ k \in DOMAIN links

FollowCopy(k) ==
    /\ Linked(k) /\ links[k].copied
    /\ LET f == stored[catalogue[links[k].item]]
       IN got' = [by |-> "copy", size |-> f.size, of |-> f.of]
    /\ UNCHANGED <<config, phase, at, reported, omitted, tree, links, menus, root>>

(* Mutant: a body of just the limit loses its last byte. *)
CutEarly(n) == IF ProxyLimit > 0 /\ n >= ProxyLimit THEN ProxyLimit - 1 ELSE n

(* The proxy copies at most its limit and reports no error beyond it. *)
Cut(n) == IF ProxyLimit > 0 /\ n > ProxyLimit THEN ProxyLimit ELSE n

FollowProxy(k) ==
    /\ Linked(k) /\ ~ links[k].copied
    /\ \E n \in Sizes : got' = [by |-> "proxy", size |-> Cut(n), of |-> n]
    /\ UNCHANGED <<config, phase, at, reported, omitted, tree, links, menus, root>>

(* artifacts/ has no gophermap: the server lists whatever is there. *)
FollowListing(p) ==
    /\ phase = "published" /\ p \in made
    /\ got' = [by |-> "listing", size |-> stored[p].size, of |-> stored[p].of]
    /\ UNCHANGED <<config, phase, at, reported, omitted, tree, links, menus, root>>

Copy == CopyRefused \/ CopySucceeds \/ CopyTooLong \/ CopyBreaks

Run ==
    \/ NoCatalogue \/ HeadSucceeds \/ HeadFails
    \/ LeaveProxied \/ Copy
    \/ \E written \in BOOLEAN : WriteDownloads(written)
    \/ WriteRepositories \/ NoRepositories \/ WriteRoot \/ RunFails

Visit ==
    \/ \E k \in DOMAIN links : FollowCopy(k) \/ FollowProxy(k)
    \/ \E p \in made : FollowListing(p)

Next == Run \/ Visit

Spec == Init /\ [][Next]_vars

(* The steps of a run follow one another; every request has a timeout. *)
FairSpec == Spec /\ WF_vars(Run)

-----------------------------------------------------------------------------
(* Properties.                                                             *)

ListedOnce(i) == \A j \in Items : catalogue[j] = catalogue[i] => j = i

(* A link to a copy leads to a file that is there, that is all of the body
   it was made from, and that has the size the menu shows, even if other
   copies broke off or went over the limit (mirror's checks and the caller's
   fallback).  A path the catalogue lists twice is created, and truncated, a
   second time, and is left out. *)
CopiesAreWhole ==
    \A k \in DOMAIN links :
        links[k].copied /\ ListedOnce(links[k].item) =>
            LET p == catalogue[links[k].item]
            IN /\ p \in made
               /\ stored[p].size = stored[p].of
               /\ stored[p].size = links[k].size

(* The menu has exactly one link for every entry that still resolved, in the
   order of the catalogue, whatever became of the copies (writeDownloads'
   loop and its continue). *)
MenuFollowsCatalogue ==
    /\ {links[k].item : k \in DOMAIN links} = (1..at - 1) \ omitted
    /\ \A k, l \in DOMAIN links : k < l => links[k].item < links[l].item

(* A visitor takes part of an artifact for all of it only from the listing
   that stands in for a missing gophermap, from the proxy at its limit, or
   from a path listed twice: no menu leads to the remains of a failed copy
   (mirror's error returns, Proxy.Handle's LimitReader). *)
DownloadIsWhole ==
    got.size # got.of =>
        \/ got.by = "listing"
        \/ got.by = "proxy" /\ got.size = ProxyLimit
        \/ got.by = "copy" /\ \E i \in Items : ~ ListedOnce(i)

(* The part's own menu links to menus that were written, and nothing is
   published without it (Run's error returns, some fatal and some only
   logged). *)
RootLinksLead ==
    /\ root \subseteq menus
    /\ phase = "published" => "root" \in menus

(* Together: every entry that resolves is linked, to all of it. *)
DownloadsAreSound ==
    CopiesAreWhole /\ MenuFollowsCatalogue /\ DownloadIsWhole /\ RootLinksLead

(* The run ends, published or not, whatever upstream answers. *)
RunEnds == <>(phase \in {"published", "failed"})

=============================================================================
