-------------------------------- MODULE Site --------------------------------
(***************************************************************************)
(* One tree from the selectors ngingest writes into its menus to the items *)
(* a reader follows: ngingest's run and tree.Tree with a selector prefix,  *)
(* the gophermaps on the disk, and the server that nordicgopher mounts     *)
(* over the tree: route, resolve, serveTree and serveDir.                  *)
(*                                                                         *)
(* A selector is its path, a sequence of names, and whether it ends in a   *)
(* slash; "/" is the empty path.  The ingesters' parts are one page of     *)
(* each kind they write (GitHubPages, Docs and Artifacts have the rest).   *)
(***************************************************************************)
EXTENDS Naturals, Sequences, SequencesExt, FiniteSets

CONSTANT SelectorPrefixes  \* the selector prefixes: sequences of names, <<>> for none

VARIABLES prefix,  \* -selector-prefix, and the -prefix of the server
          cgi,     \* whether -search-cgi was given
          copied,  \* whether the artifact fits into the tree
          proxyOn, \* -proxy-downloads
          part,    \* what run writes next
          tree,    \* the files and gophermaps below t.Root
          meant,   \* history: the menus as they were handed to WriteMenu
          screen   \* the reply the reader has, and the item that led to it

vars == <<prefix, cgi, copied, proxyOn, part, tree, meant, screen>>
config == <<prefix, cgi, copied, proxyOn>>

-----------------------------------------------------------------------------
(* Items and menus.                                                        *)

Sel(path, slash) == [path |-> path, slash |-> slash]
Top == Sel(<<>>, TRUE)
Empty == Sel(<<>>, FALSE)

(* No host is this server; a line may be blank. *)
Item(type, display, sel, host, port) ==
    [type |-> type, display |-> display, sel |-> sel, host |-> host, port |-> port]
Link(type, display, sel) == Item(type, display, sel, "none", 0)
Info(display) == Item("i", display, Sel(<<"fake">>, FALSE), "error.host", 1)
URL(display, url) == Item("h", display, Sel(<<url>>, FALSE), "error.host", 80)
Footer == <<Info("blank"), Link("1", "Back to top", Top)>>

(* What a line may show. *)
Displays == {"blank", "words", "# words", "two words", "Back to top",
             "Read this page", "Search"}

(* Mutant: clean keeps tabs. *)
CleanNothing(display) == display

(* clean: tabs and line ends become blanks. *)
Clean(display) == IF display = "two tabbed words" THEN "two words" ELSE display
StartsWithHash(display) == display = "# words"

(* A line of a gophermap: a line without a tab is only a display. *)
Line(tab, item) == [tab |-> tab, item |-> item]
NoHost(it) == [it EXCEPT !.host = "none", !.port = 0]

(* Mutant: informational lines as Bucktooth writes them. *)
FormatBare(it) ==
    LET cleaned == [it EXCEPT !.display = Clean(@)]
    IN IF it.type = "i" /\ it.host = "error.host"
       THEN Line(FALSE, NoHost([cleaned EXCEPT !.sel = Empty]))
       ELSE Line(TRUE, IF it.host = "none" THEN NoHost(cleaned) ELSE cleaned)

Format(it) ==
    LET cleaned == [it EXCEPT !.display = Clean(@)]
    IN IF it.type = "i" /\ it.host = "error.host"
       THEN Line(TRUE, NoHost([cleaned EXCEPT !.sel = Empty]))
       ELSE Line(TRUE, IF it.host = "none" THEN NoHost(cleaned) ELSE cleaned)

(* ParseGophermap: comments are dropped, and an 'i' line gets its host. *)
Comment(line) == ~line.tab /\ StartsWithHash(line.item.display)
ParseLine(line) ==
    IF ~line.tab THEN Info(line.item.display)
    ELSE IF line.item.type = "i" /\ line.item.host = "none"
         THEN [line.item EXCEPT !.host = "error.host", !.port = 1]
         ELSE line.item
Each(op(_), items) == [k \in DOMAIN items |-> op(items[k])]
Parse(lines) ==
    LET kept == {k \in DOMAIN lines : ~Comment(lines[k])}
        Nth(n) == CHOOSE k \in kept : Cardinality({j \in kept : j <= k}) = n
    IN [n \in 1..Cardinality(kept) |-> ParseLine(lines[Nth(n)])]

(* Menu.WriteTo: items without a host are this server's. *)
Here == "this server"
Wire(it) == [it EXCEPT !.display = Clean(@),
                       !.host = IF @ = "none" THEN Here ELSE @,
                       !.port = IF @ = 0 THEN 70 ELSE @]

-----------------------------------------------------------------------------
(* tree.Tree and server.resolve: from selectors to paths below the root.   *)

StripsFrom(sel) ==
    /\ prefix # <<>> /\ IsPrefix(prefix, sel.path)
    /\ Len(sel.path) > Len(prefix) \/ sel.slash
Below(path) == SubSeq(path, Len(prefix) + 1, Len(path))

(* Mutant: the prefix is part of the layout. *)
PathOfWhole(sel) == sel.path

PathOf(sel) ==
    IF prefix # <<>> /\ sel = Sel(prefix, FALSE) THEN <<>>
    ELSE IF StripsFrom(sel) THEN Below(sel.path) ELSE sel.path

(* Mutant: the prefix itself, without a slash, is not recognised. *)
ResolveBelow(sel) == IF StripsFrom(sel) THEN Below(sel.path) ELSE sel.path

Resolve(sel) ==
    IF prefix # <<>> /\ sel = Sel(prefix, FALSE) THEN <<>>
    ELSE IF StripsFrom(sel) THEN Below(sel.path) ELSE sel.path

Menu(sel, items) == [path |-> PathOf(sel), kind |-> "menu", items |-> items]
File(sel, kind) == [path |-> PathOf(sel), kind |-> kind, items |-> <<>>]

(* WriteMenu and WriteFile, for the pages of one part. *)
Content(page) == [kind |-> page.kind, lines |-> Each(Format, page.items)]
Write(pages) ==
    LET paths == {page.path : page \in pages}
        Page(p) == CHOOSE page \in pages : page.path = p
    IN /\ tree' = [p \in DOMAIN tree \cup paths |->
                      IF p \in paths THEN Content(Page(p)) ELSE tree[p]]
       /\ meant' = [p \in DOMAIN meant \cup paths |->
                       IF p \in paths THEN Page(p).items ELSE meant[p]]

-----------------------------------------------------------------------------
(* What run writes.                                                        *)

At(path) == Sel(prefix \o path, FALSE)
Dir(path) == Sel(prefix \o path, TRUE)

GitHub ==
    LET org == <<"github", "org">> repo == org \o <<"repo">>
    IN {Menu(At(<<"github">>), <<Link("1", "words", Dir(org))>> \o Footer),
        Menu(At(org), <<Link("1", "words", Dir(repo))>> \o Footer),
        Menu(At(repo), <<Info("# words"), Link("0", "words", At(repo \o <<"readme.txt">>)),
                         Link("1", "words", Dir(repo \o <<"releases">>)),
                         URL("words", "https://repo")>> \o Footer),
        Menu(At(repo \o <<"releases">>),
             <<Link("0", "words", At(repo \o <<"releases", "v1.txt">>)),
               Link("1", "words", Dir(repo))>> \o Footer),
        File(At(repo \o <<"readme.txt">>), "text"),
        File(At(repo \o <<"releases", "v1.txt">>), "text")}

NcsDocs ==
    LET page == <<"ncs", "page">>
        Body(at) == <<Link("0", "Read this page", At(at \o <<"index.txt">>))>>
    IN {Menu(At(<<"ncs">>), Body(<<"ncs">>) \o <<Link("1", "two tabbed words", Dir(page))>> \o Footer),
        Menu(At(page), Body(page) \o <<Link("1", "words", Dir(<<"ncs">>)),
                                       URL("words", "https://page")>> \o Footer),
        File(At(<<"ncs", "index.txt">>), "text"),
        File(At(page \o <<"index.txt">>), "text")}

(* The link of an artifact that is not copied has no prefix. *)
Artifact == <<"files", "artifacts", "win", "tool">>
Proxied == Sel(<<"dl", "win", "tool">>, FALSE)
Files ==
    {Menu(At(<<"files">>), <<Link("1", "words", Dir(<<"files", "downloads">>)),
                             Link("1", "words", Dir(<<"files", "repositories">>))>> \o Footer),
     Menu(At(<<"files", "repositories">>),
          <<URL("words", "https://files"), Link("1", "words", Dir(<<"files">>))>> \o Footer),
     Menu(At(<<"files", "downloads">>),
          <<Link("9", "words", IF copied THEN At(Artifact) ELSE Proxied),
            Link("1", "words", Dir(<<"files">>))>> \o Footer)}
    \cup IF copied THEN {File(At(Artifact), "binary")} ELSE {}

SearchName == IF cgi THEN "search.cgi" ELSE "search"

(* The root menu has the fragments of the parts, the search item and the
   page about the mirror.  caps.txt and robots.txt belong to the root of a
   hole; the index is written to the path, not to a selector. *)
Root ==
    {Menu(Top, <<Info("blank"), Link("1", "words", Dir(<<"github">>)),
                 Link("1", "words", Dir(<<"ncs">>)), Link("1", "words", Dir(<<"files">>)),
                 Link("7", "Search", At(<<SearchName>>)),
                 Link("0", "words", At(<<"about.txt">>))>>),
     File(Sel(<<"about.txt">>, FALSE), "text")}

HoleFiles ==
    IF prefix # <<>> THEN {}
    ELSE {File(Sel(<<"caps.txt">>, FALSE), "text"), File(Sel(<<"robots.txt">>, FALSE), "text")}

SearchFiles ==
    {[path |-> <<"search.idx">>, kind |-> "binary", items |-> <<>>]}
    \cup IF cgi THEN {File(At(<<"search.cgi">>), "binary")} ELSE {}

Parts == <<"github", "ncsdocs", "files", "root", "search">>
PagesOf(name) ==
    CASE name = "github" -> GitHub
      [] name = "ncsdocs" -> NcsDocs
      [] name = "files" -> Files
      [] name = "root" -> Root \cup HoleFiles
      [] name = "search" -> SearchFiles

NoReply == [kind |-> "none", items |-> <<>>, followed |-> Info("blank"), at |-> Empty]

Unserved == part = 1 /\ tree = <<>> /\ meant = <<>> /\ screen = NoReply

Init ==
    /\ prefix \in SelectorPrefixes
    /\ cgi \in BOOLEAN /\ copied \in BOOLEAN /\ proxyOn \in BOOLEAN
    /\ Unserved

Ingest ==
    /\ part <= Len(Parts)
    /\ Write(PagesOf(Parts[part]))
    /\ part' = part + 1
    /\ UNCHANGED <<config, screen>>

Served == part = Len(Parts) + 1

-----------------------------------------------------------------------------
(* The server: what a selector is answered with.                           *)

Reply(kind, items) == [kind |-> kind, items |-> items]
IsDirectory(path) == \E p \in DOMAIN tree : IsStrictPrefix(path, p)

(* The mounts: /dl/ and the selector that runs search.  They are compared as
   strings: "/search" is also the beginning of "/search.cgi". *)
Downloads(sel) ==
    LET dl == prefix \o <<"dl">>
    IN IsPrefix(dl, sel.path) /\ (Len(sel.path) > Len(dl) \/ sel.slash)
Searches(sel) ==
    LET n == Len(prefix) + 1
    IN IsPrefix(prefix, sel.path) /\ Len(sel.path) >= n
       /\ sel.path[n] \in {SearchName} \cup {s \in {"search.cgi", "search.idx"} : ~cgi}

(* serveDir without a gophermap: a listing. *)
Entries(path) == {p[Len(path) + 1] : p \in {q \in DOMAIN tree : IsStrictPrefix(path, q)}}

(* Mutant: a directory is listed like a file. *)
EntryByName(sel, path, name) ==
    LET below == path \o <<name>>
        isText == below \in DOMAIN tree /\ tree[below].kind = "text"
    IN Link(IF isText THEN "0" ELSE "9", "words", Sel(sel.path \o <<name>>, FALSE))

Entry(sel, path, name) ==
    LET at == sel.path \o <<name>> below == path \o <<name>>
    IN IF IsDirectory(below) \/ (below \in DOMAIN tree /\ tree[below].kind = "menu")
       THEN Link("1", "words", Sel(at, TRUE))
       ELSE Link(IF tree[below].kind = "text" THEN "0" ELSE "9", "words", Sel(at, FALSE))
Listing(sel, path) ==
    <<Info("words"), Info("blank")>> \o
    SetToSeq({Entry(sel, path, name) : name \in Entries(path)})

(* search.Index's results: every text of the tree, by its path. *)
Results ==
    LET texts == {p \in DOMAIN tree : tree[p].kind = "text"}
    IN <<Info("words")>> \o SetToSeq({Link("0", "words", Sel(p, FALSE)) : p \in texts})
       \o <<Link("1", "Back to top", Top)>>

Answer(sel) ==
    LET path == Resolve(sel)
        isMenu == ~Searches(sel) /\ path \in DOMAIN tree /\ tree[path].kind = "menu"
        items == CASE Searches(sel) -> Results
                   [] isMenu -> Parse(tree[path].lines)
                   [] OTHER -> Listing(sel, path)
    IN IF Downloads(sel) THEN Reply(IF proxyOn THEN "binary" ELSE "refused", <<>>)
       ELSE IF Searches(sel) \/ isMenu \/ IsDirectory(path)
       THEN Reply("menu", Each(Wire, items))
       ELSE IF path \in DOMAIN tree THEN Reply(tree[path].kind, <<>>)
       ELSE Reply("not found", <<>>)

-----------------------------------------------------------------------------
(* A reader.                                                               *)

Ask(sel, item) ==
    /\ Served
    /\ screen' = [kind |-> Answer(sel).kind, items |-> Answer(sel).items,
                  followed |-> item, at |-> sel]
    /\ UNCHANGED <<config, part, tree, meant>>

(* The front page, with or without the slash at its end. *)
Open == \E sel \in {Top, Sel(prefix, FALSE), Sel(prefix, TRUE)} :
    sel # Empty /\ Ask(sel, Link("1", "words", sel))

Follow == \E k \in DOMAIN screen.items :
    LET it == screen.items[k]
    IN it.host = Here /\ Ask(it.sel, it)

(* To the directory that holds what is on the screen. *)
Up ==
    /\ screen.kind \in {"menu", "text", "binary"} /\ ~Downloads(screen.at)
    /\ Len(screen.at.path) > Len(prefix)
    /\ LET sel == Sel(Front(screen.at.path), TRUE) IN Ask(sel, Link("1", "words", sel))

Next == Ingest \/ Open \/ Follow \/ Up

Spec == Init /\ [][Next]_vars

-----------------------------------------------------------------------------
(* Properties.                                                             *)

Kinds == {"none", "menu", "text", "binary", "refused", "not found"}

TypeOK ==
    /\ prefix \in SelectorPrefixes
    /\ part \in 1..Len(Parts) + 1
    /\ \A p \in DOMAIN tree : tree[p].kind \in {"menu", "text", "binary"}
    /\ DOMAIN meant = DOMAIN tree
    /\ screen.kind \in Kinds
    /\ \A k \in DOMAIN screen.items : screen.items[k].display \in Displays

(* The layout does not depend on the prefix, so that the tree can be
   installed at <root>/<prefix>: nothing is nested below the prefix a second
   time, and a prefixed tree has no caps.txt or robots.txt, which are the
   hosting hole's. *)
OwnNames == {"github", "ncs", "files", "about.txt", "search.cgi", "search.idx"}
HoleNames == {"caps.txt", "robots.txt"}
SelfContained ==
    \A p \in DOMAIN tree :
        \/ p = <<>> \/ p[1] \in OwnNames
        \/ prefix = <<>> /\ p[1] \in HoleNames

(* What the reader sees of a menu is what the ingester put into it, line by
   line, but for the selectors of lines that cannot be selected. *)
Seen(it) == IF it.type = "i" THEN [it EXCEPT !.sel = Empty] ELSE it
MenusAsMeant ==
    LET path == Resolve(screen.at)
    IN screen.kind = "menu" /\ ~Searches(screen.at) /\ path \in DOMAIN meant =>
           Each(Seen, screen.items) = Each(LAMBDA it : Seen(Wire(it)), meant[path])

(* Nothing a reader can come to says "not found", but for the link of a
   proxied artifact in a prefixed tree. *)
DeadLink == prefix # <<>> /\ screen.at = Proxied
NoDeadEnd == screen.kind = "not found" => DeadLink

(* What an item promises is what it leads to: a menu, a text or bytes. *)
AsPromised ==
    screen.kind \in {"menu", "text", "binary"} =>
        screen.kind = CASE screen.followed.type \in {"1", "7"} -> "menu"
                        [] screen.followed.type = "0" -> "text"
                        [] screen.followed.type = "9" -> "binary"

(* Together: the tree and the screen are well formed, every menu reads as it
   was meant, and every link leads to what it promises, with and without a
   prefix. *)
ReaderFindsAll ==
    TypeOK /\ SelfContained /\ MenusAsMeant /\ NoDeadEnd /\ AsPromised

(* Every selector of the tree's menus carries the prefix. *)
SelectorsCarryPrefix ==
    \A p \in DOMAIN meant : \A k \in DOMAIN meant[p] :
        meant[p][k].host = "none" => IsPrefix(prefix, meant[p][k].sel.path)

=============================================================================
