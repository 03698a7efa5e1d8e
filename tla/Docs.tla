-------------------------------- MODULE Docs --------------------------------
(***************************************************************************)
(* The documentation ingest: ncsdocs.go's Run.  A pool of workers fetches  *)
(* every listed source file; the .rst files among those that came become   *)
(* documents, joined by their toctrees into a graph; the graph is walked   *)
(* from the entry point; and each document the walk found is written as a  *)
(* text and a menu, pulling in the files it includes.                      *)
(*                                                                         *)
(* Files are numbers in the order their names sort, and a document is      *)
(* known by its file.  What the files say is data: toctrees, includes and  *)
(* labels.  Selectors are taken to be distinct.                            *)
(***************************************************************************)
EXTENDS Naturals, FiniteSets, Sequences, Functions

CONSTANTS NListed,   \* files in the listing: listSource keeps .rst and .txt
          RstFiles,  \* those of them that are documents
          Extras,    \* files of the repository outside the listing
          Entry,     \* Cfg.Entry
          Toctrees,  \* what the documents' toctrees may say, globs expanded
          Includes,  \* the files each document's conversion asks for
          Defines,   \* the labels each document defines
          Uses,      \* and those it refers to
          Workers,   \* Cfg.Workers
          MaxDocs    \* Cfg.MaxDocs; 0 is no limit

Listed == 1..NListed
Files == Listed \cup Extras
Labels == UNION {Defines[d] : d \in RstFiles}

ASSUME FilesAssumption ==
    /\ NListed \in Nat /\ IsFiniteSet(Extras)
    /\ RstFiles \subseteq Listed
    /\ Extras \subseteq Nat \ (Listed \cup {0})
    /\ Entry \in RstFiles
ASSUME TextsAssumption ==
    /\ Toctrees \subseteq [RstFiles -> Seq(RstFiles)]
    /\ Includes \in [RstFiles -> SUBSET Files]
    /\ DOMAIN Defines = RstFiles /\ DOMAIN Uses = RstFiles
ASSUME LimitsAssumption == MaxDocs \in Nat /\ IsFiniteSet(Workers)

VARIABLES phase,     \* how far Run has got
          sent,      \* the listed files handed to the workers: 1..sent
          worker,    \* the file each worker fetches
          sources,   \* the keys of in.sources
          asked,     \* how often each file was asked of in.Raw
          docs,      \* the keys of docs
          children,  \* each document's children
          agenda,    \* the calls of walk still to come
          order,     \* the documents the walk has found
          at,        \* where in order the writing is
          pending,   \* what the document at hand still includes
          texts,     \* documents whose index.txt is written
          menus,     \* and whose menu is written
          skipped    \* documents whose writing failed

vars == <<phase, sent, worker, sources, asked, docs, children, agenda, order,
          at, pending, texts, menus, skipped>>
fetchVars == <<sent, worker>>
graphVars == <<docs, children>>
walkVars == <<agenda, order>>
writeVars == <<at, pending, texts, menus, skipped>>

Idle == 0            \* receiving from jobs; files are numbered from 1
Gone == NListed + 1  \* returned: jobs is closed

\* An extra may have the number Gone: no worker ever holds an extra.
TypeOK ==
    /\ phase \in {"list", "fetch", "walk", "text", "menu", "done", "failed"}
    /\ sent \in 0..NListed
    /\ worker \in [Workers -> Listed \cup {Idle, Gone}]
    /\ sources \subseteq Files
    /\ asked \in [Files -> Nat]
    /\ docs \subseteq RstFiles
    /\ children \in [RstFiles -> Seq(RstFiles)]
    /\ agenda \in Seq(RstFiles)
    /\ order \in Seq(RstFiles) /\ Len(order) <= Cardinality(RstFiles)
    /\ at \in 1..Len(order) + 1
    /\ pending \subseteq Files
    /\ texts \subseteq RstFiles /\ menus \subseteq texts
    /\ skipped \subseteq RstFiles

(* Nothing has been fetched, walked or written. *)
Untouched ==
    /\ sent = 0
    /\ worker = [w \in Workers |-> Idle]
    /\ sources = {}
    /\ asked = [f \in Files |-> 0]
    /\ docs = {}
    /\ children = [d \in RstFiles |-> <<>>]
    /\ agenda = <<>>
    /\ order = <<>>
    /\ at = 1
    /\ pending = {}
    /\ texts = {}
    /\ menus = {}
    /\ skipped = {}

Init == phase = "list" /\ Untouched

-----------------------------------------------------------------------------
(* listSource: the listing comes whole or the run fails. *)
List ==
    /\ phase = "list"
    /\ phase' \in {"fetch", "failed"}
    /\ UNCHANGED <<fetchVars, sources, asked, graphVars, walkVars, writeVars>>

(* jobs is not buffered: a file is sent when a worker is there to take it. *)
Take(w) ==
    /\ phase = "fetch"
    /\ worker[w] = Idle
    /\ sent < NListed
    /\ sent' = sent + 1
    /\ worker' = [worker EXCEPT ![w] = sent + 1]
    /\ UNCHANGED <<phase, sources, asked, graphVars, walkVars, writeVars>>

(* Mutant: a worker returns on an error. *)
DeliverOrDie(w) ==
    /\ worker[w] \in Listed
    /\ asked' = [asked EXCEPT ![worker[w]] = @ + 1]
    /\ \/ /\ sources' = sources \cup {worker[w]}
          /\ worker' = [worker EXCEPT ![w] = Idle]
       \/ /\ worker' = [worker EXCEPT ![w] = Gone]
          /\ UNCHANGED sources
    /\ UNCHANGED <<phase, sent, graphVars, walkVars, writeVars>>

(* The fetch is over; a file that cannot be had is only counted. *)
Deliver(w) ==
    /\ worker[w] \in Listed
    /\ asked' = [asked EXCEPT ![worker[w]] = @ + 1]
    /\ worker' = [worker EXCEPT ![w] = Idle]
    /\ sources' \in {sources, sources \cup {worker[w]}}
    /\ UNCHANGED <<phase, sent, graphVars, walkVars, writeVars>>

(* Every file is sent and jobs is closed: the worker's loop ends. *)
Return(w) ==
    /\ phase = "fetch"
    /\ worker[w] = Idle
    /\ sent = NListed
    /\ worker' = [worker EXCEPT ![w] = Gone]
    /\ UNCHANGED <<phase, sent, sources, asked, graphVars, walkVars, writeVars>>

(* parseDocs.  resolveToctree and expandGlob keep of a toctree what was
   fetched, so children is any choice of toctrees that names nothing else. *)
ParseDocs ==
    /\ docs' = RstFiles \cap sources
    /\ children' \in {t \in Toctrees : \A d \in RstFiles :
                         IF d \in sources THEN Range(t[d]) \subseteq sources
                         ELSE t[d] = <<>>}

(* Mutant: wg does not count the workers. *)
CollectEarly ==
    /\ phase = "fetch"
    /\ sent = NListed
    /\ \/ /\ sources = {}
          /\ phase' = "failed"
          /\ UNCHANGED <<graphVars, agenda>>
       \/ /\ sources # {}
          /\ ParseDocs
          /\ agenda' = <<Entry>>
          /\ phase' = "walk"
    /\ UNCHANGED <<fetchVars, sources, asked, order, writeVars>>

(* With every file sent, wg.Wait returns once every worker has; when none came
   the run fails. *)
Collect ==
    /\ phase = "fetch"
    /\ sent = NListed
    /\ \A w \in Workers : worker[w] = Gone
    /\ \/ /\ sources = {}
          /\ phase' = "failed"
          /\ UNCHANGED <<graphVars, agenda>>
       \/ /\ sources # {}
          /\ ParseDocs
          /\ agenda' = <<Entry>>
          /\ phase' = "walk"
    /\ UNCHANGED <<fetchVars, sources, asked, order, writeVars>>

-----------------------------------------------------------------------------
Skippable(d) == d \in Range(order) \/ d \notin docs

(* Mutant: seen is not kept. *)
VisitUnmarked ==
    /\ phase = "walk" /\ agenda # <<>>
    /\ LET d == Head(agenda) IN
       \/ /\ d \notin docs
          /\ agenda' = Tail(agenda)
          /\ UNCHANGED order
       \/ /\ d \in docs
          /\ order' = Append(order, d)
          /\ agenda' = children[d] \o Tail(agenda)
    /\ UNCHANGED <<phase, fetchVars, sources, asked, graphVars, writeVars>>

(* Mutant: a document met again ends the walk of what comes after it. *)
VisitBreaks ==
    /\ phase = "walk" /\ agenda # <<>>
    /\ LET d == Head(agenda) IN
       \/ /\ Skippable(d)
          /\ agenda' = <<>>
          /\ UNCHANGED order
       \/ /\ ~Skippable(d)
          /\ order' = Append(order, d)
          /\ agenda' = children[d] \o Tail(agenda)
    /\ UNCHANGED <<phase, fetchVars, sources, asked, graphVars, writeVars>>

(* Mutant: the walk is breadth-first. *)
VisitQueued ==
    /\ phase = "walk" /\ agenda # <<>>
    /\ LET d == Head(agenda) IN
       \/ /\ Skippable(d)
          /\ agenda' = Tail(agenda)
          /\ UNCHANGED order
       \/ /\ ~Skippable(d)
          /\ order' = Append(order, d)
          /\ agenda' = Tail(agenda) \o children[d]
    /\ UNCHANGED <<phase, fetchVars, sources, asked, graphVars, writeVars>>

(* One call of walk: nothing for a document met before or never fetched; else
   it is next in order, and its children are walked before what was to come. *)
Visit ==
    /\ phase = "walk" /\ agenda # <<>>
    /\ LET d == Head(agenda) IN
       \/ /\ Skippable(d)
          /\ agenda' = Tail(agenda)
          /\ UNCHANGED order
       \/ /\ ~Skippable(d)
          /\ order' = Append(order, d)
          /\ agenda' = children[d] \o Tail(agenda)
    /\ UNCHANGED <<phase, fetchVars, sources, asked, graphVars, writeVars>>

(* Mutant: the limit cuts off the front. *)
TruncatedAtFront(s) ==
    IF MaxDocs > 0 /\ Len(s) > MaxDocs
    THEN SubSeq(s, Len(s) - MaxDocs + 1, Len(s)) ELSE s

Truncated(s) ==
    IF MaxDocs > 0 /\ Len(s) > MaxDocs THEN SubSeq(s, 1, MaxDocs) ELSE s

(* The turn of the i-th document of o, or the end of the run. *)
Turn(o, i) ==
    /\ at' = i
    /\ pending' = IF i <= Len(o) THEN Includes[o[i]] ELSE {}
    /\ phase' = IF i <= Len(o) THEN "text" ELSE "done"

(* Run cuts the walk's documents down to MaxDocs and starts writing. *)
StartWriting ==
    /\ phase = "walk" /\ agenda = <<>>
    /\ order' = Truncated(order)
    /\ Turn(order', 1)
    /\ UNCHANGED <<fetchVars, sources, asked, graphVars, agenda, texts, menus,
                   skipped>>

-----------------------------------------------------------------------------
(* Mutant: fetchExtra does not remember a failure. *)
IncludeForgetful ==
    /\ phase = "text"
    /\ \E f \in pending :
         /\ pending' = pending \ {f}
         /\ \/ /\ f \in sources
               /\ UNCHANGED <<sources, asked>>
            \/ /\ f \notin sources
               /\ asked' = [asked EXCEPT ![f] = @ + 1]
               /\ sources' \in {sources, sources \cup {f}}
    /\ UNCHANGED <<phase, fetchVars, graphVars, walkVars, at, texts, menus,
                   skipped>>

(* includer and fetchExtra: a file in.sources does not have is asked for, and
   entered there, with what came or empty. *)
Include ==
    /\ phase = "text"
    /\ \E f \in pending :
         /\ pending' = pending \ {f}
         /\ \/ /\ f \in sources
               /\ UNCHANGED <<sources, asked>>
            \/ /\ f \notin sources
               /\ asked' = [asked EXCEPT ![f] = @ + 1]
               /\ sources' = sources \cup {f}
    /\ UNCHANGED <<phase, fetchVars, graphVars, walkVars, at, texts, menus,
                   skipped>>

(* writeDoc writes the text, *)
WriteText ==
    /\ phase = "text" /\ pending = {}
    /\ texts' = texts \cup {order[at]}
    /\ phase' = "menu"
    /\ UNCHANGED <<fetchVars, sources, asked, graphVars, walkVars, at, pending,
                   menus, skipped>>

(* and then the menu. *)
WriteMenu ==
    /\ phase = "menu"
    /\ menus' = menus \cup {order[at]}
    /\ Turn(order, at + 1)
    /\ UNCHANGED <<fetchVars, sources, asked, graphVars, walkVars, texts,
                   skipped>>

(* Either may fail, and the document is skipped as far as it got. *)
WriteFails ==
    /\ \/ phase = "text" /\ pending = {}
       \/ phase = "menu"
    /\ skipped' = skipped \cup {order[at]}
    /\ Turn(order, at + 1)
    /\ UNCHANGED <<fetchVars, sources, asked, graphVars, walkVars, texts, menus>>

-----------------------------------------------------------------------------
Fetch(w) == Take(w) \/ Deliver(w) \/ Return(w)

Main ==
    \/ List \/ Collect
    \/ Visit \/ StartWriting
    \/ Include \/ WriteText \/ WriteMenu \/ WriteFails

Next == Main \/ \E w \in Workers : Fetch(w)

Spec == Init /\ [][Next]_vars

(* A fetch ends, for the client times out, and the goroutines are scheduled. *)
FairSpec == Spec /\ WF_vars(Main) /\ \A w \in Workers : WF_vars(Fetch(w))

-----------------------------------------------------------------------------
Lists(p, c) == c \in Range(children[p])

(* Mutant: labels resolve to documents that are not written. *)
IsTargetAnywhere(d, l) ==
    /\ d \in docs /\ l \in Defines[d]
    /\ \A e \in docs : l \in Defines[e] => d <= e

(* refTargets: a label means the first document in order that defines it. *)
IsTarget(d, l) ==
    \E i \in DOMAIN order :
        /\ order[i] = d /\ l \in Defines[d]
        /\ \A j \in 1..i - 1 : l \notin Defines[order[j]]

(* What the menu of d links to: "Subpages", "Pages referenced". *)
Subpages(d) == {c \in docs \cap Range(order) : Lists(d, c)}
CrossRefs(d) == {e \in RstFiles \ {d} : \E l \in Uses[d] : IsTarget(e, l)}

-----------------------------------------------------------------------------
(* The pool loses no file and fetches none twice: a file is asked for or held
   by one worker once it is sent, never both, and when the documents are
   parsed every file has been asked for. *)
EachFetchedOnce ==
    /\ phase = "fetch" => \A f \in Listed :
          asked[f] + Cardinality({w \in Workers : worker[w] = f})
              = IF f <= sent THEN 1 ELSE 0
    /\ phase \notin {"list", "fetch", "failed"} => \A f \in Listed : asked[f] >= 1

Closed(S) == \A p \in S : Range(children[p]) \cap docs \subseteq S

(* The walk finds what can be reached from the entry point and nothing else,
   whatever cycles, repetitions and gaps the toctrees have. *)
WalkFindsReachable ==
    (phase = "walk" /\ agenda = <<>>) =>
        /\ Entry \in docs => Entry \in Range(order)
        /\ Closed(Range(order))
        /\ \A S \in SUBSET docs :
               (Closed(S) /\ (Entry \in docs => Entry \in S)) =>
                   Range(order) \subseteq S

(* p lists a, and lists b later or not at all. *)
ListsBefore(p, a, b) ==
    \E i \in DOMAIN children[p] :
        /\ children[p][i] = a
        /\ \A j \in 1..i : children[p][j] # b

(* The order is depth-first and follows the toctrees, as reachable promises:
   when b comes between p and a, which p lists before b, then b was come by
   from a document after p. *)
DepthFirst ==
    \A i, k \in DOMAIN order : \A j \in i + 1..k - 1 :
        ListsBefore(order[i], order[k], order[j]) =>
            \E m \in i + 1..j - 1 : Lists(order[m], order[j])

(* Every document that is written but the first is listed by one written
   before it, also when the limit cuts the order: no page is published that
   the pages before it do not lead to, and none is published twice. *)
PagesConnected ==
    \A i \in DOMAIN order :
        /\ \A j \in 1..i - 1 : order[j] # order[i]
        /\ order[i] # Entry => \E j \in 1..i - 1 : Lists(order[j], order[i])

(* When the run is done a menu's subpages and cross-references lead to menus,
   short of documents whose writing failed. *)
LinksLead ==
    phase = "done" =>
        \A d \in menus : Subpages(d) \cup CrossRefs(d) \subseteq menus \cup skipped

(* A file is not asked for again: one outside the listing at most once, one of
   the listing a second time only if it did not come the first. *)
AskedSparingly ==
    \A f \in Files :
        /\ asked[f] <= (IF f \in Listed THEN 2 ELSE 1)
        /\ asked[f] = 2 => f \notin docs

(* The pool and the negative cache together: every file is asked for, and
   none again for nothing. *)
FetchedSparingly == EachFetchedOnce /\ AskedSparingly

(* order is a depth-first walk of what can be reached from the entry point. *)
OrderIsAWalk == WalkFindsReachable /\ DepthFirst

(* What is published hangs together, from the first page down and across. *)
PagesHangTogether == PagesConnected /\ LinksLead

(* The run ends: the workers outlast the files whatever fails, and a toctree
   with cycles is walked to its end. *)
RunEnds == <>(phase \in {"done", "failed"})

=============================================================================
