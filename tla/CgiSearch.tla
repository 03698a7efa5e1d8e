------------------------------ MODULE CgiSearch ------------------------------
(***************************************************************************)
(* The search CGI, cmd/ngsearch: a process per query that loads the index  *)
(* of the content directory and then reads the documents it shows, one     *)
(* path at a time, while ngingest may replace the directory (Mirror).      *)
(*                                                                         *)
(* The index is one open file: what was opened is read to its end, even    *)
(* after a swap.  The documents are looked up by path when their turn      *)
(* comes.  A document read is represented by the generation it was read    *)
(* from, one that is not there by None and one that is not read by Unread; *)
(* the line quoted from it, if any, is left out.                           *)
(***************************************************************************)
EXTENDS Integers, Sequences, FiniteSets

CONSTANTS Gens,     \* see Mirror
          Queries,  \* the processes the hosting daemon runs at once
          DocsOf,   \* the documents of each generation
          Dotted,   \* those of them with ".." in their selector
          Limit     \* -results; 0 is no limit

Documents == UNION {DocsOf[g] : g \in Gens}

ASSUME GensAssumption == Gens \subseteq Nat \ {0}
ASSUME DocsAssumption ==
    DOMAIN DocsOf = Gens /\ \A g \in Gens : IsFiniteSet(DocsOf[g])
ASSUME DottedAssumption == Dotted \subseteq Documents
ASSUME LimitAssumption == Limit \in Nat

VARIABLES live, backup, published, rolledBack,  \* the mirror
          pc,      \* where each process is
          began,   \* history: the tree it found when it began
          opened,  \* the generation whose index it loaded
          due,     \* results whose document it has still to read
          shown    \* results it has printed, and where it read them

Env == INSTANCE Mirror

mirror == <<live, backup, published, rolledBack>>
local == <<pc, began, opened, due, shown>>
vars == <<mirror, local>>

None == Env!None
Unread == -1
Result == [doc : Documents, read : Gens \cup {None, Unread}]

TypeOK ==
    /\ Env!TypeOK
    /\ pc \in [Queries -> {"idle", "load", "match", "quote", "answered", "refused"}]
    /\ began \in [Queries -> Gens \cup {None}]
    /\ opened \in [Queries -> Gens \cup {None}]
    /\ due \in [Queries -> Seq(Documents)]
    /\ shown \in [Queries -> Seq(Result)]

Init ==
    /\ Env!Init
    /\ pc = [q \in Queries |-> "idle"]
    /\ began = [q \in Queries |-> None]
    /\ opened = [q \in Queries |-> None]
    /\ due = [q \in Queries |-> <<>>]
    /\ shown = [q \in Queries |-> <<>>]

-----------------------------------------------------------------------------
GoTo(q, label) == pc' = [pc EXCEPT ![q] = label]

(* A blank query is answered with help, before anything is opened. *)
Begin(q, blank) ==
    /\ pc[q] = "idle"
    /\ began' = [began EXCEPT ![q] = live]
    /\ GoTo(q, IF blank THEN "answered" ELSE "load")
    /\ UNCHANGED <<mirror, opened, due, shown>>

(* index.Load finds the index of the tree that is there. *)
Load(q) ==
    /\ pc[q] = "load" /\ live # None
    /\ opened' = [opened EXCEPT ![q] = live]
    /\ GoTo(q, "match")
    /\ UNCHANGED <<mirror, began, due, shown>>

(* There is no tree, or its index was cut short and is refused: the menu
   says that the search is unavailable. *)
LoadFails(q) ==
    /\ pc[q] = "load"
    /\ GoTo(q, "refused")
    /\ UNCHANGED <<mirror, began, opened, due, shown>>

(* What QueryN may return: distinct documents of an index, up to the limit. *)
Hits(g) ==
    {hits \in UNION {[1..n -> DocsOf[g]] : n \in 0..Cardinality(DocsOf[g])} :
        /\ \A i, j \in DOMAIN hits : hits[i] = hits[j] => i = j
        /\ Limit > 0 => Len(hits) <= Limit}

(* Mutant: the index is looked up again for the query. *)
MatchReopened(q) ==
    /\ pc[q] = "match"
    /\ \E hits \in Hits(IF live = None THEN opened[q] ELSE live) :
          due' = [due EXCEPT ![q] = hits]
    /\ GoTo(q, "quote")
    /\ UNCHANGED <<mirror, began, opened, shown>>

Match(q) ==
    /\ pc[q] = "match"
    /\ \E hits \in Hits(opened[q]) : due' = [due EXCEPT ![q] = hits]
    /\ GoTo(q, "quote")
    /\ UNCHANGED <<mirror, began, opened, shown>>

InLive(doc) == live # None /\ doc \in DocsOf[live]

(* Mutant: an error of reading is not looked at, and something is quoted. *)
SnippetUnchecked(doc) == {IF InLive(doc) THEN live ELSE -2}

(* Mutant: the snippet is read from the copy kept for a rollback. *)
SnippetOfBackup(doc) ==
    IF backup # None /\ doc \in DocsOf[backup] THEN {backup}
    ELSE {IF InLive(doc) THEN live ELSE None}

(* snippet: where the document is read from.  A selector with ".." is not
   followed, a document that is not there is quoted as nothing, and so is one
   whose reading fails for any other reason. *)
Snippet(doc) ==
    IF doc \in Dotted THEN {Unread}
    ELSE {Unread, IF InLive(doc) THEN live ELSE None}

Quote(q) ==
    /\ pc[q] = "quote" /\ due[q] # <<>>
    /\ \E from \in Snippet(Head(due[q])) :
          shown' = [shown EXCEPT ![q] = Append(@, [doc |-> Head(due[q]), read |-> from])]
    /\ due' = [due EXCEPT ![q] = Tail(@)]
    /\ UNCHANGED <<mirror, pc, began, opened>>

PrintResult(q) ==
    /\ pc[q] = "quote" /\ due[q] = <<>>
    /\ GoTo(q, "answered")
    /\ UNCHANGED <<mirror, began, opened, due, shown>>

(* Mutant: what an earlier process opened is used again. *)
ExitWarm(q) ==
    /\ pc[q] \in {"answered", "refused"}
    /\ shown' = [shown EXCEPT ![q] = <<>>]
    /\ GoTo(q, IF opened[q] # None THEN "match" ELSE "idle")
    /\ began' = [began EXCEPT ![q] = live]
    /\ UNCHANGED <<mirror, opened, due>>

(* The process is over; the daemon runs another for the next query. *)
Exit(q) ==
    /\ pc[q] \in {"answered", "refused"}
    /\ GoTo(q, "idle")
    /\ began' = [began EXCEPT ![q] = None]
    /\ opened' = [opened EXCEPT ![q] = None]
    /\ shown' = [shown EXCEPT ![q] = <<>>]
    /\ UNCHANGED <<mirror, due>>

Work(q) == Load(q) \/ LoadFails(q) \/ Match(q) \/ Quote(q) \/ PrintResult(q)

MirrorStep == Env!Next /\ UNCHANGED local

Next ==
    \/ \E q \in Queries :
          \/ \E blank \in BOOLEAN : Begin(q, blank)
          \/ Work(q) \/ Exit(q)
    \/ MirrorStep

Spec == Init /\ [][Next]_vars

-----------------------------------------------------------------------------
(* Properties.                                                             *)

(* The documents of one answer come from one index, each at most once and no
   more than the limit, whatever was published meanwhile: a result never
   mixes the scores of two generations (run loads the index once). *)
OneIndex ==
    \A q \in Queries :
        LET results == [i \in DOMAIN shown[q] |-> shown[q][i].doc] \o due[q]
        IN results # <<>> =>
               /\ opened[q] # None
               /\ \A i \in DOMAIN results : results[i] \in DocsOf[opened[q]]
               /\ \A i, j \in DOMAIN results : results[i] = results[j] => i = j
               /\ Limit > 0 => Len(results) <= Limit

(* Unless the operator went back to an older tree, a query is answered from
   an index not older than the tree it found when it began: a new process
   never sees what the one before it saw (a CGI starts fresh per query). *)
NeverStale ==
    \A q \in Queries : ~ rolledBack /\ opened[q] # None => opened[q] >= began[q]

(* An answer is of one index, and that one is no older than the tree the
   query found. *)
AnswersFromOneIndex == OneIndex /\ NeverStale

(* A line quoted under a result was never in the tree before the index was:
   a swap may make quotes newer than the results, not older, and down the
   list they only get newer (snippet reads by path, after Load). *)
QuotesNotOlder ==
    ~ rolledBack => \A q \in Queries : \A i \in DOMAIN shown[q] :
        LET read == shown[q][i].read
        IN read \in Gens =>
               /\ read >= opened[q]
               /\ \A j \in 1..i - 1 :
                     shown[q][j].read \in Gens => shown[q][j].read <= read

(* If the tree that is there is the one the index came from, then every
   result shown was read from it, but for those that were there and could not
   be read or have ".." in their selector: no result is without its document
   unless the mirror changed. *)
QuotesMatchMirror ==
    ~ rolledBack => \A q \in Queries : opened[q] # None /\ opened[q] = live =>
        \A i \in DOMAIN shown[q] :
            /\ shown[q][i].read \in {live, Unread}
            /\ shown[q][i].doc \in DocsOf[live]

(* What is quoted under the results follows the index they came from. *)
QuotesFollowIndex == QuotesNotOlder /\ QuotesMatchMirror

=============================================================================
