------------------------------- MODULE Corpus -------------------------------
(***************************************************************************)
(* The in-memory search corpus of the nordicgopher server                  *)
(* (internal/search/search.go: Index.corpus, treeStamp, load, Reload) over *)
(* a content directory that ngingest replaces underneath it (Mirror).      *)
(*                                                                         *)
(* A query stats the root menu, looks at the cached corpus under a read    *)
(* lock, and when the stamps differ takes the write lock, looks again and  *)
(* reads the tree file by file while the mirror goes on changing.  Every   *)
(* path is looked up on its own, so one walk may cross a swap.             *)
(*                                                                         *)
(* The modification time of a generation's root menu is represented by the *)
(* generation's number: times are distinct and renames keep them.  The     *)
(* zero time, for a root menu that cannot be looked at, is None.  A        *)
(* document is represented by the generation it was read from; one the     *)
(* walk passed over is None where no tree was in place and Unread where    *)
(* reading failed, a difference the code does not record.                  *)
(***************************************************************************)
EXTENDS Integers, FiniteSets

CONSTANTS Gens,         \* see Mirror
          Queries,      \* the connections that may be searching at once
          NoQuery,      \* nobody holds the write lock
          NFiles,       \* documents in a whole tree, in the walk's order
          Unreliable    \* those of them whose reading may fail

ASSUME GensAssumption == Gens \subseteq Nat \ {0}
ASSUME QueriesAssumption == NoQuery \notin Queries
ASSUME NFilesAssumption == NFiles \in Nat \ {0}
ASSUME UnreliableAssumption == Unreliable \subseteq 1..NFiles

VARIABLES live, backup, published, rolledBack,  \* the mirror
          docs,        \* Index.docs: what each document was read from
          cacheStamp,  \* Index.stamp
          lock,        \* who holds Index.mu for writing
          walk,        \* the file the lock's holder reads next
          loading,     \* the documents it has read so far
          pc,          \* where each query is
          stamp,       \* the root menu's time as each query read it
          answer       \* the documents each query searched

Env == INSTANCE Mirror

mirror == <<live, backup, published, rolledBack>>
cacheVars == <<docs, cacheStamp>>
loadVars == <<lock, walk, loading>>
queryVars == <<pc, stamp, answer>>
vars == <<mirror, cacheVars, loadVars, queryVars>>

None == Env!None
Unread == -1
Files == 1..NFiles
Nil == [f \in Files |-> None]
Corpora == [Files -> Gens \cup {None, Unread}]
Steps == {"idle", "check", "wait", "load", "done"}

TypeOK ==
    /\ Env!TypeOK
    /\ docs \in Corpora
    /\ cacheStamp \in Gens \cup {None}
    /\ lock \in Queries \cup {NoQuery}
    /\ walk \in 1..NFiles + 1
    /\ loading \in Corpora
    /\ pc \in [Queries -> Steps]
    /\ stamp \in [Queries -> Gens \cup {None}]
    /\ answer \in [Queries -> Corpora]

Init ==
    /\ Env!Init
    /\ docs = Nil
    /\ cacheStamp = None
    /\ lock = NoQuery
    /\ walk = 1
    /\ loading = Nil
    /\ pc = [q \in Queries |-> "idle"]
    /\ stamp = [q \in Queries |-> None]
    /\ answer = [q \in Queries |-> Nil]

-----------------------------------------------------------------------------
GoTo(q, label) == pc' = [pc EXCEPT ![q] = label]

Unlocked == lock = NoQuery

(* A walk that has not appended one document leaves the slice nil. *)
Loaded(corpus) == \E f \in Files : corpus[f] \in Gens

(* Mutant: a loaded corpus is never out of date. *)
HitWheneverLoaded(q) == Loaded(docs)

(* docs != nil && stamp.Equal(ix.stamp) *)
Hit(q) == Loaded(docs) /\ stamp[q] = cacheStamp

Answer(q, corpus) ==
    /\ answer' = [answer EXCEPT ![q] = corpus]
    /\ GoTo(q, "done")

(* treeStamp, before any lock is taken; whatever goes wrong with the root menu
   makes it the zero time. *)
Begin(q) ==
    /\ pc[q] = "idle"
    /\ \E s \in {live, None} : stamp' = [stamp EXCEPT ![q] = s]
    /\ GoTo(q, "check")
    /\ UNCHANGED <<mirror, cacheVars, loadVars, answer>>

(* The look under RLock; nothing else happens while it is held. *)
Check(q) ==
    /\ pc[q] = "check"
    /\ Unlocked
    /\ \/ Hit(q) /\ Answer(q, docs)
       \/ ~Hit(q) /\ GoTo(q, "wait") /\ UNCHANGED answer
    /\ UNCHANGED <<mirror, cacheVars, loadVars, stamp>>

(* Lock, the second look, and the start of the walk: a root directory that is
   missing at that moment ends it at once. *)
Acquire(q) ==
    /\ pc[q] = "wait"
    /\ Unlocked
    /\ \/ /\ Hit(q)
          /\ Answer(q, docs)
          /\ UNCHANGED loadVars
       \/ /\ ~Hit(q)
          /\ lock' = q
          /\ loading' = Nil
          /\ walk' = IF live = None THEN NFiles + 1 ELSE 1
          /\ GoTo(q, "load")
          /\ UNCHANGED answer
    /\ UNCHANGED <<mirror, cacheVars, stamp>>

(* Mutant: the walk goes one file too far. *)
ReadFileTooMany(q) ==
    /\ pc[q] = "load"
    /\ walk <= NFiles + 1
    /\ loading' = [loading EXCEPT ![walk] = live]
    /\ walk' = walk + 1
    /\ UNCHANGED <<mirror, cacheVars, lock, queryVars>>

(* One file of the walk: read from whatever tree is there now.  If there is
   none, or if the file, its size or its directory cannot be read, it is passed
   over and the walk goes on. *)
ReadFile(q) ==
    /\ pc[q] = "load"
    /\ walk <= NFiles
    /\ \/ loading' = [loading EXCEPT ![walk] = live]
       \/ walk \in Unreliable /\ loading' = [loading EXCEPT ![walk] = Unread]
    /\ walk' = walk + 1
    /\ UNCHANGED <<mirror, cacheVars, lock, queryVars>>

(* Mutant: the corpus is stamped after the walk instead of before it. *)
FinishStampsLate(q) ==
    /\ pc[q] = "load"
    /\ walk = NFiles + 1
    /\ docs' = loading
    /\ cacheStamp' = live
    /\ lock' = NoQuery
    /\ walk' = 1
    /\ loading' = Nil
    /\ Answer(q, loading)
    /\ UNCHANGED <<mirror, stamp>>

(* Mutant: the write lock is not released. *)
FinishKeepsLock(q) ==
    /\ pc[q] = "load"
    /\ walk = NFiles + 1
    /\ docs' = loading
    /\ cacheStamp' = stamp[q]
    /\ Answer(q, loading)
    /\ UNCHANGED <<mirror, lock, walk, loading, stamp>>

(* The corpus is kept under the stamp read before the lock was asked for. *)
Finish(q) ==
    /\ pc[q] = "load"
    /\ walk = NFiles + 1
    /\ docs' = loading
    /\ cacheStamp' = stamp[q]
    /\ lock' = NoQuery
    /\ walk' = 1
    /\ loading' = Nil
    /\ Answer(q, loading)
    /\ UNCHANGED <<mirror, stamp>>

(* The connection is closed and its slot taken by another visitor. *)
Close(q) ==
    /\ pc[q] = "done"
    /\ stamp' = [stamp EXCEPT ![q] = None]
    /\ answer' = [answer EXCEPT ![q] = Nil]
    /\ GoTo(q, "idle")
    /\ UNCHANGED <<mirror, cacheVars, loadVars>>

(* Index.Reload, exported for the embedding program. *)
Reload ==
    /\ Unlocked
    /\ docs' = Nil
    /\ cacheStamp' = None
    /\ UNCHANGED <<mirror, loadVars, queryVars>>

MirrorStep ==
    /\ Env!Next
    /\ UNCHANGED <<cacheVars, loadVars, queryVars>>

Next ==
    \/ \E q \in Queries :
          \/ Begin(q) \/ Check(q) \/ Acquire(q)
          \/ ReadFile(q) \/ Finish(q) \/ Close(q)
    \/ Reload
    \/ MirrorStep

Spec == Init /\ [][Next]_vars

(* A goroutine holding the lock runs; sync.RWMutex lets a waiting writer in
   before later readers and hands itself to a waiter that has starved, so a
   query that waits gets its turn whenever the lock keeps being released.
   Nobody owes a query, a Reload or a swap. *)
Fairness ==
    \A q \in Queries :
        /\ SF_vars(Check(q)) /\ SF_vars(Acquire(q))
        /\ WF_vars(ReadFile(q)) /\ WF_vars(Finish(q))

FairSpec == Spec /\ Fairness

-----------------------------------------------------------------------------
(* The cached corpus under the stamp of the tree now at <out> is of that tree:
   no mixture of two generations and no hole left by the moment between Swap's
   renames is ever taken for it.  What it lacks are files whose reading failed,
   and these it goes on lacking.  A rollback brings back a stamp, so this is
   said of a mirror that has not been rolled back. *)
CacheCoherent ==
    (~rolledBack /\ Loaded(docs) /\ cacheStamp # None /\ cacheStamp = live) =>
        \A f \in Files : docs[f] \in {live, Unread}

(* A query that began while a tree was in place never searches a document
   older than that tree, unless the operator has gone back to one. *)
NoStaleAnswer ==
    \A q \in Queries : (~rolledBack /\ pc[q] = "done" /\ stamp[q] # None) =>
        \A f \in Files : answer[q][f] \in Gens => answer[q][f] >= stamp[q]

(* A query during which the mirror did not change searched the tree that is
   there, all of it that could be read, whoever loaded it and whenever. *)
AnswerMatchesMirror ==
    \A q \in Queries : (~rolledBack /\ pc[q] = "done" /\ stamp[q] # None /\ stamp[q] = live) =>
        \A f \in Files : answer[q][f] \in {live, Unread}

(* An answer is computed from documents that are at least as new as the tree
   its query found, and from that tree's, but for those that could not be read,
   if it is still there. *)
AnswersAreSound == NoStaleAnswer /\ AnswerMatchesMirror

(* Every query is answered, whatever the others and the mirror do. *)
QueriesAnswered ==
    \A q \in Queries : pc[q] = "check" ~> pc[q] = "done"

(* What DEPLOY says of its rollback recipe, "the next request serves the
   restored tree": no document of another tree is cached under its stamp. *)
RollbackIsNoticed ==
    (rolledBack /\ Loaded(docs) /\ cacheStamp # None /\ cacheStamp = live) =>
        \A f \in Files : docs[f] \in Gens => docs[f] = live

=============================================================================
