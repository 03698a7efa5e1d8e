---------------------------- MODULE CorpusProof -----------------------------
(***************************************************************************)
(* Corpus, for any number of queries, files and generations: as long as    *)
(* the operator has not rolled the mirror back, the cached corpus and      *)
(* every answer agree with the stamp they are filed under.                 *)
(***************************************************************************)
EXTENDS Corpus, TLAPS

(* The live tree is the newest that was ever published. *)
LiveIsNewest ==
    live # None => live \in published /\ \A p \in published : p <= live

StampsArePublished ==
    /\ cacheStamp \in published \cup {None}
    /\ \A q \in Queries : stamp[q] \in published \cup {None}

(* The first n documents of c were read after the root menu had stamp s:
   none is older than s, and while s is live they are of it or unread. *)
ReadUnder(c, s, n) ==
    s # None =>
        \A f \in 1..n : /\ c[f] \in Gens => c[f] >= s
                        /\ s = live => c[f] \in {live, Unread}

LoaderHoldsLock ==
    \A q \in Queries : pc[q] = "load" <=> lock = q

Faithful ==
    /\ TypeOK
    /\ LiveIsNewest
    /\ StampsArePublished
    /\ LoaderHoldsLock
    /\ Loaded(docs) => ReadUnder(docs, cacheStamp, NFiles)
    /\ \A q \in Queries : pc[q] = "load" => ReadUnder(loading, stamp[q], walk - 1)
    /\ \A q \in Queries : pc[q] = "done" => ReadUnder(answer[q], stamp[q], NFiles)

(* A rollback ends the promise, not the types. *)
IInv == TypeOK /\ (~rolledBack => Faithful)

-----------------------------------------------------------------------------
LEMMA InitTypes == Init => TypeOK
<1> SUFFICES ASSUME Init PROVE TypeOK
  OBVIOUS
<1>1. rolledBack \in BOOLEAN
  BY DEF Init, Env!Init
<1>2. Env!TypeOK
  BY <1>1 DEF Init, Env!Init, Env!TypeOK
<1>3. Nil \in Corpora
  BY DEF Nil, Corpora
<1>4. walk \in 1..NFiles + 1
  BY NFilesAssumption DEF Init
<1>5. QED
  BY <1>2, <1>3, <1>4 DEF Init, TypeOK, Steps

LEMMA InitFaithful == Init => Faithful
BY InitTypes, QueriesAssumption, GensAssumption
   DEF Init, Loaded, Nil, Faithful, Env!Init, None, Env!None, LiveIsNewest,
       StampsArePublished, LoaderHoldsLock

LEMMA MirrorTypeStep ==
    ASSUME Env!TypeOK, Env!Next
    PROVE  Env!TypeOK'
BY DEF Env!TypeOK, Env!Next, Env!DropBackup, Env!Retire, Env!Install,
       Env!SetAside, Env!Restore, Env!None

LEMMA TypeStep == TypeOK /\ [Next]_vars => TypeOK'
<1> SUFFICES ASSUME TypeOK, [Next]_vars PROVE TypeOK'
  OBVIOUS
<1> USE QueriesAssumption, NFilesAssumption
    DEF TypeOK, GoTo, Answer, Steps
<1>1. ASSUME NEW q \in Queries, Begin(q) PROVE TypeOK'
  <2>1. live \in Gens \cup {None} /\ published \cup {None} \subseteq Gens \cup {None}
    BY DEF Env!TypeOK, None
  <2>2. stamp' \in [Queries -> Gens \cup {None}]
    BY <1>1, <2>1 DEF Begin
  <2>3. QED BY <1>1, <2>2 DEF Begin, mirror, cacheVars, loadVars, Env!TypeOK
<1>2. ASSUME NEW q \in Queries, Check(q) PROVE TypeOK'
  BY <1>2 DEF Check, mirror, cacheVars, loadVars, Env!TypeOK
<1>3. ASSUME NEW q \in Queries, Acquire(q) PROVE TypeOK'
  <2>1. Nil \in Corpora /\ NFiles + 1 \in 1..NFiles + 1 /\ 1 \in 1..NFiles + 1
    BY DEF Nil, Corpora
  <2>2. QED BY <1>3, <2>1 DEF Acquire, mirror, cacheVars, loadVars, Env!TypeOK
<1>4. ASSUME NEW q \in Queries, ReadFile(q) PROVE TypeOK'
  <2>1. loading' \in Corpora
    BY <1>4 DEF ReadFile, Corpora, Files, Env!TypeOK, None
  <2>2. QED BY <1>4, <2>1 DEF ReadFile, mirror, cacheVars, queryVars, Env!TypeOK
<1>5. ASSUME NEW q \in Queries, Finish(q) PROVE TypeOK'
  <2>1. Nil \in Corpora /\ 1 \in 1..NFiles + 1
    BY DEF Nil, Corpora
  <2>2. QED BY <1>5, <2>1 DEF Finish, mirror, Env!TypeOK
<1>6. ASSUME NEW q \in Queries, Close(q) PROVE TypeOK'
  <2>1. Nil \in Corpora
    BY DEF Nil, Corpora
  <2>2. QED BY <1>6, <2>1 DEF Close, mirror, cacheVars, loadVars, Env!TypeOK
<1>7. CASE Reload
  <2>1. Nil \in Corpora
    BY DEF Nil, Corpora
  <2>2. QED BY <1>7, <2>1 DEF Reload, mirror, loadVars, queryVars, Env!TypeOK
<1>8. CASE MirrorStep
  BY <1>8, MirrorTypeStep DEF MirrorStep, cacheVars, loadVars, queryVars
<1>9. CASE UNCHANGED vars
  BY <1>9 DEF vars, mirror, cacheVars, loadVars, queryVars, Env!TypeOK
<1>10. QED
  BY <1>1, <1>2, <1>3, <1>4, <1>5, <1>6, <1>7, <1>8, <1>9 DEF Next

(* Every variable keeps its type, with rollbacks or without. *)
THEOREM TypeCorrect == Spec => []TypeOK
<1>1. Init => TypeOK
  BY InitFaithful DEF Faithful
<1>2. TypeOK /\ [Next]_vars => TypeOK'
  BY TypeStep
<1>3. QED BY <1>1, <1>2, PTL DEF Spec

-----------------------------------------------------------------------------
(* A generation that has left <out> does not come back, so a step of the
   mirror leaves what was read under a published stamp as good as it was. *)
LEMMA MirrorStepKeepsReads ==
    ASSUME ~rolledBack', TypeOK, LiveIsNewest, Env!Next
    PROVE  /\ LiveIsNewest'
           /\ published \subseteq published'
           /\ \A s \in published : s = live' => s = live
<1> USE GensAssumption DEF TypeOK, LiveIsNewest, None, Env!None
<1>1. CASE Env!DropBackup
  BY <1>1 DEF Env!DropBackup
<1>2. CASE Env!Retire
  BY <1>2 DEF Env!Retire, Env!TypeOK
<1>3. ASSUME NEW g \in Gens, Env!Install(g)
      PROVE  /\ LiveIsNewest'
             /\ published \subseteq published'
             /\ \A s \in published : s = live' => s = live
  <2>1. published \subseteq Nat /\ g \in Nat
    BY DEF Env!TypeOK
  <2>2. QED BY <1>3, <2>1 DEF Env!Install
<1>4. QED
  BY <1>1, <1>2, <1>3 DEF Env!Next, Env!SetAside, Env!Restore

LEMMA FaithfulStep ==
    ASSUME ~rolledBack', Faithful, [Next]_vars
    PROVE  Faithful'
<1> USE QueriesAssumption, NFilesAssumption DEF GoTo, Answer
<1>a. TypeOK /\ TypeOK'
  BY TypeStep DEF Faithful
<1>1. ASSUME NEW q \in Queries, Begin(q) PROVE Faithful'
  <2>1. LiveIsNewest' /\ StampsArePublished'
    BY <1>1, <1>a DEF Begin, Faithful, TypeOK, LiveIsNewest, StampsArePublished, mirror, cacheVars
  <2>2. LoaderHoldsLock'
    BY <1>1, <1>a DEF Begin, Faithful, TypeOK, LoaderHoldsLock, loadVars
  <2>3. Loaded(docs') => ReadUnder(docs, cacheStamp, NFiles)'
    BY <1>1 DEF Begin, Faithful, ReadUnder, mirror, cacheVars
  <2>4. \A p \in Queries : pc'[p] = "load" => ReadUnder(loading, stamp[p], walk - 1)'
    BY <1>1, <1>a DEF Begin, Faithful, TypeOK, ReadUnder, mirror, loadVars
  <2>5. \A p \in Queries : pc'[p] = "done" => ReadUnder(answer[p], stamp[p], NFiles)'
    BY <1>1, <1>a DEF Begin, Faithful, TypeOK, ReadUnder, mirror
  <2>6. QED BY <1>a, <2>1, <2>2, <2>3, <2>4, <2>5 DEF Faithful
<1>2. ASSUME NEW q \in Queries, Check(q) PROVE Faithful'
  <2>1. LiveIsNewest' /\ StampsArePublished'
    BY <1>2 DEF Check, Faithful, LiveIsNewest, StampsArePublished, mirror, cacheVars
  <2>2. LoaderHoldsLock'
    BY <1>2, <1>a DEF Check, Faithful, TypeOK, LoaderHoldsLock, loadVars
  <2>3. Loaded(docs') => ReadUnder(docs, cacheStamp, NFiles)'
    BY <1>2 DEF Check, Faithful, ReadUnder, mirror, cacheVars
  <2>4. \A p \in Queries : pc'[p] = "load" => ReadUnder(loading, stamp[p], walk - 1)'
    BY <1>2, <1>a DEF Check, Faithful, TypeOK, ReadUnder, mirror, loadVars
  <2>5. \A p \in Queries : pc'[p] = "done" => ReadUnder(answer[p], stamp[p], NFiles)'
    BY <1>2, <1>a DEF Check, Hit, Faithful, TypeOK, ReadUnder, mirror
  <2>6. QED BY <1>a, <2>1, <2>2, <2>3, <2>4, <2>5 DEF Faithful
<1>3. ASSUME NEW q \in Queries, Acquire(q) PROVE Faithful'
  <2>1. LiveIsNewest' /\ StampsArePublished'
    BY <1>3 DEF Acquire, Faithful, LiveIsNewest, StampsArePublished, mirror, cacheVars
  <2>2. LoaderHoldsLock'
    BY <1>3, <1>a DEF Acquire, Unlocked, Faithful, TypeOK, LoaderHoldsLock, loadVars
  <2>3. Loaded(docs') => ReadUnder(docs, cacheStamp, NFiles)'
    BY <1>3 DEF Acquire, Faithful, ReadUnder, mirror, cacheVars
  <2>4. \A p \in Queries : pc'[p] = "load" => ReadUnder(loading, stamp[p], walk - 1)'
    <3>1. SUFFICES ASSUME NEW p \in Queries, pc'[p] = "load"
                   PROVE  ReadUnder(loading, stamp[p], walk - 1)'
      OBVIOUS
    <3>2. p = q /\ pc[p] = "wait" /\ loading' = Nil /\ walk' = (IF live = None THEN NFiles + 1 ELSE 1)
      BY <1>3, <1>a, <2>2, <3>1 DEF Acquire, Unlocked, Faithful, TypeOK, LoaderHoldsLock, loadVars
    <3>3. stamp' = stamp /\ live' = live
      BY <1>3 DEF Acquire, mirror
    <3>4. CASE live = None
      BY <3>2, <3>3, <3>4, GensAssumption DEF ReadUnder, Nil, Files, None, Env!None
    <3>5. CASE live # None
      BY <3>2, <3>3, <3>5 DEF ReadUnder
    <3>6. QED BY <3>4, <3>5
  <2>5. \A p \in Queries : pc'[p] = "done" => ReadUnder(answer[p], stamp[p], NFiles)'
    BY <1>3, <1>a DEF Acquire, Hit, Faithful, TypeOK, ReadUnder, mirror
  <2>6. QED BY <1>a, <2>1, <2>2, <2>3, <2>4, <2>5 DEF Faithful
<1>4. ASSUME NEW q \in Queries, ReadFile(q) PROVE Faithful'
  <2>1. LiveIsNewest' /\ StampsArePublished' /\ LoaderHoldsLock'
    BY <1>4 DEF ReadFile, Faithful, LiveIsNewest, StampsArePublished, LoaderHoldsLock,
                mirror, cacheVars, queryVars
  <2>2. Loaded(docs') => ReadUnder(docs, cacheStamp, NFiles)'
    BY <1>4 DEF ReadFile, Faithful, ReadUnder, mirror, cacheVars
  <2>3. \A p \in Queries : pc'[p] = "load" => ReadUnder(loading, stamp[p], walk - 1)'
    <3>1. SUFFICES ASSUME NEW p \in Queries, pc'[p] = "load", stamp'[p] # None
                   PROVE  \A f \in 1..walk' - 1 :
                             /\ loading'[f] \in Gens => loading'[f] >= stamp'[p]
                             /\ stamp'[p] = live' => loading'[f] \in {live', Unread}
      BY DEF ReadUnder
    <3>2. pc[p] = "load" /\ stamp' = stamp /\ live' = live
      BY <1>4, <3>1 DEF ReadFile, mirror, queryVars
    <3>3. ReadUnder(loading, stamp[p], walk - 1)
      BY <3>2 DEF Faithful
    <3>4. walk \in 1..NFiles /\ walk' = walk + 1 /\ loading' \in {[loading EXCEPT ![walk] = d] : d \in {live, Unread}}
      BY <1>4, <1>a DEF ReadFile, TypeOK
    <3>5. live \in Gens => live >= stamp[p]
      BY <1>a, <3>1, <3>2, GensAssumption
         DEF Faithful, LiveIsNewest, StampsArePublished, TypeOK, Env!TypeOK, None, Env!None
    <3>8. Unread \notin Gens
      BY GensAssumption DEF Unread
    <3>6. loading'[walk] \in {live, Unread} /\ \A f \in 1..walk - 1 : loading'[f] = loading[f]
      BY <1>a, <3>4 DEF TypeOK, Corpora, Files
    <3>7. QED BY <3>1, <3>2, <3>3, <3>4, <3>5, <3>6, <3>8 DEF ReadUnder
  <2>4. \A p \in Queries : pc'[p] = "done" => ReadUnder(answer[p], stamp[p], NFiles)'
    BY <1>4 DEF ReadFile, Faithful, ReadUnder, mirror, queryVars
  <2>5. QED BY <1>a, <2>1, <2>2, <2>3, <2>4 DEF Faithful
<1>5. ASSUME NEW q \in Queries, Finish(q) PROVE Faithful'
  <2>1. ReadUnder(loading, stamp[q], NFiles)
    BY <1>5 DEF Finish, Faithful
  <2>2. LiveIsNewest' /\ StampsArePublished'
    BY <1>5, <1>a DEF Finish, Faithful, TypeOK, LiveIsNewest, StampsArePublished, mirror
  <2>3. LoaderHoldsLock'
    BY <1>5, <1>a DEF Finish, Faithful, TypeOK, LoaderHoldsLock
  <2>4. Loaded(docs') => ReadUnder(docs, cacheStamp, NFiles)'
    BY <1>5, <2>1 DEF Finish, ReadUnder, mirror
  <2>5. \A p \in Queries : pc'[p] # "load"
    BY <1>5, <1>a, <2>3 DEF Finish, LoaderHoldsLock
  <2>6. \A p \in Queries : pc'[p] = "done" => ReadUnder(answer[p], stamp[p], NFiles)'
    BY <1>5, <1>a, <2>1 DEF Finish, Faithful, TypeOK, ReadUnder, mirror
  <2>7. QED BY <1>a, <2>2, <2>3, <2>4, <2>5, <2>6 DEF Faithful
<1>6. ASSUME NEW q \in Queries, Close(q) PROVE Faithful'
  <2>1. LiveIsNewest' /\ StampsArePublished'
    BY <1>6 DEF Close, Faithful, LiveIsNewest, StampsArePublished, mirror, cacheVars
  <2>2. LoaderHoldsLock'
    BY <1>6, <1>a DEF Close, Faithful, TypeOK, LoaderHoldsLock, loadVars
  <2>3. Loaded(docs') => ReadUnder(docs, cacheStamp, NFiles)'
    BY <1>6 DEF Close, Faithful, ReadUnder, mirror, cacheVars
  <2>4. \A p \in Queries : pc'[p] = "load" => ReadUnder(loading, stamp[p], walk - 1)'
    BY <1>6, <1>a DEF Close, Faithful, TypeOK, ReadUnder, mirror, loadVars
  <2>5. \A p \in Queries : pc'[p] = "done" => ReadUnder(answer[p], stamp[p], NFiles)'
    BY <1>6, <1>a DEF Close, Faithful, TypeOK, ReadUnder, mirror
  <2>6. QED BY <1>a, <2>1, <2>2, <2>3, <2>4, <2>5 DEF Faithful
<1>7. CASE Reload
  BY <1>a, <1>7 DEF Reload, Faithful, LiveIsNewest, StampsArePublished,
                    LoaderHoldsLock, ReadUnder, Nil, mirror, loadVars, queryVars
<1>8. CASE MirrorStep
  <2>1. LiveIsNewest' /\ published \subseteq published' /\ \A s \in published : s = live' => s = live
    BY <1>8, <1>a, MirrorStepKeepsReads DEF MirrorStep, Faithful
  <2>2. UNCHANGED <<cacheVars, loadVars, queryVars>>
    BY <1>8 DEF MirrorStep
  <2>3. StampsArePublished' /\ LoaderHoldsLock'
    BY <2>1, <2>2 DEF Faithful, StampsArePublished, LoaderHoldsLock, cacheVars, loadVars, queryVars
  <2>4. ASSUME NEW c, NEW s \in published \cup {None}, NEW n, ReadUnder(c, s, n)
        PROVE  s # None => \A f \in 1..n : /\ c[f] \in Gens => c[f] >= s
                                           /\ s = live' => c[f] \in {live', Unread}
    BY <2>1, <2>4 DEF ReadUnder
  <2>5. Loaded(docs') => ReadUnder(docs, cacheStamp, NFiles)'
    BY <2>2, <2>4 DEF Faithful, StampsArePublished, ReadUnder, cacheVars
  <2>6. \A p \in Queries : pc'[p] = "load" => ReadUnder(loading, stamp[p], walk - 1)'
    BY <2>2, <2>4 DEF Faithful, StampsArePublished, ReadUnder, loadVars, queryVars
  <2>7. \A p \in Queries : pc'[p] = "done" => ReadUnder(answer[p], stamp[p], NFiles)'
    <3>1. SUFFICES ASSUME NEW p \in Queries, pc'[p] = "done"
                   PROVE  ReadUnder(answer[p], stamp[p], NFiles)'
      OBVIOUS
    <3>2. answer' = answer /\ stamp' = stamp /\ pc' = pc
      BY <2>2 DEF queryVars
    <3>3. ReadUnder(answer[p], stamp[p], NFiles) /\ stamp[p] \in published \cup {None}
      BY <3>1, <3>2 DEF Faithful, StampsArePublished
    <3>4. QED BY <2>4, <3>2, <3>3 DEF ReadUnder
  <2>8. QED BY <1>a, <2>1, <2>3, <2>5, <2>6, <2>7 DEF Faithful
<1>9. CASE UNCHANGED vars
  BY <1>a, <1>9 DEF vars, Faithful, LiveIsNewest, StampsArePublished, LoaderHoldsLock,
                    ReadUnder, mirror, cacheVars, loadVars, queryVars
<1>10. QED
  BY <1>1, <1>2, <1>3, <1>4, <1>5, <1>6, <1>7, <1>8, <1>9 DEF Next

(* Nothing takes a rollback back. *)
LEMMA RollbackStep == [Next]_vars /\ rolledBack => rolledBack'
BY DEF Next, Begin, Check, Acquire, ReadFile, Finish, Close, Reload, MirrorStep,
       vars, mirror, Env!Next, Env!DropBackup, Env!Retire, Env!Install,
       Env!SetAside, Env!Restore

LEMMA IInvHolds == Spec => []IInv
<1>1. Init => IInv
  BY InitFaithful DEF IInv, Faithful
<1>2. IInv /\ [Next]_vars => IInv'
  <2>1. SUFFICES ASSUME IInv, [Next]_vars, ~rolledBack'
                 PROVE  Faithful'
    BY TypeStep DEF IInv
  <2>2. ~rolledBack
    BY <2>1, RollbackStep
  <2>3. QED BY <2>1, <2>2, FaithfulStep DEF IInv
<1>3. QED BY <1>1, <1>2, PTL DEF Spec

(* A corpus that is cached under the live tree's stamp is of that tree, holes
   left by failing reads apart: treeStamp read before the lock makes a load
   that met a swap look out of date. *)
THEOREM CacheIsCoherent == Spec => []CacheCoherent
<1>1. IInv => CacheCoherent
  BY DEF IInv, Faithful, CacheCoherent, ReadUnder, TypeOK, Corpora, Files
<1>2. QED BY <1>1, IInvHolds, PTL

(* No query that began with a tree in place searches anything older. *)
THEOREM AnswersAreNotStale == Spec => []NoStaleAnswer
<1>1. IInv => NoStaleAnswer
  BY DEF IInv, Faithful, NoStaleAnswer, ReadUnder, Files
<1>2. QED BY <1>1, IInvHolds, PTL

(* With the mirror at rest a query searches what is there and can be read. *)
THEOREM AnswersMatchTheMirror == Spec => []AnswerMatchesMirror
<1>1. IInv => AnswerMatchesMirror
  BY DEF IInv, Faithful, AnswerMatchesMirror, ReadUnder, TypeOK, Corpora, Files
<1>2. QED BY <1>1, IInvHolds, PTL

(* Until a rollback every answer is of documents as new as the tree its query
   found, and of that tree's, unread ones apart, if it is still there. *)
THEOREM AnswersHold == Spec => []AnswersAreSound
<1>1. NoStaleAnswer /\ AnswerMatchesMirror => AnswersAreSound
  BY DEF AnswersAreSound
<1>2. QED BY <1>1, AnswersAreNotStale, AnswersMatchTheMirror, PTL

=============================================================================
