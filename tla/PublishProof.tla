---------------------------- MODULE PublishProof ----------------------------
(***************************************************************************)
(* Publish, for any number of runs, parts and faults: when the runs do not *)
(* overlap, <out> only ever holds a whole generation and the runs          *)
(* implement Mirror.                                                       *)
(***************************************************************************)
EXTENDS Publish, FiniteSetTheorems, TLAPS

(* Runs are served in order: a run that has started has only ended runs
   before it. *)
InOrder ==
    \A q, r \in Runs : q < r /\ pc[r] # "idle" => pc[q] \in Ended

(* What a run has written is in its staging directory. *)
StagingHoldsWork ==
    \A r \in Runs :
        /\ staging[r] = NoTree \/ staging[r].gen = r
        /\ pc[r] = "ingest" =>
             /\ next[r] <= NParts
             /\ staging[r].gen = r
             /\ staging[r].parts = 1..next[r] - 1
        /\ pc[r] \in {"idle", "clean", "sweep", "mkdir"} => next[r] = 1
        /\ pc[r] \in Swapping =>
             /\ next[r] = NParts + 1
             /\ staging[r] = [gen |-> r, parts |-> Parts]

(* What is at <out> and <out>.prev was published, newest first. *)
PublishedOrder ==
    /\ \A g \in published : pc[g] = "done"
    /\ Exists(dst) => dst.gen \in published
    /\ Exists(prev) => prev.gen \in published
    /\ Exists(dst) => \A g \in published : g <= dst.gen
    /\ ~Exists(dst) /\ Exists(prev) => \A g \in published : g <= prev.gen

IInv ==
    /\ TypeOK
    /\ InOrder
    /\ StagingHoldsWork
    /\ MirrorIsWhole
    /\ PublishedOrder
    /\ BackupIsPredecessor
    /\ OutageNeedsSwap

-----------------------------------------------------------------------------
(* The two places a tree's parts are counted. *)
LEMMA TreeFacts ==
    /\ NoTree \in Tree
    /\ NParts \in Parts
    /\ \A r \in Runs, P \in SUBSET Parts :
          /\ [gen |-> r, parts |-> P] \in Tree
          /\ [gen |-> r, parts |-> P] # NoTree
    /\ \A t \in Tree : Exists(t) <=> t.gen \in Runs
    /\ \A t \in Tree : t.parts \in SUBSET Parts
    /\ \A t \in Tree : \A u \in Removals(t) :
          u = NoTree \/ (Exists(t) /\ u \in Tree /\ u.gen = t.gen)
BY RunsAssumption, NPartsAssumption DEF Tree, NoTree, Exists, Parts, Removals

LEMMA InitIInv == Init => IInv
BY RunsAssumption, NPartsAssumption, MaxFaultsAssumption, TreeFacts
   DEF Init, IInv, TypeOK, InOrder, StagingHoldsWork,
       MirrorIsWhole, PublishedOrder, BackupIsPredecessor,
       OutageNeedsSwap, Exists, Active, Swapping, Ended, NoTree

LEMMA TypeStep == TypeOK /\ [Next]_vars => TypeOK'
<1> SUFFICES ASSUME TypeOK, [Next]_vars PROVE TypeOK'
  OBVIOUS
<1> USE RunsAssumption, NPartsAssumption, MaxFaultsAssumption, TreeFacts
    DEF TypeOK, GoTo, NoFault, Fault, Active, Ended, Swapping, Exists
<1>1. ASSUME NEW r \in Runs, Start(r) PROVE TypeOK'
  BY <1>1 DEF Start
<1>2. ASSUME NEW r \in Runs, CleanStaging(r) PROVE TypeOK'
  BY <1>2 DEF CleanStaging
<1>2a. ASSUME NEW r \in Runs, SweepOne(r) PROVE TypeOK'
  BY <1>2a DEF SweepOne
<1>2b. ASSUME NEW r \in Runs, SweepDone(r) PROVE TypeOK'
  BY <1>2b DEF SweepDone
<1>3. ASSUME NEW r \in Runs, MkdirTemp(r) PROVE TypeOK'
  BY <1>3 DEF MkdirTemp
<1>4. ASSUME NEW r \in Runs, WritePart(r) PROVE TypeOK'
  <2>1. [gen |-> r, parts |-> staging[r].parts \cup {next[r]}] \in Tree
    BY <1>4 DEF WritePart, Parts
  <2>2. QED BY <1>4, <2>1 DEF WritePart, AddPart
<1>5. ASSUME NEW r \in Runs, WriteIndex(r) PROVE TypeOK'
  <2>1. [gen |-> r, parts |-> staging[r].parts \cup {NParts}] \in Tree
    BY <1>5
  <2>2. QED BY <1>5, <2>1 DEF WriteIndex, AddPart
<1>6. ASSUME NEW r \in Runs, IngestFails(r) PROVE TypeOK'
  BY <1>6 DEF IngestFails
<1>7. ASSUME NEW r \in Runs, RemovePrev(r) PROVE TypeOK'
  BY <1>7 DEF RemovePrev
<1>8. ASSUME NEW r \in Runs, StatDst(r) PROVE TypeOK'
  BY <1>8 DEF StatDst
<1>9. ASSUME NEW r \in Runs, MoveOld(r) PROVE TypeOK'
  BY <1>9 DEF MoveOld
<1>10. ASSUME NEW r \in Runs, MoveNew(r) PROVE TypeOK'
  <2>1. dst' \in Tree /\ staging' \in [Runs -> Tree]
    BY <1>10 DEF MoveNew
  <2>2. pc' \in [Runs -> Active \cup Ended \cup {"idle"}] /\ published' \subseteq Runs
    BY <1>10 DEF MoveNew
  <2>3. QED BY <1>10, <2>1, <2>2 DEF MoveNew
<1>11. ASSUME NEW r \in Runs, Cleanup(r) PROVE TypeOK'
  BY <1>11 DEF Cleanup
<1>12. ASSUME NEW r \in Runs, Kill(r) PROVE TypeOK'
  BY <1>12 DEF Kill
<1>13. CASE UNCHANGED vars
  BY <1>13 DEF vars
<1>14. QED
  BY <1>1, <1>2, <1>2a, <1>2b, <1>3, <1>4, <1>5, <1>6, <1>7, <1>8, <1>9, <1>10,
     <1>11, <1>12, <1>13 DEF Next, RunStep

(* Every variable keeps its type, whether or not runs overlap. *)
THEOREM TypeCorrect == Spec => []TypeOK
<1>1. Init => TypeOK
  BY InitIInv DEF IInv
<1>2. TypeOK /\ [Next]_vars => TypeOK'
  BY TypeStep
<1>3. QED BY <1>1, <1>2, PTL DEF Spec

LEMMA IInvStep ==
    ASSUME ~Overlap, IInv, [Next]_vars
    PROVE  IInv'
<1> USE RunsAssumption, NPartsAssumption DEF GoTo, NoFault, Fault
<1>a. TypeOK /\ TypeOK'
  BY TypeStep DEF IInv
<1>b. \A q, r \in Runs : pc[q] \in Active /\ pc[r] \in Active => q = r
  BY DEF IInv, InOrder, Active, Swapping, Ended
<1>c. NoTree.gen = 0 /\ NoTree.parts = {} /\ 0 \notin Runs
  BY DEF NoTree
<1>1. ASSUME NEW r \in Runs, Start(r) PROVE IInv'
  <2>1. InOrder'
    BY <1>1 DEF Start, IInv, TypeOK, Ended, InOrder, Quiet
  <2>2. StagingHoldsWork'
    BY <1>1 DEF Start, IInv, Swapping, StagingHoldsWork
  <2>5. MirrorIsWhole'
    BY <1>1 DEF Start, IInv, MirrorIsWhole
  <2>6. PublishedOrder'
    BY <1>1 DEF Start, IInv, PublishedOrder
  <2>7. BackupIsPredecessor'
    BY <1>1 DEF Start, IInv, BackupIsPredecessor
  <2>8. OutageNeedsSwap'
    BY <1>1 DEF Start, IInv, OutageNeedsSwap
  <2>9. QED BY <1>a, <2>1, <2>2, <2>5, <2>6, <2>7, <2>8 DEF IInv
<1>2. ASSUME NEW r \in Runs, CleanStaging(r) PROVE IInv'
  <2>1. InOrder'
    BY <1>2 DEF CleanStaging, IInv, TypeOK, Ended, InOrder
  <2>2. StagingHoldsWork'
    BY <1>a, <1>2 DEF CleanStaging, IInv, TypeOK, Swapping, StagingHoldsWork
  <2>5. MirrorIsWhole'
    BY <1>2 DEF CleanStaging, IInv, MirrorIsWhole
  <2>6. PublishedOrder'
    BY <1>2 DEF CleanStaging, IInv, TypeOK, PublishedOrder
  <2>7. BackupIsPredecessor'
    BY <1>2 DEF CleanStaging, IInv, BackupIsPredecessor
  <2>8. OutageNeedsSwap'
    BY <1>2 DEF CleanStaging, IInv, TypeOK, OutageNeedsSwap
  <2>9. QED BY <1>a, <2>1, <2>2, <2>5, <2>6, <2>7, <2>8 DEF IInv
<1>2a. ASSUME NEW r \in Runs, SweepOne(r) PROVE IInv'
  <2>1. InOrder'
    BY <1>2a DEF SweepOne, IInv, TypeOK, Ended, InOrder
  <2>2. StagingHoldsWork'
    <3>1. /\ UNCHANGED <<pc, next>> /\ pc[r] = "sweep"
          /\ \A q \in Runs : q = r \/ pc[q] \notin Active
      BY <1>b, <1>2a DEF SweepOne, Active
    <3>3. \A q \in Runs : pc[q] # "ingest" /\ pc[q] \notin Swapping
      BY <3>1 DEF Active, Swapping
    <3>2. ASSUME NEW q \in Runs
          PROVE  staging'[q] = staging[q] \/ staging'[q] \in Removals(staging[q])
      BY <1>a, <1>2a DEF SweepOne, TypeOK
    <3>4. ASSUME NEW q \in Runs PROVE staging'[q] = NoTree \/ staging'[q].gen = q
      <4>1. staging[q] = NoTree \/ staging[q].gen = q
        BY DEF IInv, StagingHoldsWork
      <4>2. staging[q] \in Tree
        BY <1>a DEF TypeOK
      <4>3. QED BY <3>2, <4>1, <4>2, TreeFacts DEF Exists
    <3>5. QED BY <3>1, <3>3, <3>4 DEF IInv, StagingHoldsWork
  <2>5. MirrorIsWhole'
    BY <1>2a DEF SweepOne, IInv, MirrorIsWhole
  <2>6. PublishedOrder'
    BY <1>2a DEF SweepOne, IInv, TypeOK, PublishedOrder
  <2>7. BackupIsPredecessor'
    BY <1>2a DEF SweepOne, IInv, BackupIsPredecessor
  <2>8. OutageNeedsSwap'
    BY <1>2a DEF SweepOne, IInv, TypeOK, OutageNeedsSwap
  <2>9. QED BY <1>a, <2>1, <2>2, <2>5, <2>6, <2>7, <2>8 DEF IInv
<1>2b. ASSUME NEW r \in Runs, SweepDone(r) PROVE IInv'
  <2>1. InOrder'
    BY <1>2b DEF SweepDone, IInv, TypeOK, Ended, InOrder
  <2>2. StagingHoldsWork'
    BY <1>a, <1>2b DEF SweepDone, IInv, TypeOK, Swapping, StagingHoldsWork
  <2>5. MirrorIsWhole'
    BY <1>2b DEF SweepDone, IInv, MirrorIsWhole
  <2>6. PublishedOrder'
    BY <1>2b DEF SweepDone, IInv, TypeOK, PublishedOrder
  <2>7. BackupIsPredecessor'
    BY <1>2b DEF SweepDone, IInv, BackupIsPredecessor
  <2>8. OutageNeedsSwap'
    BY <1>2b DEF SweepDone, IInv, TypeOK, OutageNeedsSwap
  <2>9. QED BY <1>a, <2>1, <2>2, <2>5, <2>6, <2>7, <2>8 DEF IInv
<1>3. ASSUME NEW r \in Runs, MkdirTemp(r) PROVE IInv'
  <2>1. InOrder'
    BY <1>3 DEF MkdirTemp, IInv, TypeOK, Ended, InOrder
  <2>2. StagingHoldsWork'
    <3>1. \A q \in Runs \ {r} :
             staging'[q] = staging[q] /\ next'[q] = next[q] /\ pc'[q] = pc[q]
      BY <1>a, <1>3 DEF MkdirTemp, TypeOK
    <3>2. \/ staging'[r] = [gen |-> r, parts |-> {}] /\ pc'[r] = "ingest"
          \/ staging'[r] = staging[r] /\ pc'[r] = "failed"
      BY <1>a, <1>3 DEF MkdirTemp, TypeOK
    <3>3. next'[r] = 1
      BY <1>a, <1>3 DEF MkdirTemp, IInv, TypeOK, StagingHoldsWork
    <3>4. {} = 1..1 - 1
      OBVIOUS
    <3>5. ASSUME NEW q \in Runs, q # r PROVE StagingHoldsWork!(q)'
      BY <3>1, <3>5 DEF IInv, StagingHoldsWork
    <3>6. StagingHoldsWork!(r)'
      BY <3>2, <3>3, <3>4 DEF IInv, StagingHoldsWork, Swapping
    <3>7. QED BY <3>5, <3>6 DEF StagingHoldsWork
  <2>5. MirrorIsWhole'
    BY <1>3 DEF MkdirTemp, IInv, MirrorIsWhole
  <2>6. PublishedOrder'
    BY <1>3 DEF MkdirTemp, IInv, TypeOK, PublishedOrder
  <2>7. BackupIsPredecessor'
    BY <1>3 DEF MkdirTemp, IInv, BackupIsPredecessor
  <2>8. OutageNeedsSwap'
    BY <1>3 DEF MkdirTemp, IInv, TypeOK, OutageNeedsSwap
  <2>9. QED BY <1>a, <2>1, <2>2, <2>5, <2>6, <2>7, <2>8 DEF IInv
<1>4. ASSUME NEW r \in Runs, WritePart(r) PROVE IInv'
  <2>1. InOrder'
    BY <1>4 DEF WritePart, IInv, InOrder
  <2>2. StagingHoldsWork'
    <3>1. \A q \in Runs \ {r} :
             staging'[q] = staging[q] /\ next'[q] = next[q] /\ pc'[q] = pc[q]
      BY <1>a, <1>4 DEF WritePart, AddPart, TypeOK
    <3>2. /\ staging'[r] = [gen |-> r, parts |-> staging[r].parts \cup {next[r]}]
          /\ next'[r] = next[r] + 1
          /\ pc'[r] = "ingest"
      BY <1>a, <1>4 DEF WritePart, AddPart, TypeOK
    <3>3. next[r] < NParts /\ next[r] \in 1..NParts + 1 /\ staging[r].parts = 1..next[r] - 1
      BY <1>a, <1>4 DEF WritePart, IInv, TypeOK, StagingHoldsWork
    <3>4. staging[r].parts \cup {next[r]} = 1..(next[r] + 1) - 1
      BY <3>3
    <3>5. ASSUME NEW q \in Runs, q # r PROVE StagingHoldsWork!(q)'
      BY <3>1, <3>5 DEF IInv, StagingHoldsWork
    <3>6. next'[r] - 1 = next[r] /\ next'[r] <= NParts
      BY <3>2, <3>3
    <3>7. StagingHoldsWork!(r)'
      BY <3>2, <3>4, <3>6 DEF Swapping
    <3>8. QED BY <3>5, <3>7 DEF StagingHoldsWork
  <2>5. MirrorIsWhole'
    BY <1>4 DEF WritePart, IInv, MirrorIsWhole
  <2>6. PublishedOrder'
    BY <1>4 DEF WritePart, IInv, PublishedOrder
  <2>7. BackupIsPredecessor'
    BY <1>4 DEF WritePart, IInv, BackupIsPredecessor
  <2>8. OutageNeedsSwap'
    BY <1>4 DEF WritePart, IInv, OutageNeedsSwap, AddPart
  <2>9. QED BY <1>a, <2>1, <2>2, <2>5, <2>6, <2>7, <2>8 DEF IInv
<1>5. ASSUME NEW r \in Runs, WriteIndex(r) PROVE IInv'
  <2>1. InOrder'
    BY <1>5 DEF WriteIndex, IInv, TypeOK, Ended, InOrder
  <2>2. StagingHoldsWork'
    <3>1. \A q \in Runs \ {r} :
             staging'[q] = staging[q] /\ next'[q] = next[q] /\ pc'[q] = pc[q]
      BY <1>a, <1>5 DEF WriteIndex, AddPart, TypeOK
    <3>2. next[r] = NParts /\ staging[r].gen = r /\ staging[r].parts = 1..NParts - 1
      BY <1>a, <1>5 DEF WriteIndex, IInv, TypeOK, StagingHoldsWork
    <3>3. Exists(staging[r])
      BY <1>c, <3>2 DEF Exists
    <3>4. staging[r].parts \cup {NParts} = Parts
      BY <3>2 DEF Parts
    <3>5. /\ staging'[r] = [gen |-> r, parts |-> Parts]
          /\ next'[r] = NParts + 1
          /\ pc'[r] = "removePrev"
      BY <1>a, <1>5, <3>3, <3>4 DEF WriteIndex, AddPart, TypeOK
    <3>6. ASSUME NEW q \in Runs, q # r PROVE StagingHoldsWork!(q)'
      BY <3>1, <3>6 DEF IInv, StagingHoldsWork
    <3>7. StagingHoldsWork!(r)'
      BY <3>5 DEF Swapping
    <3>8. QED BY <3>6, <3>7 DEF StagingHoldsWork
  <2>5. MirrorIsWhole'
    BY <1>5 DEF WriteIndex, IInv, MirrorIsWhole
  <2>6. PublishedOrder'
    BY <1>5 DEF WriteIndex, IInv, TypeOK, PublishedOrder
  <2>7. BackupIsPredecessor'
    BY <1>5 DEF WriteIndex, IInv, BackupIsPredecessor
  <2>8. OutageNeedsSwap'
    BY <1>5 DEF WriteIndex, IInv, TypeOK, OutageNeedsSwap, AddPart
  <2>9. QED BY <1>a, <2>1, <2>2, <2>5, <2>6, <2>7, <2>8 DEF IInv
<1>6. ASSUME NEW r \in Runs, IngestFails(r) PROVE IInv'
  <2>1. InOrder'
    BY <1>6 DEF IngestFails, IInv, Ended, InOrder
  <2>2. StagingHoldsWork'
    BY <1>6 DEF IngestFails, IInv, Swapping, StagingHoldsWork
  <2>5. MirrorIsWhole'
    BY <1>6 DEF IngestFails, IInv, MirrorIsWhole
  <2>6. PublishedOrder'
    BY <1>6 DEF IngestFails, IInv, PublishedOrder
  <2>7. BackupIsPredecessor'
    BY <1>6 DEF IngestFails, IInv, BackupIsPredecessor
  <2>8. OutageNeedsSwap'
    BY <1>6 DEF IngestFails, IInv, OutageNeedsSwap
  <2>9. QED BY <1>a, <2>1, <2>2, <2>5, <2>6, <2>7, <2>8 DEF IInv
<1>7. ASSUME NEW r \in Runs, RemovePrev(r) PROVE IInv'
  <2>1. InOrder'
    BY <1>7 DEF RemovePrev, IInv, TypeOK, Ended, InOrder
  <2>2. StagingHoldsWork'
    BY <1>7 DEF RemovePrev, IInv, TypeOK, Swapping, StagingHoldsWork
  <2>5. MirrorIsWhole'
    BY <1>7 DEF RemovePrev, IInv, MirrorIsWhole
  <2>3. /\ UNCHANGED <<dst, published>>
        /\ Exists(prev') => Exists(prev) /\ prev'.gen = prev.gen
        /\ \A q \in Runs : pc[q] = "done" => pc'[q] = "done"
    BY <1>a, <1>7, TreeFacts DEF RemovePrev, TypeOK, Exists
  <2>4. PublishedOrder => PublishedOrder'
    BY <1>a, <2>3 DEF PublishedOrder, TypeOK, Exists
  <2>6. PublishedOrder'
    BY <2>4 DEF IInv
  <2>7. BackupIsPredecessor'
    BY <2>3 DEF IInv, BackupIsPredecessor, Exists
  <2>8. OutageNeedsSwap'
    BY <1>7 DEF RemovePrev, IInv, TypeOK, OutageNeedsSwap
  <2>9. QED BY <1>a, <2>1, <2>2, <2>5, <2>6, <2>7, <2>8 DEF IInv
<1>8. ASSUME NEW r \in Runs, StatDst(r) PROVE IInv'
  <2>1. InOrder'
    BY <1>8 DEF StatDst, IInv, Ended, InOrder
  <2>2. StagingHoldsWork'
    BY <1>8 DEF StatDst, IInv, Swapping, StagingHoldsWork
  <2>5. MirrorIsWhole'
    BY <1>8 DEF StatDst, IInv, MirrorIsWhole
  <2>6. PublishedOrder'
    BY <1>8 DEF StatDst, IInv, PublishedOrder
  <2>7. BackupIsPredecessor'
    BY <1>8 DEF StatDst, IInv, BackupIsPredecessor
  <2>8. OutageNeedsSwap'
    BY <1>8 DEF StatDst, IInv, OutageNeedsSwap
  <2>9. QED BY <1>a, <2>1, <2>2, <2>5, <2>6, <2>7, <2>8 DEF IInv
<1>9. ASSUME NEW r \in Runs, MoveOld(r) PROVE IInv'
  <2>1. InOrder'
    BY <1>9 DEF MoveOld, IInv, TypeOK, Ended, InOrder
  <2>2. StagingHoldsWork'
    BY <1>9 DEF MoveOld, IInv, TypeOK, Swapping, StagingHoldsWork
  <2>5. MirrorIsWhole'
    BY <1>9 DEF MoveOld, IInv, MirrorIsWhole, Exists
  <2>6. PublishedOrder'
    BY <1>9 DEF MoveOld, IInv, TypeOK, PublishedOrder, Exists
  <2>7. BackupIsPredecessor'
    BY <1>9 DEF MoveOld, IInv, BackupIsPredecessor, Exists
  <2>8. OutageNeedsSwap'
    BY <1>9
       DEF MoveOld, IInv, TypeOK, Swapping, OutageNeedsSwap, StagingHoldsWork
  <2>9. QED BY <1>a, <2>1, <2>2, <2>5, <2>6, <2>7, <2>8 DEF IInv
<1>10. ASSUME NEW r \in Runs, MoveNew(r) PROVE IInv'
  <2>1. InOrder'
    BY <1>10 DEF MoveNew, IInv, TypeOK, Ended, InOrder
  <2>2. StagingHoldsWork'
    BY <1>10 DEF MoveNew, IInv, TypeOK, Swapping, StagingHoldsWork, Parts
  <2>5. MirrorIsWhole'
    BY <1>10
       DEF MoveNew, IInv, TypeOK, Swapping, MirrorIsWhole, Whole,
           StagingHoldsWork
  <2>6. PublishedOrder'
    BY <1>a, <1>10
       DEF MoveNew, IInv, TypeOK, Ended, PublishedOrder, Renames, InOrder,
           Exists, StagingHoldsWork
  <2>7. BackupIsPredecessor'
    <3>1. \A g \in published : g < r
      <4>1. SUFFICES ASSUME NEW g \in published PROVE g < r
        OBVIOUS
      <4>2. g \in Runs /\ pc[g] = "done" /\ pc[r] = "moveNew"
        BY <1>a, <1>10 DEF MoveNew, IInv, PublishedOrder, TypeOK
      <4>3. ~(r < g)
        BY <4>2 DEF IInv, InOrder, Ended
      <4>4. QED BY <4>2, <4>3
    <3>2. CASE dst' = dst /\ published' = published
      BY <1>10, <3>2 DEF MoveNew, IInv, BackupIsPredecessor, Exists
    <3>3. CASE Renames(staging[r], dst) /\ dst' = staging[r] /\ published' = published \cup {r}
      <4>1. ~Exists(dst) /\ prev' = prev
        BY <1>10, <3>3 DEF MoveNew, Renames
      <4>5. staging[r] = [gen |-> r, parts |-> Parts]
        BY <1>10 DEF MoveNew, IInv, StagingHoldsWork, Swapping
      <4>6. dst'.gen = r
        BY <3>3, <4>5
      <4>2. Exists(prev) => prev.gen \in published /\ \A g \in published : g <= prev.gen
        BY <4>1 DEF IInv, PublishedOrder
      <4>3. published \subseteq Nat /\ r \in Nat
        BY <1>a DEF TypeOK
      <4>7. \A g \in published' : (g \in published /\ g < r) \/ g = r
        BY <3>1, <3>3
      <4>8. Exists(prev) => prev.gen < r /\ \A g \in published' : g <= prev.gen \/ g >= r
        <5>1. SUFFICES ASSUME Exists(prev)
                       PROVE  prev.gen < r /\ \A g \in published' : g <= prev.gen \/ g >= r
          OBVIOUS
        <5>2. prev.gen \in published /\ \A g \in published : g <= prev.gen
          BY <4>2, <5>1
        <5>3. prev.gen < r
          BY <3>1, <5>2
        <5>4. ASSUME NEW g \in published' PROVE g <= prev.gen \/ g >= r
          <6>1. CASE g \in published
            BY <5>2, <6>1
          <6>2. CASE g = r
            BY <4>3, <6>2
          <6>3. QED BY <4>7, <6>1, <6>2
        <5>5. QED BY <5>3, <5>4
      <4>4. QED BY <4>1, <4>6, <4>8 DEF BackupIsPredecessor, Exists
    <3>4. QED BY <1>10, <3>2, <3>3 DEF MoveNew
  <2>8. OutageNeedsSwap'
    BY <1>10 DEF MoveNew, IInv, TypeOK, OutageNeedsSwap, Renames
  <2>9. QED BY <1>a, <2>1, <2>2, <2>5, <2>6, <2>7, <2>8 DEF IInv
<1>11. ASSUME NEW r \in Runs, Cleanup(r) PROVE IInv'
  <2>1. InOrder'
    BY <1>11 DEF Cleanup, IInv, TypeOK, Ended, InOrder
  <2>2. StagingHoldsWork'
    <3>1. \A q \in Runs \ {r} :
             staging'[q] = staging[q] /\ next'[q] = next[q] /\ pc'[q] = pc[q]
      BY <1>a, <1>11 DEF Cleanup, TypeOK
    <3>2. pc'[r] \in {"cleanup", "failed"}
      BY <1>a, <1>11 DEF Cleanup, TypeOK
    <3>3. staging'[r] = NoTree \/ staging'[r].gen = r
      BY <1>a, <1>11, TreeFacts DEF Cleanup, TypeOK, IInv, StagingHoldsWork, Exists
    <3>4. ASSUME NEW q \in Runs, q # r PROVE StagingHoldsWork!(q)'
      BY <3>1, <3>4 DEF IInv, StagingHoldsWork
    <3>5. StagingHoldsWork!(r)'
      BY <3>2, <3>3 DEF Swapping
    <3>6. QED BY <3>4, <3>5 DEF StagingHoldsWork
  <2>5. MirrorIsWhole'
    BY <1>11 DEF Cleanup, IInv, MirrorIsWhole
  <2>6. PublishedOrder'
    BY <1>11 DEF Cleanup, IInv, TypeOK, PublishedOrder
  <2>7. BackupIsPredecessor'
    BY <1>11 DEF Cleanup, IInv, BackupIsPredecessor
  <2>8. OutageNeedsSwap'
    BY <1>11 DEF Cleanup, IInv, TypeOK, OutageNeedsSwap
  <2>9. QED BY <1>a, <2>1, <2>2, <2>5, <2>6, <2>7, <2>8 DEF IInv
<1>12. ASSUME NEW r \in Runs, Kill(r) PROVE IInv'
  <2>1. InOrder'
    BY <1>12 DEF Kill, IInv, Active, Swapping, Ended, InOrder
  <2>2. StagingHoldsWork'
    BY <1>12 DEF Kill, IInv, Swapping, StagingHoldsWork
  <2>5. MirrorIsWhole'
    BY <1>12 DEF Kill, IInv, MirrorIsWhole
  <2>6. PublishedOrder'
    BY <1>12 DEF Kill, IInv, Active, Swapping, PublishedOrder
  <2>7. BackupIsPredecessor'
    BY <1>12 DEF Kill, IInv, BackupIsPredecessor
  <2>8. OutageNeedsSwap'
    BY <1>12 DEF Kill, IInv, OutageNeedsSwap
  <2>9. QED BY <1>a, <2>1, <2>2, <2>5, <2>6, <2>7, <2>8 DEF IInv
<1>13. CASE UNCHANGED vars
  BY <1>a, <1>13
     DEF vars, IInv, InOrder, StagingHoldsWork,
         MirrorIsWhole, PublishedOrder, BackupIsPredecessor, OutageNeedsSwap, Whole
<1>14. QED
  BY <1>1, <1>2, <1>2a, <1>2b, <1>3, <1>4, <1>5, <1>6, <1>7, <1>8, <1>9, <1>10,
     <1>11, <1>12, <1>13 DEF Next, RunStep

LEMMA IInvHolds ==
    ASSUME ~Overlap
    PROVE  Spec => []IInv
<1>1. Init => IInv
  BY InitIInv
<1>2. IInv /\ [Next]_vars => IInv'
  BY IInvStep
<1>3. QED BY <1>1, <1>2, PTL DEF Spec

(* main.go: "a failed or partial run never replaces a working mirror".  For
   any number of runs, faults and parts, provided runs do not overlap. *)
THEOREM NoPartialTree ==
    ASSUME ~Overlap
    PROVE  Spec => []MirrorIsWhole
<1>1. IInv => MirrorIsWhole
  BY DEF IInv
<1>2. QED BY <1>1, IInvHolds, PTL

(* main.go: "The previous tree is kept alongside as <dir>.prev": what is there
   is the generation published just before the one being served. *)
THEOREM BackupIsThePreviousTree ==
    ASSUME ~Overlap
    PROVE  Spec => []BackupIsPredecessor
<1>1. IInv => BackupIsPredecessor
  BY DEF IInv
<1>2. QED BY <1>1, IInvHolds, PTL

(* The mirror only goes missing through a run that was inside Swap. *)
THEOREM OutageOnlyFromSwap ==
    ASSUME ~Overlap
    PROVE  Spec => []OutageNeedsSwap
<1>1. IInv => OutageNeedsSwap
  BY DEF IInv
<1>2. QED BY <1>1, IInvHolds, PTL

-----------------------------------------------------------------------------
(* How many staging directories there are.  A run leaves its own behind only
   by a fault, a kill or a cleanup that fails, and the next run's sweep removes
   it unless that fails too: what is still there when a run makes its own has
   cost two faults, and what a run has just left has cost one. *)
Holding == {"ingest", "cleanup"} \cup Swapping

CountInv ==
    /\ IsFiniteSet(Staged)
    /\ StagingBounded
    /\ (\A r \in Runs : pc[r] \notin Holding) => 2 * Cardinality(Staged) <= faults + 1
    /\ \A r \in Runs :
          /\ pc[r] \in Holding => r \in Staged
          /\ pc[r] = "sweep" =>
                Staged \subseteq sweep[r] \/ 2 * Cardinality(Staged) <= faults
          /\ pc[r] = "mkdir" => 2 * Cardinality(Staged) <= faults

(* The same of a run r that is at l while no other is under way. *)
CountAt(r, l) ==
    /\ IsFiniteSet(Staged)
    /\ 2 * Cardinality(Staged) <= faults + 2
    /\ l \notin Holding => 2 * Cardinality(Staged) <= faults + 1
    /\ l \in Holding => r \in Staged
    /\ l = "sweep" => Staged \subseteq sweep[r] \/ 2 * Cardinality(Staged) <= faults
    /\ l = "mkdir" => 2 * Cardinality(Staged) <= faults

LEMMA InitCountInv == Init => CountInv
<1> SUFFICES ASSUME Init PROVE CountInv
  OBVIOUS
<1>1. Staged = {} /\ faults = 0 /\ \A r \in Runs : pc[r] = "idle"
  BY DEF Init, Staged, Exists
<1>2. IsFiniteSet(Staged) /\ Cardinality(Staged) = 0
  BY <1>1, FS_EmptySet
<1>3. QED BY <1>1, <1>2 DEF CountInv, StagingBounded, Holding, Swapping

LEMMA CountStep ==
    ASSUME ~Overlap, IInv, CountInv, [Next]_vars
    PROVE  CountInv'
<1> USE DEF GoTo, NoFault, Fault
<1>a. /\ TypeOK
      /\ \A q, r \in Runs : pc[q] \in Active /\ pc[r] \in Active => q = r
  BY RunsAssumption DEF IInv, InOrder, Active, Swapping, Ended
<1>b. /\ faults \in Nat
      /\ pc \in [Runs -> Active \cup Ended \cup {"idle"}]
      /\ staging \in [Runs -> Tree]
      /\ sweep \in [Runs -> SUBSET Runs]
  BY <1>a, MaxFaultsAssumption DEF TypeOK
<1>c. Cardinality(Staged) \in Nat /\ IsFiniteSet(Staged)
  BY FS_CardinalityType DEF CountInv
<1>d. ASSUME NEW x \in Runs
      PROVE  /\ IsFiniteSet(Staged \cup {x})
             /\ Cardinality(Staged \cup {x}) <= Cardinality(Staged) + 1
             /\ IsFiniteSet(Staged \ {x})
             /\ Cardinality(Staged \ {x}) <= Cardinality(Staged)
             /\ x \in Staged => Cardinality(Staged \ {x}) = Cardinality(Staged) - 1
             /\ Cardinality(Staged \ {x}) \in Nat
             /\ Cardinality(Staged \cup {x}) \in Nat
  <2>1. /\ IsFiniteSet(Staged \cup {x})
        /\ Cardinality(Staged \cup {x}) =
              IF x \in Staged THEN Cardinality(Staged) ELSE Cardinality(Staged) + 1
    BY <1>c, FS_AddElement
  <2>2. /\ IsFiniteSet(Staged \ {x})
        /\ Cardinality(Staged \ {x}) =
              IF x \in Staged THEN Cardinality(Staged) - 1 ELSE Cardinality(Staged)
    BY <1>c, FS_RemoveElement
  <2>3. Cardinality(Staged \ {x}) \in Nat /\ Cardinality(Staged \cup {x}) \in Nat
    BY <2>1, <2>2, FS_CardinalityType
  <2>4. QED BY <1>c, <2>1, <2>2, <2>3
(* Only one run is under way, so that its place decides. *)
<1>e. ASSUME NEW r \in Runs, pc[r] \in Active, NEW l,
             pc' = [pc EXCEPT ![r] = l], CountAt(r, l)'
      PROVE  CountInv'
  <2>1. pc'[r] = l /\ \A q \in Runs : q # r => pc'[q] = pc[q] /\ pc[q] \notin Active
    BY <1>a, <1>b, <1>e
  <2>2. \A q \in Runs : q # r => pc'[q] \notin Holding \cup {"sweep", "mkdir"}
    BY <2>1 DEF Active, Holding
  <2>3. QED BY <1>e, <2>1, <2>2 DEF CountInv, CountAt, StagingBounded
(* What a run that leaves the directories alone has to answer for. *)
<1>f. ASSUME NEW r \in Runs, pc[r] \in Active \ {"idle"}, UNCHANGED staging
      PROVE  /\ Staged' = Staged
             /\ pc[r] \notin Holding => 2 * Cardinality(Staged) <= faults + 1
             /\ 2 * Cardinality(Staged) <= faults + 2
             /\ pc[r] \in Holding => r \in Staged
  <2>1. \A q \in Runs : q # r => pc[q] \notin Holding
    BY <1>a, <1>f DEF Active, Holding
  <2>2. QED BY <1>f, <2>1 DEF CountInv, Staged, StagingBounded
<1>1. ASSUME NEW r \in Runs, Start(r) PROVE CountInv'
  <2>1. /\ \A q \in Runs : pc'[q] \notin Holding \cup {"sweep", "mkdir"} /\ pc[q] \notin Holding
        /\ Staged' = Staged /\ faults' = faults
    BY <1>1, <1>b DEF Start, Quiet, Active, Holding, Swapping, Staged
  <2>2. QED BY <2>1 DEF CountInv, StagingBounded
<1>2. ASSUME NEW r \in Runs, CleanStaging(r) PROVE CountInv'
  <2>1. /\ pc[r] = "clean" /\ pc[r] \in Active /\ pc[r] \notin Holding
        /\ UNCHANGED staging
    BY <1>2 DEF CleanStaging, Active, Holding, Swapping
  <2>2. Staged' = Staged /\ 2 * Cardinality(Staged) <= faults + 1
    BY <1>f, <2>1
  <2>3. CASE sweep' = [sweep EXCEPT ![r] = Staged] /\ pc' = [pc EXCEPT ![r] = "sweep"] /\ faults' = faults
    <3>1. CountAt(r, "sweep")'
      BY <1>b, <1>c, <2>1, <2>2, <2>3 DEF CountAt, Holding, Swapping
    <3>2. QED BY <1>e, <2>1, <2>3, <3>1
  <2>4. CASE faults' = faults + 1 /\ pc' = [pc EXCEPT ![r] = "mkdir"]
    <3>1. CountAt(r, "mkdir")'
      BY <1>b, <1>c, <2>1, <2>2, <2>4 DEF CountAt, Holding, Swapping
    <3>2. QED BY <1>e, <2>1, <2>4, <3>1
  <2>5. QED BY <1>2, <2>3, <2>4 DEF CleanStaging, Staged
<1>2a. ASSUME NEW r \in Runs, SweepOne(r) PROVE CountInv'
  <2>1. /\ pc[r] = "sweep" /\ pc[r] \in Active /\ pc[r] \notin Holding
        /\ pc' = [pc EXCEPT ![r] = "sweep"]
    BY <1>2a, <1>b DEF SweepOne, Active, Holding, Swapping
  <2>2. 2 * Cardinality(Staged) <= faults + 1
    <3>1. \A q \in Runs : pc[q] \notin Holding
      BY <1>a, <2>1 DEF Active, Holding
    <3>2. QED BY <3>1 DEF CountInv
  <2>3. Staged \subseteq sweep[r] \/ 2 * Cardinality(Staged) <= faults
    BY <2>1 DEF CountInv
  <2>4. PICK q \in sweep[r] :
          \/ \E t \in Removals(staging[q]) :
                /\ staging' = [staging EXCEPT ![q] = t]
                /\ sweep' = [sweep EXCEPT ![r] =
                                IF Exists(t) THEN sweep[r] ELSE sweep[r] \ {q}]
                /\ faults' = faults
          \/ /\ faults' = faults + 1
             /\ sweep' = [sweep EXCEPT ![r] = sweep[r] \ {q}]
             /\ UNCHANGED staging
    BY <1>2a DEF SweepOne
  <2>5. q \in Runs
    BY <1>b
  <2>6. ASSUME NEW t \in Removals(staging[q]),
               staging' = [staging EXCEPT ![q] = t],
               sweep' = [sweep EXCEPT ![r] = IF Exists(t) THEN sweep[r] ELSE sweep[r] \ {q}],
               faults' = faults
        PROVE  CountInv'
    <3>1. CASE Exists(t)
      <4>1. Exists(staging[q])
        BY <1>b, <2>5, <3>1, TreeFacts DEF Exists
      <4>2. Staged' = Staged /\ sweep'[r] = sweep[r]
        BY <1>b, <2>5, <2>6, <3>1, <4>1 DEF Staged
      <4>3. CountAt(r, "sweep")'
        BY <1>b, <1>c, <2>1, <2>2, <2>3, <2>6, <4>2 DEF CountAt, Holding, Swapping
      <4>4. QED BY <1>e, <2>1, <4>3
    <3>2. CASE ~Exists(t)
      <4>1. Staged' = Staged \ {q} /\ sweep'[r] = sweep[r] \ {q}
        BY <1>b, <2>5, <2>6, <3>2 DEF Staged
      <4>2. /\ IsFiniteSet(Staged') /\ Cardinality(Staged') \in Nat
            /\ Cardinality(Staged') <= Cardinality(Staged)
        BY <1>d, <2>5, <4>1
      <4>3. Staged' \subseteq sweep'[r] \/ 2 * Cardinality(Staged') <= faults
        BY <1>b, <1>c, <2>3, <4>1, <4>2
      <4>4. CountAt(r, "sweep")'
        BY <1>b, <1>c, <2>1, <2>2, <2>6, <4>2, <4>3 DEF CountAt, Holding, Swapping
      <4>5. QED BY <1>e, <2>1, <4>4
    <3>3. QED BY <3>1, <3>2
  <2>7. CASE /\ faults' = faults + 1
             /\ UNCHANGED staging
    <3>1. Staged' = Staged
      BY <2>7 DEF Staged
    <3>2. CountAt(r, "sweep")'
      BY <1>b, <1>c, <2>1, <2>2, <2>7, <3>1 DEF CountAt, Holding, Swapping
    <3>3. QED BY <1>e, <2>1, <3>2
  <2>8. QED BY <2>4, <2>6, <2>7
<1>2b. ASSUME NEW r \in Runs, SweepDone(r) PROVE CountInv'
  <2>1. /\ pc[r] = "sweep" /\ pc[r] \in Active /\ pc[r] \notin Holding
        /\ sweep[r] = {} /\ UNCHANGED <<staging, faults>>
        /\ pc' = [pc EXCEPT ![r] = "mkdir"]
    BY <1>2b DEF SweepDone, Active, Holding, Swapping
  <2>2. Staged' = Staged /\ 2 * Cardinality(Staged) <= faults + 1
    BY <1>f, <2>1
  <2>3. Staged = {} \/ 2 * Cardinality(Staged) <= faults
    BY <2>1 DEF CountInv
  <2>4. 2 * Cardinality(Staged) <= faults
    BY <1>b, <2>3, FS_EmptySet
  <2>5. CountAt(r, "mkdir")'
    BY <1>b, <1>c, <2>1, <2>2, <2>4 DEF CountAt, Holding, Swapping
  <2>6. QED BY <1>e, <2>1, <2>5
<1>3. ASSUME NEW r \in Runs, MkdirTemp(r) PROVE CountInv'
  <2>1. pc[r] = "mkdir" /\ pc[r] \in Active /\ 2 * Cardinality(Staged) <= faults
    BY <1>3 DEF MkdirTemp, Active, CountInv
  <2>2. CASE /\ staging' = [staging EXCEPT ![r] = [gen |-> r, parts |-> {}]]
             /\ pc' = [pc EXCEPT ![r] = "ingest"] /\ faults' = faults
    <3>1. Staged' = Staged \cup {r}
      BY <1>b, <2>2, TreeFacts DEF Staged, Exists
    <3>2. /\ IsFiniteSet(Staged') /\ Cardinality(Staged') \in Nat
          /\ Cardinality(Staged') <= Cardinality(Staged) + 1
      BY <1>d, <3>1
    <3>3. CountAt(r, "ingest")'
      BY <1>b, <1>c, <2>1, <2>2, <3>1, <3>2 DEF CountAt, Holding
    <3>4. QED BY <1>e, <2>1, <2>2, <3>3
  <2>3. CASE /\ UNCHANGED staging
             /\ pc' = [pc EXCEPT ![r] = "failed"] /\ faults' = faults + 1
    <3>1. Staged' = Staged
      BY <2>3 DEF Staged
    <3>2. CountAt(r, "failed")'
      BY <1>b, <1>c, <2>1, <2>3, <3>1 DEF CountAt, Holding, Swapping
    <3>3. QED BY <1>e, <2>1, <2>3, <3>2
  <2>4. QED BY <1>3, <2>2, <2>3 DEF MkdirTemp
(* A run past MkdirTemp that keeps its directory and goes on, or ends by a
   fault. *)
<1>g. ASSUME NEW r \in Runs, pc[r] \in Active, NEW l,
             pc' = [pc EXCEPT ![r] = l], Staged' = Staged,
             \/ pc[r] \in Holding /\ l \in Holding /\ faults' \in {faults, faults + 1}
             \/ l \in Ended /\ faults' = faults + 1
      PROVE  CountInv'
  <2>1. /\ 2 * Cardinality(Staged) <= faults + 2
        /\ pc[r] \in Holding => r \in Staged
        /\ l \notin {"sweep", "mkdir"} /\ (l \in Ended => l \notin Holding)
    BY <1>g DEF CountInv, StagingBounded, Holding, Swapping, Ended
  <2>2. CountAt(r, l)'
    BY <1>b, <1>c, <1>g, <2>1 DEF CountAt
  <2>3. QED BY <1>e, <1>g, <2>2
<1>4. ASSUME NEW r \in Runs, WritePart(r) \/ WriteIndex(r) PROVE CountInv'
  <2>1. pc[r] = "ingest" /\ r \in Staged /\ pc[r] \in Active /\ Exists(staging[r])
    BY <1>4 DEF WritePart, WriteIndex, Holding, CountInv, Active, Staged
  <2>2. PICK p \in 1..NParts : AddPart(r, p)
    BY <1>4, <1>a, <2>1, NPartsAssumption DEF WritePart, WriteIndex, TypeOK
  <2>3. Staged' = Staged
    <3>1. [gen |-> r, parts |-> staging[r].parts \cup {p}] # NoTree
      BY <1>b, TreeFacts DEF Parts
    <3>2. QED BY <1>b, <2>1, <2>2, <3>1 DEF AddPart, Staged, Exists
  <2>4. /\ faults' = faults
        /\ \E l \in {"ingest", "removePrev"} : pc' = [pc EXCEPT ![r] = l]
    BY <1>4, <1>b, <2>1 DEF WritePart, WriteIndex
  <2>5. QED BY <1>g, <2>1, <2>3, <2>4 DEF Holding, Swapping
<1>6. ASSUME NEW r \in Runs, IngestFails(r) PROVE CountInv'
  BY <1>6, <1>g DEF IngestFails, Holding, Active, Staged
<1>7. ASSUME NEW r \in Runs, RemovePrev(r) PROVE CountInv'
  BY <1>7, <1>g DEF RemovePrev, Holding, Swapping, Active, Staged
<1>8. ASSUME NEW r \in Runs, StatDst(r) PROVE CountInv'
  BY <1>8, <1>g DEF StatDst, Holding, Swapping, Active, Staged
<1>9. ASSUME NEW r \in Runs, MoveOld(r) PROVE CountInv'
  BY <1>9, <1>g DEF MoveOld, Holding, Swapping, Active, Staged
(* The run's own directory has gone, to <out> or altogether. *)
<1>h. ASSUME NEW r \in Runs, pc[r] \in Active, pc[r] \in Holding, NEW l \in Ended,
             pc' = [pc EXCEPT ![r] = l], staging' = [staging EXCEPT ![r] = NoTree],
             faults' = faults
      PROVE  CountInv'
  <2>1. r \in Staged /\ 2 * Cardinality(Staged) <= faults + 2
    BY <1>h DEF CountInv, StagingBounded
  <2>2. Staged' = Staged \ {r}
    BY <1>b, <1>h DEF Staged, Exists
  <2>3. /\ IsFiniteSet(Staged') /\ Cardinality(Staged') = Cardinality(Staged) - 1
        /\ Cardinality(Staged') \in Nat
    BY <1>d, <2>1, <2>2
  <2>4. l \notin Holding /\ l \notin {"sweep", "mkdir"}
    BY DEF Ended, Holding, Swapping
  <2>5. CountAt(r, l)'
    BY <1>b, <1>c, <1>h, <2>1, <2>3, <2>4 DEF CountAt
  <2>6. QED BY <1>e, <1>h, <2>5
<1>10. ASSUME NEW r \in Runs, MoveNew(r) PROVE CountInv'
  <2>1. pc[r] = "moveNew" /\ pc[r] \in Active /\ pc[r] \in Holding
    BY <1>10 DEF MoveNew, Active, Holding, Swapping
  <2>2. CASE /\ staging' = [staging EXCEPT ![r] = NoTree] /\ faults' = faults
             /\ pc' = [pc EXCEPT ![r] = "done"]
    BY <1>h, <2>1, <2>2 DEF Ended
  <2>3. CASE UNCHANGED staging /\ faults' \in {faults, faults + 1}
             /\ pc' = [pc EXCEPT ![r] = "cleanup"]
    BY <1>g, <2>1, <2>3 DEF Holding, Staged
  <2>4. QED BY <1>10, <2>2, <2>3 DEF MoveNew
<1>11. ASSUME NEW r \in Runs, Cleanup(r) PROVE CountInv'
  <2>1. /\ pc[r] = "cleanup" /\ pc[r] \in Active /\ pc[r] \in Holding
        /\ Exists(staging[r])
    BY <1>11 DEF Cleanup, Active, Holding, CountInv, Staged
  <2>2. ASSUME NEW t \in Removals(staging[r]),
               staging' = [staging EXCEPT ![r] = t], faults' = faults,
               pc' = [pc EXCEPT ![r] = IF Exists(t) THEN "cleanup" ELSE "failed"]
        PROVE  CountInv'
    <3>1. CASE Exists(t)
      <4>1. Staged' = Staged
        BY <1>b, <2>1, <2>2, <3>1 DEF Staged
      <4>2. QED BY <1>g, <2>1, <2>2, <3>1, <4>1
    <3>2. CASE ~Exists(t)
      BY <1>h, <2>1, <2>2, <3>2 DEF Exists, Ended
    <3>3. QED BY <3>1, <3>2
  <2>3. CASE UNCHANGED staging /\ faults' = faults + 1
             /\ pc' = [pc EXCEPT ![r] = "failed"]
    BY <1>g, <2>1, <2>3 DEF Ended, Staged
  <2>4. QED BY <1>11, <2>2, <2>3 DEF Cleanup
<1>12. ASSUME NEW r \in Runs, Kill(r) PROVE CountInv'
  BY <1>12, <1>g DEF Kill, Ended, Staged
<1>13. CASE UNCHANGED vars
  BY <1>13 DEF vars, CountInv, StagingBounded, Staged
<1>14. QED
  BY <1>1, <1>2, <1>2a, <1>2b, <1>3, <1>4, <1>6, <1>7, <1>8, <1>9, <1>10,
     <1>11, <1>12, <1>13 DEF Next, RunStep

(* cleanStaging: "Without this they accumulate": they do not, unless removing
   them fails, and then no faster than the failures. *)
THEOREM StagingDoesNotPileUp ==
    ASSUME ~Overlap
    PROVE  Spec => []StagingBounded
<1>1. Init => CountInv
  BY InitCountInv
<1>2. IInv /\ CountInv /\ [Next]_vars => CountInv'
  BY CountStep
<1>3. CountInv => StagingBounded
  BY DEF CountInv
<1>4. QED BY <1>1, <1>2, <1>3, IInvHolds, PTL DEF Spec

-----------------------------------------------------------------------------
(* One fault is survived.  Before it, <out> is missing only between the two
   renames, with the old tree at <out>.prev; the fault may leave it missing,
   and then the old tree stays until the next run has a whole one in staging
   and drops it.  What that run does after is not to fail any more. *)
CopyInv ==
    /\ \A r \in Runs : pc[r] = "moveOld" => Exists(dst)
    /\ published # {} /\ faults = 0 =>
           Exists(dst) \/ (Whole(prev) /\ \E r \in Runs : pc[r] = "moveNew")
    /\ published # {} /\ faults = 1 =>
           Exists(dst) \/ Whole(prev) \/ \E r \in Runs : pc[r] \in Swapping

LEMMA CopyStep ==
    ASSUME ~Overlap, IInv, CopyInv, [Next]_vars
    PROVE  CopyInv'
<1> USE DEF GoTo, NoFault, Fault
<1>a. /\ TypeOK
      /\ \A q, r \in Runs : pc[q] \in Active /\ pc[r] \in Active => q = r
      /\ Exists(dst) => Whole(dst)
      /\ \A r \in Runs : pc[r] \in Swapping => Exists(staging[r])
  <2>1. \A q, r \in Runs : pc[q] \in Active /\ pc[r] \in Active => q = r
    BY RunsAssumption DEF IInv, InOrder, Active, Swapping, Ended
  <2>2. ASSUME NEW r \in Runs, pc[r] \in Swapping PROVE Exists(staging[r])
    <3>a. staging[r] = [gen |-> r, parts |-> Parts]
      BY <2>2 DEF IInv, StagingHoldsWork
    <3>1. staging[r].gen = r
      BY <3>a
    <3>2. NoTree.gen \notin Runs
      BY RunsAssumption DEF NoTree
    <3>3. QED BY <3>1, <3>2 DEF Exists
  <2>3. QED BY <2>1, <2>2 DEF IInv, MirrorIsWhole
<1>b. faults \in Nat /\ pc \in [Runs -> Active \cup Ended \cup {"idle"}]
  BY <1>a, MaxFaultsAssumption DEF TypeOK
(* A step that leaves the trees alone and takes no run out of the swap. *)
<1>c. ASSUME UNCHANGED <<dst, prev, published, faults>>,
             NEW r \in Runs, NEW l, pc' = [pc EXCEPT ![r] = l],
             pc[r] \notin Swapping, l # "moveOld"
      PROVE  CopyInv'
  BY <1>b, <1>c DEF CopyInv, Exists, Whole, Swapping
(* The first fault, while the mirror or its predecessor is in place. *)
<1>d. ASSUME UNCHANGED <<dst, prev, published>>, faults' = faults + 1,
             NEW r \in Runs, NEW l, pc' = [pc EXCEPT ![r] = l],
             l = "moveOld" => Exists(dst)
      PROVE  CopyInv'
  BY <1>b, <1>d DEF CopyInv, Exists, Whole
<1>1. ASSUME NEW r \in Runs, Start(r) PROVE CopyInv'
  BY <1>1, <1>c DEF Start, Swapping
<1>2. ASSUME NEW r \in Runs, CleanStaging(r) PROVE CopyInv'
  BY <1>2, <1>c, <1>d DEF CleanStaging, Swapping
<1>2a. ASSUME NEW r \in Runs, SweepOne(r) PROVE CopyInv'
  BY <1>2a, <1>b DEF SweepOne, CopyInv, Exists, Whole
<1>2b. ASSUME NEW r \in Runs, SweepDone(r) PROVE CopyInv'
  BY <1>2b, <1>c DEF SweepDone, Swapping
<1>3. ASSUME NEW r \in Runs, MkdirTemp(r) PROVE CopyInv'
  BY <1>3, <1>c, <1>d DEF MkdirTemp, Swapping
<1>4. ASSUME NEW r \in Runs, WritePart(r) PROVE CopyInv'
  BY <1>4 DEF WritePart, CopyInv, Exists, Whole
<1>5. ASSUME NEW r \in Runs, WriteIndex(r) PROVE CopyInv'
  BY <1>5, <1>c DEF WriteIndex, Swapping
<1>6. ASSUME NEW r \in Runs, IngestFails(r) PROVE CopyInv'
  BY <1>6, <1>d DEF IngestFails
<1>7. ASSUME NEW r \in Runs, RemovePrev(r) PROVE CopyInv'
  <2>1. CASE faults' = faults + 1
    BY <1>7, <2>1, <1>b, <1>d DEF RemovePrev
  <2>2. CASE faults' = faults
    <3>1. /\ pc[r] = "removePrev" /\ pc'[r] \in {"removePrev", "stat"}
          /\ \A q \in Runs : q # r => pc'[q] = pc[q]
          /\ UNCHANGED <<dst, published, faults>>
      BY <1>7, <1>b, <2>2 DEF RemovePrev
    <3>2. \A q \in Runs : pc[q] # "moveNew" /\ pc[q] # "moveOld"
      BY <1>a, <3>1 DEF Active, Swapping
    <3>3. \A q \in Runs : pc'[q] # "moveOld"
      BY <3>1, <3>2
    <3>4. pc'[r] \in Swapping
      BY <3>1 DEF Swapping
    <3>5. QED BY <3>1, <3>2, <3>3, <3>4 DEF CopyInv, Exists
  <2>3. QED BY <1>7, <2>1, <2>2 DEF RemovePrev
<1>8. ASSUME NEW r \in Runs, StatDst(r) PROVE CopyInv'
  <2>1. /\ pc[r] = "stat" /\ pc'[r] = IF Exists(dst) THEN "moveOld" ELSE "moveNew"
        /\ \A q \in Runs : q # r => pc'[q] = pc[q]
        /\ UNCHANGED <<dst, prev, published, faults>>
    BY <1>8, <1>b DEF StatDst
  <2>2. \A q \in Runs : pc[q] # "moveNew" /\ pc[q] # "moveOld"
    BY <1>a, <2>1 DEF Active, Swapping
  <2>3. \A q \in Runs : pc'[q] = "moveOld" => Exists(dst)
    BY <2>1, <2>2
  <2>4. pc'[r] \in Swapping
    BY <2>1 DEF Swapping
  <2>5. QED BY <2>1, <2>2, <2>3, <2>4 DEF CopyInv, Exists, Whole
<1>9. ASSUME NEW r \in Runs, MoveOld(r) PROVE CopyInv'
  <2>1. pc[r] = "moveOld" /\ Exists(dst)
    BY <1>9 DEF MoveOld, CopyInv
  <2>2. \A q \in Runs : q # r => pc[q] # "moveOld"
    BY <1>a, <2>1 DEF Active, Swapping
  <2>3. CASE prev' = dst /\ pc' = [pc EXCEPT ![r] = "moveNew"] /\ faults' = faults
    <3>1. Whole(prev') /\ pc'[r] = "moveNew" /\ pc'[r] \in Swapping
      BY <1>a, <1>b, <2>1, <2>3 DEF Whole, Swapping
    <3>2. \A q \in Runs : pc'[q] # "moveOld"
      BY <1>b, <2>2, <2>3
    <3>3. QED BY <2>3, <3>1, <3>2 DEF CopyInv, Whole
  <2>4. CASE pc' = [pc EXCEPT ![r] = "cleanup"] /\ UNCHANGED <<dst, prev>>
    BY <2>1, <2>4 DEF CopyInv, Exists
  <2>5. QED BY <1>9, <2>3, <2>4 DEF MoveOld
<1>10. ASSUME NEW r \in Runs, MoveNew(r) PROVE CopyInv'
  <2>1. pc[r] = "moveNew" /\ Exists(staging[r])
    BY <1>10, <1>a DEF MoveNew, Swapping
  <2>2. CASE dst' = staging[r]
    BY <2>1, <2>2 DEF CopyInv, Exists
  <2>3. CASE UNCHANGED <<dst, published>> /\ Exists(dst)
    BY <2>3 DEF CopyInv, Exists
  <2>4. CASE /\ UNCHANGED <<dst, prev, published>> /\ faults' = faults + 1
             /\ pc' = [pc EXCEPT ![r] = "cleanup"]
    BY <2>4, <1>d
  <2>5. QED BY <1>10, <2>1, <2>2, <2>3, <2>4 DEF MoveNew, Renames
<1>11. ASSUME NEW r \in Runs, Cleanup(r) PROVE CopyInv'
  BY <1>11, <1>c, <1>d DEF Cleanup, Swapping
<1>12. ASSUME NEW r \in Runs, Kill(r) PROVE CopyInv'
  BY <1>12, <1>d DEF Kill
<1>13. CASE UNCHANGED vars
  BY <1>13 DEF vars, CopyInv, Exists, Whole
<1>14. QED
  BY <1>1, <1>2, <1>2a, <1>2b, <1>3, <1>4, <1>5, <1>6, <1>7, <1>8, <1>9, <1>10,
     <1>11, <1>12, <1>13 DEF Next, RunStep

(* As long as no more than one call fails or one run is killed, a whole
   generation is somewhere on the disk: what Swap keeps <out>.prev for. *)
THEOREM OneFaultIsSurvived ==
    ASSUME ~Overlap
    PROVE  Spec => []GoodCopySurvives
<1>1. Init => CopyInv
  BY DEF Init, CopyInv
<1>2. IInv /\ CopyInv /\ [Next]_vars => CopyInv'
  BY CopyStep
<1>3. IInv /\ CopyInv => GoodCopySurvives
  <2> SUFFICES ASSUME IInv, CopyInv, published # {}, faults <= 1
               PROVE  Whole(dst) \/ Whole(prev) \/ \E r \in Runs : Whole(staging[r])
    BY DEF GoodCopySurvives
  <2>1. faults = 0 \/ faults = 1
    BY MaxFaultsAssumption DEF IInv, TypeOK
  <2>2. Exists(dst) \/ Whole(prev) \/ \E r \in Runs : pc[r] \in Swapping
    BY <2>1 DEF CopyInv
  <2>3. ASSUME NEW r \in Runs, pc[r] \in Swapping PROVE Whole(staging[r])
    <3>1. staging[r] = [gen |-> r, parts |-> Parts]
      BY <2>3 DEF IInv, StagingHoldsWork
    <3>2. QED BY <3>1 DEF Whole
  <2>4. QED BY <2>2, <2>3 DEF IInv, MirrorIsWhole
<1>4. QED BY <1>1, <1>2, <1>3, IInvHolds, PTL DEF Spec

-----------------------------------------------------------------------------
(* What Mirror sees of the two places. *)
LEMMA Abstraction ==
    ASSUME IInv
    PROVE  /\ GenAt(dst) = dst.gen
           /\ Exists(dst) <=> dst.gen # 0
           /\ Exists(dst) => Whole(dst) /\ BackupGen # dst.gen
           /\ ~Exists(prev) => BackupGen = 0
<1>1. NoTree.gen = 0 /\ 0 \notin Runs
  BY RunsAssumption DEF NoTree
<1>2. GenAt(dst) = dst.gen /\ (Exists(dst) <=> dst.gen # 0)
  BY <1>1 DEF IInv, MirrorIsWhole, GenAt, Exists, Whole
<1>3. ~Exists(prev) => BackupGen = 0
  BY <1>1 DEF BackupGen, Exists, Whole
<1>4. ASSUME Exists(dst) PROVE Whole(dst) /\ BackupGen # dst.gen
  <2>1. Whole(dst) /\ dst.gen \in Nat \ {0}
    BY <1>4, RunsAssumption DEF IInv, MirrorIsWhole, Whole
  <2>2. Exists(prev) => prev.gen < dst.gen
    BY <1>4 DEF IInv, BackupIsPredecessor
  <2>3. QED BY <1>3, <2>1, <2>2 DEF BackupGen
<1>5. QED BY <1>2, <1>3, <1>4

LEMMA StepRefines ==
    ASSUME ~Overlap, IInv, [Next]_vars
    PROVE  [M!Next]_(M!mirrorVars)
<1>1. IInv'
  BY IInvStep
<1>2. GenAt(dst) = dst.gen /\ GenAt(dst)' = dst'.gen
  BY <1>1, RunsAssumption DEF IInv, MirrorIsWhole, GenAt, Exists, Whole, NoTree
<1>3. NoTree.gen = 0 /\ 0 \notin Runs
  BY RunsAssumption DEF NoTree
<1>4. ASSUME UNCHANGED <<dst, prev, published>>
      PROVE  UNCHANGED M!mirrorVars
  BY <1>4 DEF M!mirrorVars, GenAt, BackupGen, Exists, Whole
<1>5. ASSUME NEW r \in Runs, RemovePrev(r) PROVE [M!Next]_(M!mirrorVars)
  <2>1. UNCHANGED <<dst, published>>
    BY <1>5 DEF RemovePrev
  <2>2. BackupGen' = BackupGen \/ BackupGen' = 0
    <3>1. CASE prev' = prev
      BY <3>1 DEF BackupGen, Whole
    <3>2. CASE \E p \in prev.parts : prev' = [gen |-> prev.gen, parts |-> prev.parts \ {p}]
      BY <3>2 DEF BackupGen, Whole, IInv, TypeOK, Tree, NoTree
    <3>3. CASE prev' = NoTree
      BY <1>3, <3>3 DEF BackupGen, Whole
    <3>4. QED BY <1>5, <3>1, <3>2, <3>3 DEF RemovePrev, Removals
  <2>3. QED BY <2>1, <2>2
     DEF M!Next, M!DropBackup, M!None, M!mirrorVars, GenAt, Exists, Whole
<1>6. ASSUME NEW r \in Runs, MoveOld(r) PROVE [M!Next]_(M!mirrorVars)
  <2>1. CASE UNCHANGED <<dst, prev>>
    BY <1>4, <1>6, <2>1 DEF MoveOld
  <2>2. CASE Renames(dst, prev) /\ prev' = dst /\ dst' = NoTree
    <3>1. Exists(dst) /\ ~Exists(prev) /\ published' = published
      BY <1>6, <2>2 DEF Renames, MoveOld
    <3>2. Whole(dst) /\ dst.gen # 0 /\ BackupGen = 0
      BY <3>1, Abstraction
    <3>3. BackupGen' = dst.gen
      BY <2>2, <3>2 DEF BackupGen
    <3>4. M!Retire
      BY <1>2, <1>3, <2>2, <3>1, <3>2, <3>3 DEF M!Retire, M!None
    <3>5. QED BY <3>4 DEF M!Next
  <2>3. QED BY <1>6, <2>1, <2>2 DEF MoveOld
<1>7. ASSUME NEW r \in Runs, MoveNew(r) PROVE [M!Next]_(M!mirrorVars)
  <2>1. CASE UNCHANGED <<dst, published>>
    BY <1>4, <1>7, <2>1 DEF MoveNew
  <2>2. CASE Renames(staging[r], dst) /\ dst' = staging[r] /\ published' = published \cup {r}
    <3>1. ~Exists(dst) /\ UNCHANGED prev /\ pc[r] = "moveNew"
      BY <1>7, <2>2 DEF Renames, MoveNew
    <3>2. dst.gen = 0 /\ dst'.gen = r
      <4>1. staging[r] = [gen |-> r, parts |-> Parts]
        BY <3>1 DEF IInv, StagingHoldsWork, Swapping
      <4>2. QED BY <1>3, <2>2, <3>1, <4>1 DEF Exists
    <3>3. \A g \in published : g < r
      <4>1. SUFFICES ASSUME NEW g \in published PROVE g < r
        OBVIOUS
      <4>2. g \in Runs /\ pc[g] = "done"
        BY DEF IInv, PublishedOrder, TypeOK
      <4>3. ~(r < g)
        BY <3>1, <4>2 DEF IInv, InOrder, Ended
      <4>4. QED BY <3>1, <4>2, <4>3, RunsAssumption
    <3>4. BackupGen' = BackupGen
      BY <3>1 DEF BackupGen, Whole
    <3>5. M!Install(r)
      BY <1>2, <2>2, <3>2, <3>3, <3>4 DEF M!Install, M!None
    <3>6. QED BY <3>5 DEF M!Next
  <2>3. QED BY <1>7, <2>1, <2>2 DEF MoveNew
<1>8. ASSUME NEW r \in Runs,
             \/ Start(r) \/ CleanStaging(r) \/ SweepOne(r) \/ SweepDone(r)
             \/ MkdirTemp(r) \/ WritePart(r)
             \/ WriteIndex(r) \/ IngestFails(r) \/ StatDst(r) \/ Cleanup(r)
             \/ Kill(r)
      PROVE  UNCHANGED <<dst, prev, published>>
  BY <1>8 DEF Start, CleanStaging, SweepOne, SweepDone, MkdirTemp, WritePart,
              WriteIndex, IngestFails, StatDst, Cleanup, Kill
<1>9. CASE UNCHANGED vars
  BY <1>4, <1>9 DEF vars
<1>10. QED
  BY <1>4, <1>5, <1>6, <1>7, <1>8, <1>9 DEF Next, RunStep

(* The runs implement Mirror: what readers see changes only by a deletion of
   the backup, a retirement of the live tree into it, and the installation of
   a newer whole generation. *)
THEOREM ImplementsMirror ==
    ASSUME ~Overlap
    PROVE  Spec => RefinesMirror
<1>1. Init => M!Init
  BY RunsAssumption
     DEF Init, M!Init, M!None, GenAt, BackupGen, Exists, Whole, NoTree
<1>2. IInv /\ [Next]_vars => [M!Next]_(M!mirrorVars)
  BY StepRefines
<1>3. QED BY <1>1, <1>2, IInvHolds, PTL DEF Spec, RefinesMirror, M!Spec

(* With one run at a time readers find a whole generation, and lose it for no
   longer than a swap or until a run after a failed one. *)
THEOREM ReadersHold ==
    ASSUME ~Overlap
    PROVE  Spec => []ReadersAreServed
<1>1. MirrorIsWhole /\ OutageNeedsSwap => ReadersAreServed
  BY DEF ReadersAreServed
<1>2. QED BY <1>1, NoPartialTree, OutageOnlyFromSwap, PTL

(* With one run at a time the staging directories are bounded by the faults,
   removals that fail among them, and <out>.prev is the generation before the
   one served. *)
THEOREM SiblingsHold ==
    ASSUME ~Overlap
    PROVE  Spec => []SiblingsInOrder
<1>1. StagingBounded /\ BackupIsPredecessor => SiblingsInOrder
  BY DEF SiblingsInOrder
<1>2. QED BY <1>1, StagingDoesNotPileUp, BackupIsThePreviousTree, PTL

=============================================================================
