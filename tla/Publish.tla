------------------------------ MODULE Publish -------------------------------
(***************************************************************************)
(* The life of ngingest runs: cmd/ngingest/main.go (run, cleanStaging) and *)
(* internal/tree/tree.go (Swap).  A run sweeps old staging directories,    *)
(* makes its own, writes the tree into it part by part, and swaps it into  *)
(* place with four separate file-system calls.  A run may be killed        *)
(* between any two of its steps (systemd's TimeoutStartSec, a power cut),  *)
(* in which case its deferred cleanup does not happen, and any call that   *)
(* can fail may fail: the errors of every removal are dropped.             *)
(*                                                                         *)
(* A run is a number and names the generation it produces.  A tree is the  *)
(* set of its parts: one for each enabled ingester, one for the root menu  *)
(* and the pages beside it, one for the search index.                      *)
(***************************************************************************)
EXTENDS Integers, FiniteSets

CONSTANTS Runs,       \* the ngingest invocations, numbered in starting order
          NParts,     \* parts of a whole tree; the last is search.idx
          MaxFaults,  \* bound on kills and failing calls
          Overlap     \* TRUE: runs by hand beside the unit; FALSE: oneshot unit

ASSUME RunsAssumption == Runs \subseteq Nat \ {0}
ASSUME NPartsAssumption == NParts \in Nat /\ NParts >= 2
ASSUME MaxFaultsAssumption == MaxFaults \in Nat
ASSUME OverlapAssumption == Overlap \in BOOLEAN

VARIABLES pc,        \* where each run is
          next,      \* the next part each run writes
          sweep,     \* whose directories each run's cleanStaging has still to remove
          staging,   \* the .ngingest-* directory of each run
          dst,       \* the tree at <out>
          prev,      \* the tree at <out>.prev
          faults,    \* faults so far
          published  \* history: the generations installed at <out> so far

vars == <<pc, next, sweep, staging, dst, prev, faults, published>>

Parts == 1..NParts
NoTree == [gen |-> 0, parts |-> {}]
Tree == [gen : Runs, parts : SUBSET Parts] \cup {NoTree}
Exists(t) == t # NoTree
Whole(t) == t.gen \in Runs /\ t.parts = Parts

Swapping == {"removePrev", "stat", "moveOld", "moveNew"}
Active == {"clean", "sweep", "mkdir", "ingest", "cleanup"} \cup Swapping
Ended == {"done", "failed", "killed"}

TypeOK ==
    /\ pc \in [Runs -> Active \cup Ended \cup {"idle"}]
    /\ next \in [Runs -> 1..NParts + 1]
    /\ sweep \in [Runs -> SUBSET Runs]
    /\ staging \in [Runs -> Tree]
    /\ dst \in Tree
    /\ prev \in Tree
    /\ faults \in 0..MaxFaults
    /\ published \subseteq Runs

Init ==
    /\ pc = [r \in Runs |-> "idle"]
    /\ next = [r \in Runs |-> 1]
    /\ sweep = [r \in Runs |-> {}]
    /\ staging = [r \in Runs |-> NoTree]
    /\ dst = NoTree
    /\ prev = NoTree
    /\ faults = 0
    /\ published = {}

-----------------------------------------------------------------------------
GoTo(r, label) == pc' = [pc EXCEPT ![r] = label]

Quiet == \A r \in Runs : pc[r] \notin Active

(* A fault is possible: one more is counted. *)
Fault ==
    /\ faults < MaxFaults
    /\ faults' = faults + 1

NoFault == UNCHANGED faults

(* The timer, or somebody by hand, starts ngingest. *)
Start(r) ==
    /\ pc[r] = "idle"
    /\ \A q \in Runs : q < r => pc[q] # "idle"
    /\ Overlap \/ Quiet
    /\ GoTo(r, "clean")
    /\ UNCHANGED <<next, sweep, staging, dst, prev, faults, published>>

(* One step of os.RemoveAll: entry by entry, the directory itself last; what
   is not there is removed already. *)
Removals(t) ==
    {[gen |-> t.gen, parts |-> t.parts \ {p}] : p \in t.parts} \cup
    {u \in {NoTree} : t.parts = {}}

(* Mutant: the run looks for abandoned directories where there are none. *)
CleanStagingElsewhere(r) ==
    /\ pc[r] = "clean"
    /\ GoTo(r, "sweep")
    /\ UNCHANGED <<next, sweep, staging, dst, prev, faults, published>>

(* cleanStaging reads the directory <out> is in: it means to remove every
   .ngingest-* directory there, whoever made it.  If it cannot be read nothing
   is removed, and the run goes on. *)
CleanStaging(r) ==
    /\ pc[r] = "clean"
    /\ \/ /\ sweep' = [sweep EXCEPT ![r] = {q \in Runs : Exists(staging[q])}]
          /\ GoTo(r, "sweep")
          /\ NoFault
       \/ /\ Fault
          /\ GoTo(r, "mkdir")
          /\ UNCHANGED sweep
    /\ UNCHANGED <<next, staging, dst, prev, published>>

(* cleanStaging's os.RemoveAll of one directory after the other.  Its error is
   not looked at: what it could not remove stays. *)
SweepOne(r) ==
    /\ pc[r] = "sweep"
    /\ \E q \in sweep[r] :
          \/ \E t \in Removals(staging[q]) :
                /\ staging' = [staging EXCEPT ![q] = t]
                /\ sweep' = [sweep EXCEPT ![r] =
                                IF Exists(t) THEN sweep[r] ELSE sweep[r] \ {q}]
                /\ NoFault
          \/ /\ Fault
             /\ sweep' = [sweep EXCEPT ![r] = sweep[r] \ {q}]
             /\ UNCHANGED staging
    /\ UNCHANGED <<pc, next, dst, prev, published>>

SweepDone(r) ==
    /\ pc[r] = "sweep"
    /\ sweep[r] = {}
    /\ GoTo(r, "mkdir")
    /\ UNCHANGED <<next, sweep, staging, dst, prev, faults, published>>

MkdirTemp(r) ==
    /\ pc[r] = "mkdir"
    /\ \/ /\ staging' = [staging EXCEPT ![r] = [gen |-> r, parts |-> {}]]
          /\ GoTo(r, "ingest")
          /\ NoFault
       \/ /\ Fault
          /\ GoTo(r, "failed")
          /\ UNCHANGED staging
    /\ UNCHANGED <<next, sweep, dst, prev, published>>

(* Mutant: the part that is written is the one after the next. *)
AddPartOffByOne(r, p) ==
    /\ staging' = [staging EXCEPT ![r] =
                     [gen |-> r, parts |-> staging[r].parts \cup {p + 1}]]
    /\ next' = [next EXCEPT ![r] = p + 1]

AddPart(r, p) ==
    /\ staging' = [staging EXCEPT ![r] =
                     [gen |-> r, parts |-> staging[r].parts \cup {p}]]
    /\ next' = [next EXCEPT ![r] = p + 1]

(* One ingester, or the root pages: WriteMenu, WriteFile and Create make the
   directories they miss, so a staging directory that was swept away comes
   back holding only what is written from here on. *)
WritePart(r) ==
    /\ pc[r] = "ingest"
    /\ next[r] < NParts
    /\ AddPart(r, next[r])
    /\ UNCHANGED <<pc, sweep, dst, prev, faults, published>>

(* index.Build and ix.WriteFile, which makes no directories: it fails when the
   staging directory has gone. *)
WriteIndex(r) ==
    /\ pc[r] = "ingest"
    /\ next[r] = NParts
    /\ IF Exists(staging[r])
       THEN /\ AddPart(r, NParts)
            /\ GoTo(r, "removePrev")
       ELSE /\ GoTo(r, "cleanup")
            /\ UNCHANGED <<staging, next>>
    /\ UNCHANGED <<sweep, dst, prev, faults, published>>

(* Mutant: run logs an ingester's error and goes on to the swap. *)
IngestFailsUnheeded(r) ==
    /\ pc[r] = "ingest"
    /\ Fault
    /\ GoTo(r, "removePrev")
    /\ UNCHANGED <<next, sweep, staging, dst, prev, published>>

(* An ingester or a write returns an error: run returns it. *)
IngestFails(r) ==
    /\ pc[r] = "ingest"
    /\ Fault
    /\ GoTo(r, "cleanup")
    /\ UNCHANGED <<next, sweep, staging, dst, prev, published>>

(* os.RemoveAll(prev), whose error is not looked at. *)
RemovePrev(r) ==
    /\ pc[r] = "removePrev"
    /\ \/ /\ \E t \in Removals(prev) :
                /\ prev' = t
                /\ GoTo(r, IF Exists(t) THEN "removePrev" ELSE "stat")
          /\ NoFault
       \/ /\ Exists(prev)
          /\ Fault
          /\ GoTo(r, "stat")
          /\ UNCHANGED prev
    /\ UNCHANGED <<next, sweep, staging, dst, published>>

(* Mutant: Swap does not look whether there is an old tree. *)
StatDstSkipped(r) ==
    /\ pc[r] = "stat"
    /\ GoTo(r, "moveOld")
    /\ UNCHANGED <<next, sweep, staging, dst, prev, faults, published>>

(* os.Stat(dst) *)
StatDst(r) ==
    /\ pc[r] = "stat"
    /\ GoTo(r, IF Exists(dst) THEN "moveOld" ELSE "moveNew")
    /\ UNCHANGED <<next, sweep, staging, dst, prev, faults, published>>

(* os.Rename fails when the source is missing or a directory is in the way. *)
Renames(from, to) == Exists(from) /\ ~Exists(to)

(* Mutant: Swap deletes the old tree instead of keeping it, *)
MoveOldDeletes(r) ==
    /\ pc[r] = "moveOld"
    /\ dst' = NoTree
    /\ GoTo(r, "moveNew")
    /\ UNCHANGED <<next, sweep, staging, prev, faults, published>>

(* or when the place for it is taken. *)
MoveOldMakesWay(r) ==
    /\ pc[r] = "moveOld"
    /\ prev' = IF Exists(prev) THEN prev ELSE dst
    /\ dst' = NoTree
    /\ GoTo(r, "moveNew")
    /\ UNCHANGED <<next, sweep, staging, faults, published>>

(* os.Rename(dst, prev) *)
MoveOld(r) ==
    /\ pc[r] = "moveOld"
    /\ \/ /\ Renames(dst, prev)
          /\ prev' = dst
          /\ dst' = NoTree
          /\ GoTo(r, "moveNew")
          /\ NoFault
       \/ /\ \/ ~Renames(dst, prev) /\ NoFault
             \/ Fault
          /\ GoTo(r, "cleanup")
          /\ UNCHANGED <<dst, prev>>
    /\ UNCHANGED <<next, sweep, staging, published>>

(* os.Rename(t.Root, dst): when it fails the old tree is not put back. *)
MoveNew(r) ==
    /\ pc[r] = "moveNew"
    /\ \/ /\ Renames(staging[r], dst)
          /\ dst' = staging[r]
          /\ staging' = [staging EXCEPT ![r] = NoTree]
          /\ published' = published \cup {r}
          /\ GoTo(r, "done")
          /\ NoFault
       \/ /\ \/ ~Renames(staging[r], dst) /\ NoFault
             \/ Fault
          /\ GoTo(r, "cleanup")
          /\ UNCHANGED <<dst, staging, published>>
    /\ UNCHANGED <<next, sweep, prev>>

(* defer os.RemoveAll(staging), on every error return after MkdirTemp; it may
   fail too, and nobody hears of it. *)
Cleanup(r) ==
    /\ pc[r] = "cleanup"
    /\ \/ /\ \E t \in Removals(staging[r]) :
                /\ staging' = [staging EXCEPT ![r] = t]
                /\ GoTo(r, IF Exists(t) THEN "cleanup" ELSE "failed")
          /\ NoFault
       \/ /\ Exists(staging[r])
          /\ Fault
          /\ GoTo(r, "failed")
          /\ UNCHANGED staging
    /\ UNCHANGED <<next, sweep, dst, prev, published>>

(* The process dies: nothing deferred is run. *)
Kill(r) ==
    /\ pc[r] \in Active
    /\ Fault
    /\ GoTo(r, "killed")
    /\ UNCHANGED <<next, sweep, staging, dst, prev, published>>

RunStep(r) ==
    \/ CleanStaging(r) \/ SweepOne(r) \/ SweepDone(r) \/ MkdirTemp(r)
    \/ WritePart(r) \/ WriteIndex(r) \/ IngestFails(r)
    \/ RemovePrev(r) \/ StatDst(r) \/ MoveOld(r) \/ MoveNew(r)
    \/ Cleanup(r)

Next == \E r \in Runs : Start(r) \/ RunStep(r) \/ Kill(r)

Spec == Init /\ [][Next]_vars

(* A started run is a process that keeps taking steps, and the timer's next
   run comes. *)
Fairness ==
    \A r \in Runs : WF_vars(Start(r)) /\ WF_vars(RunStep(r))

FairSpec == Spec /\ Fairness

-----------------------------------------------------------------------------
(* Whoever looks at <out> finds a whole generation or nothing: no failure, no
   kill and no ordering of the runs' steps puts a partial tree there
   (main.go: "a failed or partial run never replaces a working mirror"). *)
MirrorIsWhole == Exists(dst) => Whole(dst)

(* The mirror can only be missing, once there has been one, because of a run
   that had already generated everything and was inside Swap's two renames:
   an ingest that fails or is killed while it generates is harmless. *)
OutageNeedsSwap ==
    (published # {} /\ ~Exists(dst)) =>
        \E r \in Runs : /\ next[r] = NParts + 1
                        /\ pc[r] \in {"moveNew", "cleanup", "failed", "killed"}

(* Runs that die or fail do not fill the disk: one that ends badly may leave
   its staging directory, and each removal that fails may leave one more, so
   that after the first it takes two faults for every further directory beside
   the running one's (cleanStaging: "Without this they accumulate"). *)
Staged == {r \in Runs : Exists(staging[r])}
StagingBounded == 2 * Cardinality(Staged) <= faults + 2

(* What readers are owed: a whole generation, or for a moment none. *)
ReadersAreServed == MirrorIsWhole /\ OutageNeedsSwap

(* <out>.prev holds the generation published immediately before the one being
   served, whatever faults came between: what a rollback would bring back. *)
BackupIsPredecessor ==
    (Exists(dst) /\ Exists(prev)) =>
        /\ prev.gen < dst.gen
        /\ \A g \in published : g <= prev.gen \/ g >= dst.gen

(* What is kept beside <out>: no more staging directories than the faults
   account for, and the generation a rollback would bring back. *)
SiblingsInOrder == StagingBounded /\ BackupIsPredecessor

(* Once something has been published a whole generation stays on the disk
   somewhere, at <out>, at <out>.prev or in a staging directory: what an
   operator would recover from.  Swap deletes the backup before it moves
   anything, so one fault is survived and a second need not be. *)
GoodCopySurvives ==
    (published # {} /\ faults <= 1) =>
        Whole(dst) \/ Whole(prev) \/ \E r \in Runs : Whole(staging[r])

(* Steps of the runs are steps of Mirror; rollbacks are the operator's. *)
GenAt(t) == IF ~Exists(t) THEN 0 ELSE IF Whole(t) THEN t.gen ELSE -1
BackupGen == IF Whole(prev) THEN prev.gen ELSE 0

M == INSTANCE Mirror WITH
       Gens <- Runs, live <- GenAt(dst), backup <- BackupGen,
       rolledBack <- FALSE

RefinesMirror == M!Spec

(* A run that starts when nothing more goes wrong ends with its own whole
   generation at <out>, whatever its dead predecessors left behind. *)
Recovers ==
    \A r \in Runs :
        (pc[r] = "clean" /\ faults = MaxFaults) ~> (Whole(dst) /\ dst.gen = r)

=============================================================================
