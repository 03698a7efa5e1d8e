------------------------------- MODULE Mirror -------------------------------
(***************************************************************************)
(* What the publishing side of nordicgopher promises the programs that     *)
(* read the content directory: <out> holds one whole generation or, for    *)
(* the moment between the two renames of tree.Swap, nothing; <out>.prev    *)
(* holds at most one whole older generation.  A generation is the output   *)
(* of one ngingest run and is named by that run's number.                  *)
(*                                                                         *)
(* Publish implements this specification; the models of the readers use    *)
(* it as their environment.                                                *)
(***************************************************************************)
EXTENDS Integers

CONSTANT Gens  \* the generations that may ever be published

VARIABLES live,       \* generation at <out>, or None
          backup,     \* generation at <out>.prev, or None
          published,  \* history: the generations installed so far
          rolledBack  \* history: the operator has used DEPLOY's rollback recipe

mirrorVars == <<live, backup, published, rolledBack>>

None == 0

TypeOK ==
    /\ live \in Gens \cup {None}
    /\ backup \in Gens \cup {None}
    /\ published \subseteq Gens
    /\ rolledBack \in BOOLEAN

(* A fresh host: no tree has ever been generated. *)
Init ==
    /\ live = None
    /\ backup = None
    /\ published = {}
    /\ rolledBack = FALSE

(* os.RemoveAll(prev) *)
DropBackup ==
    /\ backup # None
    /\ backup' = None
    /\ UNCHANGED <<live, published, rolledBack>>

(* os.Rename(dst, prev) *)
Retire ==
    /\ live # None
    /\ backup = None
    /\ live' = None
    /\ backup' = live
    /\ UNCHANGED <<published, rolledBack>>

(* os.Rename(t.Root, dst): generations are installed in increasing order. *)
Install(g) ==
    /\ live = None
    /\ \A p \in published : p < g
    /\ live' = g
    /\ published' = published \cup {g}
    /\ UNCHANGED <<backup, rolledBack>>

(* mv content content.bad *)
SetAside ==
    /\ live # None
    /\ backup # None
    /\ live' = None
    /\ rolledBack' = TRUE
    /\ UNCHANGED <<backup, published>>

(* mv content.prev content *)
Restore ==
    /\ live = None
    /\ backup # None
    /\ live' = backup
    /\ backup' = None
    /\ rolledBack' = TRUE
    /\ UNCHANGED published

Next ==
    \/ DropBackup
    \/ Retire
    \/ \E g \in Gens : Install(g)
    \/ SetAside
    \/ Restore

Spec == Init /\ [][Next]_mirrorVars

=============================================================================
