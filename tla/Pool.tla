-------------------------------- MODULE Pool --------------------------------
(***************************************************************************)
(* What the two semaphores of the gopher package promise, the one of       *)
(* Server.serve and the one of Proxy.Handle: never more holders than the   *)
(* configured number, and a place comes back exactly once.                 *)
(***************************************************************************)
EXTENDS Integers, FiniteSets

CONSTANTS Users,     \* who may hold a place
          Capacity   \* how many places there are

VARIABLE holders     \* who holds one

Init == holders = {}

(* sem <- struct{}{}, when it does not block *)
Acquire(u) ==
    /\ u \notin holders
    /\ Cardinality(holders) < Capacity
    /\ holders' = holders \cup {u}

(* <-sem *)
Release(u) ==
    /\ u \in holders
    /\ holders' = holders \ {u}

Next == \E u \in Users : Acquire(u) \/ Release(u)

Spec == Init /\ [][Next]_holders

=============================================================================
