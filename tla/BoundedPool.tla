---------------------------- MODULE BoundedPool ----------------------------
(***************************************************************************)
(* What a session cap promises (udp.max-sessions): holders come one at a   *)
(* time, never more than the capacity at once, and leave in any order.  A  *)
(* capacity of zero or less is no limit.                                   *)
(***************************************************************************)
EXTENDS Integers, FiniteSets

CONSTANTS Items, Capacity
VARIABLE holders

Init == holders = {}

Acquire(i) ==
    /\ i \notin holders
    /\ Capacity > 0 => Cardinality(holders) < Capacity
    /\ holders' = holders \cup {i}

Release(i) == i \in holders /\ holders' = holders \ {i}

Next == \E i \in Items : Acquire(i) \/ Release(i)

Spec == Init /\ [][Next]_holders

=============================================================================
