------------------------------ MODULE MCLease -------------------------------
(* Small instances of Lease: the clocks are as far apart as is tolerated. *)
EXTENDS Lease, TLC

CONSTANTS p1, p2, p3

Clocks == [p \in Holders |-> CASE p = p1 -> 0 [] p = p2 -> 1 [] OTHER -> 0]

\* p1 and p3 have the same clock.
SameClock == Permutations({p1, p3})
=============================================================================
