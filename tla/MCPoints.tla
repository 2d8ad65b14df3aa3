------------------------------ MODULE MCPoints ------------------------------
(* A subscription with two seats and credits that expire after two months. *)
EXTENDS Points, TLC

CONSTANTS seat1, seat2, account1, p1, p2, unknown

MCAccountOf == [s \in {seat1, seat2} |-> account1]
MCSymmetry == Permutations({seat1, seat2}) \cup Permutations({p1, p2})
=============================================================================
