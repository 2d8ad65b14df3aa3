------------------------------ MODULE Filtering ------------------------------
(* Array.prototype.filter, for the modules that are proved: SelectSeq says   *)
(* the same, but its recursion is one the provers cannot unfold.             *)
EXTENDS Naturals, Sequences

(* The elements of s that are in X, in their order.                          *)
Among(s, X) ==
  LET taken[n \in 0..Len(s)] ==
        IF n = 0 THEN <<>> ELSE IF s[n] \in X THEN Append(taken[n - 1], s[n]) ELSE taken[n - 1]
  IN taken[Len(s)]
=============================================================================
