----------------------------- MODULE MCAccounts -----------------------------
(* Two devices of one account, two passwords and two addresses. *)
EXTENDS Accounts, TLC

CONSTANTS laptop, phone, p1, p2, home, work

MCSymmetry == Permutations(Devices) \cup Permutations(Passwords)
=============================================================================
