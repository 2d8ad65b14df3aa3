------------------------------- MODULE Mirror -------------------------------
(***************************************************************************)
(* What the billing mirror promises, with no events, locks or workers: a   *)
(* remote object store moves on by itself, and now and then a set of local *)
(* rows is replaced, in one transaction, by copies of remote objects that  *)
(* are never older than what they replace and never ahead of the remote.   *)
(***************************************************************************)
EXTENDS Naturals

CONSTANTS Items    \* the mirrored objects

VARIABLES remote,  \* [Items -> Nat]: how often an object has changed
          local    \* [Items -> Nat]: the version of the local copy

Init ==
  /\ remote \in [Items -> Nat]
  /\ local = [x \in Items |-> 0]

Change ==
  /\ \E x \in Items : remote' = [remote EXCEPT ![x] = @ + 1]
  /\ UNCHANGED local

Sync ==
  /\ local' \in [Items -> Nat]
  /\ \A x \in Items : local[x] <= local'[x] /\ local'[x] <= remote[x]
  /\ UNCHANGED remote

Next == Change \/ Sync

Spec == Init /\ [][Next]_<<remote, local>>
=============================================================================
