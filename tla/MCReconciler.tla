---------------------------- MODULE MCReconciler ----------------------------
(* One purchase with its renewal, a webhook handler and a repair command. *)
EXTENDS BillingReconciler

CONSTANTS c1, m1, w1, w2

MCEmailOf == [c \in Customers |-> m1]
=============================================================================
