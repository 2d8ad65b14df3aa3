--------------------------- MODULE MCPurchaseEmail ---------------------------
(* What a buyer is owed, in three parts of which a behaviour is one: the     *)
(* delivery of one purchase e-mail with two callers of send_claim, the       *)
(* webhook deliveries of a purchase beside one repair command, and a repair  *)
(* command alone with every delivery lost.  The parts share no state: in the *)
(* first the customer stays unpaid, in the others the e-mail of the delivery *)
(* row went out long ago.                                                    *)
EXTENDS PurchaseEmail

CONSTANTS s1, s2, c1, m1, w1, w2, None

VARIABLES part, stripe, settled, acked, rows, linked, activated, account, buyer, claim,
          lock, worker, calls

billing == <<stripe, settled, acked, rows, linked, activated, account, buyer, claim, lock,
             worker, calls>>

MCEmailOf == [c \in {c1} |-> m1]

(* One handler and one repair command, each object changes once. *)
W == INSTANCE BillingReconciler WITH
       Customers <- {c1}, Emails <- {m1}, EmailOf <- MCEmailOf, SignedIn <- {}, MaxInvoice <- 1,
       Handlers <- {w1}, Repairers <- {w2}, MaxVer <- 1, MaxChanges <- 4, MaxFaults <- 1,
       faults <- calls

(* One repair command, objects that change three times, two failed calls. *)
R == INSTANCE BillingReconciler WITH
       Customers <- {c1}, Emails <- {m1}, EmailOf <- MCEmailOf, SignedIn <- {}, MaxInvoice <- 1,
       Handlers <- {}, Repairers <- {w1}, MaxVer <- 3, MaxChanges <- 8, MaxFaults <- 2,
       faults <- calls

MCInit ==
  /\ Init
  /\ \/ part = "email" /\ W!Init
     \/ part = "webhooks" /\ W!Init /\ claimSent /\ ~password
     \/ part = "repair" /\ R!Init /\ claimSent /\ ~password

MCNext ==
  /\ UNCHANGED part
  /\ \/ part = "email" /\ Next /\ UNCHANGED billing
     \/ part = "webhooks" /\ W!Next /\ UNCHANGED vars
     \/ part = "repair" /\ R!Next /\ UNCHANGED vars

(* Each part's own fairness: PurchaseEmail's and BillingReconciler's FairSpec *)
(* and RepairSpec.                                                           *)
MCSpec ==
  /\ MCInit /\ [][MCNext]_<<part, vars, billing>>
  /\ WF_vars(part = "email" /\ Tick)
  /\ \A s \in Senders : WF_vars(part = "email" /\ Send(s)) /\ WF_vars(part = "email" /\ Start(s))
  /\ \A w \in {w1, w2} : SF_billing(part = "webhooks" /\ W!Step(w))
  /\ SF_billing(part = "webhooks" /\ \E e \in W!Event : W!Deliver(w1, e))
  /\ WF_billing(part = "repair" /\ R!Step(w1))
  /\ SF_billing(part = "repair" /\ R!StartRepair(w1, c1))

----------------------------------------------------------------------------
(* Every event Stripe sent is answered in the end: a handler that failed or  *)
(* died leaves nothing behind that a redelivery waits for ever for.  And a   *)
(* buyer gets the purchase e-mail even if the handler that created the       *)
(* account died before sending it (BillingReconciler's EventsAreAnswered and *)
(* BuyerIsTold).                                                             *)
WebhooksFinish ==
  /\ \A e \in W!Event : part = "webhooks" /\ e \in W!Sent ~> (part = "webhooks" => e \in acked)
  /\ part = "webhooks" /\ buyer[c1] # None ~> claim[c1] = "sent"

(* The repair command alone, with every webhook delivery lost, brings a      *)
(* customer's rows up to date and keeps them there (RepairCatchesUp).        *)
RepairCatchesUp ==
  <>[](part = "repair" /\ R!Owner(c1) # None =>
         \A o \in R!Objects \ {R!Session} : rows[c1][o] = stripe[c1][o])
=============================================================================
