----------------------------- MODULE MCCheckout -----------------------------
(* The two ways to buy, of which a behaviour is one: an account with two     *)
(* tabs and a few offers, and a browser without an account with two tabs.    *)
(* The parts share no state.                                                 *)
EXTENDS Checkout

CONSTANTS tab1, tab2, press, pro, press2027

VARIABLES part, reservation, session, event, waiting, links, gate, rows, browser, job, mishaps

direct == <<reservation, session, event, waiting, links, gate, rows, browser, job, mishaps>>

D == INSTANCE DirectCheckout WITH
       Offers <- Early, MaxMishaps <- 1, late <- waiting, urls <- links, rowlock <- rows,
       tab <- browser

ASSUME DirectAssumption == D!DirectCheckoutAssumption

MCInit == Init /\ D!Init /\ part \in {"account", "browser"}

MCNext ==
  /\ UNCHANGED part
  /\ \/ part = "account" /\ Next /\ UNCHANGED direct
     \/ part = "browser" /\ D!Next /\ UNCHANGED vars

(* The account's part has its own fairness, Checkout's FairSpec. *)
MCSpec ==
  /\ MCInit /\ [][MCNext]_<<part, vars, direct>>
  /\ \A t \in Tabs : SF_vars(part = "account" /\ Step(t))
  /\ \A o \in Offers : SF_vars(part = "account" /\ \E t \in Tabs : Ask(t, o, TRUE))
  /\ WF_vars(part = "account" /\ Tick)
  /\ \A i \in Ids : WF_vars(part = "account" /\ Webhook(i))

----------------------------------------------------------------------------
(* The purchases of a browser without an account: no payment is forgotten   *)
(* by its webhook, no two sessions of one offer can be paid, and a purchase *)
(* that has its account is never reopened (DirectCheckout's                 *)
(* NoPaymentForgotten, OnePayablePerOffer and CompleteStays).               *)
DirectPurchasesHold ==
  /\ [](D!NoPaymentForgotten /\ D!OnePayablePerOffer)
  /\ [][D!CompleteStays]_direct
=============================================================================
