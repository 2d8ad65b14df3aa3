---------------------------- MODULE DirectCheckout ----------------------------
(***************************************************************************)
(* The checkout of a buyer without an account (CheckoutService in          *)
(* server/cedar_press/billing/services/checkout.py), as several tabs of    *)
(* one browser use it at once.  The browser is known by the secret of its  *)
(* cookie; it may buy as often as it likes.                                *)
(*                                                                         *)
(* start is two transactions.  The first holds an advisory lock of the     *)
(* secret and finds or inserts a reservation, the second holds the row     *)
(* lock of that reservation while it talks to Stripe.  Stripe's session    *)
(* has the reservation's id for its idempotency key, so that the two share *)
(* their number here.  Payment is learnt from a webhook, or from the       *)
(* repair command (billing/cli.py); what either of them does beside the    *)
(* reservation is in BillingReconciler.                                    *)
(*                                                                         *)
(* Time is counted in ticks, as in Checkout: a reservation lives Life of   *)
(* them, and Stripe creates no session that has MinLife or less to live.   *)
(***************************************************************************)
EXTENDS Integers

CONSTANTS
  Tabs,         \* requests of one browser that may be under way at once
  MaxAttempts,  \* bound: reservations of the browser
  Offers,       \* prices on sale
  Life,
  MinLife,
  MaxMishaps,   \* bound: calls that fail, processes that die
  None          \* no tab, no reservation, no offer

(* Assumed by MCCheckout, and by the theorems. *)
DirectCheckoutAssumption ==
  /\ MaxAttempts \in Nat
  /\ Life \in Nat /\ MinLife \in Nat /\ MinLife < Life
  /\ MaxMishaps \in Nat
  /\ None \notin Tabs \cup Offers \cup Nat

VARIABLES
  reservation, \* rows of cedar_press_checkouts; "none" is no row
  session,     \* the session of each reservation at Stripe
  event,       \* the webhook of its payment: "none", "sent" or "answered"
  late,        \* creations whose caller gave up and that may still arrive
  urls,        \* sessions whose URL was handed to the buyer
  gate,        \* the tab that holds the advisory lock of the secret
  rowlock,     \* the tab that holds the row lock of each reservation
  tab,         \* what each tab's request is doing
  job,         \* who is activating each purchase: "none", "webhook" or "repair"
  mishaps

reserved == <<reservation, gate, rowlock, tab>>
vars == <<reserved, session, event, late, urls, job, mishaps>>

Ids == 1 .. MaxAttempts

Reservation == [status : {"none", "pending", "open", "complete", "expired"},
                offer : Offers \cup {None}, session : BOOLEAN, left : 0 .. Life]

Idle == [pc |-> "idle", offer |-> None, id |-> None]

Request == [pc : {"idle", "asked", "found", "second", "status", "search", "create", "record"},
            offer : Offers \cup {None}, id : Ids \cup {None}]

TypeOK ==
  /\ reservation \in [Ids -> Reservation]
  /\ session \in [Ids -> {"none", "open", "complete", "expired"}]
  /\ event \in [Ids -> {"none", "sent", "answered"}]
  /\ late \subseteq Ids
  /\ urls \subseteq Ids
  /\ gate \in Tabs \cup {None}
  /\ rowlock \in [Ids -> Tabs \cup {None}]
  /\ tab \in [Tabs -> Request]
  /\ job \in [Ids -> {"none", "webhook", "repair"}]
  /\ mishaps \in 0 .. MaxMishaps

Init ==
  /\ reservation = [i \in Ids |-> [status |-> "none", offer |-> None, session |-> FALSE, left |-> 0]]
  /\ session = [i \in Ids |-> "none"]
  /\ event = [i \in Ids |-> "none"]
  /\ late = {}
  /\ urls = {}
  /\ gate = None
  /\ rowlock = [i \in Ids |-> None]
  /\ tab = [t \in Tabs |-> Idle]
  /\ job = [i \in Ids |-> "none"]
  /\ mishaps = 0

-----------------------------------------------------------------------------
Active(i) == reservation[i].status \in {"pending", "open"}

(* The id of the next reservation. *)
Fresh(n) == \A i \in Ids : reservation[i].status # "none" <=> i < n

Creatable(i) == reservation[i].left > MinLife
Accepts(i) == reservation[i].left > MinLife

(* The newest active reservation of the offer. *)
Wanted(i, o) ==
  /\ Active(i) /\ reservation[i].offer = o
  /\ \A j \in Ids : Active(j) /\ reservation[j].offer = o => j <= i

(* A transaction ends, and with it its locks. *)
Release(t) ==
  /\ rowlock' = [i \in Ids |-> IF rowlock[i] = t THEN None ELSE rowlock[i]]
  /\ gate' = IF gate = t THEN None ELSE gate
Goto(t, pc, i) == tab' = [tab EXCEPT ![t].pc = pc, ![t].id = i]
Finish(t) == tab' = [tab EXCEPT ![t] = Idle] /\ Release(t)

(* start, to the lookup of its price. *)
Ask(t, o) ==
  /\ tab[t].pc = "idle"
  /\ tab' = [tab EXCEPT ![t] = [pc |-> "asked", offer |-> o, id |-> None]]
  /\ UNCHANGED <<reservation, gate, rowlock, session, event, late, urls, job, mishaps>>

(* Mutant of GateFree: the browser's requests do not wait for each other. *)
GateAlwaysFree == TRUE
GateFree == gate = None

(* The first transaction finds the browser's reservation for this offer,    *)
(* when nobody holds its row, ...                                           *)
Find(t) ==
  /\ tab[t].pc = "asked"
  /\ GateFree
  /\ gate' = t
  /\ \/ /\ ~ \E i \in Ids : Wanted(i, tab[t].offer)
        /\ Goto(t, "found", None)
        /\ UNCHANGED rowlock
     \/ \E i \in Ids :
          /\ Wanted(i, tab[t].offer)
          /\ rowlock[i] = None
          /\ rowlock' = [rowlock EXCEPT ![i] = t]
          /\ Goto(t, "found", i)
  /\ UNCHANGED <<reservation, session, event, late, urls, job, mishaps>>

(* ... keeps it, ...  *)
Keep(t) ==
  /\ tab[t].pc = "found"
  /\ tab[t].id # None
  /\ reservation[tab[t].id].left > 0
  /\ Goto(t, "second", tab[t].id)
  /\ Release(t)
  /\ UNCHANGED <<reservation, session, event, late, urls, job, mishaps>>

NewReservation(o) == [status |-> "pending", offer |-> o, session |-> FALSE, left |-> Life]

(* ... or inserts another, and marks the one whose 31 minutes are over.     *)
(* Past the bound MaxAttempts the request ends here.                        *)
Insert(t) ==
  LET old == tab[t].id
  IN  /\ tab[t].pc = "found"
      /\ old # None => reservation[old].left = 0
      /\ \/ \E n \in Ids :
              /\ Fresh(n)
              /\ reservation' = [i \in Ids |->
                   IF i = n THEN NewReservation(tab[t].offer)
                   ELSE IF i = old THEN [reservation[i] EXCEPT !.status = "expired"]
                   ELSE reservation[i]]
              /\ Goto(t, "second", n)
              /\ Release(t)
         \/ ~(\E n \in Ids : Fresh(n)) /\ Finish(t) /\ UNCHANGED reservation
      /\ UNCHANGED <<session, event, late, urls, job, mishaps>>

(* Mutant of RowFree: the row is read without waiting for its lock. *)
RowReadable(i) == TRUE
RowFree(i) == rowlock[i] = None

(* The second transaction locks the row and reads it again: CHECKOUT_       *)
(* PROCESSING if it is over by now; or Stripe is asked about its session,   *)
(* searched for one it never heard of, or asked to create it.               *)
Second(t) ==
  LET i == tab[t].id
  IN  /\ tab[t].pc = "second"
      /\ RowFree(i)
      /\ \/ ~Active(i) /\ Finish(t)
         \/ /\ Active(i)
            /\ rowlock' = [rowlock EXCEPT ![i] = t]
            /\ Goto(t, IF reservation[i].session THEN "status"
                       ELSE IF Creatable(i) THEN "create" ELSE "search", i)
            /\ UNCHANGED gate
      /\ UNCHANGED <<reservation, session, event, late, urls, job, mishaps>>

(* checkout_status or find_checkout: the session is open and so its URL is  *)
(* handed out, or it is not, which is CHECKOUT_PROCESSING.                  *)
Look(t) ==
  LET i == tab[t].id
  IN  /\ tab[t].pc \in {"status", "search"}
      /\ \/ session[i] = "open" /\ Goto(t, "record", i) /\ UNCHANGED <<gate, rowlock>>
         \/ session[i] \in {"complete", "expired"} /\ Finish(t)
      /\ UNCHANGED <<reservation, session, event, late, urls, job, mishaps>>

(* The search finds nothing: CHECKOUT_EXPIRED, and this time the status is  *)
(* committed before the exception.                                          *)
NotFound(t) ==
  LET i == tab[t].id
  IN  /\ tab[t].pc = "search"
      /\ session[i] = "none"
      /\ reservation' = [reservation EXCEPT ![i].status = "expired"]
      /\ Finish(t)
      /\ UNCHANGED <<session, event, late, urls, job, mishaps>>

Opened(i) == session' = [session EXCEPT ![i] = IF @ = "none" THEN "open" ELSE @]

(* Mutant of Create: the URL goes out before the row knows its session. *)
CreateAndHandOut(t) ==
  LET i == tab[t].id
  IN  /\ tab[t].pc = "create"
      /\ Accepts(i)
      /\ Opened(i)
      /\ urls' = urls \cup {i}
      /\ Goto(t, "record", i)
      /\ UNCHANGED <<reservation, gate, rowlock, event, late, job, mishaps>>

(* Stripe creates the session, or replays the creation of an earlier try. *)
Create(t) ==
  LET i == tab[t].id
  IN  /\ tab[t].pc = "create"
      /\ Accepts(i)
      /\ Opened(i)
      /\ Goto(t, "record", i)
      /\ UNCHANGED <<reservation, gate, rowlock, event, late, urls, job, mishaps>>

CreateRefused(t) ==
  /\ tab[t].pc = "create"
  /\ ~Accepts(tab[t].id)
  /\ Finish(t)
  /\ UNCHANGED <<reservation, session, event, late, urls, job, mishaps>>

(* The second transaction commits the session, and its URL is returned. *)
Record(t) ==
  LET i == tab[t].id
  IN  /\ tab[t].pc = "record"
      /\ reservation' = [reservation EXCEPT ![i].session = TRUE, ![i].status = "open"]
      /\ urls' = urls \cup {i}
      /\ Finish(t)
      /\ UNCHANGED <<session, event, late, job, mishaps>>

Mishap == mishaps < MaxMishaps /\ mishaps' = mishaps + 1

(* A call fails or the process dies: the transaction is lost.  A creation  *)
(* that was on its way may still arrive.                                   *)
Fail(t) ==
  /\ tab[t].pc # "idle"
  /\ Mishap
  /\ late' = late \cup (IF tab[t].pc = "create" THEN {tab[t].id} ELSE {})
  /\ Finish(t)
  /\ UNCHANGED <<reservation, session, event, urls, job>>

-----------------------------------------------------------------------------
(* Stripe and the buyer. *)
Arrive(i) ==
  /\ i \in late
  /\ late' = late \ {i}
  /\ \/ Accepts(i) /\ Opened(i)
     \/ ~Accepts(i) /\ UNCHANGED session
  /\ UNCHANGED <<reserved, event, urls, job, mishaps>>

Pay(i) ==
  /\ i \in urls
  /\ session[i] = "open"
  /\ session' = [session EXCEPT ![i] = "complete"]
  /\ event' = [event EXCEPT ![i] = "sent"]
  /\ UNCHANGED <<reserved, late, urls, job, mishaps>>

Tick ==
  /\ \E i \in Ids : reservation[i].left > 0
  /\ reservation' = [i \in Ids |-> [reservation[i] EXCEPT !.left = IF @ > 0 THEN @ - 1 ELSE 0]]
  /\ session' = [i \in Ids |-> IF session[i] = "open" /\ reservation[i].left <= 1
                               THEN "expired" ELSE session[i]]
  /\ UNCHANGED <<gate, rowlock, tab, event, late, urls, job, mishaps>>

(* prepare_activation, and owner before it: the event of a purchase that    *)
(* has its account is processed, that of a session no row has recorded is   *)
(* ignored for good, and the others are activated.  The row lock taken here *)
(* ends with its statement.                                                 *)
Webhook(i) ==
  /\ event[i] = "sent"
  /\ job[i] = "none"
  /\ RowFree(i)
  /\ \/ /\ reservation[i].status = "complete" \/ ~reservation[i].session
        /\ event' = [event EXCEPT ![i] = "answered"]
        /\ UNCHANGED job
     \/ /\ reservation[i].status # "complete" /\ reservation[i].session
        /\ job' = [job EXCEPT ![i] = "webhook"]
        /\ UNCHANGED event
  /\ UNCHANGED <<reserved, session, late, urls, mishaps>>

(* The repair command: the reservations whose payment nobody told of. *)
Repair(i) ==
  /\ Active(i) /\ reservation[i].session
  /\ session[i] = "complete"
  /\ job[i] = "none"
  /\ RowFree(i)
  /\ job' = [job EXCEPT ![i] = "repair"]
  /\ UNCHANGED <<reserved, session, event, late, urls, mishaps>>

(* activate: one transaction creates the account and completes the row. *)
Activate(i) ==
  /\ job[i] # "none"
  /\ RowFree(i)
  /\ reservation' = [reservation EXCEPT ![i].status = "complete"]
  /\ event' = [event EXCEPT ![i] = IF job[i] = "webhook" THEN "answered" ELSE @]
  /\ job' = [job EXCEPT ![i] = "none"]
  /\ UNCHANGED <<gate, rowlock, tab, session, late, urls, mishaps>>

(* The event is delivered again; the repair command is run again. *)
ActivateFails(i) ==
  /\ job[i] # "none"
  /\ Mishap
  /\ job' = [job EXCEPT ![i] = "none"]
  /\ UNCHANGED <<reserved, session, event, late, urls>>

(* What a request under way does next. *)
Step(t) ==
  \/ Find(t) \/ Keep(t) \/ Insert(t)
  \/ Second(t) \/ Look(t) \/ NotFound(t) \/ Create(t) \/ CreateRefused(t) \/ Record(t)

Next ==
  \/ \E t \in Tabs : Step(t) \/ Fail(t) \/ \E o \in Offers : Ask(t, o)
  \/ \E i \in Ids : Arrive(i) \/ Pay(i) \/ Webhook(i) \/ Repair(i) \/ Activate(i) \/ ActivateFails(i)
  \/ Tick

Spec == Init /\ [][Next]_vars

(* Requests run to their end, PostgreSQL grants its locks in turn, and what *)
(* began to activate a purchase goes on.                                    *)
Requests == \A t \in Tabs : SF_vars(Step(t))

(* Stripe delivers its events again for three days.  After a longer outage  *)
(* there is the repair command, run periodically.                           *)
OutageSpec == Spec /\ Requests /\ \A i \in Ids : SF_vars(Repair(i) \/ Activate(i))

-----------------------------------------------------------------------------
(* No event is answered, or ignored for good, before its purchase has its   *)
(* account: a session the buyer could pay was recorded before he could.     *)
NoPaymentForgotten ==
  \A i \in Ids : event[i] = "answered" => reservation[i].status = "complete"

(* However the tabs of a browser interleave, retry and time out, it never   *)
(* has two sessions to pay for one offer.                                   *)
OnePayablePerOffer ==
  \A i, j \in Ids :
    session[i] = "open" /\ session[j] = "open" /\ reservation[i].offer = reservation[j].offer
      => i = j

(* A purchase that has its account keeps it: no request that read its       *)
(* reservation before reopens it or marks it expired.                       *)
CompleteStays ==
  \A i \in Ids : reservation[i].status = "complete" => reservation'[i].status = "complete"
NeverReopened == [][CompleteStays]_vars

(* billing/cli.py: "Repair local Stripe state".  Who paid gets an account,  *)
(* if need be from the repair command.  Not so when the browser asked for   *)
(* the same offer again after the 31 minutes: start marks the reservation   *)
(* expired without a look at its session, and the command passes it over.   *)
PaidIsActivated == \A i \in Ids : session[i] = "complete" ~> reservation[i].status = "complete"
=============================================================================
