------------------------------ MODULE Checkout ------------------------------
(***************************************************************************)
(* The checkout of a signed-in account (BillingService.checkout in         *)
(* server/cedar_press/billing/services/billing.py), as several tabs of one *)
(* account use it at once.                                                 *)
(*                                                                         *)
(* A request is two transactions, both under the account's row lock.  The  *)
(* first finds or inserts an attempt; the second asks Stripe for the       *)
(* attempt's session, whose idempotency key is the attempt's id, so that   *)
(* attempt and session share their number here.  A request to Stripe may   *)
(* fail in the caller's eyes and still arrive later.                       *)
(*                                                                         *)
(* Time is counted in ticks.  An attempt lives Life of them, and Stripe    *)
(* creates no session that has MinLife of them or less to live: 31 and 30  *)
(* minutes.                                                                *)
(***************************************************************************)
EXTENDS Integers

CONSTANTS
  Tabs,         \* requests of one account that may be under way at once
  MaxAttempts,  \* bound: attempts of the account
  Early,        \* offers (a price, with its discount) on sale before the cutoff
  Standard,     \* and after it
  Life,
  MinLife,
  MaxFaults,    \* bound: calls that fail, processes that die
  None          \* no tab, no attempt, no offer

ASSUME CheckoutAssumption ==
  /\ MaxAttempts \in Nat
  /\ Life \in Nat /\ MinLife \in Nat /\ MinLife < Life
  /\ MaxFaults \in Nat
  /\ None \notin Tabs \cup Early \cup Standard \cup Nat

VARIABLES
  onsale,   \* the offers of the current cohort
  attempt,  \* rows of cedar_press_checkout_attempts; "none" is no row
  stripe,   \* the session of each attempt
  sub,      \* the subscription that each session sold
  late,     \* creations whose caller gave up and that may still arrive
  urls,     \* sessions whose URL was handed to the buyer
  rowlock,  \* the tab that holds the row lock of the subscriber
  tab,      \* what each tab's request is doing
  faults

vars == <<onsale, attempt, stripe, sub, late, urls, rowlock, tab, faults>>

Ids == 1 .. MaxAttempts
Offers == Early \cup Standard

Attempt == [status : {"none", "pending", "open", "complete", "expired"},
            offer : Offers \cup {None}, session : BOOLEAN, left : 0 .. Life]

Idle == [pc |-> "idle", offer |-> None, replace |-> FALSE, id |-> None]

Request == [pc : {"idle", "asked", "look", "expire", "list", "insert",
                  "second", "create", "record"},
            offer : Offers \cup {None}, replace : BOOLEAN, id : Ids \cup {None}]

TypeOK ==
  /\ onsale \in {Early, Standard}
  /\ attempt \in [Ids -> Attempt]
  /\ stripe \in [Ids -> {"none", "open", "complete", "expired"}]
  /\ sub \in [Ids -> {"none", "live", "ended"}]
  /\ late \subseteq Ids
  /\ urls \subseteq Ids
  /\ rowlock \in Tabs \cup {None}
  /\ tab \in [Tabs -> Request]
  /\ faults \in 0 .. MaxFaults

Init ==
  /\ onsale = Early
  /\ attempt = [i \in Ids |-> [status |-> "none", offer |-> None, session |-> FALSE, left |-> 0]]
  /\ stripe = [i \in Ids |-> "none"]
  /\ sub = [i \in Ids |-> "none"]
  /\ late = {}
  /\ urls = {}
  /\ rowlock = None
  /\ tab = [t \in Tabs |-> Idle]
  /\ faults = 0

-----------------------------------------------------------------------------
Active(i) == attempt[i].status \in {"pending", "open"}

(* The id of the next attempt. *)
Fresh(n) == \A i \in Ids : attempt[i].status # "none" <=> i < n

(* Stripe lists a subscription of the customer that has not ended. *)
Subscribed == \E i \in Ids : sub[i] = "live"

(* The code's own test of the 30 minutes, and Stripe's. *)
Creatable(i) == attempt[i].left > MinLife
Accepts(i) == attempt[i].left > MinLife

LockFree == rowlock = None

Goto(t, pc, id) == tab' = [tab EXCEPT ![t].pc = pc, ![t].id = id]
Hold(t) == rowlock' = t
Release(t) == rowlock' = IF rowlock = t THEN None ELSE rowlock

(* The request ends; a transaction under way commits nothing but what the  *)
(* action around this says.                                                *)
Finish(t) == tab' = [tab EXCEPT ![t] = Idle] /\ Release(t)

(* A tab asks for an offer; its price is looked up before any lock. *)
Ask(t, o, replace) ==
  /\ tab[t].pc = "idle"
  /\ o \in onsale
  /\ tab' = [tab EXCEPT ![t] = [pc |-> "asked", offer |-> o, replace |-> replace, id |-> None]]
  /\ UNCHANGED <<onsale, attempt, stripe, sub, late, urls, rowlock, faults>>

(* The first transaction: the row lock, then SUBSCRIPTION_EXISTS or on. *)
Begin(t) ==
  /\ tab[t].pc = "asked"
  /\ LockFree
  /\ \/ Subscribed /\ Finish(t)
     \/ ~Subscribed /\ Hold(t) /\ Goto(t, "look", None)
  /\ UNCHANGED <<onsale, attempt, stripe, sub, late, urls, faults>>

Looks(t, i) == tab[t].pc = "look" /\ Active(i)
Wanted(t, i) == attempt[i].offer = tab[t].offer

(* The open session is the one the buyer wants: its URL again.  One that   *)
(* is too old to be created again is looked for at Stripe and recorded.    *)
Reuse(t) ==
  /\ \E i \in Ids :
       /\ Looks(t, i)
       /\ Wanted(t, i)
       /\ stripe[i] = "open"
       /\ attempt[i].session \/ ~Creatable(i)
       /\ attempt' = [attempt EXCEPT ![i].session = TRUE, ![i].status = "open"]
       /\ urls' = urls \cup {i}
  /\ Finish(t)
  /\ UNCHANGED <<onsale, stripe, sub, late, faults>>

(* An attempt that never heard of its session and may still create it is   *)
(* kept; the first transaction commits.                                    *)
Keep(t) ==
  /\ \E i \in Ids :
       /\ Looks(t, i)
       /\ Wanted(t, i)
       /\ ~attempt[i].session
       /\ Creatable(i)
       /\ Goto(t, "second", i)
  /\ Release(t)
  /\ UNCHANGED <<onsale, attempt, stripe, sub, late, urls, faults>>

(* Another offer than the open one, and the buyer agreed to replace it. *)
Replace(t) ==
  /\ \E i \in Ids :
       /\ Looks(t, i)
       /\ ~Wanted(t, i)
       /\ tab[t].replace
       /\ attempt[i].session
       /\ stripe[i] = "open"
       /\ Goto(t, "expire", i)
  /\ UNCHANGED <<onsale, attempt, stripe, sub, late, urls, rowlock, faults>>

(* Mutant of GiveUp: the request is refused instead. *)
GiveUpNever(t) ==
  /\ \/ /\ tab[t].pc = "look"
        /\ ~ \E i \in Ids : Active(i)
        /\ Goto(t, "list", None)
        /\ UNCHANGED rowlock
     \/ /\ \E i \in Ids :
             /\ Looks(t, i)
             /\ \/ attempt[i].session /\ stripe[i] = "expired"
                \/ /\ ~attempt[i].session /\ Wanted(t, i) /\ ~Creatable(i)
                   /\ stripe[i] \in {"none", "expired"}
        /\ Finish(t)
  /\ UNCHANGED <<onsale, attempt, stripe, sub, late, urls, faults>>

(* No attempt is left: there was none, its session has expired, or Stripe  *)
(* knows no session of one that is too old.                                *)
GiveUp(t) ==
  /\ \/ /\ tab[t].pc = "look"
        /\ ~ \E i \in Ids : Active(i)
        /\ Goto(t, "list", None)
     \/ \E i \in Ids :
          /\ Looks(t, i)
          /\ \/ attempt[i].session /\ stripe[i] = "expired"
             \/ /\ ~attempt[i].session /\ Wanted(t, i) /\ ~Creatable(i)
                /\ stripe[i] \in {"none", "expired"}
          /\ Goto(t, "list", i)
  /\ UNCHANGED <<onsale, attempt, stripe, sub, late, urls, rowlock, faults>>

(* CHECKOUT_EXISTS or CHECKOUT_PROCESSING: the exception rolls the first   *)
(* transaction back, and with it the status it wrote just before.          *)
Refuse(t) ==
  /\ \E i \in Ids :
       /\ Looks(t, i)
       /\ \/ stripe[i] = "complete" /\ (attempt[i].session \/ (Wanted(t, i) /\ ~Creatable(i)))
          \/ stripe[i] = "open" /\ attempt[i].session /\ ~Wanted(t, i) /\ ~tab[t].replace
          \/ ~attempt[i].session /\ ~Wanted(t, i)
  /\ Finish(t)
  /\ UNCHANGED <<onsale, attempt, stripe, sub, late, urls, faults>>

(* Stripe expires the session, or answers with an error because it is no   *)
(* longer open.                                                            *)
Expire(t) ==
  LET i == tab[t].id
  IN  /\ tab[t].pc = "expire"
      /\ \/ /\ stripe[i] = "open"
            /\ stripe' = [stripe EXCEPT ![i] = "expired"]
            /\ Goto(t, "list", i)
            /\ UNCHANGED rowlock
         \/ /\ stripe[i] # "open"
            /\ Finish(t)
            /\ UNCHANGED stripe
      /\ UNCHANGED <<onsale, attempt, sub, late, urls, faults>>

(* Mutant of List: the first look at the subscriptions is trusted. *)
ListOnce(t) ==
  /\ tab[t].pc = "list"
  /\ \/ ~(\E n \in Ids : Fresh(n)) /\ Finish(t)
     \/ (\E n \in Ids : Fresh(n)) /\ Goto(t, "insert", tab[t].id) /\ UNCHANGED rowlock
  /\ UNCHANGED <<onsale, attempt, stripe, sub, late, urls, faults>>

(* The second look at the subscriptions.  The bound MaxAttempts ends the   *)
(* request here.                                                           *)
List(t) ==
  /\ tab[t].pc = "list"
  /\ \/ Subscribed /\ Finish(t)
     \/ ~(\E n \in Ids : Fresh(n)) /\ Finish(t)
     \/ /\ ~Subscribed
        /\ \E n \in Ids : Fresh(n)
        /\ Goto(t, "insert", tab[t].id)
        /\ UNCHANGED rowlock
  /\ UNCHANGED <<onsale, attempt, stripe, sub, late, urls, faults>>

NewAttempt(o) == [status |-> "pending", offer |-> o, session |-> FALSE, left |-> Life]

(* The first transaction commits a new attempt and the end of the old one. *)
Insert(t) ==
  /\ tab[t].pc = "insert"
  /\ \E n \in Ids :
       /\ Fresh(n)
       /\ attempt' = [i \in Ids |->
            IF i = n THEN NewAttempt(tab[t].offer)
            ELSE IF i = tab[t].id THEN [attempt[i] EXCEPT !.status = "expired"]
            ELSE attempt[i]]
       /\ Goto(t, "second", n)
  /\ Release(t)
  /\ UNCHANGED <<onsale, stripe, sub, late, urls, faults>>

(* The second transaction reads the attempt again: to be created, ...  *)
SecondCreate(t) ==
  LET i == tab[t].id
  IN  /\ tab[t].pc = "second"
      /\ LockFree
      /\ Active(i)
      /\ ~attempt[i].session
      /\ Creatable(i)
      /\ Hold(t)
      /\ Goto(t, "create", i)
      /\ UNCHANGED <<onsale, attempt, stripe, sub, late, urls, faults>>

(* ... open by another tab's work, ... *)
SecondOpen(t) ==
  LET i == tab[t].id
  IN  /\ tab[t].pc = "second"
      /\ LockFree
      /\ Active(i)
      /\ attempt[i].session
      /\ stripe[i] = "open"
      /\ attempt' = [attempt EXCEPT ![i].status = "open"]
      /\ urls' = urls \cup {i}
      /\ Finish(t)
      /\ UNCHANGED <<onsale, stripe, sub, late, faults>>

(* ... or over: CHECKOUT_EXPIRED, or CHECKOUT_PROCESSING, which rolls the  *)
(* status it wrote back.                                                   *)
SecondRefuse(t) ==
  LET i == tab[t].id
  IN  /\ tab[t].pc = "second"
      /\ LockFree
      /\ \/ ~Active(i)
         \/ ~attempt[i].session /\ ~Creatable(i)
         \/ attempt[i].session /\ stripe[i] # "open"
      /\ Finish(t)
      /\ UNCHANGED <<onsale, attempt, stripe, sub, late, urls, faults>>

Opened(i) == stripe' = [stripe EXCEPT ![i] = IF @ = "none" THEN "open" ELSE @]

(* Mutant of Create: the URL goes out before the attempt knows its session. *)
CreateAndHandOut(t) ==
  LET i == tab[t].id
  IN  /\ tab[t].pc = "create"
      /\ Accepts(i)
      /\ Opened(i)
      /\ urls' = urls \cup {i}
      /\ Goto(t, "record", i)
      /\ UNCHANGED <<onsale, attempt, sub, late, rowlock, faults>>

(* Stripe creates the session, or replays the creation of an earlier try. *)
Create(t) ==
  LET i == tab[t].id
  IN  /\ tab[t].pc = "create"
      /\ Accepts(i)
      /\ Opened(i)
      /\ Goto(t, "record", i)
      /\ UNCHANGED <<onsale, attempt, sub, late, urls, rowlock, faults>>

(* Stripe refuses a session that would live too short. *)
CreateRefused(t) ==
  /\ tab[t].pc = "create"
  /\ ~Accepts(tab[t].id)
  /\ Finish(t)
  /\ UNCHANGED <<onsale, attempt, stripe, sub, late, urls, faults>>

(* The second transaction commits the session and its URL is returned. *)
Record(t) ==
  LET i == tab[t].id
  IN  /\ tab[t].pc = "record"
      /\ attempt' = [attempt EXCEPT ![i].session = TRUE, ![i].status = "open"]
      /\ urls' = urls \cup {i}
      /\ Finish(t)
      /\ UNCHANGED <<onsale, stripe, sub, late, faults>>

(* A call fails or the process dies: the transaction is lost.  A creation  *)
(* that was on its way may still arrive.                                   *)
Fail(t) ==
  /\ tab[t].pc # "idle"
  /\ faults < MaxFaults
  /\ faults' = faults + 1
  /\ late' = late \cup (IF tab[t].pc = "create" THEN {tab[t].id} ELSE {})
  /\ Finish(t)
  /\ UNCHANGED <<onsale, attempt, stripe, sub, urls>>

-----------------------------------------------------------------------------
(* Stripe and the buyer. *)
Arrive(i) ==
  /\ i \in late
  /\ late' = late \ {i}
  /\ \/ Accepts(i) /\ Opened(i)
     \/ ~Accepts(i) /\ UNCHANGED stripe
  /\ UNCHANGED <<onsale, attempt, sub, urls, rowlock, tab, faults>>

Pay(i) ==
  /\ i \in urls
  /\ stripe[i] = "open"
  /\ stripe' = [stripe EXCEPT ![i] = "complete"]
  /\ sub' = [sub EXCEPT ![i] = "live"]
  /\ UNCHANGED <<onsale, attempt, late, urls, rowlock, tab, faults>>

End(i) ==
  /\ sub[i] = "live"
  /\ sub' = [sub EXCEPT ![i] = "ended"]
  /\ UNCHANGED <<onsale, attempt, stripe, late, urls, rowlock, tab, faults>>

(* The session's webhook: BillingReconciler reads the session again and    *)
(* updates the attempt that recorded it, once nobody holds its row.        *)
Webhook(i) ==
  /\ Active(i)
  /\ attempt[i].session
  /\ stripe[i] \in {"complete", "expired"}
  /\ \A t \in Tabs : rowlock = t => tab[t].id # i
  /\ attempt' = [attempt EXCEPT ![i].status = stripe[i]]
  /\ UNCHANGED <<onsale, stripe, sub, late, urls, rowlock, tab, faults>>

Tick ==
  /\ \E i \in Ids : attempt[i].left > 0
  /\ attempt' = [i \in Ids |-> [attempt[i] EXCEPT !.left = IF @ > 0 THEN @ - 1 ELSE 0]]
  /\ stripe' = [i \in Ids |-> IF stripe[i] = "open" /\ attempt[i].left <= 1
                              THEN "expired" ELSE stripe[i]]
  /\ UNCHANGED <<onsale, sub, late, urls, rowlock, tab, faults>>

(* cohort_at: the early offers end on a day. *)
Cutoff ==
  /\ onsale = Early
  /\ onsale' = Standard
  /\ UNCHANGED <<attempt, stripe, sub, late, urls, rowlock, tab, faults>>

(* What a request under way does next. *)
Step(t) ==
  \/ Begin(t) \/ Reuse(t) \/ Keep(t) \/ Replace(t) \/ GiveUp(t) \/ Refuse(t)
  \/ Expire(t) \/ List(t) \/ Insert(t)
  \/ SecondCreate(t) \/ SecondOpen(t) \/ SecondRefuse(t)
  \/ Create(t) \/ CreateRefused(t) \/ Record(t)

Next ==
  \/ \E t \in Tabs : Step(t) \/ Fail(t) \/ \E o \in Offers, r \in BOOLEAN : Ask(t, o, r)
  \/ \E i \in Ids : Arrive(i) \/ Pay(i) \/ End(i) \/ Webhook(i)
  \/ Tick \/ Cutoff

Spec == Init /\ [][Next]_vars

(* Requests run to their end, PostgreSQL grants its locks in turn, time    *)
(* passes, and the buyer does not tire of asking for every offer on sale.  *)
Persistent ==
  /\ \A t \in Tabs : SF_vars(Step(t))
  /\ \A o \in Offers : SF_vars(\E t \in Tabs : Ask(t, o, TRUE))
  /\ WF_vars(Tick)

(* Stripe delivers its events again until they are answered, ...  *)
FairSpec == Spec /\ Persistent /\ \A i \in Ids : WF_vars(Webhook(i))

(* ... for three days.  After a longer outage there is the repair command, *)
(* and reconcile_customer writes no attempt.                               *)
OutageSpec == Spec /\ Persistent

-----------------------------------------------------------------------------
(* The unique index of migration 005 never stops an INSERT: the attempt    *)
(* that a request gives up is the only one that was left.                  *)
OneAttempt ==
  \A t \in Tabs : tab[t].pc = "insert" => \A i \in Ids : Active(i) => i = tab[t].id

(* DATABASE.md: changing the plan "expires the previous Stripe session     *)
(* before creating its replacement".  The buyer never has two to pay.      *)
OneOpenSession ==
  \A i, j \in Ids : stripe[i] = "open" /\ stripe[j] = "open" => i = j

(* However requests, payments and retries interleave, an account never     *)
(* pays for a second subscription while it has one.                        *)
OneSubscription ==
  \A i, j \in Ids : sub[i] = "live" /\ sub[j] = "live" => i = j

(* An attempt that was given up is worth nothing at Stripe, now or later:  *)
(* no creation that arrives late turns it into a session one can pay.      *)
ExpiredIsUnpayable ==
  \A i \in Ids : attempt[i].status = "expired" => stripe[i] \notin {"open", "complete"}

(* What was paid is found again by its webhook: its session is recorded.   *)
PaidIsOnRecord == \A i \in Ids : stripe[i] = "complete" => attempt[i].session

(* A buyer who keeps trying is not held up for ever by an attempt whose     *)
(* offer stays on sale.  (The last attempt of the bound is never replaced.)  *)
AttemptsEnd ==
  \A i \in Ids \ {MaxAttempts} :
    Active(i) ~> ~Active(i) \/ attempt[i].offer \notin onsale

(* The offer of an attempt is on sale no more. *)
Outdated == \E i \in Ids \ {MaxAttempts} : Active(i) /\ attempt[i].offer \notin onsale

(* DATABASE.md: changing the plan or discount replaces the previous        *)
(* session; billing.py: "Retry your original checkout first."  A buyer who *)
(* keeps asking for what is on sale is thus rid of what no longer is.  Not *)
(* so when the response of Stripe was lost before the cutoff.              *)
OutdatedIsReplaced == Outdated ~> ~Outdated

(* billing.py writes the status "complete" of a paid session to its        *)
(* attempt and then raises, which rolls the write back.  Without a webhook *)
(* the attempt stays open and refuses every checkout, even after its       *)
(* subscription ended.                                                     *)
PaidAttemptEnds == \A i \in Ids \ {MaxAttempts} : Active(i) /\ sub[i] = "ended" ~> ~Active(i)
=============================================================================
