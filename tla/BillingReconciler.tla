-------------------------- MODULE BillingReconciler --------------------------
(***************************************************************************)
(* The billing reconciler (billing/services/reconciler.py) with the parts  *)
(* of CheckoutService it calls (owner, prepare_activation, activate) and   *)
(* the repair command (billing/cli.py).                                    *)
(*                                                                         *)
(* Stripe is the environment: per customer one Checkout session, one       *)
(* subscription, and per invoice one payment with its refund.  An object   *)
(* has a version, the number of times it changed, and every change is one  *)
(* webhook event, named by the object and the version it announces.        *)
(* Events arrive late, in any order, and several times.                    *)
(*                                                                         *)
(* A handler ignores the event's payload and reads the objects back from   *)
(* Stripe, one call per action, under a session advisory lock on the       *)
(* customer; it then writes what it read in one transaction.  Stripe keeps *)
(* changing between those reads.                                           *)
(*                                                                         *)
(* A definition that stands before another and extends its name, as        *)
(* LockFreeUnserialized does LockFree, is a faulty version of it that the  *)
(* model does not use: it shows which property would notice.               *)
(***************************************************************************)
EXTENDS Integers, FiniteSets, FiniteSetsExt

CONSTANTS
  Customers,     \* Stripe customers
  Emails,        \* addresses, one account each
  EmailOf,       \* [Customers -> Emails]: the address a customer pays with
  SignedIn,      \* customers created for an account that already exists
  MaxInvoice,    \* bound: invoices of a subscription
  Handlers,      \* threads at work on webhook deliveries
  Repairers,     \* repair commands being run
  MaxVer,        \* bound: changes of one object
  MaxChanges,    \* bound: changes of one customer's objects, at least 4 to buy
  MaxFaults,     \* bound: failed calls and crashes
  None

(* In the order Stripe creates them. *)
Invoices == 1 .. MaxInvoice

Workers == Handlers \cup Repairers

Session == <<"session", 0>>
Sub == <<"sub", 0>>
Inv(i) == <<"inv", i>>
Pay(i) == <<"pay", i>>
Objects == {Session, Sub} \cup {Inv(i) : i \in Invoices} \cup {Pay(i) : i \in Invoices}

Values == {"open", "complete",                                 \* session
           "incomplete", "active", "past_due", "canceled",     \* subscription
           "none", "paid",                                     \* invoice, with "open"
           "refund_pending", "refunded"}                       \* payment, with "none", "paid"

Copy == [ver : Nat, val : Values]

ASSUME ReconcilerAssumption ==
  /\ EmailOf \in [Customers -> Emails]
  /\ SignedIn \subseteq Customers
  /\ \A c, d \in SignedIn : EmailOf[c] = EmailOf[d] => c = d
  /\ MaxInvoice \in Nat \ {0}
  /\ MaxVer \in Nat
  /\ MaxChanges \in Nat
  /\ MaxFaults \in Nat
  /\ None \notin Handlers \cup Repairers \cup Emails \cup Customers \cup Copy
  /\ "no_account" \notin Customers

Event == [cust : Customers, obj : Objects, ver : 1 .. MaxVer]

(* The repair command works on a customer without an event. *)
Repair == <<"repair", 0>>
Job == Event \cup [cust : Customers, obj : {Repair}, ver : {0}]

VARIABLES
  stripe,    \* [Customers -> [Objects -> Copy]]
  settled,   \* events whose webhook_events.status is 'processed' or 'ignored'; the
             \* others, 'received' and 'failed' ones, are processed when delivered
  acked,     \* events Stripe got a 2xx answer for and will not send again
  rows,      \* [Customers -> [Objects -> Copy]]: the mirrored rows, version 0 is no row;
             \* rows[c][Session] is the status of the checkout attempt
  linked,    \* payments whose invoice_id is set: pairs <<c, i>>
  activated, \* customers whose subscription has activated_at
  account,   \* [Emails -> Customers \cup {None, "no_account"}]: stripe_customer_id
  buyer,     \* [Customers -> Emails \cup {None}]: user_id of a completed checkout
  claim,     \* [Customers -> {"none", "pending", "sent"}]: the purchase e-mail
  lock,      \* pg_advisory_lock per customer
  worker,    \* what each worker is doing
  faults

db == <<rows, linked, activated, account, buyer>>
vars == <<stripe, settled, acked, rows, linked, activated, account, buyer, claim,
          lock, worker, faults>>

Idle == [pc |-> "idle"]

(* A worker's local variables: who owns the customer, whether activation   *)
(* was prepared, the copies read so far, the payment read for the event    *)
(* itself, the invoices of the snapshot and those whose payments are still *)
(* to be read.                                                             *)
Busy == [pc : {"received", "prepare", "first", "sub", "invoices", "payments",
               "commit", "claim"},
         job : Job,
         owner : Emails \cup {None},
         prepared : BOOLEAN,
         snap : [Objects -> Copy \cup {None}],
         payment : Copy \cup {None},
         which : SUBSET Invoices,
         todo : SUBSET Invoices]

TypeOK ==
  /\ stripe \in [Customers -> [Objects -> Copy]]
  /\ settled \subseteq Event
  /\ acked \subseteq Event
  /\ rows \in [Customers -> [Objects -> Copy]]
  /\ linked \subseteq Customers \X Invoices
  /\ activated \subseteq Customers
  /\ account \in [Emails -> Customers \cup {None, "no_account"}]
  /\ buyer \in [Customers -> Emails \cup {None}]
  /\ claim \in [Customers -> {"none", "pending", "sent"}]
  /\ lock \in [Customers -> Workers \cup {None}]
  /\ worker \in [Workers -> {Idle} \cup Busy]
  /\ faults \in 0 .. MaxFaults

(* The Checkout page stands open, with a first invoice to be paid; the     *)
(* database has no row yet.                                                *)
NewObject(o) == [ver |-> 0, val |-> IF o \in {Session, Inv(1)} THEN "open"
                                    ELSE IF o = Sub THEN "incomplete" ELSE "none"]

Init ==
  /\ stripe = [c \in Customers |-> [o \in Objects |-> NewObject(o)]]
  /\ settled = {}
  /\ acked = {}
  /\ rows = [c \in Customers |-> [o \in Objects |-> NewObject(o)]]
  /\ linked = {}
  /\ activated = {}
  /\ account = [m \in Emails |-> IF \E c \in SignedIn : EmailOf[c] = m
                                 THEN CHOOSE c \in SignedIn : EmailOf[c] = m
                                 ELSE "no_account"]
  /\ buyer = [c \in Customers |-> None]
  /\ claim = [c \in Customers |-> "none"]
  /\ lock = [c \in Customers |-> None]
  /\ worker = [w \in Workers |-> Idle]
  /\ faults = 0

-----------------------------------------------------------------------------
(* Stripe. *)

Val(c, o) == stripe[c][o].val

Sent == {e \in Event : e.ver <= stripe[e.cust][e.obj].ver}

Quiet(c) == \A e \in Sent : e.cust = c => e \in acked

(* The changes Stripe makes, in the order it makes them: an invoice is     *)
(* paid by its payment, and the subscription and the session       *)
(* follow.  A renewal comes a year later, long after Stripe stopped        *)
(* redelivering what came before.                                          *)
MayBecome(c, o, v) ==
  \/ /\ o = Session /\ Val(c, o) = "open" /\ v = "complete" /\ Val(c, Inv(1)) = "paid"
  \/ /\ o = Sub
     /\ \/ Val(c, o) = "incomplete" /\ v = "active" /\ Val(c, Inv(1)) = "paid"
        \/ Val(c, o) = "active" /\ v \in {"past_due", "canceled"} /\ Val(c, Session) = "complete"
        \/ Val(c, o) = "past_due" /\ v \in {"active", "canceled"}
  \/ \E i \in Invoices :
       \/ /\ o = Inv(i)
          /\ \/ /\ Val(c, o) = "none" /\ v = "open"
                /\ i > 1 => /\ Val(c, Inv(i - 1)) # "none"
                            /\ Val(c, Session) = "complete"
                            /\ Val(c, Sub) = "active" /\ Quiet(c)
             \/ Val(c, o) = "open" /\ v = "paid" /\ Val(c, Pay(i)) # "none"
       \/ /\ o = Pay(i)
          /\ \/ Val(c, o) = "none" /\ v = "paid" /\ Val(c, Inv(i)) = "open"
             \/ /\ Val(c, o) = "paid" /\ v \in {"refund_pending", "refunded"}
                /\ Val(c, Inv(i)) = "paid"
             \/ Val(c, o) = "refund_pending" /\ v \in {"refunded", "paid"}

Changes(c) == MapThenSumSet(LAMBDA o : stripe[c][o].ver, Objects)

StripeChange(c, o) ==
  /\ stripe[c][o].ver < MaxVer
  /\ Changes(c) < MaxChanges
  /\ \E v \in Values :
       /\ MayBecome(c, o, v)
       /\ stripe' = [stripe EXCEPT ![c][o] = [ver |-> @.ver + 1, val |-> v]]
  /\ UNCHANGED <<settled, acked, db, claim, lock, worker, faults>>

(* subscription["latest_invoice"] *)
Existing(c) == {i \in Invoices : Val(c, Inv(i)) # "none"}
Latest(c) == {i \in Existing(c) : \A j \in Existing(c) : j <= i}

-----------------------------------------------------------------------------
(* What the database knows of a customer. *)

Owners(c) == {m \in Emails : account[m] = c \/ buyer[c] = m}

(* owner(): the account, or None *)
Owner(c) == IF Owners(c) = {} THEN None ELSE CHOOSE m \in Owners(c) : TRUE

(* cedar_press_current_access, for invoices inside their dates: a paid     *)
(* invoice of a live subscription, not refunded through a payment the      *)
(* database knows to be the invoice's.                                     *)
Access(c) ==
  /\ rows[c][Sub].val \in {"active", "past_due"}
  /\ \E i \in Invoices :
       /\ rows[c][Inv(i)].val = "paid"
       /\ ~(<<c, i>> \in linked /\ rows[c][Pay(i)].val = "refunded")

Become(w, state) == worker' = [worker EXCEPT ![w] = state]
Goto(w, pc) == Become(w, [worker[w] EXCEPT !.pc = pc])

UnlockForgotten(w) == UNCHANGED lock
Unlock(w) == lock' = [c \in Customers |-> IF lock[c] = w THEN None ELSE lock[c]]

Fresh(job) ==
  [pc |-> "received", job |-> job, owner |-> None, prepared |-> FALSE,
   snap |-> [o \in Objects |-> None], payment |-> None, which |-> {}, todo |-> {}]

(* process_event is called; its row in webhook_events is inserted once. *)
Deliver(w, e) ==
  /\ worker[w] = Idle
  /\ e \in Sent \ acked
  /\ Become(w, Fresh(e))
  /\ UNCHANGED <<stripe, settled, acked, db, claim, lock, faults>>

(* The repair command reconciles every customer an account or a checkout   *)
(* names, and those whose reserved session is paid.                        *)
RepairableNewOnly(c) == Owner(c) = None /\ Val(c, Session) = "complete"
Repairable(c) == Owner(c) # None \/ Val(c, Session) = "complete"

StartRepair(w, c) ==
  /\ worker[w] = Idle
  /\ Repairable(c)
  /\ Become(w, Fresh([cust |-> c, obj |-> Repair, ver |-> 0]))
  /\ UNCHANGED <<stripe, settled, acked, db, claim, lock, faults>>

(* _customer_connection waits for the customer's session lock.  An event   *)
(* already settled is skipped and the lock given back.  Otherwise the      *)
(* owner is looked up, and without one prepare_activation reads the        *)
(* customer's session.                                                     *)
LockFreeUnserialized(c) == TRUE
LockFree(c) == lock[c] = None
Done(job) == job.obj # Repair /\ job \in settled

SkipWithoutClaim(w) == Become(w, Idle)
Skip(w) == Goto(w, "claim")

ActivatesOnSessionEvent(w) ==
  worker[w].job.obj = Session /\ Val(worker[w].job.cust, Session) = "complete"
Activates(w) == Val(worker[w].job.cust, Session) = "complete"

Begin(w) ==
  LET c == worker[w].job.cust
      start == [worker[w] EXCEPT !.owner = Owner(c)]
  IN  /\ worker[w].pc = "received"
      /\ LockFree(c)
      /\ IF Done(worker[w].job)
         THEN Skip(w) /\ UNCHANGED lock
         ELSE /\ lock' = [lock EXCEPT ![c] = w]
              /\ \/ /\ Owner(c) # None
                    /\ Become(w, [start EXCEPT !.pc = "first"])
                 \/ /\ Owner(c) = None /\ Activates(w)
                    /\ Become(w, [start EXCEPT !.pc = "prepare",
                                               !.snap[Session] = stripe[c][Session]])
                 \/ /\ Owner(c) = None /\ ~Activates(w)
                    /\ Become(w, [start EXCEPT !.pc = "commit"])
      /\ UNCHANGED <<stripe, settled, acked, db, claim, faults>>

(* prepare_activation goes on to the subscription, which must be active. *)
Prepare(w) ==
  /\ worker[w].pc = "prepare"
  /\ IF Val(worker[w].job.cust, Sub) = "active"
     THEN Become(w, [worker[w] EXCEPT !.pc = "first", !.prepared = TRUE])
     ELSE Goto(w, "commit")
  /\ UNCHANGED <<stripe, settled, acked, db, claim, lock, faults>>

(* The event's own object is read.  A payment or refund event needs the    *)
(* subscription only for an initial activation.                            *)
ReadFirst(w) ==
  LET c == worker[w].job.cust
      o == worker[w].job.obj
  IN  /\ worker[w].pc = "first"
      /\ \/ /\ o \in {Sub, Repair}
            /\ Goto(w, "sub")
         \/ /\ o = Session \/ \E i \in Invoices : o = Inv(i)
            /\ Become(w, [worker[w] EXCEPT !.pc = "sub", !.snap[o] = stripe[c][o]])
         \/ /\ \E i \in Invoices : o = Pay(i)
            /\ Become(w, [worker[w] EXCEPT !.payment = stripe[c][o],
                            !.pc = IF worker[w].prepared THEN "sub" ELSE "commit"])
      /\ UNCHANGED <<stripe, settled, acked, db, claim, lock, faults>>

(* _load_subscription: the subscription, and which invoices go with it:    *)
(* the event's invoice or the latest; the repair command lists them all.   *)
ReadSub(w) ==
  LET c == worker[w].job.cust
      o == worker[w].job.obj
  IN  /\ worker[w].pc = "sub"
      /\ Become(w, [worker[w] EXCEPT
           !.pc = "invoices",
           !.snap[Sub] = stripe[c][Sub],
           !.which = IF \E i \in Invoices : o = Inv(i)
                     THEN {i \in Invoices : o = Inv(i)} ELSE Latest(c)])
      /\ UNCHANGED <<stripe, settled, acked, db, claim, lock, faults>>

ReadInvoices(w) ==
  LET c == worker[w].job.cust
      job == worker[w].job
      which == IF job.obj = Repair THEN Existing(c) ELSE worker[w].which
  IN  /\ worker[w].pc = "invoices"
      /\ Become(w, [worker[w] EXCEPT
           !.pc = "payments",
           !.which = which,
           !.todo = which,
           !.snap = [o \in Objects |->
             IF o # job.obj /\ \E i \in which : o = Inv(i)
             THEN stripe[c][o] ELSE worker[w].snap[o]]])
      /\ UNCHANGED <<stripe, settled, acked, db, claim, lock, faults>>

(* The payments of the invoices read, one call at a time; an invoice lists *)
(* no payment until there is one.                                          *)
ReadPayment(w) ==
  LET c == worker[w].job.cust IN
  /\ worker[w].pc = "payments"
  /\ \/ /\ worker[w].todo = {}
        /\ Goto(w, "commit")
     \/ \E i \in worker[w].todo :
          Become(w, [worker[w] EXCEPT
            !.todo = @ \ {i},
            !.snap[Pay(i)] = IF Val(c, Pay(i)) = "none" THEN None ELSE stripe[c][Pay(i)]])
  /\ UNCHANGED <<stripe, settled, acked, db, claim, lock, faults>>

(* The rows a transaction leaves: _subscription writes its snapshot, then  *)
(* _payment the payment read for the event itself.                         *)
RowAfter(w, c, o) ==
  LET k == worker[w] IN
  IF k.payment # None /\ o = k.job.obj THEN k.payment
  ELSE IF k.snap[o] # None THEN k.snap[o] ELSE rows[c][o]

LinkedOverwritten(w, c) ==
  (linked \ {<<c, i>> : i \in {j \in Invoices : worker[w].payment # None
                                               /\ worker[w].job.obj = Pay(j)}})
    \cup {<<c, i>> : i \in {j \in Invoices : worker[w].snap[Pay(j)] # None}}

(* invoice_id = COALESCE(new, old): a payment written with its invoice is  *)
(* linked, one written for its own event keeps the link it has.            *)
LinkedAfter(w, c) ==
  linked \cup {<<c, i>> : i \in {j \in Invoices : worker[w].snap[Pay(j)] # None}}

ActivatedAfter(w, c) ==
  IF \E i \in worker[w].which :
       worker[w].snap[Inv(i)] # None /\ worker[w].snap[Inv(i)].val = "paid"
  THEN activated \cup {c} ELSE activated

(* activate: the account of the address is created or found; its Stripe    *)
(* customer is set only if it has none.                                    *)
CustomerAfter(m, c) ==
  IF account[m] \in {None, "no_account"} THEN c ELSE account[m]

Activating(w) == worker[w].owner = None /\ worker[w].prepared
HasUser(w) == worker[w].owner # None \/ worker[w].prepared

(* The one transaction of process_event and reconcile_customer, and the    *)
(* lock given back.  reconcile_customer returns False and sends nothing    *)
(* for a customer nobody owns.                                             *)
Commit(w) ==
  LET job == worker[w].job
      c == job.cust
      m == EmailOf[c]
  IN  /\ worker[w].pc = "commit"
      /\ IF HasUser(w)
         THEN /\ rows' = [rows EXCEPT ![c] = [o \in Objects |-> RowAfter(w, c, o)]]
              /\ linked' = LinkedAfter(w, c)
              /\ activated' = ActivatedAfter(w, c)
         ELSE UNCHANGED <<rows, linked, activated>>
      /\ IF Activating(w)
         THEN /\ account' = [account EXCEPT ![m] = CustomerAfter(m, c)]
              /\ buyer' = [buyer EXCEPT ![c] = m]
         ELSE UNCHANGED <<account, buyer>>
      /\ settled' = IF job.obj = Repair THEN settled ELSE settled \cup {job}
      /\ Unlock(w)
      /\ IF job.obj = Repair /\ ~HasUser(w) THEN Become(w, Idle) ELSE Goto(w, "claim")
      /\ UNCHANGED <<stripe, acked, claim, faults>>

(* send_claim, then the 2xx answer.  It sends what a completed checkout    *)
(* still owes (module PurchaseEmail has the details).                      *)
Answer(w) ==
  acked' = IF worker[w].job.obj = Repair THEN acked ELSE acked \cup {worker[w].job}

SendClaim(w) ==
  LET c == worker[w].job.cust IN
  /\ worker[w].pc = "claim"
  /\ claim' = IF buyer[c] # None THEN [claim EXCEPT ![c] = "sent"] ELSE claim
  /\ Answer(w)
  /\ Become(w, Idle)
  /\ UNCHANGED <<stripe, settled, db, lock, faults>>

(* The e-mail fails: the handler answers with an error and the delivery    *)
(* stays pending.                                                          *)
ClaimFails(w) ==
  LET c == worker[w].job.cust IN
  /\ worker[w].pc = "claim"
  /\ faults < MaxFaults
  /\ buyer[c] # None /\ claim[c] # "sent"
  /\ claim' = [claim EXCEPT ![c] = "pending"]
  /\ Become(w, Idle)
  /\ faults' = faults + 1
  /\ UNCHANGED <<stripe, settled, acked, db, lock>>

(* Any call before the e-mail fails: the transaction, if open, is rolled   *)
(* back, the lock released, and the event marked failed whatever it was.   *)
(* The webhook route answers with an error.                                *)
AnswerFailureWithSuccess(w) == Answer(w)
AnswerFailure(w) == acked' = acked

Fail(w) ==
  LET job == worker[w].job IN
  /\ worker[w].pc \notin {"idle", "claim"}
  /\ faults < MaxFaults
  /\ settled' = settled \ {job}
  /\ AnswerFailure(w)
  /\ Unlock(w)
  /\ Become(w, Idle)
  /\ faults' = faults + 1
  /\ UNCHANGED <<stripe, db, claim>>

(* The process dies.  Its connection and with it the lock are gone, and    *)
(* Stripe gets no answer.                                                  *)
Crash(w) ==
  /\ worker[w] # Idle
  /\ faults < MaxFaults
  /\ Unlock(w)
  /\ Become(w, Idle)
  /\ faults' = faults + 1
  /\ UNCHANGED <<stripe, settled, acked, db, claim>>

Step(w) ==
  \/ Begin(w) \/ Prepare(w) \/ ReadFirst(w) \/ ReadSub(w)
  \/ ReadInvoices(w) \/ ReadPayment(w) \/ Commit(w) \/ SendClaim(w)

Next ==
  \/ \E c \in Customers, o \in Objects : StripeChange(c, o)
  \/ \E w \in Handlers, e \in Event : Deliver(w, e)
  \/ \E w \in Repairers, c \in Customers : StartRepair(w, c)
  \/ \E w \in Workers : Step(w) \/ ClaimFails(w) \/ Fail(w) \/ Crash(w)

Spec == Init /\ [][Next]_vars

(* The repair command is run again and again, on every customer in turn.   *)
(* A handler under way goes on, waiting its turn for the lock (PostgreSQL  *)
(* queues the waiters), and Stripe sends every unanswered event again.     *)
RepairSpec ==
  /\ Spec
  /\ \A w \in Repairers : WF_vars(Step(w))
  /\ \A w \in Repairers, c \in Customers : SF_vars(StartRepair(w, c))

FairSpec ==
  /\ Spec
  /\ \A w \in Workers : SF_vars(Step(w))
  /\ \A e \in Event : SF_vars(\E w \in Handlers : Deliver(w, e))

-----------------------------------------------------------------------------
(* Once Stripe was told that an event is handled, the rows of a customer   *)
(* with an account are at least as new as what the event announced, also   *)
(* when the event was ignored, delivered late, or failed halfway before.   *)
AckedIsMirrored ==
  \A e \in acked :
    Owner(e.cust) # None => rows[e.cust][e.obj].ver >= e.ver

(* When nothing is left to deliver, access is decided as if Stripe itself  *)
(* had been asked.                                                         *)
StripeAccess(c) ==
  /\ Val(c, Sub) \in {"active", "past_due"}
  /\ \E i \in Invoices : Val(c, Inv(i)) = "paid" /\ Val(c, Pay(i)) # "refunded"

AccessFollowsStripe ==
  \A c \in Customers : Quiet(c) /\ Owner(c) # None => (Access(c) <=> StripeAccess(c))

(* A refund the database knows of ends the access its invoice gave: the    *)
(* payment is linked to the invoice before the invoice can count as paid.  *)
RefundEndsAccess ==
  \A c \in Customers, i \in Invoices :
    /\ rows[c][Inv(i)].val = "paid"
    /\ rows[c][Pay(i)].val = "refunded"
    => <<c, i>> \in linked

(* A buyer whose payment went through is not forgotten: if every event was *)
(* answered, some of them ignored, the account exists.                     *)
NoLostActivation ==
  \A c \in Customers :
    Quiet(c) /\ Val(c, Session) = "complete" /\ Val(c, Sub) = "active" => Owner(c) # None

(* Paid access always comes with activated_at, which keeps an older manual *)
(* grant from coming back when the subscription ends.                      *)
PaidAccessIsActivated == \A c \in Customers : Access(c) => c \in activated

(* Access is right on every path: it follows Stripe once nothing is left to *)
(* deliver, ends with a refund, and never comes without its activation      *)
(* (cedar_press_current_access, the reconciler's commit).                   *)
AccessIsSound == AccessFollowsStripe /\ RefundEndsAccess /\ PaidAccessIsActivated

(* The rows refine the abstract mirror. *)
Items == Customers \X Objects
Remote == [x \in Items |-> stripe[x[1]][x[2]].ver]
Local == [x \in Items |-> rows[x[1]][x[2]].ver]
M == INSTANCE Mirror WITH remote <- Remote, local <- Local
MirrorSpec == M!Spec

(* Every event is answered in the end: handlers waiting for one customer   *)
(* never block each other for ever, whatever failed before.                *)
EventsAreAnswered == \A e \in Event : e \in Sent ~> e \in acked

(* The repair command alone, with every webhook delivery lost, brings a    *)
(* customer's rows up to date and keeps them there.                        *)
RepairCatchesUp ==
  \A c \in Customers : <>[](Owner(c) # None =>
    \A o \in Objects \ {Session} : rows[c][o] = stripe[c][o])

(* A buyer gets the purchase e-mail even if the handler that created the   *)
(* account died before sending it.                                         *)
BuyerIsTold == \A c \in Customers : buyer[c] # None ~> claim[c] = "sent"
=============================================================================
