-------------------------- MODULE ReconcilerProofs --------------------------
(***************************************************************************)
(* Proofs about the billing reconciler, for any customers, addresses,      *)
(* workers, invoices and bounds.                                           *)
(*                                                                         *)
(* First the rows: they only move forward and are never ahead of Stripe,   *)
(* although handlers read Stripe call by call, without a transaction,      *)
(* while it changes.  Monotonicity is not inductive alone: what a handler  *)
(* writes was read earlier, so IInv adds that the customer's lock is held  *)
(* from the first read to the commit, and that until then no row has       *)
(* overtaken what the handler read.                                        *)
(*                                                                         *)
(* Then what the rows promise: an answered event is mirrored, a purchase   *)
(* gets its owner, access is what Stripe would say.  PromiseInv adds what  *)
(* a worker at each of its calls knows: its copies are as new as every     *)
(* event handled so far and its own, an activation has read every object   *)
(* such an event could name, an invoice read as paid has its payment read, *)
(* and an event ignored for want of an account is never the last one of    *)
(* its purchase.                                                           *)
(***************************************************************************)
EXTENDS BillingReconciler, TLAPS

(* The steps between _customer_connection's lock and unlock. *)
Reading(w) == worker[w].pc \notin {"idle", "received", "claim"}

LockInv == \A w \in Workers : Reading(w) => lock[worker[w].job.cust] = w

(* A copy of object o, if there is one, lies between the row and Stripe. *)
Between(c, o, copy) ==
  copy # None => rows[c][o].ver <= copy.ver /\ copy.ver <= stripe[c][o].ver

SnapInv ==
  \A w \in Workers : Reading(w) =>
    /\ \A o \in Objects : Between(worker[w].job.cust, o, worker[w].snap[o])
    /\ \A o \in Objects : o = worker[w].job.obj =>
         Between(worker[w].job.cust, o, worker[w].payment)

(* Before it has the lock, a worker has read nothing. *)
NothingRead(k) ==
  k.pc = "received" => k.payment = None /\ \A o \in Objects : k.snap[o] = None

FreshInv == \A w \in Workers : NothingRead(worker[w])

RowsBehind ==
  \A c \in Customers, o \in Objects : rows[c][o].ver <= stripe[c][o].ver

IInv == TypeOK /\ LockInv /\ SnapInv /\ FreshInv /\ RowsBehind

-----------------------------------------------------------------------------
LEMMA ObjectsFacts ==
  /\ Session \in Objects /\ Sub \in Objects
  /\ \A i \in Invoices : Inv(i) \in Objects /\ Pay(i) \in Objects
  /\ Repair \notin Objects
BY DEF Objects, Session, Sub, Inv, Pay, Repair

LEMMA BusyFacts ==
  ASSUME NEW k \in {Idle} \cup Busy, k.pc # "idle"
  PROVE  /\ k \in Busy
         /\ k.job \in Job /\ k.job.cust \in Customers
         /\ k.job.obj \in Objects \cup {Repair}
         /\ k.owner \in Emails \cup {None}
         /\ k.prepared \in BOOLEAN
         /\ k.snap \in [Objects -> Copy \cup {None}]
         /\ k.payment \in Copy \cup {None}
         /\ k.which \in SUBSET Invoices /\ k.todo \in SUBSET Invoices
BY DEF Busy, Idle, Job, Event

LEMMA InitialObject ==
  ASSUME NEW o \in Objects
  PROVE  NewObject(o) \in Copy /\ NewObject(o).ver = 0
BY DEF NewObject, Copy, Values

LEMMA OwnerType ==
  ASSUME NEW c \in Customers
  PROVE  Owner(c) \in Emails \cup {None}
BY DEF Owner, Owners

LEMMA RowAfterType ==
  ASSUME TypeOK, NEW w \in Workers, worker[w].pc # "idle",
         NEW c \in Customers, NEW o \in Objects
  PROVE  RowAfter(w, c, o) \in Copy
<1>1. worker[w] \in {Idle} \cup Busy
  BY DEF TypeOK
<1>2. /\ worker[w].snap \in [Objects -> Copy \cup {None}]
      /\ worker[w].payment \in Copy \cup {None}
  BY <1>1, BusyFacts
<1>3. rows[c][o] \in Copy
  BY DEF TypeOK
<1> QED
  BY <1>2, <1>3 DEF RowAfter

LEMMA BecomeType ==
  ASSUME TypeOK, NEW w \in Workers, NEW k \in {Idle} \cup Busy, Become(w, k)
  PROVE  worker' \in [Workers -> {Idle} \cup Busy]
BY DEF TypeOK, Become

(* The pc of a busy worker moves on. *)
LEMMA GotoType ==
  ASSUME TypeOK, NEW w \in Workers, worker[w].pc # "idle",
         NEW pc \in {"received", "prepare", "first", "sub", "invoices", "payments",
                     "commit", "claim"},
         Goto(w, pc)
  PROVE  worker' \in [Workers -> {Idle} \cup Busy]
<1>1. worker[w] \in Busy
  BY BusyFacts DEF TypeOK
<1>2. [worker[w] EXCEPT !.pc = pc] \in Busy
  BY <1>1 DEF Busy
<1> QED
  BY <1>2, BecomeType DEF Goto

LEMMA UnlockType ==
  ASSUME TypeOK, NEW w \in Workers, Unlock(w)
  PROVE  lock' \in [Customers -> Workers \cup {None}]
BY DEF TypeOK, Unlock

(* What each step between the lock and the commit leaves in the worker. *)
LEMMA BeginFields ==
  ASSUME TypeOK, NEW w \in Workers, Begin(w), ~Done(worker[w].job)
  PROVE  LET j == worker[w]
             k == worker'[w]
             c == j.job.cust
         IN  /\ Become(w, k) /\ k \in Busy /\ k.job = j.job /\ k.owner = Owner(c)
             /\ k.prepared = j.prepared /\ k.payment = j.payment
             /\ lock[c] = None /\ lock' = [lock EXCEPT ![c] = w]
             /\ \/ k.pc = "first" /\ Owner(c) # None /\ k.snap = j.snap
                \/ /\ k.pc = "prepare" /\ Owner(c) = None
                   /\ k.snap = [j.snap EXCEPT ![Session] = stripe[c][Session]]
                \/ /\ k.pc = "commit" /\ Owner(c) = None /\ Val(c, Session) # "complete"
                   /\ k.snap = j.snap
<1> DEFINE j == worker[w]
           k == worker'[w]
           c == j.job.cust
           first == [j EXCEPT !.owner = Owner(c), !.pc = "first"]
           prepare == [j EXCEPT !.owner = Owner(c), !.pc = "prepare",
                                !.snap = [j.snap EXCEPT ![Session] = stripe[c][Session]]]
           commit == [j EXCEPT !.owner = Owner(c), !.pc = "commit"]
<1>1. /\ j \in Busy /\ c \in Customers /\ Owner(c) \in Emails \cup {None}
      /\ j.snap \in [Objects -> Copy \cup {None}] /\ stripe[c][Session] \in Copy
  BY BusyFacts, OwnerType, ObjectsFacts DEF TypeOK, Begin
<1>2. \/ Owner(c) # None /\ Become(w, first)
      \/ Owner(c) = None /\ Activates(w) /\ Become(w, prepare)
      \/ Owner(c) = None /\ ~Activates(w) /\ Become(w, commit)
  BY DEF Begin
<1>3. \/ Owner(c) # None /\ k = first
      \/ Owner(c) = None /\ k = prepare
      \/ Owner(c) = None /\ Val(c, Session) # "complete" /\ k = commit
  BY <1>2 DEF TypeOK, Become, Activates
<1>4. Become(w, k)
  BY <1>2, <1>3 DEF TypeOK, Become
<1>5. /\ k \in Busy /\ k.job = j.job /\ k.owner = Owner(c)
      /\ k.prepared = j.prepared /\ k.payment = j.payment
      /\ \/ k.pc = "first" /\ Owner(c) # None /\ k.snap = j.snap
         \/ /\ k.pc = "prepare" /\ Owner(c) = None
            /\ k.snap = [j.snap EXCEPT ![Session] = stripe[c][Session]]
         \/ /\ k.pc = "commit" /\ Owner(c) = None /\ Val(c, Session) # "complete"
            /\ k.snap = j.snap
  <2>1. CASE Owner(c) # None /\ k = first
    BY <1>1, <2>1 DEF Busy
  <2>2. CASE Owner(c) = None /\ k = prepare
    <3>1. [j.snap EXCEPT ![Session] = stripe[c][Session]] \in [Objects -> Copy \cup {None}]
      BY <1>1
    <3> QED
      BY <1>1, <2>2, <3>1 DEF Busy
  <2>3. CASE Owner(c) = None /\ Val(c, Session) # "complete" /\ k = commit
    BY <1>1, <2>3 DEF Busy
  <2> QED
    BY <1>3, <2>1, <2>2, <2>3
<1>6. lock[c] = None /\ lock' = [lock EXCEPT ![c] = w]
  BY DEF Begin, LockFree
<1> QED
  BY <1>4, <1>5, <1>6

LEMMA PrepareFields ==
  ASSUME TypeOK, NEW w \in Workers, Prepare(w)
  PROVE  LET j == worker[w]
             k == worker'[w]
         IN  /\ Become(w, k) /\ k \in Busy
             /\ k.job = j.job /\ k.owner = j.owner /\ k.snap = j.snap /\ k.payment = j.payment
             /\ \/ k.pc = "first" /\ k.prepared
                \/ /\ k.pc = "commit" /\ k.prepared = j.prepared
                   /\ Val(j.job.cust, Sub) # "active"
<1> DEFINE j == worker[w]
           k == worker'[w]
<1>1. j \in Busy
  BY BusyFacts DEF TypeOK, Prepare
<1>2. \/ k = [j EXCEPT !.pc = "first", !.prepared = TRUE]
      \/ k = [j EXCEPT !.pc = "commit"] /\ Val(j.job.cust, Sub) # "active"
  BY DEF TypeOK, Prepare, Goto, Become
<1>3. Become(w, k)
  BY DEF TypeOK, Prepare, Goto, Become
<1> QED
  BY <1>1, <1>2, <1>3 DEF Busy

LEMMA ReadFirstFields ==
  ASSUME TypeOK, NEW w \in Workers, ReadFirst(w)
  PROVE  LET j == worker[w]
             k == worker'[w]
             c == j.job.cust
             o == j.job.obj
         IN  /\ Become(w, k) /\ k \in Busy
             /\ k.job = j.job /\ k.owner = j.owner /\ k.prepared = j.prepared
             /\ \/ /\ o \in {Sub, Repair} /\ k.pc = "sub"
                   /\ k.snap = j.snap /\ k.payment = j.payment
                \/ /\ o = Session \/ \E i \in Invoices : o = Inv(i)
                   /\ k.pc = "sub" /\ k.payment = j.payment
                   /\ k.snap = [j.snap EXCEPT ![o] = stripe[c][o]]
                \/ /\ \E i \in Invoices : o = Pay(i)
                   /\ k.pc = IF j.prepared THEN "sub" ELSE "commit"
                   /\ k.snap = j.snap /\ k.payment = stripe[c][o]
<1> DEFINE j == worker[w]
           k == worker'[w]
           c == j.job.cust
           o == j.job.obj
<1>1. /\ j \in Busy /\ c \in Customers /\ j.prepared \in BOOLEAN
      /\ j.snap \in [Objects -> Copy \cup {None}]
  BY BusyFacts DEF TypeOK, ReadFirst
<1>2. \A x \in Objects : stripe[c][x] \in Copy
  BY <1>1 DEF TypeOK
<1>3. Become(w, k)
  BY DEF TypeOK, ReadFirst, Goto, Become
<1>4. CASE o \in {Sub, Repair} /\ Goto(w, "sub")
  <2>1. k = [j EXCEPT !.pc = "sub"]
    BY <1>4 DEF TypeOK, Goto, Become
  <2> QED
    BY <1>1, <1>3, <1>4, <2>1 DEF Busy
<1>5. CASE /\ o = Session \/ \E i \in Invoices : o = Inv(i)
           /\ Become(w, [j EXCEPT !.pc = "sub", !.snap[o] = stripe[c][o]])
  <2>1. k = [j EXCEPT !.pc = "sub", !.snap = [j.snap EXCEPT ![o] = stripe[c][o]]]
    BY <1>5 DEF TypeOK, Become
  <2>2. o \in Objects
    BY <1>5, ObjectsFacts
  <2>3. [j.snap EXCEPT ![o] = stripe[c][o]] \in [Objects -> Copy \cup {None}]
    BY <1>1, <1>2, <2>2
  <2> QED
    BY <1>1, <1>3, <1>5, <2>1, <2>3 DEF Busy
<1>6. CASE /\ \E i \in Invoices : o = Pay(i)
           /\ Become(w, [j EXCEPT !.payment = stripe[c][o],
                                  !.pc = IF j.prepared THEN "sub" ELSE "commit"])
  <2>1. k = [j EXCEPT !.payment = stripe[c][o],
                      !.pc = IF j.prepared THEN "sub" ELSE "commit"]
    BY <1>6 DEF TypeOK, Become
  <2>2. stripe[c][o] \in Copy
    BY <1>2, <1>6, ObjectsFacts
  <2> QED
    BY <1>1, <1>3, <1>6, <2>1, <2>2 DEF Busy
<1> QED
  BY <1>4, <1>5, <1>6 DEF ReadFirst

LEMMA ReadSubFields ==
  ASSUME TypeOK, NEW w \in Workers, ReadSub(w)
  PROVE  LET j == worker[w]
             k == worker'[w]
             c == j.job.cust
         IN  /\ Become(w, k) /\ k \in Busy /\ k.pc = "invoices"
             /\ k.job = j.job /\ k.owner = j.owner /\ k.prepared = j.prepared
             /\ k.payment = j.payment /\ k.snap = [j.snap EXCEPT ![Sub] = stripe[c][Sub]]
             /\ k.which = IF \E i \in Invoices : j.job.obj = Inv(i)
                          THEN {i \in Invoices : j.job.obj = Inv(i)} ELSE Latest(c)
<1> DEFINE j == worker[w]
           k == worker'[w]
           c == j.job.cust
           which == IF \E i \in Invoices : j.job.obj = Inv(i)
                    THEN {i \in Invoices : j.job.obj = Inv(i)} ELSE Latest(c)
           snap == [j.snap EXCEPT ![Sub] = stripe[c][Sub]]
<1>1. j \in Busy /\ c \in Customers /\ j.snap \in [Objects -> Copy \cup {None}]
  BY BusyFacts DEF TypeOK, ReadSub
<1>2. k = [j EXCEPT !.pc = "invoices", !.snap = snap, !.which = which] /\ Become(w, k)
  BY DEF TypeOK, ReadSub, Become
<1>3. snap \in [Objects -> Copy \cup {None}] /\ which \in SUBSET Invoices
  BY <1>1, ObjectsFacts DEF TypeOK, Latest, Existing
<1> QED
  <2> HIDE DEF which, snap
  <2>1. /\ k \in Busy /\ k.pc = "invoices" /\ k.job = j.job /\ k.owner = j.owner
        /\ k.prepared = j.prepared /\ k.payment = j.payment
        /\ k.snap = snap /\ k.which = which
    BY <1>1, <1>2, <1>3 DEF Busy
  <2> QED
    BY <1>2, <2>1 DEF which, snap

LEMMA ReadInvoicesFields ==
  ASSUME TypeOK, NEW w \in Workers, ReadInvoices(w)
  PROVE  LET j == worker[w]
             k == worker'[w]
             c == j.job.cust
         IN  /\ Become(w, k) /\ k \in Busy /\ k.pc = "payments"
             /\ k.job = j.job /\ k.owner = j.owner /\ k.prepared = j.prepared
             /\ k.payment = j.payment /\ k.todo = k.which
             /\ k.which = IF j.job.obj = Repair THEN Existing(c) ELSE j.which
             /\ \A o \in Objects :
                  k.snap[o] = IF o # j.job.obj /\ \E i \in k.which : o = Inv(i)
                              THEN stripe[c][o] ELSE j.snap[o]
<1> DEFINE j == worker[w]
           k == worker'[w]
           c == j.job.cust
           which == IF j.job.obj = Repair THEN Existing(c) ELSE j.which
           snap == [o \in Objects |-> IF o # j.job.obj /\ \E i \in which : o = Inv(i)
                                      THEN stripe[c][o] ELSE j.snap[o]]
<1>1. /\ j \in Busy /\ c \in Customers /\ j.snap \in [Objects -> Copy \cup {None}]
      /\ j.which \in SUBSET Invoices
  BY BusyFacts DEF TypeOK, ReadInvoices
<1>2. k = [j EXCEPT !.pc = "payments", !.which = which, !.todo = which, !.snap = snap]
      /\ Become(w, k)
  BY DEF TypeOK, ReadInvoices, Become
<1>3. snap \in [Objects -> Copy \cup {None}] /\ which \in SUBSET Invoices
  BY <1>1 DEF TypeOK, Existing
<1>4. /\ k \in Busy /\ k.pc = "payments" /\ k.job = j.job /\ k.owner = j.owner
      /\ k.prepared = j.prepared /\ k.payment = j.payment
      /\ k.snap = snap /\ k.which = which /\ k.todo = which
  <2> HIDE DEF which, snap
  <2> QED
    BY <1>1, <1>2, <1>3 DEF Busy
<1> QED
  BY <1>2, <1>4

LEMMA ReadPaymentFields ==
  ASSUME TypeOK, NEW w \in Workers, ReadPayment(w)
  PROVE  LET j == worker[w]
             k == worker'[w]
             c == j.job.cust
         IN  /\ Become(w, k) /\ k \in Busy
             /\ k.job = j.job /\ k.owner = j.owner /\ k.prepared = j.prepared
             /\ k.payment = j.payment /\ k.which = j.which
             /\ \/ k.pc = "commit" /\ j.todo = {} /\ k.todo = {} /\ k.snap = j.snap
                \/ /\ k.pc = "payments"
                   /\ \E i \in Invoices :
                        /\ i \in j.todo /\ k.todo = j.todo \ {i}
                        /\ k.snap = [j.snap EXCEPT ![Pay(i)] =
                                       IF Val(c, Pay(i)) = "none" THEN None
                                       ELSE stripe[c][Pay(i)]]
<1> DEFINE j == worker[w]
           k == worker'[w]
           c == j.job.cust
<1>1. /\ j \in Busy /\ c \in Customers /\ j.pc = "payments"
      /\ j.snap \in [Objects -> Copy \cup {None}] /\ j.todo \in SUBSET Invoices
  BY BusyFacts DEF TypeOK, ReadPayment
<1>2. Become(w, k)
  BY DEF TypeOK, ReadPayment, Goto, Become
<1>3. CASE j.todo = {} /\ Goto(w, "commit")
  <2>1. k = [j EXCEPT !.pc = "commit"]
    BY <1>3 DEF TypeOK, Goto, Become
  <2> QED
    BY <1>1, <1>2, <1>3, <2>1 DEF Busy
<1>4. ASSUME NEW i \in j.todo,
             Become(w, [j EXCEPT !.todo = @ \ {i},
               !.snap[Pay(i)] = IF Val(c, Pay(i)) = "none" THEN None
                                ELSE stripe[c][Pay(i)]])
      PROVE  /\ k \in Busy /\ k.job = j.job /\ k.owner = j.owner /\ k.prepared = j.prepared
             /\ k.payment = j.payment /\ k.which = j.which /\ k.pc = "payments"
             /\ i \in Invoices /\ k.todo = j.todo \ {i}
             /\ k.snap = [j.snap EXCEPT ![Pay(i)] = IF Val(c, Pay(i)) = "none" THEN None
                                                    ELSE stripe[c][Pay(i)]]
  <2> DEFINE snap == [j.snap EXCEPT ![Pay(i)] = IF Val(c, Pay(i)) = "none" THEN None
                                                ELSE stripe[c][Pay(i)]]
  <2>1. k = [j EXCEPT !.todo = j.todo \ {i}, !.snap = snap]
    BY <1>4 DEF TypeOK, Become
  <2>2. i \in Invoices /\ snap \in [Objects -> Copy \cup {None}]
    BY <1>1, ObjectsFacts DEF TypeOK
  <2>3. /\ k \in Busy /\ k.job = j.job /\ k.owner = j.owner /\ k.prepared = j.prepared
        /\ k.payment = j.payment /\ k.which = j.which /\ k.pc = "payments"
        /\ k.todo = j.todo \ {i} /\ k.snap = snap
    <3> HIDE DEF snap
    <3> QED
      BY <1>1, <2>1, <2>2 DEF Busy
  <2> QED
    BY <2>2, <2>3
<1> QED
  BY <1>2, <1>3, <1>4 DEF ReadPayment

LEMMA InitType == Init => TypeOK
<1> SUFFICES ASSUME Init PROVE TypeOK
  OBVIOUS
<1>1. stripe \in [Customers -> [Objects -> Copy]] /\ rows \in [Customers -> [Objects -> Copy]]
  BY InitialObject DEF Init
<1>2. account \in [Emails -> Customers \cup {None, "no_account"}]
  BY ReconcilerAssumption DEF Init
<1>3. faults \in 0 .. MaxFaults
  BY ReconcilerAssumption DEF Init
<1> QED
  BY <1>1, <1>2, <1>3 DEF Init, TypeOK, Workers

(* Every action keeps the types.                                           *)
LEMMA StripeChangeType ==
  ASSUME TypeOK, NEW c \in Customers, NEW o \in Objects, StripeChange(c, o)
  PROVE  TypeOK'
<1>1. PICK v \in Values : stripe' = [stripe EXCEPT ![c][o] = [ver |-> @.ver + 1, val |-> v]]
  BY DEF StripeChange
<1>2. stripe[c][o] \in Copy
  BY DEF TypeOK
<1>3. [ver |-> stripe[c][o].ver + 1, val |-> v] \in Copy
  BY <1>2 DEF Copy
<1>4. stripe' \in [Customers -> [Objects -> Copy]]
  BY <1>1, <1>3 DEF TypeOK
<1> QED
  BY <1>4 DEF StripeChange, TypeOK, db

LEMMA StartType ==
  ASSUME TypeOK, NEW w \in Workers, NEW job \in Job, Become(w, Fresh(job)),
         UNCHANGED <<stripe, settled, acked, db, claim, lock, faults>>
  PROVE  TypeOK'
<1>1. Fresh(job) \in Busy
  BY DEF Fresh, Busy
<1>2. worker' \in [Workers -> {Idle} \cup Busy]
  BY <1>1, BecomeType
<1> QED
  BY <1>2 DEF TypeOK, db

LEMMA BeginType ==
  ASSUME TypeOK, NEW w \in Workers, Begin(w)
  PROVE  TypeOK'
<1>1. worker[w].job.cust \in Customers /\ worker[w].pc = "received"
  BY BusyFacts DEF TypeOK, Begin
<1>2. worker' \in [Workers -> {Idle} \cup Busy]
  BY <1>1, BeginFields, BecomeType, GotoType DEF Begin, Skip
<1>3. lock' \in [Customers -> Workers \cup {None}]
  BY <1>1 DEF Begin, TypeOK
<1> QED
  BY <1>2, <1>3 DEF Begin, TypeOK, db

LEMMA ReadType ==
  ASSUME TypeOK, NEW w \in Workers,
         Prepare(w) \/ ReadFirst(w) \/ ReadSub(w) \/ ReadInvoices(w) \/ ReadPayment(w)
  PROVE  TypeOK'
<1>1. worker' \in [Workers -> {Idle} \cup Busy]
  BY PrepareFields, ReadFirstFields, ReadSubFields, ReadInvoicesFields, ReadPaymentFields,
     BecomeType
<1> QED
  BY <1>1 DEF TypeOK, db, Prepare, ReadFirst, ReadSub, ReadInvoices, ReadPayment

LEMMA CommitType ==
  ASSUME TypeOK, NEW w \in Workers, Commit(w)
  PROVE  TypeOK'
<1> DEFINE job == worker[w].job
           c == job.cust
           m == EmailOf[c]
<1>1. worker[w].pc # "idle"
  BY DEF Commit
<1>2. /\ worker[w] \in Busy /\ job \in Job /\ c \in Customers
      /\ worker[w].which \in SUBSET Invoices
  BY <1>1, BusyFacts DEF TypeOK
<1>3. m \in Emails
  BY <1>2, ReconcilerAssumption
<1>4. rows' \in [Customers -> [Objects -> Copy]]
  <2>1. [o \in Objects |-> RowAfter(w, c, o)] \in [Objects -> Copy]
    BY <1>1, <1>2, RowAfterType
  <2> QED
    BY <2>1 DEF Commit, TypeOK
<1>5. linked' \subseteq Customers \X Invoices
  BY <1>2 DEF Commit, TypeOK, LinkedAfter
<1>6. activated' \subseteq Customers
  BY <1>2 DEF Commit, TypeOK, ActivatedAfter
<1>7. account' \in [Emails -> Customers \cup {None, "no_account"}]
  BY <1>2, <1>3 DEF Commit, TypeOK, CustomerAfter
<1>8. buyer' \in [Customers -> Emails \cup {None}]
  BY <1>2, <1>3 DEF Commit, TypeOK
<1>9. settled' \subseteq Event
  BY <1>2 DEF Commit, TypeOK, Job
<1>10. lock' \in [Customers -> Workers \cup {None}]
  BY UnlockType DEF Commit
<1>11. worker' \in [Workers -> {Idle} \cup Busy]
  BY <1>1, GotoType, BecomeType DEF Commit
<1> QED
  BY <1>4, <1>5, <1>6, <1>7, <1>8, <1>9, <1>10, <1>11 DEF Commit, TypeOK

(* The actions that end a worker's job. *)
LEMMA EndType ==
  ASSUME TypeOK, NEW w \in Workers,
         SendClaim(w) \/ ClaimFails(w) \/ Fail(w) \/ Crash(w)
  PROVE  TypeOK'
<1>1. /\ worker[w] \in Busy /\ worker[w].job \in Job /\ worker[w].job.cust \in Customers
  <2>1. worker[w] \in {Idle} \cup Busy
    BY DEF TypeOK
  <2>2. worker[w].pc # "idle"
    BY <2>1 DEF SendClaim, ClaimFails, Fail, Crash, Busy
  <2> QED
    BY <2>1, <2>2, BusyFacts
<1>2. worker' \in [Workers -> {Idle} \cup Busy]
  BY BecomeType DEF SendClaim, ClaimFails, Fail, Crash
<1>3. faults' \in 0 .. MaxFaults
  BY ReconcilerAssumption DEF SendClaim, ClaimFails, Fail, Crash, TypeOK
<1>4. lock' \in [Customers -> Workers \cup {None}]
  BY UnlockType DEF SendClaim, ClaimFails, Fail, Crash, TypeOK
<1>5. acked' \subseteq Event
  BY <1>1 DEF SendClaim, ClaimFails, Fail, Crash, TypeOK, Answer, AnswerFailure, Job
<1>6. claim' \in [Customers -> {"none", "pending", "sent"}]
  BY <1>1 DEF SendClaim, ClaimFails, Fail, Crash, TypeOK
<1>7. settled' \subseteq Event
  BY DEF SendClaim, ClaimFails, Fail, Crash, TypeOK
<1>8. UNCHANGED <<stripe, rows, linked, activated, account, buyer>>
  BY DEF SendClaim, ClaimFails, Fail, Crash, db
<1> QED
  BY <1>2, <1>3, <1>4, <1>5, <1>6, <1>7, <1>8 DEF TypeOK

LEMMA TypeStep == TypeOK /\ [Next]_vars => TypeOK'
<1> SUFFICES ASSUME TypeOK, [Next]_vars PROVE TypeOK'
  OBVIOUS
<1>1. ASSUME NEW c \in Customers, NEW o \in Objects, StripeChange(c, o) PROVE TypeOK'
  BY <1>1, StripeChangeType
<1>2. ASSUME NEW w \in Handlers, NEW e \in Event, Deliver(w, e) PROVE TypeOK'
  BY <1>2, StartType DEF Deliver, Workers, Job
<1>3. ASSUME NEW w \in Repairers, NEW c \in Customers, StartRepair(w, c) PROVE TypeOK'
  <2>1. [cust |-> c, obj |-> Repair, ver |-> 0] \in Job
    BY DEF Job
  <2> QED
    BY <1>3, <2>1, StartType DEF StartRepair, Workers
<1>4. ASSUME NEW w \in Workers, Step(w) \/ ClaimFails(w) \/ Fail(w) \/ Crash(w) PROVE TypeOK'
  BY <1>4, BeginType, ReadType, CommitType, EndType DEF Step
<1>5. CASE UNCHANGED vars
  BY <1>5 DEF vars, db, TypeOK
<1> QED
  BY <1>1, <1>2, <1>3, <1>4, <1>5 DEF Next

(* Every variable keeps its type. *)
THEOREM TypeCorrect == Spec => []TypeOK
BY InitType, TypeStep, PTL DEF Spec

-----------------------------------------------------------------------------
LEMMA InitInv == Init => IInv
<1> SUFFICES ASSUME Init PROVE IInv
  OBVIOUS
<1>1. TypeOK
  BY InitType
<1>2. LockInv /\ SnapInv /\ FreshInv
  BY DEF Init, LockInv, SnapInv, FreshInv, NothingRead, Reading, Idle
<1>3. RowsBehind
  BY InitialObject DEF Init, RowsBehind
<1> QED
  BY <1>1, <1>2, <1>3 DEF IInv

(* Versions are numbers, of rows, of Stripe and of what a worker read. *)
LEMMA Versions ==
  ASSUME TypeOK, NEW c \in Customers, NEW o \in Objects
  PROVE  rows[c][o].ver \in Nat /\ stripe[c][o].ver \in Nat
BY DEF TypeOK, Copy

LEMMA ReadingFacts ==
  ASSUME TypeOK, NEW w \in Workers, Reading(w)
  PROVE  /\ worker[w] \in Busy
         /\ worker[w].job.cust \in Customers
         /\ worker[w].snap \in [Objects -> Copy \cup {None}]
         /\ worker[w].payment \in Copy \cup {None}
BY BusyFacts DEF TypeOK, Reading

(* Two workers never read the same customer at once. *)
LEMMA OneReader ==
  ASSUME LockInv, NEW v \in Workers, NEW w \in Workers, v # w, Reading(v), Reading(w)
  PROVE  worker[v].job.cust # worker[w].job.cust
BY DEF LockInv

LEMMA StripeChangeInv ==
  ASSUME IInv, TypeOK', NEW c \in Customers, NEW o \in Objects, StripeChange(c, o)
  PROVE  IInv'
<1>1. TypeOK
  BY DEF IInv
<1>2. ASSUME NEW d \in Customers, NEW x \in Objects
      PROVE  rows'[d][x] = rows[d][x] /\ stripe[d][x].ver <= stripe'[d][x].ver
  <2>1. PICK v \in Values : stripe' = [stripe EXCEPT ![c][o] = [ver |-> @.ver + 1, val |-> v]]
    BY DEF StripeChange
  <2>2. stripe[d][x].ver \in Nat
    BY <1>1, Versions
  <2>3. stripe \in [Customers -> [Objects -> Copy]]
    BY <1>1 DEF TypeOK
  <2>4. CASE d = c /\ x = o
    <3>1. stripe'[d][x] = [ver |-> stripe[c][o].ver + 1, val |-> v]
      BY <2>1, <2>3, <2>4
    <3> QED
      BY <2>2, <2>4, <3>1 DEF StripeChange, db
  <2>5. CASE ~(d = c /\ x = o)
    <3>1. stripe'[d][x] = stripe[d][x]
      BY <2>1, <2>3, <2>5
    <3> QED
      BY <2>2, <3>1 DEF StripeChange, db
  <2> QED
    BY <2>4, <2>5
<1>3. RowsBehind'
  BY <1>1, <1>2, Versions, TypeOK' DEF IInv, RowsBehind, TypeOK, Copy
<1>4. LockInv'
  BY DEF IInv, LockInv, Reading, StripeChange
<1>5. SnapInv'
  <2> SUFFICES ASSUME NEW w \in Workers, Reading(w)',
                      NEW x \in Objects, NEW copy \in Copy \cup {None},
                      Between(worker[w].job.cust, x, copy)
               PROVE  Between(worker[w].job.cust, x, copy)'
    <3>1. worker' = worker
      BY DEF StripeChange
    <3>2. ASSUME NEW w \in Workers, Reading(w)
          PROVE  /\ worker[w].snap \in [Objects -> Copy \cup {None}]
                 /\ worker[w].payment \in Copy \cup {None}
      BY <1>1, <3>2, ReadingFacts
    <3> QED
      BY <3>1, <3>2 DEF IInv, SnapInv, Reading
  <2>1. worker' = worker /\ worker[w].job.cust \in Customers
    BY <1>1, ReadingFacts DEF StripeChange, Reading
  <2>2. CASE copy # None
    <3>1. copy.ver \in Nat
      BY <2>2 DEF Copy
    <3> DEFINE d == worker[w].job.cust
    <3>2. /\ stripe[d][x].ver \in Nat /\ stripe'[d][x].ver \in Nat
          /\ rows[d][x].ver \in Nat
      BY <1>1, <2>1, Versions, TypeOK' DEF TypeOK, Copy
    <3> QED
      BY <1>2, <2>1, <2>2, <3>1, <3>2 DEF Between
  <2>3. CASE copy = None
    BY <2>3 DEF Between
  <2> QED
    BY <2>2, <2>3
<1>6. FreshInv'
  BY DEF IInv, FreshInv, NothingRead, StripeChange
<1> QED
  BY <1>3, <1>4, <1>5, <1>6, TypeOK' DEF IInv

(* A worker that does not read after the step disturbs nobody. *)
LEMMA NotReadingInv ==
  ASSUME IInv, TypeOK', NEW w \in Workers, NEW k \in {Idle} \cup Busy, Become(w, k),
         k.pc \in {"idle", "received", "claim"}, NothingRead(k),
         Unlock(w) \/ UNCHANGED lock, UNCHANGED <<stripe, rows>>
  PROVE  IInv'
<1>1. TypeOK
  BY DEF IInv
<1>2. worker' = [worker EXCEPT ![w] = k] /\ worker \in [Workers -> {Idle} \cup Busy]
  BY <1>1 DEF Become, TypeOK
<1>3. ~Reading(w)'
  BY <1>2 DEF Reading
<1>4. \A v \in Workers : Reading(v)' => v # w /\ worker'[v] = worker[v] /\ Reading(v)
  BY <1>2, <1>3 DEF Reading
<1>5. LockInv'
  <2> SUFFICES ASSUME NEW v \in Workers, Reading(v)'
               PROVE  lock'[worker'[v].job.cust] = v
    BY DEF LockInv
  <2>1. v # w /\ worker'[v] = worker[v] /\ lock[worker[v].job.cust] = v
    BY <1>4 DEF IInv, LockInv
  <2>2. worker[v].job.cust \in Customers
    BY <1>1, <1>4, ReadingFacts
  <2> QED
    BY <2>1, <2>2 DEF Unlock
<1>6. SnapInv'
  BY <1>4 DEF IInv, SnapInv, Between
<1>7. RowsBehind'
  BY DEF IInv, RowsBehind
<1>8. FreshInv'
  BY <1>2 DEF IInv, FreshInv, NothingRead
<1> QED
  BY <1>5, <1>6, <1>7, <1>8, TypeOK' DEF IInv

(* A worker that holds its customer's lock and reads: each copy is kept,   *)
(* dropped, or taken from Stripe now.                                      *)
LEMMA ReadingInv ==
  ASSUME IInv, TypeOK', NEW w \in Workers, NEW k \in Busy, Become(w, k),
         k.pc # "received", lock'[k.job.cust] = w,
         \A v \in Workers \ {w} : Reading(v) => lock'[worker[v].job.cust] = v,
         UNCHANGED <<stripe, rows>>,
         \A o \in Objects :
           \/ Between(k.job.cust, o, k.snap[o])
           \/ k.snap[o] = stripe[k.job.cust][o],
         \A o \in Objects : o = k.job.obj =>
           \/ Between(k.job.cust, o, k.payment)
           \/ k.payment = stripe[k.job.cust][o]
  PROVE  IInv'
<1>1. TypeOK
  BY DEF IInv
<1>2. worker' = [worker EXCEPT ![w] = k] /\ worker \in [Workers -> {Idle} \cup Busy]
  BY <1>1 DEF Become, TypeOK
<1>3. worker'[w] = k /\ \A v \in Workers \ {w} : worker'[v] = worker[v]
  BY <1>2
<1>4. LockInv'
  BY <1>3 DEF LockInv, Reading
<1>5. k.job.cust \in Customers
  BY BusyFacts DEF Busy
<1>6. \A o \in Objects : rows[k.job.cust][o].ver <= stripe[k.job.cust][o].ver
                         /\ stripe[k.job.cust][o].ver \in Nat
  BY <1>1, <1>5, Versions DEF IInv, RowsBehind
<1>7. SnapInv'
  <2> SUFFICES ASSUME NEW v \in Workers, Reading(v)'
               PROVE  /\ \A o \in Objects :
                           Between(worker'[v].job.cust, o, worker'[v].snap[o])
                      /\ \A o \in Objects : o = worker'[v].job.obj =>
                           Between(worker'[v].job.cust, o, worker'[v].payment)
    BY DEF SnapInv, Between
  <2>1. CASE v = w
    <3>1. worker'[v] = k
      BY <1>3, <2>1
    <3> QED
      BY <1>6, <3>1 DEF Between
  <2>2. CASE v # w
    BY <1>3, <2>2 DEF IInv, SnapInv, Reading
  <2> QED
    BY <2>1, <2>2
<1>8. RowsBehind'
  BY DEF IInv, RowsBehind
<1>9. FreshInv'
  BY <1>3 DEF IInv, FreshInv, NothingRead
<1> QED
  BY <1>4, <1>7, <1>8, <1>9, TypeOK' DEF IInv

LEMMA BeginInv ==
  ASSUME IInv, TypeOK', NEW w \in Workers, Begin(w)
  PROVE  IInv'
<1> DEFINE j == worker[w]
           k == worker'[w]
           c == j.job.cust
<1>1. TypeOK
  BY DEF IInv
<1>2. /\ j \in Busy /\ c \in Customers /\ j.pc = "received"
      /\ j.snap \in [Objects -> Copy \cup {None}]
  BY <1>1, BusyFacts DEF TypeOK, Begin
<1>3. worker \in [Workers -> {Idle} \cup Busy]
  BY <1>1 DEF TypeOK
<1>4. CASE Done(j.job)
  <2>1. [j EXCEPT !.pc = "claim"] \in {Idle} \cup Busy
    BY <1>2 DEF Busy
  <2>2. lock' = lock /\ UNCHANGED <<stripe, rows>>
    BY <1>4 DEF Begin, db
  <2>3. Become(w, [j EXCEPT !.pc = "claim"])
    BY <1>4 DEF Begin, Skip, Goto
  <2>4. [j EXCEPT !.pc = "claim"].pc = "claim"
    BY <1>2 DEF Busy
  <2> QED
    BY <2>1, <2>2, <2>3, <2>4, NotReadingInv DEF NothingRead
<1>5. CASE ~Done(j.job)
  <2>1. lock[c] = None /\ lock' = [lock EXCEPT ![c] = w] /\ UNCHANGED <<stripe, rows>>
    BY <1>5 DEF Begin, LockFree, db
  <2>2. /\ k \in Busy /\ k.job = j.job /\ k.payment = j.payment
        /\ k.pc # "received" /\ Become(w, k)
        /\ (k.snap = j.snap \/ k.snap = [j.snap EXCEPT ![Session] = stripe[c][Session]])
    BY <1>1, <1>5, BeginFields
  <2>3. lock'[k.job.cust] = w
    BY <1>1, <1>2, <2>1, <2>2 DEF TypeOK
  <2>4. \A v \in Workers \ {w} : Reading(v) => lock'[worker[v].job.cust] = v
    <3> SUFFICES ASSUME NEW v \in Workers \ {w}, Reading(v)
                 PROVE  lock'[worker[v].job.cust] = v
      OBVIOUS
    <3>1. lock[worker[v].job.cust] = v /\ v # None /\ worker[v].job.cust \in Customers
      BY <1>1, ReadingFacts, ReconcilerAssumption DEF IInv, LockInv, Workers
    <3> QED
      BY <1>1, <2>1, <3>1 DEF TypeOK
  <2>5. \A o \in Objects : /\ Between(c, o, j.snap[o]) /\ Between(c, o, j.payment)
                          /\ (k.snap[o] = j.snap[o] \/ k.snap[o] = stripe[c][o])
    BY <1>2, <2>2 DEF IInv, FreshInv, NothingRead, Between
  <2> QED
    <3> HIDE DEF k
    <3> QED
      BY <2>1, <2>2, <2>3, <2>4, <2>5, ReadingInv
<1> QED
  BY <1>4, <1>5

(* The reads between lock and commit: the new copies are taken from Stripe *)
(* now, the others stay as they were.                                      *)
LEMMA ReadInv ==
  ASSUME IInv, TypeOK', NEW w \in Workers,
         Prepare(w) \/ ReadFirst(w) \/ ReadSub(w) \/ ReadInvoices(w) \/ ReadPayment(w)
  PROVE  IInv'
<1> DEFINE j == worker[w]
           k == worker'[w]
           c == j.job.cust
<1>1. TypeOK
  BY DEF IInv
<1>2. Reading(w) /\ UNCHANGED <<stripe, rows, lock>>
  BY DEF Prepare, ReadFirst, ReadSub, ReadInvoices, ReadPayment, Reading, db
<1>3. /\ j \in Busy /\ c \in Customers
      /\ j.snap \in [Objects -> Copy \cup {None}]
      /\ j.which \in SUBSET Invoices /\ j.todo \in SUBSET Invoices
  BY <1>1, <1>2, BusyFacts DEF TypeOK, Reading
<1>5. /\ Become(w, k) /\ k \in Busy /\ k.job = j.job /\ k.pc \notin {"idle", "received"}
      /\ (k.payment = j.payment \/ (j.job.obj \in Objects /\ k.payment = stripe[c][j.job.obj]))
      /\ \A o \in Objects : k.snap[o] = j.snap[o] \/ k.snap[o] = stripe[c][o] \/ k.snap[o] = None
  <2>1. CASE Prepare(w)
    BY <1>1, <2>1, PrepareFields
  <2>2. CASE ReadFirst(w)
    BY <1>1, <1>3, <2>2, ReadFirstFields, ObjectsFacts
  <2>3. CASE ReadSub(w)
    BY <1>1, <1>3, <2>3, ReadSubFields, ObjectsFacts
  <2>4. CASE ReadInvoices(w)
    BY <1>1, <2>4, ReadInvoicesFields
  <2>5. CASE ReadPayment(w)
    <3>1. /\ Become(w, k) /\ k \in Busy /\ k.job = j.job /\ k.payment = j.payment
          /\ k.pc \in {"payments", "commit"}
          /\ \/ k.snap = j.snap
             \/ \E i \in Invoices : k.snap = [j.snap EXCEPT ![Pay(i)] =
                  IF Val(c, Pay(i)) = "none" THEN None ELSE stripe[c][Pay(i)]]
      BY <1>1, <2>5, ReadPaymentFields
    <3>2. \A o \in Objects : k.snap[o] = j.snap[o] \/ k.snap[o] = stripe[c][o] \/ k.snap[o] = None
      BY <1>3, <3>1, ObjectsFacts
    <3> QED
      BY <3>1, <3>2
  <2> QED
    BY <1>2, <2>1, <2>2, <2>3, <2>4, <2>5
<1>7. /\ lock'[k.job.cust] = w
      /\ \A v \in Workers \ {w} : Reading(v) => lock'[worker[v].job.cust] = v
  BY <1>2, <1>5 DEF IInv, LockInv
<1>8. /\ \A o \in Objects : Between(c, o, k.snap[o]) \/ k.snap[o] = stripe[c][o]
      /\ \A o \in Objects : o = k.job.obj => Between(c, o, k.payment) \/ k.payment = stripe[c][o]
  BY <1>2, <1>5 DEF IInv, SnapInv, Between
<1> QED
  <2> HIDE DEF k
  <2> QED
    BY <1>2, <1>5, <1>7, <1>8, ReadingInv

(* What a transaction writes is no older than the row it replaces and not  *)
(* ahead of Stripe.                                                        *)
LEMMA RowAfterBetween ==
  ASSUME IInv, NEW w \in Workers, worker[w].pc = "commit", NEW o \in Objects
  PROVE  LET c == worker[w].job.cust IN
         rows[c][o].ver <= RowAfter(w, c, o).ver /\ RowAfter(w, c, o).ver <= stripe[c][o].ver
<1> DEFINE c == worker[w].job.cust
<1>1. TypeOK /\ Reading(w)
  BY DEF IInv, Reading
<1>2. c \in Customers
  BY <1>1, ReadingFacts
<1>3. rows[c][o].ver <= rows[c][o].ver /\ rows[c][o].ver <= stripe[c][o].ver
  BY <1>1, <1>2, Versions DEF IInv, RowsBehind
<1>4. /\ Between(c, o, worker[w].snap[o])
      /\ o = worker[w].job.obj => Between(c, o, worker[w].payment)
  BY <1>1 DEF IInv, SnapInv
<1> QED
  BY <1>3, <1>4 DEF RowAfter, Between

LEMMA CommitRows ==
  ASSUME IInv, NEW w \in Workers, Commit(w), NEW c \in Customers, NEW o \in Objects
  PROVE  /\ rows'[c][o] \in {rows[c][o], RowAfter(w, c, o)}
         /\ c # worker[w].job.cust => rows'[c][o] = rows[c][o]
         /\ rows[c][o].ver <= rows'[c][o].ver /\ rows'[c][o].ver <= stripe[c][o].ver
<1>1. TypeOK
  BY DEF IInv
<1>2. rows[c][o].ver \in Nat /\ rows[c][o].ver <= stripe[c][o].ver
  BY <1>1, Versions DEF IInv, RowsBehind
<1>3. \/ rows' = rows
      \/ rows' = [rows EXCEPT ![worker[w].job.cust] =
                    [x \in Objects |-> RowAfter(w, worker[w].job.cust, x)]]
  BY DEF Commit
<1>4. \/ rows'[c][o] = rows[c][o]
      \/ c = worker[w].job.cust /\ rows'[c][o] = RowAfter(w, c, o)
  BY <1>1, <1>3 DEF TypeOK
<1>5. worker[w].pc = "commit"
  BY DEF Commit
<1> QED
  BY <1>2, <1>4, <1>5, RowAfterBetween

LEMMA CommitInv ==
  ASSUME IInv, TypeOK', NEW w \in Workers, Commit(w)
  PROVE  IInv'
<1> DEFINE j == worker[w]
<1>1. TypeOK /\ Reading(w) /\ stripe' = stripe
  BY DEF IInv, Commit, Reading
<1>2. worker \in [Workers -> {Idle} \cup Busy] /\ j \in Busy
  BY <1>1, ReadingFacts DEF TypeOK
<1>3. worker'[w].pc \in {"idle", "claim"} /\ \A v \in Workers \ {w} : worker'[v] = worker[v]
  BY <1>2 DEF Commit, Goto, Become, Idle, Busy
<1>4. \A v \in Workers : Reading(v)' => v # w /\ Reading(v) /\ worker'[v] = worker[v]
  BY <1>3 DEF Reading
<1>5. LockInv'
  <2> SUFFICES ASSUME NEW v \in Workers, Reading(v)'
               PROVE  lock'[worker'[v].job.cust] = v
    BY DEF LockInv
  <2>1. v # w /\ worker'[v] = worker[v] /\ lock[worker[v].job.cust] = v
    BY <1>4 DEF IInv, LockInv
  <2>2. worker[v].job.cust \in Customers
    BY <1>1, <1>4, ReadingFacts
  <2> QED
    BY <2>1, <2>2 DEF Commit, Unlock
<1>6. SnapInv'
  <2> SUFFICES ASSUME NEW v \in Workers, Reading(v)'
               PROVE  (/\ \A o \in Objects :
                            Between(worker[v].job.cust, o, worker[v].snap[o])
                       /\ \A o \in Objects : o = worker[v].job.obj =>
                            Between(worker[v].job.cust, o, worker[v].payment))'
    BY DEF SnapInv
  <2>1. v # w /\ Reading(v) /\ worker'[v] = worker[v]
    BY <1>4
  <2>2. worker[v].job.cust # j.job.cust /\ worker[v].job.cust \in Customers
    BY <1>1, <2>1, OneReader, ReadingFacts DEF IInv
  <2>3. \A o \in Objects : rows'[worker[v].job.cust][o] = rows[worker[v].job.cust][o]
    BY <2>2, CommitRows
  <2> QED
    BY <1>1, <2>1, <2>3 DEF IInv, SnapInv, Between
<1>7. FreshInv'
  BY <1>3 DEF IInv, FreshInv, NothingRead
<1>8. RowsBehind'
  BY <1>1, CommitRows DEF RowsBehind
<1> QED
  BY <1>5, <1>6, <1>7, <1>8, TypeOK' DEF IInv

LEMMA EndInv ==
  ASSUME IInv, TypeOK', NEW w \in Workers,
         SendClaim(w) \/ ClaimFails(w) \/ Fail(w) \/ Crash(w)
  PROVE  IInv'
<1>1. Become(w, Idle) /\ (Unlock(w) \/ UNCHANGED lock) /\ UNCHANGED <<stripe, rows>>
  BY DEF SendClaim, ClaimFails, Fail, Crash, db
<1>2. Idle \in {Idle} \cup Busy /\ Idle.pc = "idle"
  BY DEF Idle
<1> QED
  BY <1>1, <1>2, NotReadingInv DEF NothingRead

LEMMA StartInv ==
  ASSUME IInv, TypeOK', NEW w \in Workers, NEW job \in Job, Become(w, Fresh(job)),
         UNCHANGED <<stripe, settled, acked, db, claim, lock, faults>>
  PROVE  IInv'
<1>1. Fresh(job) \in {Idle} \cup Busy
  BY DEF Fresh, Busy
<1>2. Fresh(job).pc = "received" /\ NothingRead(Fresh(job))
  BY DEF Fresh, NothingRead
<1> QED
  BY <1>1, <1>2, NotReadingInv DEF db

LEMMA InvStep == IInv /\ [Next]_vars => IInv'
<1> SUFFICES ASSUME IInv, [Next]_vars PROVE IInv'
  OBVIOUS
<1>0. TypeOK'
  BY TypeStep DEF IInv
<1>1. ASSUME NEW c \in Customers, NEW o \in Objects, StripeChange(c, o) PROVE IInv'
  BY <1>0, <1>1, StripeChangeInv
<1>2. ASSUME NEW w \in Handlers, NEW e \in Event, Deliver(w, e) PROVE IInv'
  BY <1>0, <1>2, StartInv DEF Deliver, Workers, Job
<1>3. ASSUME NEW w \in Repairers, NEW c \in Customers, StartRepair(w, c) PROVE IInv'
  <2>1. [cust |-> c, obj |-> Repair, ver |-> 0] \in Job
    BY DEF Job
  <2> QED
    BY <1>0, <1>3, <2>1, StartInv DEF StartRepair, Workers
<1>4. ASSUME NEW w \in Workers, Step(w) \/ ClaimFails(w) \/ Fail(w) \/ Crash(w) PROVE IInv'
  BY <1>0, <1>4, BeginInv, ReadInv, CommitInv, EndInv DEF Step
<1>5. CASE UNCHANGED vars
  BY <1>0, <1>5 DEF vars, db, IInv, LockInv, SnapInv, FreshInv, NothingRead, RowsBehind,
                    Between, Reading
<1> QED
  BY <1>1, <1>2, <1>3, <1>4, <1>5 DEF Next

LEMMA Invariance == Spec => []IInv
BY InitInv, InvStep, PTL DEF Spec

-----------------------------------------------------------------------------
(* The refinement: a Stripe change is a remote change, a commit replaces   *)
(* rows by copies that are newer but not ahead, and the rest stutters.     *)
LEMMA MirrorTypes ==
  ASSUME TypeOK, NEW x \in Items
  PROVE  Remote[x] \in Nat /\ Local[x] \in Nat
BY Versions DEF Items, Remote, Local

LEMMA MirrorInit == Init => M!Init
<1> SUFFICES ASSUME Init PROVE M!Init
  OBVIOUS
<1>1. Remote \in [Items -> Nat]
  BY InitType, MirrorTypes DEF Remote
<1>2. Local = [x \in Items |-> 0]
  BY InitialObject DEF Init, Local, Items
<1> QED
  BY <1>1, <1>2 DEF M!Init

LEMMA MirrorStep == IInv /\ [Next]_vars => [M!Next]_<<Remote, Local>>
<1> SUFFICES ASSUME IInv, [Next]_vars PROVE [M!Next]_<<Remote, Local>>
  OBVIOUS
<1>0. TypeOK /\ TypeOK'
  BY TypeStep DEF IInv
<1>1. ASSUME NEW c \in Customers, NEW o \in Objects, StripeChange(c, o)
      PROVE  M!Change
  <2>1. Local' = Local
    BY <1>1 DEF StripeChange, Local, db
  <2>2. <<c, o>> \in Items
    BY DEF Items
  <2>3. PICK v \in Values : stripe' = [stripe EXCEPT ![c][o] = [ver |-> @.ver + 1, val |-> v]]
    BY <1>1 DEF StripeChange
  <2>4. ASSUME NEW x \in Items
        PROVE  stripe'[x[1]][x[2]].ver =
                 IF x = <<c, o>> THEN Remote[x] + 1 ELSE Remote[x]
    <3>1. PICK d \in Customers, y \in Objects : x = <<d, y>>
      BY DEF Items
    <3>2. stripe'[d][y] = IF d = c /\ y = o THEN [ver |-> stripe[c][o].ver + 1, val |-> v]
                          ELSE stripe[d][y]
      BY <1>0, <2>3 DEF TypeOK
    <3> QED
      BY <3>1, <3>2 DEF Remote
  <2>5. Remote' = [Remote EXCEPT ![<<c, o>>] = @ + 1]
    BY <2>2, <2>4 DEF Remote
  <2> QED
    BY <2>1, <2>2, <2>5 DEF M!Change
<1>2. ASSUME UNCHANGED <<stripe, rows>> PROVE UNCHANGED <<Remote, Local>>
  BY <1>2 DEF Remote, Local
<1>3. ASSUME NEW w \in Workers, Commit(w) PROVE M!Sync
  <2>1. Remote' = Remote
    BY <1>3 DEF Commit, Remote
  <2>2. Local' \in [Items -> Nat]
    <3>1. \A x \in Items : rows'[x[1]][x[2]].ver \in Nat
      BY <1>0 DEF TypeOK, Copy, Items
    <3> QED
      BY <3>1 DEF Local
  <2>3. \A x \in Items : Local[x] <= Local'[x] /\ Local'[x] <= Remote[x]
    BY <1>3, CommitRows DEF Local, Remote, Items
  <2> QED
    BY <2>1, <2>2, <2>3 DEF M!Sync
<1>4. \/ \E c \in Customers, o \in Objects : StripeChange(c, o)
      \/ \E w \in Workers : Commit(w)
      \/ UNCHANGED <<stripe, rows>>
  BY DEF Next, Step, Deliver, StartRepair, Begin, Prepare, ReadFirst, ReadSub, ReadInvoices,
         ReadPayment, SendClaim, ClaimFails, Fail, Crash, vars, db
<1> QED
  BY <1>1, <1>2, <1>3, <1>4 DEF M!Next

(* The mirrored rows implement the abstract mirror: whatever the order of  *)
(* the deliveries, the reads and the failures, no row ever goes back to an *)
(* older version or gets ahead of Stripe.                                  *)
THEOREM ImplementsMirror == Spec => MirrorSpec
<1>1. Init => M!Init
  BY MirrorInit
<1>2. IInv /\ [Next]_vars => [M!Next]_<<Remote, Local>>
  BY MirrorStep
<1> QED
  BY <1>1, <1>2, Invariance, PTL DEF Spec, MirrorSpec, M!Spec

-----------------------------------------------------------------------------
(* What the rows promise. *)

(* An account or a completed checkout names the customer. *)
Owned(c) == \E m \in Emails : account[m] = c \/ buyer[c] = m

(* The checkout is completed and the subscription is live. *)
Bought(c) == Val(c, Session) = "complete" /\ Val(c, Sub) = "active"

(* An event that is settled or answered, or about to be. *)
Handled(e) ==
  \/ e \in settled \cup acked
  \/ \E w \in Workers : worker[w].pc = "claim" /\ worker[w].job = e

(* The event that announced a completed checkout or a live subscription. *)
Announces(e, c) == e.cust = c /\ e.obj \in {Session, Sub} /\ e.ver = stripe[c][e.obj].ver

SameAs(c, o, copy) == copy.ver = stripe[c][o].ver => copy = stripe[c][o]

(* Stripe's objects: an invoice is paid by a payment, a payment is made on *)
(* an invoice, and what is not there yet has never changed.                *)
StripeInv ==
  \A c \in Customers :
    /\ \A o \in Objects : stripe[c][o].ver <= MaxVer
    /\ \A o \in Objects : Val(c, o) = "none" => stripe[c][o].ver = 0
    /\ Val(c, Session) = "complete" => stripe[c][Session].ver # 0
    /\ Val(c, Sub) = "active" => stripe[c][Sub].ver # 0
    /\ Val(c, Inv(1)) # "none"
    /\ \A i \in Invoices : /\ Val(c, Inv(i)) = "paid" => Val(c, Pay(i)) # "none"
                           /\ Val(c, Pay(i)) # "none" => Val(c, Inv(i)) # "none"

(* A renewal is invoiced only to a customer somebody owns. *)
Renewed == \A c \in Customers, i \in Invoices : i > 1 /\ Val(c, Inv(i)) # "none" => Owned(c)

RowsCoherent == \A c \in Customers, o \in Objects : SameAs(c, o, rows[c][o])

HandledSent == \A e \in Event : Handled(e) => e \in Sent

Mirrored ==
  \A e \in Event : Handled(e) /\ Owned(e.cust) => rows[e.cust][e.obj].ver >= e.ver

PaidLinked ==
  \A c \in Customers, i \in Invoices :
    rows[c][Inv(i)].val = "paid" => <<c, i>> \in linked /\ c \in activated

(* A purchase nobody owns yet still has an event to be handled. *)
NotForgotten ==
  \A c \in Customers : ~Owned(c) /\ Bought(c) =>
    \E e \in Event : Announces(e, c) /\ ~Handled(e)

DataInv ==
  StripeInv /\ Renewed /\ RowsCoherent /\ HandledSent /\ Mirrored /\ PaidLinked /\ NotForgotten

-----------------------------------------------------------------------------
(* A worker's part.  Its own event counts as handled: its commit will      *)
(* settle it.                                                              *)
Known(w, e) == Handled(e) \/ e = worker[w].job

JobSent(w) == worker[w].pc # "idle" /\ worker[w].job.obj # Repair => worker[w].job \in Sent

(* How far it is along its path. *)
OnPath(w) ==
  LET k == worker[w] IN
  /\ k.pc \in {"received", "prepare"} => ~k.prepared
  /\ k.pc = "prepare" => k.owner = None
  /\ k.pc \in {"first", "sub", "invoices", "payments"} => HasUser(w)
  /\ Reading(w) /\ k.prepared => k.owner = None
  /\ Reading(w) /\ (k.pc = "prepare" \/ k.prepared) => k.snap[Session] # None
  /\ Reading(w) /\ k.payment # None => \E i \in Invoices : k.job.obj = Pay(i)

OwnObjectRead(w) ==
  LET k == worker[w] IN
  k.job.obj \in Objects =>
    IF \E i \in Invoices : k.job.obj = Pay(i) THEN k.payment # None
                                              ELSE k.snap[k.job.obj] # None

OwnRead(w) ==
  LET k == worker[w] IN
  /\ k.pc = "sub" => k.job.obj = Sub \/ OwnObjectRead(w)
  /\ k.pc \in {"invoices", "payments"} => OwnObjectRead(w)
  /\ k.pc = "commit" /\ HasUser(w) => OwnObjectRead(w)

(* An invoice is read because the event names it or the subscription does, *)
(* and its payments are read after it.                                     *)
InvoiceRead(w) ==
  LET k == worker[w] IN
  \A i \in Invoices : Reading(w) /\ k.snap[Inv(i)] # None =>
    \/ k.pc = "sub" /\ k.job.obj = Inv(i)
    \/ k.pc = "invoices" /\ k.job.obj = Inv(i) /\ i \in k.which
    \/ k.pc \in {"payments", "commit"} /\ i \in k.which

PaymentRead(w) ==
  LET k == worker[w] IN
  \A i \in Invoices : Reading(w) /\ k.snap[Inv(i)] # None /\ k.snap[Inv(i)].val = "paid" =>
    /\ Val(k.job.cust, Pay(i)) # "none"
    /\ k.pc = "commit" \/ (k.pc = "payments" /\ i \notin k.todo) => k.snap[Pay(i)] # None

CopiesCoherent(w) ==
  LET k == worker[w] IN
  Reading(w) => \A o \in Objects :
    /\ k.snap[o] # None => SameAs(k.job.cust, o, k.snap[o])
    /\ o = k.job.obj /\ k.payment # None => SameAs(k.job.cust, o, k.payment)

(* What it read is as new as what the known events announced. *)
CopiesFresh(w) ==
  LET k == worker[w] IN
  \A e \in Event : Reading(w) /\ Known(w, e) /\ e.cust = k.job.cust =>
    /\ k.snap[e.obj] # None => k.snap[e.obj].ver >= e.ver
    /\ k.payment # None /\ e.obj = k.job.obj => k.payment.ver >= e.ver

(* Nobody gets or loses an account while the lock is held. *)
OwnerKnown(w) == Reading(w) => (worker[w].owner = None <=> ~Owned(worker[w].job.cust))

(* An activation reads every object that has changed so far. *)
ActivationReads(w) ==
  LET k == worker[w] IN
  Reading(w) /\ k.prepared =>
    /\ k.pc \in {"invoices", "payments", "commit"} => k.snap[Sub] # None
    /\ k.pc = "invoices" /\ k.job.obj # Repair => 1 \in k.which
    /\ k.pc \in {"payments", "commit"} => k.snap[Inv(1)] # None
    /\ /\ k.pc = "commit" \/ (k.pc = "payments" /\ 1 \notin k.todo)
       /\ k.snap[Pay(1)] = None
       => \A e \in Event : Known(w, e) /\ e.cust = k.job.cust => e.obj # Pay(1)

(* An event ignored for want of an account is not the last of a purchase. *)
IgnoredForNow(w) ==
  LET c == worker[w].job.cust IN
  worker[w].pc = "commit" /\ ~HasUser(w) /\ Bought(c) =>
    \E e \in Event : Announces(e, c) /\ ~Known(w, e)

WorkerInv(w) ==
  /\ JobSent(w) /\ OnPath(w) /\ OwnRead(w) /\ InvoiceRead(w) /\ PaymentRead(w)
  /\ CopiesCoherent(w) /\ CopiesFresh(w) /\ OwnerKnown(w) /\ ActivationReads(w)
  /\ IgnoredForNow(w)

WorkersInv == \A w \in Workers : WorkerInv(w)

PromiseInv == IInv /\ DataInv /\ WorkersInv

-----------------------------------------------------------------------------
LEMMA Distinct ==
  /\ Session # Sub /\ 1 \in Invoices
  /\ \A i \in Invoices : /\ Inv(i) # Session /\ Inv(i) # Sub
                         /\ Pay(i) # Session /\ Pay(i) # Sub
  /\ \A i, j \in Invoices : /\ Inv(i) # Pay(j) /\ (Inv(i) = Inv(j) => i = j)
                            /\ (Pay(i) = Pay(j) => i = j)
<1>1. 1 \in Invoices
  BY ReconcilerAssumption DEF Invoices
<1>2. Session # Sub
  BY DEF Session, Sub
<1>3. ASSUME NEW i \in Invoices
      PROVE Inv(i) # Session /\ Inv(i) # Sub /\ Pay(i) # Session /\ Pay(i) # Sub
  BY DEF Session, Sub, Inv, Pay
<1>4. ASSUME NEW i \in Invoices, NEW j \in Invoices
      PROVE Inv(i) # Pay(j) /\ (Inv(i) = Inv(j) => i = j) /\ (Pay(i) = Pay(j) => i = j)
  BY DEF Inv, Pay
<1> QED
  BY <1>1, <1>2, <1>3, <1>4

LEMMA OwnedFact ==
  ASSUME NEW c \in Customers
  PROVE  Owner(c) # None <=> Owned(c)
<1>1. Owned(c) <=> Owners(c) # {}
  BY DEF Owned, Owners
<1>2. Owners(c) # {} => (CHOOSE m \in Owners(c) : TRUE) \in Owners(c)
  OBVIOUS
<1>3. \A m \in Owners(c) : m # None
  BY ReconcilerAssumption DEF Owners
<1> QED
  BY <1>1, <1>2, <1>3 DEF Owner

LEMMA EventFacts ==
  ASSUME NEW e \in Event
  PROVE  e.cust \in Customers /\ e.obj \in Objects /\ e.ver \in Nat /\ e.ver # 0
BY DEF Event

LEMMA SentFacts ==
  ASSUME NEW e \in Event
  PROVE  e \in Sent <=> e.ver <= stripe[e.cust][e.obj].ver
BY DEF Sent

(* No copy is None, so a copy read from Stripe counts as read. *)
LEMMA CopyNotNone == \A x \in Copy : x # None
BY ReconcilerAssumption

(* The event of an object's current version. *)
LEMMA CurrentEvent ==
  ASSUME NEW c \in Customers, NEW o \in Objects, NEW n \in Nat, n # 0, n <= MaxVer
  PROVE  [cust |-> c, obj |-> o, ver |-> n] \in Event
BY ReconcilerAssumption DEF Event

(* A step of w that changes no table leaves the others' part alone. *)
LEMMA OtherWorker ==
  ASSUME TypeOK, NEW v \in Workers, WorkerInv(v), worker'[v] = worker[v], stripe' = stripe,
         \A c \in Customers : Reading(v) /\ c = worker[v].job.cust => (Owned(c)' <=> Owned(c)),
         \A e \in Event : Reading(v) /\ e.cust = worker[v].job.cust /\ Handled(e)' => Handled(e)
  PROVE  WorkerInv(v)'
<1>1. Reading(v)' <=> Reading(v)
  BY DEF Reading
<1>2. HasUser(v)' <=> HasUser(v)
  BY DEF HasUser
<1>3. JobSent(v)' /\ OnPath(v)' /\ OwnRead(v)' /\ InvoiceRead(v)' /\ PaymentRead(v)'
  BY <1>1, <1>2 DEF WorkerInv, JobSent, OnPath, OwnRead, OwnObjectRead, InvoiceRead, PaymentRead, Sent, Val
<1>4. CopiesCoherent(v)'
  BY <1>1 DEF WorkerInv, CopiesCoherent, SameAs
<1>5. CopiesFresh(v)'
  BY <1>1 DEF WorkerInv, CopiesFresh, Known
<1>6. OwnerKnown(v)'
  BY <1>1, ReadingFacts DEF WorkerInv, OwnerKnown, Owned
<1>7. ActivationReads(v)'
  BY <1>1 DEF WorkerInv, ActivationReads, Known
<1>8. IgnoredForNow(v)'
  <2>1. worker[v].pc = "commit" => Reading(v)
    BY DEF Reading
  <2> QED
    BY <1>2, <2>1 DEF WorkerInv, IgnoredForNow, Known, Announces, Bought, Val
<1> QED
  BY <1>3, <1>4, <1>5, <1>6, <1>7, <1>8 DEF WorkerInv

(* Whether an event is handled changes with the worker's pc and the two    *)
(* sets of events.                                                         *)
LEMMA HandledAfter ==
  ASSUME TypeOK, NEW w \in Workers, NEW k, Become(w, k), NEW e \in Event, Handled(e)'
  PROVE  Handled(e) \/ e \in settled' \cup acked' \/ (k.pc = "claim" /\ e = k.job)
<1>1. worker' = [worker EXCEPT ![w] = k] /\ worker \in [Workers -> {Idle} \cup Busy]
  BY DEF TypeOK, Become
<1>2. CASE e \in settled' \cup acked'
  BY <1>2
<1>3. ASSUME NEW v \in Workers, worker'[v].pc = "claim", worker'[v].job = e
      PROVE  Handled(e) \/ (k.pc = "claim" /\ e = k.job)
  <2>1. CASE v = w
    BY <1>1, <1>3, <2>1
  <2>2. CASE v # w
    BY <1>1, <1>3, <2>2 DEF Handled
  <2> QED
    BY <2>1, <2>2
<1> QED
  BY <1>2, <1>3 DEF Handled

(* What a step leaves of the tables when it writes none of them. *)
LEMMA DataKept ==
  ASSUME DataInv, UNCHANGED <<stripe, rows, linked, activated, account, buyer>>,
         \A e \in Event : Handled(e)' => Handled(e)
  PROVE  DataInv'
<1>1. \A c \in Customers : Owned(c)' <=> Owned(c)
  BY DEF Owned
<1>2. StripeInv' /\ RowsCoherent' /\ PaidLinked'
  BY DEF DataInv, StripeInv, RowsCoherent, PaidLinked, SameAs, Val
<1>3. Renewed'
  BY <1>1 DEF DataInv, Renewed, Val
<1>4. HandledSent'
  BY DEF DataInv, HandledSent, Sent
<1>5. Mirrored'
  BY <1>1, EventFacts DEF DataInv, Mirrored
<1>6. NotForgotten'
  BY <1>1 DEF DataInv, NotForgotten, Bought, Val, Announces
<1> QED
  BY <1>2, <1>3, <1>4, <1>5, <1>6 DEF DataInv

(* A worker that does not read after the step and writes no table. *)
LEMMA AwayPromise ==
  ASSUME PromiseInv, IInv', NEW w \in Workers, NEW k \in {Idle} \cup Busy, Become(w, k),
         k.pc \in {"idle", "received", "claim"}, k.pc = "received" => ~k.prepared,
         k.pc # "idle" /\ k.job.obj # Repair => k.job \in Sent,
         UNCHANGED <<stripe, rows, linked, activated, account, buyer>>,
         \A e \in Event : Handled(e)' => Handled(e)
  PROVE  PromiseInv'
<1>1. TypeOK
  BY DEF PromiseInv, IInv
<1>2. worker'[w] = k /\ \A v \in Workers \ {w} : worker'[v] = worker[v]
  BY <1>1 DEF TypeOK, Become
<1>3. \A c \in Customers : Owned(c)' <=> Owned(c)
  BY DEF Owned
<1>4. DataInv'
  BY DataKept DEF PromiseInv
<1>5. WorkersInv'
  <2> SUFFICES ASSUME NEW v \in Workers PROVE WorkerInv(v)'
    BY DEF WorkersInv
  <2>1. CASE v = w
    <3>1. ~Reading(v)' /\ worker'[v].pc \in {"idle", "received", "claim"}
      BY <1>2, <2>1 DEF Reading
    <3>2. JobSent(v)' /\ OnPath(v)'
      BY <1>2, <2>1, <3>1 DEF JobSent, OnPath, Sent
    <3> QED
      BY <3>1, <3>2 DEF WorkerInv, OwnRead, InvoiceRead, PaymentRead, CopiesCoherent,
                        CopiesFresh, OwnerKnown, ActivationReads, IgnoredForNow
  <2>2. CASE v # w
    BY <1>1, <1>2, <1>3, <2>2, OtherWorker DEF PromiseInv, WorkersInv
  <2> QED
    BY <2>1, <2>2
<1> QED
  BY <1>4, <1>5 DEF PromiseInv

LEMMA StartPromise ==
  ASSUME PromiseInv, IInv', NEW w \in Workers, NEW job \in Job, Become(w, Fresh(job)),
         job.obj # Repair => job \in Sent,
         UNCHANGED <<stripe, settled, acked, db, claim, lock, faults>>
  PROVE  PromiseInv'
<1>1. /\ Fresh(job) \in {Idle} \cup Busy
      /\ Fresh(job).pc = "received" /\ ~Fresh(job).prepared /\ Fresh(job).job = job
  BY DEF Fresh, Busy
<1>2. \A e \in Event : Handled(e)' => Handled(e)
  BY <1>1, HandledAfter DEF PromiseInv, IInv, Handled
<1> QED
  BY <1>1, <1>2, AwayPromise DEF db

LEMMA SkipPromise ==
  ASSUME PromiseInv, IInv', NEW w \in Workers, Begin(w), Done(worker[w].job)
  PROVE  PromiseInv'
<1> DEFINE j == worker[w]
           k == [j EXCEPT !.pc = "claim"]
<1>1. TypeOK
  BY DEF PromiseInv, IInv
<1>2. j \in Busy /\ j.pc # "idle" /\ j.job \in settled /\ j.job.obj # Repair
  BY <1>1, BusyFacts DEF TypeOK, Begin, Done
<1>3. Become(w, k) /\ UNCHANGED <<stripe, settled, acked, rows, linked, activated, account, buyer>>
  BY DEF Begin, Skip, Goto, db
<1>4. k \in {Idle} \cup Busy /\ k.pc = "claim" /\ k.job = j.job
  BY <1>2 DEF Busy
<1>5. \A e \in Event : Handled(e)' => Handled(e)
  BY <1>1, <1>2, <1>3, <1>4, HandledAfter DEF Handled
<1>6. k.job \in Sent
  BY <1>2, <1>4 DEF PromiseInv, WorkersInv, WorkerInv, JobSent
<1> QED
  <2> HIDE DEF k
  <2> QED
    BY <1>3, <1>4, <1>5, <1>6, AwayPromise

LEMMA EndPromise ==
  ASSUME PromiseInv, IInv', NEW w \in Workers,
         SendClaim(w) \/ ClaimFails(w) \/ Fail(w) \/ Crash(w)
  PROVE  PromiseInv'
<1>1. TypeOK
  BY DEF PromiseInv, IInv
<1>2. Become(w, Idle) /\ UNCHANGED <<stripe, rows, linked, activated, account, buyer>>
  BY DEF SendClaim, ClaimFails, Fail, Crash, db
<1>3. \/ settled' \subseteq settled /\ acked' = acked
      \/ /\ worker[w].pc = "claim" /\ settled' = settled
         /\ acked' \subseteq acked \cup {worker[w].job}
  BY DEF SendClaim, ClaimFails, Fail, Crash, Answer, AnswerFailure
<1>4. \A e \in Event : Handled(e)' => Handled(e)
  <2> SUFFICES ASSUME NEW e \in Event, Handled(e)' PROVE Handled(e)
    OBVIOUS
  <2>1. Handled(e) \/ e \in settled' \cup acked'
    BY <1>1, <1>2, HandledAfter DEF Idle
  <2> QED
    BY <1>3, <2>1 DEF Handled
<1>5. Idle \in {Idle} \cup Busy /\ Idle.pc = "idle"
  BY DEF Idle
<1> QED
  BY <1>2, <1>4, <1>5, AwayPromise

(* What Stripe's order of changes allows. *)
LEMMA MayBecomeFacts ==
  ASSUME NEW c \in Customers, NEW o \in Objects, NEW v \in Values, MayBecome(c, o, v)
  PROVE  /\ v # "none"
         /\ \A i \in Invoices :
              /\ o = Inv(i) /\ v = "paid" => Val(c, Pay(i)) # "none"
              /\ o = Pay(i) => Val(c, Pay(i)) # "none" \/ Val(c, Inv(i)) # "none"
              /\ o = Inv(i) /\ i > 1 => Val(c, Inv(i)) # "none" \/ (Bought(c) /\ Quiet(c))
<1>1. v # "none"
  BY DEF MayBecome
<1>2. ASSUME NEW i \in Invoices, o = Inv(i)
      PROVE  /\ v = "paid" => Val(c, Pay(i)) # "none"
             /\ i > 1 => Val(c, Inv(i)) # "none" \/ (Bought(c) /\ Quiet(c))
  BY <1>2, Distinct DEF MayBecome, Bought
<1>3. ASSUME NEW i \in Invoices, o = Pay(i)
      PROVE  Val(c, Pay(i)) # "none" \/ Val(c, Inv(i)) # "none"
  BY <1>3, Distinct DEF MayBecome
<1> QED
  BY <1>1, <1>2, <1>3

LEMMA StripeAfter ==
  ASSUME TypeOK, NEW c \in Customers, NEW o \in Objects, StripeChange(c, o)
  PROVE  \E v \in Values :
           /\ MayBecome(c, o, v)
           /\ \A d \in Customers, x \in Objects :
                stripe'[d][x] = IF d = c /\ x = o
                                THEN [ver |-> stripe[c][o].ver + 1, val |-> v]
                                ELSE stripe[d][x]
<1>1. PICK v \in Values :
        MayBecome(c, o, v) /\ stripe' = [stripe EXCEPT ![c][o] = [ver |-> @.ver + 1, val |-> v]]
  BY DEF StripeChange
<1>2. \A d \in Customers, x \in Objects :
        stripe'[d][x] = IF d = c /\ x = o THEN [ver |-> stripe[c][o].ver + 1, val |-> v]
                        ELSE stripe[d][x]
  BY <1>1 DEF TypeOK
<1> QED
  BY <1>1, <1>2

LEMMA StripeInvKept ==
  ASSUME TypeOK, StripeInv, NEW c \in Customers, NEW o \in Objects, StripeChange(c, o)
  PROVE  StripeInv'
<1>1. PICK v \in Values :
        /\ MayBecome(c, o, v)
        /\ \A d \in Customers, x \in Objects :
             stripe'[d][x] = IF d = c /\ x = o
                             THEN [ver |-> stripe[c][o].ver + 1, val |-> v]
                             ELSE stripe[d][x]
  BY StripeAfter
<1>2. stripe[c][o].ver \in Nat /\ stripe[c][o].ver < MaxVer /\ MaxVer \in Nat
  BY Versions, ReconcilerAssumption DEF StripeChange
<1>3. /\ v # "none"
      /\ \A i \in Invoices :
           /\ o = Inv(i) /\ v = "paid" => Val(c, Pay(i)) # "none"
           /\ o = Pay(i) => Val(c, Pay(i)) # "none" \/ Val(c, Inv(i)) # "none"
  BY <1>1, MayBecomeFacts
<1> SUFFICES ASSUME NEW d \in Customers
             PROVE  /\ \A x \in Objects : stripe'[d][x].ver <= MaxVer
                    /\ \A x \in Objects : stripe'[d][x].val = "none" => stripe'[d][x].ver = 0
                    /\ stripe'[d][Session].val = "complete" => stripe'[d][Session].ver # 0
                    /\ stripe'[d][Sub].val = "active" => stripe'[d][Sub].ver # 0
                    /\ stripe'[d][Inv(1)].val # "none"
                    /\ \A i \in Invoices :
                         /\ stripe'[d][Inv(i)].val = "paid" => stripe'[d][Pay(i)].val # "none"
                         /\ stripe'[d][Pay(i)].val # "none" => stripe'[d][Inv(i)].val # "none"
  BY DEF StripeInv, Val
<1>4. ASSUME NEW x \in Objects
      PROVE  /\ stripe'[d][x].ver <= MaxVer
             /\ stripe'[d][x].val = "none" => stripe'[d][x].ver = 0
             /\ stripe'[d][x].val = stripe[d][x].val \/ stripe'[d][x].ver # 0
             /\ stripe[d][x].val # "none" => stripe'[d][x].val # "none"
  <2>1. CASE d = c /\ x = o
    BY <1>1, <1>2, <1>3, <2>1
  <2>2. CASE ~(d = c /\ x = o)
    BY <1>1, <2>2 DEF StripeInv, Val
  <2> QED
    BY <2>1, <2>2
<1>5. /\ stripe'[d][Session].val = "complete" => stripe'[d][Session].ver # 0
      /\ stripe'[d][Sub].val = "active" => stripe'[d][Sub].ver # 0
  <2>1. ASSUME NEW x \in {Session, Sub}, stripe'[d][x].ver = 0
        PROVE  stripe'[d][x].val = stripe[d][x].val /\ stripe[d][x].ver = 0
    <3>1. x \in Objects
      BY <2>1, ObjectsFacts
    <3>2. CASE d = c /\ x = o
      BY <1>1, <1>2, <2>1, <3>1, <3>2
    <3>3. CASE ~(d = c /\ x = o)
      BY <1>1, <2>1, <3>1, <3>3
    <3> QED
      BY <3>2, <3>3
  <2> QED
    BY <2>1 DEF StripeInv, Val
<1>6. stripe'[d][Inv(1)].val # "none"
  BY <1>4, Distinct, ObjectsFacts DEF StripeInv, Val
<1>7. ASSUME NEW i \in Invoices
      PROVE  /\ stripe'[d][Inv(i)].val = "paid" => stripe'[d][Pay(i)].val # "none"
             /\ stripe'[d][Pay(i)].val # "none" => stripe'[d][Inv(i)].val # "none"
  <2>1. Inv(i) \in Objects /\ Pay(i) \in Objects /\ Inv(i) # Pay(i)
    BY ObjectsFacts, Distinct
  <2>2. /\ stripe[d][Inv(i)].val = "paid" => stripe[d][Pay(i)].val # "none"
        /\ stripe[d][Pay(i)].val # "none" => stripe[d][Inv(i)].val # "none"
    BY DEF StripeInv, Val
  <2>3. CASE d = c /\ o = Inv(i)
    BY <1>1, <1>3, <2>1, <2>2, <2>3 DEF Val
  <2>4. CASE d = c /\ o = Pay(i)
    BY <1>1, <1>3, <2>1, <2>2, <2>4 DEF Val
  <2>5. CASE d # c \/ o \notin {Inv(i), Pay(i)}
    BY <1>1, <2>1, <2>2, <2>5
  <2> QED
    BY <2>3, <2>4, <2>5
<1> QED
  BY <1>4, <1>5, <1>6, <1>7

(* Once every event of a purchase is answered, somebody owns it. *)
LEMMA QuietPurchaseIsOwned ==
  ASSUME StripeInv, TypeOK, NotForgotten, NEW c \in Customers, Quiet(c), Bought(c)
  PROVE  Owned(c)
<1> SUFFICES ASSUME ~Owned(c) PROVE FALSE
  OBVIOUS
<1>1. PICK e \in Event : Announces(e, c) /\ ~Handled(e)
  BY DEF NotForgotten
<1>2. e \in Sent /\ e.cust = c
  BY <1>1, SentFacts, EventFacts DEF Announces
<1> QED
  BY <1>1, <1>2 DEF Quiet, Handled

LEMMA StripeChangePromise ==
  ASSUME PromiseInv, IInv', NEW c \in Customers, NEW o \in Objects, StripeChange(c, o)
  PROVE  PromiseInv'
<1>1. TypeOK /\ DataInv /\ TypeOK'
  BY DEF PromiseInv, IInv
<1>2. PICK v \in Values :
        /\ MayBecome(c, o, v)
        /\ \A d \in Customers, x \in Objects :
             stripe'[d][x] = IF d = c /\ x = o
                             THEN [ver |-> stripe[c][o].ver + 1, val |-> v]
                             ELSE stripe[d][x]
  BY <1>1, StripeAfter
<1>3. UNCHANGED <<settled, acked, rows, linked, activated, account, buyer, worker>>
  BY DEF StripeChange, db
<1>4. \A d \in Customers : Owned(d)' <=> Owned(d)
  BY <1>3 DEF Owned
<1>5. \A e \in Event : Handled(e)' <=> Handled(e)
  BY <1>3 DEF Handled
<1>6. \A d \in Customers, x \in Objects :
        stripe[d][x].ver \in Nat /\ stripe'[d][x].ver \in Nat
        /\ stripe[d][x].ver <= stripe'[d][x].ver
  BY <1>1, <1>2, Versions
<1>7. stripe[c][o].ver < MaxVer /\ MaxVer \in Nat
  BY ReconcilerAssumption DEF StripeChange
<1>8. \A e \in Event : e \in Sent => e \in Sent'
  BY <1>6, EventFacts DEF Sent
(* The change's own event has not been sent before. *)
<1>9. o \in {Session, Sub} => \E e \in Event : Announces(e, c)' /\ e \notin Sent
  <2>1. PICK n \in Nat : n = stripe[c][o].ver + 1
    BY <1>6
  <2>2. PICK e \in Event : e = [cust |-> c, obj |-> o, ver |-> n]
    <3>1. n # 0 /\ n <= MaxVer
      BY <1>6, <1>7, <2>1
    <3>2. [cust |-> c, obj |-> o, ver |-> n] \in Event
      BY <3>1, CurrentEvent
    <3> QED
      BY <3>2
  <2>3. e \notin Sent
    BY <1>6, <2>1, <2>2, SentFacts
  <2>4. o \in {Session, Sub} => Announces(e, c)'
    BY <1>2, <2>1, <2>2 DEF Announces
  <2> QED
    BY <2>3, <2>4
(* Nothing else about a purchase changes. *)
<1>10. ASSUME NEW d \in Customers, ~(d = c /\ o \in {Session, Sub})
       PROVE  (Bought(d)' <=> Bought(d)) /\ \A e \in Event : Announces(e, d) => Announces(e, d)'
  <2>1. \A x \in {Session, Sub} : stripe'[d][x] = stripe[d][x]
    BY <1>2, <1>10, ObjectsFacts
  <2> QED
    BY <2>1 DEF Bought, Val, Announces
<1>11. DataInv'
  <2>1. StripeInv'
    BY <1>1, StripeInvKept DEF DataInv
  <2>2. Renewed'
    <3> SUFFICES ASSUME NEW d \in Customers, NEW i \in Invoices,
                        i > 1, stripe'[d][Inv(i)].val # "none"
                 PROVE  Owned(d)
      BY <1>4 DEF Renewed, Val
    <3>1. Inv(i) \in Objects
      BY ObjectsFacts
    <3>2. CASE Val(d, Inv(i)) # "none"
      BY <1>1, <3>2 DEF DataInv, Renewed
    <3>3. CASE Val(d, Inv(i)) = "none"
      <4>1. d = c /\ o = Inv(i)
        BY <1>2, <3>1, <3>3 DEF Val
      <4>2. Bought(d) /\ Quiet(d)
        BY <1>2, <3>3, <4>1, MayBecomeFacts
      <4> QED
        BY <1>1, <4>2, QuietPurchaseIsOwned DEF DataInv
    <3> QED
      BY <3>2, <3>3
  <2>3. RowsCoherent'
    <3> SUFFICES ASSUME NEW d \in Customers, NEW x \in Objects,
                        rows[d][x].ver = stripe'[d][x].ver
                 PROVE  rows[d][x] = stripe'[d][x]
      BY <1>3 DEF RowsCoherent, SameAs
    <3>1. rows[d][x].ver <= stripe[d][x].ver
      BY DEF PromiseInv, IInv, RowsBehind
    <3>2. ~(d = c /\ x = o)
      BY <1>2, <1>6, <3>1
    <3> QED
      BY <1>1, <1>2, <3>2 DEF DataInv, RowsCoherent, SameAs
  <2>4. HandledSent'
    BY <1>1, <1>5, <1>8 DEF DataInv, HandledSent
  <2>5. Mirrored'
    BY <1>1, <1>3, <1>4, <1>5, EventFacts DEF DataInv, Mirrored
  <2>6. PaidLinked'
    BY <1>1, <1>3 DEF DataInv, PaidLinked
  <2>7. NotForgotten'
    <3> SUFFICES ASSUME NEW d \in Customers, ~Owned(d), Bought(d)'
                 PROVE  \E e \in Event : Announces(e, d)' /\ ~Handled(e)
      BY <1>4, <1>5 DEF NotForgotten
    <3>1. CASE d = c /\ o \in {Session, Sub}
      BY <1>1, <1>9, <3>1 DEF DataInv, HandledSent
    <3>2. CASE ~(d = c /\ o \in {Session, Sub})
      BY <1>1, <1>10, <3>2 DEF DataInv, NotForgotten
    <3> QED
      BY <3>1, <3>2
  <2> QED
    BY <2>1, <2>2, <2>3, <2>4, <2>5, <2>6, <2>7 DEF DataInv
<1>12. WorkersInv'
  <2> SUFFICES ASSUME NEW w \in Workers PROVE WorkerInv(w)'
    BY DEF WorkersInv
  <2> DEFINE j == worker[w]
             d == j.job.cust
  <2>0. WorkerInv(w) /\ worker' = worker
    BY <1>3 DEF PromiseInv, WorkersInv
  <2>1. (Reading(w)' <=> Reading(w)) /\ (HasUser(w)' <=> HasUser(w))
    BY <2>0 DEF Reading, HasUser
  <2>2. JobSent(w)'
    <3>1. Sent \subseteq Sent'
      BY <1>8 DEF Sent
    <3> QED
      BY <2>0, <3>1 DEF WorkerInv, JobSent
  <2>3. OnPath(w)' /\ OwnRead(w)' /\ InvoiceRead(w)'
    BY <2>0, <2>1 DEF WorkerInv, OnPath, OwnRead, OwnObjectRead, InvoiceRead
  <2>4. PaymentRead(w)'
    <3>1. ASSUME NEW i \in Invoices, NEW b \in Customers, Val(b, Pay(i)) # "none"
          PROVE  Val(b, Pay(i))' # "none"
      BY <1>2, <3>1, MayBecomeFacts, ObjectsFacts DEF Val
    <3> QED
      BY <1>1, <2>0, <2>1, <3>1, ReadingFacts DEF WorkerInv, PaymentRead
  <2>5. CopiesCoherent(w)'
    <3> SUFFICES ASSUME Reading(w), NEW x \in Objects, NEW copy \in Copy,
                        Between(d, x, copy), SameAs(d, x, copy),
                        copy.ver = stripe'[d][x].ver
                 PROVE  copy = stripe'[d][x]
      <4>1. Reading(w) => /\ j.snap \in [Objects -> Copy \cup {None}]
                          /\ j.payment \in Copy \cup {None}
        BY <1>1, ReadingFacts
      <4>2. Reading(w) => \A x \in Objects : /\ Between(d, x, j.snap[x])
                                             /\ x = j.job.obj => Between(d, x, j.payment)
        BY DEF PromiseInv, IInv, SnapInv
      <4> QED
        BY <2>0, <2>1, <4>1, <4>2 DEF WorkerInv, CopiesCoherent, SameAs
    <3>1. d \in Customers
      BY <1>1, ReadingFacts
    <3>2. copy.ver <= stripe[d][x].ver
      BY CopyNotNone DEF Between
    <3>3. ~(d = c /\ x = o)
      BY <1>2, <1>6, <3>1, <3>2
    <3> QED
      BY <1>2, <3>1, <3>3 DEF SameAs
  <2>6. CopiesFresh(w)' /\ ActivationReads(w)'
    BY <1>5, <2>0, <2>1 DEF WorkerInv, CopiesFresh, ActivationReads, Known
  <2>7. OwnerKnown(w)'
    BY <1>1, <1>4, <2>0, <2>1, ReadingFacts DEF WorkerInv, OwnerKnown
  <2>8. IgnoredForNow(w)'
    <3> SUFFICES ASSUME NEW b \in Customers, b = d, j.pc = "commit", ~HasUser(w), Bought(b)'
                 PROVE  \E e \in Event : Announces(e, b)' /\ ~Known(w, e)
      <4>1. j.pc = "commit" => d \in Customers
        BY <1>1, BusyFacts DEF TypeOK
      <4>2. \A e \in Event : Known(w, e)' <=> Known(w, e)
        BY <1>5, <2>0 DEF Known
      <4> QED
        BY <2>0, <2>1, <4>1, <4>2 DEF IgnoredForNow
    <3>1. CASE b = c /\ o \in {Session, Sub}
      <4>1. PICK e \in Event : Announces(e, c)' /\ e \notin Sent
        BY <1>9, <3>1
      <4>2. ~Handled(e)
        BY <1>1, <4>1 DEF DataInv, HandledSent
      <4>3. e # j.job
        BY <2>0, <4>1, EventFacts, ObjectsFacts DEF WorkerInv, JobSent
      <4> QED
        BY <3>1, <4>1, <4>2, <4>3 DEF Known
    <3>2. CASE ~(b = c /\ o \in {Session, Sub})
      <4>1. Bought(b) /\ \A e \in Event : Announces(e, b) => Announces(e, b)'
        BY <1>10, <3>2
      <4> QED
        BY <2>0, <4>1 DEF WorkerInv, IgnoredForNow
    <3> QED
      BY <3>1, <3>2
  <2> QED
    BY <2>2, <2>3, <2>4, <2>5, <2>6, <2>7, <2>8 DEF WorkerInv
<1> QED
  BY <1>11, <1>12 DEF PromiseInv

(* An activation's customer has the one invoice of the purchase.           *)
LEMMA UnownedInvoices ==
  ASSUME StripeInv, Renewed, NEW c \in Customers, ~Owned(c)
  PROVE  1 \in Existing(c) /\ 1 \in Latest(c) /\ \A i \in Existing(c) : i = 1
<1>1. 1 \in Existing(c)
  BY Distinct DEF Existing, StripeInv
<1>2. \A i \in Existing(c) : i \in Invoices /\ ~(i > 1)
  BY DEF Existing, Renewed
<1>3. \A i \in Existing(c) : i = 1
  BY <1>2, ReconcilerAssumption DEF Invoices
<1> QED
  BY <1>1, <1>3 DEF Latest

(* A known event has been sent, so its object has changed. *)
LEMMA KnownSent ==
  ASSUME DataInv, NEW w \in Workers, WorkerInv(w), worker[w].pc # "idle",
         NEW e \in Event, Known(w, e)
  PROVE  /\ e.ver <= stripe[e.cust][e.obj].ver
         /\ Val(e.cust, e.obj) # "none"
<1>1. e.obj # Repair
  BY EventFacts, ObjectsFacts
<1>2. e \in Sent
  BY <1>1 DEF DataInv, HandledSent, WorkerInv, JobSent, Known
<1>3. e.ver <= stripe[e.cust][e.obj].ver
  BY <1>2, SentFacts
<1>4. stripe[e.cust][e.obj].ver = 0 => FALSE
  BY <1>3, EventFacts
<1> QED
  BY <1>3, <1>4, EventFacts DEF DataInv, StripeInv

(* A worker that holds the lock and has read one object more. *)
LEMMA ReadingPromise ==
  ASSUME PromiseInv, IInv', NEW w \in Workers, NEW k \in Busy, Become(w, k),
         worker[w].pc # "idle", k.pc \notin {"idle", "received", "claim"},
         k.job = worker[w].job,
         k.owner = None <=> ~Owned(k.job.cust),
         \A o \in Objects :
           \/ k.snap[o] = None \/ k.snap[o] = stripe[k.job.cust][o]
           \/ Reading(w) /\ k.snap[o] = worker[w].snap[o],
         \A o \in Objects : o = k.job.obj =>
           \/ k.payment = None \/ k.payment = stripe[k.job.cust][o]
           \/ Reading(w) /\ k.payment = worker[w].payment,
         UNCHANGED <<stripe, settled, acked, rows, linked, activated, account, buyer>>,
         OnPath(w)', OwnRead(w)', InvoiceRead(w)', PaymentRead(w)',
         (\A e \in Event : Handled(e)' => Handled(e)) => ActivationReads(w)' /\ IgnoredForNow(w)'
  PROVE  PromiseInv'
<1> DEFINE j == worker[w]
           c == k.job.cust
<1>1. TypeOK /\ DataInv /\ WorkerInv(w)
  BY DEF PromiseInv, IInv, WorkersInv
<1>2. worker'[w] = k /\ \A v \in Workers \ {w} : worker'[v] = worker[v]
  BY <1>1 DEF TypeOK, Become
<1>3. \A e \in Event : Handled(e)' => Handled(e)
  BY <1>1, HandledAfter DEF Handled
<1>4. \A d \in Customers : Owned(d)' <=> Owned(d)
  BY DEF Owned
<1>5. DataInv'
  BY <1>1, <1>3, DataKept
<1>6. k.job \in Job /\ c \in Customers
  BY DEF Busy, Job, Event
<1>7. JobSent(w)'
  BY <1>1, <1>2 DEF WorkerInv, JobSent, Sent
<1>8. CopiesCoherent(w)'
  BY <1>1, <1>2 DEF WorkerInv, CopiesCoherent, SameAs
<1>9. CopiesFresh(w)'
  <2> SUFFICES ASSUME NEW e \in Event, Known(w, e), e.cust = c
               PROVE  /\ k.snap[e.obj] # None => k.snap[e.obj].ver >= e.ver
                      /\ k.payment # None /\ e.obj = k.job.obj => k.payment.ver >= e.ver
    BY <1>2, <1>3 DEF CopiesFresh, Known
  <2>1. e.obj \in Objects /\ e.ver <= stripe[c][e.obj].ver
    BY <1>1, KnownSent, EventFacts
  <2>2. e.ver \in Nat /\ stripe[c][e.obj].ver \in Nat
    BY <1>1, <1>6, <2>1, Versions, EventFacts
  <2>3. stripe[c][e.obj].ver >= e.ver
    BY <2>1, <2>2
  <2>4. Reading(w) => /\ j.snap[e.obj] # None => j.snap[e.obj].ver >= e.ver
                      /\ j.payment # None /\ e.obj = j.job.obj => j.payment.ver >= e.ver
    BY <1>1 DEF WorkerInv, CopiesFresh
  <2> QED
    BY <2>1, <2>3, <2>4
<1>10. OwnerKnown(w)'
  BY <1>2, <1>4, <1>6 DEF OwnerKnown
<1>11. WorkerInv(w)'
  BY <1>3, <1>7, <1>8, <1>9, <1>10 DEF WorkerInv
<1>12. WorkersInv'
  BY <1>1, <1>2, <1>3, <1>4, <1>11, OtherWorker DEF PromiseInv, WorkersInv
<1> QED
  BY <1>5, <1>12 DEF PromiseInv

LEMMA BeginPromise ==
  ASSUME PromiseInv, IInv', NEW w \in Workers, Begin(w), ~Done(worker[w].job)
  PROVE  PromiseInv'
<1> DEFINE j == worker[w]
           k == worker'[w]
           c == j.job.cust
<1>1. TypeOK /\ TypeOK' /\ WorkerInv(w) /\ j.pc = "received"
  BY DEF PromiseInv, IInv, WorkersInv, Begin
<1>2. /\ Become(w, k) /\ k \in Busy /\ k.job = j.job /\ k.owner = Owner(c)
      /\ k.prepared = j.prepared /\ k.payment = j.payment
      /\ \/ k.pc = "first" /\ Owner(c) # None /\ k.snap = j.snap
         \/ /\ k.pc = "prepare" /\ Owner(c) = None
            /\ k.snap = [j.snap EXCEPT ![Session] = stripe[c][Session]]
         \/ /\ k.pc = "commit" /\ Owner(c) = None /\ Val(c, Session) # "complete"
            /\ k.snap = j.snap
  BY <1>1, BeginFields
<1>3. /\ c \in Customers /\ stripe[c][Session] \in Copy
      /\ j.snap \in [Objects -> Copy \cup {None}]
  BY <1>1, BusyFacts, ObjectsFacts DEF TypeOK
<1>4. j.payment = None /\ ~j.prepared /\ \A o \in Objects : j.snap[o] = None
  BY <1>1 DEF PromiseInv, IInv, FreshInv, NothingRead, WorkerInv, OnPath
<1>5. /\ \A o \in Objects : k.snap[o] = None \/ (o = Session /\ k.snap[o] = stripe[c][o])
      /\ k.pc = "prepare" => k.snap[Session] # None
  BY <1>2, <1>3, <1>4, CopyNotNone, ObjectsFacts
<1>6. \A i \in Invoices : k.snap[Inv(i)] = None
  BY <1>5, Distinct, ObjectsFacts
<1>7. UNCHANGED <<stripe, settled, acked, rows, linked, activated, account, buyer>>
  BY DEF Begin, db
<1>8. k.owner = None <=> ~Owned(k.job.cust)
  BY <1>2, <1>3, OwnedFact
<1>9. OnPath(w)' /\ OwnRead(w)' /\ InvoiceRead(w)' /\ PaymentRead(w)' /\ ActivationReads(w)'
  <2> HIDE DEF k
  <2> QED
    BY <1>2, <1>4, <1>5, <1>6 DEF k, OnPath, OwnRead, InvoiceRead, PaymentRead, ActivationReads, HasUser
<1>10. IgnoredForNow(w)'
  BY <1>2, <1>7 DEF IgnoredForNow, HasUser, Bought, Val
<1> QED
  <2> HIDE DEF k
  <2> QED
    BY <1>1, <1>2, <1>4, <1>5, <1>7, <1>8, <1>9, <1>10, ReadingPromise

LEMMA PreparePromise ==
  ASSUME PromiseInv, IInv', NEW w \in Workers, Prepare(w)
  PROVE  PromiseInv'
<1> DEFINE j == worker[w]
           k == worker'[w]
           c == j.job.cust
<1>1. TypeOK /\ WorkerInv(w) /\ j.pc = "prepare" /\ Reading(w)
  BY DEF PromiseInv, IInv, WorkersInv, Prepare, Reading
<1>2. /\ Become(w, k) /\ k \in Busy
      /\ k.job = j.job /\ k.owner = j.owner /\ k.snap = j.snap /\ k.payment = j.payment
      /\ \/ k.pc = "first" /\ k.prepared
         \/ k.pc = "commit" /\ k.prepared = j.prepared /\ Val(c, Sub) # "active"
  BY <1>1, PrepareFields
<1>3. /\ j.owner = None /\ ~j.prepared /\ j.snap[Session] # None
      /\ j.payment # None => \E i \in Invoices : j.job.obj = Pay(i)
  BY <1>1 DEF WorkerInv, OnPath
<1>4. \A i \in Invoices : k.snap[Inv(i)] = None
  BY <1>1, <1>2 DEF WorkerInv, InvoiceRead
<1>5. UNCHANGED <<stripe, settled, acked, rows, linked, activated, account, buyer>>
  BY DEF Prepare, db
<1>6. k.owner = None <=> ~Owned(k.job.cust)
  BY <1>1, <1>2 DEF WorkerInv, OwnerKnown
<1>7. OnPath(w)' /\ OwnRead(w)' /\ InvoiceRead(w)' /\ PaymentRead(w)' /\ ActivationReads(w)'
  BY <1>2, <1>3, <1>4 DEF OnPath, OwnRead, InvoiceRead, PaymentRead, ActivationReads, HasUser
<1>8. IgnoredForNow(w)'
  BY <1>2, <1>5 DEF IgnoredForNow, HasUser, Bought, Val
<1> QED
  <2> HIDE DEF k
  <2> QED
    BY <1>1, <1>2, <1>5, <1>6, <1>7, <1>8, ReadingPromise

LEMMA ReadFirstPromise ==
  ASSUME PromiseInv, IInv', NEW w \in Workers, ReadFirst(w)
  PROVE  PromiseInv'
<1> DEFINE j == worker[w]
           k == worker'[w]
           c == j.job.cust
           o == j.job.obj
<1>1. TypeOK /\ DataInv /\ WorkerInv(w) /\ j.pc = "first" /\ Reading(w)
  BY DEF PromiseInv, IInv, WorkersInv, ReadFirst, Reading
<1>2. /\ Become(w, k) /\ k \in Busy
      /\ k.job = j.job /\ k.owner = j.owner /\ k.prepared = j.prepared
      /\ \/ /\ o \in {Sub, Repair} /\ k.pc = "sub"
            /\ k.snap = j.snap /\ k.payment = j.payment
         \/ /\ o = Session \/ \E i \in Invoices : o = Inv(i)
            /\ k.pc = "sub" /\ k.payment = j.payment
            /\ k.snap = [j.snap EXCEPT ![o] = stripe[c][o]]
         \/ /\ \E i \in Invoices : o = Pay(i)
            /\ k.pc = IF j.prepared THEN "sub" ELSE "commit"
            /\ k.snap = j.snap /\ k.payment = stripe[c][o]
  BY <1>1, ReadFirstFields
<1>3. /\ c \in Customers /\ j.snap \in [Objects -> Copy \cup {None}]
      /\ \A x \in Objects : stripe[c][x] \in Copy
  BY <1>1, ReadingFacts DEF TypeOK
<1>4. /\ HasUser(w) /\ (j.prepared => j.owner = None)
      /\ j.prepared => j.snap[Session] # None
      /\ j.payment # None => \E i \in Invoices : o = Pay(i)
  BY <1>1 DEF WorkerInv, OnPath
<1>5. \A i \in Invoices : j.snap[Inv(i)] = None
  BY <1>1 DEF WorkerInv, InvoiceRead
<1>6. UNCHANGED <<stripe, settled, acked, rows, linked, activated, account, buyer>>
  BY DEF ReadFirst, db
<1>7. k.owner = None <=> ~Owned(k.job.cust)
  BY <1>1, <1>2 DEF WorkerInv, OwnerKnown
<1>8. /\ HasUser(w)' /\ k.pc \in {"sub", "commit"} /\ (k.prepared => k.pc = "sub")
      /\ \A x \in Objects : k.snap[x] = j.snap[x] \/ (x = o /\ k.snap[x] = stripe[c][x])
      /\ k.payment = j.payment \/ (o \in Objects /\ k.payment = stripe[c][o])
      /\ k.payment # None => \E i \in Invoices : o = Pay(i)
  BY <1>2, <1>3, <1>4, ObjectsFacts DEF HasUser
<1>9. OnPath(w)'
  BY <1>2, <1>3, <1>4, <1>8, ObjectsFacts, CopyNotNone DEF OnPath
<1>10. OwnRead(w)'
  <2>1. CASE o \in {Sub, Repair}
    BY <1>2, <2>1, Distinct, ObjectsFacts DEF OwnRead, OwnObjectRead, Repair, Pay, Session, Sub, Inv
  <2>2. CASE o = Session \/ \E i \in Invoices : o = Inv(i)
    <3>1. o \in Objects /\ (\A i \in Invoices : o # Pay(i)) /\ o \notin {Sub, Repair}
      BY <2>2, Distinct, ObjectsFacts
    <3>2. k.snap[o] # None /\ k.pc = "sub"
      BY <1>2, <1>3, <3>1, CopyNotNone
    <3> QED
      BY <1>2, <3>1, <3>2 DEF OwnRead, OwnObjectRead
  <2>3. CASE \E i \in Invoices : o = Pay(i)
    <3>1. o \in Objects /\ o # Session /\ (\A i \in Invoices : o # Inv(i)) /\ o \notin {Sub, Repair}
      BY <2>3, Distinct, ObjectsFacts
    <3>2. k.payment # None
      BY <1>2, <1>3, <3>1, CopyNotNone
    <3> QED
      BY <1>2, <1>8, <2>3, <3>2 DEF OwnRead, OwnObjectRead
  <2> QED
    BY <1>2, <2>1, <2>2, <2>3
<1>11. \A i \in Invoices : k.snap[Inv(i)] # None =>
         k.pc = "sub" /\ o = Inv(i) /\ k.snap[Inv(i)] = stripe[c][Inv(i)]
  BY <1>2, <1>5, <1>8, Distinct, ObjectsFacts
<1>12. InvoiceRead(w)' /\ PaymentRead(w)'
  BY <1>1, <1>2, <1>3, <1>6, <1>11 DEF InvoiceRead, PaymentRead, DataInv, StripeInv, Val
<1>13. ActivationReads(w)' /\ IgnoredForNow(w)'
  BY <1>8 DEF ActivationReads, IgnoredForNow
<1> QED
  <2> HIDE DEF k
  <2> QED
    BY <1>1, <1>2, <1>6, <1>7, <1>8, <1>9, <1>10, <1>12, <1>13, ReadingPromise

LEMMA ReadSubPromise ==
  ASSUME PromiseInv, IInv', NEW w \in Workers, ReadSub(w)
  PROVE  PromiseInv'
<1> DEFINE j == worker[w]
           k == worker'[w]
           c == j.job.cust
<1>1. TypeOK /\ DataInv /\ WorkerInv(w) /\ j.pc = "sub" /\ Reading(w)
  BY DEF PromiseInv, IInv, WorkersInv, ReadSub, Reading
<1>2. /\ Become(w, k) /\ k \in Busy /\ k.pc = "invoices"
      /\ k.job = j.job /\ k.owner = j.owner /\ k.prepared = j.prepared
      /\ k.payment = j.payment /\ k.snap = [j.snap EXCEPT ![Sub] = stripe[c][Sub]]
      /\ k.which = IF \E i \in Invoices : j.job.obj = Inv(i)
                   THEN {i \in Invoices : j.job.obj = Inv(i)} ELSE Latest(c)
  BY <1>1, ReadSubFields
<1>3. /\ c \in Customers /\ j.snap \in [Objects -> Copy \cup {None}] /\ j.job \in Job
      /\ stripe[c][Sub] \in Copy
  BY <1>1, BusyFacts, ObjectsFacts DEF TypeOK
<1>4. /\ HasUser(w) /\ (j.prepared => j.owner = None)
      /\ j.prepared => j.snap[Session] # None
      /\ j.payment # None => \E i \in Invoices : j.job.obj = Pay(i)
  BY <1>1 DEF WorkerInv, OnPath
<1>5. UNCHANGED <<stripe, settled, acked, rows, linked, activated, account, buyer>>
  BY DEF ReadSub, db
<1>6. k.owner = None <=> ~Owned(k.job.cust)
  BY <1>1, <1>2 DEF WorkerInv, OwnerKnown
<1>7. /\ k.snap[Sub] = stripe[c][Sub] /\ k.snap[Sub] # None
      /\ \A x \in Objects : x # Sub => k.snap[x] = j.snap[x]
  BY <1>2, <1>3, ObjectsFacts, CopyNotNone
<1>8. OnPath(w)'
  BY <1>2, <1>4, <1>7, Distinct, ObjectsFacts DEF OnPath, HasUser
<1>9. OwnRead(w)'
  BY <1>1, <1>2, <1>7, Distinct DEF WorkerInv, OwnRead, OwnObjectRead
<1>10. \A i \in Invoices : k.snap[Inv(i)] = j.snap[Inv(i)]
  BY <1>7, Distinct, ObjectsFacts
<1>11. InvoiceRead(w)'
  BY <1>1, <1>2, <1>10 DEF WorkerInv, InvoiceRead
<1>12. PaymentRead(w)'
  BY <1>1, <1>2, <1>5, <1>10 DEF WorkerInv, PaymentRead, Val
<1>13. k.prepared /\ k.job.obj # Repair => 1 \in k.which
  <2> SUFFICES ASSUME j.prepared, j.job.obj # Repair PROVE 1 \in k.which
    BY <1>2
  <2>1. ~Owned(c)
    BY <1>2, <1>4, <1>6
  <2>2. ASSUME NEW i \in Invoices, j.job.obj = Inv(i) PROVE i = 1
    <3>1. j.job \in Event
      BY <1>3, <2>2, ObjectsFacts DEF Job
    <3>2. Val(c, Inv(i)) # "none"
      BY <1>1, <2>2, <3>1, KnownSent DEF Known
    <3>3. i \in Existing(c)
      BY <3>2 DEF Existing
    <3> QED
      BY <1>1, <1>3, <2>1, <3>3, UnownedInvoices DEF DataInv
  <2>3. CASE \E i \in Invoices : j.job.obj = Inv(i)
    BY <1>2, <2>2, <2>3
  <2>4. CASE ~\E i \in Invoices : j.job.obj = Inv(i)
    BY <1>1, <1>2, <1>3, <2>1, <2>4, UnownedInvoices DEF DataInv
  <2> QED
    BY <2>3, <2>4
<1>14. ActivationReads(w)' /\ IgnoredForNow(w)'
  BY <1>2, <1>7, <1>13 DEF ActivationReads, IgnoredForNow
<1>15. /\ \A x \in Objects : k.snap[x] = stripe[k.job.cust][x] \/ k.snap[x] = j.snap[x]
       /\ k.payment = j.payment
  BY <1>2, <1>7
<1> QED
  <2> HIDE DEF k
  <2> QED
    BY <1>1, <1>2, <1>5, <1>6, <1>8, <1>9, <1>11, <1>12, <1>14, <1>15, ReadingPromise

LEMMA ReadInvoicesPromise ==
  ASSUME PromiseInv, IInv', NEW w \in Workers, ReadInvoices(w)
  PROVE  PromiseInv'
<1> DEFINE j == worker[w]
           k == worker'[w]
           c == j.job.cust
<1>1. TypeOK /\ DataInv /\ WorkerInv(w) /\ j.pc = "invoices" /\ Reading(w)
  BY DEF PromiseInv, IInv, WorkersInv, ReadInvoices, Reading
<1>2. /\ Become(w, k) /\ k \in Busy /\ k.pc = "payments"
      /\ k.job = j.job /\ k.owner = j.owner /\ k.prepared = j.prepared
      /\ k.payment = j.payment /\ k.todo = k.which
      /\ k.which = IF j.job.obj = Repair THEN Existing(c) ELSE j.which
      /\ \A o \in Objects :
           k.snap[o] = IF o # j.job.obj /\ \E i \in k.which : o = Inv(i)
                       THEN stripe[c][o] ELSE j.snap[o]
  BY <1>1, ReadInvoicesFields
<1>3. /\ c \in Customers /\ k.which \in SUBSET Invoices
      /\ \A x \in Objects : stripe[c][x] \in Copy
  BY <1>1, <1>2, ReadingFacts DEF TypeOK, Busy
<1>4. /\ HasUser(w) /\ (j.prepared => j.owner = None)
      /\ j.prepared => j.snap[Session] # None
      /\ j.payment # None => \E i \in Invoices : j.job.obj = Pay(i)
  BY <1>1 DEF WorkerInv, OnPath
<1>5. UNCHANGED <<stripe, settled, acked, rows, linked, activated, account, buyer>>
  BY DEF ReadInvoices, db
<1>6. k.owner = None <=> ~Owned(k.job.cust)
  BY <1>1, <1>2 DEF WorkerInv, OwnerKnown
<1>7. /\ k.snap[Session] = j.snap[Session] /\ k.snap[Sub] = j.snap[Sub]
      /\ j.job.obj \in Objects => k.snap[j.job.obj] = j.snap[j.job.obj]
  BY <1>2, <1>3, Distinct, ObjectsFacts
<1>8. ASSUME NEW i \in Invoices
      PROVE  IF Inv(i) # j.job.obj /\ i \in k.which
             THEN k.snap[Inv(i)] = stripe[c][Inv(i)]
             ELSE k.snap[Inv(i)] = j.snap[Inv(i)]
  <2>1. Inv(i) \in Objects /\ ((\E n \in k.which : Inv(i) = Inv(n)) <=> i \in k.which)
    BY <1>3, Distinct, ObjectsFacts
  <2> QED
    BY <1>2, <2>1
<1>9. OnPath(w)'
  BY <1>2, <1>4, <1>7 DEF OnPath, HasUser
<1>10. OwnRead(w)'
  BY <1>1, <1>2, <1>7 DEF WorkerInv, OwnRead, OwnObjectRead
<1>11. ASSUME NEW i \in Invoices, k.snap[Inv(i)] # None PROVE i \in k.which
  BY <1>1, <1>2, <1>8, <1>11, ObjectsFacts DEF WorkerInv, InvoiceRead
<1>12. InvoiceRead(w)'
  BY <1>2, <1>11 DEF InvoiceRead
<1>13. PaymentRead(w)'
  <2>1. ASSUME NEW i \in Invoices, k.snap[Inv(i)] # None, k.snap[Inv(i)].val = "paid"
        PROVE  Val(c, Pay(i)) # "none"
    BY <1>1, <1>3, <1>8, <2>1 DEF DataInv, StripeInv, Val, WorkerInv, PaymentRead
  <2> QED
    BY <1>2, <1>5, <1>11, <2>1 DEF PaymentRead, Val
<1>14. k.prepared => k.snap[Sub] # None /\ k.snap[Inv(1)] # None /\ 1 \in k.todo
  <2> SUFFICES ASSUME j.prepared
               PROVE  k.snap[Sub] # None /\ k.snap[Inv(1)] # None /\ 1 \in k.which
    BY <1>2
  <2>1. j.snap[Sub] # None
    BY <1>1 DEF WorkerInv, ActivationReads
  <2>2. 1 \in k.which
    <3>1. ~Owned(c)
      BY <1>2, <1>4, <1>6
    <3>2. 1 \in Existing(c)
      BY <1>1, <1>3, <3>1, UnownedInvoices DEF DataInv
    <3>3. j.job.obj # Repair => 1 \in j.which
      BY <1>1 DEF WorkerInv, ActivationReads
    <3> QED
      BY <1>2, <3>2, <3>3
  <2>3. k.snap[Inv(1)] # None
    <3>1. CASE j.job.obj = Inv(1)
      <4>1. /\ Inv(1) \in Objects
            /\ ~\E i \in Invoices : j.job.obj = Pay(i)
        BY <3>1, Distinct, ObjectsFacts
      <4> QED
        BY <1>1, <1>7, <3>1, <4>1 DEF WorkerInv, OwnRead, OwnObjectRead
    <3>2. CASE j.job.obj # Inv(1)
      BY <1>3, <1>8, <2>2, <3>2, Distinct, ObjectsFacts, CopyNotNone
    <3> QED
      BY <3>1, <3>2
  <2> QED
    BY <1>7, <2>1, <2>2, <2>3
<1>15. ActivationReads(w)' /\ IgnoredForNow(w)'
  BY <1>2, <1>14 DEF ActivationReads, IgnoredForNow
<1>16. /\ \A x \in Objects : k.snap[x] = stripe[k.job.cust][x] \/ k.snap[x] = j.snap[x]
       /\ k.payment = j.payment
  BY <1>2
<1> QED
  <2> HIDE DEF k
  <2> QED
    BY <1>1, <1>2, <1>5, <1>6, <1>9, <1>10, <1>12, <1>13, <1>15, <1>16, ReadingPromise

LEMMA ReadPaymentPromise ==
  ASSUME PromiseInv, IInv', NEW w \in Workers, ReadPayment(w)
  PROVE  PromiseInv'
<1> DEFINE j == worker[w]
           k == worker'[w]
           c == j.job.cust
<1>1. TypeOK /\ DataInv /\ WorkerInv(w) /\ j.pc = "payments" /\ Reading(w)
  BY DEF PromiseInv, IInv, WorkersInv, ReadPayment, Reading
<1>2. /\ Become(w, k) /\ k \in Busy
      /\ k.job = j.job /\ k.owner = j.owner /\ k.prepared = j.prepared
      /\ k.payment = j.payment /\ k.which = j.which
      /\ \/ k.pc = "commit" /\ j.todo = {} /\ k.todo = {} /\ k.snap = j.snap
         \/ /\ k.pc = "payments"
            /\ \E i \in Invoices :
                 /\ i \in j.todo /\ k.todo = j.todo \ {i}
                 /\ k.snap = [j.snap EXCEPT ![Pay(i)] =
                                IF Val(c, Pay(i)) = "none" THEN None ELSE stripe[c][Pay(i)]]
  BY <1>1, ReadPaymentFields
<1>3. /\ c \in Customers /\ j.snap \in [Objects -> Copy \cup {None}]
      /\ \A x \in Objects : stripe[c][x] \in Copy
  BY <1>1, ReadingFacts DEF TypeOK
<1>4. /\ HasUser(w) /\ (j.prepared => j.owner = None)
      /\ j.prepared => j.snap[Session] # None
      /\ j.payment # None => \E i \in Invoices : j.job.obj = Pay(i)
  BY <1>1 DEF WorkerInv, OnPath
<1>5. UNCHANGED <<stripe, settled, acked, rows, linked, activated, account, buyer>>
  BY DEF ReadPayment, db
<1>6. k.owner = None <=> ~Owned(k.job.cust)
  BY <1>1, <1>2 DEF WorkerInv, OwnerKnown
<1>7. \A x \in Objects : (\A i \in Invoices : x # Pay(i)) => k.snap[x] = j.snap[x]
  BY <1>2, <1>3
<1>8. \A i \in Invoices :
        \/ k.snap[Pay(i)] = j.snap[Pay(i)] /\ (i \in k.todo <=> i \in j.todo)
        \/ k.snap[Pay(i)] = IF Val(c, Pay(i)) = "none" THEN None ELSE stripe[c][Pay(i)]
  BY <1>2, <1>3, Distinct, ObjectsFacts
<1>9. /\ k.snap[Session] = j.snap[Session] /\ k.snap[Sub] = j.snap[Sub]
      /\ \A i \in Invoices : k.snap[Inv(i)] = j.snap[Inv(i)]
  BY <1>7, Distinct, ObjectsFacts
<1>10. OnPath(w)'
  BY <1>2, <1>4, <1>9 DEF OnPath, HasUser
<1>11. OwnRead(w)'
  <2>1. OwnObjectRead(w)
    BY <1>1 DEF WorkerInv, OwnRead
  <2>2. OwnObjectRead(w)'
    BY <1>2, <1>7, <2>1 DEF OwnObjectRead
  <2> QED
    BY <1>2, <2>2 DEF OwnRead
<1>12. InvoiceRead(w)'
  BY <1>1, <1>2, <1>9 DEF WorkerInv, InvoiceRead
<1>13. PaymentRead(w)'
  <2> SUFFICES ASSUME NEW i \in Invoices, j.snap[Inv(i)] # None, j.snap[Inv(i)].val = "paid"
               PROVE  Val(c, Pay(i)) # "none" /\ (i \notin k.todo => k.snap[Pay(i)] # None)
    BY <1>2, <1>5, <1>9 DEF PaymentRead, Val
  <2>1. Val(c, Pay(i)) # "none" /\ (i \notin j.todo => j.snap[Pay(i)] # None)
    BY <1>1 DEF WorkerInv, PaymentRead
  <2> QED
    BY <1>3, <1>8, <2>1, ObjectsFacts, CopyNotNone
<1>14. ASSUME \A e \in Event : Handled(e)' => Handled(e) PROVE ActivationReads(w)'
  <2> SUFFICES ASSUME j.prepared
               PROVE  /\ k.snap[Sub] # None /\ k.snap[Inv(1)] # None
                      /\ 1 \notin k.todo /\ k.snap[Pay(1)] = None =>
                           \A e \in Event : Known(w, e) /\ e.cust = c => e.obj # Pay(1)
    BY <1>2, <1>14 DEF ActivationReads, Known
  <2>1. /\ j.snap[Sub] # None /\ j.snap[Inv(1)] # None
        /\ 1 \notin j.todo /\ j.snap[Pay(1)] = None =>
             \A e \in Event : Known(w, e) /\ e.cust = c => e.obj # Pay(1)
    BY <1>1 DEF WorkerInv, ActivationReads
  <2>2. k.snap[Sub] # None /\ k.snap[Inv(1)] # None
    BY <1>9, <2>1, Distinct
  <2>3. ASSUME 1 \notin k.todo, k.snap[Pay(1)] = None,
               NEW e \in Event, Known(w, e), e.cust = c, e.obj = Pay(1)
        PROVE  FALSE
    <3>1. Val(c, Pay(1)) # "none"
      BY <1>1, <2>3, KnownSent
    <3>2. stripe[c][Pay(1)] # None
      BY <1>3, Distinct, ObjectsFacts, CopyNotNone
    <3> QED
      BY <1>8, <2>1, <2>3, <3>1, <3>2, Distinct
  <2> QED
    BY <2>2, <2>3
<1>15. IgnoredForNow(w)'
  BY <1>2, <1>4 DEF IgnoredForNow, HasUser
<1>16. /\ \A x \in Objects : \/ k.snap[x] = None \/ k.snap[x] = stripe[k.job.cust][x]
                             \/ k.snap[x] = j.snap[x]
       /\ k.payment = j.payment
  BY <1>2, <1>7, <1>8
<1>17. k.pc \in {"payments", "commit"}
  BY <1>2
<1> QED
  <2> HIDE DEF k
  <2> QED
    BY <1>1, <1>2, <1>5, <1>6, <1>10, <1>11, <1>12, <1>13, <1>14, <1>15, <1>16, <1>17,
       ReadingPromise

-----------------------------------------------------------------------------
(* The transaction. *)
LEMMA CommitFields ==
  ASSUME TypeOK, NEW w \in Workers, Commit(w)
  PROVE  LET j == worker[w]
             k == worker'[w]
             c == j.job.cust
         IN  /\ Become(w, k) /\ k.pc \in {"idle", "claim"}
             /\ k.pc = "claim" => k.job = j.job
             /\ \A v \in Workers \ {w} : worker'[v] = worker[v]
             /\ stripe' = stripe /\ acked' = acked
             /\ settled' \subseteq settled \cup {j.job}
<1> DEFINE j == worker[w]
<1>1. j \in Busy
  BY BusyFacts DEF TypeOK, Commit
<1>2. \/ Become(w, Idle) \/ Become(w, [j EXCEPT !.pc = "claim"])
  BY DEF Commit, Goto
<1>3. /\ worker'[w] = Idle \/ worker'[w] = [j EXCEPT !.pc = "claim"]
      /\ Become(w, worker'[w]) /\ \A v \in Workers \ {w} : worker'[v] = worker[v]
  BY <1>2 DEF TypeOK, Become
<1>4. worker'[w].pc \in {"idle", "claim"} /\ (worker'[w].pc = "claim" => worker'[w].job = j.job)
  BY <1>1, <1>3 DEF Busy, Idle
<1> QED
  BY <1>3, <1>4 DEF Commit

(* Who owns a customer changes by its own activation only: an account      *)
(* keeps the customer it has.                                              *)
LEMMA CommitOwners ==
  ASSUME TypeOK, NEW w \in Workers, Commit(w), NEW d \in Customers
  PROVE  /\ Owned(d) => Owned(d)'
         /\ d # worker[w].job.cust => (Owned(d)' <=> Owned(d))
         /\ d = worker[w].job.cust /\ Activating(w) => Owned(d)'
         /\ d = worker[w].job.cust /\ ~Activating(w) => (Owned(d)' <=> Owned(d))
<1> DEFINE c == worker[w].job.cust
           m == EmailOf[c]
<1>1. c \in Customers /\ m \in Emails
  BY BusyFacts, ReconcilerAssumption DEF TypeOK, Commit
<1>2. CASE ~Activating(w)
  BY <1>2 DEF Commit, Owned
<1>3. CASE Activating(w)
  <2>1. /\ \A n \in Emails : account'[n] = IF n = m THEN CustomerAfter(m, c) ELSE account[n]
        /\ \A b \in Customers : buyer'[b] = IF b = c THEN m ELSE buyer[b]
    BY <1>1, <1>3 DEF Commit, TypeOK
  <2>2. \A b \in Customers : b # c => (CustomerAfter(m, c) = b <=> account[m] = b)
    BY <1>1, ReconcilerAssumption DEF CustomerAfter
  <2>3. account[m] = c => CustomerAfter(m, c) = c
    BY DEF CustomerAfter
  <2>4. d # c => (Owned(d)' <=> Owned(d))
    BY <2>1, <2>2 DEF Owned
  <2>5. d = c => Owned(d)'
    BY <1>1, <2>1 DEF Owned
  <2> QED
    BY <1>3, <2>4, <2>5
<1> QED
  BY <1>2, <1>3

(* What the transaction writes, of the objects it has copies of. *)
LEMMA CommitWrites ==
  ASSUME TypeOK, NEW w \in Workers, Commit(w), NEW o \in Objects
  PROVE  LET j == worker[w]
             c == j.job.cust
         IN  /\ HasUser(w) => rows'[c][o] = RowAfter(w, c, o)
             /\ ~HasUser(w) => rows'[c][o] = rows[c][o]
<1>1. worker[w].job.cust \in Customers
  BY BusyFacts DEF TypeOK, Commit
<1> QED
  BY <1>1 DEF Commit, TypeOK

(* What an activation writes leaves no known event behind: it has read     *)
(* every object that an event could have announced.                        *)
LEMMA ActivationIsComplete ==
  ASSUME DataInv, NEW w \in Workers, WorkerInv(w), worker[w].pc = "commit",
         worker[w].prepared, NEW e \in Event, Known(w, e), e.cust = worker[w].job.cust
  PROVE  worker[w].snap[e.obj] # None
<1> DEFINE k == worker[w]
           c == k.job.cust
<1>1. Reading(w) /\ c \in Customers /\ Val(c, e.obj) # "none"
  BY KnownSent, EventFacts DEF Reading
<1>2. k.snap[Session] # None /\ k.snap[Sub] # None /\ k.snap[Inv(1)] # None
  BY <1>1 DEF WorkerInv, OnPath, ActivationReads
<1>3. ~Owned(c)
  BY <1>1 DEF WorkerInv, OnPath, OwnerKnown
<1>4. ASSUME NEW i \in Invoices, Val(c, Inv(i)) # "none" PROVE i = 1
  BY <1>1, <1>3, <1>4, UnownedInvoices DEF DataInv, Existing
<1>5. ASSUME NEW i \in Invoices, e.obj = Inv(i) PROVE k.snap[e.obj] # None
  BY <1>1, <1>2, <1>4, <1>5
<1>6. ASSUME NEW i \in Invoices, e.obj = Pay(i) PROVE k.snap[e.obj] # None
  <2>1. i = 1
    BY <1>1, <1>4, <1>6 DEF DataInv, StripeInv
  <2> QED
    BY <1>1, <1>6, <2>1 DEF WorkerInv, ActivationReads
<1> QED
  BY <1>2, <1>5, <1>6, EventFacts DEF Objects

(* The rows a transaction leaves are as new as every known event.          *)
LEMMA CommitIsFresh ==
  ASSUME TypeOK, DataInv, NEW w \in Workers, WorkerInv(w), worker[w].pc = "commit", HasUser(w),
         NEW e \in Event, Known(w, e), e.cust = worker[w].job.cust
  PROVE  RowAfter(w, e.cust, e.obj).ver >= e.ver
<1> DEFINE k == worker[w]
           c == k.job.cust
<1>1. /\ Reading(w) /\ c \in Customers
      /\ e.obj \in Objects
  BY EventFacts DEF Reading
<1>2. /\ k.snap[e.obj] # None => k.snap[e.obj].ver >= e.ver
      /\ k.payment # None /\ e.obj = k.job.obj => k.payment.ver >= e.ver
  BY <1>1 DEF WorkerInv, CopiesFresh
<1>3. CASE k.snap[e.obj] # None \/ (k.payment # None /\ e.obj = k.job.obj)
  BY <1>2, <1>3 DEF RowAfter
<1>4. CASE ~(k.snap[e.obj] # None \/ (k.payment # None /\ e.obj = k.job.obj))
  <2>1. ~k.prepared
    BY <1>4, ActivationIsComplete
  <2>2. Owned(c)
    BY <1>1, <2>1 DEF WorkerInv, OwnerKnown, HasUser
  <2>3. e # k.job
    BY <1>1, <1>4 DEF WorkerInv, OwnRead, OwnObjectRead
  <2>4. rows[c][e.obj].ver >= e.ver
    BY <2>2, <2>3 DEF DataInv, Mirrored, Known
  <2> QED
    BY <1>4, <2>4 DEF RowAfter
<1> QED
  BY <1>3, <1>4

(* An invoice is written as paid only with its payment and an activation.  *)
LEMMA CommitLinks ==
  ASSUME TypeOK, DataInv, NEW w \in Workers, WorkerInv(w), worker[w].pc = "commit",
         NEW i \in Invoices, RowAfter(w, worker[w].job.cust, Inv(i)).val = "paid"
  PROVE  LET c == worker[w].job.cust IN
         <<c, i>> \in LinkedAfter(w, c) /\ c \in ActivatedAfter(w, c)
<1> DEFINE k == worker[w]
           c == k.job.cust
<1>1. Reading(w) /\ c \in Customers
  BY BusyFacts DEF TypeOK, Reading
<1>2. k.payment # None => k.job.obj # Inv(i)
  BY <1>1, Distinct DEF WorkerInv, OnPath
<1>3. CASE k.snap[Inv(i)] # None
  <2>1. k.snap[Inv(i)].val = "paid"
    BY <1>2, <1>3 DEF RowAfter
  <2>2. k.snap[Pay(i)] # None /\ i \in k.which
    BY <1>1, <1>3, <2>1 DEF WorkerInv, PaymentRead, InvoiceRead
  <2> QED
    BY <1>3, <2>1, <2>2 DEF LinkedAfter, ActivatedAfter
<1>4. CASE k.snap[Inv(i)] = None
  <2>1. rows[c][Inv(i)].val = "paid"
    BY <1>2, <1>4 DEF RowAfter
  <2>2. <<c, i>> \in linked /\ c \in activated
    BY <1>1, <2>1 DEF DataInv, PaidLinked
  <2> QED
    BY <2>2 DEF LinkedAfter, ActivatedAfter
<1> QED
  BY <1>3, <1>4

LEMMA CommitPromise ==
  ASSUME PromiseInv, IInv', NEW w \in Workers, Commit(w)
  PROVE  PromiseInv'
<1> DEFINE j == worker[w]
           k == worker'[w]
           c == j.job.cust
<1>1. TypeOK /\ IInv /\ DataInv /\ WorkerInv(w) /\ j.pc = "commit" /\ Reading(w)
  BY DEF PromiseInv, IInv, WorkersInv, Commit, Reading
<1>2. /\ Become(w, k) /\ k.pc \in {"idle", "claim"}
      /\ k.pc = "claim" => k.job = j.job
      /\ \A v \in Workers \ {w} : worker'[v] = worker[v]
      /\ stripe' = stripe /\ acked' = acked
      /\ settled' \subseteq settled \cup {j.job}
  BY <1>1, CommitFields
<1>3. c \in Customers
  BY <1>1, ReadingFacts
<1>4. ASSUME NEW e \in Event, Handled(e)' PROVE Known(w, e)
  BY <1>1, <1>2, <1>4, HandledAfter DEF Handled, Known
<1>5. ASSUME NEW e \in Event, Handled(e)', e.cust # c PROVE Handled(e)
  BY <1>4, <1>5 DEF Known
<1>6. \A d \in Customers :
        /\ Owned(d) => Owned(d)'
        /\ d # c => (Owned(d)' <=> Owned(d))
        /\ d = c /\ Activating(w) => Owned(d)'
        /\ d = c /\ ~Activating(w) => (Owned(d)' <=> Owned(d))
  BY <1>1, CommitOwners
<1>7. \A d \in Customers, o \in Objects :
        /\ rows'[d][o] \in {rows[d][o], RowAfter(w, d, o)}
        /\ d # c => rows'[d][o] = rows[d][o]
        /\ rows[d][o].ver <= rows'[d][o].ver
        /\ rows[d][o].ver \in Nat /\ rows'[d][o].ver \in Nat
  BY <1>1, CommitRows, Versions, IInv' DEF IInv, TypeOK, Copy
<1>8. \A o \in Objects : /\ HasUser(w) => rows'[c][o] = RowAfter(w, c, o)
                         /\ ~HasUser(w) => rows'[c][o] = rows[c][o]
  BY <1>1, CommitWrites
<1>9. j.owner = None <=> ~Owned(c)
  BY <1>1 DEF WorkerInv, OwnerKnown
<1>10. DataInv'
  <2>1. StripeInv'
    BY <1>1, <1>2 DEF DataInv, StripeInv, Val
  <2>2. Renewed'
    BY <1>1, <1>2, <1>6 DEF DataInv, Renewed, Val
  <2>3. RowsCoherent'
    <3> SUFFICES ASSUME NEW d \in Customers, NEW o \in Objects PROVE SameAs(d, o, rows'[d][o])
      BY <1>2 DEF RowsCoherent, SameAs
    <3>1. SameAs(d, o, rows[d][o])
      BY <1>1 DEF DataInv, RowsCoherent
    <3>2. d = c => SameAs(d, o, RowAfter(w, d, o))
      BY <1>1, <3>1 DEF WorkerInv, CopiesCoherent, RowAfter
    <3> QED
      BY <1>7, <3>1, <3>2
  <2>4. HandledSent'
    <3> SUFFICES ASSUME NEW e \in Event, Handled(e)' PROVE e.ver <= stripe[e.cust][e.obj].ver
      BY <1>2 DEF HandledSent, Sent
    <3> QED
      BY <1>1, <1>4, KnownSent
  <2>5. Mirrored'
    <3> SUFFICES ASSUME NEW d \in Customers, NEW e \in Event, e.cust = d, Handled(e)', Owned(d)'
                 PROVE  rows'[d][e.obj].ver >= e.ver
      BY EventFacts DEF Mirrored
    <3>1. CASE d # c
      <4>1. rows[d][e.obj].ver >= e.ver
        BY <1>1, <1>5, <1>6, <3>1 DEF DataInv, Mirrored
      <4> QED
        BY <1>7, <3>1, <4>1, EventFacts
    <3>2. CASE d = c
      <4>1. HasUser(w)
        BY <1>6, <1>9, <3>2 DEF HasUser, Activating
      <4>2. Known(w, e)
        BY <1>4
      <4>3. RowAfter(w, c, e.obj).ver >= e.ver
        BY <1>1, <3>2, <4>1, <4>2, CommitIsFresh
      <4> QED
        BY <1>8, <3>2, <4>1, <4>3, EventFacts
    <3> QED
      BY <3>1, <3>2
  <2>6. PaidLinked'
    <3> SUFFICES ASSUME NEW d \in Customers, NEW i \in Invoices, rows'[d][Inv(i)].val = "paid"
                 PROVE  <<d, i>> \in linked' /\ d \in activated'
      BY DEF PaidLinked
    <3>1. Inv(i) \in Objects
      BY ObjectsFacts
    <3>2. linked \subseteq linked' /\ activated \subseteq activated'
      BY DEF Commit, LinkedAfter, ActivatedAfter
    <3>3. CASE rows'[d][Inv(i)] = rows[d][Inv(i)]
      BY <1>1, <3>2, <3>3 DEF DataInv, PaidLinked
    <3>4. CASE rows'[d][Inv(i)] # rows[d][Inv(i)]
      <4>1. d = c /\ HasUser(w) /\ RowAfter(w, c, Inv(i)).val = "paid"
        BY <1>7, <1>8, <3>1, <3>4
      <4>2. linked' = LinkedAfter(w, c) /\ activated' = ActivatedAfter(w, c)
        BY <4>1 DEF Commit
      <4> QED
        BY <1>1, <4>1, <4>2, CommitLinks
    <3> QED
      BY <3>3, <3>4
  <2>7. NotForgotten'
    <3> SUFFICES ASSUME NEW d \in Customers, ~Owned(d)', Bought(d)
                 PROVE  \E e \in Event : Announces(e, d) /\ ~Handled(e)'
      BY <1>2 DEF NotForgotten, Bought, Val, Announces
    <3>1. CASE d # c
      <4>1. PICK e \in Event : Announces(e, d) /\ ~Handled(e)
        BY <1>1, <1>6, <3>1 DEF DataInv, NotForgotten
      <4> QED
        BY <1>5, <3>1, <4>1 DEF Announces
    <3>2. CASE d = c
      <4>1. ~HasUser(w)
        BY <1>6, <1>9, <3>2 DEF HasUser, Activating
      <4>2. PICK e \in Event : Announces(e, d) /\ ~Known(w, e)
        BY <1>1, <3>2, <4>1 DEF WorkerInv, IgnoredForNow
      <4> QED
        BY <1>4, <4>2
    <3> QED
      BY <3>1, <3>2
  <2> QED
    BY <2>1, <2>2, <2>3, <2>4, <2>5, <2>6, <2>7 DEF DataInv
<1>11. WorkersInv'
  <2> SUFFICES ASSUME NEW v \in Workers PROVE WorkerInv(v)'
    BY DEF WorkersInv
  <2>1. CASE v = w
    <3>1. ~Reading(v)' /\ worker'[v].pc \in {"idle", "claim"}
      BY <1>2, <2>1 DEF Reading
    <3>2. JobSent(v)' /\ OnPath(v)'
      BY <1>1, <1>2, <2>1, <3>1 DEF WorkerInv, JobSent, OnPath, Sent
    <3> QED
      BY <3>1, <3>2 DEF WorkerInv, OwnRead, InvoiceRead, PaymentRead, CopiesCoherent,
                        CopiesFresh, OwnerKnown, ActivationReads, IgnoredForNow
  <2>2. CASE v # w
    <3>1. Reading(v) => worker[v].job.cust # c
      BY <1>1, <2>2, OneReader DEF IInv
    <3> QED
      BY <1>1, <1>2, <1>5, <1>6, <2>2, <3>1, OtherWorker DEF PromiseInv, WorkersInv
  <2> QED
    BY <2>1, <2>2
<1> QED
  BY <1>10, <1>11 DEF PromiseInv

-----------------------------------------------------------------------------
LEMMA InitPromise == Init => DataInv /\ WorkersInv
<1> SUFFICES ASSUME Init PROVE DataInv /\ WorkersInv
  OBVIOUS
<1>1. \A c \in Customers, o \in Objects :
        stripe[c][o] = NewObject(o) /\ rows[c][o] = NewObject(o) /\ stripe[c][o].ver = 0
  BY InitialObject DEF Init
<1>2. \A w \in Workers : worker[w] = Idle /\ ~Reading(w)
  BY DEF Init, Reading, Idle
<1>3. \A e \in Event : ~Handled(e)
  BY <1>2 DEF Init, Handled, Idle
<1>4. /\ NewObject(Session).val = "open" /\ NewObject(Sub).val = "incomplete"
      /\ \A i \in Invoices : /\ NewObject(Inv(i)).val = IF i = 1 THEN "open" ELSE "none"
                             /\ NewObject(Pay(i)).val = "none"
  BY Distinct DEF NewObject
<1>5. ASSUME NEW c \in Customers
      PROVE  /\ Val(c, Session) = "open" /\ Val(c, Sub) = "incomplete"
             /\ \A i \in Invoices : /\ Val(c, Inv(i)) = IF i = 1 THEN "open" ELSE "none"
                                    /\ Val(c, Pay(i)) = "none"
  BY <1>1, <1>4, ObjectsFacts DEF Val
<1>6. StripeInv
  <2>1. \A c \in Customers, o \in Objects : stripe[c][o].ver <= MaxVer
    BY <1>1, ReconcilerAssumption
  <2> QED
    BY <1>1, <1>5, <2>1, Distinct DEF StripeInv
<1>7. Renewed
  BY <1>5 DEF Renewed, Invoices
<1>8. PaidLinked
  BY <1>1, <1>4, ObjectsFacts DEF PaidLinked
<1>9. DataInv
  <2>1. NotForgotten
    BY <1>5 DEF NotForgotten, Bought
  <2> QED
    BY <1>1, <1>3, <1>6, <1>7, <1>8, <2>1
       DEF DataInv, RowsCoherent, SameAs, HandledSent, Mirrored
<1>10. WorkersInv
  BY <1>2 DEF Idle, WorkersInv, WorkerInv, JobSent, OnPath, OwnRead, InvoiceRead, PaymentRead,
              CopiesCoherent, CopiesFresh, OwnerKnown, ActivationReads, IgnoredForNow
<1> QED
  BY <1>9, <1>10

LEMMA PromiseStep == PromiseInv /\ [Next]_vars => PromiseInv'
<1> SUFFICES ASSUME PromiseInv, [Next]_vars PROVE PromiseInv'
  OBVIOUS
<1>0. IInv'
  BY InvStep DEF PromiseInv
<1>1. ASSUME NEW c \in Customers, NEW o \in Objects, StripeChange(c, o) PROVE PromiseInv'
  BY <1>0, <1>1, StripeChangePromise
<1>2. ASSUME NEW w \in Handlers, NEW e \in Event, Deliver(w, e) PROVE PromiseInv'
  BY <1>0, <1>2, StartPromise DEF Deliver, Workers, Job
<1>3. ASSUME NEW w \in Repairers, NEW c \in Customers, StartRepair(w, c) PROVE PromiseInv'
  <2>1. [cust |-> c, obj |-> Repair, ver |-> 0] \in Job
    BY DEF Job
  <2> QED
    BY <1>0, <1>3, <2>1, StartPromise DEF StartRepair, Workers
<1>4. ASSUME NEW w \in Workers, Begin(w) PROVE PromiseInv'
  BY <1>0, <1>4, SkipPromise, BeginPromise
<1>5. ASSUME NEW w \in Workers, Step(w) \/ ClaimFails(w) \/ Fail(w) \/ Crash(w) PROVE PromiseInv'
  BY <1>0, <1>4, <1>5, PreparePromise, ReadFirstPromise, ReadSubPromise, ReadInvoicesPromise,
     ReadPaymentPromise, CommitPromise, EndPromise DEF Step
<1>6. CASE UNCHANGED vars
  <2>1. \A e \in Event : Handled(e)' => Handled(e)
    BY <1>6 DEF vars, Handled
  <2>2. \A c \in Customers : Owned(c)' <=> Owned(c)
    BY <1>6 DEF vars, db, Owned
  <2>3. DataInv'
    BY <1>6, <2>1, DataKept DEF PromiseInv, vars, db
  <2>4. WorkersInv'
    BY <1>6, <2>1, <2>2, OtherWorker DEF PromiseInv, IInv, WorkersInv, vars, db
  <2> QED
    BY <1>0, <2>3, <2>4 DEF PromiseInv
<1> QED
  BY <1>1, <1>2, <1>3, <1>5, <1>6 DEF Next

LEMMA PromiseInvariance == Spec => []PromiseInv
<1>1. Init => PromiseInv
  BY InitInv, InitPromise DEF PromiseInv
<1> QED
  BY <1>1, PromiseStep, PTL DEF Spec

(* Once Stripe was told that an event is handled, the rows of a customer   *)
(* with an account are as new as what the event announced, however late,   *)
(* often or out of order the events came and whatever failed in between.   *)
THEOREM AnswersAreKept == Spec => []AckedIsMirrored
<1>1. PromiseInv => AckedIsMirrored
  <2> SUFFICES ASSUME PromiseInv, NEW e \in acked, Owner(e.cust) # None
               PROVE  rows[e.cust][e.obj].ver >= e.ver
    BY DEF AckedIsMirrored
  <2>1. e \in Event
    BY DEF PromiseInv, IInv, TypeOK
  <2>2. Handled(e) /\ Owned(e.cust)
    BY <2>1, OwnedFact, EventFacts DEF Handled
  <2> QED
    BY <2>1, <2>2 DEF PromiseInv, DataInv, Mirrored
<1> QED
  BY <1>1, PromiseInvariance, PTL

(* A buyer whose payment went through is not forgotten: if every event was *)
(* answered, also those ignored for want of an account, it has an owner.   *)
THEOREM NoBuyerIsForgotten == Spec => []NoLostActivation
<1>1. PromiseInv => NoLostActivation
  BY QuietPurchaseIsOwned, OwnedFact DEF NoLostActivation, Bought, PromiseInv, DataInv, IInv
<1> QED
  BY <1>1, PromiseInvariance, PTL

(* When nothing is left to deliver, every row of an owned customer equals  *)
(* Stripe's object.                                                        *)
LEMMA QuietRows ==
  ASSUME PromiseInv, NEW c \in Customers, Quiet(c), Owned(c), NEW o \in Objects
  PROVE  rows[c][o] = stripe[c][o]
<1>1. TypeOK /\ DataInv
  BY DEF PromiseInv, IInv
<1>2. /\ rows[c][o].ver \in Nat /\ stripe[c][o].ver \in Nat
      /\ rows[c][o].ver <= stripe[c][o].ver
  BY <1>1, Versions DEF PromiseInv, IInv, RowsBehind
<1>3. rows[c][o].ver = stripe[c][o].ver
  <2>1. CASE stripe[c][o].ver = 0
    BY <1>2, <2>1
  <2>2. CASE stripe[c][o].ver # 0
    <3> DEFINE e == [cust |-> c, obj |-> o, ver |-> stripe[c][o].ver]
    <3>1. stripe[c][o].ver <= MaxVer
      BY <1>1 DEF DataInv, StripeInv
    <3>2. e \in Event
      BY <1>2, <2>2, <3>1, CurrentEvent
    <3>3. e \in Sent
      BY <1>2, <3>2, SentFacts
    <3>4. Handled(e)
      BY <3>2, <3>3 DEF Quiet, Handled
    <3>5. rows[c][o].ver >= stripe[c][o].ver
      BY <1>1, <3>2, <3>4 DEF DataInv, Mirrored
    <3> QED
      BY <1>2, <3>5
  <2> QED
    BY <2>1, <2>2
<1> QED
  BY <1>1, <1>3 DEF DataInv, RowsCoherent, SameAs

(* Access is right on every path: once nothing is left to deliver it is    *)
(* what Stripe would say, a refund ends it, and it never comes without the *)
(* activation that retires an older manual grant.                          *)
THEOREM AccessIsRight == Spec => []AccessIsSound
<1>1. PromiseInv => AccessFollowsStripe
  <2> SUFFICES ASSUME PromiseInv, NEW c \in Customers, Quiet(c), Owner(c) # None
               PROVE  Access(c) <=> StripeAccess(c)
    BY DEF AccessFollowsStripe
  <2>1. Owned(c)
    BY OwnedFact
  <2>2. \A o \in Objects : rows[c][o] = stripe[c][o]
    BY <2>1, QuietRows
  <2>3. /\ rows[c][Sub].val = Val(c, Sub)
        /\ \A i \in Invoices : /\ rows[c][Inv(i)].val = Val(c, Inv(i))
                               /\ rows[c][Pay(i)].val = Val(c, Pay(i))
    BY <2>2, ObjectsFacts DEF Val
  <2>4. \A i \in Invoices : rows[c][Inv(i)].val = "paid" => <<c, i>> \in linked
    BY DEF PromiseInv, DataInv, PaidLinked
  <2> QED
    BY <2>3, <2>4 DEF Access, StripeAccess
<1>2. PromiseInv => RefundEndsAccess /\ PaidAccessIsActivated
  BY DEF PromiseInv, DataInv, PaidLinked, RefundEndsAccess, PaidAccessIsActivated, Access
<1> QED
  BY <1>1, <1>2, PromiseInvariance, PTL DEF AccessIsSound
=============================================================================
