------------------------- MODULE PurchaseEmailProofs -------------------------
(***************************************************************************)
(* Proofs about the purchase e-mail's lease, for any callers, times and    *)
(* bounds.  What makes the lease work is a race between two clocks: IInv   *)
(* says that a sender at the mail server still holds the lease and has     *)
(* less time left than the lease has.                                      *)
(***************************************************************************)
EXTENDS PurchaseEmail, TLAPS

(* No attempt is numbered ahead of the counter. *)
Numbered == lease <= attempts /\ \A s \in Senders : sender[s].lease <= attempts

(* A sender at the mail server holds the lease, for longer than the mail   *)
(* server may take.                                                        *)
SmtpHoldsLease ==
  \A s \in Senders : sender[s].pc = "smtp" =>
    status = "sending" /\ lease = sender[s].lease /\ sender[s].left < leaseLeft

(* A sender that comes back with the lease has delivered. *)
MarkDelivered ==
  \A s \in Senders : sender[s].pc = "mark" /\ HoldsLease(s) => ~owed

(* Attempts under way are different attempts; a failed one that still has  *)
(* the lease finds the row as it left it.                                  *)
OwnLease ==
  /\ \A s, t \in Senders :
       /\ sender[s].pc \in {"smtp", "failed", "mark"}
       /\ sender[t].pc \in {"smtp", "failed", "mark"}
       /\ sender[s].lease = sender[t].lease
       => s = t
  /\ \A s \in Senders :
       sender[s].pc = "failed" /\ lease = sender[s].lease => status = "sending"

(* The e-mails that may still go out without a new cause: the queued one,  *)
(* and the one under way unless it arrived and its sender can mark it.     *)
Delivered ==
  leaseLeft > 0 /\ \E s \in Senders : sender[s].pc = "mark" /\ sender[s].lease = lease

Due ==
  \/ status = "pending"
  \/ status = "none" /\ ~claimSent
  \/ status = "sending" /\ ~Delivered

Causes == (IF legacy THEN 0 ELSE 1) + resends + faults

MailsBounded == mails + (IF Due THEN 1 ELSE 0) <= Causes

IInv ==
  /\ TypeOK
  /\ Numbered
  /\ SmtpHoldsLease
  /\ OwnLease
  /\ MarkDelivered
  /\ SentMeansArrived
  /\ MailsBounded

-----------------------------------------------------------------------------
LEMMA BoundType ==
  MaxAttempts \in Nat /\ SendTime \in Nat /\ SendTime < LeaseTime
BY PurchaseEmailAssumption DEF MaxAttempts

LEMMA LessType ==
  ASSUME NEW m \in Nat, NEW n \in 0 .. m
  PROVE  Less(n) \in 0 .. m
BY DEF Less

LEMMA IdleType == Idle \in Call
BY PurchaseEmailAssumption, BoundType DEF Idle, Call

LEMMA LinksType ==
  ASSUME TypeOK, NEW n
  PROVE  LinksIssued(n) \in [Attempts -> 0 .. LinkTime]
<1>1. links \in [Attempts -> 0 .. LinkTime] /\ LinkTime \in 0 .. LinkTime
  BY PurchaseEmailAssumption DEF TypeOK
<1> QED
  BY <1>1 DEF LinksIssued

(* A call moves on to another step. *)
LEMMA CallSteps ==
  ASSUME TypeOK, NEW s \in Senders,
         NEW pc \in {"idle", "claim", "smtp", "failed", "mark"}
  PROVE  /\ [sender EXCEPT ![s].pc = pc] \in [Senders -> Call]
         /\ [sender EXCEPT ![s].pc = pc, ![s].left = 0] \in [Senders -> Call]
         /\ [sender EXCEPT ![s] = Idle] \in [Senders -> Call]
<1>1. [sender[s] EXCEPT !.pc = pc] \in Call
  BY DEF TypeOK, Call
<1>2. [sender[s] EXCEPT !.pc = pc, !.left = 0] \in Call
  <2>1. /\ sender[s] \in Call /\ 0 \in 0 .. SendTime
    BY BoundType DEF TypeOK
  <2> QED
    BY <2>1 DEF Call
<1> QED
  BY <1>1, <1>2, IdleType DEF TypeOK

LEMMA InitInv == Init => IInv
<1> SUFFICES ASSUME Init PROVE IInv
  OBVIOUS
<1>1. TypeOK
  BY PurchaseEmailAssumption, BoundType, IdleType DEF Init, TypeOK
<1>2. Numbered /\ SmtpHoldsLease /\ OwnLease /\ MarkDelivered /\ SentMeansArrived
  BY DEF Init, Idle, Numbered, SmtpHoldsLease, OwnLease, MarkDelivered, SentMeansArrived
<1>3. MailsBounded
  BY DEF Init, MailsBounded, Causes, Due
<1> QED
  BY <1>1, <1>2, <1>3 DEF IInv

LEMMA TypeStep == TypeOK /\ [Next]_vars => TypeOK'
<1> SUFFICES ASSUME TypeOK, [Next]_vars PROVE TypeOK'
  OBVIOUS
<1> USE PurchaseEmailAssumption, BoundType
<1>1. ASSUME NEW s \in Senders, Start(s) PROVE TypeOK'
  BY <1>1, CallSteps DEF Start, Enqueued, TypeOK, post
<1>2. ASSUME NEW s \in Senders, Resend(s) PROVE TypeOK'
  <2>1. sender' \in [Senders -> Call]
    BY <1>2, CallSteps DEF Resend
  <2>2. resends' \in 0 .. MaxResends
    BY <1>2 DEF Resend, TypeOK
  <2>3. status' \in {"none", "pending", "sending", "sent"} /\ owed' \in BOOLEAN
    BY <1>2 DEF Resend, TypeOK
  <2> QED
    BY <1>2, <2>1, <2>2, <2>3 DEF Resend, TypeOK, post
<1>3. ASSUME NEW s \in Senders, Claim(s) PROVE TypeOK'
  <2> DEFINE n == attempts + 1
  <2>1. n \in 0 .. MaxAttempts
    BY <1>3 DEF Claim, TypeOK
  <2>2. sender' \in [Senders -> Call]
    <3>1. [pc |-> "smtp", lease |-> n, link |-> ~password, left |-> SendTime] \in Call
      BY <2>1 DEF Call
    <3> QED
      BY <1>3, <3>1 DEF Claim, TypeOK
  <2>3. links' \in [Attempts -> 0 .. LinkTime]
    <3>1. LinksIssued(n) \in [Attempts -> 0 .. LinkTime]
      BY LinksType
    <3> QED
      BY <1>3, <3>1 DEF Claim, TypeOK
  <2> QED
    BY <1>3, <2>1, <2>2, <2>3 DEF Claim, TypeOK, post
<1>4. ASSUME NEW s \in Senders, NothingToSend(s) PROVE TypeOK'
  BY <1>4, CallSteps DEF NothingToSend, TypeOK, post, row
<1>5. ASSUME NEW s \in Senders, Smtp(s) PROVE TypeOK'
  <2>1. sender[s].lease \in 0 .. MaxAttempts
    BY DEF TypeOK, Call
  <2>2. sender' \in [Senders -> Call]
    BY <1>5, CallSteps DEF Smtp
  <2>3. mailbox' \subseteq 0 .. MaxAttempts /\ mails' \in Nat
    BY <1>5, <2>1 DEF Smtp, Arrive, TypeOK
  <2>4. owed' \in BOOLEAN
    BY <1>5 DEF Smtp, Arrive
  <2> QED
    BY <1>5, <2>2, <2>3, <2>4 DEF Smtp, TypeOK, row
<1>6. ASSUME NEW s \in Senders, SmtpFails(s) PROVE TypeOK'
  <2>1. sender[s].lease \in 0 .. MaxAttempts
    BY DEF TypeOK, Call
  <2>2. sender' \in [Senders -> Call]
    BY <1>6, CallSteps DEF SmtpFails
  <2>3. mailbox' \subseteq 0 .. MaxAttempts /\ mails' \in Nat /\ faults' \in 0 .. MaxFaults
    BY <1>6, <2>1 DEF SmtpFails, Arrive, TypeOK, post
  <2>4. owed' \in BOOLEAN
    BY <1>6 DEF SmtpFails, Arrive, TypeOK
  <2> QED
    BY <1>6, <2>2, <2>3, <2>4 DEF SmtpFails, TypeOK, row
<1>7. ASSUME NEW s \in Senders, Requeue(s) PROVE TypeOK'
  <2>1. sender' \in [Senders -> Call]
    BY <1>7, CallSteps DEF Requeue
  <2>2. status' \in {"none", "pending", "sending", "sent"} /\ leaseLeft' \in 0 .. LeaseTime
    BY <1>7 DEF Requeue, TypeOK
  <2> QED
    BY <1>7, <2>1, <2>2 DEF Requeue, TypeOK, post
<1>8. ASSUME NEW s \in Senders, MarkSent(s) PROVE TypeOK'
  <2>1. sender' \in [Senders -> Call]
    BY <1>8, CallSteps DEF MarkSent
  <2>2. status' \in {"none", "pending", "sending", "sent"} /\ leaseLeft' \in 0 .. LeaseTime
    BY <1>8 DEF MarkSent, TypeOK
  <2>3. claimSent' \in BOOLEAN
    BY <1>8 DEF MarkSent, TypeOK
  <2> QED
    BY <1>8, <2>1, <2>2, <2>3 DEF MarkSent, TypeOK, post
<1>9. ASSUME NEW s \in Senders, Crash(s) PROVE TypeOK'
  <2>1. sender' \in [Senders -> Call]
    BY <1>9, CallSteps DEF Crash
  <2>2. faults' \in 0 .. MaxFaults
    BY <1>9 DEF Crash, TypeOK
  <2> QED
    BY <1>9, <2>1, <2>2 DEF Crash, TypeOK, post, row
<1>10. ASSUME NEW n \in Attempts, Establish(n) PROVE TypeOK'
  BY <1>10 DEF Establish, TypeOK, post, row
<1>11. CASE Tick
  <2>1. leaseLeft' \in 0 .. LeaseTime /\ links' \in [Attempts -> 0 .. LinkTime]
    BY <1>11, LessType DEF Tick, TypeOK
  <2>2. ASSUME NEW s \in Senders
        PROVE  sender'[s] \in Call
    <3>1. Less(sender[s].left) \in 0 .. SendTime
      BY LessType DEF TypeOK, Call
    <3> QED
      BY <1>11, <3>1 DEF Tick, TypeOK, Call
  <2>3. faults' \in 0 .. MaxFaults
    BY <1>11 DEF Tick, TypeOK
  <2> QED
    BY <1>11, <2>1, <2>2, <2>3 DEF Tick, TypeOK, post
<1>12. CASE UNCHANGED vars
  BY <1>12 DEF vars, row, post, TypeOK
<1> QED
  BY <1>1, <1>2, <1>3, <1>4, <1>5, <1>6, <1>7, <1>8, <1>9, <1>10, <1>11, <1>12
     DEF Next, Send

(* Every variable keeps its type. *)
THEOREM TypeCorrect == Spec => []TypeOK
<1>1. Init => TypeOK
  BY InitInv DEF IInv
<1> QED
  BY <1>1, TypeStep, PTL DEF Spec

-----------------------------------------------------------------------------
(* One lemma per action, one step per part of the invariant.               *)
LEMMA StartInv ==
  ASSUME IInv, TypeOK', NEW s \in Senders, Start(s)
  PROVE  IInv'
<1> USE DEF Start, Enqueued, post, IInv, TypeOK, Call, Idle
<1>1. Numbered'
  BY DEF Numbered
<1>2. SmtpHoldsLease'
  BY DEF SmtpHoldsLease
<1>3. OwnLease'
  BY DEF OwnLease
<1>4. MarkDelivered'
  BY DEF MarkDelivered, HoldsLease
<1>5. SentMeansArrived'
  BY DEF SentMeansArrived
<1>6. MailsBounded'
  BY DEF MailsBounded, Due, Delivered, Causes
<1> QED
  BY <1>1, <1>2, <1>3, <1>4, <1>5, <1>6, TypeOK'

LEMMA ResendInv ==
  ASSUME IInv, TypeOK', NEW s \in Senders, Resend(s)
  PROVE  IInv'
<1> USE DEF Resend, Resendable, post, IInv, TypeOK, Call, Idle
<1>1. Numbered'
  BY DEF Numbered
<1>2. SmtpHoldsLease'
  BY DEF SmtpHoldsLease
<1>3. OwnLease'
  BY DEF OwnLease
<1>4. MarkDelivered'
  BY DEF MarkDelivered, HoldsLease
<1>5. SentMeansArrived'
  BY DEF SentMeansArrived
<1>6. MailsBounded'
  BY DEF MailsBounded, Due, Delivered, Causes
<1> QED
  BY <1>1, <1>2, <1>3, <1>4, <1>5, <1>6, TypeOK'

LEMMA ClaimInv ==
  ASSUME IInv, TypeOK', NEW s \in Senders, Claim(s)
  PROVE  IInv'
<1> USE DEF Claim, Claimable, post, IInv, TypeOK, Call, Idle
<1>1. Numbered'
  BY DEF Numbered
<1>2. SmtpHoldsLease'
  BY PurchaseEmailAssumption DEF SmtpHoldsLease
<1>3. OwnLease'
  <2>1. \A t \in Senders : sender[t].lease < attempts + 1
    BY DEF Numbered
  <2>2. sender'[s].pc = "smtp" /\ sender'[s].lease = attempts + 1
        /\ \A t \in Senders \ {s} : sender'[t] = sender[t]
    OBVIOUS
  <2>3. lease' = attempts + 1
    OBVIOUS
  <2> QED
    BY <2>1, <2>2, <2>3 DEF OwnLease
<1>4. MarkDelivered'
  <2>1. \A t \in Senders : sender[t].lease < attempts + 1
    BY DEF Numbered
  <2>2. sender'[s].pc = "smtp" /\ \A t \in Senders \ {s} : sender'[t] = sender[t]
    OBVIOUS
  <2>3. lease' = attempts + 1
    OBVIOUS
  <2> QED
    BY <2>1, <2>2, <2>3 DEF MarkDelivered, HoldsLease
<1>5. SentMeansArrived'
  BY DEF SentMeansArrived
<1>6. MailsBounded'
  BY DEF MailsBounded, Due, Delivered, Causes
<1> QED
  BY <1>1, <1>2, <1>3, <1>4, <1>5, <1>6, TypeOK'

LEMMA NothingToSendInv ==
  ASSUME IInv, TypeOK', NEW s \in Senders, NothingToSend(s)
  PROVE  IInv'
<1> USE DEF NothingToSend, row, post, IInv, TypeOK, Call, Idle
<1>1. Numbered'
  BY DEF Numbered
<1>2. SmtpHoldsLease'
  BY DEF SmtpHoldsLease
<1>3. OwnLease'
  BY DEF OwnLease
<1>4. MarkDelivered'
  BY DEF MarkDelivered, HoldsLease
<1>5. SentMeansArrived'
  BY DEF SentMeansArrived
<1>6. MailsBounded'
  BY DEF MailsBounded, Due, Delivered, Causes
<1> QED
  BY <1>1, <1>2, <1>3, <1>4, <1>5, <1>6, TypeOK'

LEMMA SmtpInv ==
  ASSUME IInv, TypeOK', NEW s \in Senders, Smtp(s)
  PROVE  IInv'
<1> USE DEF Smtp, Arrive, row, IInv, TypeOK, Call, Idle
<1>1. Numbered'
  BY DEF Numbered
<1>2. SmtpHoldsLease'
  BY DEF SmtpHoldsLease
<1>3. OwnLease'
  BY DEF OwnLease
<1>4. MarkDelivered'
  BY DEF MarkDelivered, HoldsLease
<1>5. SentMeansArrived'
  BY DEF SentMeansArrived
<1>6. MailsBounded'
  <2>1. status = "sending" /\ lease = sender[s].lease /\ 0 < leaseLeft
    BY DEF SmtpHoldsLease
  <2>2. ~Delivered
    BY <2>1 DEF Delivered, OwnLease
  <2>3. Due
    BY <2>1, <2>2 DEF Due
  <2>4. sender'[s].pc = "mark" /\ sender'[s].lease = lease
    BY <2>1
  <2>5. Delivered'
    BY <2>1, <2>4 DEF Delivered
  <2>6. ~Due'
    BY <2>1, <2>5 DEF Due
  <2>7. Causes' = Causes /\ mails' = mails + 1
    BY DEF Causes
  <2> QED
    BY <2>3, <2>6, <2>7 DEF MailsBounded
<1> QED
  BY <1>1, <1>2, <1>3, <1>4, <1>5, <1>6, TypeOK'

LEMMA SmtpFailsInv ==
  ASSUME IInv, TypeOK', NEW s \in Senders, SmtpFails(s)
  PROVE  IInv'
<1> USE DEF SmtpFails, Arrive, row, post, IInv, TypeOK, Call, Idle
<1>1. Numbered'
  BY DEF Numbered
<1>2. SmtpHoldsLease'
  BY DEF SmtpHoldsLease
<1>3. OwnLease'
  <2>1. status = "sending" /\ status' = status /\ lease' = lease
    BY DEF SmtpHoldsLease
  <2>2. /\ sender'[s].lease = sender[s].lease
        /\ \A t \in Senders \ {s} : sender'[t] = sender[t]
    OBVIOUS
  <2> QED
    BY <2>1, <2>2 DEF OwnLease
<1>4. MarkDelivered'
  BY DEF MarkDelivered, HoldsLease
<1>5. SentMeansArrived'
  BY DEF SentMeansArrived
<1>6. MailsBounded'
  BY DEF MailsBounded, Due, Delivered, Causes
<1> QED
  BY <1>1, <1>2, <1>3, <1>4, <1>5, <1>6, TypeOK'

LEMMA RequeueInv ==
  ASSUME IInv, TypeOK', NEW s \in Senders, Requeue(s)
  PROVE  IInv'
<1> USE DEF Requeue, post, IInv, TypeOK, Call, Idle
<1>1. Numbered'
  BY DEF Numbered
<1>2. SmtpHoldsLease'
  <2>1. sender'[s] = Idle /\ \A t \in Senders \ {s} : sender'[t] = sender[t]
    OBVIOUS
  <2>2. \A t \in Senders \ {s} : sender[t].pc = "smtp" => sender[t].lease # sender[s].lease
    BY DEF OwnLease
  <2> QED
    BY <2>1, <2>2 DEF SmtpHoldsLease
<1>3. OwnLease'
  BY DEF OwnLease
<1>4. MarkDelivered'
  BY DEF MarkDelivered, HoldsLease
<1>5. SentMeansArrived'
  BY DEF SentMeansArrived
<1>6. MailsBounded'
  <2>1. sender'[s] = Idle /\ \A t \in Senders \ {s} : sender'[t] = sender[t]
    OBVIOUS
  <2>2. CASE lease = sender[s].lease
    <3>1. status = "sending" /\ ~Delivered
      BY <2>2 DEF OwnLease, Delivered
    <3> QED
      BY <2>2, <3>1 DEF MailsBounded, Due, Causes
  <2>3. CASE lease # sender[s].lease
    <3>1. Delivered' = Delivered
      BY <2>1, <2>3 DEF Delivered
    <3> QED
      BY <2>3, <3>1 DEF MailsBounded, Due, Causes
  <2> QED
    BY <2>2, <2>3
<1> QED
  BY <1>1, <1>2, <1>3, <1>4, <1>5, <1>6, TypeOK'

LEMMA MarkSentInv ==
  ASSUME IInv, TypeOK', NEW s \in Senders, MarkSent(s)
  PROVE  IInv'
<1> USE DEF MarkSent, HoldsLease, post, IInv, TypeOK, Call, Idle
<1>1. Numbered'
  BY DEF Numbered
<1>2. SmtpHoldsLease'
  <2>1. sender'[s] = Idle /\ \A t \in Senders \ {s} : sender'[t] = sender[t]
    OBVIOUS
  <2>2. \A t \in Senders \ {s} : sender[t].pc = "smtp" => sender[t].lease # sender[s].lease
    BY DEF OwnLease
  <2> QED
    BY <2>1, <2>2 DEF SmtpHoldsLease
<1>3. OwnLease'
  BY DEF OwnLease
<1>4. MarkDelivered'
  BY DEF MarkDelivered, HoldsLease
<1>5. SentMeansArrived'
  <2>1. HoldsLease(s) => ~owed
    BY DEF MarkDelivered
  <2> QED
    BY <2>1 DEF SentMeansArrived
<1>6. MailsBounded'
  BY DEF MailsBounded, Due, Delivered, Causes
<1> QED
  BY <1>1, <1>2, <1>3, <1>4, <1>5, <1>6, TypeOK'

LEMMA CrashInv ==
  ASSUME IInv, TypeOK', NEW s \in Senders, Crash(s)
  PROVE  IInv'
<1> USE DEF Crash, row, post, IInv, TypeOK, Call, Idle
<1>1. Numbered'
  BY DEF Numbered
<1>2. SmtpHoldsLease'
  BY DEF SmtpHoldsLease
<1>3. OwnLease'
  BY DEF OwnLease
<1>4. MarkDelivered'
  BY DEF MarkDelivered, HoldsLease
<1>5. SentMeansArrived'
  BY DEF SentMeansArrived
<1>6. MailsBounded'
  BY DEF MailsBounded, Due, Delivered, Causes
<1> QED
  BY <1>1, <1>2, <1>3, <1>4, <1>5, <1>6, TypeOK'

LEMMA EstablishInv ==
  ASSUME IInv, TypeOK', NEW n \in Attempts, Establish(n)
  PROVE  IInv'
<1> USE DEF Establish, row, post, IInv, TypeOK, Call, Idle
<1>1. Numbered'
  BY DEF Numbered
<1>2. SmtpHoldsLease'
  BY DEF SmtpHoldsLease
<1>3. OwnLease'
  BY DEF OwnLease
<1>4. MarkDelivered'
  BY DEF MarkDelivered, HoldsLease
<1>5. SentMeansArrived'
  BY DEF SentMeansArrived
<1>6. MailsBounded'
  BY DEF MailsBounded, Due, Delivered, Causes
<1> QED
  BY <1>1, <1>2, <1>3, <1>4, <1>5, <1>6, TypeOK'

LEMMA TickInv ==
  ASSUME IInv, TypeOK', Tick
  PROVE  IInv'
<1> USE DEF Tick, Outlived, Less, post, IInv, TypeOK, Call, Idle
<1>1. Numbered'
  BY DEF Numbered
<1>2. SmtpHoldsLease'
  BY DEF SmtpHoldsLease
<1>3. OwnLease'
  BY DEF OwnLease
<1>4. MarkDelivered'
  BY DEF MarkDelivered, HoldsLease
<1>5. SentMeansArrived'
  BY DEF SentMeansArrived
<1>6. MailsBounded'
  BY PurchaseEmailAssumption DEF MailsBounded, Due, Delivered, Causes
<1> QED
  BY <1>1, <1>2, <1>3, <1>4, <1>5, <1>6, TypeOK'

LEMMA InvStep == IInv /\ [Next]_vars => IInv'
<1> SUFFICES ASSUME IInv, [Next]_vars PROVE IInv'
  OBVIOUS
<1>1. TypeOK'
  BY TypeStep DEF IInv
<1>2. CASE Next
  BY <1>1, <1>2, StartInv, ResendInv, ClaimInv, NothingToSendInv, SmtpInv, SmtpFailsInv,
     RequeueInv, MarkSentInv, CrashInv, EstablishInv, TickInv
     DEF Next, Send
<1>3. CASE UNCHANGED vars
  BY <1>1, <1>3 DEF vars, row, post, IInv, Numbered, SmtpHoldsLease, OwnLease, MarkDelivered,
                    HoldsLease, SentMeansArrived, MailsBounded, Due, Delivered, Causes
<1> QED
  BY <1>2, <1>3

LEMMA Invariance == Spec => []IInv
BY InitInv, InvStep, PTL DEF Spec

(* The lease does prevent concurrent deliveries, as long as the mail       *)
(* server's time is shorter than the lease's.                              *)
THEOREM LeaseExcludes == Spec => []NoConcurrentDelivery
<1>1. IInv => NoConcurrentDelivery
  BY DEF IInv, SmtpHoldsLease, OwnLease, NoConcurrentDelivery
<1> QED
  BY <1>1, Invariance, PTL

(* No buyer is sent an e-mail twice without a reason.                      *)
THEOREM NoUnaskedDuplicates == Spec => []DuplicatesHaveACause
<1>1. IInv => DuplicatesHaveACause
  BY DEF IInv, TypeOK, MailsBounded, Causes, DuplicatesHaveACause
<1> QED
  BY <1>1, Invariance, PTL

(* What is marked sent has arrived.                                        *)
THEOREM SentArrived == Spec => []SentMeansArrived
<1>1. IInv => SentMeansArrived
  BY DEF IInv
<1> QED
  BY <1>1, Invariance, PTL

-----------------------------------------------------------------------------
(* What arrives, or is about to, carries a link that an attempt issued.    *)
LinksIssuedOnly ==
  /\ mailbox \subseteq Attempts
  /\ \A s \in Senders : sender[s].pc = "smtp" => sender[s].lease \in Attempts

LEMMA LinksIssuedOnlyStep == TypeOK /\ LinksIssuedOnly /\ [Next]_vars => LinksIssuedOnly'
<1> SUFFICES ASSUME TypeOK, LinksIssuedOnly, [Next]_vars PROVE LinksIssuedOnly'
  OBVIOUS
<1> USE BoundType
<1>a. sender \in [Senders -> Call]
  BY DEF TypeOK
<1>1. ASSUME NEW s \in Senders, Claim(s) PROVE LinksIssuedOnly'
  <2>1. sender'[s].lease \in Attempts /\ \A t \in Senders \ {s} : sender'[t] = sender[t]
    BY <1>1, <1>a DEF Claim, Attempts, TypeOK
  <2> QED
    BY <1>1, <2>1 DEF Claim, LinksIssuedOnly, post
<1>2. ASSUME NEW s \in Senders, Smtp(s) \/ SmtpFails(s) PROVE LinksIssuedOnly'
  <2>1. mailbox' \subseteq mailbox \cup {sender[s].lease} /\ sender[s].lease \in Attempts
    BY <1>2 DEF Smtp, SmtpFails, Arrive, post, LinksIssuedOnly
  <2>2. sender'[s].pc # "smtp" /\ \A t \in Senders \ {s} : sender'[t] = sender[t]
    BY <1>2, <1>a DEF Smtp, SmtpFails, Call
  <2> QED
    BY <2>1, <2>2 DEF LinksIssuedOnly
<1>3. ASSUME NEW s \in Senders,
             \/ Start(s) \/ Resend(s) \/ NothingToSend(s)
             \/ Requeue(s) \/ MarkSent(s) \/ Crash(s)
      PROVE  LinksIssuedOnly'
  <2>1. sender'[s].pc # "smtp" /\ \A t \in Senders \ {s} : sender'[t] = sender[t]
    BY <1>3, <1>a DEF Start, Resend, NothingToSend, Requeue, MarkSent, Crash, Idle, Call
  <2>2. mailbox' = mailbox
    BY <1>3 DEF Start, Resend, NothingToSend, Requeue, MarkSent, Crash, post
  <2> QED
    BY <2>1, <2>2 DEF LinksIssuedOnly
<1>4. ASSUME NEW n \in Attempts, Establish(n) PROVE LinksIssuedOnly'
  BY <1>4 DEF Establish, LinksIssuedOnly, post
<1>5. ASSUME Tick PROVE LinksIssuedOnly'
  <2>1. mailbox' = mailbox
    BY <1>5 DEF Tick, post
  <2>2. \A t \in Senders : sender'[t].pc = sender[t].pc /\ sender'[t].lease = sender[t].lease
    BY <1>5, <1>a DEF Tick, Call
  <2> QED
    BY <2>1, <2>2 DEF LinksIssuedOnly
<1>6. ASSUME UNCHANGED vars PROVE LinksIssuedOnly'
  BY <1>6 DEF vars, LinksIssuedOnly, post
<1> QED
  BY <1>1, <1>2, <1>3, <1>4, <1>5, <1>6 DEF Next, Send

(* No attempt, resend, failure or crash cuts a delivered link short: only  *)
(* time and the account's first password do.                               *)
THEOREM LinksAreKept == Spec => LinksKeepWorking
<1> DEFINE A == \A n \in mailbox : Usable(n) /\ ~password' => links'[n] >= links[n] - 1
<1>1. Init => TypeOK /\ LinksIssuedOnly
  BY InitInv DEF IInv, Init, LinksIssuedOnly, Idle
<1>2. TypeOK /\ LinksIssuedOnly /\ [Next]_vars => A
  <2> SUFFICES ASSUME TypeOK, LinksIssuedOnly, [Next]_vars, NEW n \in mailbox, ~password'
               PROVE  links'[n] >= links[n] - 1
    OBVIOUS
  <2> USE PurchaseEmailAssumption
  <2>1. n \in Attempts /\ links[n] \in Nat /\ links[n] <= LinkTime
    BY DEF LinksIssuedOnly, TypeOK
  <2>2. CASE links' = links
    BY <2>1, <2>2
  <2>3. ASSUME NEW s \in Senders, Claim(s) PROVE links'[n] >= links[n] - 1
    BY <2>1, <2>3 DEF Claim, LinksIssued, TypeOK
  <2>4. CASE Tick
    BY <2>1, <2>4 DEF Tick, Less
  <2>5. links' = links \/ Tick \/ \E s \in Senders : Claim(s)
    BY DEF Next, vars, Send, Start, Resend, NothingToSend, Smtp, SmtpFails, Requeue, MarkSent,
           Crash, Establish
  <2> QED
    BY <2>2, <2>3, <2>4, <2>5
<1>3. TypeOK /\ LinksIssuedOnly /\ [Next]_vars => (TypeOK /\ LinksIssuedOnly)'
  BY TypeStep, LinksIssuedOnlyStep
<1> QED
  BY <1>1, <1>2, <1>3, PTL DEF Spec, LinksKeepWorking
=============================================================================
