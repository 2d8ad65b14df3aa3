---------------------------- MODULE PurchaseEmail ----------------------------
(***************************************************************************)
(* The e-mail a completed purchase owes its buyer                          *)
(* (billing/services/purchase_email.py) with the setup link it carries     *)
(* (accounts/services/setup.py) and the buyer's request for another        *)
(* (CheckoutService.resend).                                               *)
(*                                                                         *)
(* One checkout and its row of cedar_press_account_email_deliveries.       *)
(* Webhook threads, the repair command and resend requests all run         *)
(* send_claim, which talks to the mail server with no transaction open: a  *)
(* lease on the row stands in for the lock.  A lease is the number of the  *)
(* attempt that took it, and attempt n issues link n.                      *)
(*                                                                         *)
(* Time is counted down, in ticks; a lease or a link with 0 ticks left has *)
(* run out.                                                                *)
(*                                                                         *)
(* As in BillingReconciler, a definition that stands before another and    *)
(* extends or turns its name is a faulty version the model does not use.   *)
(***************************************************************************)
EXTENDS Integers

CONSTANTS
  Senders,       \* threads and commands that call send_claim
  LeaseTime,     \* ticks after which lease_until < now(): 2 minutes
  SendTime,      \* ticks the mail server may take (10 seconds per operation)
  LinkTime,      \* ticks a setup link lives: 1 hour
  MaxResends,    \* bound: requests for another e-mail
  MaxFaults      \* bound: failed sends, crashes, attempts that outlive their lease

ASSUME PurchaseEmailAssumption ==
  /\ LeaseTime \in Nat \ {0}
  /\ SendTime \in 0 .. LeaseTime - 1
  /\ LinkTime \in Nat \ {0}
  /\ MaxResends \in Nat
  /\ MaxFaults \in Nat

(* Every attempt has a cause (DuplicatesHaveACause): one more than the     *)
(* causes there can be is bound enough.                                    *)
MaxAttempts == MaxResends + MaxFaults + 2
Attempts == 1 .. MaxAttempts

VARIABLES
  status,     \* the delivery row: "none" (no row), "pending", "sending", "sent"
  lease,      \* lease_id
  leaseLeft,  \* lease_until
  attempts,   \* how many leases were taken
  claimSent,  \* claim_sent_at of the checkout is set
  password,   \* the account has credentials
  links,      \* [Attempts -> Nat]: ticks each unused setup link has left
  mailbox,    \* attempts whose e-mail arrived with a setup link
  mails,      \* e-mails that arrived
  sender,     \* what each caller is doing
  resends, faults,
  legacy,     \* claim_sent_at was set by a release before the delivery queue
  owed        \* no e-mail arrived since the purchase or the last granted request

row == <<status, lease, leaseLeft>>
post == <<mailbox, mails>>
vars == <<status, lease, leaseLeft, attempts, claimSent, password, links, mailbox,
          mails, sender, resends, faults, legacy, owed>>

(* A call of send_claim: its step, its lease, whether the e-mail carries a *)
(* setup link, and what the mail server may still take.                    *)
Call == [pc : {"idle", "claim", "smtp", "failed", "mark"}, lease : 0 .. MaxAttempts,
         link : BOOLEAN, left : 0 .. SendTime]

Idle == [pc |-> "idle", lease |-> 0, link |-> FALSE, left |-> 0]

TypeOK ==
  /\ status \in {"none", "pending", "sending", "sent"}
  /\ lease \in 0 .. MaxAttempts
  /\ leaseLeft \in 0 .. LeaseTime
  /\ attempts \in 0 .. MaxAttempts
  /\ claimSent \in BOOLEAN
  /\ password \in BOOLEAN
  /\ links \in [Attempts -> 0 .. LinkTime]
  /\ mailbox \subseteq 0 .. MaxAttempts
  /\ mails \in Nat
  /\ sender \in [Senders -> Call]
  /\ resends \in 0 .. MaxResends
  /\ faults \in 0 .. MaxFaults
  /\ legacy \in BOOLEAN
  /\ owed \in BOOLEAN

(* The checkout is complete.  An account may have had credentials before   *)
(* the purchase.                                                           *)
Init ==
  /\ status = "none" /\ lease = 0 /\ leaseLeft = 0 /\ attempts = 0
  /\ claimSent \in BOOLEAN
  /\ password \in BOOLEAN
  /\ links = [n \in Attempts |-> 0]
  /\ mailbox = {} /\ mails = 0
  /\ sender = [s \in Senders |-> Idle]
  /\ resends = 0 /\ faults = 0
  /\ legacy = claimSent
  /\ owed = ~claimSent

-----------------------------------------------------------------------------
(* send_claim: the row is inserted unless there is one or the e-mail went  *)
(* out before there were rows.                                             *)
EnqueuedOverwriting == IF ~legacy /\ status \in {"none", "sent"} THEN "pending" ELSE status
Enqueued == IF status = "none" /\ ~claimSent THEN "pending" ELSE status

Start(s) ==
  /\ sender[s].pc = "idle"
  /\ status' = Enqueued
  /\ sender' = [sender EXCEPT ![s].pc = "claim"]
  /\ UNCHANGED <<lease, leaseLeft, attempts, claimSent, password, links, post, resends,
                 faults, legacy, owed>>

(* The lease is taken and the link issued in one transaction. *)
ClaimablePendingOnly == status = "pending"
Claimable == status = "pending" \/ (status = "sending" /\ leaseLeft = 0)

LinksRevoked(n) == [m \in Attempts |-> IF m = n THEN LinkTime ELSE 0]
LinksIssued(n) == [links EXCEPT ![n] = LinkTime]

Claim(s) ==
  LET n == attempts + 1 IN
  /\ sender[s].pc = "claim"
  /\ Claimable
  /\ n <= MaxAttempts
  /\ status' = "sending" /\ lease' = n /\ leaseLeft' = LeaseTime
  /\ attempts' = n
  /\ links' = IF password THEN links ELSE LinksIssued(n)
  /\ sender' = [sender EXCEPT ![s] =
                  [pc |-> "smtp", lease |-> n, link |-> ~password, left |-> SendTime]]
  /\ UNCHANGED <<claimSent, password, post, resends, faults, legacy, owed>>

NothingToSend(s) ==
  /\ sender[s].pc = "claim"
  /\ ~Claimable
  /\ sender' = [sender EXCEPT ![s] = Idle]
  /\ UNCHANGED <<row, attempts, claimSent, password, links, post, resends, faults,
                 legacy, owed>>

Arrive(s) ==
  /\ mailbox' = IF sender[s].link THEN mailbox \cup {sender[s].lease} ELSE mailbox
  /\ mails' = mails + 1
  /\ owed' = FALSE

(* send_link: the mail server takes the e-mail. *)
Smtp(s) ==
  /\ sender[s].pc = "smtp"
  /\ Arrive(s)
  /\ sender' = [sender EXCEPT ![s].pc = "mark", ![s].left = 0]
  /\ UNCHANGED <<row, attempts, claimSent, password, links, resends, faults, legacy>>

(* send_link raises, also when the connection breaks after the e-mail was  *)
(* taken.                                                                  *)
SmtpFails(s) ==
  /\ sender[s].pc = "smtp"
  /\ faults < MaxFaults
  /\ Arrive(s) \/ UNCHANGED <<post, owed>>
  /\ sender' = [sender EXCEPT ![s].pc = "failed", ![s].left = 0]
  /\ faults' = faults + 1
  /\ UNCHANGED <<row, attempts, claimSent, password, links, resends, legacy>>

(* The row goes back to the queue if the lease is still the sender's. *)
Requeue(s) ==
  /\ sender[s].pc = "failed"
  /\ IF lease = sender[s].lease
     THEN status' = "pending" /\ leaseLeft' = 0
     ELSE UNCHANGED <<status, leaseLeft>>
  /\ sender' = [sender EXCEPT ![s] = Idle]
  /\ UNCHANGED <<lease, attempts, claimSent, password, links, post, resends, faults,
                 legacy, owed>>

HoldsLease(s) == lease = sender[s].lease /\ status = "sending"

MarkSent(s) ==
  /\ sender[s].pc = "mark"
  /\ IF HoldsLease(s)
     THEN status' = "sent" /\ leaseLeft' = 0 /\ claimSent' = TRUE
     ELSE UNCHANGED <<status, leaseLeft, claimSent>>
  /\ sender' = [sender EXCEPT ![s] = Idle]
  /\ UNCHANGED <<lease, attempts, password, links, post, resends, faults, legacy, owed>>

Crash(s) ==
  /\ sender[s].pc # "idle"
  /\ faults < MaxFaults
  /\ sender' = [sender EXCEPT ![s] = Idle]
  /\ faults' = faults + 1
  /\ UNCHANGED <<row, attempts, claimSent, password, links, post, resends, legacy, owed>>

(* request_resend, and then send_claim in the same request. *)
Resendable == status \in {"none", "sent"}

Resend(s) ==
  /\ sender[s].pc = "idle"
  /\ resends < MaxResends
  /\ IF Resendable THEN status' = "pending" /\ owed' = TRUE ELSE UNCHANGED <<status, owed>>
  /\ sender' = [sender EXCEPT ![s].pc = "claim"]
  /\ resends' = resends + 1
  /\ UNCHANGED <<lease, leaseLeft, attempts, claimSent, password, links, post, faults, legacy>>

(* confirm: a link that is unused and not expired sets the first password  *)
(* and uses up every link of the account.                                  *)
Usable(n) == links[n] > 0 /\ ~password

Establish(n) ==
  /\ n \in mailbox
  /\ Usable(n)
  /\ password' = TRUE
  /\ links' = [m \in Attempts |-> 0]
  /\ UNCHANGED <<row, attempts, claimSent, post, sender, resends, faults, legacy, owed>>

(* Time passes, but not past what the mail server may take.  A sender that *)
(* is alive when its lease runs out is a fault.                            *)
Outlived ==
  /\ status = "sending" /\ leaseLeft = 1
  /\ \E s \in Senders : sender[s].lease = lease /\ sender[s].pc # "idle"

Less(n) == IF n = 0 THEN 0 ELSE n - 1

Tick ==
  /\ \A s \in Senders : sender[s].pc = "smtp" => sender[s].left > 0
  /\ Outlived => faults < MaxFaults
  /\ faults' = IF Outlived THEN faults + 1 ELSE faults
  /\ leaseLeft' = Less(leaseLeft)
  /\ links' = [n \in Attempts |-> Less(links[n])]
  /\ sender' = [s \in Senders |-> [sender[s] EXCEPT !.left = Less(@)]]
  /\ UNCHANGED <<status, lease, attempts, claimSent, password, post, resends, legacy, owed>>

Send(s) ==
  \/ Claim(s) \/ NothingToSend(s) \/ Smtp(s) \/ Requeue(s) \/ MarkSent(s)

Next ==
  \/ \E s \in Senders : Start(s) \/ Resend(s) \/ Send(s) \/ SmtpFails(s) \/ Crash(s)
  \/ \E n \in Attempts : Establish(n)
  \/ Tick

Spec == Init /\ [][Next]_vars

(* A call under way goes on, time passes, and send_claim is called again   *)
(* now and then, by a duplicate webhook or the repair command.             *)
FairSpec ==
  /\ Spec
  /\ WF_vars(Tick)
  /\ \A s \in Senders : WF_vars(Send(s)) /\ WF_vars(Start(s))

-----------------------------------------------------------------------------
(* "A lease prevents concurrent deliveries without holding a transaction   *)
(* during SMTP" (migration 009): two callers never talk to the mail server *)
(* for one purchase at once.                                               *)
NoConcurrentDelivery ==
  \A s, t \in Senders : sender[s].pc = "smtp" /\ sender[t].pc = "smtp" => s = t

(* A buyer gets a second e-mail only after asking for it, or because an    *)
(* earlier attempt failed, died or outlived its lease.                     *)
DuplicatesHaveACause == mails <= (IF legacy THEN 0 ELSE 1) + resends + faults

(* A row marked sent means that an e-mail arrived since the purchase or    *)
(* the last request: a sender that lost its lease cannot mark another's.   *)
SentMeansArrived == status = "sent" => ~owed

(* An attempt never revokes the links of earlier ones: a setup link that   *)
(* arrived works until it expires or the account is established.           *)
LinksKeepWorking ==
  [][\A n \in mailbox : Usable(n) /\ ~password' => links'[n] >= links[n] - 1]_vars

(* The e-mail arrives in the end, and so does the one a buyer asks for     *)
(* again.                                                                  *)
EmailArrives == (owed ~> ~owed) /\ (status = "pending" ~> status = "sent")
=============================================================================
