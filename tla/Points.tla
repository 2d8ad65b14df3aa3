------------------------------- MODULE Points -------------------------------
(***************************************************************************)
(* The Cedar Points ledger (server/cedar_press/priorities.py) over         *)
(* PostgresStore, as several seats of one subscription use it at once.     *)
(*                                                                         *)
(* Every route that moves points is two transactions: accrue (the month's  *)
(* credit, then the write-off of what is EXPIRY_MONTHS old) and then       *)
(* allocate or submit_request.  A transaction is two actions here, its     *)
(* reads under the account's advisory lock and its commit, so that another *)
(* seat may act in between unless the lock stops it.                       *)
(*                                                                         *)
(* The append-only ledger is kept as the sums the code asks it for:        *)
(*   earned[a][m]  monthly_activity rows of a with month <= m              *)
(*   spent[a]      minus the allocation and refund rows                    *)
(*   expired[a]    minus the expiration rows                               *)
(* and credited is the unique index on (account_id, month).                *)
(***************************************************************************)
EXTENDS Integers, FiniteSets

CONSTANTS
  Accounts,      \* subscriptions (account_id)
  Seats,         \* people acting, each on one account
  AccountOf,     \* [Seats -> Accounts]
  Seeded,        \* priorities in the store
  Ids,           \* priority ids a request may name, known or not
  Rates,         \* POINTS_PER_ACTIVE_MONTH over the tiers a seat may hold, 0 for none
  MaxMonth,      \* bound: months are 0 .. MaxMonth
  ExpiryMonths,  \* EXPIRY_MONTHS
  MaxMove,       \* bound: points moved by one request
  MaxRequests,   \* bound: request rows per account
  None           \* nobody holds the lock; a request that names no priority

ASSUME PointsAssumption ==
  /\ AccountOf \in [Seats -> Accounts]
  /\ Rates \subseteq Nat
  /\ MaxMonth \in Nat
  /\ ExpiryMonths \in Nat \ {0}
  /\ MaxMove \in Nat
  /\ MaxRequests \in Nat
  /\ None \notin Seats \cup Ids
  /\ Seeded \subseteq Ids

VARIABLES
  month,      \* the calendar month, month_of()
  earned, credited, spent, expired,   \* the ledger
  alloc,      \* cedar_press_allocations; 0 is "no row"
  requests,   \* number of rows in cedar_press_requests
  lock,       \* pg_advisory_xact_lock per account
  seat        \* what each seat's request is doing

ledger == <<earned, credited, spent, expired>>
vars == <<month, earned, credited, spent, expired, alloc, requests, lock, seat>>

Months == 0 .. MaxMonth
Moves == (-MaxMove .. MaxMove) \ {0}

EarnedBy(a, m) == IF m < 0 THEN 0 ELSE earned[a][m]
Earned(a) == earned[a][MaxMonth]
Balance(a) == Earned(a) - spent[a] - expired[a]

(* The credits that are too old in month m to be spendable. *)
OldCredits(a, m) == EarnedBy(a, m - ExpiryMonths)

(* Mutant of Expirable: what was spent does not count against old credits. *)
ExpirableIgnoresSpending(a, m) ==
  LET x == OldCredits(a, m) - expired[a]
  IN  IF x <= 0 THEN 0 ELSE x

(* What _expire writes off in month m. *)
Expirable(a, m) ==
  LET x == OldCredits(a, m) - spent[a] - expired[a]
  IN  IF x <= 0 THEN 0 ELSE x

Idle == [pc |-> "idle"]

Request == [op : {"card", "move", "submit"}, id : Ids \cup {None}, points : Int, rate : Rates]

SeatState ==
  {Idle}
  \cup [pc : {"accrue"}, req : Request, month : Months]
  \cup [pc : {"accruing"}, req : Request, month : Months, credit : Nat, expire : Nat]
  \cup [pc : {"spend"}, req : Request, month : Months]
  \cup [pc : {"spending"}, req : Request, month : Months, balance : Int, held : Nat]

TypeOK ==
  /\ month \in Months
  /\ earned \in [Accounts -> [Months -> Nat]]
  /\ credited \subseteq Accounts \X Months
  /\ spent \in [Accounts -> Int]
  /\ expired \in [Accounts -> Nat]
  /\ alloc \in [Accounts -> [Seeded -> Nat]]
  /\ requests \in [Accounts -> Nat]
  /\ lock \in [Accounts -> Seats \cup {None}]
  /\ seat \in [Seats -> SeatState]

Init ==
  /\ month = 0
  /\ earned = [a \in Accounts |-> [m \in Months |-> 0]]
  /\ credited = {}
  /\ spent = [a \in Accounts |-> 0]
  /\ expired = [a \in Accounts |-> 0]
  /\ alloc = [a \in Accounts |-> [p \in Seeded |-> 0]]
  /\ requests = [a \in Accounts |-> 0]
  /\ lock = [a \in Accounts |-> None]
  /\ seat = [s \in Seats |-> Idle]

-----------------------------------------------------------------------------
(* Mutant of CanHold: read-then-write with no advisory lock. *)
CanHoldUnlocked(a) == TRUE

(* hold() waits for the account's lock and keeps it to the end of the      *)
(* transaction.                                                            *)
CanHold(a) == lock[a] = None
Hold(s) == lock' = [lock EXCEPT ![AccountOf[s]] = s]
Release(s) ==
  lock' = [a \in Accounts |-> IF lock[a] = s THEN None ELSE lock[a]]

Become(s, state) == seat' = [seat EXCEPT ![s] = state]

(* The bound MaxRequests counts the submissions under way. *)
Submitting(a) ==
  Cardinality({s \in Seats : /\ AccountOf[s] = a
                             /\ seat[s] # Idle
                             /\ seat[s].req.op = "submit"})

(* A route is called.  "card" is /me and /press/influence, which only      *)
(* accrue; month_of() is read before accrue waits for its lock.            *)
Call(s) ==
  /\ seat[s] = Idle
  /\ \E op \in {"card", "move", "submit"}, id \in Ids \cup {None}, n \in Moves \cup {0}, r \in Rates :
       /\ op = "card" => n = 0 /\ id = None
       /\ op = "move" => n # 0 /\ id # None
       /\ op = "submit" => n >= 0 /\ (n > 0 => id # None)
       /\ op = "submit" => requests[AccountOf[s]] + Submitting(AccountOf[s]) < MaxRequests
       /\ Become(s, [pc |-> "accrue", month |-> month,
                     req |-> [op |-> op, id |-> id, points |-> n, rate |-> r]])
  /\ UNCHANGED <<month, ledger, alloc, requests, lock>>

(* INSERT ... ON CONFLICT DO NOTHING of the month's credit. *)
CreditFor(a, m, rate) == IF <<a, m>> \in credited THEN 0 ELSE rate

(* accrue up to its commit: the credit the unique index lets in, and the   *)
(* sums _expire reads.                                                     *)
AccrueRead(s) ==
  LET a == AccountOf[s]
      m == seat[s].month
      rate == seat[s].req.rate
  IN  /\ seat[s].pc = "accrue"
      /\ CanHold(a)
      /\ Hold(s)
      /\ Become(s, [pc |-> "accruing", req |-> seat[s].req, month |-> m,
                    credit |-> CreditFor(a, m, rate),
                    expire |-> Expirable(a, m)])
      /\ UNCHANGED <<month, ledger, alloc, requests>>

(* accrue commits: the credit, and the expiration row when there is one. *)
AccrueCommit(s) ==
  LET a == AccountOf[s]
      m == seat[s].month
  IN  /\ seat[s].pc = "accruing"
      /\ credited' = IF seat[s].credit > 0 THEN credited \cup {<<a, m>>} ELSE credited
      /\ earned' = [earned EXCEPT ![a] =
           [k \in Months |-> IF k >= m THEN @[k] + seat[s].credit ELSE @[k]]]
      /\ expired' = [expired EXCEPT ![a] = @ + seat[s].expire]
      /\ Release(s)
      /\ Become(s, IF seat[s].req.op = "card" THEN Idle
                   ELSE [pc |-> "spend", req |-> seat[s].req, month |-> m])
      /\ UNCHANGED <<month, spent, alloc, requests>>

(* Mutant of SubmitPlain: the request row commits before the nested        *)
(* allocate decides.                                                       *)
SubmitBeforeAllocate(s) ==
  /\ seat[s].pc = "spend"
  /\ seat[s].req.op = "submit"
  /\ seat[s].req.id \in Seeded \cup {None}
  /\ requests' = [requests EXCEPT ![AccountOf[s]] = @ + 1]
  /\ Become(s, Idle)
  /\ UNCHANGED <<month, ledger, alloc, lock>>

(* submit_request without support points: the request row alone. *)
SubmitPlain(s) ==
  /\ seat[s].pc = "spend"
  /\ seat[s].req.op = "submit"
  /\ seat[s].req.points = 0
  /\ seat[s].req.id \in Seeded \cup {None}
  /\ requests' = [requests EXCEPT ![AccountOf[s]] = @ + 1]
  /\ Become(s, Idle)
  /\ UNCHANGED <<month, ledger, alloc, lock>>

(* allocate up to its commit.  submit_request calls it inside its own      *)
(* transaction, so its request row is still uncommitted here.              *)
SpendRead(s) ==
  LET a == AccountOf[s]
      id == seat[s].req.id
  IN  /\ seat[s].pc = "spend"
      /\ seat[s].req.points # 0
      /\ id \in Seeded
      /\ CanHold(a)
      /\ Hold(s)
      /\ Become(s, [pc |-> "spending", req |-> seat[s].req, month |-> seat[s].month,
                    balance |-> Balance(a), held |-> alloc[a][id]])
      /\ UNCHANGED <<month, ledger, alloc, requests>>

(* The refusals of allocate: not enough points, or fewer points held than  *)
(* are taken back.                                                         *)
Refused(n, balance, held) ==
  \/ n > 0 /\ n > balance
  \/ n < 0 /\ -n > held

(* Mutant of NewPoints: the upsert overwrites what was there. *)
NewPointsOverwrite(a, id, n) == n

(* The allocations upsert: points = points + excluded.points. *)
NewPoints(a, id, n) == alloc[a][id] + n

(* allocate commits: a ledger row, the allocations row, and the request    *)
(* row of the submit_request around it.                                    *)
SpendCommit(s) ==
  LET a == AccountOf[s]
      req == seat[s].req
  IN  /\ seat[s].pc = "spending"
      /\ ~Refused(req.points, seat[s].balance, seat[s].held)
      /\ spent' = [spent EXCEPT ![a] = @ + req.points]
      /\ alloc' = [alloc EXCEPT ![a][req.id] = NewPoints(a, req.id, req.points)]
      /\ requests' = IF req.op = "submit" THEN [requests EXCEPT ![a] = @ + 1] ELSE requests
      /\ Release(s)
      /\ Become(s, Idle)
      /\ UNCHANGED <<month, earned, credited, expired>>

(* PointsError: the transaction rolls back, its request row included. *)
Refuse(s) ==
  /\ \/ /\ seat[s].pc = "spending"
        /\ Refused(seat[s].req.points, seat[s].balance, seat[s].held)
     \/ /\ seat[s].pc = "spend"
        /\ seat[s].req.id \notin Seeded \cup {None}
  /\ Release(s)
  /\ Become(s, Idle)
  /\ UNCHANGED <<month, ledger, alloc, requests>>

(* The process dies or the connection drops: an open transaction rolls     *)
(* back and its lock goes with it.                                         *)
Crash(s) ==
  /\ seat[s] # Idle
  /\ Release(s)
  /\ Become(s, Idle)
  /\ UNCHANGED <<month, ledger, alloc, requests>>

(* A request lasts seconds: it may straddle one month boundary, not two. *)
NextMonth ==
  /\ month < MaxMonth
  /\ \A s \in Seats : seat[s] # Idle => seat[s].month = month
  /\ month' = month + 1
  /\ UNCHANGED <<ledger, alloc, requests, lock, seat>>

Next ==
  \/ NextMonth
  \/ \E s \in Seats :
       \/ Call(s) \/ AccrueRead(s) \/ AccrueCommit(s)
       \/ SubmitPlain(s) \/ SpendRead(s) \/ SpendCommit(s)
       \/ Refuse(s) \/ Crash(s)

Spec == Init /\ [][Next]_vars

-----------------------------------------------------------------------------
(* The points an account's allocations hold, one by one. *)
Held(a) == UNION {{p} \X (1 .. alloc[a][p]) : p \in Seeded}

(* A balance is never negative: no two seats spend the same points, and    *)
(* nothing that was spent is also written off.                             *)
NeverOverspent == \A a \in Accounts : Balance(a) >= 0

(* The derived allocations table explains the ledger: what an account has  *)
(* spent, net of refunds, is what its allocations hold.                    *)
AllocationsExplainSpending == \A a \in Accounts : spent[a] = Cardinality(Held(a))

(* A month earns once per subscription, whoever signs in first and however *)
(* often: what a month added is one seat's rate.                           *)
MonthEarnsOnce ==
  \A a \in Accounts, m \in Months :
    EarnedBy(a, m) - EarnedBy(a, m - 1) \in Rates \cup {0}

(* Points are never written off within ExpiryMonths of being earned.       *)
OnlyOldPointsExpire == \A a \in Accounts : expired[a] <= EarnedBy(a, month - ExpiryMonths)

(* What the ledger's three tables say of an account fits together: what was *)
(* earned is one rate a month, what was spent is what is allocated, what    *)
(* was written off is old (priorities.py accrue, allocate).                 *)
LedgerIsExplained == AllocationsExplainSpending /\ MonthEarnsOnce /\ OnlyOldPointsExpire

(* Spending consumes the oldest points first: when accrue writes points    *)
(* off, what is left is all that was earned since the cutoff, so spending  *)
(* came out of the older points.                                           *)
OldestSpentFirst ==
  [][\A s \in Seats :
       LET a == AccountOf[s] IN
       lock[a] = s /\ expired'[a] > expired[a]
         => Balance(a)' = Earned(a)' - EarnedBy(a, seat[s].month - ExpiryMonths)]_vars

(* A stored request that offered support has its points on the priority,   *)
(* and a refused or interrupted one leaves neither.                        *)
RequestWithItsSupport ==
  [][\A s \in Seats :
       LET a == AccountOf[s] IN
       requests'[a] # requests[a] /\ seat'[s] # seat[s] /\ seat[s].req.points > 0
         => alloc'[a][seat[s].req.id] = alloc[a][seat[s].req.id] + seat[s].req.points]_vars

(* The module's docstring: points "expire twelve months after the month     *)
(* they were earned if unspent, oldest spent first".  Within one month, a  *)
(* request that put points on a priority would then never spend a point    *)
(* that its own accrue had to write off.  It does: accrue and allocate are *)
(* two transactions, and a second seat may take old points back between.   *)
ExpiredPointsAreNotSpent ==
  [][\A s \in Seats :
       LET a == AccountOf[s] IN
       /\ seat[s].pc = "spending" /\ seat[s].month = month
       /\ spent'[a] > spent[a] /\ lock[a] = s
       => spent[a] + expired[a] >= EarnedBy(a, month - ExpiryMonths)]_vars
=============================================================================
