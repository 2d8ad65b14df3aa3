---------------------------- MODULE PointsProofs ----------------------------
(***************************************************************************)
(* Proofs about the Cedar Points ledger, for any accounts, seats, months,  *)
(* rates and expiry.  The invariants are not inductive alone: what a seat  *)
(* commits was computed at its read, so IInv adds that the advisory lock   *)
(* keeps a reader's snapshot equal to the ledger until it commits.         *)
(***************************************************************************)
EXTENDS Points, FiniteSetTheorems, TLAPS

(* The lock belongs to the seat whose transaction is open, on its own      *)
(* account.                                                                *)
LockInv ==
  \A s \in Seats :
    /\ seat[s].pc \in {"accruing", "spending"} => lock[AccountOf[s]] = s
    /\ \A a \in Accounts : lock[a] = s => a = AccountOf[s]

(* What an open transaction read is still what the ledger says. *)
SnapshotInv ==
  \A s \in Seats :
    LET a == AccountOf[s] IN
    /\ seat[s].pc = "accruing" =>
         /\ seat[s].credit = CreditFor(a, seat[s].month, seat[s].req.rate)
         /\ seat[s].expire = Expirable(a, seat[s].month)
    /\ seat[s].pc = "spending" =>
         /\ seat[s].req.id \in Seeded
         /\ seat[s].balance = Balance(a)
         /\ seat[s].held = alloc[a][seat[s].req.id]

(* The sums "month <= m" grow with m. *)
EarnedGrows ==
  \A a \in Accounts : \A k, m \in Months : k <= m => earned[a][k] <= earned[a][m]

IInv == TypeOK /\ LockInv /\ SnapshotInv /\ EarnedGrows /\ NeverOverspent

-----------------------------------------------------------------------------
(* A seat's record by the step its request has reached. *)
LEMMA SeatCases ==
  ASSUME NEW r \in SeatState
  PROVE  /\ r.pc \in {"idle", "accrue", "accruing", "spend", "spending"}
         /\ r.pc # "idle" => r.req \in Request
         /\ r.pc = "idle" => r = Idle
         /\ r.pc = "accrue" => r.month \in Months
         /\ r.pc = "accruing" => r.month \in Months /\ r.credit \in Nat /\ r.expire \in Nat
         /\ r.pc = "spend" => r.month \in Months
         /\ r.pc = "spending" => r.month \in Months /\ r.balance \in Int /\ r.held \in Nat
BY DEF SeatState, Idle

(* Old credits are part of all credits. *)
LEMMA OldCreditsBounded ==
  ASSUME TypeOK, EarnedGrows, NEW a \in Accounts, NEW m \in Months
  PROVE  /\ OldCredits(a, m) \in Nat
         /\ OldCredits(a, m) <= Earned(a)
         /\ Earned(a) \in Nat
BY PointsAssumption DEF OldCredits, EarnedBy, Earned, TypeOK, EarnedGrows, Months

LEMMA ExpirableType ==
  ASSUME TypeOK, EarnedGrows, NEW a \in Accounts, NEW m \in Months
  PROVE  Expirable(a, m) \in Nat
BY OldCreditsBounded DEF Expirable, TypeOK

LEMMA InitInv == Init => IInv
<1> SUFFICES ASSUME Init PROVE IInv
  OBVIOUS
<1>1. TypeOK
  BY PointsAssumption DEF Init, TypeOK, SeatState, Idle, Months
<1>2. LockInv
  BY PointsAssumption DEF Init, LockInv, Idle
<1>3. SnapshotInv
  BY DEF Init, SnapshotInv, Idle
<1>4. EarnedGrows
  BY DEF Init, EarnedGrows
<1>5. NeverOverspent
  BY PointsAssumption DEF Init, NeverOverspent, Balance, Earned, Months
<1> QED
  BY <1>1, <1>2, <1>3, <1>4, <1>5 DEF IInv

-----------------------------------------------------------------------------
(* Types are preserved.  AccrueCommit and SpendCommit need the snapshot:   *)
(* what they add was computed under the lock.                              *)
LEMMA TypePreserved == IInv /\ [Next]_vars => TypeOK'
<1> SUFFICES ASSUME IInv, [Next]_vars PROVE TypeOK'
  OBVIOUS
<1> USE PointsAssumption DEF IInv
<1>a. \A t \in Seats : seat[t] \in SeatState /\ AccountOf[t] \in Accounts
  BY DEF TypeOK
<1>1. ASSUME NextMonth PROVE TypeOK'
  BY <1>1 DEF NextMonth, TypeOK, Months, ledger
<1>2. ASSUME NEW s \in Seats, Call(s) PROVE TypeOK'
  <2>1. PICK op \in {"card", "move", "submit"}, id \in Ids \cup {None},
             n \in Moves \cup {0}, r \in Rates :
          seat' = [seat EXCEPT ![s] = [pc |-> "accrue", month |-> month,
                     req |-> [op |-> op, id |-> id, points |-> n, rate |-> r]]]
    BY <1>2 DEF Call, Become
  <2>2. n \in Int
    BY DEF Moves
  <2>3. [pc |-> "accrue", month |-> month,
         req |-> [op |-> op, id |-> id, points |-> n, rate |-> r]] \in SeatState
    BY <2>2 DEF SeatState, Request, TypeOK
  <2>4. seat' \in [Seats -> SeatState]
    BY <2>1, <2>3 DEF TypeOK
  <2> QED
    BY <1>2, <2>4 DEF Call, TypeOK, ledger
<1>3. ASSUME NEW s \in Seats, AccrueRead(s) PROVE TypeOK'
  <2>1. seat[s].month \in Months /\ seat[s].req \in Request
    BY <1>a, <1>3, SeatCases DEF AccrueRead
  <2>2. CreditFor(AccountOf[s], seat[s].month, seat[s].req.rate) \in Nat
    BY <2>1 DEF CreditFor, Request
  <2>3. Expirable(AccountOf[s], seat[s].month) \in Nat
    BY <1>a, <2>1, ExpirableType
  <2>4. [pc |-> "accruing", req |-> seat[s].req, month |-> seat[s].month,
         credit |-> CreditFor(AccountOf[s], seat[s].month, seat[s].req.rate),
         expire |-> Expirable(AccountOf[s], seat[s].month)] \in SeatState
    BY <2>1, <2>2, <2>3 DEF SeatState
  <2>5. seat' \in [Seats -> SeatState]
    BY <1>3, <2>4 DEF AccrueRead, Become, TypeOK
  <2>6. lock' \in [Accounts -> Seats \cup {None}]
    BY <1>3 DEF AccrueRead, Hold, TypeOK
  <2> QED
    BY <1>3, <2>5, <2>6 DEF AccrueRead, TypeOK, ledger
<1>4. ASSUME NEW s \in Seats, AccrueCommit(s) PROVE TypeOK'
  <2>1. /\ seat[s].month \in Months
        /\ seat[s].credit \in Nat
        /\ seat[s].expire \in Nat
        /\ seat[s].req \in Request
    BY <1>a, <1>4, SeatCases DEF AccrueCommit
  <2>2. credited' \subseteq Accounts \X Months
    BY <1>a, <1>4, <2>1 DEF AccrueCommit, TypeOK
  <2>3. earned' \in [Accounts -> [Months -> Nat]]
    BY <1>a, <1>4, <2>1 DEF AccrueCommit, TypeOK
  <2>4. expired' \in [Accounts -> Nat]
    BY <1>a, <1>4, <2>1 DEF AccrueCommit, TypeOK
  <2>5. lock' \in [Accounts -> Seats \cup {None}]
    BY <1>4 DEF AccrueCommit, Release, TypeOK
  <2>6. /\ Idle \in SeatState
        /\ [pc |-> "spend", req |-> seat[s].req, month |-> seat[s].month] \in SeatState
    BY <2>1 DEF SeatState
  <2>7. seat' \in [Seats -> SeatState]
    BY <1>4, <2>6 DEF AccrueCommit, Become, TypeOK
  <2> QED
    BY <1>4, <2>2, <2>3, <2>4, <2>5, <2>7 DEF AccrueCommit, TypeOK
<1>5. ASSUME NEW s \in Seats, SubmitPlain(s) PROVE TypeOK'
  <2>1. seat' \in [Seats -> SeatState]
    BY <1>5 DEF SubmitPlain, Become, TypeOK, SeatState
  <2> QED
    BY <1>a, <1>5, <2>1 DEF SubmitPlain, TypeOK, ledger
<1>6. ASSUME NEW s \in Seats, SpendRead(s) PROVE TypeOK'
  <2>1. seat[s].month \in Months /\ seat[s].req \in Request
    BY <1>a, <1>6, SeatCases DEF SpendRead
  <2>2. Balance(AccountOf[s]) \in Int
    BY <1>a, OldCreditsBounded DEF Balance, Earned, TypeOK, Months
  <2>3. alloc[AccountOf[s]][seat[s].req.id] \in Nat
    BY <1>a, <1>6 DEF SpendRead, TypeOK
  <2>4. [pc |-> "spending", req |-> seat[s].req, month |-> seat[s].month,
         balance |-> Balance(AccountOf[s]),
         held |-> alloc[AccountOf[s]][seat[s].req.id]] \in SeatState
    BY <2>1, <2>2, <2>3 DEF SeatState
  <2>5. seat' \in [Seats -> SeatState]
    BY <1>6, <2>4 DEF SpendRead, Become, TypeOK
  <2>6. lock' \in [Accounts -> Seats \cup {None}]
    BY <1>6 DEF SpendRead, Hold, TypeOK
  <2> QED
    BY <1>6, <2>5, <2>6 DEF SpendRead, TypeOK, ledger
<1>7. ASSUME NEW s \in Seats, SpendCommit(s) PROVE TypeOK'
  <2> DEFINE a == AccountOf[s]
             req == seat[s].req
  <2>1. req.points \in Int /\ a \in Accounts
    BY <1>a, <1>7, SeatCases DEF SpendCommit, Request
  <2>2. req.id \in Seeded /\ seat[s].held = alloc[a][req.id]
    BY <1>7 DEF SpendCommit, SnapshotInv
  <2>3. alloc[a][req.id] + req.points \in Nat
    <3>1. alloc[a][req.id] \in Nat
      BY <2>1, <2>2 DEF TypeOK
    <3>2. ~(req.points < 0 /\ -req.points > alloc[a][req.id])
      BY <1>7, <2>2 DEF SpendCommit, Refused
    <3> QED
      BY <2>1, <3>1, <3>2
  <2>4. alloc' \in [Accounts -> [Seeded -> Nat]]
    BY <1>7, <2>1, <2>2, <2>3 DEF SpendCommit, NewPoints, TypeOK
  <2>5. spent' \in [Accounts -> Int]
    BY <1>7, <2>1 DEF SpendCommit, TypeOK
  <2>6. requests' \in [Accounts -> Nat]
    BY <1>7, <2>1 DEF SpendCommit, TypeOK
  <2>7. lock' \in [Accounts -> Seats \cup {None}]
    BY <1>7 DEF SpendCommit, Release, TypeOK
  <2>8. seat' \in [Seats -> SeatState]
    BY <1>7 DEF SpendCommit, Become, TypeOK, SeatState
  <2> QED
    BY <1>7, <2>4, <2>5, <2>6, <2>7, <2>8 DEF SpendCommit, TypeOK
<1>8. ASSUME NEW s \in Seats, Refuse(s) \/ Crash(s) PROVE TypeOK'
  <2>1. seat' \in [Seats -> SeatState]
    BY <1>8 DEF Refuse, Crash, Become, TypeOK, SeatState
  <2>2. lock' \in [Accounts -> Seats \cup {None}]
    BY <1>8 DEF Refuse, Crash, Release, TypeOK
  <2> QED
    BY <1>8, <2>1, <2>2 DEF Refuse, Crash, TypeOK, ledger
<1>9. ASSUME UNCHANGED vars PROVE TypeOK'
  BY <1>9 DEF vars, TypeOK
<1> QED
  BY <1>1, <1>2, <1>3, <1>4, <1>5, <1>6, <1>7, <1>8, <1>9 DEF Next

(* Only a seat that held the lock, or found it free, changes the account's *)
(* ledger, so nobody else's open transaction is disturbed.                 *)
LEMMA LockPreserved == IInv /\ [Next]_vars => LockInv'
<1> SUFFICES ASSUME IInv, [Next]_vars PROVE LockInv'
  OBVIOUS
<1> USE PointsAssumption DEF IInv
<1>a. \A t \in Seats : AccountOf[t] \in Accounts
  OBVIOUS
<1>b. lock \in [Accounts -> Seats \cup {None}] /\ seat \in [Seats -> SeatState]
  BY DEF TypeOK
<1>1. ASSUME NextMonth PROVE LockInv'
  BY <1>1 DEF NextMonth, LockInv
<1>2. ASSUME NEW s \in Seats, Call(s) PROVE LockInv'
  BY <1>2, <1>b DEF Call, Become, LockInv
<1>3. ASSUME NEW s \in Seats, AccrueRead(s) \/ SpendRead(s) PROVE LockInv'
  <2>1. /\ lock[AccountOf[s]] = None
        /\ lock' = [lock EXCEPT ![AccountOf[s]] = s]
    BY <1>3 DEF AccrueRead, SpendRead, CanHold, Hold
  <2>2. \A t \in Seats : t # s => seat'[t] = seat[t]
    BY <1>3, <1>b DEF AccrueRead, SpendRead, Become
  <2> QED
    BY <1>a, <1>b, <2>1, <2>2 DEF LockInv
<1>4. ASSUME NEW s \in Seats, AccrueCommit(s) \/ SpendCommit(s) \/ Refuse(s) \/ Crash(s)
      PROVE  LockInv'
  <2>1. \A c \in Accounts : lock'[c] = IF lock[c] = s THEN None ELSE lock[c]
    BY <1>4 DEF AccrueCommit, SpendCommit, Refuse, Crash, Release
  <2>2. \A t \in Seats : t # s => seat'[t] = seat[t]
    BY <1>4, <1>b DEF AccrueCommit, SpendCommit, Refuse, Crash, Become
  <2>3. seat'[s].pc \notin {"accruing", "spending"}
    BY <1>4, <1>b DEF AccrueCommit, SpendCommit, Refuse, Crash, Become, Idle
  <2> QED
    BY <1>a, <2>1, <2>2, <2>3 DEF LockInv
<1>5. ASSUME NEW s \in Seats, SubmitPlain(s) PROVE LockInv'
  BY <1>5, <1>b DEF SubmitPlain, Become, LockInv, Idle
<1>6. ASSUME UNCHANGED vars PROVE LockInv'
  BY <1>6 DEF vars, LockInv
<1> QED
  BY <1>1, <1>2, <1>3, <1>4, <1>5, <1>6 DEF Next

(* Two open transactions are never on the same account. *)
LEMMA OpenAlone ==
  ASSUME LockInv, NEW s \in Seats, NEW t \in Seats,
         seat[s].pc \in {"accruing", "spending"}, t # s,
         seat[t].pc \in {"accruing", "spending"}
  PROVE  AccountOf[s] # AccountOf[t]
BY DEF LockInv

LEMMA SnapshotPreserved == IInv /\ [Next]_vars => SnapshotInv'
<1> SUFFICES ASSUME IInv, [Next]_vars PROVE SnapshotInv'
  OBVIOUS
<1> USE PointsAssumption DEF IInv
<1> DEFINE Sums(a) == /\ earned'[a] = earned[a]
                      /\ spent'[a] = spent[a]
                      /\ expired'[a] = expired[a]
                      /\ alloc'[a] = alloc[a]
                      /\ \A m \in Months : <<a, m>> \in credited' <=> <<a, m>> \in credited
           Kept(t) == seat'[t] = seat[t] \/ seat'[t].pc \notin {"accruing", "spending"}
           Good(t) == LET a == AccountOf[t] IN
             /\ seat[t].pc = "accruing" =>
                  /\ seat[t].credit = CreditFor(a, seat[t].month, seat[t].req.rate)
                  /\ seat[t].expire = Expirable(a, seat[t].month)
             /\ seat[t].pc = "spending" =>
                  /\ seat[t].req.id \in Seeded
                  /\ seat[t].balance = Balance(a)
                  /\ seat[t].held = alloc[a][seat[t].req.id]
<1>a. /\ \A t \in Seats : AccountOf[t] \in Accounts /\ seat[t] \in SeatState
      /\ seat \in [Seats -> SeatState]
  BY DEF TypeOK
<1>b. ASSUME NEW t \in Seats, Sums(AccountOf[t]), Kept(t) PROVE Good(t)'
  <2>1. CASE seat'[t].pc \notin {"accruing", "spending"}
    BY <2>1
  <2>2. CASE seat'[t] = seat[t] /\ seat[t].pc = "accruing"
    <3>1. seat[t].month \in Months
      BY <1>a, <2>2, SeatCases
    <3>2. CreditFor(AccountOf[t], seat[t].month, seat[t].req.rate)'
            = CreditFor(AccountOf[t], seat[t].month, seat[t].req.rate)
      BY <1>b, <2>2, <3>1 DEF CreditFor
    <3>3. Expirable(AccountOf[t], seat[t].month)' = Expirable(AccountOf[t], seat[t].month)
      BY <1>b, <2>2 DEF Expirable, OldCredits, EarnedBy
    <3> QED
      BY <2>2, <3>2, <3>3 DEF SnapshotInv
  <2>3. CASE seat'[t] = seat[t] /\ seat[t].pc = "spending"
    <3>1. Balance(AccountOf[t])' = Balance(AccountOf[t])
      BY <1>b DEF Balance, Earned
    <3> QED
      BY <1>b, <2>3, <3>1 DEF SnapshotInv
  <2> QED
    BY <1>b, <2>1, <2>2, <2>3
<1>c. (\A t \in Seats : Good(t)') => SnapshotInv'
  BY DEF SnapshotInv
<1> HIDE DEF Good
<1>1. ASSUME NextMonth \/ UNCHANGED vars PROVE SnapshotInv'
  <2>1. \A t \in Seats : Sums(AccountOf[t]) /\ Kept(t)
    BY <1>1 DEF NextMonth, ledger, vars
  <2> QED
    BY <1>b, <1>c, <2>1
<1>2. ASSUME NEW s \in Seats, Call(s) \/ SubmitPlain(s) \/ Refuse(s) \/ Crash(s)
      PROVE  SnapshotInv'
  <2>1. \A t \in Seats : Sums(AccountOf[t])
    BY <1>2 DEF Call, SubmitPlain, Refuse, Crash, ledger
  <2>2. \A t \in Seats : Kept(t)
    BY <1>2, <1>a DEF Call, SubmitPlain, Refuse, Crash, Become, Idle
  <2> QED
    BY <1>b, <1>c, <2>1, <2>2
<1>3. ASSUME NEW s \in Seats, AccrueRead(s) PROVE SnapshotInv'
  <2>1. \A t \in Seats : Sums(AccountOf[t])
    BY <1>3 DEF AccrueRead, ledger
  <2>2. \A t \in Seats \ {s} : Kept(t)
    BY <1>3, <1>a DEF AccrueRead, Become
  <2>3. seat'[s] = [pc |-> "accruing", req |-> seat[s].req, month |-> seat[s].month,
                    credit |-> CreditFor(AccountOf[s], seat[s].month, seat[s].req.rate),
                    expire |-> Expirable(AccountOf[s], seat[s].month)]
    BY <1>3, <1>a DEF AccrueRead, Become
  <2>4. Good(s)'
    BY <1>3, <2>3 DEF Good, AccrueRead, CreditFor, Expirable, OldCredits, EarnedBy, ledger
  <2> QED
    BY <1>b, <1>c, <2>1, <2>2, <2>4
<1>4. ASSUME NEW s \in Seats, SpendRead(s) PROVE SnapshotInv'
  <2>1. \A t \in Seats : Sums(AccountOf[t])
    BY <1>4 DEF SpendRead, ledger
  <2>2. \A t \in Seats \ {s} : Kept(t)
    BY <1>4, <1>a DEF SpendRead, Become
  <2>3. seat'[s] = [pc |-> "spending", req |-> seat[s].req, month |-> seat[s].month,
                    balance |-> Balance(AccountOf[s]),
                    held |-> alloc[AccountOf[s]][seat[s].req.id]]
    BY <1>4, <1>a DEF SpendRead, Become
  <2>4. Good(s)'
    BY <1>4, <2>3 DEF Good, SpendRead, Balance, Earned, ledger
  <2> QED
    BY <1>b, <1>c, <2>1, <2>2, <2>4
<1>5. ASSUME NEW s \in Seats, AccrueCommit(s) \/ SpendCommit(s) PROVE SnapshotInv'
  <2>1. seat[s].pc \in {"accruing", "spending"}
    BY <1>5 DEF AccrueCommit, SpendCommit
  <2>2. Kept(s) /\ \A t \in Seats \ {s} : seat'[t] = seat[t]
    BY <1>5, <1>a DEF AccrueCommit, SpendCommit, Become, Idle
  <2>3. \A a \in Accounts : a # AccountOf[s] => Sums(a)
    BY <1>5, <1>a DEF AccrueCommit, SpendCommit, TypeOK
  <2>4. ASSUME NEW t \in Seats PROVE Good(t)'
    <3>1. CASE seat'[t].pc \notin {"accruing", "spending"}
      BY <3>1 DEF Good
    <3>2. CASE t # s /\ seat'[t].pc \in {"accruing", "spending"}
      BY <1>a, <1>b, <2>1, <2>2, <2>3, <3>2, OpenAlone
    <3>3. seat'[s].pc \notin {"accruing", "spending"}
      BY <1>5, <1>a DEF AccrueCommit, SpendCommit, Become, Idle
    <3> QED
      BY <3>1, <3>2, <3>3
  <2> QED
    BY <1>c, <2>4
<1> QED
  BY <1>1, <1>2, <1>3, <1>4, <1>5 DEF Next

LEMMA EarnedGrowsPreserved == IInv /\ [Next]_vars => EarnedGrows'
<1> SUFFICES ASSUME IInv, [Next]_vars PROVE EarnedGrows'
  OBVIOUS
<1> USE PointsAssumption DEF IInv
<1>1. ASSUME NEW s \in Seats, AccrueCommit(s) PROVE EarnedGrows'
  <2>1. seat[s].month \in Months /\ seat[s].credit \in Nat
    BY <1>1, SeatCases DEF AccrueCommit, TypeOK
  <2>2. \A a \in Accounts, k \in Months :
          earned'[a][k] = IF a = AccountOf[s] /\ k >= seat[s].month
                          THEN earned[a][k] + seat[s].credit ELSE earned[a][k]
    BY <1>1 DEF AccrueCommit, TypeOK
  <2>3. \A a \in Accounts, k \in Months : earned[a][k] \in Nat
    BY DEF TypeOK
  <2> QED
    BY <2>1, <2>2, <2>3 DEF EarnedGrows, Months
<1>2. ASSUME earned' = earned PROVE EarnedGrows'
  BY <1>2 DEF EarnedGrows
<1>3. earned' = earned \/ \E s \in Seats : AccrueCommit(s)
  BY DEF Next, vars, ledger, NextMonth, Call, AccrueRead, SubmitPlain, SpendRead,
         SpendCommit, Refuse, Crash
<1> QED
  BY <1>1, <1>2, <1>3

(* A credit only adds; a write-off takes what is old and unspent, which    *)
(* leaves at least what was earned since; a debit takes no more than the   *)
(* balance its own transaction read.                                       *)
LEMMA NeverOverspentPreserved == IInv /\ [Next]_vars => NeverOverspent'
<1> SUFFICES ASSUME IInv, [Next]_vars PROVE NeverOverspent'
  OBVIOUS
<1> USE PointsAssumption DEF IInv
<1>a. \A a \in Accounts : /\ Earned(a) \in Nat /\ spent[a] \in Int /\ expired[a] \in Nat
                          /\ Balance(a) = Earned(a) - spent[a] - expired[a]
                          /\ Balance(a) >= 0
  BY OldCreditsBounded DEF TypeOK, Earned, Balance, Months, NeverOverspent
<1>1. ASSUME NEW s \in Seats, AccrueCommit(s) PROVE NeverOverspent'
  <2> DEFINE a == AccountOf[s]
             m == seat[s].month
  <2>1. a \in Accounts /\ m \in Months /\ seat[s].credit \in Nat
    BY <1>1, SeatCases DEF AccrueCommit, TypeOK
  <2>2. seat[s].expire = Expirable(a, m)
    BY <1>1 DEF AccrueCommit, SnapshotInv
  <2>3. Expirable(a, m) <= Balance(a)
    BY <1>a, <2>1, OldCreditsBounded DEF Expirable
  <2>4. Expirable(a, m) \in Nat
    BY <2>1, ExpirableType
  <2>5. \A c \in Accounts : /\ Earned(c)' = IF c = a THEN Earned(c) + seat[s].credit ELSE Earned(c)
                            /\ expired'[c] = IF c = a THEN expired[c] + seat[s].expire ELSE expired[c]
                            /\ spent'[c] = spent[c]
    BY <1>1, <2>1 DEF AccrueCommit, TypeOK, Earned, Months
  <2> QED
    BY <1>a, <2>1, <2>2, <2>3, <2>4, <2>5 DEF NeverOverspent, Balance
<1>2. ASSUME NEW s \in Seats, SpendCommit(s) PROVE NeverOverspent'
  <2> DEFINE a == AccountOf[s]
             n == seat[s].req.points
  <2>1. a \in Accounts /\ n \in Int
    BY <1>2, SeatCases DEF SpendCommit, TypeOK, Request
  <2>2. n <= Balance(a)
    <3>1. seat[s].balance = Balance(a)
      BY <1>2 DEF SpendCommit, SnapshotInv
    <3>2. ~(n > 0 /\ n > Balance(a))
      BY <1>2, <3>1 DEF SpendCommit, Refused
    <3> QED
      BY <1>a, <2>1, <3>2
  <2>3. \A c \in Accounts : /\ Earned(c)' = Earned(c)
                            /\ expired'[c] = expired[c]
                            /\ spent'[c] = IF c = a THEN spent[c] + n ELSE spent[c]
    BY <1>2, <2>1 DEF SpendCommit, TypeOK, Earned
  <2> QED
    BY <1>a, <2>1, <2>2, <2>3 DEF NeverOverspent, Balance
<1>3. ASSUME UNCHANGED ledger PROVE NeverOverspent'
  BY <1>a, <1>3 DEF ledger, NeverOverspent, Balance, Earned
<1>4. UNCHANGED ledger \/ \E s \in Seats : AccrueCommit(s) \/ SpendCommit(s)
  BY DEF Next, vars, ledger, NextMonth, Call, AccrueRead, SubmitPlain, SpendRead, Refuse, Crash
<1> QED
  BY <1>1, <1>2, <1>3, <1>4

-----------------------------------------------------------------------------
LEMMA Invariance == Spec => []IInv
<1>1. IInv /\ [Next]_vars => IInv'
  BY TypePreserved, LockPreserved, SnapshotPreserved, EarnedGrowsPreserved,
     NeverOverspentPreserved DEF IInv
<1> QED
  BY InitInv, <1>1, PTL DEF Spec

(* Every reachable state is well typed; in particular the allocations      *)
(* table never holds a negative number of points.                          *)
THEOREM TypeCorrect == Spec => []TypeOK
<1>1. IInv => TypeOK
  BY DEF IInv
<1> QED
  BY Invariance, <1>1, PTL

(* No interleaving of seats, months and crashes overdraws an account. *)
THEOREM BalanceNeverNegative == Spec => []NeverOverspent
<1>1. IInv => NeverOverspent
  BY DEF IInv
<1> QED
  BY Invariance, <1>1, PTL

(* Whatever is written off leaves exactly what was earned since the cutoff *)
(* of the month that accrue captured: spending came out of older points.   *)
THEOREM WriteOffsAreOldest == Spec => OldestSpentFirst
<1> DEFINE A == \A s \in Seats :
       LET a == AccountOf[s] IN
       lock[a] = s /\ expired'[a] > expired[a]
         => Balance(a)' = Earned(a)' - EarnedBy(a, seat[s].month - ExpiryMonths)
<1>1. IInv /\ [Next]_vars => A
  <2> SUFFICES ASSUME IInv, [Next]_vars, NEW s \in Seats,
                      lock[AccountOf[s]] = s,
                      expired'[AccountOf[s]] > expired[AccountOf[s]]
               PROVE  Balance(AccountOf[s])' = Earned(AccountOf[s])'
                        - EarnedBy(AccountOf[s], seat[s].month - ExpiryMonths)
    OBVIOUS
  <2> USE PointsAssumption DEF IInv
  <2> DEFINE a == AccountOf[s]
             m == seat[s].month
  <2>1. a \in Accounts /\ expired[a] \in Nat /\ spent[a] \in Int
    BY DEF TypeOK
  <2>2. expired' # expired
    BY <2>1
  <2>3. PICK t \in Seats : AccrueCommit(t)
    BY <2>2 DEF Next, vars, ledger, NextMonth, Call, AccrueRead, SubmitPlain, SpendRead,
         SpendCommit, Refuse, Crash
  <2>4. t = s
    <3>1. lock[AccountOf[t]] = t
      BY <2>3 DEF AccrueCommit, LockInv
    <3>2. AccountOf[t] # a => expired'[a] = expired[a]
      BY <2>1, <2>3 DEF AccrueCommit, TypeOK
    <3> QED
      BY <2>1, <3>1, <3>2
  <2>5. m \in Months /\ seat[s].credit \in Nat /\ seat[s].expire = Expirable(a, m)
    BY <2>3, <2>4, SeatCases DEF AccrueCommit, TypeOK, SnapshotInv
  <2>6. /\ Earned(a)' = Earned(a) + seat[s].credit
        /\ expired'[a] = expired[a] + Expirable(a, m)
        /\ spent'[a] = spent[a]
    BY <2>1, <2>3, <2>4, <2>5 DEF AccrueCommit, TypeOK, Earned, Months
  <2>7. OldCredits(a, m) \in Nat /\ Earned(a) \in Nat
    BY <2>1, <2>5, OldCreditsBounded
  <2>8. Expirable(a, m) = OldCredits(a, m) - spent[a] - expired[a]
    BY <2>1, <2>6, <2>7 DEF Expirable
  <2>9. Balance(a)' = Earned(a)' - OldCredits(a, m)
    BY <2>1, <2>6, <2>7, <2>8, <2>5 DEF Balance
  <2> QED
    BY <2>9 DEF OldCredits
<1> QED
  BY Invariance, <1>1, PTL DEF Spec, OldestSpentFirst

-----------------------------------------------------------------------------
(* What each month added, and that only a month in the unique index added  *)
(* anything.                                                               *)
MonthInv ==
  \A a \in Accounts, m \in Months :
    /\ EarnedBy(a, m) - EarnedBy(a, m - 1) \in Rates \cup {0}
    /\ <<a, m>> \notin credited => EarnedBy(a, m) - EarnedBy(a, m - 1) = 0

LEMMA MonthPreserved == IInv /\ MonthInv /\ [Next]_vars => MonthInv'
<1> SUFFICES ASSUME IInv, MonthInv, [Next]_vars PROVE MonthInv'
  OBVIOUS
<1> USE PointsAssumption DEF IInv
<1>1. ASSUME NEW s \in Seats, AccrueCommit(s) PROVE MonthInv'
  <2> DEFINE b == AccountOf[s]
             n == seat[s].month
             x == seat[s].credit
  <2>1. b \in Accounts /\ n \in Months /\ x \in Nat /\ seat[s].req \in Request
    BY <1>1, SeatCases DEF AccrueCommit, TypeOK
  <2>2. x = CreditFor(b, n, seat[s].req.rate)
    BY <1>1 DEF AccrueCommit, SnapshotInv
  <2>3. x > 0 => <<b, n>> \notin credited /\ x \in Rates
    BY <2>1, <2>2 DEF CreditFor, Request
  <2>4. \A a \in Accounts, k \in Months :
          earned'[a][k] = IF a = b /\ k >= n THEN earned[a][k] + x ELSE earned[a][k]
    BY <1>1 DEF AccrueCommit, TypeOK
  <2>5. \A a \in Accounts, k \in Months : earned[a][k] \in Nat
    BY DEF TypeOK
  <2>6. \A p : p \in credited' <=> p \in credited \/ (p = <<b, n>> /\ x > 0)
    BY <1>1 DEF AccrueCommit
  <2>7. ASSUME NEW a \in Accounts, NEW m \in Months
        PROVE  /\ (EarnedBy(a, m) - EarnedBy(a, m - 1))' \in Rates \cup {0}
               /\ <<a, m>> \notin credited' => (EarnedBy(a, m) - EarnedBy(a, m - 1))' = 0
    <3> DEFINE d == EarnedBy(a, m) - EarnedBy(a, m - 1)
    <3>1. d \in Rates \cup {0} /\ (<<a, m>> \notin credited => d = 0)
      BY DEF MonthInv
    <3>2. m - 1 >= 0 => m - 1 \in Months
      BY DEF Months
    <3>3. CASE a = b /\ m = n /\ x > 0
      <4>1. d = 0
        BY <2>3, <3>1, <3>3
      <4>2. d' = d + x
        BY <2>1, <2>4, <2>5, <3>2, <3>3 DEF EarnedBy, Months
      <4>3. <<a, m>> \in credited'
        BY <2>6, <3>3
      <4> QED
        BY <2>1, <2>3, <3>3, <4>1, <4>2, <4>3
    <3>4. CASE ~(a = b /\ m = n /\ x > 0)
      <4>1. d' = d
        BY <2>1, <2>4, <2>5, <3>2, <3>4 DEF EarnedBy, Months
      <4>2. <<a, m>> \notin credited' => <<a, m>> \notin credited
        BY <2>6
      <4> QED
        BY <3>1, <4>1, <4>2
    <3> QED
      BY <3>3, <3>4
  <2> QED
    BY <2>7 DEF MonthInv
<1>2. ASSUME earned' = earned, credited' = credited PROVE MonthInv'
  BY <1>2 DEF MonthInv, EarnedBy
<1>3. (earned' = earned /\ credited' = credited) \/ \E s \in Seats : AccrueCommit(s)
  BY DEF Next, vars, ledger, NextMonth, Call, AccrueRead, SubmitPlain, SpendRead,
         SpendCommit, Refuse, Crash
<1> QED
  BY <1>1, <1>2, <1>3

(* However many seats sign in, at whatever moment, and whichever of them   *)
(* crash, a month is credited at most once and at one seat's rate.         *)
THEOREM OneCreditPerMonth == Spec => []MonthEarnsOnce
<1>1. Init => MonthInv
  BY PointsAssumption DEF Init, MonthInv, EarnedBy, Months
<1>2. MonthInv => MonthEarnsOnce
  BY DEF MonthInv, MonthEarnsOnce
<1> QED
  BY Invariance, MonthPreserved, <1>1, <1>2, PTL DEF Spec

-----------------------------------------------------------------------------
(* The points an account holds can be counted, and their number is what    *)
(* the ledger says was spent.                                              *)
HeldInv == \A a \in Accounts : IsFiniteSet(Held(a)) /\ spent[a] = Cardinality(Held(a))

(* What was written off is old now, and no request is of a later month.    *)
OldInv ==
  /\ \A a \in Accounts : expired[a] <= EarnedBy(a, month - ExpiryMonths)
  /\ \A s \in Seats : seat[s].pc # "idle" => seat[s].month <= month

(* n points of priority p, numbered on from i.                             *)
Numbered(p, i, n) == {p} \X (i + 1 .. i + n)

LEMMA NumberedCount ==
  ASSUME NEW p, NEW i \in Int, NEW n \in Nat
  PROVE  /\ IsFiniteSet(Numbered(p, i, n))
         /\ Cardinality(Numbered(p, i, n)) = n
<1>1. IsFiniteSet({p}) /\ Cardinality({p}) = 1
  BY FS_Singleton
<1>2. IsFiniteSet(i + 1 .. i + n) /\ Cardinality(i + 1 .. i + n) = n
  BY FS_Interval
<1>3. /\ IsFiniteSet({p} \X (i + 1 .. i + n))
      /\ Cardinality({p} \X (i + 1 .. i + n)) = Cardinality({p}) * Cardinality(i + 1 .. i + n)
  BY <1>1, <1>2, FS_Product
<1> QED
  BY <1>1, <1>2, <1>3 DEF Numbered

(* A set and a disjoint addition to it.                                    *)
LEMMA DisjointSum ==
  ASSUME NEW S, NEW T, IsFiniteSet(S), IsFiniteSet(T), S \cap T = {}
  PROVE  /\ IsFiniteSet(S \cup T)
         /\ Cardinality(S \cup T) = Cardinality(S) + Cardinality(T)
<1>1. Cardinality({}) = 0 /\ Cardinality(S) \in Nat /\ Cardinality(T) \in Nat
  BY FS_EmptySet, FS_CardinalityType
<1>2. /\ IsFiniteSet(S \cup T)
      /\ Cardinality(S \cup T) = Cardinality(S) + Cardinality(T) - Cardinality(S \cap T)
  BY FS_Union
<1>3. Cardinality(S \cap T) = 0
  BY <1>1
<1> QED
  BY <1>1, <1>2, <1>3

(* A part taken away.                                                      *)
LEMMA PartTaken ==
  ASSUME NEW S, NEW T, IsFiniteSet(S), T \subseteq S
  PROVE  /\ IsFiniteSet(S \ T)
         /\ Cardinality(S \ T) = Cardinality(S) - Cardinality(T)
<1>1. S \cap T = T
  OBVIOUS
<1>2. /\ IsFiniteSet(S \ T)
      /\ Cardinality(S \ T) = Cardinality(S) - Cardinality(S \cap T)
  BY FS_Difference
<1> QED
  BY <1>1, <1>2

(* Points moved to a priority are numbered on from the last it held; points *)
(* taken back are the last ones.  Either way their number is what the      *)
(* ledger row says.                                                        *)
LEMMA HeldMoved ==
  ASSUME TypeOK, NEW a \in Accounts, NEW p \in Seeded, NEW n \in Int,
         alloc[a][p] + n \in Nat, IsFiniteSet(Held(a)),
         alloc'[a] = [alloc[a] EXCEPT ![p] = alloc[a][p] + n]
  PROVE  /\ IsFiniteSet(Held(a)')
         /\ Cardinality(Held(a)') = Cardinality(Held(a)) + n
<1> DEFINE x == alloc[a][p]
           Added == Numbered(p, x, n)
           Taken == Numbered(p, x + n, -n)
<1>1. /\ alloc[a] \in [Seeded -> Nat] /\ x \in Nat
      /\ Cardinality(Held(a)) \in Nat
  BY FS_CardinalityType DEF TypeOK
<1>2. \A q \in Seeded : alloc'[a][q] = IF q = p THEN x + n ELSE alloc[a][q]
  BY <1>1
<1>3. \A e : e \in Held(a) <=> \E q \in Seeded : e \in {q} \X (1 .. alloc[a][q])
  BY DEF Held
<1>4. \A e : e \in Held(a)' <=> \E q \in Seeded : e \in {q} \X (1 .. alloc'[a][q])
  BY DEF Held
<1>5. CASE n >= 0
  <2>1. Held(a)' = Held(a) \cup Added
    <3>1. \A e : e \in {p} \X (1 .. x + n)
                   <=> e \in {p} \X (1 .. x) \/ e \in Added
      BY <1>1, <1>5 DEF Numbered
    <3> QED
      BY <1>2, <1>3, <1>4, <3>1
  <2>2. Held(a) \cap Added = {}
    <3>1. \A e \in Added : e[1] = p /\ e[2] > x
      BY <1>1 DEF Numbered
    <3>2. \A q \in Seeded : \A e \in {q} \X (1 .. alloc[a][q]) : e[1] = q /\ e[2] <= alloc[a][q]
      BY <1>1
    <3> QED
      BY <1>1, <1>3, <3>1, <3>2
  <2>3. IsFiniteSet(Added) /\ Cardinality(Added) = n
    <3>1. x \in Int /\ n \in Nat
      BY <1>1, <1>5
    <3> HIDE DEF x
    <3> QED
      BY <3>1, NumberedCount
  <2> HIDE DEF Added
  <2> QED
    BY <2>1, <2>2, <2>3, DisjointSum
<1>6. CASE n < 0
  <2>1. Held(a)' = Held(a) \ Taken
    <3>1. \A e : e \in {p} \X (1 .. x + n)
                   <=> e \in {p} \X (1 .. x) /\ e \notin Taken
      BY <1>1, <1>6 DEF Numbered
    <3>2. \A q \in Seeded : \A e \in {q} \X (1 .. alloc[a][q]) : e \in Taken => q = p
      BY DEF Numbered
    <3> QED
      BY <1>2, <1>3, <1>4, <3>1, <3>2
  <2>2. Taken \subseteq Held(a)
    BY <1>1, <1>3, <1>6 DEF Numbered
  <2>3. Cardinality(Taken) = -n
    <3>1. x + n \in Int /\ -n \in Nat
      BY <1>1, <1>6
    <3> HIDE DEF x
    <3> QED
      BY <3>1, NumberedCount
  <2> HIDE DEF Taken
  <2>4. /\ IsFiniteSet(Held(a) \ Taken)
        /\ Cardinality(Held(a) \ Taken) = Cardinality(Held(a)) - Cardinality(Taken)
    BY <2>2, PartTaken
  <2> QED
    BY <1>1, <2>1, <2>3, <2>4
<1> QED
  BY <1>5, <1>6

-----------------------------------------------------------------------------
(* Only an allocation moves points, and both of its tables move by the     *)
(* same number.                                                            *)
LEMMA HeldPreserved == IInv /\ HeldInv /\ [Next]_vars => HeldInv'
<1> SUFFICES ASSUME IInv, HeldInv, [Next]_vars PROVE HeldInv'
  OBVIOUS
<1> USE PointsAssumption DEF IInv
<1>1. ASSUME NEW s \in Seats, SpendCommit(s) PROVE HeldInv'
  <2>1. PICK a \in Accounts, p \in Seeded, n \in Int :
          /\ a = AccountOf[s] /\ p = seat[s].req.id /\ n = seat[s].req.points
    BY <1>1, SeatCases DEF SpendCommit, SnapshotInv, TypeOK, Request
  <2>2. /\ alloc \in [Accounts -> [Seeded -> Nat]]
        /\ alloc' \in [Accounts -> [Seeded -> Nat]]
        /\ spent \in [Accounts -> Int]
    BY TypePreserved DEF TypeOK
  <2>3. alloc' = [alloc EXCEPT ![a][p] = alloc[a][p] + n]
    BY <1>1, <2>1 DEF SpendCommit, NewPoints
  <2>4. spent' = [spent EXCEPT ![a] = @ + n]
    BY <1>1, <2>1 DEF SpendCommit
  <2>5. IsFiniteSet(Held(a)') /\ Cardinality(Held(a)') = Cardinality(Held(a)) + n
    <3>1. /\ alloc'[a] = [alloc[a] EXCEPT ![p] = alloc[a][p] + n]
          /\ alloc[a][p] + n \in Nat
      BY <2>2, <2>3
    <3>2. IsFiniteSet(Held(a)) /\ TypeOK
      BY DEF HeldInv
    <3> QED
      BY <3>1, <3>2, HeldMoved
  <2>6. ASSUME NEW c \in Accounts
        PROVE  IsFiniteSet(Held(c)') /\ spent'[c] = Cardinality(Held(c)')
    <3>1. CASE c = a
      BY <2>2, <2>4, <2>5, <3>1 DEF HeldInv
    <3>2. CASE c # a
      <4>1. alloc'[c] = alloc[c] /\ spent'[c] = spent[c]
        BY <2>2, <2>3, <2>4, <3>2
      <4>2. Held(c)' = Held(c)
        BY <4>1 DEF Held
      <4> QED
        BY <4>1, <4>2 DEF HeldInv
    <3> QED
      BY <3>1, <3>2
  <2> QED
    BY <2>6 DEF HeldInv
<1>2. ASSUME alloc' = alloc, spent' = spent PROVE HeldInv'
  BY <1>2 DEF HeldInv, Held
<1>3. (alloc' = alloc /\ spent' = spent) \/ \E s \in Seats : SpendCommit(s)
  BY DEF Next, vars, ledger, NextMonth, Call, AccrueRead, AccrueCommit, SubmitPlain,
         SpendRead, Refuse, Crash
<1> QED
  BY <1>1, <1>2, <1>3

(* A write-off takes what was old in the request's own month, which has    *)
(* begun: since then only more can have become old.                        *)
LEMMA OldPreserved == IInv /\ HeldInv /\ OldInv /\ [Next]_vars => OldInv'
<1> SUFFICES ASSUME IInv, HeldInv, OldInv, [Next]_vars PROVE OldInv'
  OBVIOUS
<1> USE PointsAssumption DEF IInv
<1>a. /\ month \in Months /\ \A s \in Seats : AccountOf[s] \in Accounts
      /\ \A a \in Accounts : expired[a] \in Nat /\ spent[a] \in Nat
      /\ \A a \in Accounts, k \in Months : earned[a][k] \in Nat
      /\ seat \in [Seats -> SeatState]
  BY FS_CardinalityType DEF TypeOK, HeldInv
<1>b. \A a \in Accounts, m, k \in Months :
        m <= k => EarnedBy(a, m - ExpiryMonths) <= EarnedBy(a, k - ExpiryMonths)
  BY <1>a DEF EarnedBy, EarnedGrows, Months
<1>c. \A a \in Accounts, m \in Months : EarnedBy(a, m - ExpiryMonths) \in Nat
  BY <1>a DEF EarnedBy, Months
<1>1. ASSUME NextMonth PROVE OldInv'
  <2>1. /\ month' = month + 1 /\ month' \in Months /\ month <= month'
        /\ UNCHANGED <<earned, expired, seat>>
    BY <1>a, <1>1 DEF NextMonth, Months, ledger
  <2>2. \A a \in Accounts : expired[a] <= EarnedBy(a, month' - ExpiryMonths)
    BY <1>a, <1>b, <1>c, <2>1 DEF OldInv
  <2>3. \A s \in Seats : seat[s].pc # "idle" => seat[s].month <= month'
    <3>1. \A s \in Seats : seat[s].pc # "idle" => seat[s].month \in Months
      BY <1>a, SeatCases
    <3> QED
      BY <1>a, <2>1, <3>1 DEF OldInv, Months
  <2> QED
    BY <2>1, <2>2, <2>3 DEF OldInv, EarnedBy
<1>2. ASSUME NEW s \in Seats, AccrueCommit(s) PROVE OldInv'
  <2>1. PICK a \in Accounts, m \in Months :
          /\ a = AccountOf[s] /\ m = seat[s].month
          /\ m <= month /\ seat[s].credit \in Nat /\ seat[s].expire = Expirable(a, m)
    BY <1>a, <1>2, SeatCases DEF AccrueCommit, OldInv, SnapshotInv
  <2>2. \A c \in Accounts, k \in Months :
          earned'[c][k] \in Nat /\ earned[c][k] <= earned'[c][k]
    BY <1>a, <1>2, <2>1 DEF AccrueCommit, TypeOK
  <2>3. \A c \in Accounts : EarnedBy(c, month - ExpiryMonths)
                              <= EarnedBy(c, month - ExpiryMonths)'
    BY <1>2, <1>a, <2>2 DEF EarnedBy, Months, AccrueCommit
  <2>4. \A c \in Accounts :
          expired'[c] = IF c = a THEN expired[c] + Expirable(a, m) ELSE expired[c]
    BY <1>2, <2>1 DEF AccrueCommit, TypeOK
  <2>5. expired[a] + Expirable(a, m) <= EarnedBy(a, month - ExpiryMonths)
    <3>1. /\ EarnedBy(a, m - ExpiryMonths) <= EarnedBy(a, month - ExpiryMonths)
          /\ EarnedBy(a, m - ExpiryMonths) \in Nat
          /\ EarnedBy(a, month - ExpiryMonths) \in Nat
      BY <1>a, <1>b, <1>c, <2>1
    <3>2. expired[a] <= EarnedBy(a, month - ExpiryMonths)
      BY DEF OldInv
    <3> QED
      BY <1>a, <3>1, <3>2 DEF Expirable, OldCredits
  <2>6. \A c \in Accounts : expired'[c] <= EarnedBy(c, month - ExpiryMonths)'
    <3>1. \A c \in Accounts : /\ EarnedBy(c, month - ExpiryMonths) \in Nat
                              /\ EarnedBy(c, month - ExpiryMonths)' \in Nat
      BY <1>a, <1>2, <2>2 DEF EarnedBy, Months, AccrueCommit
    <3>2. \A c \in Accounts : expired'[c] <= EarnedBy(c, month - ExpiryMonths)
      BY <2>4, <2>5 DEF OldInv
    <3>3. \A c \in Accounts : expired'[c] \in Nat
      BY TypePreserved DEF TypeOK
    <3> QED
      BY <2>3, <3>1, <3>2, <3>3
  <2>7. \A t \in Seats : seat'[t].pc # "idle" => seat'[t].month <= month'
    BY <1>2, <1>a, <2>1 DEF AccrueCommit, Become, Idle, OldInv
  <2> QED
    BY <2>6, <2>7 DEF OldInv
<1>3. ASSUME UNCHANGED <<month, earned, expired>>,
             \A t \in Seats : seat'[t].pc # "idle" => seat'[t].month <= month'
      PROVE  OldInv'
  BY <1>3 DEF OldInv, EarnedBy
<1>4. ASSUME NEW s \in Seats, Call(s) PROVE OldInv'
  <2>1. seat'[s].month = month /\ \A t \in Seats \ {s} : seat'[t] = seat[t]
    BY <1>4, <1>a DEF Call, Become
  <2>2. month <= month
    BY <1>a DEF Months
  <2> QED
    BY <1>3, <1>4, <2>1, <2>2 DEF Call, ledger, OldInv
<1>5. ASSUME NEW s \in Seats,
             \/ AccrueRead(s) \/ SubmitPlain(s) \/ SpendRead(s)
             \/ SpendCommit(s) \/ Refuse(s) \/ Crash(s)
      PROVE  OldInv'
  <2>1. \A t \in Seats \ {s} : seat'[t] = seat[t]
    BY <1>5, <1>a DEF AccrueRead, SubmitPlain, SpendRead, SpendCommit, Refuse, Crash, Become
  <2>2. seat'[s].pc = "idle" \/ (seat'[s].month = seat[s].month /\ seat[s].pc # "idle")
    BY <1>5, <1>a DEF AccrueRead, SubmitPlain, SpendRead, SpendCommit, Refuse, Crash, Become,
         Idle
  <2>3. UNCHANGED <<month, earned, expired>>
    BY <1>5 DEF AccrueRead, SubmitPlain, SpendRead, SpendCommit, Refuse, Crash, ledger
  <2> QED
    BY <1>3, <2>1, <2>2, <2>3 DEF OldInv
<1>6. ASSUME UNCHANGED vars PROVE OldInv'
  BY <1>6 DEF vars, ledger, OldInv, EarnedBy
<1> QED
  BY <1>1, <1>2, <1>4, <1>5, <1>6 DEF Next

LEMMA LedgerInvariance == Spec => [](IInv /\ MonthInv /\ HeldInv /\ OldInv)
<1>1. Init => IInv /\ MonthInv
  BY InitInv, PointsAssumption DEF Init, MonthInv, EarnedBy, Months
<1>2. Init => HeldInv
  <2> SUFFICES ASSUME Init, NEW a \in Accounts
               PROVE  IsFiniteSet(Held(a)) /\ spent[a] = Cardinality(Held(a))
    BY DEF HeldInv
  <2>1. Held(a) = {}
    BY DEF Init, Held
  <2> QED
    BY <2>1, FS_EmptySet DEF Init
<1>3. Init => OldInv
  BY PointsAssumption DEF Init, OldInv, EarnedBy, Months, Idle
<1>4. IInv /\ MonthInv /\ HeldInv /\ OldInv /\ [Next]_vars
        => (IInv /\ MonthInv /\ HeldInv /\ OldInv)'
  BY TypePreserved, LockPreserved, SnapshotPreserved, EarnedGrowsPreserved,
     NeverOverspentPreserved, MonthPreserved, HeldPreserved, OldPreserved DEF IInv
<1> QED
  BY <1>1, <1>2, <1>3, <1>4, PTL DEF Spec

(* The three tables agree, whatever seats, retries and crashes do: every   *)
(* spent point lies on a priority, a month earned one seat's rate, and     *)
(* what was written off is ExpiryMonths old.                               *)
THEOREM LedgerAddsUp == Spec => []LedgerIsExplained
<1>1. HeldInv => AllocationsExplainSpending
  BY DEF HeldInv, AllocationsExplainSpending
<1>2. MonthInv => MonthEarnsOnce
  BY DEF MonthInv, MonthEarnsOnce
<1>3. OldInv => OnlyOldPointsExpire
  BY DEF OldInv, OnlyOldPointsExpire
<1> QED
  BY LedgerInvariance, <1>1, <1>2, <1>3, PTL DEF LedgerIsExplained

(* A request row that offered support commits with its points, or not at   *)
(* all: only submit_request's own commit adds the row.                     *)
THEOREM RequestsBringTheirPoints == Spec => RequestWithItsSupport
<1> DEFINE A == \A s \in Seats :
       LET a == AccountOf[s] IN
       requests'[a] # requests[a] /\ seat'[s] # seat[s] /\ seat[s].req.points > 0
         => alloc'[a][seat[s].req.id] = alloc[a][seat[s].req.id] + seat[s].req.points
<1>1. IInv /\ [Next]_vars => A
  <2> SUFFICES ASSUME IInv, [Next]_vars, NEW s \in Seats,
                      requests' # requests, seat'[s] # seat[s], seat[s].req.points > 0
               PROVE  alloc'[AccountOf[s]][seat[s].req.id]
                        = alloc[AccountOf[s]][seat[s].req.id] + seat[s].req.points
    OBVIOUS
  <2> USE PointsAssumption DEF IInv
  <2>1. PICK t \in Seats : SubmitPlain(t) \/ SpendCommit(t)
    BY DEF Next, vars, NextMonth, Call, AccrueRead, AccrueCommit, SpendRead, Refuse, Crash
  <2>2. t = s
    BY <2>1 DEF TypeOK, SubmitPlain, SpendCommit, Become
  <2>3. SpendCommit(s)
    BY <2>1, <2>2 DEF SubmitPlain
  <2>4. seat[s].req.id \in Seeded /\ AccountOf[s] \in Accounts
    BY <2>3 DEF SpendCommit, SnapshotInv
  <2> QED
    BY <2>3, <2>4 DEF SpendCommit, NewPoints, TypeOK
<1> QED
  BY Invariance, <1>1, PTL DEF Spec, RequestWithItsSupport
=============================================================================
