--------------------------- MODULE AccountsProofs ---------------------------
(***************************************************************************)
(* Proofs about module Accounts: for any number of devices, passwords and  *)
(* addresses, an accepted session knows the password, a refused one stays  *)
(* refused, an account is set up once, and Stripe is ahead of an account   *)
(* only while a link can settle it.                                        *)
(***************************************************************************)
EXTENDS Accounts, TLAPS

Moving == {"moving", "moved", "stripe", "commit"}
SigningIn == {"upgrade", "refind", "link", "issue"}
Typing == {"write", "redeem", "setting", "signin"} \cup SigningIn

(* What a request knows of itself. *)
RequestInv ==
  \A d \in Devices :
    LET r == request[d] IN
    /\ r.pc # "idle" => r.at \in Addresses
    /\ r.pc \in Typing => r.typed \in Passwords
    /\ r.op = "move" <=> r.pc \in Moving
    /\ r.pc = "setting" => r.op = "setup"

(* The row's lock is held from the statement that takes it to the commit;  *)
(* so is that of a reset row.                                              *)
LockInv ==
  /\ \A d \in Devices : request[d].pc \in {"setting", "moved", "stripe", "commit"} => rowlock = d
  /\ \A d \in Devices : request[d].pc = "redeem" => locks[request[d].at] = d

(* Only an account with a password has sessions, settings and moves. *)
PasswordInv ==
  /\ \A d \in Devices :
       \/ cookie[d] # None
       \/ request[d].pc \in {"decoded", "write", "ask"} \cup SigningIn \cup Moving
       => row.password # None
  /\ move.link # 0 => row.password # None

(* A hash that a sign-in or a cookie names is the current one, and then    *)
(* the password is the typed one, or an older one.                         *)
RequestHash(d) ==
  request[d].pc \in SigningIn =>
    /\ request[d].hash <= row.hash
    /\ request[d].hash = row.hash =>
         \/ request[d].upgraded \/ request[d].pc = "refind"
         \/ request[d].typed = row.password

CookieHash(d) ==
  cookie[d] # None =>
    /\ cookie[d].hash <= row.hash
    /\ cookie[d].revision <= row.revision
    /\ cookie[d].hash = row.hash => cookie[d].upgraded \/ cookie[d].typed = row.password

HashInv == \A d \in Devices : RequestHash(d) /\ CookieHash(d)

(* Nothing sets a password while a setup is about to. *)
Setting(d) == request[d].op = "setup" /\ request[d].pc \in {"redeem", "setting"}

SetUpInv ==
  \A d \in Devices : Setting(d) => row.password = None /\ row.email = request[d].at

(* One confirmation at a time, whose link waits for the commit. *)
MoveInv ==
  /\ \A d, e \in Devices : request[d].op = "move" /\ request[e].op = "move" => d = e
  /\ \A d \in Devices : request[d].op = "move" => move.link # 0
  /\ \A d \in Devices : request[d].pc = "commit" => stripe = move.to
  /\ StripeAheadWithLink

IInv ==
  /\ TypeOK
  /\ RequestInv
  /\ LockInv
  /\ PasswordInv
  /\ HashInv
  /\ SetUpInv
  /\ MoveInv

-----------------------------------------------------------------------------
(* The invariant holds at first. *)
LEMMA InitInv == Init => IInv
<1> SUFFICES ASSUME Init PROVE IInv
  OBVIOUS
<1> USE AccountsAssumption
<1>1. /\ row \in Row /\ row.email = Home /\ row.hash \in {0, 1} /\ row.revision = 0
  BY DEF Init, Row
<1>2. \A d \in Devices : cookie[d] = None \/ (row.password # None /\ cookie[d] = Session(row.password, FALSE))
  BY DEF Init
<1>3. row.password # None => Session(row.password, FALSE) \in Cookie
  BY <1>1 DEF Row, Session, Cookie
<1>4. cookie \in [Devices -> Cookie \cup {None}]
  BY <1>1, <1>3 DEF Init
<1>5. Idle \in Request
  BY DEF Idle, Request
<1>6. TypeOK
  BY <1>1, <1>4, <1>5 DEF Init, TypeOK
<1>7. \A d \in Devices : request[d] = Idle
  BY DEF Init
<1>8. RequestInv /\ LockInv
  BY <1>7 DEF RequestInv, LockInv, Idle, Typing, SigningIn, Moving
<1>9. PasswordInv /\ SetUpInv /\ MoveInv
  BY <1>1, <1>2, <1>7 DEF Init, PasswordInv, SetUpInv, Setting, MoveInv,
     StripeAheadWithLink, Idle, SigningIn, Moving
<1>10. ASSUME NEW d \in Devices, cookie[d] # None
       PROVE  /\ cookie[d].hash = row.hash /\ cookie[d].revision = row.revision
              /\ cookie[d].typed = row.password
  BY <1>2, <1>10 DEF Session
<1>11. HashInv
  <2>1. row.hash <= row.hash /\ row.revision <= row.revision
    BY <1>1 DEF Row
  <2>2. ASSUME NEW d \in Devices PROVE request[d].pc \notin SigningIn
    BY <1>7 DEF Idle, SigningIn
  <2>3. ASSUME NEW d \in Devices, cookie[d] # None
        PROVE  cookie[d].hash <= row.hash /\ cookie[d].revision <= row.revision
    BY <1>10, <2>1, <2>3
  <2> QED
    BY <1>10, <2>2, <2>3 DEF HashInv, RequestHash, CookieHash
<1> QED
  BY <1>6, <1>8, <1>9, <1>11 DEF IInv

-----------------------------------------------------------------------------
(* What the steps of a request do to the variable that holds it: Start,    *)
(* which finds the device idle, ...                                        *)
LEMMA StartDoes ==
  ASSUME TypeOK, NEW d \in Devices,
         NEW op \in {"login", "logout", "change", "reset", "setup", "ask", "move"},
         NEW pc \in {"decoded", "revoke", "insert", "redeem", "setting", "moving", "upgrade"},
         NEW at \in Addresses, NEW typed \in Passwords \cup {None}, NEW hash \in Nat,
         Start(d, op, pc, at, typed, hash)
  PROVE  /\ request' \in [Devices -> Request] /\ started' \in 0 .. MaxRequests
         /\ request[d].pc = "idle"
         /\ request'[d].op = op /\ request'[d].pc = pc /\ request'[d].at = at
         /\ request'[d].typed = typed /\ request'[d].hash = hash /\ request'[d].upgraded = FALSE
         /\ \A e \in Devices \ {d} : request'[e] = request[e]
<1>1. [op |-> op, pc |-> pc, at |-> at, typed |-> typed, hash |-> hash, upgraded |-> FALSE] \in Request
  BY DEF Request
<1> QED
  BY <1>1, AccountsAssumption DEF Start, TypeOK, Idle

(* Goto moves the request on and changes nothing else of it. *)
LEMMA GotoDoes ==
  ASSUME TypeOK, NEW d \in Devices,
         NEW pc \in {"refind", "link", "issue", "ask", "signin", "moved", "stripe", "commit"},
         Goto(d, pc)
  PROVE  /\ request' \in [Devices -> Request]
         /\ request'[d].pc = pc /\ request'[d].op = request[d].op /\ request'[d].at = request[d].at
         /\ request'[d].typed = request[d].typed /\ request'[d].hash = request[d].hash
         /\ request'[d].upgraded = request[d].upgraded
         /\ \A e \in Devices \ {d} : request'[e] = request[e]
<1> DEFINE r == [request[d] EXCEPT !.pc = pc]
<1>1. /\ r \in Request
      /\ r.pc = pc /\ r.op = request[d].op /\ r.at = request[d].at
      /\ r.typed = request[d].typed /\ r.hash = request[d].hash /\ r.upgraded = request[d].upgraded
  BY DEF TypeOK, Request
<1>2. request' = [request EXCEPT ![d] = r]
  BY DEF Goto
<1> HIDE DEF r
<1> QED
  BY <1>1, <1>2 DEF TypeOK

(* ... with the hash a sign-in goes by, after an upgrade or not. *)
LEMMA HashDoes ==
  ASSUME TypeOK, NEW d \in Devices, NEW pc \in {"upgrade", "link"}, NEW hash \in Nat
  PROVE  /\ request' = [request EXCEPT ![d].pc = pc, ![d].hash = hash] =>
              /\ request' \in [Devices -> Request]
              /\ request'[d].pc = pc /\ request'[d].op = request[d].op
              /\ request'[d].at = request[d].at /\ request'[d].typed = request[d].typed
              /\ request'[d].hash = hash /\ request'[d].upgraded = request[d].upgraded
              /\ \A e \in Devices \ {d} : request'[e] = request[e]
         /\ request' = [request EXCEPT ![d].pc = pc, ![d].upgraded = TRUE, ![d].hash = hash] =>
              /\ request' \in [Devices -> Request]
              /\ request'[d].pc = pc /\ request'[d].op = request[d].op
              /\ request'[d].at = request[d].at /\ request'[d].typed = request[d].typed
              /\ request'[d].hash = hash /\ request'[d].upgraded
              /\ \A e \in Devices \ {d} : request'[e] = request[e]
<1> DEFINE q == [request[d] EXCEPT !.pc = pc, !.hash = hash]
           r == [request[d] EXCEPT !.pc = pc, !.upgraded = TRUE, !.hash = hash]
<1>1. /\ q \in Request /\ q.pc = pc /\ q.op = request[d].op /\ q.at = request[d].at
      /\ q.typed = request[d].typed /\ q.hash = hash /\ q.upgraded = request[d].upgraded
  BY DEF TypeOK, Request
<1>2. /\ r \in Request /\ r.pc = pc /\ r.op = request[d].op /\ r.at = request[d].at
      /\ r.typed = request[d].typed /\ r.hash = hash /\ r.upgraded
  BY DEF TypeOK, Request
<1>3. [request EXCEPT ![d].pc = pc, ![d].hash = hash] = [request EXCEPT ![d] = q]
  BY DEF TypeOK
<1>4. [request EXCEPT ![d].pc = pc, ![d].upgraded = TRUE, ![d].hash = hash] = [request EXCEPT ![d] = r]
  BY DEF TypeOK
<1> HIDE DEF q, r
<1> QED
  BY <1>1, <1>2, <1>3, <1>4 DEF TypeOK

(* ... with the new password that was typed. *)
LEMMA TypedDoes ==
  ASSUME TypeOK, NEW d \in Devices, NEW p \in Passwords,
         request' = [request EXCEPT ![d].pc = "write", ![d].typed = p]
  PROVE  /\ request' \in [Devices -> Request]
         /\ request'[d].pc = "write" /\ request'[d].typed = p
         /\ request'[d].op = request[d].op /\ request'[d].at = request[d].at
         /\ \A e \in Devices \ {d} : request'[e] = request[e]
<1>1. [request[d] EXCEPT !.pc = "write", !.typed = p] \in Request
  BY DEF TypeOK, Request
<1> QED
  BY <1>1 DEF TypeOK, Request

(* A finished request leaves its device idle. *)
LEMMA FinishDoes ==
  ASSUME TypeOK, NEW d \in Devices, Finish(d)
  PROVE  /\ request' \in [Devices -> Request]
         /\ request'[d].pc = "idle" /\ request'[d].op = "none"
         /\ \A e \in Devices \ {d} : request'[e] = request[e]
BY DEF Finish, TypeOK, Idle, Request

(* Unlock gives back the locks of one device only. *)
LEMMA UnlockDoes ==
  ASSUME TypeOK, NEW d \in Devices, Unlock(d)
  PROVE  /\ rowlock' \in Devices \cup {None} /\ locks' \in [Addresses -> Devices \cup {None}]
         /\ \A e \in Devices \ {d} :
              /\ rowlock = e => rowlock' = e
              /\ \A a \in Addresses : locks[a] = e => locks'[a] = e
BY DEF Unlock, TypeOK

(* What an UPDATE does to the row. *)
LEMMA SaveDoes ==
  ASSUME TypeOK, NEW r \in Row, Save(r)
  PROVE  /\ row' \in Row /\ row'.revision = row.revision + 1
         /\ row'.email = r.email /\ row'.password = r.password /\ row'.hash = r.hash
BY DEF Save, Advanced, TypeOK, Row

(* ... and one that sets a password, which comes with a new hash. *)
LEMMA NewPasswordDoes ==
  ASSUME TypeOK, NEW p \in Passwords \cup {None}, NewPassword(p)
  PROVE  /\ row' \in Row /\ row'.revision = row.revision + 1
         /\ row'.email = row.email /\ row'.password = p /\ row'.hash = row.hash + 1
<1>1. PICK h \in Nat : h = row.hash + 1
  BY DEF TypeOK, Row
<1> DEFINE r == [row EXCEPT !.password = p, !.hash = h]
<1>2. r \in Row /\ r.email = row.email /\ r.password = p /\ r.hash = h
  BY DEF TypeOK, Row
<1>3. Save(r)
  BY <1>1 DEF NewPassword
<1> HIDE DEF r
<1> QED
  BY <1>1, <1>2, <1>3, SaveDoes

(* Where the sign-in at the end of another request goes. *)
LEMMA SignInDoes ==
  ASSUME TypeOK, NEW d \in Devices, SignIn(d)
  PROVE  /\ request[d].pc = "signin" /\ request' \in [Devices -> Request]
         /\ \A e \in Devices \ {d} : request'[e] = request[e]
         /\ \/ /\ row.email = request[d].at /\ row.password = request[d].typed
               /\ request'[d].pc = "upgrade" /\ request'[d].hash = row.hash
               /\ request'[d].op = request[d].op /\ request'[d].at = request[d].at
               /\ request'[d].typed = request[d].typed
            \/ request'[d].pc = "idle" /\ request'[d].op = "none"
<1>1. row.hash \in Nat
  BY DEF TypeOK, Row
<1>2. CASE row.email = request[d].at /\ row.password = request[d].typed
           /\ request' = [request EXCEPT ![d].pc = "upgrade", ![d].hash = row.hash]
  BY <1>1, <1>2, HashDoes DEF SignIn
<1>3. CASE Finish(d)
  BY <1>3, FinishDoes DEF SignIn
<1> QED
  BY <1>2, <1>3 DEF SignIn

(* upgrade_hash keeps the password, or does nothing. *)
LEMMA UpgradeDoes ==
  ASSUME TypeOK, NEW d \in Devices, Upgrade(d)
  PROVE  /\ request[d].pc = "upgrade" /\ request' \in [Devices -> Request]
         /\ \A e \in Devices \ {d} : request'[e] = request[e]
         /\ request'[d].op = request[d].op /\ request'[d].at = request[d].at
         /\ request'[d].typed = request[d].typed /\ request'[d].hash = request[d].hash
         /\ request'[d].upgraded = request[d].upgraded
         /\ \/ /\ request'[d].pc = "refind" /\ RowFree
               /\ row.email = request[d].at /\ row.hash = request[d].hash
               /\ row' \in Row /\ row'.email = row.email /\ row'.password = row.password
               /\ row'.hash = row.hash + 1 /\ row'.revision = row.revision + 1
            \/ request'[d].pc = "link" /\ row' = row
<1>1. row.password \in Passwords \cup {None}
  BY DEF TypeOK, Row
<1>2. CASE RowFree /\ row.email = request[d].at /\ row.hash = request[d].hash
           /\ NewPassword(row.password) /\ Goto(d, "refind")
  BY <1>1, <1>2, GotoDoes, NewPasswordDoes DEF Upgrade
<1>3. CASE Goto(d, "link") /\ UNCHANGED row
  BY <1>3, GotoDoes DEF Upgrade
<1> QED
  BY <1>2, <1>3 DEF Upgrade

(* link_platform_account keeps address and password. *)
LEMMA LinkDoes ==
  ASSUME TypeOK, NEW d \in Devices, Link(d)
  PROVE  /\ request[d].pc = "link" /\ request' \in [Devices -> Request]
         /\ \A e \in Devices \ {d} : request'[e] = request[e]
         /\ request'[d].pc = "issue"
         /\ request'[d].op = request[d].op /\ request'[d].at = request[d].at
         /\ request'[d].typed = request[d].typed /\ request'[d].hash = request[d].hash
         /\ request'[d].upgraded = request[d].upgraded
         /\ row' \in Row /\ row'.email = row.email /\ row'.password = row.password
         /\ row'.hash = row.hash
         /\ row' = row \/ row'.revision = row.revision + 1
<1>1. row \in Row
  BY DEF TypeOK
<1>2. [row EXCEPT !.user = TRUE] \in Row
  BY <1>1 DEF Row
<1>3. /\ row' \in Row /\ row'.email = row.email /\ row'.password = row.password
      /\ row'.hash = row.hash /\ (row' = row \/ row'.revision = row.revision + 1)
  <2>1. CASE UNCHANGED row
    BY <1>1, <2>1
  <2>2. CASE Save([row EXCEPT !.user = TRUE])
    BY <1>1, <1>2, <2>2, SaveDoes DEF Row
  <2> QED
    BY <2>1, <2>2 DEF Link
<1> QED
  BY <1>3, GotoDoes DEF Link

(* A confirmed move takes the account to the new address. *)
LEMMA CommitDoes ==
  ASSUME TypeOK, NEW d \in Devices, CommitMove(d)
  PROVE  /\ request[d].pc = "commit" /\ request' \in [Devices -> Request]
         /\ \A e \in Devices \ {d} : request'[e] = request[e]
         /\ request'[d].pc = "idle" /\ request'[d].op = "none"
         /\ row' \in Row /\ row'.email = move.to /\ row'.password = row.password
         /\ row'.hash = row.hash /\ row'.revision = row.revision + 1
<1>1. row \in Row /\ move.to \in Addresses
  BY DEF TypeOK
<1>2. /\ [row EXCEPT !.email = move.to] \in Row
      /\ [row EXCEPT !.email = move.to].email = move.to
      /\ [row EXCEPT !.email = move.to].password = row.password
      /\ [row EXCEPT !.email = move.to].hash = row.hash
  BY <1>1 DEF Row
<1>3. Save([row EXCEPT !.email = move.to]) /\ Finish(d) /\ request[d].pc = "commit"
  BY DEF CommitMove
<1> QED
  BY <1>2, <1>3, SaveDoes, FinishDoes

(* A cookie that is issued is one. *)
LEMMA SessionType ==
  ASSUME TypeOK, NEW p \in Passwords, NEW u \in BOOLEAN
  PROVE  Session(p, u) \in Cookie
BY DEF Session, TypeOK, Row, Cookie

-----------------------------------------------------------------------------
(* Every step keeps every type. *)
LEMMA TypeStep == IInv /\ [Next]_vars => TypeOK'
<1> SUFFICES ASSUME IInv, [Next]_vars PROVE TypeOK'
  OBVIOUS
<1> USE AccountsAssumption
<1>0. /\ TypeOK /\ row \in Row /\ row.email \in Addresses /\ row.hash \in Nat
      /\ row.password \in Passwords \cup {None}
  BY DEF IInv, TypeOK, Row
<1>1. ASSUME NEW d \in Devices, Login(d) PROVE TypeOK'
  <2>1. request' \in [Devices -> Request] /\ started' \in 0 .. MaxRequests
    BY <1>0, <1>1, StartDoes DEF Login
  <2> QED
    BY <1>0, <1>1, <2>1 DEF Login, TypeOK
<1>2. ASSUME NEW d \in Devices, SignIn(d) PROVE TypeOK'
  <2>1. CASE request' = [request EXCEPT ![d].pc = "upgrade", ![d].hash = row.hash]
    BY <1>0, <1>2, <2>1, HashDoes DEF SignIn, TypeOK
  <2>2. CASE Finish(d)
    BY <1>0, <1>2, <2>2, FinishDoes DEF SignIn, TypeOK
  <2> QED
    BY <1>2, <2>1, <2>2 DEF SignIn
<1>3. ASSUME NEW d \in Devices, Upgrade(d) PROVE TypeOK'
  <2>1. row' \in Row
    BY <1>0, <1>3, NewPasswordDoes DEF Upgrade, Row
  <2>2. request' \in [Devices -> Request]
    BY <1>0, <1>3, GotoDoes DEF Upgrade
  <2> QED
    BY <1>0, <1>3, <2>1, <2>2 DEF Upgrade, TypeOK
<1>4. ASSUME NEW d \in Devices, Refind(d) PROVE TypeOK'
  <2>1. request[d].hash \in Nat
    BY <1>0 DEF TypeOK, Request
  <2>2. request' \in [Devices -> Request]
    BY <1>0, <1>4, <2>1, HashDoes DEF Refind
  <2> QED
    BY <1>0, <1>4, <2>2 DEF Refind, TypeOK
<1>5. ASSUME NEW d \in Devices, Link(d) PROVE TypeOK'
  <2>1. [row EXCEPT !.user = TRUE] \in Row
    BY <1>0 DEF Row
  <2>2. row' \in Row
    BY <1>0, <1>5, <2>1, SaveDoes DEF Link
  <2>3. request' \in [Devices -> Request]
    BY <1>0, <1>5, GotoDoes DEF Link
  <2> QED
    BY <1>0, <1>5, <2>2, <2>3 DEF Link, TypeOK
<1>6. ASSUME NEW d \in Devices, Issue(d) PROVE TypeOK'
  <2>1. request' \in [Devices -> Request]
    BY <1>0, <1>6, FinishDoes DEF Issue
  <2>2. request[d].typed \in Passwords /\ request[d].upgraded \in BOOLEAN
    BY <1>0, <1>6 DEF IInv, RequestInv, Typing, SigningIn, Issue, TypeOK, Request
  <2>3. cookie' \in [Devices -> Cookie \cup {None}]
    BY <1>0, <1>6, <2>2, SessionType DEF Issue, TypeOK
  <2> QED
    BY <1>0, <1>6, <2>1, <2>3 DEF Issue, TypeOK
<1>7. ASSUME NEW d \in Devices, Logout(d) PROVE TypeOK'
  <2>1. CASE Accepted(cookie[d]) /\ Start(d, "logout", "revoke", row.email, None, 0) /\ UNCHANGED cookie
    BY <1>0, <1>7, <2>1, StartDoes DEF Logout, TypeOK
  <2>2. CASE cookie' = [cookie EXCEPT ![d] = None] /\ UNCHANGED <<request, started>>
    BY <1>0, <1>7, <2>2 DEF Logout, TypeOK
  <2> QED
    BY <1>7, <2>1, <2>2 DEF Logout
<1>8. ASSUME NEW d \in Devices, Revoke(d) PROVE TypeOK'
  <2>1. row' \in Row
    BY <1>0, <1>8, SaveDoes DEF Revoke
  <2>2. request' \in [Devices -> Request]
    BY <1>0, <1>8, FinishDoes DEF Revoke
  <2> QED
    BY <1>0, <1>8, <2>1, <2>2 DEF Revoke, TypeOK
<1>9. ASSUME NEW d \in Devices, NEW op \in {"change", "ask"}, Open(d, op) PROVE TypeOK'
  <2>1. request' \in [Devices -> Request] /\ started' \in 0 .. MaxRequests
    <3>1. CASE op = "change"
      BY <1>0, <1>9, <3>1, StartDoes DEF Open
    <3>2. CASE op = "ask"
      BY <1>0, <1>9, <3>2, StartDoes DEF Open
    <3> QED
      BY <1>9, <3>1, <3>2
  <2> QED
    BY <1>0, <1>9, <2>1 DEF Open, TypeOK
<1>10. ASSUME NEW d \in Devices, Verify(d) PROVE TypeOK'
  <2>1. request' \in [Devices -> Request]
    <3>1. CASE \E p \in Passwords : request' = [request EXCEPT ![d].pc = "write", ![d].typed = p]
      BY <1>0, <3>1, TypedDoes
    <3>2. CASE Goto(d, "ask")
      BY <1>0, <3>2, GotoDoes
    <3>3. CASE Finish(d)
      BY <1>0, <3>3, FinishDoes
    <3> QED
      BY <1>10, <3>1, <3>2, <3>3 DEF Verify
  <2> QED
    BY <1>0, <1>10, <2>1 DEF Verify, TypeOK
<1>11. ASSUME NEW d \in Devices, ChangePassword(d) PROVE TypeOK'
  <2>1. request[d].typed \in Passwords \cup {None}
    BY <1>0 DEF TypeOK, Request
  <2>2. row' \in Row
    BY <1>0, <1>11, <2>1, NewPasswordDoes DEF ChangePassword
  <2>3. request' \in [Devices -> Request]
    BY <1>0, <1>11, GotoDoes DEF ChangePassword
  <2> QED
    BY <1>0, <1>11, <2>2, <2>3 DEF ChangePassword, TypeOK
<1>12. ASSUME NEW d \in Devices, AskReset(d) PROVE TypeOK'
  BY <1>0, <1>12, StartDoes DEF AskReset, TypeOK
<1>13. ASSUME NEW d \in Devices, InsertReset(d) PROVE TypeOK'
  <2>1. request' \in [Devices -> Request]
    BY <1>0, <1>13, FinishDoes DEF InsertReset
  <2>2. resets' \in [Addresses -> Nat] /\ links' \in Nat
    <3>1. PICK n \in Nat : n = links + 1
      BY <1>0 DEF TypeOK
    <3> QED
      BY <1>0, <1>13, <3>1 DEF InsertReset, TypeOK
  <2> QED
    BY <1>0, <1>13, <2>1, <2>2 DEF InsertReset, TypeOK
<1>14. ASSUME NEW d \in Devices, NEW a \in Addresses, NEW p \in Passwords, Redeem(d, a, p)
       PROVE  TypeOK'
  <2>1. request' \in [Devices -> Request] /\ started' \in 0 .. MaxRequests
    BY <1>0, <1>14, StartDoes DEF Redeem
  <2> QED
    BY <1>0, <1>14, <2>1 DEF Redeem, TypeOK
<1>15. ASSUME NEW d \in Devices, RedeemWrite(d) PROVE TypeOK'
  <2>1. request[d].typed \in Passwords \cup {None}
    BY <1>0 DEF TypeOK, Request
  <2>2. row' \in Row
    BY <1>0, <1>15, <2>1, NewPasswordDoes DEF RedeemWrite
  <2>3. /\ request' \in [Devices -> Request]
        /\ rowlock' \in Devices \cup {None} /\ locks' \in [Addresses -> Devices \cup {None}]
    BY <1>0, <1>15, GotoDoes, UnlockDoes DEF RedeemWrite
  <2> QED
    BY <1>0, <1>15, <2>2, <2>3 DEF RedeemWrite, TypeOK
<1>16. ASSUME NEW d \in Devices, NEW p \in Passwords, SetUp(d, p) PROVE TypeOK'
  BY <1>0, <1>16, StartDoes DEF SetUp, TypeOK
<1>17. ASSUME NEW d \in Devices, SetUpWrite(d) PROVE TypeOK'
  <2>1. request[d].typed \in Passwords \cup {None}
    BY <1>0 DEF TypeOK, Request
  <2>2. row' \in Row
    BY <1>0, <1>17, <2>1, NewPasswordDoes DEF SetUpWrite
  <2>3. /\ request' \in [Devices -> Request]
        /\ rowlock' \in Devices \cup {None} /\ locks' \in [Addresses -> Devices \cup {None}]
    BY <1>0, <1>17, GotoDoes, UnlockDoes DEF SetUpWrite
  <2> QED
    BY <1>0, <1>17, <2>2, <2>3 DEF SetUpWrite, TypeOK
<1>18. ASSUME NEW d \in Devices, InsertMove(d) PROVE TypeOK'
  <2>1. request' \in [Devices -> Request]
    BY <1>0, <1>18, FinishDoes DEF InsertMove
  <2> QED
    BY <1>0, <1>18, <2>1 DEF InsertMove, TypeOK
<1>19. ASSUME NEW d \in Devices, ConfirmMove(d) PROVE TypeOK'
  BY <1>0, <1>19, StartDoes DEF ConfirmMove, TypeOK
<1>20. ASSUME NEW d \in Devices, WriteMove(d) PROVE TypeOK'
  BY <1>0, <1>20, GotoDoes DEF WriteMove, TypeOK
<1>21. ASSUME NEW d \in Devices, DeleteReset(d) PROVE TypeOK'
  BY <1>0, <1>21, GotoDoes DEF DeleteReset, TypeOK
<1>22. ASSUME NEW d \in Devices, CallStripe(d) PROVE TypeOK'
  BY <1>0, <1>22, GotoDoes DEF CallStripe, TypeOK
<1>23. ASSUME NEW d \in Devices, CommitMove(d) PROVE TypeOK'
  <2>1. [row EXCEPT !.email = move.to] \in Row
    BY <1>0 DEF TypeOK, Row
  <2>2. row' \in Row
    BY <1>0, <1>23, <2>1, SaveDoes DEF CommitMove
  <2>3. /\ request' \in [Devices -> Request]
        /\ rowlock' \in Devices \cup {None} /\ locks' \in [Addresses -> Devices \cup {None}]
    BY <1>0, <1>23, FinishDoes, UnlockDoes DEF CommitMove
  <2> QED
    BY <1>0, <1>23, <2>2, <2>3 DEF CommitMove, TypeOK
<1>24. ASSUME NEW d \in Devices, Fail(d) PROVE TypeOK'
  <2>1. /\ request' \in [Devices -> Request]
        /\ rowlock' \in Devices \cup {None} /\ locks' \in [Addresses -> Devices \cup {None}]
    BY <1>0, <1>24, FinishDoes, UnlockDoes DEF Fail
  <2> QED
    BY <1>0, <1>24, <2>1 DEF Fail, TypeOK
<1>25. CASE UNCHANGED vars
  BY <1>0, <1>25 DEF vars, TypeOK
<1> QED
  BY <1>1, <1>2, <1>3, <1>4, <1>5, <1>6, <1>7, <1>8, <1>9, <1>10, <1>11, <1>12, <1>13,
     <1>14, <1>15, <1>16, <1>17, <1>18, <1>19, <1>20, <1>21, <1>22, <1>23, <1>24, <1>25
     DEF Next

(* What a request knows of itself stays true. *)
LEMMA RequestStep == IInv /\ [Next]_vars => RequestInv'
<1> SUFFICES ASSUME IInv, [Next]_vars PROVE RequestInv'
  OBVIOUS
<1> USE AccountsAssumption
<1>0. TypeOK /\ RequestInv /\ row.email \in Addresses /\ (row.password # None => row.password \in Passwords)
  BY DEF IInv, TypeOK, Row
<1>1. ASSUME NEW d \in Devices, Login(d) PROVE RequestInv'
  BY <1>0, <1>1 DEF Login, Start, Idle, TypeOK, RequestInv, Typing, SigningIn, Moving
<1>2. ASSUME NEW d \in Devices, SignIn(d) PROVE RequestInv'
  <2>1. CASE request' = [request EXCEPT ![d].pc = "upgrade", ![d].hash = row.hash]
    BY <1>0, <1>2, <2>1 DEF SignIn, TypeOK, RequestInv, Typing, SigningIn, Moving
  <2>2. CASE Finish(d)
    BY <1>0, <2>2 DEF Finish, Idle, TypeOK, RequestInv, Typing, SigningIn, Moving
  <2> QED
    BY <1>2, <2>1, <2>2 DEF SignIn
<1>3. ASSUME NEW d \in Devices, Upgrade(d) PROVE RequestInv'
  <2>1. CASE Goto(d, "refind")
    BY <1>0, <1>3, <2>1 DEF Upgrade, Goto, TypeOK, RequestInv, Typing, SigningIn, Moving
  <2>2. CASE Goto(d, "link")
    BY <1>0, <1>3, <2>2 DEF Upgrade, Goto, TypeOK, RequestInv, Typing, SigningIn, Moving
  <2> QED
    BY <1>3, <2>1, <2>2 DEF Upgrade
<1>4. ASSUME NEW d \in Devices, Refind(d) PROVE RequestInv'
  BY <1>0, <1>4 DEF Refind, TypeOK, RequestInv, Typing, SigningIn, Moving
<1>5. ASSUME NEW d \in Devices, Link(d) PROVE RequestInv'
  BY <1>0, <1>5 DEF Link, Goto, TypeOK, RequestInv, Typing, SigningIn, Moving
<1>6. ASSUME NEW d \in Devices, Issue(d) PROVE RequestInv'
  BY <1>0, <1>6 DEF Issue, Finish, Idle, TypeOK, RequestInv, Typing, SigningIn, Moving
<1>7. ASSUME NEW d \in Devices, Logout(d) PROVE RequestInv'
  BY <1>0, <1>7 DEF Logout, Start, Idle, TypeOK, RequestInv, Typing, SigningIn, Moving
<1>8. ASSUME NEW d \in Devices, Revoke(d) PROVE RequestInv'
  BY <1>0, <1>8 DEF Revoke, Finish, Idle, TypeOK, RequestInv, Typing, SigningIn, Moving
<1>9. ASSUME NEW d \in Devices, NEW op \in {"change", "ask"}, Open(d, op) PROVE RequestInv'
  BY <1>0, <1>9 DEF Open, Start, Idle, TypeOK, RequestInv, Typing, SigningIn, Moving
<1>10. ASSUME NEW d \in Devices, Verify(d) PROVE RequestInv'
  <2>1. ASSUME NEW p \in Passwords,
               request' = [request EXCEPT ![d].pc = "write", ![d].typed = p]
        PROVE  RequestInv'
    <3>1. /\ request'[d].pc = "write" /\ request'[d].typed = p
          /\ request'[d].op = request[d].op /\ request'[d].at = request[d].at
          /\ \A e \in Devices \ {d} : request'[e] = request[e]
      BY <1>0, <2>1, TypedDoes
    <3> QED
      BY <1>0, <1>10, <3>1 DEF Verify, RequestInv, Typing, SigningIn, Moving
  <2>2. CASE Goto(d, "ask")
    BY <1>0, <1>10, <2>2, GotoDoes DEF Verify, RequestInv, Typing, SigningIn, Moving
  <2>3. CASE Finish(d)
    BY <1>0, <2>3 DEF Finish, Idle, TypeOK, RequestInv, Typing, SigningIn, Moving
  <2> QED
    BY <1>10, <2>1, <2>2, <2>3 DEF Verify
<1>11. ASSUME NEW d \in Devices, ChangePassword(d) PROVE RequestInv'
  BY <1>0, <1>11 DEF ChangePassword, Goto, TypeOK, RequestInv, Typing, SigningIn, Moving
<1>12. ASSUME NEW d \in Devices, AskReset(d) PROVE RequestInv'
  BY <1>0, <1>12 DEF AskReset, Start, Idle, TypeOK, RequestInv, Typing, SigningIn, Moving
<1>13. ASSUME NEW d \in Devices, InsertReset(d) PROVE RequestInv'
  BY <1>0, <1>13 DEF InsertReset, Finish, Idle, TypeOK, RequestInv, Typing, SigningIn,
     Moving
<1>14. ASSUME NEW d \in Devices, NEW a \in Addresses, NEW p \in Passwords, Redeem(d, a, p)
       PROVE  RequestInv'
  BY <1>0, <1>14 DEF Redeem, Start, Idle, TypeOK, RequestInv, Typing, SigningIn, Moving
<1>15. ASSUME NEW d \in Devices, RedeemWrite(d) PROVE RequestInv'
  BY <1>0, <1>15 DEF RedeemWrite, Goto, TypeOK, RequestInv, Typing, SigningIn, Moving
<1>16. ASSUME NEW d \in Devices, NEW p \in Passwords, SetUp(d, p) PROVE RequestInv'
  BY <1>0, <1>16 DEF SetUp, Start, Idle, TypeOK, RequestInv, Typing, SigningIn, Moving
<1>17. ASSUME NEW d \in Devices, SetUpWrite(d) PROVE RequestInv'
  BY <1>0, <1>17 DEF SetUpWrite, Goto, TypeOK, RequestInv, Typing, SigningIn, Moving
<1>18. ASSUME NEW d \in Devices, InsertMove(d) PROVE RequestInv'
  BY <1>0, <1>18 DEF InsertMove, Finish, Idle, TypeOK, RequestInv, Typing, SigningIn, Moving
<1>19. ASSUME NEW d \in Devices, ConfirmMove(d) PROVE RequestInv'
  BY <1>0, <1>19 DEF ConfirmMove, Start, Idle, TypeOK, RequestInv, Typing, SigningIn, Moving
<1>20. ASSUME NEW d \in Devices, WriteMove(d) PROVE RequestInv'
  BY <1>0, <1>20 DEF WriteMove, Goto, TypeOK, RequestInv, Typing, SigningIn, Moving
<1>21. ASSUME NEW d \in Devices, DeleteReset(d) PROVE RequestInv'
  BY <1>0, <1>21 DEF DeleteReset, Goto, TypeOK, RequestInv, Typing, SigningIn, Moving
<1>22. ASSUME NEW d \in Devices, CallStripe(d) PROVE RequestInv'
  BY <1>0, <1>22 DEF CallStripe, Goto, TypeOK, RequestInv, Typing, SigningIn, Moving
<1>23. ASSUME NEW d \in Devices, CommitMove(d) PROVE RequestInv'
  BY <1>0, <1>23 DEF CommitMove, Finish, Idle, TypeOK, RequestInv, Typing, SigningIn, Moving
<1>24. ASSUME NEW d \in Devices, Fail(d) PROVE RequestInv'
  BY <1>0, <1>24 DEF Fail, Finish, Idle, TypeOK, RequestInv, Typing, SigningIn, Moving
<1>25. CASE UNCHANGED vars
  BY <1>0, <1>25 DEF vars, TypeOK, RequestInv, Typing, SigningIn, Moving
<1> QED
  BY <1>1, <1>2, <1>3, <1>4, <1>5, <1>6, <1>7, <1>8, <1>9, <1>10, <1>11, <1>12, <1>13,
     <1>14, <1>15, <1>16, <1>17, <1>18, <1>19, <1>20, <1>21, <1>22, <1>23, <1>24, <1>25
     DEF Next

(* Locks are held from the statement that takes them to the commit. *)
LEMMA LockStep == IInv /\ [Next]_vars => LockInv'
<1> SUFFICES ASSUME IInv, [Next]_vars PROVE LockInv'
  OBVIOUS
<1> USE AccountsAssumption
<1>0. TypeOK /\ LockInv /\ RequestInv /\ row.hash \in Nat
  BY DEF IInv, TypeOK, Row
<1>1. ASSUME NEW d \in Devices, Login(d) PROVE LockInv'
  BY <1>0, <1>1 DEF Login, Start, Idle, TypeOK, LockInv
<1>2. ASSUME NEW d \in Devices, SignIn(d) PROVE LockInv'
  BY <1>0, <1>2, SignInDoes DEF SignIn, LockInv
<1>3. ASSUME NEW d \in Devices, Upgrade(d) PROVE LockInv'
  BY <1>0, <1>3, GotoDoes DEF Upgrade, LockInv
<1>4. ASSUME NEW d \in Devices, Refind(d) PROVE LockInv'
  BY <1>0, <1>4 DEF Refind, TypeOK, LockInv
<1>5. ASSUME NEW d \in Devices, Link(d) PROVE LockInv'
  BY <1>0, <1>5 DEF Link, Goto, TypeOK, LockInv
<1>6. ASSUME NEW d \in Devices, Issue(d) PROVE LockInv'
  BY <1>0, <1>6 DEF Issue, Finish, Unlock, Idle, TypeOK, LockInv
<1>7. ASSUME NEW d \in Devices, Logout(d) PROVE LockInv'
  BY <1>0, <1>7 DEF Logout, Start, Idle, TypeOK, LockInv
<1>8. ASSUME NEW d \in Devices, Revoke(d) PROVE LockInv'
  BY <1>0, <1>8 DEF Revoke, Finish, Unlock, Idle, TypeOK, LockInv
<1>9. ASSUME NEW d \in Devices, NEW op \in {"change", "ask"}, Open(d, op) PROVE LockInv'
  BY <1>0, <1>9 DEF Open, Start, Idle, TypeOK, LockInv
<1>10. ASSUME NEW d \in Devices, Verify(d) PROVE LockInv'
  BY <1>0, <1>10, TypedDoes, GotoDoes, FinishDoes DEF Verify, LockInv
<1>11. ASSUME NEW d \in Devices, ChangePassword(d) PROVE LockInv'
  BY <1>0, <1>11 DEF ChangePassword, Goto, TypeOK, LockInv
<1>12. ASSUME NEW d \in Devices, AskReset(d) PROVE LockInv'
  BY <1>0, <1>12 DEF AskReset, Start, Idle, TypeOK, LockInv
<1>13. ASSUME NEW d \in Devices, InsertReset(d) PROVE LockInv'
  BY <1>0, <1>13 DEF InsertReset, Finish, Unlock, Idle, TypeOK, LockInv
<1>14. ASSUME NEW d \in Devices, NEW a \in Addresses, NEW p \in Passwords, Redeem(d, a, p)
       PROVE  LockInv'
  BY <1>0, <1>14 DEF Redeem, Start, Idle, TypeOK, LockInv, ResetFree
<1>15. ASSUME NEW d \in Devices, RedeemWrite(d) PROVE LockInv'
  BY <1>0, <1>15, GotoDoes, UnlockDoes DEF RedeemWrite, LockInv, RequestInv
<1>16. ASSUME NEW d \in Devices, NEW p \in Passwords, SetUp(d, p) PROVE LockInv'
  BY <1>0, <1>16 DEF SetUp, Start, Idle, TypeOK, LockInv, RowFree
<1>17. ASSUME NEW d \in Devices, SetUpWrite(d) PROVE LockInv'
  BY <1>0, <1>17, GotoDoes, UnlockDoes DEF SetUpWrite, LockInv, RequestInv
<1>18. ASSUME NEW d \in Devices, InsertMove(d) PROVE LockInv'
  BY <1>0, <1>18 DEF InsertMove, Finish, Unlock, Idle, TypeOK, LockInv
<1>19. ASSUME NEW d \in Devices, ConfirmMove(d) PROVE LockInv'
  BY <1>0, <1>19 DEF ConfirmMove, Start, Idle, TypeOK, LockInv
<1>20. ASSUME NEW d \in Devices, WriteMove(d) PROVE LockInv'
  BY <1>0, <1>20 DEF WriteMove, Goto, TypeOK, LockInv, RowFree
<1>21. ASSUME NEW d \in Devices, DeleteReset(d) PROVE LockInv'
  BY <1>0, <1>21 DEF DeleteReset, Goto, TypeOK, LockInv, ResetFree
<1>22. ASSUME NEW d \in Devices, CallStripe(d) PROVE LockInv'
  BY <1>0, <1>22 DEF CallStripe, Goto, TypeOK, LockInv
<1>23. ASSUME NEW d \in Devices, CommitMove(d) PROVE LockInv'
  BY <1>0, <1>23, FinishDoes, UnlockDoes DEF CommitMove, LockInv, RequestInv
<1>24. ASSUME NEW d \in Devices, Fail(d) PROVE LockInv'
  BY <1>0, <1>24, FinishDoes, UnlockDoes DEF Fail, LockInv, RequestInv
<1>25. CASE UNCHANGED vars
  BY <1>0, <1>25 DEF vars, Unlock, TypeOK, LockInv
<1> QED
  BY <1>1, <1>2, <1>3, <1>4, <1>5, <1>6, <1>7, <1>8, <1>9, <1>10, <1>11, <1>12, <1>13,
     <1>14, <1>15, <1>16, <1>17, <1>18, <1>19, <1>20, <1>21, <1>22, <1>23, <1>24, <1>25
     DEF Next

(* A step that leaves the password None starts nothing that needs one. *)
LEMMA PasswordStep == IInv /\ [Next]_vars => PasswordInv'
<1> SUFFICES ASSUME IInv, [Next]_vars PROVE PasswordInv'
  OBVIOUS
<1> USE AccountsAssumption
<1>0. TypeOK /\ PasswordInv /\ RequestInv /\ row \in Row /\ row.email \in Addresses /\ row.hash \in Nat
  BY DEF IInv, TypeOK, Row
<1>1. ASSUME NEW d \in Devices, Login(d) PROVE PasswordInv'
  BY <1>0, <1>1, StartDoes DEF Login, PasswordInv, RequestInv, SigningIn, Moving, Typing
<1>2. ASSUME NEW d \in Devices, SignIn(d) PROVE PasswordInv'
  BY <1>0, <1>2, SignInDoes DEF SignIn, PasswordInv, RequestInv, SigningIn, Moving, Typing
<1>3. ASSUME NEW d \in Devices, Upgrade(d) PROVE PasswordInv'
  BY <1>0, <1>3, UpgradeDoes DEF Upgrade, PasswordInv, RequestInv, SigningIn, Moving, Typing
<1>4. ASSUME NEW d \in Devices, Refind(d) PROVE PasswordInv'
  BY <1>0, <1>4, HashDoes DEF Refind, PasswordInv, RequestInv, SigningIn, Moving, Typing
<1>5. ASSUME NEW d \in Devices, Link(d) PROVE PasswordInv'
  BY <1>0, <1>5, LinkDoes DEF Link, PasswordInv, RequestInv, SigningIn, Moving, Typing
<1>6. ASSUME NEW d \in Devices, Issue(d) PROVE PasswordInv'
  BY <1>0, <1>6, FinishDoes DEF Issue, PasswordInv, RequestInv, SigningIn, Moving, Typing
<1>7. ASSUME NEW d \in Devices, Logout(d) PROVE PasswordInv'
  BY <1>0, <1>7, StartDoes DEF Logout, PasswordInv, RequestInv, SigningIn, Moving, Typing
<1>8. ASSUME NEW d \in Devices, Revoke(d) PROVE PasswordInv'
  BY <1>0, <1>8, FinishDoes, SaveDoes DEF Revoke, PasswordInv, RequestInv, SigningIn,
     Moving, Typing
<1>9. ASSUME NEW d \in Devices, NEW op \in {"change", "ask"}, Open(d, op) PROVE PasswordInv'
  <2>1. row.password # None /\ UNCHANGED <<row, cookie, move>>
    BY <1>0, <1>9 DEF Open, Accepted, PasswordInv
  <2>2. \A e \in Devices \ {d} : request'[e] = request[e]
    BY <1>0, <1>9 DEF Open, Start, TypeOK
  <2> QED
    BY <1>0, <2>1, <2>2 DEF PasswordInv
<1>10. ASSUME NEW d \in Devices, Verify(d) PROVE PasswordInv'
  BY <1>0, <1>10, TypedDoes, GotoDoes, FinishDoes DEF Verify, PasswordInv, RequestInv,
     SigningIn, Moving, Typing
<1>11. ASSUME NEW d \in Devices, ChangePassword(d) PROVE PasswordInv'
  BY <1>0, <1>11, GotoDoes, NewPasswordDoes DEF ChangePassword, PasswordInv, RequestInv,
     SigningIn, Moving, Typing
<1>12. ASSUME NEW d \in Devices, AskReset(d) PROVE PasswordInv'
  <2>1. /\ request'[d].pc = "insert"
        /\ \A e \in Devices \ {d} : request'[e] = request[e]
    BY <1>0, <1>12, StartDoes DEF AskReset
  <2> QED
    BY <1>0, <1>12, <2>1 DEF AskReset, PasswordInv, SigningIn, Moving
<1>13. ASSUME NEW d \in Devices, InsertReset(d) PROVE PasswordInv'
  BY <1>0, <1>13, FinishDoes DEF InsertReset, PasswordInv, RequestInv, SigningIn,
     Moving, Typing
<1>14. ASSUME NEW d \in Devices, NEW a \in Addresses, NEW p \in Passwords, Redeem(d, a, p)
       PROVE  PasswordInv'
  <2>1. /\ request'[d].pc = "redeem"
        /\ \A e \in Devices \ {d} : request'[e] = request[e]
    BY <1>0, <1>14, StartDoes DEF Redeem
  <2> QED
    BY <1>0, <1>14, <2>1 DEF Redeem, PasswordInv, SigningIn, Moving
<1>15. ASSUME NEW d \in Devices, RedeemWrite(d) PROVE PasswordInv'
  BY <1>0, <1>15, GotoDoes, NewPasswordDoes DEF RedeemWrite, PasswordInv, RequestInv,
     SigningIn, Moving, Typing
<1>16. ASSUME NEW d \in Devices, NEW p \in Passwords, SetUp(d, p) PROVE PasswordInv'
  <2>1. /\ request'[d].pc = "setting"
        /\ \A e \in Devices \ {d} : request'[e] = request[e]
    BY <1>0, <1>16 DEF SetUp, Start, TypeOK
  <2> QED
    BY <1>0, <1>16, <2>1 DEF SetUp, PasswordInv, SigningIn, Moving
<1>17. ASSUME NEW d \in Devices, SetUpWrite(d) PROVE PasswordInv'
  BY <1>0, <1>17, GotoDoes, NewPasswordDoes DEF SetUpWrite, PasswordInv, RequestInv,
     SigningIn, Moving, Typing
<1>18. ASSUME NEW d \in Devices, InsertMove(d) PROVE PasswordInv'
  BY <1>0, <1>18, FinishDoes DEF InsertMove, PasswordInv, RequestInv, SigningIn, Moving,
     Typing
<1>19. ASSUME NEW d \in Devices, ConfirmMove(d) PROVE PasswordInv'
  BY <1>0, <1>19, StartDoes DEF ConfirmMove, PasswordInv, RequestInv, SigningIn, Moving,
     Typing
<1>20. ASSUME NEW d \in Devices, WriteMove(d) PROVE PasswordInv'
  BY <1>0, <1>20, GotoDoes DEF WriteMove, PasswordInv, RequestInv, SigningIn, Moving, Typing
<1>21. ASSUME NEW d \in Devices, DeleteReset(d) PROVE PasswordInv'
  BY <1>0, <1>21, GotoDoes DEF DeleteReset, PasswordInv, RequestInv, SigningIn, Moving,
     Typing
<1>22. ASSUME NEW d \in Devices, CallStripe(d) PROVE PasswordInv'
  BY <1>0, <1>22, GotoDoes DEF CallStripe, PasswordInv, RequestInv, SigningIn, Moving,
     Typing
<1>23. ASSUME NEW d \in Devices, CommitMove(d) PROVE PasswordInv'
  BY <1>0, <1>23, CommitDoes DEF CommitMove, PasswordInv, RequestInv, SigningIn, Moving,
     Typing
<1>24. ASSUME NEW d \in Devices, Fail(d) PROVE PasswordInv'
  BY <1>0, <1>24, FinishDoes DEF Fail, PasswordInv, RequestInv, SigningIn, Moving, Typing
<1>25. CASE UNCHANGED vars
  BY <1>0, <1>25 DEF vars, PasswordInv, RequestInv, SigningIn, Moving, Typing
<1> QED
  BY <1>1, <1>2, <1>3, <1>4, <1>5, <1>6, <1>7, <1>8, <1>9, <1>10, <1>11, <1>12, <1>13,
     <1>14, <1>15, <1>16, <1>17, <1>18, <1>19, <1>20, <1>21, <1>22, <1>23, <1>24, <1>25
     DEF Next

-----------------------------------------------------------------------------
(* A step leaves the row alone or advances its revision, and the password  *)
(* comes with a new hash.                                                  *)
RowDoes ==
  /\ row' \in Row
  /\ row' = row \/ row'.revision = row.revision + 1
  /\ (row'.hash = row.hash /\ row'.password = row.password) \/ row'.hash = row.hash + 1

(* That is what every step does to the row. *)
LEMMA RowStep == TypeOK /\ [Next]_vars => RowDoes
<1> SUFFICES ASSUME TypeOK, [Next]_vars PROVE RowDoes
  OBVIOUS
<1>0. row \in Row
  BY DEF TypeOK
<1>1. ASSUME NEW d \in Devices, Login(d) PROVE RowDoes
  BY <1>0, <1>1 DEF Login, RowDoes
<1>2. ASSUME NEW d \in Devices, SignIn(d) PROVE RowDoes
  BY <1>0, <1>2 DEF SignIn, RowDoes
<1>3. ASSUME NEW d \in Devices, Upgrade(d) PROVE RowDoes
  BY <1>0, <1>3, UpgradeDoes DEF RowDoes
<1>4. ASSUME NEW d \in Devices, Refind(d) PROVE RowDoes
  BY <1>0, <1>4 DEF Refind, RowDoes
<1>5. ASSUME NEW d \in Devices, Link(d) PROVE RowDoes
  BY <1>0, <1>5, LinkDoes DEF RowDoes
<1>6. ASSUME NEW d \in Devices, Issue(d) PROVE RowDoes
  BY <1>0, <1>6 DEF Issue, RowDoes
<1>7. ASSUME NEW d \in Devices, Logout(d) PROVE RowDoes
  BY <1>0, <1>7 DEF Logout, RowDoes
<1>8. ASSUME NEW d \in Devices, Revoke(d) PROVE RowDoes
  BY <1>0, <1>8, SaveDoes DEF Revoke, RowDoes
<1>9. ASSUME NEW d \in Devices, NEW op \in {"change", "ask"}, Open(d, op) PROVE RowDoes
  BY <1>0, <1>9 DEF Open, RowDoes
<1>10. ASSUME NEW d \in Devices, Verify(d) PROVE RowDoes
  BY <1>0, <1>10 DEF Verify, RowDoes
<1>11. ASSUME NEW d \in Devices, ChangePassword(d) PROVE RowDoes
  <2>1. request[d].typed \in Passwords \cup {None}
    BY DEF TypeOK, Request
  <2> QED
    BY <1>0, <1>11, <2>1, NewPasswordDoes DEF ChangePassword, RowDoes
<1>12. ASSUME NEW d \in Devices, AskReset(d) PROVE RowDoes
  BY <1>0, <1>12 DEF AskReset, RowDoes
<1>13. ASSUME NEW d \in Devices, InsertReset(d) PROVE RowDoes
  BY <1>0, <1>13 DEF InsertReset, RowDoes
<1>14. ASSUME NEW d \in Devices, NEW a \in Addresses, NEW p \in Passwords, Redeem(d, a, p)
       PROVE  RowDoes
  BY <1>0, <1>14 DEF Redeem, RowDoes
<1>15. ASSUME NEW d \in Devices, RedeemWrite(d) PROVE RowDoes
  <2>1. request[d].typed \in Passwords \cup {None}
    BY DEF TypeOK, Request
  <2> QED
    BY <1>0, <1>15, <2>1, NewPasswordDoes DEF RedeemWrite, RowDoes
<1>16. ASSUME NEW d \in Devices, NEW p \in Passwords, SetUp(d, p) PROVE RowDoes
  BY <1>0, <1>16 DEF SetUp, RowDoes
<1>17. ASSUME NEW d \in Devices, SetUpWrite(d) PROVE RowDoes
  <2>1. request[d].typed \in Passwords \cup {None}
    BY DEF TypeOK, Request
  <2> QED
    BY <1>0, <1>17, <2>1, NewPasswordDoes DEF SetUpWrite, RowDoes
<1>18. ASSUME NEW d \in Devices, InsertMove(d) PROVE RowDoes
  BY <1>0, <1>18 DEF InsertMove, RowDoes
<1>19. ASSUME NEW d \in Devices, ConfirmMove(d) PROVE RowDoes
  BY <1>0, <1>19 DEF ConfirmMove, RowDoes
<1>20. ASSUME NEW d \in Devices, WriteMove(d) PROVE RowDoes
  BY <1>0, <1>20 DEF WriteMove, RowDoes
<1>21. ASSUME NEW d \in Devices, DeleteReset(d) PROVE RowDoes
  BY <1>0, <1>21 DEF DeleteReset, RowDoes
<1>22. ASSUME NEW d \in Devices, CallStripe(d) PROVE RowDoes
  BY <1>0, <1>22 DEF CallStripe, RowDoes
<1>23. ASSUME NEW d \in Devices, CommitMove(d) PROVE RowDoes
  BY <1>0, <1>23, CommitDoes DEF RowDoes
<1>24. ASSUME NEW d \in Devices, Fail(d) PROVE RowDoes
  BY <1>0, <1>24 DEF Fail, RowDoes
<1>25. CASE UNCHANGED vars
  BY <1>0, <1>25 DEF vars, RowDoes
<1> QED
  BY <1>1, <1>2, <1>3, <1>4, <1>5, <1>6, <1>7, <1>8, <1>9, <1>10, <1>11, <1>12, <1>13,
     <1>14, <1>15, <1>16, <1>17, <1>18, <1>19, <1>20, <1>21, <1>22, <1>23, <1>24, <1>25
     DEF Next

(* The others know what they knew, whatever became of the row. *)
LEMMA HashFrom ==
  ASSUME TypeOK, HashInv, RowDoes, NEW d \in Devices,
         \A e \in Devices \ {d} : request'[e] = request[e] /\ cookie'[e] = cookie[e],
         request'[d].pc \notin SigningIn \/ RequestHash(d)',
         cookie'[d] \in {cookie[d], None} \/ CookieHash(d)'
  PROVE  HashInv'
<1>1. /\ row.hash \in Nat /\ row.revision \in Nat /\ row'.hash \in Nat /\ row'.revision \in Nat
      /\ row'.revision >= row.revision
  BY DEF TypeOK, RowDoes, Row
<1>2. ASSUME NEW e \in Devices, request'[e] = request[e] PROVE RequestHash(e)'
  <2>1. request[e].hash \in Nat
    BY DEF TypeOK, Request
  <2> QED
    BY <1>1, <1>2, <2>1 DEF HashInv, RequestHash, RowDoes
<1>3. ASSUME NEW e \in Devices, cookie'[e] = cookie[e] PROVE CookieHash(e)'
  <2>1. cookie[e] # None => cookie[e].hash \in Nat /\ cookie[e].revision \in Nat
    BY DEF TypeOK, Cookie
  <2> QED
    BY <1>1, <1>3, <2>1 DEF HashInv, CookieHash, RowDoes
<1>4. RequestHash(d)' /\ CookieHash(d)'
  BY <1>3 DEF RequestHash, CookieHash
<1> QED
  BY <1>2, <1>3, <1>4 DEF HashInv

(* A hash that is known goes with the password that was typed. *)
LEMMA HashStep == IInv /\ [Next]_vars => HashInv'
<1> SUFFICES ASSUME IInv, [Next]_vars PROVE HashInv'
  OBVIOUS
<1> USE AccountsAssumption
<1>0. /\ TypeOK /\ HashInv /\ RowDoes
      /\ row.hash \in Nat /\ row.revision \in Nat
  BY RowStep DEF IInv, TypeOK, Row
<1>1. ASSUME NEW d \in Devices, Login(d) PROVE HashInv'
  <2>1. /\ \A e \in Devices \ {d} : request'[e] = request[e] /\ cookie'[e] = cookie[e]
        /\ cookie'[d] = cookie[d]
    BY <1>0, <1>1 DEF Login, Start, TypeOK
  <2>2. row' = row /\ request'[d].hash = row.hash /\ request'[d].typed = row.password
    BY <1>0, <1>1 DEF Login, Start, TypeOK
  <2>3. RequestHash(d)'
    BY <1>0, <2>2 DEF RequestHash
  <2> QED
    BY <1>0, <2>1, <2>3, HashFrom
<1>2. ASSUME NEW d \in Devices, SignIn(d) PROVE HashInv'
  <2>1. /\ \A e \in Devices \ {d} : request'[e] = request[e] /\ cookie'[e] = cookie[e]
        /\ cookie'[d] = cookie[d] /\ row' = row
    BY <1>0, <1>2, SignInDoes DEF SignIn
  <2>2. request'[d].pc \notin SigningIn \/ RequestHash(d)'
    BY <1>0, <1>2, <2>1, SignInDoes DEF RequestHash, SigningIn
  <2> QED
    BY <1>0, <2>1, <2>2, HashFrom
<1>3. ASSUME NEW d \in Devices, Upgrade(d) PROVE HashInv'
  <2>1. /\ \A e \in Devices \ {d} : request'[e] = request[e] /\ cookie'[e] = cookie[e]
        /\ cookie'[d] = cookie[d]
    BY <1>0, <1>3, UpgradeDoes DEF Upgrade
  <2>2. RequestHash(d)'
    BY <1>0, <1>3, UpgradeDoes DEF RequestHash, HashInv, SigningIn
  <2> QED
    BY <1>0, <2>1, <2>2, HashFrom
<1>4. ASSUME NEW d \in Devices, Refind(d) PROVE HashInv'
  <2>1. request[d].hash \in Nat
    BY <1>0 DEF TypeOK, Request
  <2>2. /\ \A e \in Devices \ {d} : request'[e] = request[e] /\ cookie'[e] = cookie[e]
        /\ cookie'[d] = cookie[d] /\ row' = row
        /\ request'[d].upgraded /\ request'[d].hash \in {request[d].hash, row.hash}
    BY <1>0, <1>4, <2>1, HashDoes DEF Refind
  <2>3. request[d].hash <= row.hash
    BY <1>0, <1>4 DEF Refind, HashInv, RequestHash, SigningIn
  <2>4. RequestHash(d)'
    BY <1>0, <2>2, <2>3 DEF RequestHash
  <2> QED
    BY <1>0, <2>2, <2>4, HashFrom
<1>5. ASSUME NEW d \in Devices, Link(d) PROVE HashInv'
  <2>1. /\ \A e \in Devices \ {d} : request'[e] = request[e] /\ cookie'[e] = cookie[e]
        /\ cookie'[d] = cookie[d]
    BY <1>0, <1>5, LinkDoes DEF Link
  <2>2. RequestHash(d)'
    BY <1>0, <1>5, LinkDoes DEF RequestHash, HashInv, SigningIn
  <2> QED
    BY <1>0, <2>1, <2>2, HashFrom
<1>6. ASSUME NEW d \in Devices, Issue(d) PROVE HashInv'
  <2>1. /\ \A e \in Devices \ {d} : request'[e] = request[e] /\ cookie'[e] = cookie[e]
        /\ request'[d].pc \notin SigningIn
    BY <1>0, <1>6, FinishDoes DEF Issue, SigningIn, TypeOK
  <2>2. CASE Known(d)
    <3>1. /\ cookie'[d].hash = row.hash /\ cookie'[d].revision = row.revision /\ row' = row
          /\ cookie'[d].typed = request[d].typed /\ cookie'[d].upgraded = request[d].upgraded
      BY <1>0, <1>6, <2>2 DEF Issue, Session, TypeOK
    <3>2. request[d].upgraded \/ request[d].typed = row.password
      BY <1>0, <1>6, <2>2 DEF Issue, Known, HashInv, RequestHash, SigningIn
    <3>3. CookieHash(d)'
      BY <1>0, <3>1, <3>2 DEF CookieHash
    <3> QED
      BY <1>0, <2>1, <3>3, HashFrom
  <2>3. CASE ~Known(d)
    <3>1. cookie'[d] = cookie[d]
      BY <1>0, <1>6, <2>3 DEF Issue, TypeOK
    <3> QED
      BY <1>0, <2>1, <3>1, HashFrom
  <2> QED
    BY <2>2, <2>3
<1>7. ASSUME NEW d \in Devices, Logout(d) PROVE HashInv'
  <2>1. /\ \A e \in Devices \ {d} : request'[e] = request[e] /\ cookie'[e] = cookie[e]
        /\ request'[d].pc \notin SigningIn /\ cookie'[d] \in {cookie[d], None}
    BY <1>0, <1>7 DEF Logout, SigningIn, Start, Idle, TypeOK
  <2> QED
    BY <1>0, <2>1, HashFrom
<1>8. ASSUME NEW d \in Devices, Revoke(d) PROVE HashInv'
  <2>1. /\ \A e \in Devices \ {d} : request'[e] = request[e] /\ cookie'[e] = cookie[e]
        /\ request'[d].pc \notin SigningIn /\ cookie'[d] \in {cookie[d], None}
    BY <1>0, <1>8, FinishDoes DEF Revoke, SigningIn, TypeOK
  <2> QED
    BY <1>0, <2>1, HashFrom
<1>9. ASSUME NEW d \in Devices, NEW op \in {"change", "ask"}, Open(d, op) PROVE HashInv'
  <2>1. /\ \A e \in Devices \ {d} : request'[e] = request[e] /\ cookie'[e] = cookie[e]
        /\ request'[d].pc \notin SigningIn /\ cookie'[d] \in {cookie[d], None}
    BY <1>0, <1>9 DEF Open, SigningIn, Start, TypeOK
  <2> QED
    BY <1>0, <2>1, HashFrom
<1>10. ASSUME NEW d \in Devices, Verify(d) PROVE HashInv'
  <2>1. /\ \A e \in Devices \ {d} : request'[e] = request[e] /\ cookie'[e] = cookie[e]
        /\ request'[d].pc \notin SigningIn /\ cookie'[d] \in {cookie[d], None}
    BY <1>0, <1>10, TypedDoes, GotoDoes, FinishDoes DEF Verify, SigningIn
  <2> QED
    BY <1>0, <2>1, HashFrom
<1>11. ASSUME NEW d \in Devices, ChangePassword(d) PROVE HashInv'
  <2>1. /\ \A e \in Devices \ {d} : request'[e] = request[e] /\ cookie'[e] = cookie[e]
        /\ request'[d].pc \notin SigningIn /\ cookie'[d] \in {cookie[d], None}
    BY <1>0, <1>11, GotoDoes DEF ChangePassword, SigningIn
  <2> QED
    BY <1>0, <2>1, HashFrom
<1>12. ASSUME NEW d \in Devices, AskReset(d) PROVE HashInv'
  <2>1. /\ \A e \in Devices \ {d} : request'[e] = request[e] /\ cookie'[e] = cookie[e]
        /\ request'[d].pc \notin SigningIn /\ cookie'[d] \in {cookie[d], None}
    BY <1>0, <1>12 DEF AskReset, SigningIn, Start, TypeOK
  <2> QED
    BY <1>0, <2>1, HashFrom
<1>13. ASSUME NEW d \in Devices, InsertReset(d) PROVE HashInv'
  <2>1. /\ \A e \in Devices \ {d} : request'[e] = request[e] /\ cookie'[e] = cookie[e]
        /\ request'[d].pc \notin SigningIn /\ cookie'[d] \in {cookie[d], None}
    BY <1>0, <1>13, FinishDoes DEF InsertReset, SigningIn
  <2> QED
    BY <1>0, <2>1, HashFrom
<1>14. ASSUME NEW d \in Devices, NEW a \in Addresses, NEW p \in Passwords, Redeem(d, a, p)
       PROVE  HashInv'
  <2>1. /\ \A e \in Devices \ {d} : request'[e] = request[e] /\ cookie'[e] = cookie[e]
        /\ request'[d].pc \notin SigningIn /\ cookie'[d] \in {cookie[d], None}
    BY <1>0, <1>14 DEF Redeem, SigningIn, Start, TypeOK
  <2> QED
    BY <1>0, <2>1, HashFrom
<1>15. ASSUME NEW d \in Devices, RedeemWrite(d) PROVE HashInv'
  <2>1. /\ \A e \in Devices \ {d} : request'[e] = request[e] /\ cookie'[e] = cookie[e]
        /\ request'[d].pc \notin SigningIn /\ cookie'[d] \in {cookie[d], None}
    BY <1>0, <1>15, GotoDoes DEF RedeemWrite, SigningIn
  <2> QED
    BY <1>0, <2>1, HashFrom
<1>16. ASSUME NEW d \in Devices, NEW p \in Passwords, SetUp(d, p) PROVE HashInv'
  <2>1. /\ \A e \in Devices \ {d} : request'[e] = request[e] /\ cookie'[e] = cookie[e]
        /\ request'[d].pc \notin SigningIn /\ cookie'[d] \in {cookie[d], None}
    BY <1>0, <1>16 DEF SetUp, SigningIn, Start, TypeOK
  <2> QED
    BY <1>0, <2>1, HashFrom
<1>17. ASSUME NEW d \in Devices, SetUpWrite(d) PROVE HashInv'
  <2>1. /\ \A e \in Devices \ {d} : request'[e] = request[e] /\ cookie'[e] = cookie[e]
        /\ request'[d].pc \notin SigningIn /\ cookie'[d] \in {cookie[d], None}
    BY <1>0, <1>17, GotoDoes DEF SetUpWrite, SigningIn
  <2> QED
    BY <1>0, <2>1, HashFrom
<1>18. ASSUME NEW d \in Devices, InsertMove(d) PROVE HashInv'
  <2>1. /\ \A e \in Devices \ {d} : request'[e] = request[e] /\ cookie'[e] = cookie[e]
        /\ request'[d].pc \notin SigningIn /\ cookie'[d] \in {cookie[d], None}
    BY <1>0, <1>18, FinishDoes DEF InsertMove, SigningIn
  <2> QED
    BY <1>0, <2>1, HashFrom
<1>19. ASSUME NEW d \in Devices, ConfirmMove(d) PROVE HashInv'
  <2>1. /\ \A e \in Devices \ {d} : request'[e] = request[e] /\ cookie'[e] = cookie[e]
        /\ request'[d].pc \notin SigningIn /\ cookie'[d] \in {cookie[d], None}
    BY <1>0, <1>19 DEF ConfirmMove, SigningIn, Start, TypeOK
  <2> QED
    BY <1>0, <2>1, HashFrom
<1>20. ASSUME NEW d \in Devices, WriteMove(d) PROVE HashInv'
  <2>1. /\ \A e \in Devices \ {d} : request'[e] = request[e] /\ cookie'[e] = cookie[e]
        /\ request'[d].pc \notin SigningIn /\ cookie'[d] \in {cookie[d], None}
    BY <1>0, <1>20, GotoDoes DEF WriteMove, SigningIn
  <2> QED
    BY <1>0, <2>1, HashFrom
<1>21. ASSUME NEW d \in Devices, DeleteReset(d) PROVE HashInv'
  <2>1. /\ \A e \in Devices \ {d} : request'[e] = request[e] /\ cookie'[e] = cookie[e]
        /\ request'[d].pc \notin SigningIn /\ cookie'[d] \in {cookie[d], None}
    BY <1>0, <1>21, GotoDoes DEF DeleteReset, SigningIn
  <2> QED
    BY <1>0, <2>1, HashFrom
<1>22. ASSUME NEW d \in Devices, CallStripe(d) PROVE HashInv'
  <2>1. /\ \A e \in Devices \ {d} : request'[e] = request[e] /\ cookie'[e] = cookie[e]
        /\ request'[d].pc \notin SigningIn /\ cookie'[d] \in {cookie[d], None}
    BY <1>0, <1>22, GotoDoes DEF CallStripe, SigningIn
  <2> QED
    BY <1>0, <2>1, HashFrom
<1>23. ASSUME NEW d \in Devices, CommitMove(d) PROVE HashInv'
  <2>1. /\ \A e \in Devices \ {d} : request'[e] = request[e] /\ cookie'[e] = cookie[e]
        /\ request'[d].pc \notin SigningIn /\ cookie'[d] \in {cookie[d], None}
    BY <1>0, <1>23, CommitDoes DEF CommitMove, SigningIn, TypeOK
  <2> QED
    BY <1>0, <2>1, HashFrom
<1>24. ASSUME NEW d \in Devices, Fail(d) PROVE HashInv'
  <2>1. /\ \A e \in Devices \ {d} : request'[e] = request[e] /\ cookie'[e] = cookie[e]
        /\ request'[d].pc \notin SigningIn /\ cookie'[d] \in {cookie[d], None}
    BY <1>0, <1>24, FinishDoes DEF Fail, SigningIn
  <2> QED
    BY <1>0, <2>1, HashFrom
<1>25. CASE UNCHANGED vars
  BY <1>0, <1>25 DEF vars, HashInv, RequestHash, CookieHash
<1> QED
  BY <1>1, <1>2, <1>3, <1>4, <1>5, <1>6, <1>7, <1>8, <1>9, <1>10, <1>11, <1>12, <1>13,
     <1>14, <1>15, <1>16, <1>17, <1>18, <1>19, <1>20, <1>21, <1>22, <1>23, <1>24, <1>25
     DEF Next

-----------------------------------------------------------------------------
(* A device that is not setting the account up by a step, and the others. *)
LEMMA SetUpFrom ==
  ASSUME SetUpInv, NEW d \in Devices,
         \A e \in Devices \ {d} : request'[e] = request[e],
         \/ row'.password = row.password /\ row'.email = row.email
         \/ \A e \in Devices \ {d} : ~Setting(e),
         Setting(d)' => row'.password = None /\ row'.email = request'[d].at
  PROVE  SetUpInv'
BY DEF SetUpInv, Setting

(* Nobody gives the account a password under a setup. *)
LEMMA SetUpStep == IInv /\ [Next]_vars => SetUpInv'
<1> SUFFICES ASSUME IInv, [Next]_vars PROVE SetUpInv'
  OBVIOUS
<1> USE AccountsAssumption
<1>0. TypeOK /\ SetUpInv /\ PasswordInv /\ LockInv /\ RequestInv /\ row \in Row
  BY DEF IInv, TypeOK
<1>1. ASSUME NEW d \in Devices, Login(d) PROVE SetUpInv'
  <2>1. /\ \A e \in Devices \ {d} : request'[e] = request[e]
        /\ row'.password = row.password /\ row'.email = row.email
        /\ ~Setting(d)'
    BY <1>0, <1>1 DEF Login, Start, Idle, TypeOK, Setting
  <2> QED
    BY <1>0, <2>1, SetUpFrom
<1>2. ASSUME NEW d \in Devices, SignIn(d) PROVE SetUpInv'
  <2>1. /\ \A e \in Devices \ {d} : request'[e] = request[e]
        /\ row'.password = row.password /\ row'.email = row.email
        /\ ~Setting(d)'
    BY <1>0, <1>2, SignInDoes DEF SignIn, Setting
  <2> QED
    BY <1>0, <2>1, SetUpFrom
<1>3. ASSUME NEW d \in Devices, Upgrade(d) PROVE SetUpInv'
  <2>1. /\ \A e \in Devices \ {d} : request'[e] = request[e]
        /\ row'.password = row.password /\ row'.email = row.email
        /\ ~Setting(d)'
    BY <1>0, <1>3, UpgradeDoes DEF Upgrade, Setting
  <2> QED
    BY <1>0, <2>1, SetUpFrom
<1>4. ASSUME NEW d \in Devices, Refind(d) PROVE SetUpInv'
  <2>1. request[d].hash \in Nat /\ row.hash \in Nat
    BY <1>0 DEF TypeOK, Request, Row
  <2>2. /\ \A e \in Devices \ {d} : request'[e] = request[e]
        /\ row'.password = row.password /\ row'.email = row.email
        /\ ~Setting(d)'
    BY <1>0, <1>4, <2>1, HashDoes DEF Refind, Setting
  <2> QED
    BY <1>0, <2>2, SetUpFrom
<1>5. ASSUME NEW d \in Devices, Link(d) PROVE SetUpInv'
  <2>1. /\ \A e \in Devices \ {d} : request'[e] = request[e]
        /\ row'.password = row.password /\ row'.email = row.email
        /\ ~Setting(d)'
    BY <1>0, <1>5, LinkDoes DEF Link, Setting
  <2> QED
    BY <1>0, <2>1, SetUpFrom
<1>6. ASSUME NEW d \in Devices, Issue(d) PROVE SetUpInv'
  <2>1. /\ \A e \in Devices \ {d} : request'[e] = request[e]
        /\ row'.password = row.password /\ row'.email = row.email
        /\ ~Setting(d)'
    BY <1>0, <1>6, FinishDoes DEF Issue, Setting
  <2> QED
    BY <1>0, <2>1, SetUpFrom
<1>7. ASSUME NEW d \in Devices, Logout(d) PROVE SetUpInv'
  <2>1. /\ \A e \in Devices \ {d} : request'[e] = request[e]
        /\ row'.password = row.password /\ row'.email = row.email
        /\ ~Setting(d)'
    BY <1>0, <1>7 DEF Logout, Start, Idle, TypeOK, Setting
  <2> QED
    BY <1>0, <2>1, SetUpFrom
<1>8. ASSUME NEW d \in Devices, Revoke(d) PROVE SetUpInv'
  <2>1. /\ \A e \in Devices \ {d} : request'[e] = request[e]
        /\ row'.password = row.password /\ row'.email = row.email
        /\ ~Setting(d)'
    BY <1>0, <1>8, FinishDoes, SaveDoes DEF Revoke, Setting
  <2> QED
    BY <1>0, <2>1, SetUpFrom
<1>9. ASSUME NEW d \in Devices, NEW op \in {"change", "ask"}, Open(d, op) PROVE SetUpInv'
  <2>1. /\ \A e \in Devices \ {d} : request'[e] = request[e]
        /\ row'.password = row.password /\ row'.email = row.email
        /\ ~Setting(d)'
    BY <1>0, <1>9 DEF Open, Start, Idle, TypeOK, Setting
  <2> QED
    BY <1>0, <2>1, SetUpFrom
<1>10. ASSUME NEW d \in Devices, Verify(d) PROVE SetUpInv'
  <2>1. /\ \A e \in Devices \ {d} : request'[e] = request[e]
        /\ row'.password = row.password /\ row'.email = row.email
        /\ ~Setting(d)'
    BY <1>0, <1>10, TypedDoes, GotoDoes, FinishDoes DEF Verify, Setting
  <2> QED
    BY <1>0, <2>1, SetUpFrom
<1>11. ASSUME NEW d \in Devices, ChangePassword(d) PROVE SetUpInv'
  <2>1. /\ \A e \in Devices \ {d} : request'[e] = request[e]
        /\ ~Setting(d)'
    BY <1>0, <1>11, GotoDoes DEF ChangePassword, Setting
  <2>2. \A e \in Devices : ~Setting(e)
    BY <1>0, <1>11 DEF ChangePassword, PasswordInv, Moving, SetUpInv
  <2> QED
    BY <1>0, <2>1, <2>2, SetUpFrom
<1>12. ASSUME NEW d \in Devices, AskReset(d) PROVE SetUpInv'
  <2>1. /\ \A e \in Devices \ {d} : request'[e] = request[e]
        /\ row'.password = row.password /\ row'.email = row.email
        /\ ~Setting(d)'
    BY <1>0, <1>12 DEF AskReset, Start, Idle, TypeOK, Setting
  <2> QED
    BY <1>0, <2>1, SetUpFrom
<1>13. ASSUME NEW d \in Devices, InsertReset(d) PROVE SetUpInv'
  <2>1. /\ \A e \in Devices \ {d} : request'[e] = request[e]
        /\ row'.password = row.password /\ row'.email = row.email
        /\ ~Setting(d)'
    BY <1>0, <1>13, FinishDoes DEF InsertReset, Setting
  <2> QED
    BY <1>0, <2>1, SetUpFrom
<1>14. ASSUME NEW d \in Devices, NEW a \in Addresses, NEW p \in Passwords, Redeem(d, a, p)
       PROVE  SetUpInv'
  <2>1. /\ \A e \in Devices \ {d} : request'[e] = request[e]
        /\ row' = row
    BY <1>0, <1>14 DEF Redeem, Start, TypeOK
  <2>2. Setting(d)' => row'.password = None /\ row'.email = request'[d].at
    BY <1>0, <1>14 DEF Redeem, Start, TypeOK, Setting
  <2> QED
    BY <1>0, <2>1, <2>2, SetUpFrom
<1>15. ASSUME NEW d \in Devices, RedeemWrite(d) PROVE SetUpInv'
  <2>1. /\ \A e \in Devices \ {d} : request'[e] = request[e]
        /\ ~Setting(d)'
    BY <1>0, <1>15, GotoDoes DEF RedeemWrite, Setting
  <2>2. CASE row.email = request[d].at /\ RowFree
    <3>1. ASSUME NEW e \in Devices \ {d} PROVE ~Setting(e)
      BY <1>0, <1>15, <2>2 DEF RedeemWrite, Setting, SetUpInv, LockInv, RowFree
    <3> QED
      BY <1>0, <2>1, <3>1, SetUpFrom
  <2>3. CASE row' = row
    BY <1>0, <2>1, <2>3, SetUpFrom
  <2> QED
    BY <1>15, <2>2, <2>3 DEF RedeemWrite
<1>16. ASSUME NEW d \in Devices, NEW p \in Passwords, SetUp(d, p) PROVE SetUpInv'
  <2>1. /\ \A e \in Devices \ {d} : request'[e] = request[e]
        /\ row' = row
    BY <1>0, <1>16 DEF SetUp, Start, TypeOK
  <2>2. Setting(d)' => row'.password = None /\ row'.email = request'[d].at
    BY <1>0, <1>16 DEF SetUp, Start, TypeOK, Setting
  <2> QED
    BY <1>0, <2>1, <2>2, SetUpFrom
<1>17. ASSUME NEW d \in Devices, SetUpWrite(d) PROVE SetUpInv'
  <2>1. /\ \A e \in Devices \ {d} : request'[e] = request[e]
        /\ ~Setting(d)'
    BY <1>0, <1>17, GotoDoes DEF SetUpWrite, Setting
  <2>2. Setting(d)
    BY <1>0, <1>17 DEF SetUpWrite, RequestInv, Setting
  <2>3. ASSUME NEW e \in Devices \ {d} PROVE ~Setting(e)
    BY <1>0, <1>17, <2>2 DEF SetUpWrite, Setting, SetUpInv, LockInv, ResetFree
  <2> QED
    BY <1>0, <2>1, <2>3, SetUpFrom
<1>18. ASSUME NEW d \in Devices, InsertMove(d) PROVE SetUpInv'
  <2>1. /\ \A e \in Devices \ {d} : request'[e] = request[e]
        /\ row'.password = row.password /\ row'.email = row.email
        /\ ~Setting(d)'
    BY <1>0, <1>18, FinishDoes DEF InsertMove, Setting
  <2> QED
    BY <1>0, <2>1, SetUpFrom
<1>19. ASSUME NEW d \in Devices, ConfirmMove(d) PROVE SetUpInv'
  <2>1. /\ \A e \in Devices \ {d} : request'[e] = request[e]
        /\ row'.password = row.password /\ row'.email = row.email
        /\ ~Setting(d)'
    BY <1>0, <1>19 DEF ConfirmMove, Start, Idle, TypeOK, Setting
  <2> QED
    BY <1>0, <2>1, SetUpFrom
<1>20. ASSUME NEW d \in Devices, WriteMove(d) PROVE SetUpInv'
  <2>1. /\ \A e \in Devices \ {d} : request'[e] = request[e]
        /\ row'.password = row.password /\ row'.email = row.email
        /\ ~Setting(d)'
    BY <1>0, <1>20, GotoDoes DEF WriteMove, Setting
  <2> QED
    BY <1>0, <2>1, SetUpFrom
<1>21. ASSUME NEW d \in Devices, DeleteReset(d) PROVE SetUpInv'
  <2>1. /\ \A e \in Devices \ {d} : request'[e] = request[e]
        /\ row'.password = row.password /\ row'.email = row.email
        /\ ~Setting(d)'
    BY <1>0, <1>21, GotoDoes DEF DeleteReset, Setting
  <2> QED
    BY <1>0, <2>1, SetUpFrom
<1>22. ASSUME NEW d \in Devices, CallStripe(d) PROVE SetUpInv'
  <2>1. /\ \A e \in Devices \ {d} : request'[e] = request[e]
        /\ row'.password = row.password /\ row'.email = row.email
        /\ ~Setting(d)'
    BY <1>0, <1>22, GotoDoes DEF CallStripe, Setting
  <2> QED
    BY <1>0, <2>1, SetUpFrom
<1>23. ASSUME NEW d \in Devices, CommitMove(d) PROVE SetUpInv'
  <2>1. /\ \A e \in Devices \ {d} : request'[e] = request[e]
        /\ ~Setting(d)'
    BY <1>0, <1>23, CommitDoes DEF CommitMove, Setting
  <2>2. \A e \in Devices : ~Setting(e)
    BY <1>0, <1>23 DEF CommitMove, PasswordInv, Moving, SetUpInv
  <2> QED
    BY <1>0, <2>1, <2>2, SetUpFrom
<1>24. ASSUME NEW d \in Devices, Fail(d) PROVE SetUpInv'
  <2>1. /\ \A e \in Devices \ {d} : request'[e] = request[e]
        /\ row'.password = row.password /\ row'.email = row.email
        /\ ~Setting(d)'
    BY <1>0, <1>24, FinishDoes DEF Fail, Setting
  <2> QED
    BY <1>0, <2>1, SetUpFrom
<1>25. CASE UNCHANGED vars
  BY <1>0, <1>25 DEF vars, SetUpInv, Setting
<1> QED
  BY <1>1, <1>2, <1>3, <1>4, <1>5, <1>6, <1>7, <1>8, <1>9, <1>10, <1>11, <1>12, <1>13,
     <1>14, <1>15, <1>16, <1>17, <1>18, <1>19, <1>20, <1>21, <1>22, <1>23, <1>24, <1>25
     DEF Next

-----------------------------------------------------------------------------
(* A step that has nothing to do with a move of the account. *)
LEMMA MoveFrom ==
  ASSUME MoveInv, NEW d \in Devices,
         \A e \in Devices \ {d} : request'[e] = request[e],
         request'[d].op = "move" => request[d].op = "move",
         request'[d].pc # "commit",
         row'.email = row.email, UNCHANGED <<move, stripe>>
  PROVE  MoveInv'
BY DEF MoveInv, StripeAheadWithLink

(* Only one move at a time, and its link lasts until the commit. *)
LEMMA MoveStep == IInv /\ [Next]_vars => MoveInv'
<1> SUFFICES ASSUME IInv, [Next]_vars PROVE MoveInv'
  OBVIOUS
<1> USE AccountsAssumption
<1>0. TypeOK /\ MoveInv /\ RequestInv /\ row \in Row
  BY DEF IInv, TypeOK
<1>1. ASSUME NEW d \in Devices, Login(d) PROVE MoveInv'
  <2>1. /\ \A e \in Devices \ {d} : request'[e] = request[e]
        /\ request'[d].op = "move" => request[d].op = "move"
        /\ request'[d].pc # "commit" /\ row'.email = row.email /\ UNCHANGED <<move, stripe>>
    BY <1>0, <1>1 DEF Login, Start, Idle, TypeOK
  <2> QED
    BY <1>0, <2>1, MoveFrom
<1>2. ASSUME NEW d \in Devices, SignIn(d) PROVE MoveInv'
  <2>1. /\ \A e \in Devices \ {d} : request'[e] = request[e]
        /\ request'[d].op = "move" => request[d].op = "move"
        /\ request'[d].pc # "commit" /\ row'.email = row.email /\ UNCHANGED <<move, stripe>>
    BY <1>0, <1>2, SignInDoes DEF SignIn
  <2> QED
    BY <1>0, <2>1, MoveFrom
<1>3. ASSUME NEW d \in Devices, Upgrade(d) PROVE MoveInv'
  <2>1. /\ \A e \in Devices \ {d} : request'[e] = request[e]
        /\ request'[d].op = "move" => request[d].op = "move"
        /\ request'[d].pc # "commit" /\ row'.email = row.email /\ UNCHANGED <<move, stripe>>
    BY <1>0, <1>3, UpgradeDoes DEF Upgrade
  <2> QED
    BY <1>0, <2>1, MoveFrom
<1>4. ASSUME NEW d \in Devices, Refind(d) PROVE MoveInv'
  <2>0. request[d].hash \in Nat /\ row.hash \in Nat
    BY <1>0 DEF TypeOK, Request, Row
  <2>1. /\ \A e \in Devices \ {d} : request'[e] = request[e]
        /\ request'[d].op = "move" => request[d].op = "move"
        /\ request'[d].pc # "commit" /\ row'.email = row.email /\ UNCHANGED <<move, stripe>>
    BY <1>0, <1>4, <2>0, HashDoes DEF Refind
  <2> QED
    BY <1>0, <2>1, MoveFrom
<1>5. ASSUME NEW d \in Devices, Link(d) PROVE MoveInv'
  <2>1. /\ \A e \in Devices \ {d} : request'[e] = request[e]
        /\ request'[d].op = "move" => request[d].op = "move"
        /\ request'[d].pc # "commit" /\ row'.email = row.email /\ UNCHANGED <<move, stripe>>
    BY <1>0, <1>5, LinkDoes DEF Link
  <2> QED
    BY <1>0, <2>1, MoveFrom
<1>6. ASSUME NEW d \in Devices, Issue(d) PROVE MoveInv'
  <2>1. /\ \A e \in Devices \ {d} : request'[e] = request[e]
        /\ request'[d].op = "move" => request[d].op = "move"
        /\ request'[d].pc # "commit" /\ row'.email = row.email /\ UNCHANGED <<move, stripe>>
    BY <1>0, <1>6, FinishDoes DEF Issue
  <2> QED
    BY <1>0, <2>1, MoveFrom
<1>7. ASSUME NEW d \in Devices, Logout(d) PROVE MoveInv'
  <2>1. /\ \A e \in Devices \ {d} : request'[e] = request[e]
        /\ request'[d].op = "move" => request[d].op = "move"
        /\ request'[d].pc # "commit" /\ row'.email = row.email /\ UNCHANGED <<move, stripe>>
    BY <1>0, <1>7 DEF Logout, Start, Idle, TypeOK
  <2> QED
    BY <1>0, <2>1, MoveFrom
<1>8. ASSUME NEW d \in Devices, Revoke(d) PROVE MoveInv'
  <2>1. /\ \A e \in Devices \ {d} : request'[e] = request[e]
        /\ request'[d].op = "move" => request[d].op = "move"
        /\ request'[d].pc # "commit" /\ row'.email = row.email /\ UNCHANGED <<move, stripe>>
    BY <1>0, <1>8, FinishDoes, SaveDoes DEF Revoke
  <2> QED
    BY <1>0, <2>1, MoveFrom
<1>9. ASSUME NEW d \in Devices, NEW op \in {"change", "ask"}, Open(d, op) PROVE MoveInv'
  <2>1. /\ \A e \in Devices \ {d} : request'[e] = request[e]
        /\ request'[d].op = "move" => request[d].op = "move"
        /\ request'[d].pc # "commit" /\ row'.email = row.email /\ UNCHANGED <<move, stripe>>
    BY <1>0, <1>9 DEF Open, Start, Idle, TypeOK
  <2> QED
    BY <1>0, <2>1, MoveFrom
<1>10. ASSUME NEW d \in Devices, Verify(d) PROVE MoveInv'
  <2>1. /\ \A e \in Devices \ {d} : request'[e] = request[e]
        /\ request'[d].op = "move" => request[d].op = "move"
        /\ request'[d].pc # "commit" /\ row'.email = row.email /\ UNCHANGED <<move, stripe>>
    BY <1>0, <1>10, TypedDoes, GotoDoes, FinishDoes DEF Verify
  <2> QED
    BY <1>0, <2>1, MoveFrom
<1>11. ASSUME NEW d \in Devices, ChangePassword(d) PROVE MoveInv'
  <2>0. request[d].typed \in Passwords \cup {None}
    BY <1>0 DEF TypeOK, Request
  <2>1. /\ \A e \in Devices \ {d} : request'[e] = request[e]
        /\ request'[d].op = "move" => request[d].op = "move"
        /\ request'[d].pc # "commit" /\ row'.email = row.email /\ UNCHANGED <<move, stripe>>
    BY <1>0, <1>11, <2>0, GotoDoes, NewPasswordDoes DEF ChangePassword
  <2> QED
    BY <1>0, <2>1, MoveFrom
<1>12. ASSUME NEW d \in Devices, AskReset(d) PROVE MoveInv'
  <2>1. /\ \A e \in Devices \ {d} : request'[e] = request[e]
        /\ request'[d].op = "move" => request[d].op = "move"
        /\ request'[d].pc # "commit" /\ row'.email = row.email /\ UNCHANGED <<move, stripe>>
    BY <1>0, <1>12 DEF AskReset, Start, Idle, TypeOK
  <2> QED
    BY <1>0, <2>1, MoveFrom
<1>13. ASSUME NEW d \in Devices, InsertReset(d) PROVE MoveInv'
  <2>1. /\ \A e \in Devices \ {d} : request'[e] = request[e]
        /\ request'[d].op = "move" => request[d].op = "move"
        /\ request'[d].pc # "commit" /\ row'.email = row.email /\ UNCHANGED <<move, stripe>>
    BY <1>0, <1>13, FinishDoes DEF InsertReset
  <2> QED
    BY <1>0, <2>1, MoveFrom
<1>14. ASSUME NEW d \in Devices, NEW a \in Addresses, NEW p \in Passwords, Redeem(d, a, p)
       PROVE  MoveInv'
  <2>1. /\ \A e \in Devices \ {d} : request'[e] = request[e]
        /\ request'[d].op = "move" => request[d].op = "move"
        /\ request'[d].pc # "commit" /\ row'.email = row.email /\ UNCHANGED <<move, stripe>>
    BY <1>0, <1>14 DEF Redeem, Start, Idle, TypeOK
  <2> QED
    BY <1>0, <2>1, MoveFrom
<1>15. ASSUME NEW d \in Devices, RedeemWrite(d) PROVE MoveInv'
  <2>0. request[d].typed \in Passwords \cup {None}
    BY <1>0 DEF TypeOK, Request
  <2>1. /\ \A e \in Devices \ {d} : request'[e] = request[e]
        /\ request'[d].op = "move" => request[d].op = "move"
        /\ request'[d].pc # "commit" /\ row'.email = row.email /\ UNCHANGED <<move, stripe>>
    BY <1>0, <1>15, <2>0, GotoDoes, NewPasswordDoes DEF RedeemWrite
  <2> QED
    BY <1>0, <2>1, MoveFrom
<1>16. ASSUME NEW d \in Devices, NEW p \in Passwords, SetUp(d, p) PROVE MoveInv'
  <2>1. /\ \A e \in Devices \ {d} : request'[e] = request[e]
        /\ request'[d].op = "move" => request[d].op = "move"
        /\ request'[d].pc # "commit" /\ row'.email = row.email /\ UNCHANGED <<move, stripe>>
    BY <1>0, <1>16 DEF SetUp, Start, Idle, TypeOK
  <2> QED
    BY <1>0, <2>1, MoveFrom
<1>17. ASSUME NEW d \in Devices, SetUpWrite(d) PROVE MoveInv'
  <2>0. request[d].typed \in Passwords \cup {None}
    BY <1>0 DEF TypeOK, Request
  <2>1. /\ \A e \in Devices \ {d} : request'[e] = request[e]
        /\ request'[d].op = "move" => request[d].op = "move"
        /\ request'[d].pc # "commit" /\ row'.email = row.email /\ UNCHANGED <<move, stripe>>
    BY <1>0, <1>17, <2>0, GotoDoes, NewPasswordDoes DEF SetUpWrite
  <2> QED
    BY <1>0, <2>1, MoveFrom
<1>18. ASSUME NEW d \in Devices, InsertMove(d) PROVE MoveInv'
  <2>1. /\ \A e \in Devices \ {d} : request'[e] = request[e]
        /\ request'[d].op = "none" /\ request'[d].pc = "idle"
        /\ row' = row /\ stripe' = stripe
    BY <1>0, <1>18, FinishDoes DEF InsertMove
  <2>2. CASE MoveFree /\ \E a \in Addresses \ {request[d].at} : move' = [link |-> links + 1, to |-> a]
    <3>1. move'.link # 0
      BY <1>0, <2>2 DEF TypeOK
    <3>2. \A e \in Devices : request'[e].op # "move" /\ request'[e].pc # "commit"
      BY <1>0, <2>1, <2>2 DEF MoveFree, RequestInv, Moving
    <3> QED
      BY <2>1, <3>1, <3>2 DEF MoveInv, StripeAheadWithLink
  <2>3. CASE UNCHANGED move
    BY <1>0, <2>1, <2>3, MoveFrom
  <2> QED
    BY <1>18, <2>2, <2>3 DEF InsertMove
<1>19. ASSUME NEW d \in Devices, ConfirmMove(d) PROVE MoveInv'
  <2>1. /\ \A e \in Devices \ {d} : request'[e] = request[e]
        /\ request'[d].pc = "moving" /\ UNCHANGED <<row, move, stripe>>
        /\ move.link # 0 /\ \A e \in Devices : request[e].op # "move"
    BY <1>0, <1>19 DEF ConfirmMove, MoveFree, Start, TypeOK
  <2> QED
    BY <1>0, <2>1 DEF MoveInv, StripeAheadWithLink
<1>20. ASSUME NEW d \in Devices, WriteMove(d) PROVE MoveInv'
  <2>1. /\ \A e \in Devices \ {d} : request'[e] = request[e]
        /\ request'[d].op = "move" => request[d].op = "move"
        /\ request'[d].pc # "commit" /\ row'.email = row.email /\ UNCHANGED <<move, stripe>>
    BY <1>0, <1>20, GotoDoes DEF WriteMove
  <2> QED
    BY <1>0, <2>1, MoveFrom
<1>21. ASSUME NEW d \in Devices, DeleteReset(d) PROVE MoveInv'
  <2>1. /\ \A e \in Devices \ {d} : request'[e] = request[e]
        /\ request'[d].op = "move" => request[d].op = "move"
        /\ request'[d].pc # "commit" /\ row'.email = row.email /\ UNCHANGED <<move, stripe>>
    BY <1>0, <1>21, GotoDoes DEF DeleteReset
  <2> QED
    BY <1>0, <2>1, MoveFrom
<1>22. ASSUME NEW d \in Devices, CallStripe(d) PROVE MoveInv'
  <2>1. /\ \A e \in Devices \ {d} : request'[e] = request[e]
        /\ request'[d].op = request[d].op /\ UNCHANGED <<row, move>> /\ stripe' = move.to
    BY <1>0, <1>22, GotoDoes DEF CallStripe
  <2>2. request[d].op = "move"
    BY <1>0, <1>22 DEF CallStripe, RequestInv, Moving
  <2> QED
    BY <1>0, <2>1, <2>2 DEF MoveInv, StripeAheadWithLink
<1>23. ASSUME NEW d \in Devices, CommitMove(d) PROVE MoveInv'
  <2>1. request[d].op = "move" /\ stripe = move.to
    BY <1>0, <1>23, CommitDoes DEF RequestInv, Moving, MoveInv
  <2>2. \A e \in Devices : request'[e].op # "move" /\ request'[e].pc # "commit"
    BY <1>0, <1>23, <2>1, CommitDoes DEF RequestInv, Moving, MoveInv
  <2>3. stripe' = row'.email
    BY <1>0, <1>23, <2>1, CommitDoes DEF CommitMove
  <2> QED
    BY <2>2, <2>3 DEF MoveInv, StripeAheadWithLink
<1>24. ASSUME NEW d \in Devices, Fail(d) PROVE MoveInv'
  <2>1. /\ \A e \in Devices \ {d} : request'[e] = request[e]
        /\ request'[d].op # "move" /\ request'[d].pc # "commit" /\ UNCHANGED <<row, move>>
    BY <1>0, <1>24, FinishDoes DEF Fail
  <2>2. CASE UNCHANGED stripe
    BY <1>0, <2>1, <2>2, MoveFrom
  <2>3. CASE request[d].pc = "stripe" /\ stripe' = move.to
    <3>1. request[d].op = "move"
      BY <1>0, <2>3 DEF RequestInv, Moving
    <3> QED
      BY <1>0, <2>1, <2>3, <3>1 DEF MoveInv, StripeAheadWithLink
  <2> QED
    BY <1>24, <2>2, <2>3 DEF Fail
<1>25. CASE UNCHANGED vars
  BY <1>0, <1>25 DEF vars, MoveInv, StripeAheadWithLink
<1> QED
  BY <1>1, <1>2, <1>3, <1>4, <1>5, <1>6, <1>7, <1>8, <1>9, <1>10, <1>11, <1>12, <1>13,
     <1>14, <1>15, <1>16, <1>17, <1>18, <1>19, <1>20, <1>21, <1>22, <1>23, <1>24, <1>25
     DEF Next

-----------------------------------------------------------------------------
(* The invariant that the properties follow from. *)
THEOREM Inductive == Spec => []IInv
<1>1. Init => IInv
  BY InitInv
<1>2. IInv /\ [Next]_vars => IInv'
  BY TypeStep, RequestStep, LockStep, PasswordStep, HashStep, SetUpStep, MoveStep DEF IInv
<1> QED
  BY <1>1, <1>2, PTL DEF Spec

(* Every variable keeps its type, whatever the requests do. *)
THEOREM TypeCorrect == Spec => []TypeOK
BY Inductive, PTL DEF IInv

(* sessions.py, _lookup: no accepted session was bought with a password    *)
(* that is not the account's any more, but for a sign-in that replaced an  *)
(* old hash.                                                               *)
THEOREM KnowsPassword == Spec => []SessionKnowsPassword
<1>1. IInv => SessionKnowsPassword
  BY DEF IInv, HashInv, CookieHash, SessionKnowsPassword, Accepted
<1> QED
  BY <1>1, Inductive, PTL

(* subscribers.py, redeem_email_change: Stripe and the account disagree on *)
(* the address only while an unused link can settle it.                    *)
THEOREM StripeAhead == Spec => []StripeAheadWithLink
<1>1. IInv => StripeAheadWithLink
  BY DEF IInv, MoveInv
<1> QED
  BY <1>1, Inductive, PTL

(* migration 010: a session that was refused is never accepted again, and  *)
(* none outlives a sign-out.                                               *)
THEOREM RefusedForGood == Spec => SignedOutForGood
<1>1. ASSUME IInv, [Next]_vars, NEW d \in Devices, Accepted(cookie[d])', cookie'[d] = cookie[d]
      PROVE  Accepted(cookie[d]) /\ ~ \E e \in Devices : SignsOut(e)
  <2>1. TypeOK /\ HashInv /\ RowDoes /\ row.revision \in Nat /\ row \in Row
    BY <1>1, RowStep DEF IInv, TypeOK, Row
  <2>2. /\ cookie[d] # None /\ cookie[d].revision = row'.revision
        /\ cookie[d].hash = row'.hash /\ cookie[d].email = row'.email
    BY <1>1 DEF Accepted
  <2>3. cookie[d].revision \in Nat /\ cookie[d].revision <= row.revision
    BY <2>1, <2>2 DEF TypeOK, Cookie, HashInv, CookieHash
  <2>4. row'.revision # row.revision + 1
    BY <2>1, <2>2, <2>3
  <2>5. row' = row
    BY <2>1, <2>4 DEF RowDoes
  <2>6. ASSUME NEW e \in Devices, SignsOut(e) PROVE FALSE
    BY <2>1, <2>4, <2>6, SaveDoes DEF SignsOut, Revoke
  <2> QED
    BY <2>2, <2>5, <2>6 DEF Accepted
<1>2. IInv /\ [Next]_vars =>
        [\A d \in Devices :
           Accepted(cookie[d])' /\ cookie'[d] = cookie[d] =>
             Accepted(cookie[d]) /\ ~ \E e \in Devices : SignsOut(e)]_vars
  BY <1>1
<1> QED
  BY <1>2, Inductive, PTL DEF Spec, SignedOutForGood

(* setup.py, confirm: an account is set up once, whatever links of before  *)
(* and after migration 009 are opened together.                            *)
THEOREM SetUpOnceOnly == Spec => SetUpOnce
<1>1. ASSUME IInv, NEW d \in Devices, request[d].op = "setup", RedeemWrite(d) \/ SetUpWrite(d)
      PROVE  row.password = None
  BY <1>1 DEF IInv, SetUpInv, Setting, RedeemWrite, SetUpWrite
<1>2. IInv /\ [Next]_vars =>
        [\A d \in Devices :
           request[d].op = "setup" /\ (RedeemWrite(d) \/ SetUpWrite(d)) /\ row'.hash # row.hash
             => row.password = None]_vars
  BY <1>1
<1> QED
  BY <1>2, Inductive, PTL DEF Spec, SetUpOnce

=============================================================================
