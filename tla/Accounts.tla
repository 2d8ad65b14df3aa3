------------------------------ MODULE Accounts ------------------------------
(***************************************************************************)
(* One account of cedar_press_subscribers and the requests of its owner's  *)
(* devices: sign-in and sign-out, a new password from the settings, by an  *)
(* e-mailed link or at account setup, and a new address                    *)
(* (server/cedar_press/accounts: services/sessions.py, subscribers.py,     *)
(* setup.py and api/routes.py, over PostgreSQL).                           *)
(*                                                                         *)
(* A request is several statements and transactions.  Each statement that  *)
(* commits by itself is one action; a transaction of several takes the row *)
(* locks of PostgreSQL one after the other, and what it wrote is seen when *)
(* it commits.                                                             *)
(*                                                                         *)
(* The row keeps a number for its password hash, since each hash is salted *)
(* and unlike every other; number 0 is a hash with fewer rounds than the   *)
(* current ones.  Links are numbered, too.  One that expired is one nobody *)
(* opens any more.                                                         *)
(***************************************************************************)
EXTENDS Integers

CONSTANTS
  Devices,      \* each holds at most one cookie
  Passwords,
  Addresses,
  Home,         \* the address of the account at first
  MaxRequests,  \* bound: requests that are started
  None          \* no device, password, address or cookie

ASSUME AccountsAssumption ==
  /\ MaxRequests \in Nat
  /\ Home \in Addresses
  /\ None \notin Devices \cup Passwords \cup Addresses

VARIABLES
  row,      \* the account's row of cedar_press_subscribers
  cookie,   \* the session cookie of each device
  resets,   \* the unused link of cedar_press_password_resets at each address
  move,     \* the unused row of cedar_press_email_changes
  stripe,   \* the address of the Stripe customer
  rowlock,  \* the device whose transaction has locked the account's row
  locks,    \* and those that locked the reset row of an address
  request,  \* what each device's request is doing
  links,    \* links issued so far
  started   \* requests started so far

vars == <<row, cookie, resets, move, stripe, rowlock, locks, request, links, started>>

Row == [email : Addresses, password : Passwords \cup {None}, hash : Nat,
        revision : Nat, user : BOOLEAN]

(* What a cookie says of the row, and how its sign-in came to it. *)
Cookie == [email : Addresses, hash : Nat, revision : Nat,
           typed : Passwords, upgraded : BOOLEAN]

Idle == [op |-> "none", pc |-> "idle", at |-> None, typed |-> None,
         hash |-> 0, upgraded |-> FALSE]

Request == [op : {"none", "login", "logout", "change", "reset", "setup", "ask", "move"},
            pc : {"idle", "decoded", "write", "revoke", "insert", "redeem", "setting", "ask",
                  "moving", "moved", "stripe", "commit",
                  "signin", "upgrade", "refind", "link", "issue"},
            at : Addresses \cup {None}, typed : Passwords \cup {None},
            hash : Nat, upgraded : BOOLEAN]

TypeOK ==
  /\ row \in Row
  /\ cookie \in [Devices -> Cookie \cup {None}]
  /\ resets \in [Addresses -> Nat]
  /\ move \in [link : Nat, to : Addresses]
  /\ stripe \in Addresses
  /\ rowlock \in Devices \cup {None}
  /\ locks \in [Addresses -> Devices \cup {None}]
  /\ request \in [Devices -> Request]
  /\ links \in Nat
  /\ started \in 0 .. MaxRequests

(* What _revision signs, for a sign-in with this password. *)
Session(p, upgraded) ==
  [email |-> row.email, hash |-> row.hash, revision |-> row.revision,
   typed |-> p, upgraded |-> upgraded]

(* An account without a password waits for its setup; a link that was sent *)
(* for it before migration 009 is a reset link.  Its devices are signed in *)
(* or not.                                                                 *)
Init ==
  /\ row \in [email : {Home}, password : Passwords \cup {None}, hash : {0, 1},
              revision : {0}, user : BOOLEAN]
  /\ \/ cookie = [d \in Devices |-> None]
     \/ /\ row.password # None
        /\ cookie = [d \in Devices |-> Session(row.password, FALSE)]
  /\ resets \in [Addresses -> {0, 1}] /\ \A a \in Addresses \ {Home} : resets[a] = 0
  /\ move = [link |-> 0, to |-> Home]
  /\ stripe = Home
  /\ rowlock = None
  /\ locks = [a \in Addresses |-> None]
  /\ request = [d \in Devices |-> Idle]
  /\ links = 1
  /\ started = 0

-----------------------------------------------------------------------------
(* Mutant of Advanced: a clock that stood still leaves the revision alone. *)
AdvancedByClock == row.revision

(* GREATEST(clock_timestamp(), sessions_revoked_at + 1 microsecond). *)
Advanced == row.revision + 1

(* An UPDATE of the row: the trigger of migration 010 sees a new password  *)
(* hash, address or user_id and advances the revision.                     *)
Save(r) == row' = [r EXCEPT !.revision = Advanced]

NewPassword(p) == Save([row EXCEPT !.password = p, !.hash = @ + 1])

(* _decode: the cookie was signed over what the row still says. *)
Accepted(c) ==
  c # None /\ c.email = row.email /\ c.hash = row.hash /\ c.revision = row.revision

RowFree == rowlock = None
ResetFree(a) == locks[a] = None
MoveFree == \A d \in Devices : request[d].op # "move"

Goto(d, pc) == request' = [request EXCEPT ![d].pc = pc]

Unlock(d) ==
  /\ rowlock' = IF rowlock = d THEN None ELSE rowlock
  /\ locks' = [a \in Addresses |-> IF locks[a] = d THEN None ELSE locks[a]]

Finish(d) == request' = [request EXCEPT ![d] = Idle]

(* A request gets under way. *)
Start(d, op, pc, at, typed, hash) ==
  /\ request[d] = Idle
  /\ started < MaxRequests
  /\ started' = started + 1
  /\ request' = [request EXCEPT ![d] =
       [op |-> op, pc |-> pc, at |-> at, typed |-> typed, hash |-> hash, upgraded |-> FALSE]]

-----------------------------------------------------------------------------
(* Sign-in (_lookup).  authenticate reads the row and verifies the         *)
(* password against what it read; the rest of the request goes by that.    *)
Login(d) ==
  /\ row.password # None
  /\ Start(d, "login", "upgrade", row.email, row.password, row.hash)
  /\ UNCHANGED <<row, cookie, resets, move, stripe, rowlock, locks, links>>

(* The sign-in at the end of the requests that set a password. *)
SignIn(d) ==
  LET r == request[d]
  IN  /\ r.pc = "signin"
      /\ \/ /\ row.email = r.at /\ row.password = r.typed
            /\ request' = [request EXCEPT ![d].pc = "upgrade", ![d].hash = row.hash]
         \/ /\ row.email # r.at \/ row.password # r.typed
            /\ Finish(d)
      /\ UNCHANGED <<row, cookie, resets, move, stripe, rowlock, locks, links, started>>

(* upgrade_hash: a hash with few rounds is replaced if it is still there.  *)
Upgrade(d) ==
  LET r == request[d]
      found == row.email = r.at /\ row.hash = r.hash
  IN  /\ r.pc = "upgrade"
      /\ \/ /\ r.hash = 0 /\ found
            /\ RowFree
            /\ NewPassword(row.password)
            /\ Goto(d, "refind")
         \/ /\ r.hash # 0 \/ ~found
            /\ Goto(d, "link")
            /\ UNCHANGED row
      /\ UNCHANGED <<cookie, resets, move, stripe, rowlock, locks, links, started>>

(* ... and the row read again, which becomes what the sign-in goes by. *)
Refind(d) ==
  LET r == request[d]
  IN  /\ r.pc = "refind"
      /\ request' = [request EXCEPT ![d].pc = "link", ![d].upgraded = TRUE,
                                    ![d].hash = IF row.email = r.at THEN row.hash ELSE @]
      /\ UNCHANGED <<row, cookie, resets, move, stripe, rowlock, locks, links, started>>

(* link_platform_account: if the platform knows the address. *)
Link(d) ==
  LET r == request[d]
  IN  /\ r.pc = "link"
      /\ Goto(d, "issue")
      /\ \/ UNCHANGED row
         \/ /\ ~row.user /\ row.email = r.at
            /\ RowFree
            /\ Save([row EXCEPT !.user = TRUE])
      /\ UNCHANGED <<cookie, resets, move, stripe, rowlock, locks, links, started>>

(* Mutant of Known: the last look at the row is not compared. *)
KnownByAddress(d) == row.email = request[d].at

Known(d) == row.email = request[d].at /\ row.hash = request[d].hash

(* The row is read once more; only the revision may be newer by now. *)
Issue(d) ==
  LET r == request[d]
  IN  /\ r.pc = "issue"
      /\ cookie' = [cookie EXCEPT ![d] =
           IF Known(d) THEN Session(r.typed, r.upgraded) ELSE @]
      /\ Finish(d)
      /\ UNCHANGED <<row, resets, move, stripe, rowlock, locks, links, started>>

-----------------------------------------------------------------------------
(* Sign-out on every device; a cookie that is refused is only cleared. *)
Logout(d) ==
  /\ cookie[d] # None
  /\ \/ /\ Accepted(cookie[d])
        /\ Start(d, "logout", "revoke", row.email, None, 0)
        /\ UNCHANGED cookie
     \/ /\ ~Accepted(cookie[d])
        /\ request[d] = Idle
        /\ cookie' = [cookie EXCEPT ![d] = None]
        /\ UNCHANGED <<request, started>>
  /\ UNCHANGED <<row, resets, move, stripe, rowlock, locks, links>>

Revoke(d) ==
  /\ request[d].pc = "revoke"
  /\ \/ row.email = request[d].at /\ RowFree /\ Save(row)
     \/ row.email # request[d].at /\ UNCHANGED row
  /\ cookie' = [cookie EXCEPT ![d] = None]
  /\ Finish(d)
  /\ UNCHANGED <<resets, move, stripe, rowlock, locks, links, started>>

(* A request from the settings, for a new password or a new address: the   *)
(* cookie is accepted, ...                                                 *)
Open(d, op) ==
  /\ op \in {"change", "ask"}
  /\ Accepted(cookie[d])
  /\ Start(d, op, "decoded", row.email, None, 0)
  /\ UNCHANGED <<row, cookie, resets, move, stripe, rowlock, locks, links>>

(* ... then the current password verified, against another read. *)
Verify(d) ==
  LET r == request[d]
  IN  /\ r.pc = "decoded"
      /\ \/ /\ r.op = "change"
            /\ row.email = r.at
            /\ \E p \in Passwords :
                 request' = [request EXCEPT ![d].pc = "write", ![d].typed = p]
         \/ /\ r.op = "ask"
            /\ row.email = r.at
            /\ Goto(d, "ask")
         \/ Finish(d)
      /\ UNCHANGED <<row, cookie, resets, move, stripe, rowlock, locks, links, started>>

(* change_password overwrites whatever password is there by now. *)
ChangePassword(d) ==
  LET r == request[d]
  IN  /\ r.pc = "write"
      /\ \/ row.email = r.at /\ RowFree /\ NewPassword(r.typed)
         \/ row.email # r.at /\ UNCHANGED row
      /\ Goto(d, "signin")
      /\ UNCHANGED <<cookie, resets, move, stripe, rowlock, locks, links, started>>

-----------------------------------------------------------------------------
(* issue_reset: the account is looked up, then the address's link replaced. *)
AskReset(d) ==
  /\ Start(d, "reset", "insert", row.email, None, 0)
  /\ UNCHANGED <<row, cookie, resets, move, stripe, rowlock, locks, links>>

InsertReset(d) ==
  LET r == request[d]
  IN  /\ r.pc = "insert"
      /\ ResetFree(r.at)
      /\ resets' = [resets EXCEPT ![r.at] = links + 1]
      /\ links' = links + 1
      /\ Finish(d)
      /\ UNCHANGED <<row, cookie, move, stripe, rowlock, locks, started>>

(* redeem_reset marks the link used, which locks its row.  A link of before *)
(* migration 009 also sets an account up, if that has no password.         *)
Redeem(d, a, p) ==
  /\ resets[a] # 0
  /\ ResetFree(a)
  /\ \/ Start(d, "reset", "redeem", a, p, 0)
     \/ /\ resets[a] = 1 /\ row.email = a /\ row.password = None
        /\ Start(d, "setup", "redeem", a, p, 0)
  /\ locks' = [locks EXCEPT ![a] = d]
  /\ UNCHANGED <<row, cookie, resets, move, stripe, rowlock, links>>

(* The second statement and the commit. *)
RedeemWrite(d) ==
  LET r == request[d]
  IN  /\ r.pc = "redeem"
      /\ \/ row.email = r.at /\ RowFree /\ NewPassword(r.typed)
         \/ row.email # r.at /\ UNCHANGED row
      /\ resets' = [resets EXCEPT ![r.at] = 0]
      /\ Unlock(d)
      /\ Goto(d, "signin")
      /\ UNCHANGED <<cookie, move, stripe, links, started>>

(* AccountSetupService.confirm locks the account's row, which has no       *)
(* password yet.                                                           *)
SetUp(d, p) ==
  /\ row.password = None
  /\ RowFree
  /\ Start(d, "setup", "setting", row.email, p, 0)
  /\ rowlock' = d
  /\ UNCHANGED <<row, cookie, resets, move, stripe, locks, links>>

(* The password, and the end of every other link. *)
SetUpWrite(d) ==
  LET r == request[d]
  IN  /\ r.pc = "setting"
      /\ ResetFree(r.at)
      /\ NewPassword(r.typed)
      /\ resets' = [resets EXCEPT ![r.at] = 0]
      /\ Unlock(d)
      /\ Goto(d, "signin")
      /\ UNCHANGED <<cookie, move, stripe, links, started>>

-----------------------------------------------------------------------------
(* issue_email_change, after Verify: one link per account. *)
InsertMove(d) ==
  LET r == request[d]
  IN  /\ r.pc = "ask"
      /\ \/ /\ row.email = r.at
            /\ MoveFree
            /\ \E a \in Addresses \ {r.at} : move' = [link |-> links + 1, to |-> a]
            /\ links' = links + 1
         \/ row.email # r.at /\ UNCHANGED <<move, links>>
      /\ Finish(d)
      /\ UNCHANGED <<row, cookie, resets, stripe, rowlock, locks, started>>

(* Mutant of ConfirmMove: the link is spent in a transaction of its own. *)
ConfirmMoveAndCommit(d) ==
  /\ move.link # 0
  /\ MoveFree
  /\ Start(d, "move", "moving", row.email, None, 0)
  /\ move' = [move EXCEPT !.link = 0]
  /\ UNCHANGED <<row, cookie, resets, stripe, rowlock, locks, links>>

(* redeem_email_change, one transaction: the link is marked used, ...  (No *)
(* other account ever takes the new address here, and the account has a    *)
(* Stripe customer.)                                                       *)
ConfirmMove(d) ==
  /\ move.link # 0
  /\ MoveFree
  /\ Start(d, "move", "moving", row.email, None, 0)
  /\ UNCHANGED <<row, cookie, resets, move, stripe, rowlock, locks, links>>

(* ... the account's row written, ... *)
WriteMove(d) ==
  /\ request[d].pc = "moving"
  /\ RowFree
  /\ rowlock' = d
  /\ Goto(d, "moved")
  /\ UNCHANGED <<row, cookie, resets, move, stripe, locks, links, started>>

(* ... the reset link of the old address deleted, ... *)
DeleteReset(d) ==
  LET a == request[d].at
  IN  /\ request[d].pc = "moved"
      /\ ResetFree(a)
      /\ locks' = [locks EXCEPT ![a] = IF resets[a] # 0 THEN d ELSE None]
      /\ Goto(d, "stripe")
      /\ UNCHANGED <<row, cookie, resets, move, stripe, rowlock, links, started>>

(* ... Stripe told, and all of it committed. *)
CallStripe(d) ==
  /\ request[d].pc = "stripe"
  /\ stripe' = move.to
  /\ Goto(d, "commit")
  /\ UNCHANGED <<row, cookie, resets, move, rowlock, locks, links, started>>

CommitMove(d) ==
  LET a == request[d].at
  IN  /\ request[d].pc = "commit"
      /\ Save([row EXCEPT !.email = move.to])
      /\ resets' = [resets EXCEPT ![a] = IF locks[a] = d THEN 0 ELSE @]
      /\ move' = [move EXCEPT !.link = 0]
      /\ cookie' = [cookie EXCEPT ![d] = None]
      /\ Unlock(d)
      /\ Finish(d)
      /\ UNCHANGED <<stripe, links, started>>

(* A request dies, fails, or is the one PostgreSQL ends to undo a deadlock. *)
(* An answer of Stripe may be lost and its work done.                      *)
Fail(d) ==
  /\ request[d] # Idle
  /\ \/ UNCHANGED stripe
     \/ request[d].pc = "stripe" /\ stripe' = move.to
  /\ Unlock(d)
  /\ Finish(d)
  /\ UNCHANGED <<row, cookie, resets, move, links, started>>

Next ==
  \E d \in Devices :
    \/ Login(d) \/ SignIn(d) \/ Upgrade(d) \/ Refind(d) \/ Link(d) \/ Issue(d)
    \/ Logout(d) \/ Revoke(d)
    \/ Open(d, "change") \/ Open(d, "ask") \/ Verify(d) \/ ChangePassword(d)
    \/ AskReset(d) \/ InsertReset(d) \/ RedeemWrite(d) \/ SetUpWrite(d)
    \/ \E p \in Passwords : SetUp(d, p) \/ \E a \in Addresses : Redeem(d, a, p)
    \/ InsertMove(d) \/ ConfirmMove(d) \/ WriteMove(d) \/ DeleteReset(d)
    \/ CallStripe(d) \/ CommitMove(d) \/ Fail(d)

Spec == Init /\ [][Next]_vars

-----------------------------------------------------------------------------
(* sessions.py: the row is read again "so a concurrent password change     *)
(* cannot bless the old password with a new session revision".  A device   *)
(* whose cookie is accepted typed the password of the account.  A sign-in  *)
(* that replaced an old hash is excepted: the hash it compares with is one *)
(* it read after the replacement, and a change may have come in between.   *)
SessionKnowsPassword ==
  \A d \in Devices :
    Accepted(cookie[d]) => cookie[d].upgraded \/ cookie[d].typed = row.password

(* A cookie that is refused once is refused for good, wherever the account *)
(* and its password go, and sign-out has every cookie refused (unless the  *)
(* account has just moved away, which did the same).                       *)
SignsOut(d) == request[d].pc = "revoke" /\ row.email = request[d].at /\ Revoke(d)

SignedOutForGood ==
  [][\A d \in Devices :
       Accepted(cookie[d])' /\ cookie'[d] = cookie[d] =>
         Accepted(cookie[d]) /\ ~ \E e \in Devices : SignsOut(e)]_vars

(* setup.py: "two different links cannot overwrite credentials when        *)
(* redeemed concurrently", be they of before or after migration 009.       *)
SetUpOnce ==
  [][\A d \in Devices :
       request[d].op = "setup" /\ (RedeemWrite(d) \/ SetUpWrite(d)) /\ row'.hash # row.hash
         => row.password = None]_vars

(* Stripe and the account have different addresses only while there is a   *)
(* link to settle it: "Rolled back, so the link still works once billing   *)
(* answers again".                                                         *)
StripeAheadWithLink == stripe # row.email => move.link # 0
=============================================================================
