--------------------------- MODULE CheckoutProofs ---------------------------
(***************************************************************************)
(* Proofs about the checkout, for any number of tabs, attempts and offers  *)
(* and any two periods.  IInv says what a request may rely on between the  *)
(* two moments at which it looks at an attempt: while it holds the row     *)
(* lock nobody else settles the attempt, and what it gave up stays closed. *)
(***************************************************************************)
EXTENDS Checkout, TLAPS

Busy == {"look", "expire", "list", "insert", "create", "record"}

(* A transaction under way holds the lock. *)
LockInv == \A t \in Tabs : tab[t].pc \in Busy => rowlock = t

(* The session of i cannot be paid, now or later. *)
Closed(i) == stripe[i] = "expired" \/ (stripe[i] = "none" /\ ~Accepts(i))

(* What a row knows of its session. *)
RowInv ==
  \A i \in Ids :
    /\ attempt[i].status = "none" => stripe[i] = "none" /\ i \notin late
    /\ attempt[i].status = "expired" => Closed(i)
    /\ attempt[i].status = "complete" => stripe[i] = "complete"
    /\ attempt[i].session => stripe[i] # "none"
    /\ i \in urls => attempt[i].session

OneActive == \A i, j \in Ids : Active(i) /\ Active(j) => i = j

(* What a request at pc with attempt i has found out. *)
Known(pc, i) ==
  /\ pc = "expire" => i \in Ids /\ Active(i)
  /\ pc \in {"list", "insert"} => \A j \in Ids : Active(j) => j = i
  /\ pc \in {"list", "insert"} /\ i \in Ids => Active(i) /\ Closed(i)
  /\ pc = "insert" => ~Subscribed
  /\ pc = "second" => i \in Ids /\ attempt[i].status # "none"
  /\ pc \in {"create", "record"} => i \in Ids /\ Active(i) /\ ~attempt[i].session
  /\ pc = "record" => stripe[i] # "none"

(* It is still true. *)
TabInv == \A t \in Tabs : Known(tab[t].pc, tab[t].id)

(* Only a paid session sold a subscription, and while that lasts no other  *)
(* attempt is active or has sold one.                                      *)
SubInv ==
  \A i \in Ids :
    /\ sub[i] # "none" => stripe[i] = "complete"
    /\ stripe[i] = "complete" => attempt[i].session
    /\ sub[i] = "live" => \A j \in Ids : Active(j) \/ sub[j] = "live" => j = i

IInv ==
  /\ TypeOK
  /\ LockInv
  /\ RowInv
  /\ OneActive
  /\ TabInv
  /\ SubInv

-----------------------------------------------------------------------------
LEMMA IdsType == Ids \subseteq Nat /\ None \notin Ids /\ 0 \in 0 .. Life /\ Life \in 0 .. Life
BY CheckoutAssumption DEF Ids

LEMMA InitInv == Init => IInv
<1> SUFFICES ASSUME Init PROVE IInv
  OBVIOUS
<1>1. TypeOK
  BY IdsType, CheckoutAssumption DEF Init, TypeOK, Attempt, Request, Idle
<1>2. LockInv /\ RowInv /\ OneActive /\ TabInv /\ SubInv
  BY DEF Init, Idle, LockInv, Busy, RowInv, OneActive, Active, TabInv, Known, SubInv
<1> QED
  BY <1>1, <1>2 DEF IInv

Pcs == {"idle", "asked", "look", "expire", "list", "insert", "second", "create", "record"}

LEMMA GotoType ==
  ASSUME TypeOK, NEW t \in Tabs, NEW pc \in Pcs, NEW i \in Ids \cup {None}, Goto(t, pc, i)
  PROVE  tab' \in [Tabs -> Request]
<1>1. [tab[t] EXCEPT !.pc = pc, !.id = i] \in Request
  BY DEF TypeOK, Request, Pcs
<1> QED
  BY <1>1 DEF TypeOK, Goto

LEMMA ReleaseType ==
  ASSUME TypeOK, NEW t \in Tabs, Release(t)
  PROVE  rowlock' \in Tabs \cup {None}
BY DEF TypeOK, Release

LEMMA FinishType ==
  ASSUME TypeOK, NEW t \in Tabs, Finish(t)
  PROVE  tab' \in [Tabs -> Request] /\ rowlock' \in Tabs \cup {None}
<1>1. Idle \in Request
  BY DEF Idle, Request
<1> QED
  BY <1>1, ReleaseType DEF TypeOK, Finish

LEMMA IdType == ASSUME TypeOK, NEW t \in Tabs PROVE tab[t].id \in Ids \cup {None}
BY DEF TypeOK, Request

(* The forms a row may take. *)
LEMMA OpenType ==
  ASSUME TypeOK, NEW i
  PROVE  [attempt EXCEPT ![i].session = TRUE, ![i].status = "open"] \in [Ids -> Attempt]
<1>1. CASE i \in Ids
  <2>1. [attempt[i] EXCEPT !.session = TRUE, !.status = "open"] \in Attempt
    BY <1>1 DEF TypeOK, Attempt
  <2> QED
    BY <2>1 DEF TypeOK
<1>2. CASE i \notin Ids
  BY <1>2 DEF TypeOK
<1> QED
  BY <1>1, <1>2

LEMMA StatusType ==
  ASSUME TypeOK, NEW i, NEW s \in {"open", "complete", "expired"}
  PROVE  [attempt EXCEPT ![i].status = s] \in [Ids -> Attempt]
<1>1. CASE i \in Ids
  <2>1. [attempt[i] EXCEPT !.status = s] \in Attempt
    BY <1>1 DEF TypeOK, Attempt
  <2> QED
    BY <2>1 DEF TypeOK
<1>2. CASE i \notin Ids
  BY <1>2 DEF TypeOK
<1> QED
  BY <1>1, <1>2

LEMMA TypeStep == TypeOK /\ TabInv /\ [Next]_vars => TypeOK'
<1> SUFFICES ASSUME TypeOK, TabInv, [Next]_vars PROVE TypeOK'
  OBVIOUS
<1> USE CheckoutAssumption, IdsType
<1>1. ASSUME NEW t \in Tabs, NEW o \in Offers, NEW r \in BOOLEAN, Ask(t, o, r) PROVE TypeOK'
  <2>1. [pc |-> "asked", offer |-> o, replace |-> r, id |-> None] \in Request
    BY DEF Request
  <2> QED
    BY <1>1, <2>1 DEF Ask, TypeOK
<1>2. ASSUME NEW t \in Tabs, Begin(t) PROVE TypeOK'
  <2>1. tab' \in [Tabs -> Request] /\ rowlock' \in Tabs \cup {None}
    BY <1>2, FinishType, GotoType DEF Begin, Pcs, Hold
  <2> QED
    BY <1>2, <2>1 DEF Begin, TypeOK
<1>3. ASSUME NEW t \in Tabs, Reuse(t) PROVE TypeOK'
  <2>1. tab' \in [Tabs -> Request] /\ rowlock' \in Tabs \cup {None}
    BY <1>3, FinishType DEF Reuse
  <2>2. attempt' \in [Ids -> Attempt] /\ urls' \subseteq Ids
    BY <1>3, OpenType DEF Reuse, TypeOK
  <2> QED
    BY <1>3, <2>1, <2>2 DEF Reuse, TypeOK
<1>4. ASSUME NEW t \in Tabs, Keep(t) PROVE TypeOK'
  <2>1. tab' \in [Tabs -> Request] /\ rowlock' \in Tabs \cup {None}
    BY <1>4, GotoType, ReleaseType DEF Keep, Pcs
  <2> QED
    BY <1>4, <2>1 DEF Keep, TypeOK
<1>5. ASSUME NEW t \in Tabs, Replace(t) PROVE TypeOK'
  <2>1. tab' \in [Tabs -> Request]
    BY <1>5, GotoType DEF Replace, Pcs
  <2> QED
    BY <1>5, <2>1 DEF Replace, TypeOK
<1>6. ASSUME NEW t \in Tabs, GiveUp(t) PROVE TypeOK'
  <2>1. tab' \in [Tabs -> Request]
    BY <1>6, GotoType DEF GiveUp, Pcs
  <2> QED
    BY <1>6, <2>1 DEF GiveUp, TypeOK
<1>7. ASSUME NEW t \in Tabs, Refuse(t) PROVE TypeOK'
  <2>1. tab' \in [Tabs -> Request] /\ rowlock' \in Tabs \cup {None}
    BY <1>7, FinishType DEF Refuse
  <2> QED
    BY <1>7, <2>1 DEF Refuse, TypeOK
<1>8. ASSUME NEW t \in Tabs, Expire(t) PROVE TypeOK'
  <2>1. tab' \in [Tabs -> Request] /\ rowlock' \in Tabs \cup {None}
    BY <1>8, FinishType, GotoType, IdType DEF Expire, Pcs, TypeOK
  <2>2. stripe' \in [Ids -> {"none", "open", "complete", "expired"}]
    BY <1>8 DEF Expire, TypeOK
  <2> QED
    BY <1>8, <2>1, <2>2 DEF Expire, TypeOK
<1>9. ASSUME NEW t \in Tabs, List(t) PROVE TypeOK'
  <2>1. tab' \in [Tabs -> Request] /\ rowlock' \in Tabs \cup {None}
    BY <1>9, FinishType, GotoType, IdType DEF List, Pcs, TypeOK
  <2> QED
    BY <1>9, <2>1 DEF List, TypeOK
<1>10. ASSUME NEW t \in Tabs, Insert(t) PROVE TypeOK'
  <2>1. PICK n \in Ids :
          /\ attempt' = [i \in Ids |->
               IF i = n THEN NewAttempt(tab[t].offer)
               ELSE IF i = tab[t].id THEN [attempt[i] EXCEPT !.status = "expired"]
               ELSE attempt[i]]
          /\ Goto(t, "second", n)
    BY <1>10 DEF Insert
  <2>2. tab' \in [Tabs -> Request] /\ rowlock' \in Tabs \cup {None}
    BY <1>10, <2>1, GotoType, ReleaseType DEF Insert, Pcs
  <2>3. NewAttempt(tab[t].offer) \in Attempt
    BY DEF TypeOK, Attempt, Request, NewAttempt
  <2>4. \A i \in Ids : [attempt[i] EXCEPT !.status = "expired"] \in Attempt
    BY DEF TypeOK, Attempt
  <2>5. attempt' \in [Ids -> Attempt]
    BY <2>1, <2>3, <2>4 DEF TypeOK
  <2> QED
    BY <1>10, <2>2, <2>5 DEF Insert, TypeOK
<1>11. ASSUME NEW t \in Tabs, SecondCreate(t) PROVE TypeOK'
  <2>1. tab' \in [Tabs -> Request]
    BY <1>11, GotoType, IdType DEF SecondCreate, Pcs
  <2> QED
    BY <1>11, <2>1 DEF SecondCreate, Hold, TypeOK
<1>12. ASSUME NEW t \in Tabs, SecondOpen(t), tab[t].id \in Ids PROVE TypeOK'
  <2>1. tab' \in [Tabs -> Request] /\ rowlock' \in Tabs \cup {None}
    BY <1>12, FinishType DEF SecondOpen
  <2>2. attempt' \in [Ids -> Attempt] /\ urls' \subseteq Ids
    BY <1>12, StatusType DEF SecondOpen, TypeOK
  <2> QED
    BY <1>12, <2>1, <2>2 DEF SecondOpen, TypeOK
<1>13. ASSUME NEW t \in Tabs, SecondRefuse(t) PROVE TypeOK'
  <2>1. tab' \in [Tabs -> Request] /\ rowlock' \in Tabs \cup {None}
    BY <1>13, FinishType DEF SecondRefuse
  <2> QED
    BY <1>13, <2>1 DEF SecondRefuse, TypeOK
<1>14. ASSUME NEW t \in Tabs, Create(t) PROVE TypeOK'
  <2>1. tab' \in [Tabs -> Request]
    BY <1>14, GotoType, IdType DEF Create, Pcs
  <2> QED
    BY <1>14, <2>1 DEF Create, Opened, TypeOK
<1>15. ASSUME NEW t \in Tabs, CreateRefused(t) PROVE TypeOK'
  <2>1. tab' \in [Tabs -> Request] /\ rowlock' \in Tabs \cup {None}
    BY <1>15, FinishType DEF CreateRefused
  <2> QED
    BY <1>15, <2>1 DEF CreateRefused, TypeOK
<1>16. ASSUME NEW t \in Tabs, Record(t), tab[t].id \in Ids PROVE TypeOK'
  <2>1. tab' \in [Tabs -> Request] /\ rowlock' \in Tabs \cup {None}
    BY <1>16, FinishType DEF Record
  <2>2. attempt' \in [Ids -> Attempt] /\ urls' \subseteq Ids
    BY <1>16, OpenType DEF Record, TypeOK
  <2> QED
    BY <1>16, <2>1, <2>2 DEF Record, TypeOK
<1>17. ASSUME NEW t \in Tabs, Fail(t), tab[t].pc = "create" => tab[t].id \in Ids PROVE TypeOK'
  <2>1. tab' \in [Tabs -> Request] /\ rowlock' \in Tabs \cup {None}
    BY <1>17, FinishType DEF Fail
  <2>2. late' \subseteq Ids
    BY <1>17 DEF Fail, TypeOK
  <2>3. faults' \in 0 .. MaxFaults
    BY <1>17 DEF Fail, TypeOK
  <2> QED
    BY <1>17, <2>1, <2>2, <2>3 DEF Fail, TypeOK
<1>18. ASSUME NEW i \in Ids, Arrive(i) PROVE TypeOK'
  BY <1>18 DEF Arrive, Opened, TypeOK
<1>19. ASSUME NEW i \in Ids, Pay(i) PROVE TypeOK'
  BY <1>19 DEF Pay, TypeOK
<1>20. ASSUME NEW i \in Ids, End(i) PROVE TypeOK'
  BY <1>20 DEF End, TypeOK
<1>21. ASSUME NEW i \in Ids, Webhook(i) PROVE TypeOK'
  <2>1. attempt' \in [Ids -> Attempt]
    BY <1>21, StatusType DEF Webhook
  <2> QED
    BY <1>21, <2>1 DEF Webhook, TypeOK
<1>22. ASSUME Tick PROVE TypeOK'
  <2>1. \A i \in Ids : [attempt[i] EXCEPT !.left = IF @ > 0 THEN @ - 1 ELSE 0] \in Attempt
    BY DEF TypeOK, Attempt
  <2> QED
    BY <1>22, <2>1 DEF Tick, TypeOK
<1>23. CASE Cutoff
  BY <1>23 DEF Cutoff, TypeOK
<1>24. CASE UNCHANGED vars
  BY <1>24 DEF vars, TypeOK
<1>25. \A t \in Tabs : tab[t].pc \in {"second", "create", "record"} => tab[t].id \in Ids
  BY DEF TabInv, Known
<1>26. \A t \in Tabs : SecondOpen(t) \/ Record(t) => tab[t].id \in Ids
  BY <1>25 DEF SecondOpen, Record
<1> QED
  BY <1>1, <1>2, <1>3, <1>4, <1>5, <1>6, <1>7, <1>8, <1>9, <1>10, <1>11, <1>12, <1>13,
     <1>14, <1>15, <1>16, <1>17, <1>18, <1>19, <1>20, <1>21, <1>22, <1>23, <1>24, <1>25, <1>26
     DEF Next, Step

-----------------------------------------------------------------------------
(* An open session has an active attempt. *)
LEMMA OpenIsActive ==
  ASSUME TypeOK, RowInv, NEW i \in Ids, stripe[i] = "open"
  PROVE  Active(i)
BY DEF TypeOK, RowInv, Active, Closed, Attempt

(* Steps that write neither rows nor sessions keep what is said of them. *)
LEMMA RowsKept ==
  ASSUME IInv, UNCHANGED <<attempt, stripe, sub, urls>>, late' \subseteq late \cup {i \in Ids : attempt[i].status # "none"}
  PROVE  RowInv' /\ OneActive' /\ SubInv'
BY DEF IInv, RowInv, OneActive, SubInv, Active, Closed, Accepts

(* A request that ends takes nothing from the others. *)
LEMMA FinishKeeps ==
  ASSUME IInv, NEW t \in Tabs, Finish(t), UNCHANGED <<attempt, stripe, sub>>
  PROVE  LockInv' /\ TabInv'
<1>1. /\ tab' = [tab EXCEPT ![t] = Idle]
      /\ rowlock' = IF rowlock = t THEN None ELSE rowlock
  BY DEF Finish, Release
<1>2. \A u \in Tabs : tab'[u] = IF u = t THEN Idle ELSE tab[u]
  BY <1>1 DEF IInv, TypeOK
<1>3. LockInv'
  BY <1>1, <1>2 DEF IInv, LockInv, Busy, Idle
<1>4. TabInv'
  BY <1>2 DEF IInv, TabInv, Idle, Known, Active, Closed, Accepts, Subscribed
<1> QED
  BY <1>3, <1>4

Rest == LockInv /\ RowInv /\ OneActive /\ TabInv /\ SubInv

(* A request that moves on keeps what is known of the others. *)
LEMMA GotoKeeps ==
  ASSUME IInv, NEW t \in Tabs, NEW pc \in Pcs, NEW i \in Ids \cup {None}, Goto(t, pc, i),
         UNCHANGED <<attempt, stripe, sub>>,
         \/ rowlock' = t /\ rowlock \in {t, None}
         \/ Release(t) /\ pc \notin Busy,
         Known(pc, i)
  PROVE  LockInv' /\ TabInv'
<1>1. \A u \in Tabs : u # t => tab'[u] = tab[u]
  BY DEF Goto, IInv, TypeOK
<1>2. tab'[t].pc = pc /\ tab'[t].id = i
  BY DEF Goto, IInv, TypeOK, Request
<1>3. LockInv'
  BY <1>1, <1>2, CheckoutAssumption DEF IInv, LockInv, Busy, Release
<1>4. \A u \in Tabs : Known(tab'[u].pc, tab'[u].id)
  BY <1>1, <1>2 DEF IInv, TabInv, Known
<1>5. TabInv'
  BY <1>4 DEF TabInv, Known, Active, Closed, Accepts, Subscribed
<1> QED
  BY <1>3, <1>5

(* Who holds the lock is the only one with a transaction under way. *)
LEMMA Alone ==
  ASSUME IInv, NEW t \in Tabs, tab[t].pc \in Busy \/ rowlock = None,
         NEW u \in Tabs, u # t
  PROVE  tab[u].pc \notin Busy
BY CheckoutAssumption DEF IInv, LockInv

(* A transaction that commits and ends keeps what others know. *)
LEMMA CommitKeeps ==
  ASSUME IInv, NEW t \in Tabs, tab[t].pc \in Busy \/ rowlock = None, Finish(t),
         \A i \in Ids : attempt[i].status # "none" => attempt'[i].status # "none"
  PROVE  LockInv' /\ TabInv'
<1>1. \A u \in Tabs : tab'[u] = IF u = t THEN Idle ELSE tab[u]
  BY DEF Finish, IInv, TypeOK
<1>2. \A u \in Tabs : tab'[u].pc \notin Busy
  BY <1>1, Alone DEF Idle, Busy
<1>3. \A u \in Tabs : tab'[u].pc = "second" =>
         tab'[u].id \in Ids /\ attempt'[tab'[u].id].status # "none"
  BY <1>1 DEF Idle, IInv, TabInv, Known
<1> QED
  BY <1>2, <1>3 DEF LockInv, TabInv, Known, Busy

(* A commit that records the session of i, active and known to Stripe. *)
CommitsOpen(i) ==
  /\ Active(i)
  /\ stripe[i] # "none"
  /\ attempt' = [attempt EXCEPT ![i].session = TRUE, ![i].status = "open"]
  /\ urls' = urls \cup {i}
  /\ UNCHANGED <<stripe, sub, late>>

LEMMA OpenKeeps ==
  ASSUME IInv, NEW i \in Ids, CommitsOpen(i)
  PROVE  /\ RowInv' /\ OneActive' /\ SubInv'
         /\ \A j \in Ids : attempt[j].status # "none" => attempt'[j].status # "none"
<1>1. /\ \A j \in Ids : j # i => attempt'[j] = attempt[j]
      /\ attempt'[i].session /\ attempt'[i].status = "open"
      /\ attempt'[i].left = attempt[i].left
  BY DEF CommitsOpen, IInv, TypeOK, Attempt
<1>2. \A j \in Ids : Active(j)' <=> Active(j)
  BY <1>1 DEF Active, CommitsOpen
<1>3. OneActive'
  BY <1>2 DEF IInv, OneActive
<1>4. RowInv'
  BY <1>1 DEF CommitsOpen, IInv, RowInv, Closed, Accepts
<1>5. SubInv'
  BY <1>1, <1>2 DEF CommitsOpen, IInv, SubInv
<1> QED
  BY <1>1, <1>3, <1>4, <1>5

(* Stripe opens the session of an active attempt. *)
LEMMA OpenedKeeps ==
  ASSUME IInv, NEW i \in Ids, Accepts(i), attempt[i].status # "none", Opened(i),
         UNCHANGED <<attempt, sub, urls>>, late' \subseteq late
  PROVE  RowInv' /\ OneActive' /\ SubInv'
<1>1. \A j \in Ids : stripe'[j] = IF j = i /\ stripe[i] = "none" THEN "open" ELSE stripe[j]
  BY DEF Opened, IInv, TypeOK
<1> QED
  BY <1>1 DEF IInv, RowInv, OneActive, SubInv, Active, Closed, Accepts

LEMMA RestStep == IInv /\ [Next]_vars => Rest'
<1> SUFFICES ASSUME IInv, [Next]_vars PROVE Rest'
  OBVIOUS
<1> USE DEF Rest
<1>1. ASSUME NEW t \in Tabs, NEW o \in Offers, NEW r \in BOOLEAN, Ask(t, o, r) PROVE Rest'
  <2>1. RowInv' /\ OneActive' /\ SubInv'
    BY <1>1, RowsKept DEF Ask
  <2>2. \A u \in Tabs : \/ tab'[u] = tab[u]
                       \/ tab'[u].pc = "asked"
    BY <1>1 DEF Ask, IInv, TypeOK
  <2>3. LockInv' /\ TabInv'
    BY <1>1, <2>2 DEF Ask, IInv, LockInv, Busy, TabInv, Known, Active, Closed, Accepts, Subscribed
  <2> QED
    BY <2>1, <2>3
<1>2. ASSUME NEW t \in Tabs, Begin(t) PROVE Rest'
  <2>1. RowInv' /\ OneActive' /\ SubInv'
    BY <1>2, RowsKept DEF Begin
  <2>2. LockInv' /\ TabInv'
    BY <1>2, FinishKeeps, GotoKeeps DEF Known, Begin, LockFree, Hold, Pcs
  <2> QED
    BY <2>1, <2>2
<1>4. ASSUME NEW t \in Tabs, Keep(t) PROVE Rest'
  <2>1. RowInv' /\ OneActive' /\ SubInv'
    BY <1>4, RowsKept DEF Keep
  <2>2. LockInv' /\ TabInv'
    BY <1>4, GotoKeeps DEF Known, Keep, Looks, Active, Busy, Pcs
  <2> QED
    BY <2>1, <2>2
<1>5. ASSUME NEW t \in Tabs, Replace(t) PROVE Rest'
  <2>1. RowInv' /\ OneActive' /\ SubInv'
    BY <1>5, RowsKept DEF Replace
  <2>2. rowlock = t
    BY <1>5 DEF Replace, Looks, IInv, LockInv, Busy
  <2>3. LockInv' /\ TabInv'
    BY <1>5, <2>2, GotoKeeps DEF Known, Replace, Looks, Pcs
  <2> QED
    BY <2>1, <2>3
<1>6. ASSUME NEW t \in Tabs, GiveUp(t) PROVE Rest'
  <2>1. RowInv' /\ OneActive' /\ SubInv'
    BY <1>6, RowsKept DEF GiveUp
  <2>2. rowlock = t
    BY <1>6 DEF GiveUp, Looks, IInv, LockInv, Busy
  <2>3. PICK i \in Ids \cup {None} :
          /\ Goto(t, "list", i)
          /\ \A j \in Ids : Active(j) => j = i
          /\ i \in Ids => Active(i) /\ Closed(i)
    BY <1>6, IdsType DEF GiveUp, Looks, IInv, OneActive, Closed, Creatable, Accepts
  <2>4. LockInv' /\ TabInv'
    BY <1>6, <2>2, <2>3, GotoKeeps DEF Known, GiveUp, Pcs
  <2> QED
    BY <2>1, <2>4
<1>7. ASSUME NEW t \in Tabs, Refuse(t) PROVE Rest'
  BY <1>7, RowsKept, FinishKeeps DEF Refuse
<1>9. ASSUME NEW t \in Tabs, List(t) PROVE Rest'
  <2>1. RowInv' /\ OneActive' /\ SubInv'
    BY <1>9, RowsKept DEF List
  <2>2. CASE Finish(t)
    BY <1>9, <2>1, <2>2, FinishKeeps DEF List
  <2>3. CASE ~Subscribed /\ Goto(t, "insert", tab[t].id) /\ UNCHANGED rowlock
    <3>1. /\ rowlock = t
          /\ tab[t].id \in Ids \cup {None}
          /\ \A j \in Ids : Active(j) => j = tab[t].id
          /\ tab[t].id \in Ids => Active(tab[t].id) /\ Closed(tab[t].id)
      BY <1>9, IdType DEF List, IInv, LockInv, TabInv, Known, Busy
    <3> QED
      BY <1>9, <2>1, <2>3, <3>1, GotoKeeps DEF Known, List, Pcs
  <2> QED
    BY <1>9, <2>2, <2>3 DEF List
<1>11. ASSUME NEW t \in Tabs, SecondCreate(t) PROVE Rest'
  <2>1. RowInv' /\ OneActive' /\ SubInv'
    BY <1>11, RowsKept DEF SecondCreate
  <2>2. tab[t].id \in Ids
    BY <1>11 DEF SecondCreate, IInv, TabInv, Known
  <2>3. LockInv' /\ TabInv'
    BY <1>11, <2>2, GotoKeeps DEF Known, SecondCreate, LockFree, Hold, Pcs
  <2> QED
    BY <2>1, <2>3
<1>13. ASSUME NEW t \in Tabs, SecondRefuse(t) PROVE Rest'
  BY <1>13, RowsKept, FinishKeeps DEF SecondRefuse
<1>15. ASSUME NEW t \in Tabs, CreateRefused(t) PROVE Rest'
  BY <1>15, RowsKept, FinishKeeps DEF CreateRefused
<1>17. ASSUME NEW t \in Tabs, Fail(t) PROVE Rest'
  <2>1. late' \subseteq late \cup {i \in Ids : attempt[i].status # "none"}
    BY <1>17 DEF Fail, IInv, TabInv, Known, Active
  <2> QED
    BY <1>17, <2>1, RowsKept, FinishKeeps DEF Fail
<1>3. ASSUME NEW t \in Tabs, Reuse(t) PROVE Rest'
  <2>1. PICK i \in Ids :
          /\ tab[t].pc = "look"
          /\ Active(i)
          /\ stripe[i] = "open"
          /\ attempt' = [attempt EXCEPT ![i].session = TRUE, ![i].status = "open"]
          /\ urls' = urls \cup {i}
    BY <1>3 DEF Reuse, Looks
  <2>2. CommitsOpen(i)
    BY <1>3, <2>1 DEF CommitsOpen, Reuse
  <2>3. LockInv' /\ TabInv'
    BY <1>3, <2>1, <2>2, OpenKeeps, CommitKeeps DEF Reuse, Busy
  <2> QED
    BY <2>2, <2>3, OpenKeeps
<1>8. ASSUME NEW t \in Tabs, Expire(t) PROVE Rest'
  <2> DEFINE i == tab[t].id
  <2>1. CASE stripe[i] # "open"
    BY <1>8, <2>1, RowsKept, FinishKeeps DEF Expire
  <2>2. CASE stripe[i] = "open"
    <3>1. /\ i \in Ids
          /\ Active(i)
          /\ rowlock = t /\ rowlock' = t
          /\ stripe' = [stripe EXCEPT ![i] = "expired"]
          /\ Goto(t, "list", i)
          /\ UNCHANGED <<attempt, sub, late, urls>>
      BY <1>8, <2>2 DEF Expire, IInv, TabInv, Known, LockInv, Busy
    <3>2. RowInv' /\ OneActive' /\ SubInv'
      BY <2>2, <3>1 DEF IInv, TypeOK, RowInv, OneActive, SubInv, Active, Closed, Accepts
    <3>3. \A u \in Tabs : u # t => tab'[u] = tab[u] /\ tab[u].pc \notin Busy
      BY <1>8, <3>1, Alone DEF Goto, IInv, TypeOK, Expire, Busy
    <3>4. tab'[t].pc = "list" /\ tab'[t].id = i
      BY <3>1 DEF Goto, IInv, TypeOK, Request
    <3>5. LockInv'
      BY <3>1, <3>3 DEF LockInv
    <3>6. Known(tab[t].pc, tab[t].id)'
      BY <3>1, <3>4 DEF Known, IInv, TypeOK, OneActive, Active, Closed
    <3>7. \A u \in Tabs : u # t => Known(tab[u].pc, tab[u].id)'
      BY <3>1, <3>3 DEF Known, IInv, TabInv, Busy
    <3> QED
      BY <3>2, <3>4, <3>5, <3>6, <3>7 DEF TabInv
  <2> QED
    BY <2>1, <2>2
<1>10. ASSUME NEW t \in Tabs, Insert(t) PROVE Rest'
  <2>1. PICK n \in Ids :
          /\ Fresh(n)
          /\ attempt' = [i \in Ids |->
               IF i = n THEN NewAttempt(tab[t].offer)
               ELSE IF i = tab[t].id THEN [attempt[i] EXCEPT !.status = "expired"]
               ELSE attempt[i]]
          /\ Goto(t, "second", n)
    BY <1>10 DEF Insert
  <2>2. /\ tab[t].pc = "insert"
        /\ Release(t)
        /\ UNCHANGED <<stripe, sub, late, urls>>
    BY <1>10 DEF Insert
  <2>3. attempt[n].status = "none"
    BY <2>1, IdsType DEF Fresh
  <2>4. Known("insert", tab[t].id)
    BY <2>2 DEF IInv, TabInv
  <2>5. \A i \in Ids : Active(i)' <=> i = n
    BY <2>1, <2>4 DEF Active, Known, IInv, TypeOK, Attempt, NewAttempt
  <2>6. RowInv'
    BY <2>1, <2>2, <2>3, <2>4 DEF Known, IInv, TypeOK, Attempt, NewAttempt, RowInv, Closed, Accepts
  <2>7. SubInv'
    BY <2>1, <2>2, <2>3, <2>4, <2>5
    DEF Known, IInv, TypeOK, Attempt, NewAttempt, RowInv, SubInv, Subscribed
  <2>8. \A u \in Tabs : u # t => tab'[u] = tab[u] /\ tab[u].pc \notin Busy
    BY <2>1, <2>2, Alone DEF Goto, IInv, TypeOK, Busy
  <2>9. tab'[t].pc = "second" /\ tab'[t].id = n
    BY <2>1 DEF Goto, IInv, TypeOK, Request
  <2>10. LockInv'
    BY <2>8, <2>9 DEF LockInv, Busy
  <2>11. \A i \in Ids : attempt[i].status # "none" => attempt'[i].status # "none"
    BY <2>1 DEF IInv, TypeOK, Attempt, NewAttempt
  <2>12. attempt'[n].status # "none"
    BY <2>1 DEF NewAttempt
  <2>13. TabInv'
    BY <2>8, <2>9, <2>11, <2>12 DEF TabInv, Known, IInv, Busy
  <2> QED
    BY <2>5, <2>6, <2>7, <2>10, <2>13 DEF OneActive
<1>12. ASSUME NEW t \in Tabs, SecondOpen(t) PROVE Rest'
  <2>1. tab[t].id \in Ids
    BY <1>12 DEF SecondOpen, IInv, TabInv, Known
  <2>2. CommitsOpen(tab[t].id)
    BY <1>12, <2>1 DEF SecondOpen, CommitsOpen, IInv, TypeOK, Attempt
  <2>3. LockInv' /\ TabInv'
    BY <1>12, <2>1, <2>2, OpenKeeps, CommitKeeps DEF SecondOpen, LockFree
  <2> QED
    BY <2>1, <2>2, <2>3, OpenKeeps
<1>14. ASSUME NEW t \in Tabs, Create(t) PROVE Rest'
  <2> DEFINE i == tab[t].id
  <2>1. /\ i \in Ids
        /\ Active(i)
        /\ ~attempt[i].session
        /\ rowlock = t /\ rowlock' = t
        /\ Goto(t, "record", i)
        /\ Opened(i)
        /\ UNCHANGED <<attempt, sub, late, urls>>
    BY <1>14 DEF Create, IInv, TabInv, Known, LockInv, Busy
  <2>2. RowInv' /\ OneActive' /\ SubInv'
    BY <1>14, <2>1, OpenedKeeps DEF Create, Active
  <2>3. \A u \in Tabs : u # t => tab'[u] = tab[u] /\ tab[u].pc \notin Busy
    BY <1>14, <2>1, Alone DEF Goto, IInv, TypeOK, Create, Busy
  <2>4. tab'[t].pc = "record" /\ tab'[t].id = i
    BY <2>1 DEF Goto, IInv, TypeOK, Request
  <2>5. LockInv'
    BY <2>1, <2>3 DEF LockInv
  <2>6. stripe'[i] # "none"
    BY <2>1 DEF Opened, IInv, TypeOK
  <2>7. Known(tab[t].pc, tab[t].id)'
    BY <2>1, <2>4, <2>6 DEF Known, Active
  <2>8. \A u \in Tabs : u # t => Known(tab[u].pc, tab[u].id)'
    BY <2>1, <2>3 DEF Known, IInv, TabInv, Busy
  <2> QED
    BY <2>2, <2>4, <2>5, <2>7, <2>8 DEF TabInv
<1>16. ASSUME NEW t \in Tabs, Record(t) PROVE Rest'
  <2>1. tab[t].id \in Ids /\ Active(tab[t].id) /\ stripe[tab[t].id] # "none"
    BY <1>16 DEF Record, IInv, TabInv, Known
  <2>2. CommitsOpen(tab[t].id)
    BY <1>16, <2>1 DEF Record, CommitsOpen
  <2>3. LockInv' /\ TabInv'
    BY <1>16, <2>1, <2>2, OpenKeeps, CommitKeeps DEF Record, Busy
  <2> QED
    BY <2>1, <2>2, <2>3, OpenKeeps
<1>18. ASSUME NEW i \in Ids, Arrive(i) PROVE Rest'
  <2>1. RowInv' /\ OneActive' /\ SubInv'
    <3>1. CASE Accepts(i) /\ Opened(i)
      <4>1. attempt[i].status # "none" /\ late' \subseteq late
        BY <1>18 DEF Arrive, IInv, RowInv
      <4> QED
        BY <1>18, <3>1, <4>1, OpenedKeeps DEF Arrive
    <3>2. CASE UNCHANGED stripe
      BY <1>18, <3>2, RowsKept DEF Arrive
    <3> QED
      BY <1>18, <3>1, <3>2 DEF Arrive
  <2>2. \A j \in Ids : stripe'[j] = stripe[j] \/ (stripe[j] = "none" /\ Accepts(j) /\ stripe'[j] = "open")
    BY <1>18 DEF Arrive, Opened, IInv, TypeOK
  <2>3. LockInv' /\ TabInv'
    BY <1>18, <2>2 DEF Arrive, IInv, LockInv, TabInv, Known, Active, Closed, Accepts, Subscribed
  <2> QED
    BY <2>1, <2>3
<1>19. ASSUME NEW i \in Ids, Pay(i) PROVE Rest'
  <2>1. /\ stripe[i] = "open"
        /\ attempt[i].session
        /\ stripe' = [stripe EXCEPT ![i] = "complete"]
        /\ sub' = [sub EXCEPT ![i] = "live"]
        /\ UNCHANGED <<attempt, late, urls, rowlock, tab>>
    BY <1>19 DEF Pay, IInv, RowInv
  <2>2. Active(i)
    BY <2>1, OpenIsActive DEF IInv
  <2>3. \A j \in Ids : j # i => stripe'[j] = stripe[j] /\ sub'[j] = sub[j]
    BY <2>1 DEF IInv, TypeOK
  <2>4. stripe'[i] = "complete"
    BY <2>1 DEF IInv, TypeOK
  <2>5. \A j \in Ids : Active(j)' <=> Active(j)
    BY <2>1 DEF Active
  <2>6. RowInv' /\ OneActive'
    BY <2>1, <2>2, <2>3, <2>4 DEF IInv, RowInv, OneActive, Active, Closed, Accepts
  <2>7. SubInv'
    BY <2>1, <2>2, <2>3, <2>4, <2>5 DEF IInv, SubInv, OneActive
  <2>8. \A t \in Tabs : tab[t].pc \notin {"list", "insert"}
    BY <2>1, <2>2 DEF IInv, TabInv, Known, Closed
  <2>9. LockInv' /\ TabInv'
    BY <2>1, <2>3, <2>4, <2>5, <2>8 DEF IInv, LockInv, TabInv, Known
  <2> QED
    BY <2>6, <2>7, <2>9
<1>20. ASSUME NEW i \in Ids, End(i) PROVE Rest'
  <2>1. /\ sub[i] = "live"
        /\ \A j \in Ids : j # i => sub'[j] = sub[j]
        /\ sub'[i] = "ended"
        /\ UNCHANGED <<attempt, stripe, late, urls, rowlock, tab>>
    BY <1>20 DEF End, IInv, TypeOK
  <2>2. RowInv' /\ OneActive' /\ SubInv'
    BY <2>1 DEF IInv, RowInv, OneActive, SubInv, Active, Closed, Accepts
  <2>3. LockInv' /\ TabInv'
    BY <2>1 DEF IInv, LockInv, TabInv, Known, Active, Closed, Accepts, Subscribed
  <2> QED
    BY <2>2, <2>3
<1>21. ASSUME NEW i \in Ids, Webhook(i) PROVE Rest'
  <2>1. /\ Active(i)
        /\ attempt[i].session
        /\ stripe[i] \in {"complete", "expired"}
        /\ \A t \in Tabs : rowlock = t => tab[t].id # i
        /\ UNCHANGED <<stripe, sub, late, urls, rowlock, tab>>
    BY <1>21 DEF Webhook
  <2>2. /\ \A j \in Ids : j # i => attempt'[j] = attempt[j]
        /\ attempt'[i].status = stripe[i]
        /\ attempt'[i].session /\ attempt'[i].left = attempt[i].left
    BY <1>21, <2>1 DEF Webhook, IInv, TypeOK, Attempt
  <2>3. \A j \in Ids : Active(j)' => Active(j)
    BY <2>1, <2>2 DEF Active
  <2>4. RowInv' /\ OneActive' /\ SubInv'
    BY <2>1, <2>2, <2>3 DEF IInv, RowInv, OneActive, SubInv, Closed, Accepts
  <2>5. \A t \in Tabs : tab[t].pc \in Busy => tab[t].id # i
    BY <2>1 DEF IInv, LockInv
  <2>6. TabInv'
    BY <2>1, <2>2, <2>3, <2>5 DEF IInv, TabInv, Known, Active, Closed, Accepts, Subscribed, Busy
  <2>7. LockInv'
    BY <2>1 DEF IInv, LockInv
  <2> QED
    BY <2>4, <2>6, <2>7
<1>22. ASSUME Tick PROVE Rest'
  <2>1. \A i \in Ids : /\ attempt'[i].status = attempt[i].status
                       /\ attempt'[i].session = attempt[i].session
                       /\ attempt'[i].left <= attempt[i].left
                       /\ attempt'[i].left \in Nat /\ attempt[i].left \in Nat
    BY <1>22 DEF Tick, IInv, TypeOK, Attempt
  <2>2. \A i \in Ids : stripe'[i] = stripe[i] \/ (stripe[i] = "open" /\ stripe'[i] = "expired")
    BY <1>22 DEF Tick
  <2>3. UNCHANGED <<sub, late, urls, rowlock, tab>>
    BY <1>22 DEF Tick
  <2>4. \A i \in Ids : (Active(i)' <=> Active(i)) /\ (Closed(i) => Closed(i)')
    BY <2>1, <2>2, CheckoutAssumption DEF Active, Closed, Accepts
  <2>5. RowInv' /\ OneActive' /\ SubInv'
    BY <2>1, <2>2, <2>3, <2>4 DEF IInv, RowInv, OneActive, SubInv
  <2>6. LockInv' /\ TabInv'
    BY <2>1, <2>2, <2>3, <2>4 DEF IInv, LockInv, TabInv, Known, Subscribed
  <2> QED
    BY <2>5, <2>6
<1>23. ASSUME Cutoff \/ UNCHANGED vars PROVE Rest'
  <2>1. UNCHANGED <<attempt, stripe, sub, late, urls, rowlock, tab>>
    BY <1>23 DEF Cutoff, vars
  <2>2. RowInv' /\ OneActive' /\ SubInv'
    BY <2>1, RowsKept
  <2>3. LockInv' /\ TabInv'
    BY <2>1 DEF IInv, LockInv, TabInv, Known, Active, Closed, Accepts, Subscribed
  <2> QED
    BY <2>2, <2>3
<1> QED
  BY <1>1, <1>2, <1>3, <1>4, <1>5, <1>6, <1>7, <1>8, <1>9, <1>10, <1>11, <1>12, <1>13,
     <1>14, <1>15, <1>16, <1>17, <1>18, <1>19, <1>20, <1>21, <1>22, <1>23 DEF Next, Step

LEMMA Invariance == Spec => []IInv
<1>1. IInv /\ [Next]_vars => IInv'
  <2> SUFFICES ASSUME IInv, [Next]_vars PROVE IInv'
    OBVIOUS
  <2>1. TypeOK'
    BY TypeStep DEF IInv
  <2>2. Rest'
    BY RestStep
  <2> QED
    BY <2>1, <2>2 DEF IInv, Rest
<1> QED
  BY InitInv, <1>1, PTL DEF Spec

-----------------------------------------------------------------------------
(* Every variable keeps its type. *)
THEOREM TypeCorrect == Spec => []TypeOK
<1>1. IInv => TypeOK
  BY DEF IInv
<1> QED
  BY Invariance, <1>1, PTL

(* The unique index on active attempts never refuses an INSERT. *)
THEOREM IndexIsNeverHit == Spec => []OneAttempt
<1>1. IInv => OneAttempt
  BY DEF IInv, TabInv, Known, OneAttempt
<1> QED
  BY Invariance, <1>1, PTL

(* Stripe never holds two open sessions of the account. *)
THEOREM NeverTwoToPay == Spec => []OneOpenSession
<1>1. IInv => OneOpenSession
  BY OpenIsActive DEF IInv, OneActive, OneOpenSession
<1> QED
  BY Invariance, <1>1, PTL

(* Nor two subscriptions: what is active while one lives is its attempt. *)
THEOREM NeverTwoSubscriptions == Spec => []OneSubscription
<1>1. IInv => OneSubscription
  BY DEF IInv, SubInv, OneSubscription
<1> QED
  BY Invariance, <1>1, PTL

(* An attempt that was given up cannot be paid any more. *)
THEOREM GivenUpIsClosed == Spec => []ExpiredIsUnpayable
<1>1. IInv => ExpiredIsUnpayable
  BY DEF IInv, RowInv, Closed, ExpiredIsUnpayable
<1> QED
  BY Invariance, <1>1, PTL

(* A paid session is recorded in its attempt. *)
THEOREM PaidIsFound == Spec => []PaidIsOnRecord
<1>1. IInv => PaidIsOnRecord
  BY DEF IInv, SubInv, PaidIsOnRecord
<1> QED
  BY Invariance, <1>1, PTL
=============================================================================
