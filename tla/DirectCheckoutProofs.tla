------------------------- MODULE DirectCheckoutProofs -------------------------
(***************************************************************************)
(* Proofs about the checkout without an account, for any number of tabs,   *)
(* reservations and offers.  IInv says what a transaction may rely on: the *)
(* first one that nobody else of this browser inserts a reservation, the   *)
(* second one that the reservation it locked stays active, and both that a *)
(* reservation that was given up has no session one can pay.               *)
(***************************************************************************)
EXTENDS DirectCheckout, TLAPS

(* Where the second transaction is under way. *)
Asking == {"status", "search", "create", "record"}

(* A transaction under way holds its locks, and the row it holds is active. *)
LockOf(t) ==
  /\ tab[t].pc = "found" => gate = t
  /\ tab[t].pc \in Asking \/ (tab[t].pc = "found" /\ tab[t].id # None)
       => tab[t].id \in Ids /\ rowlock[tab[t].id] = t /\ Active(tab[t].id)

(* What a request has found out, and is still true: no other reservation of *)
(* the offer is active, the session is too old to be created, it exists.    *)
KnownOf(t) ==
  /\ tab[t].pc = "found" =>
       \A j \in Ids : Active(j) /\ reservation[j].offer = tab[t].offer => j = tab[t].id
  /\ tab[t].pc = "second" => tab[t].id \in Ids
  /\ tab[t].pc = "search" => ~Creatable(tab[t].id)
  /\ tab[t].pc = "record" => session[tab[t].id] # "none"

LockInv == \A t \in Tabs : LockOf(t)
TabInv == \A t \in Tabs : KnownOf(t)

(* How each status of a row limits its session; what was handed out is      *)
(* recorded, what is told of or activated was paid.                         *)
RowInv ==
  \A i \in Ids :
    /\ reservation[i].status = "none" =>
         session[i] = "none" /\ i \notin late /\ ~reservation[i].session
    /\ reservation[i].status = "expired" => session[i] # "open" /\ ~Accepts(i)
    /\ reservation[i].status = "complete" => session[i] = "complete"
    /\ session[i] = "open" => reservation[i].left > 0
    /\ session[i] = "complete" \/ i \in urls => reservation[i].session
    /\ event[i] # "none" \/ job[i] # "none" => session[i] = "complete"

OneActive ==
  \A i, j \in Ids : Active(i) /\ Active(j) /\ reservation[i].offer = reservation[j].offer => i = j

IInv ==
  /\ TypeOK
  /\ LockInv
  /\ TabInv
  /\ RowInv
  /\ OneActive
  /\ NoPaymentForgotten

-----------------------------------------------------------------------------
LEMMA IdsType ==
  ASSUME DirectCheckoutAssumption
  PROVE  Ids \subseteq Nat /\ None \notin Ids /\ 0 \in 0 .. Life /\ Life \in 0 .. Life
BY DEF DirectCheckoutAssumption, Ids

LEMMA InitInv ==
  ASSUME DirectCheckoutAssumption, Init
  PROVE  IInv
<1>1. TypeOK
  BY IdsType DEF DirectCheckoutAssumption, Init, TypeOK, Reservation, Request, Idle
<1>2. LockInv /\ TabInv
  BY DEF Init, Idle, LockInv, LockOf, Asking, TabInv, KnownOf
<1>3. RowInv /\ OneActive /\ NoPaymentForgotten
  BY DEF Init, RowInv, OneActive, Active, NoPaymentForgotten
<1> QED
  BY <1>1, <1>2, <1>3 DEF IInv

-----------------------------------------------------------------------------
(* Types. *)
Pcs == {"idle", "asked", "found", "second", "status", "search", "create", "record"}

LEMMA RequestType ==
  ASSUME NEW r \in Request, NEW pc \in Pcs, NEW i \in Ids \cup {None}
  PROVE  [r EXCEPT !.pc = pc, !.id = i] \in Request
BY DEF Request, Pcs

LEMMA GotoType ==
  ASSUME TypeOK, NEW t \in Tabs, NEW pc \in Pcs, NEW i \in Ids \cup {None}, Goto(t, pc, i)
  PROVE  tab' \in [Tabs -> Request]
<1>1. tab[t] \in Request
  BY DEF TypeOK
<1>2. [tab[t] EXCEPT !.pc = pc, !.id = i] \in Request
  BY <1>1, RequestType
<1>3. tab' = [tab EXCEPT ![t] = [tab[t] EXCEPT !.pc = pc, !.id = i]]
  BY DEF TypeOK, Goto
<1> QED
  BY <1>2, <1>3 DEF TypeOK

LEMMA ReleaseType ==
  ASSUME TypeOK, NEW t \in Tabs, Release(t)
  PROVE  gate' \in Tabs \cup {None} /\ rowlock' \in [Ids -> Tabs \cup {None}]
BY DEF TypeOK, Release

LEMMA FinishType ==
  ASSUME TypeOK, NEW t \in Tabs, Finish(t)
  PROVE  /\ tab' \in [Tabs -> Request]
         /\ gate' \in Tabs \cup {None}
         /\ rowlock' \in [Ids -> Tabs \cup {None}]
<1>1. Idle \in Request
  BY DEF Idle, Request
<1> QED
  BY <1>1, ReleaseType DEF TypeOK, Finish

LEMMA TabType == ASSUME TypeOK, NEW t \in Tabs
                 PROVE  tab[t].id \in Ids \cup {None} /\ tab[t].offer \in Offers \cup {None}
BY DEF TypeOK, Request

LEMMA StatusType ==
  ASSUME TypeOK, NEW i, NEW s \in {"open", "complete", "expired"}
  PROVE  [reservation EXCEPT ![i].status = s] \in [Ids -> Reservation]
<1>1. CASE i \in Ids
  <2>1. [reservation[i] EXCEPT !.status = s] \in Reservation
    BY <1>1 DEF TypeOK, Reservation
  <2> QED
    BY <2>1 DEF TypeOK
<1>2. CASE i \notin Ids
  BY <1>2 DEF TypeOK
<1> QED
  BY <1>1, <1>2

LEMMA OpenType ==
  ASSUME TypeOK, NEW i \in Ids
  PROVE  [reservation EXCEPT ![i].session = TRUE, ![i].status = "open"] \in [Ids -> Reservation]
<1>1. [reservation[i] EXCEPT !.session = TRUE, !.status = "open"] \in Reservation
  BY DEF TypeOK, Reservation
<1> QED
  BY <1>1 DEF TypeOK

LEMMA TypeStep ==
  ASSUME DirectCheckoutAssumption, TypeOK, LockInv, TabInv, [Next]_vars
  PROVE  TypeOK'
<1> USE IdsType DEF DirectCheckoutAssumption
<1>1. ASSUME NEW t \in Tabs, NEW o \in Offers, Ask(t, o) PROVE TypeOK'
  <2>1. [pc |-> "asked", offer |-> o, id |-> None] \in Request
    BY DEF Request
  <2> QED
    BY <1>1, <2>1 DEF Ask, TypeOK
<1>2. ASSUME NEW t \in Tabs, Find(t) PROVE TypeOK'
  <2>1. tab' \in [Tabs -> Request]
    BY <1>2, GotoType DEF Find, Pcs
  <2>2. rowlock' \in [Ids -> Tabs \cup {None}]
    BY <1>2 DEF Find, TypeOK
  <2> QED
    BY <1>2, <2>1, <2>2 DEF Find, TypeOK
<1>3. ASSUME NEW t \in Tabs, Keep(t) PROVE TypeOK'
  <2>1. tab' \in [Tabs -> Request]
    BY <1>3, GotoType, TabType DEF Keep, Pcs
  <2> QED
    BY <1>3, <2>1, ReleaseType DEF Keep, TypeOK
<1>4. ASSUME NEW t \in Tabs, Insert(t) PROVE TypeOK'
  <2>1. CASE ~(\E n \in Ids : Fresh(n))
    BY <1>4, <2>1, FinishType DEF Insert, TypeOK
  <2>2. CASE \E n \in Ids : Fresh(n)
    <3>1. PICK n \in Ids :
            /\ reservation' = [i \in Ids |->
                 IF i = n THEN NewReservation(tab[t].offer)
                 ELSE IF i = tab[t].id THEN [reservation[i] EXCEPT !.status = "expired"]
                 ELSE reservation[i]]
            /\ Goto(t, "second", n)
            /\ Release(t)
      BY <1>4, <2>2 DEF Insert
    <3>2. tab' \in [Tabs -> Request]
      BY <3>1, GotoType DEF Pcs
    <3>3. NewReservation(tab[t].offer) \in Reservation
      BY TabType DEF Reservation, NewReservation
    <3>4. \A i \in Ids : [reservation[i] EXCEPT !.status = "expired"] \in Reservation
      BY DEF TypeOK, Reservation
    <3>5. reservation' \in [Ids -> Reservation]
      BY <3>1, <3>3, <3>4 DEF TypeOK
    <3> QED
      BY <1>4, <3>1, <3>2, <3>5, ReleaseType DEF Insert, TypeOK
  <2> QED
    BY <2>1, <2>2
<1>5. ASSUME NEW t \in Tabs, Second(t) PROVE TypeOK'
  <2>1. CASE Finish(t)
    BY <1>5, <2>1, FinishType DEF Second, TypeOK
  <2>2. CASE ~Finish(t)
    <3>1. tab' \in [Tabs -> Request]
      BY <1>5, <2>2, GotoType, TabType DEF Second, Pcs
    <3>2. rowlock' \in [Ids -> Tabs \cup {None}]
      BY <1>5, <2>2 DEF Second, TypeOK
    <3> QED
      BY <1>5, <2>2, <3>1, <3>2 DEF Second, TypeOK
  <2> QED
    BY <2>1, <2>2
<1>6. ASSUME NEW t \in Tabs, Look(t) PROVE TypeOK'
  <2>1. tab' \in [Tabs -> Request] /\ gate' \in Tabs \cup {None}
          /\ rowlock' \in [Ids -> Tabs \cup {None}]
    BY <1>6, FinishType, GotoType, TabType DEF Look, Pcs, TypeOK
  <2> QED
    BY <1>6, <2>1 DEF Look, TypeOK
<1>7. ASSUME NEW t \in Tabs, NotFound(t) PROVE TypeOK'
  <2>1. reservation' \in [Ids -> Reservation]
    BY <1>7, StatusType DEF NotFound
  <2> QED
    BY <1>7, <2>1, FinishType DEF NotFound, TypeOK
<1>8. ASSUME NEW t \in Tabs, Create(t) PROVE TypeOK'
  <2>1. tab' \in [Tabs -> Request]
    BY <1>8, GotoType, TabType DEF Create, Pcs
  <2> QED
    BY <1>8, <2>1 DEF Create, Opened, TypeOK
<1>9. ASSUME NEW t \in Tabs, CreateRefused(t) PROVE TypeOK'
  BY <1>9, FinishType DEF CreateRefused, TypeOK
<1>10. ASSUME NEW t \in Tabs, Record(t) PROVE TypeOK'
  <2>1. tab[t].id \in Ids
    BY <1>10 DEF Record, LockInv, LockOf, Asking
  <2>2. reservation' \in [Ids -> Reservation] /\ urls' \subseteq Ids
    BY <1>10, <2>1, OpenType DEF Record, TypeOK
  <2> QED
    BY <1>10, <2>2, FinishType DEF Record, TypeOK
<1>11. ASSUME NEW t \in Tabs, Fail(t) PROVE TypeOK'
  <2>1. late' \subseteq Ids
    BY <1>11 DEF Fail, TypeOK, LockInv, LockOf, Asking
  <2>2. mishaps' \in 0 .. MaxMishaps
    BY <1>11 DEF Fail, Mishap, TypeOK
  <2> QED
    BY <1>11, <2>1, <2>2, FinishType DEF Fail, TypeOK
<1>12. ASSUME NEW i \in Ids, Arrive(i) PROVE TypeOK'
  BY <1>12 DEF Arrive, Opened, TypeOK, reserved
<1>13. ASSUME NEW i \in Ids, Pay(i) PROVE TypeOK'
  BY <1>13 DEF Pay, TypeOK, reserved
<1>14. ASSUME NEW i \in Ids, Webhook(i) PROVE TypeOK'
  BY <1>14 DEF Webhook, TypeOK, reserved
<1>15. ASSUME NEW i \in Ids, Repair(i) PROVE TypeOK'
  BY <1>15 DEF Repair, TypeOK, reserved
<1>16. ASSUME NEW i \in Ids, Activate(i) PROVE TypeOK'
  <2>1. reservation' \in [Ids -> Reservation]
    BY <1>16, StatusType DEF Activate
  <2> QED
    BY <1>16, <2>1 DEF Activate, TypeOK
<1>17. ASSUME NEW i \in Ids, ActivateFails(i) PROVE TypeOK'
  BY <1>17 DEF ActivateFails, Mishap, TypeOK, reserved
<1>18. ASSUME Tick PROVE TypeOK'
  <2>1. \A i \in Ids : [reservation[i] EXCEPT !.left = IF @ > 0 THEN @ - 1 ELSE 0] \in Reservation
    BY DEF TypeOK, Reservation
  <2> QED
    BY <1>18, <2>1 DEF Tick, TypeOK
<1>19. CASE UNCHANGED vars
  BY <1>19 DEF vars, reserved, TypeOK
<1> QED
  BY <1>1, <1>2, <1>3, <1>4, <1>5, <1>6, <1>7, <1>8, <1>9, <1>10, <1>11, <1>12, <1>13,
     <1>14, <1>15, <1>16, <1>17, <1>18, <1>19 DEF Next, Step

-----------------------------------------------------------------------------
(* What t does leaves the other requests what they hold and know.  An       *)
(* action of no tab is one of t = None.                                     *)
LEMMA OthersKeep ==
  ASSUME IInv, NEW t,
         \A u \in Tabs : u # t => tab'[u] = tab[u] /\ (gate = u => gate' = u),
         \A u \in Tabs, i \in Ids :
           u # t /\ rowlock[i] = u => rowlock'[i] = u /\ (Active(i) => Active(i)'),
         \A i \in Ids :
           /\ Active(i)' => Active(i) /\ reservation'[i].offer = reservation[i].offer
           /\ Creatable(i)' => Creatable(i)
           /\ session[i] # "none" => session'[i] # "none",
         t \in Tabs => LockOf(t)' /\ KnownOf(t)'
  PROVE  LockInv' /\ TabInv'
<1>1. ASSUME NEW u \in Tabs, u # t PROVE LockOf(u)'
  BY <1>1 DEF IInv, LockInv, LockOf
<1>2. ASSUME NEW u \in Tabs, u # t PROVE KnownOf(u)'
  <2>1. tab[u].pc \in Asking => tab[u].id \in Ids
    BY <1>2 DEF IInv, LockInv, LockOf
  <2> QED
    BY <1>2, <2>1 DEF IInv, TabInv, KnownOf, Asking
<1> QED
  BY <1>1, <1>2 DEF LockInv, TabInv

(* A request that ends holds and knows nothing. *)
LEMMA FinishKeeps ==
  ASSUME IInv, NEW t \in Tabs, Finish(t),
         \A i \in Ids : rowlock[i] # t => reservation'[i] = reservation[i],
         \A i \in Ids :
           /\ Active(i)' => Active(i) /\ reservation'[i].offer = reservation[i].offer
           /\ Creatable(i)' => Creatable(i)
           /\ session[i] # "none" => session'[i] # "none"
  PROVE  LockInv' /\ TabInv'
<1>1. /\ tab'[t] = Idle
      /\ \A u \in Tabs : u # t => tab'[u] = tab[u]
  BY DEF Finish, IInv, TypeOK
<1>2. LockOf(t)' /\ KnownOf(t)'
  BY <1>1 DEF Idle, LockOf, KnownOf, Asking
<1>3. \A u \in Tabs : u # t => (gate = u => gate' = u)
  BY DEF Finish, Release
<1>4. \A u \in Tabs, i \in Ids :
        u # t /\ rowlock[i] = u => rowlock'[i] = u /\ (Active(i) => Active(i)')
  BY DEF Finish, Release, Active
<1> QED
  BY <1>1, <1>2, <1>3, <1>4, OthersKeep

(* Where a request moves on without a change of rows. *)
LEMMA GotoFacts ==
  ASSUME TypeOK, NEW t \in Tabs, NEW pc, NEW i, Goto(t, pc, i)
  PROVE  /\ tab'[t].pc = pc /\ tab'[t].id = i /\ tab'[t].offer = tab[t].offer
         /\ \A u \in Tabs : u # t => tab'[u] = tab[u]
BY DEF TypeOK, Request, Goto

(* Rows, payments and what was handed out stay as they are. *)
LEMMA RowsKept ==
  ASSUME IInv, UNCHANGED <<reservation, session, event, urls>>,
         late' \subseteq late \cup {i \in Ids : reservation[i].status # "none"},
         \A i \in Ids : job'[i] # "none" => job[i] # "none" \/ session[i] = "complete"
  PROVE  RowInv' /\ OneActive' /\ NoPaymentForgotten'
<1>1. RowInv'
  BY DEF IInv, RowInv, Accepts
<1>2. OneActive' /\ NoPaymentForgotten'
  BY DEF IInv, OneActive, Active, NoPaymentForgotten
<1> QED
  BY <1>1, <1>2

(* Stripe opens the session of a reservation that is not over. *)
LEMMA OpenedKeeps ==
  ASSUME DirectCheckoutAssumption,
         IInv, NEW i \in Ids, Accepts(i), reservation[i].status # "none", Opened(i),
         UNCHANGED <<reservation, event, urls, job>>, late' \subseteq late
  PROVE  /\ RowInv' /\ OneActive' /\ NoPaymentForgotten'
         /\ \A j \in Ids : session[j] # "none" => session'[j] # "none"
<1>1. \A j \in Ids : session'[j] = IF j = i /\ session[i] = "none" THEN "open" ELSE session[j]
  BY DEF Opened, IInv, TypeOK
<1>2. reservation[i].left > 0
  BY DEF DirectCheckoutAssumption, Accepts, IInv, TypeOK, Reservation
<1>3. RowInv'
  BY <1>1, <1>2 DEF IInv, RowInv, Accepts
<1>4. OneActive' /\ NoPaymentForgotten'
  BY DEF IInv, OneActive, Active, NoPaymentForgotten
<1> QED
  BY <1>1, <1>3, <1>4

Rest == LockInv /\ TabInv /\ RowInv /\ OneActive /\ NoPaymentForgotten

LEMMA RestStep ==
  ASSUME DirectCheckoutAssumption, IInv, [Next]_vars
  PROVE  Rest'
<1> USE DEF DirectCheckoutAssumption, Rest
<1>1. ASSUME NEW t \in Tabs, NEW o \in Offers, Ask(t, o) PROVE Rest'
  <2>1. RowInv' /\ OneActive' /\ NoPaymentForgotten'
    BY <1>1, RowsKept DEF Ask
  <2>2. tab'[t].pc = "asked" /\ \A u \in Tabs : u # t => tab'[u] = tab[u]
    BY <1>1 DEF Ask, IInv, TypeOK
  <2>3. LockOf(t)' /\ KnownOf(t)'
    BY <2>2 DEF LockOf, KnownOf, Asking
  <2>4. LockInv' /\ TabInv'
    BY <1>1, <2>2, <2>3, OthersKeep DEF Ask, Active, Creatable
  <2> QED
    BY <2>1, <2>4
<1>2. ASSUME NEW t \in Tabs, Find(t) PROVE Rest'
  <2>1. RowInv' /\ OneActive' /\ NoPaymentForgotten'
    BY <1>2, RowsKept DEF Find
  <2>2. PICK i \in Ids \cup {None} :
          /\ Goto(t, "found", i)
          /\ i = None => rowlock' = rowlock /\ ~ \E j \in Ids : Wanted(j, tab[t].offer)
          /\ i # None => /\ Wanted(i, tab[t].offer) /\ rowlock[i] = None
                        /\ rowlock' = [rowlock EXCEPT ![i] = t]
    BY <1>2, IdsType DEF Find
  <2>3. \A j, k \in Ids :
          (/\ Active(j) /\ reservation[j].offer = tab[t].offer
           /\ Active(k) /\ reservation[k].offer = tab[t].offer) => j = k
    BY DEF IInv, OneActive
  <2>4. \A j \in Ids : Active(j) /\ reservation[j].offer = tab[t].offer => j = i
    <3>1. \A j \in Ids : Active(j) /\ reservation[j].offer = tab[t].offer => Wanted(j, tab[t].offer)
      BY <2>3, IdsType DEF Wanted
    <3> QED
      BY <2>2, <2>3, <3>1 DEF Wanted
  <2>5. /\ tab'[t].pc = "found" /\ tab'[t].id = i /\ tab'[t].offer = tab[t].offer
        /\ \A u \in Tabs : u # t => tab'[u] = tab[u]
    BY <2>2, GotoFacts DEF IInv
  <2>6. i # None => rowlock'[i] = t /\ Active(i)
    BY <2>2 DEF Wanted, IInv, TypeOK
  <2>7. LockOf(t)' /\ KnownOf(t)'
    BY <1>2, <2>4, <2>5, <2>6 DEF Find, LockOf, KnownOf, Asking, Active
  <2>8. \A u \in Tabs : u # t => (gate = u => gate' = u)
    BY <1>2 DEF Find, GateFree
  <2>9. \A u \in Tabs, j \in Ids : u # t /\ rowlock[j] = u => rowlock'[j] = u
    BY <2>2 DEF IInv, TypeOK
  <2>10. LockInv' /\ TabInv'
    BY <1>2, <2>5, <2>7, <2>8, <2>9, OthersKeep DEF Find, Active, Creatable
  <2> QED
    BY <2>1, <2>10
<1>3. ASSUME NEW t \in Tabs, Keep(t) PROVE Rest'
  <2>1. RowInv' /\ OneActive' /\ NoPaymentForgotten'
    BY <1>3, RowsKept DEF Keep
  <2>2. tab[t].id \in Ids
    BY <1>3, TabType DEF Keep, IInv
  <2>3. /\ tab'[t].pc = "second" /\ tab'[t].id = tab[t].id
        /\ \A u \in Tabs : u # t => tab'[u] = tab[u]
    BY <1>3, GotoFacts DEF Keep, IInv
  <2>4. LockOf(t)' /\ KnownOf(t)'
    BY <2>2, <2>3 DEF LockOf, KnownOf, Asking
  <2>5. LockInv' /\ TabInv'
    BY <1>3, <2>3, <2>4, OthersKeep DEF Keep, Release, Active, Creatable
  <2> QED
    BY <2>1, <2>5
<1>4. ASSUME NEW t \in Tabs, Insert(t) PROVE Rest'
  <2>1. CASE ~(\E n \in Ids : Fresh(n))
    <3>1. Finish(t) /\ UNCHANGED <<reservation, session, event, late, urls, job>>
      BY <1>4, <2>1 DEF Insert
    <3>2. RowInv' /\ OneActive' /\ NoPaymentForgotten'
      BY <3>1, RowsKept
    <3>3. LockInv' /\ TabInv'
      BY <3>1, FinishKeeps DEF Active, Creatable
    <3> QED
      BY <3>2, <3>3
  <2>2. CASE \E n \in Ids : Fresh(n)
    <3>1. PICK n \in Ids :
            /\ Fresh(n)
            /\ reservation' = [i \in Ids |->
                 IF i = n THEN NewReservation(tab[t].offer)
                 ELSE IF i = tab[t].id THEN [reservation[i] EXCEPT !.status = "expired"]
                 ELSE reservation[i]]
            /\ Goto(t, "second", n)
            /\ Release(t)
      BY <1>4, <2>2 DEF Insert
    <3>2. reservation[n].status = "none"
      BY <3>1, IdsType DEF Fresh
    <3>3. \A j \in Ids : Active(j) /\ reservation[j].offer = tab[t].offer => j = tab[t].id
      BY <1>4 DEF Insert, IInv, TabInv, KnownOf
    <3>4. tab[t].id # None => /\ tab[t].id \in Ids /\ Active(tab[t].id) /\ tab[t].id # n
                             /\ reservation[tab[t].id].left = 0
      BY <1>4, <3>2 DEF Insert, IInv, LockInv, LockOf, Active
    <3>5. /\ reservation'[n] = NewReservation(tab[t].offer)
          /\ \A i \in Ids : i # n /\ i # tab[t].id => reservation'[i] = reservation[i]
      BY <3>1
    <3>6. \A i \in Ids : i = tab[t].id => /\ reservation'[i].status = "expired"
                                         /\ reservation'[i].left = 0
                                         /\ reservation'[i].offer = reservation[i].offer
                                         /\ reservation'[i].session = reservation[i].session
      BY <3>1, <3>4, IdsType DEF IInv, TypeOK, Reservation
    <3>7. OneActive'
      BY <3>3, <3>5, <3>6 DEF IInv, OneActive, Active, NewReservation
    <3>8. RowInv'
      <4>1. UNCHANGED <<session, event, late, urls, job>>
        BY <1>4 DEF Insert
      <4>2. ASSUME NEW i \in Ids, i = n
            PROVE  session[i] = "none" /\ i \notin urls /\ i \notin late /\ event[i] = "none" /\ job[i] = "none"
        BY <3>2, <4>2 DEF IInv, RowInv
      <4>3. ASSUME NEW i \in Ids, i = tab[t].id PROVE session[i] # "open"
        BY <3>4, <4>3, IdsType DEF IInv, RowInv
      <4> QED
        BY <3>5, <3>6, <4>1, <4>2, <4>3
           DEF IInv, RowInv, NewReservation, Accepts
    <3>9. NoPaymentForgotten'
      <4>1. \A i \in Ids : event[i] = "answered" => i # n /\ i # tab[t].id
        BY <3>2, <3>4, IdsType DEF IInv, NoPaymentForgotten, Active
      <4> QED
        BY <1>4, <3>5, <4>1 DEF Insert, IInv, NoPaymentForgotten
    <3>10. /\ tab'[t].pc = "second" /\ tab'[t].id = n
           /\ \A u \in Tabs : u # t => tab'[u] = tab[u]
      BY <3>1, GotoFacts DEF IInv
    <3>11. \A u \in Tabs : u # t => tab[u].pc # "found"
      BY <1>4 DEF Insert, IInv, LockInv, LockOf
    <3>12. \A u \in Tabs : u # t /\ tab[u].pc \in Asking =>
             /\ tab[u].id \in Ids /\ rowlock[tab[u].id] = u /\ Active(tab[u].id)
             /\ tab[u].id # n /\ tab[u].id # tab[t].id
      BY <1>4, <3>2, IdsType DEF Insert, IInv, LockInv, LockOf, Active
    <3>13. ASSUME NEW u \in Tabs, u # t PROVE LockOf(u)'
      BY <3>1, <3>5, <3>10, <3>11, <3>12, <3>13 DEF LockOf, Active, Release
    <3>14. ASSUME NEW u \in Tabs, u # t PROVE KnownOf(u)'
      BY <1>4, <3>5, <3>10, <3>11, <3>12, <3>14
         DEF Insert, IInv, TabInv, KnownOf, Creatable, Asking
    <3>15. LockOf(t)' /\ KnownOf(t)'
      BY <3>10 DEF LockOf, KnownOf, Asking
    <3>16. LockInv' /\ TabInv'
      BY <3>13, <3>14, <3>15 DEF LockInv, TabInv
    <3> QED
      BY <3>7, <3>8, <3>9, <3>16
  <2> QED
    BY <2>1, <2>2
<1>5. ASSUME NEW t \in Tabs, Second(t) PROVE Rest'
  <2>1. RowInv' /\ OneActive' /\ NoPaymentForgotten'
    BY <1>5, RowsKept DEF Second
  <2>2. CASE Finish(t)
    BY <1>5, <2>1, <2>2, FinishKeeps DEF Second, Active, Creatable
  <2>3. CASE ~Finish(t)
    <3>1. PICK pc \in Asking :
            /\ Goto(t, pc, tab[t].id)
            /\ pc = "search" => ~Creatable(tab[t].id)
            /\ pc # "record"
      BY <1>5, <2>3 DEF Second, Asking
    <3>2. tab[t].id \in Ids /\ Active(tab[t].id) /\ rowlock[tab[t].id] = None
      BY <1>5, <2>3 DEF Second, RowFree, IInv, TabInv, KnownOf
    <3>3. rowlock' = [rowlock EXCEPT ![tab[t].id] = t] /\ gate' = gate
      BY <1>5, <2>3 DEF Second
    <3>4. /\ tab'[t].pc = pc /\ tab'[t].id = tab[t].id
          /\ \A u \in Tabs : u # t => tab'[u] = tab[u]
      BY <3>1, GotoFacts DEF IInv
    <3>5. LockOf(t)' /\ KnownOf(t)'
      BY <1>5, <3>1, <3>2, <3>3, <3>4 DEF Second, LockOf, KnownOf, Asking, Active, Creatable, IInv, TypeOK
    <3>6. \A u \in Tabs, j \in Ids : u # t /\ rowlock[j] = u => rowlock'[j] = u
      BY <3>2, <3>3 DEF IInv, TypeOK
    <3>7. LockInv' /\ TabInv'
      BY <1>5, <3>3, <3>4, <3>5, <3>6, OthersKeep DEF Second, Active, Creatable
    <3> QED
      BY <2>1, <3>7
  <2> QED
    BY <2>2, <2>3
<1>6. ASSUME NEW t \in Tabs, Look(t) PROVE Rest'
  <2>1. RowInv' /\ OneActive' /\ NoPaymentForgotten'
    BY <1>6, RowsKept DEF Look
  <2>2. CASE Finish(t)
    BY <1>6, <2>1, <2>2, FinishKeeps DEF Look, Active, Creatable
  <2>3. CASE ~Finish(t)
    <3>1. /\ tab'[t].pc = "record" /\ tab'[t].id = tab[t].id
          /\ \A u \in Tabs : u # t => tab'[u] = tab[u]
      BY <1>6, <2>3, GotoFacts DEF Look, IInv
    <3>2. session[tab[t].id] = "open" /\ UNCHANGED <<gate, rowlock, reservation, session>>
      BY <1>6, <2>3 DEF Look
    <3>3. LockOf(t)' /\ KnownOf(t)'
      BY <1>6, <3>1, <3>2 DEF Look, LockOf, KnownOf, Asking, Active, IInv, LockInv
    <3>4. LockInv' /\ TabInv'
      BY <3>1, <3>2, <3>3, OthersKeep DEF Active, Creatable
    <3> QED
      BY <2>1, <3>4
  <2> QED
    BY <2>2, <2>3
<1>7. ASSUME NEW t \in Tabs, NotFound(t) PROVE Rest'
  <2> DEFINE i == tab[t].id
  <2>1. i \in Ids /\ rowlock[i] = t /\ Active(i) /\ ~Creatable(i) /\ session[i] = "none"
    BY <1>7 DEF NotFound, IInv, LockInv, LockOf, TabInv, KnownOf, Asking
  <2>2. /\ \A j \in Ids : j # i => reservation'[j] = reservation[j]
        /\ reservation'[i].status = "expired"
        /\ reservation'[i].offer = reservation[i].offer
        /\ reservation'[i].left = reservation[i].left
        /\ reservation'[i].session = reservation[i].session
    BY <1>7, <2>1 DEF NotFound, IInv, TypeOK, Reservation
  <2>3. UNCHANGED <<session, event, late, urls, job>> /\ Finish(t)
    BY <1>7 DEF NotFound
  <2> HIDE DEF i
  <2>4. \A j \in Ids : Active(j)' => Active(j) /\ reservation'[j].offer = reservation[j].offer
    BY <2>2 DEF Active
  <2>5. RowInv' /\ OneActive'
    BY <2>1, <2>2, <2>3, <2>4 DEF IInv, RowInv, OneActive, Accepts, Creatable
  <2>6. NoPaymentForgotten'
    BY <2>1, <2>2, <2>3 DEF IInv, NoPaymentForgotten, Active
  <2>7. LockInv' /\ TabInv'
    BY <2>1, <2>2, <2>3, <2>4, FinishKeeps DEF Creatable
  <2> QED
    BY <2>5, <2>6, <2>7
<1>8. ASSUME NEW t \in Tabs, Create(t) PROVE Rest'
  <2>1. tab[t].id \in Ids /\ Active(tab[t].id) /\ rowlock[tab[t].id] = t
    BY <1>8 DEF Create, IInv, LockInv, LockOf, Asking
  <2>2. /\ RowInv' /\ OneActive' /\ NoPaymentForgotten'
        /\ \A j \in Ids : session[j] # "none" => session'[j] # "none"
    BY <1>8, <2>1, OpenedKeeps DEF Create, Active
  <2>3. /\ tab'[t].pc = "record" /\ tab'[t].id = tab[t].id
        /\ \A u \in Tabs : u # t => tab'[u] = tab[u]
    BY <1>8, GotoFacts DEF Create, IInv
  <2>4. session'[tab[t].id] # "none"
    BY <1>8, <2>1 DEF Create, Opened, IInv, TypeOK
  <2>5. LockOf(t)' /\ KnownOf(t)'
    BY <1>8, <2>1, <2>3, <2>4 DEF Create, LockOf, KnownOf, Asking, Active
  <2>6. LockInv' /\ TabInv'
    BY <1>8, <2>2, <2>3, <2>5, OthersKeep DEF Create, Active, Creatable
  <2> QED
    BY <2>2, <2>6
<1>9. ASSUME NEW t \in Tabs, CreateRefused(t) PROVE Rest'
  <2>1. RowInv' /\ OneActive' /\ NoPaymentForgotten'
    BY <1>9, RowsKept DEF CreateRefused
  <2>2. LockInv' /\ TabInv'
    BY <1>9, FinishKeeps DEF CreateRefused, Active, Creatable
  <2> QED
    BY <2>1, <2>2
<1>10. ASSUME NEW t \in Tabs, Record(t) PROVE Rest'
  <2> DEFINE i == tab[t].id
  <2>1. i \in Ids /\ rowlock[i] = t /\ Active(i) /\ session[i] # "none"
    BY <1>10 DEF Record, IInv, LockInv, LockOf, TabInv, KnownOf, Asking
  <2>2. /\ \A j \in Ids : j # i => reservation'[j] = reservation[j]
        /\ reservation'[i].status = "open" /\ reservation'[i].session
        /\ reservation'[i].offer = reservation[i].offer
        /\ reservation'[i].left = reservation[i].left
    BY <1>10, <2>1 DEF Record, IInv, TypeOK, Reservation
  <2>3. UNCHANGED <<session, event, late, job>> /\ urls' = urls \cup {i} /\ Finish(t)
    BY <1>10 DEF Record
  <2> HIDE DEF i
  <2>4. \A j \in Ids : Active(j)' => Active(j) /\ reservation'[j].offer = reservation[j].offer
    BY <2>1, <2>2 DEF Active
  <2>5. RowInv' /\ OneActive'
    BY <2>1, <2>2, <2>3, <2>4 DEF IInv, RowInv, OneActive, Accepts
  <2>6. NoPaymentForgotten'
    BY <2>1, <2>2, <2>3 DEF IInv, NoPaymentForgotten, Active
  <2>7. LockInv' /\ TabInv'
    BY <2>1, <2>2, <2>3, <2>4, FinishKeeps DEF Creatable
  <2> QED
    BY <2>5, <2>6, <2>7
<1>11. ASSUME NEW t \in Tabs, Fail(t) PROVE Rest'
  <2>1. tab[t].pc = "create" => reservation[tab[t].id].status # "none"
    BY <1>11 DEF IInv, LockInv, LockOf, Asking, Active
  <2>2. late' \subseteq late \cup {i \in Ids : reservation[i].status # "none"}
    BY <1>11, <2>1 DEF Fail, IInv, LockInv, LockOf, Asking
  <2>3. RowInv' /\ OneActive' /\ NoPaymentForgotten'
    BY <1>11, <2>2, RowsKept DEF Fail
  <2>4. LockInv' /\ TabInv'
    BY <1>11, FinishKeeps DEF Fail, Active, Creatable
  <2> QED
    BY <2>3, <2>4
<1>12. ASSUME NEW i \in Ids, Arrive(i) PROVE Rest'
  <2>1. /\ RowInv' /\ OneActive' /\ NoPaymentForgotten'
        /\ \A j \in Ids : session[j] # "none" => session'[j] # "none"
    <3>1. CASE Accepts(i) /\ Opened(i)
      <4>1. reservation[i].status # "none"
        BY <1>12 DEF Arrive, IInv, RowInv
      <4> QED
        BY <1>12, <3>1, <4>1, OpenedKeeps DEF Arrive, reserved
    <3>2. CASE UNCHANGED session
      BY <1>12, <3>2, RowsKept DEF Arrive, reserved
    <3> QED
      BY <1>12, <3>1, <3>2 DEF Arrive
  <2>2. LockInv' /\ TabInv'
    BY <1>12, <2>1, OthersKeep DEF Arrive, reserved, Active, Creatable
  <2> QED
    BY <2>1, <2>2
<1>13. ASSUME NEW i \in Ids, Pay(i) PROVE Rest'
  <2>1. \A j \in Ids : /\ session'[j] = IF j = i THEN "complete" ELSE session[j]
                       /\ event'[j] = IF j = i THEN "sent" ELSE event[j]
    BY <1>13 DEF Pay, IInv, TypeOK
  <2>2. RowInv'
    BY <1>13, <2>1 DEF Pay, reserved, IInv, RowInv, Accepts
  <2>3. OneActive' /\ NoPaymentForgotten'
    BY <1>13, <2>1 DEF Pay, reserved, IInv, OneActive, Active, NoPaymentForgotten
  <2>4. LockInv' /\ TabInv'
    BY <1>13, <2>1, OthersKeep DEF Pay, reserved, Active, Creatable
  <2> QED
    BY <2>2, <2>3, <2>4
<1>14. ASSUME NEW i \in Ids, Webhook(i) PROVE Rest'
  <2>1. session[i] = "complete" /\ reservation[i].session
    BY <1>14 DEF Webhook, IInv, RowInv
  <2>2. RowInv' /\ OneActive' /\ NoPaymentForgotten'
    BY <1>14, <2>1 DEF Webhook, reserved, IInv, TypeOK, RowInv, Accepts, OneActive, Active, NoPaymentForgotten
  <2>3. LockInv' /\ TabInv'
    BY <1>14, OthersKeep DEF Webhook, reserved, Active, Creatable
  <2> QED
    BY <2>2, <2>3
<1>15. ASSUME NEW i \in Ids, Repair(i) PROVE Rest'
  <2>1. RowInv' /\ OneActive' /\ NoPaymentForgotten'
    BY <1>15, RowsKept DEF Repair, reserved, IInv, TypeOK
  <2>2. LockInv' /\ TabInv'
    BY <1>15, OthersKeep DEF Repair, reserved, Active, Creatable
  <2> QED
    BY <2>1, <2>2
<1>16. ASSUME NEW i \in Ids, Activate(i) PROVE Rest'
  <2>1. session[i] = "complete" /\ rowlock[i] = None
    BY <1>16 DEF Activate, RowFree, IInv, RowInv
  <2>2. /\ \A j \in Ids : j # i => reservation'[j] = reservation[j]
        /\ reservation'[i].status = "complete"
        /\ reservation'[i].offer = reservation[i].offer
        /\ reservation'[i].left = reservation[i].left
        /\ reservation'[i].session = reservation[i].session
    BY <1>16 DEF Activate, IInv, TypeOK, Reservation
  <2>3. \A j \in Ids : /\ event'[j] # "none" => event[j] # "none" \/ j = i
                       /\ event'[j] = "answered" => event[j] = "answered" \/ j = i
                       /\ job'[j] # "none" => job[j] # "none"
    BY <1>16 DEF Activate, IInv, TypeOK
  <2>4. \A j \in Ids : Active(j)' => Active(j) /\ reservation'[j].offer = reservation[j].offer
    BY <2>2 DEF Active
  <2>5. RowInv' /\ OneActive' /\ NoPaymentForgotten'
    BY <1>16, <2>1, <2>2, <2>3, <2>4
       DEF Activate, IInv, RowInv, Accepts, OneActive, NoPaymentForgotten
  <2>6. LockInv' /\ TabInv'
    BY <1>16, <2>1, <2>2, <2>4, OthersKeep DEF Activate, Active, Creatable
  <2> QED
    BY <2>5, <2>6
<1>17. ASSUME NEW i \in Ids, ActivateFails(i) PROVE Rest'
  <2>1. RowInv' /\ OneActive' /\ NoPaymentForgotten'
    BY <1>17, RowsKept DEF ActivateFails, reserved, IInv, TypeOK
  <2>2. LockInv' /\ TabInv'
    BY <1>17, OthersKeep DEF ActivateFails, reserved, Active, Creatable
  <2> QED
    BY <2>1, <2>2
<1>18. ASSUME Tick PROVE Rest'
  <2>1. \A j \in Ids : /\ reservation'[j].status = reservation[j].status
                       /\ reservation'[j].offer = reservation[j].offer
                       /\ reservation'[j].session = reservation[j].session
                       /\ reservation'[j].left = IF reservation[j].left > 0 THEN reservation[j].left - 1 ELSE 0
                       /\ reservation[j].left \in Nat
    BY <1>18 DEF Tick, IInv, TypeOK, Reservation
  <2>2. \A j \in Ids : session'[j] = IF session[j] = "open" /\ reservation[j].left <= 1
                                     THEN "expired" ELSE session[j]
    BY <1>18 DEF Tick
  <2>3. UNCHANGED <<gate, rowlock, tab, event, late, urls, job>>
    BY <1>18 DEF Tick
  <2>4. RowInv'
    BY <2>1, <2>2, <2>3 DEF IInv, RowInv, Accepts
  <2>5. OneActive' /\ NoPaymentForgotten'
    BY <2>1, <2>3 DEF IInv, OneActive, Active, NoPaymentForgotten
  <2>6. \A j \in Ids : /\ Active(j)' <=> Active(j)
                       /\ Creatable(j)' => Creatable(j)
                       /\ session[j] # "none" => session'[j] # "none"
    BY <2>1, <2>2 DEF Active, Creatable
  <2>7. LockInv' /\ TabInv'
    BY <2>1, <2>3, <2>6, OthersKeep
  <2> QED
    BY <2>4, <2>5, <2>7
<1>19. CASE UNCHANGED vars
  BY <1>19 DEF vars, reserved, IInv, LockInv, LockOf, TabInv, KnownOf, RowInv, OneActive, Active,
     Creatable, Accepts, NoPaymentForgotten
<1> QED
  BY <1>1, <1>2, <1>3, <1>4, <1>5, <1>6, <1>7, <1>8, <1>9, <1>10, <1>11, <1>12, <1>13,
     <1>14, <1>15, <1>16, <1>17, <1>18, <1>19 DEF Next, Step

LEMMA Invariance ==
  ASSUME DirectCheckoutAssumption
  PROVE  Spec => []IInv
<1>0. Init => IInv
  BY InitInv
<1>1. IInv /\ [Next]_vars => IInv'
  <2> SUFFICES ASSUME IInv, [Next]_vars PROVE IInv'
    OBVIOUS
  <2>1. TypeOK'
    BY TypeStep DEF IInv
  <2>2. Rest'
    BY RestStep
  <2> QED
    BY <2>1, <2>2 DEF IInv, Rest
<1> QED
  BY <1>0, <1>1, PTL DEF Spec

-----------------------------------------------------------------------------
(* Every variable keeps its type. *)
THEOREM TypeCorrect == DirectCheckoutAssumption => (Spec => []TypeOK)
<1> SUFFICES ASSUME DirectCheckoutAssumption PROVE Spec => []TypeOK
  OBVIOUS
<1>0. Spec => []IInv
  BY Invariance
<1>1. IInv => TypeOK
  BY DEF IInv
<1> QED
  BY <1>0, <1>1, PTL

(* No event of a payment is answered or ignored before its purchase has its *)
(* account: whoever can pay does so in a session that its row has recorded. *)
THEOREM PaymentsAreFound == DirectCheckoutAssumption => (Spec => []NoPaymentForgotten)
<1> SUFFICES ASSUME DirectCheckoutAssumption PROVE Spec => []NoPaymentForgotten
  OBVIOUS
<1>0. Spec => []IInv
  BY Invariance
<1>1. IInv => NoPaymentForgotten
  BY DEF IInv
<1> QED
  BY <1>0, <1>1, PTL

(* A browser never has two sessions to pay for one offer: an open session   *)
(* has an active reservation, and of those there is one for each offer.     *)
THEOREM NeverTwoForOneOffer == DirectCheckoutAssumption => (Spec => []OnePayablePerOffer)
<1> SUFFICES ASSUME DirectCheckoutAssumption PROVE Spec => []OnePayablePerOffer
  OBVIOUS
<1>0. Spec => []IInv
  BY Invariance
<1>1. IInv => OnePayablePerOffer
  <2>1. ASSUME IInv, NEW i \in Ids, session[i] = "open" PROVE Active(i)
    BY <2>1 DEF IInv, TypeOK, RowInv, Active, Reservation
  <2> QED
    BY <2>1 DEF IInv, OneActive, OnePayablePerOffer
<1> QED
  BY <1>0, <1>1, PTL

(* A purchase that has its account is never reopened or marked expired.     *)
THEOREM ActivatedForGood == DirectCheckoutAssumption => (Spec => NeverReopened)
<1> SUFFICES ASSUME DirectCheckoutAssumption PROVE Spec => NeverReopened
  OBVIOUS
<1>0. Spec => []IInv
  BY Invariance
<1>1. IInv /\ [Next]_vars => [CompleteStays]_vars
  <2> SUFFICES ASSUME IInv, [Next]_vars PROVE CompleteStays
    BY DEF CompleteStays
  <2>1. ASSUME NEW t \in Tabs, Insert(t) PROVE CompleteStays
    <3>1. tab[t].id # None => Active(tab[t].id)
      BY <2>1 DEF Insert, IInv, LockInv, LockOf
    <3>2. \A i \in Ids : reservation[i].status = "complete" => i # tab[t].id
      BY <3>1, IdsType DEF Active
    <3>3. \A n \in Ids : Fresh(n) => reservation[n].status = "none"
      BY IdsType DEF Fresh
    <3> QED
      BY <2>1, <3>2, <3>3 DEF Insert, CompleteStays
  <2>2. ASSUME NEW t \in Tabs, NotFound(t) \/ Record(t) PROVE CompleteStays
    <3>1. tab[t].id \in Ids /\ Active(tab[t].id)
      BY <2>2 DEF NotFound, Record, IInv, LockInv, LockOf, Asking
    <3> QED
      BY <2>2, <3>1 DEF NotFound, Record, CompleteStays, Active, IInv, TypeOK
  <2>3. ASSUME NEW i \in Ids, Activate(i) PROVE CompleteStays
    BY <2>3 DEF Activate, CompleteStays, IInv, TypeOK
  <2>4. CASE Tick
    BY <2>4 DEF Tick, CompleteStays, IInv, TypeOK, Reservation
  <2>5. ASSUME UNCHANGED reservation PROVE CompleteStays
    BY <2>5 DEF CompleteStays
  <2> QED
    BY <2>1, <2>2, <2>3, <2>4, <2>5
       DEF Next, Step, vars, reserved, Ask, Find, Keep, Second, Look, Create, CreateRefused, Fail,
           Arrive, Pay, Webhook, Repair, ActivateFails
<1> QED
  BY <1>0, <1>1, PTL DEF Spec, NeverReopened
=============================================================================
