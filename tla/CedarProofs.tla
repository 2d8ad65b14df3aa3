----------------------------- MODULE CedarProofs -----------------------------
(***************************************************************************)
(* Cedar's conversations, for any bank of answers, any collections and any  *)
(* number of questions asked, cancelled, replaced and answered late.        *)
(*                                                                          *)
(* Both surfaces run the hook and nothing else (SameHook, DoorRunsTheHook,  *)
(* ReaderRunsTheHook), so what HookInv says of a thread holds of both:      *)
(* at most one ask is not aborted, it is the one whose controller is held,  *)
(* and its question stands last.  ReaderInv adds what a reply that waits    *)
(* for its pause may say and what the memory has counted; DoorInv, that the *)
(* misses of the memory are those in a row that end the thread; BankInv,    *)
(* that the memory has counted every answer and every deeper text of the    *)
(* thread, and that each quick reply stands under the answer it is about.   *)
(*                                                                          *)
(* The quick replies are computed by a recursive function.  What it returns *)
(* is proved without an induction rule: a least place where the claim fails *)
(* (Smallest) has a predecessor where it holds.                             *)
(*                                                                          *)
(* The record page and a table's opening columns are lists filtered by the  *)
(* same operator, so what it keeps (AmongKeeps) carries them too: their two *)
(* theorems close the module.                                               *)
(***************************************************************************)
EXTENDS Client, FiniteSetTheorems, SequenceTheorems, WellFoundedInduction, TLAPS

-----------------------------------------------------------------------------
(* The hook as a specification of its own.                                  *)

ThreadNext ==
  \/ \E q, echo, ctx : R!Ask(q, echo, ctx) \/ R!Replace(q, echo, ctx)
  \/ \E f \in flights : \E reply : R!Answer(f, reply)
  \/ \E f \in flights : \E audience, followUps : R!Settle(f, audience, followUps)
  \/ R!Cancel /\ thread' \in {thread, R!RetireFollowUps(thread)}
  \/ R!Remount

LEMMA SameHook ==
  /\ D!ThreadInit <=> R!ThreadInit
  /\ \A q, echo, ctx : D!Ask(q, echo, ctx) <=> R!Ask(q, echo, ctx)
  /\ \A q, echo, ctx : D!Replace(q, echo, ctx) <=> R!Replace(q, echo, ctx)
  /\ \A f, reply : D!Answer(f, reply) <=> R!Answer(f, reply)
  /\ \A f, audience, followUps : D!Settle(f, audience, followUps) <=> R!Settle(f, audience, followUps)
  /\ D!Cancel <=> R!Cancel
  /\ D!Remount <=> R!Remount
  /\ D!threadVars = R!threadVars
<1>1. D!ThreadInit <=> R!ThreadInit
  BY DEF D!ThreadInit, R!ThreadInit, D!FreshThread, R!FreshThread, D!FreshMemory, R!FreshMemory
<1>2. ASSUME NEW q, NEW echo, NEW ctx
      PROVE  /\ D!Ask(q, echo, ctx) <=> R!Ask(q, echo, ctx)
             /\ D!Replace(q, echo, ctx) <=> R!Replace(q, echo, ctx)
  BY DEF D!Ask, R!Ask, D!Replace, R!Replace, D!Begin, R!Begin, D!BeginTurn, R!BeginTurn
<1>3. ASSUME NEW f, NEW reply
      PROVE  D!Answer(f, reply) <=> R!Answer(f, reply)
  BY DEF D!Answer, R!Answer
<1>4. ASSUME NEW f, NEW audience, NEW followUps
      PROVE  D!Settle(f, audience, followUps) <=> R!Settle(f, audience, followUps)
  BY DEF D!Settle, R!Settle, D!SettleTurn, R!SettleTurn, D!Remember, R!Remember
<1>5. (D!Cancel <=> R!Cancel) /\ (D!Remount <=> R!Remount)
  BY DEF D!Cancel, R!Cancel, D!Remount, R!Remount, D!FreshThread, R!FreshThread, D!FreshMemory, R!FreshMemory
<1>6. D!threadVars = R!threadVars
  BY DEF D!threadVars, R!threadVars
<1> QED
  BY <1>1, <1>2, <1>3, <1>4, <1>5, <1>6

LEMMA DoorRunsTheHook ==
  ASSUME [D!DoorNext]_(D!doorVars)
  PROVE  [ThreadNext]_R!threadVars
<1>1. ASSUME NEW q \in DoorQuestions, D!Submit(q) PROVE ThreadNext
  BY <1>1, SameHook DEF D!Submit, ThreadNext
<1>2. ASSUME NEW t \in Starters, D!TapStarter(t) PROVE ThreadNext
  BY <1>2, SameHook DEF D!TapStarter, ThreadNext
<1>3. ASSUME NEW i, D!TapFollowUp(thread.followUps[i]) PROVE ThreadNext
  BY <1>3, SameHook DEF D!TapFollowUp, ThreadNext
<1>4. ASSUME NEW c \in HandedOver, D!AskCollection(c) PROVE ThreadNext
  BY <1>4, SameHook DEF D!AskCollection, ThreadNext
<1>5. ASSUME NEW f \in flights, D!Resolve(f) \/ D!DoorSettle(f) PROVE ThreadNext
  BY <1>5, SameHook DEF D!Resolve, D!DoorSettle, ThreadNext
<1>6. CASE D!LeaveDoor
  BY <1>6, SameHook DEF D!LeaveDoor, ThreadNext
<1>7. CASE D!ToggleOpen \/ UNCHANGED D!doorVars
  BY <1>7 DEF D!ToggleOpen, D!doorVars, D!threadVars, R!threadVars
<1> QED
  BY <1>1, <1>2, <1>3, <1>4, <1>5, <1>6, <1>7 DEF D!DoorNext

LEMMA ReaderRunsTheHook ==
  ASSUME [R!ReaderNext]_R!allVars
  PROVE  [ThreadNext]_R!threadVars
<1>1. ASSUME NEW text \in Questions, R!Submit(text) PROVE ThreadNext
  BY <1>1 DEF R!Submit, ThreadNext
<1>2. ASSUME NEW item, R!TapStarter(item) \/ R!TapFollowUp(item) PROVE ThreadNext
  BY <1>2 DEF R!TapStarter, R!TapFollowUp, ThreadNext
<1>3. ASSUME NEW s \in Scopes, R!OnScope(s) PROVE ThreadNext
  BY <1>3 DEF R!OnScope, ThreadNext
<1>4. CASE R!ClearScope \/ R!ChangePage
  BY <1>4 DEF R!ClearScope, R!ChangePage, ThreadNext
<1>5. ASSUME NEW f \in flights, R!AnswerHere(f) \/ R!ServiceFails(f) \/ R!ReaderSettle(f) PROVE ThreadNext
  BY <1>5 DEF R!AnswerHere, R!ServiceFails, R!ReaderSettle, ThreadNext
<1>6. ASSUME NEW f \in flights, NEW source \in {"cedar", "release"}, R!ServiceAnswers(f, source)
      PROVE  ThreadNext
  BY <1>6 DEF R!ServiceAnswers, ThreadNext
<1>7. CASE UNCHANGED R!allVars
  BY <1>7 DEF R!allVars
<1> QED
  BY <1>1, <1>2, <1>3, <1>4, <1>5, <1>6, <1>7 DEF R!ReaderNext

-----------------------------------------------------------------------------
(* The hook, whatever is asked, answered, cancelled or remounted.           *)

IsFlight(f) ==
  f = [n |-> f.n, q |-> f.q, ctx |-> f.ctx, memory |-> f.memory, stage |-> f.stage,
       reply |-> f.reply]

(* The asks are told apart by their number, and the one whose controller is *)
(* held is the one nobody aborted.                                          *)
FlightsInv ==
  /\ asks \in Nat /\ abortRef \in 0..asks /\ composing \in BOOLEAN
  /\ composing <=> (abortRef # 0)
  /\ \A f \in flights : f.n \in 1..asks /\ IsFlight(f)
  /\ \A f, g \in flights : f.n = g.n => f = g
  /\ aborted \subseteq 1..asks
  /\ \A f \in flights : f.n \in aborted <=> f.n # abortRef
  /\ abortRef # 0 => \E f \in flights : f.n = abortRef

IsThread(th) ==
  /\ th = [turns |-> th.turns, memory |-> th.memory, followUps |-> th.followUps]
  /\ \E T : th.turns \in Seq(T)

(* The question that is being composed for stands last.                     *)
ThreadInv ==
  /\ IsThread(thread)
  /\ R!AnswersFollowTheirQuestion
  /\ abortRef # 0 =>
       /\ Len(thread.turns) > 0
       /\ thread.turns[Len(thread.turns)].role = "you"
       /\ thread.turns[Len(thread.turns)].n = abortRef

HookInv == FlightsInv /\ ThreadInv /\ R!MemoryIsCurrent

LEMMA Appended ==
  ASSUME NEW T, NEW s \in Seq(T), NEW e
  PROVE  /\ Append(s, e) \in Seq(T \cup {e})
         /\ Len(Append(s, e)) = Len(s) + 1
         /\ \A i \in 1..Len(s) : Append(s, e)[i] = s[i]
         /\ Append(s, e)[Len(s) + 1] = e
<1>1. s \in Seq(T \cup {e})
  BY SMT
<1> QED
  BY <1>1, SMT

LEMMA Retired ==
  ASSUME NEW th, NEW turns, NEW memory, NEW followUps,
         th = [turns |-> turns, memory |-> memory, followUps |-> followUps]
  PROVE  [th EXCEPT !.followUps = <<>>] = [turns |-> turns, memory |-> memory, followUps |-> <<>>]
  OBVIOUS

LEMMA TurnBegun ==
  ASSUME NEW th, th = [turns |-> th.turns, memory |-> th.memory, followUps |-> th.followUps],
         NEW echo, NEW n
  PROVE  R!BeginTurn(th, echo, n) =
           [turns |-> Append(th.turns, [role |-> "you", n |-> n, text |-> echo]),
            memory |-> th.memory, followUps |-> <<>>]
<1>1. PICK said : said = Append(th.turns, [role |-> "you", n |-> n, text |-> echo])
  OBVIOUS
<1>2. PICK longer : longer = [th EXCEPT !.turns = said]
  OBVIOUS
<1>3. longer = [turns |-> said, memory |-> th.memory, followUps |-> th.followUps]
  BY <1>2
<1>4. [longer EXCEPT !.followUps = <<>>] = [turns |-> said, memory |-> th.memory, followUps |-> <<>>]
  BY <1>3, Retired
<1> QED
  BY <1>1, <1>2, <1>4 DEF R!BeginTurn

LEMMA InitHook ==
  ASSUME R!ThreadInit
  PROVE  HookInv
<1>1. FlightsInv
  <2>1. composing = FALSE /\ abortRef = 0 /\ flights = {} /\ aborted = {} /\ asks = 0
    BY DEF R!ThreadInit
  <2>2. composing \in BOOLEAN /\ (composing <=> (abortRef # 0))
    BY <2>1, Zenon
  <2> QED
    BY <2>1, <2>2 DEF FlightsInv
<1>2. <<>> \in Seq({})
  OBVIOUS
<1>3. ThreadInv /\ R!MemoryIsCurrent
  BY <1>2 DEF R!ThreadInit, ThreadInv, IsThread, R!MemoryIsCurrent, R!Live, R!FreshThread,
     R!AnswersFollowTheirQuestion
<1> QED
  BY <1>1, <1>3 DEF HookInv

LEMMA BeginKeepsFlights ==
  ASSUME FlightsInv, NEW q, NEW echo, NEW ctx, R!Begin(q, echo, ctx),
         aborted' = aborted \cup ({abortRef} \ {0})
  PROVE  FlightsInv'
<1> DEFINE new == [n |-> asks + 1, q |-> q, ctx |-> ctx, memory |-> thread.memory,
                   stage |-> "resolving", reply |-> None]
<1>1. /\ asks' = asks + 1 /\ abortRef' = asks + 1 /\ composing' = TRUE
      /\ flights' = flights \cup {new}
  BY DEF R!Begin
<1>2. new.n = asks + 1 /\ IsFlight(new)
  BY DEF IsFlight
<1> HIDE DEF new
<1> QED
  BY <1>1, <1>2 DEF FlightsInv

LEMMA BeginKeepsThread ==
  ASSUME FlightsInv, ThreadInv, NEW q, NEW echo, NEW ctx, R!Begin(q, echo, ctx)
  PROVE  ThreadInv' /\ thread'.memory = thread.memory
<1> DEFINE e == [role |-> "you", n |-> asks + 1, text |-> echo]
<1>1. PICK T : thread.turns \in Seq(T)
  BY DEF ThreadInv, IsThread
<1>2. thread' = [turns |-> Append(thread.turns, e), memory |-> thread.memory, followUps |-> <<>>]
  <2>1. thread' = R!BeginTurn(thread, echo, asks + 1)
    BY DEF R!Begin
  <2>2. thread = [turns |-> thread.turns, memory |-> thread.memory, followUps |-> thread.followUps]
    BY DEF ThreadInv, IsThread
  <2> QED
    BY <2>1, <2>2, TurnBegun
<1>3. e.role = "you" /\ e.n = asks + 1 /\ abortRef' = asks + 1
  BY DEF R!Begin
<1> HIDE DEF e
<1>4. /\ Append(thread.turns, e) \in Seq(T \cup {e})
      /\ Len(Append(thread.turns, e)) = Len(thread.turns) + 1
      /\ \A i \in 1..Len(thread.turns) : Append(thread.turns, e)[i] = thread.turns[i]
      /\ Append(thread.turns, e)[Len(thread.turns) + 1] = e
  BY <1>1, Appended
<1>5. thread'.turns = Append(thread.turns, e) /\ thread'.memory = thread.memory
  BY <1>2
<1>6. IsThread(thread')
  BY <1>2, <1>4 DEF IsThread
<1>7. Len(thread.turns) \in Nat
  BY <1>1
<1>8. R!AnswersFollowTheirQuestion'
  BY <1>3, <1>4, <1>5, <1>7 DEF ThreadInv, R!AnswersFollowTheirQuestion
<1> QED
  BY <1>3, <1>4, <1>5, <1>6, <1>7, <1>8 DEF ThreadInv

LEMMA BeginKeepsMemory ==
  ASSUME FlightsInv, R!MemoryIsCurrent, thread'.memory = thread.memory,
         NEW q, NEW echo, NEW ctx, R!Begin(q, echo, ctx),
         aborted' = aborted \cup ({abortRef} \ {0})
  PROVE  R!MemoryIsCurrent'
<1> DEFINE new == [n |-> asks + 1, q |-> q, ctx |-> ctx, memory |-> thread.memory,
                   stage |-> "resolving", reply |-> None]
<1>1. flights' = flights \cup {new} /\ new.memory = thread.memory
  BY DEF R!Begin
<1> HIDE DEF new
<1>2. SUFFICES ASSUME NEW f \in flights', f.n \notin aborted'
               PROVE  f.memory = thread'.memory
  BY DEF R!MemoryIsCurrent, R!Live
<1>3. CASE f = new
  BY <1>1, <1>3
<1>4. CASE f \in flights
  BY <1>2, <1>4 DEF R!MemoryIsCurrent, R!Live
<1> QED
  BY <1>1, <1>2, <1>3, <1>4

LEMMA BeginKeepsHook ==
  ASSUME HookInv, NEW q, NEW echo, NEW ctx, R!Ask(q, echo, ctx) \/ R!Replace(q, echo, ctx)
  PROVE  HookInv'
<1>1. R!Begin(q, echo, ctx) /\ aborted' = aborted \cup ({abortRef} \ {0})
  BY DEF R!Ask, R!Replace
<1> QED
  BY <1>1, BeginKeepsFlights, BeginKeepsThread, BeginKeepsMemory DEF HookInv

LEMMA SameThread ==
  ASSUME ThreadInv, thread'.turns = thread.turns, IsThread(thread'), abortRef' \in {0, abortRef}
  PROVE  ThreadInv'
<1>1. R!AnswersFollowTheirQuestion'
  BY DEF ThreadInv, R!AnswersFollowTheirQuestion
<1> QED
  BY <1>1 DEF ThreadInv

LEMMA Answered ==
  ASSUME NEW f, IsFlight(f), NEW reply
  PROVE  [f EXCEPT !.stage = "pausing", !.reply = reply] =
         [n |-> f.n, q |-> f.q, ctx |-> f.ctx, memory |-> f.memory, stage |-> "pausing",
          reply |-> reply]
<1> DEFINE paused == [n |-> f.n, q |-> f.q, ctx |-> f.ctx, memory |-> f.memory,
                      stage |-> "pausing", reply |-> f.reply]
<1>1. [f EXCEPT !.stage = "pausing", !.reply = reply] =
      [[f EXCEPT !.stage = "pausing"] EXCEPT !.reply = reply]
  OBVIOUS
<1>2. f = [n |-> f.n, q |-> f.q, ctx |-> f.ctx, memory |-> f.memory, stage |-> f.stage,
           reply |-> f.reply]
  BY DEF IsFlight
<1>3. [f EXCEPT !.stage = "pausing"] = paused
  BY <1>2
<1>4. [paused EXCEPT !.reply = reply] =
      [n |-> f.n, q |-> f.q, ctx |-> f.ctx, memory |-> f.memory, stage |-> "pausing",
       reply |-> reply]
  OBVIOUS
<1> HIDE DEF paused
<1> QED
  BY <1>1, <1>3, <1>4

LEMMA AnswerKeepsHook ==
  ASSUME HookInv, NEW f \in flights, NEW reply, R!Answer(f, reply)
  PROVE  HookInv'
<1> DEFINE g == [f EXCEPT !.stage = "pausing", !.reply = reply]
           next == IF f.n \in aborted THEN {} ELSE {g}
<1>1. /\ flights' = (flights \ {f}) \cup next /\ aborted' = aborted \ {f.n}
      /\ UNCHANGED <<thread, composing, abortRef, asks>>
  BY DEF R!Answer
<1>2. g.n = f.n /\ g.memory = f.memory /\ IsFlight(g)
  <2>1. IsFlight(f)
    BY DEF HookInv, FlightsInv
  <2>2. g = [n |-> f.n, q |-> f.q, ctx |-> f.ctx, memory |-> f.memory, stage |-> "pausing",
             reply |-> reply]
    BY <2>1, Answered
  <2> HIDE DEF g
  <2> QED
    BY <2>2 DEF IsFlight
<1> HIDE DEF g
<1>3. FlightsInv'
  <2>1. CASE f.n \in aborted
    BY <1>1, <2>1 DEF HookInv, FlightsInv
  <2>2. CASE f.n \notin aborted
    BY <1>1, <1>2, <2>2 DEF HookInv, FlightsInv
  <2> QED
    BY <2>1, <2>2
<1>4. ThreadInv'
  BY <1>1, SameThread DEF HookInv, ThreadInv
<1>5. R!MemoryIsCurrent'
  <2>1. SUFFICES ASSUME NEW h \in flights', h.n \notin aborted'
                 PROVE  h.memory = thread.memory
    BY <1>1 DEF R!MemoryIsCurrent, R!Live
  <2>2. CASE h \in flights /\ h # f
    BY <1>1, <2>1, <2>2 DEF HookInv, FlightsInv, R!MemoryIsCurrent, R!Live
  <2>3. CASE h = g /\ f.n \notin aborted
    BY <1>2, <2>3 DEF HookInv, R!MemoryIsCurrent, R!Live
  <2> QED
    BY <1>1, <2>1, <2>2, <2>3
<1> QED
  BY <1>3, <1>4, <1>5 DEF HookInv

LEMMA SettleKeepsHook ==
  ASSUME HookInv, NEW f \in flights, NEW audience, NEW followUps,
         R!Settle(f, audience, followUps)
  PROVE  HookInv'
<1>1. flights' = flights \ {f} /\ aborted' = aborted \ {f.n} /\ asks' = asks
  BY DEF R!Settle
<1>2. CASE f.n \in aborted
  <2>1. UNCHANGED <<thread, composing, abortRef>>
    BY <1>2 DEF R!Settle
  <2>2. FlightsInv'
    BY <1>1, <1>2, <2>1 DEF HookInv, FlightsInv
  <2>3. ThreadInv'
    BY <2>1, SameThread DEF HookInv, ThreadInv
  <2>4. R!MemoryIsCurrent'
    BY <1>1, <1>2, <2>1 DEF HookInv, FlightsInv, R!MemoryIsCurrent, R!Live
  <2> QED
    BY <2>2, <2>3, <2>4 DEF HookInv
<1>3. CASE f.n \notin aborted
  <2> DEFINE e == [role |-> "cedar", n |-> f.n, reply |-> f.reply]
  <2>1. /\ thread' = R!SettleTurn(thread, f.reply, f.n, audience, followUps)
        /\ composing' = FALSE /\ abortRef' = 0
    BY <1>3 DEF R!Settle
  <2>2. f.n = abortRef /\ abortRef # 0
    BY <1>3 DEF HookInv, FlightsInv
  <2>3. \A h \in flights' : h.n \in aborted'
    BY <1>1, <2>2 DEF HookInv, FlightsInv
  <2>4. FlightsInv'
    <3>1. composing' \in BOOLEAN /\ (composing' <=> (abortRef' # 0))
      BY <2>1, Zenon
    <3>2. /\ asks' \in Nat /\ abortRef' \in 0..asks'
          /\ \A h \in flights' : h.n \in 1..asks' /\ IsFlight(h)
      BY <1>1, <2>1 DEF HookInv, FlightsInv
    <3>4. aborted' \subseteq 1..asks' /\ \A h, k \in flights' : h.n = k.n => h = k
      BY <1>1 DEF HookInv, FlightsInv
    <3>3. \A h \in flights' : h.n \in aborted' <=> h.n # abortRef'
      BY <2>1, <2>3, <3>2
    <3> QED
      BY <2>1, <3>1, <3>2, <3>3, <3>4 DEF FlightsInv
  <2>5. R!MemoryIsCurrent'
    BY <2>3 DEF R!MemoryIsCurrent, R!Live
  <2>6. PICK T : thread.turns \in Seq(T)
    BY DEF HookInv, ThreadInv, IsThread
  <2>7. /\ thread'.turns = Append(thread.turns, e)
        /\ thread' = [turns |-> thread'.turns, memory |-> thread'.memory,
                      followUps |-> thread'.followUps]
    BY <2>1 DEF R!SettleTurn
  <2>8. e.role = "cedar" /\ e.n = f.n
    OBVIOUS
  <2> HIDE DEF e
  <2>9. /\ Append(thread.turns, e) \in Seq(T \cup {e})
        /\ Len(Append(thread.turns, e)) = Len(thread.turns) + 1
        /\ \A i \in 1..Len(thread.turns) : Append(thread.turns, e)[i] = thread.turns[i]
        /\ Append(thread.turns, e)[Len(thread.turns) + 1] = e
    BY <2>6, Appended
  <2>10. Len(thread.turns) \in Nat
    BY <2>6
  <2>11. IsThread(thread')
    BY <2>7, <2>9 DEF IsThread
  <2>12. R!AnswersFollowTheirQuestion'
    BY <2>2, <2>7, <2>8, <2>9, <2>10 DEF HookInv, ThreadInv, R!AnswersFollowTheirQuestion
  <2> QED
    BY <2>1, <2>4, <2>5, <2>11, <2>12 DEF HookInv, ThreadInv
<1> QED
  BY <1>2, <1>3

(* Whoever abandons the ask in flight leaves the indicator down.            *)
LEMMA AbandonKeepsFlights ==
  ASSUME FlightsInv, aborted' = aborted \cup ({abortRef} \ {0}), abortRef' = 0, composing' = FALSE,
         UNCHANGED <<flights, asks>>
  PROVE  FlightsInv' /\ \A f \in flights' : f.n \in aborted'
<1>1. composing' \in BOOLEAN /\ (composing' <=> (abortRef' # 0))
  BY Zenon
<1> QED
  BY <1>1 DEF FlightsInv

LEMMA CancelKeepsHook ==
  ASSUME HookInv, R!Cancel, thread' \in {thread, R!RetireFollowUps(thread)}
  PROVE  HookInv'
<1>1. FlightsInv' /\ \A f \in flights' : f.n \in aborted'
  BY AbandonKeepsFlights DEF R!Cancel, HookInv
<1>2. thread'.turns = thread.turns /\ IsThread(thread')
  <2>1. thread = [turns |-> thread.turns, memory |-> thread.memory, followUps |-> thread.followUps]
    BY DEF HookInv, ThreadInv, IsThread
  <2>2. R!RetireFollowUps(thread) = [turns |-> thread.turns, memory |-> thread.memory,
                                   followUps |-> <<>>]
    BY <2>1, Retired DEF R!RetireFollowUps
  <2>3. PICK T : thread.turns \in Seq(T)
    BY DEF HookInv, ThreadInv, IsThread
  <2>4. CASE thread' = thread
    BY <2>4 DEF HookInv, ThreadInv
  <2>5. CASE thread' = R!RetireFollowUps(thread)
    BY <2>2, <2>3, <2>5 DEF IsThread
  <2> QED
    BY <2>4, <2>5
<1>3. ThreadInv'
  BY <1>2, SameThread DEF HookInv, R!Cancel
<1>4. R!MemoryIsCurrent'
  BY <1>1 DEF R!MemoryIsCurrent, R!Live
<1> QED
  BY <1>1, <1>3, <1>4 DEF HookInv

LEMMA RemountKeepsHook ==
  ASSUME HookInv, R!Remount
  PROVE  HookInv'
<1>1. FlightsInv' /\ \A f \in flights' : f.n \in aborted'
  BY AbandonKeepsFlights DEF R!Remount, HookInv
<1>2. thread' = R!FreshThread /\ abortRef' = 0
  BY DEF R!Remount
<1>3. <<>> \in Seq({})
  OBVIOUS
<1>4. ThreadInv'
  BY <1>2, <1>3 DEF ThreadInv, IsThread, R!FreshThread, R!AnswersFollowTheirQuestion
<1>5. R!MemoryIsCurrent'
  BY <1>1 DEF R!MemoryIsCurrent, R!Live
<1> QED
  BY <1>1, <1>4, <1>5 DEF HookInv

LEMMA StepKeepsHook ==
  ASSUME HookInv, [ThreadNext]_R!threadVars
  PROVE  HookInv'
<1>1. CASE UNCHANGED R!threadVars
  BY <1>1 DEF R!threadVars, HookInv, FlightsInv, ThreadInv, IsThread, R!MemoryIsCurrent, R!Live,
     R!AnswersFollowTheirQuestion
<1>2. CASE \E q, echo, ctx : R!Ask(q, echo, ctx) \/ R!Replace(q, echo, ctx)
  BY <1>2, BeginKeepsHook
<1>3. CASE \E f \in flights : \E reply : R!Answer(f, reply)
  BY <1>3, AnswerKeepsHook
<1>4. CASE \E f \in flights : \E audience, followUps : R!Settle(f, audience, followUps)
  BY <1>4, SettleKeepsHook
<1>5. CASE R!Cancel /\ thread' \in {thread, R!RetireFollowUps(thread)}
  BY <1>5, CancelKeepsHook
<1>6. CASE R!Remount
  BY <1>6, RemountKeepsHook
<1> QED
  BY <1>1, <1>2, <1>3, <1>4, <1>5, <1>6 DEF ThreadNext

LEMMA HookIsRight ==
  ASSUME HookInv
  PROVE  R!PendingMeansComposing /\ R!AnswersFollowTheirQuestion /\ R!MemoryIsCurrent
<1>1. {f.n : f \in R!Live} = {abortRef} \ {0}
  BY DEF HookInv, FlightsInv, R!Live
<1>2. Cardinality(R!Live) <= 1
  <2>1. CASE R!Live = {}
    BY <2>1, FS_EmptySet
  <2>2. CASE R!Live # {}
    <3>1. PICK f : f \in R!Live
      BY <2>2
    <3>2. R!Live = {f}
      BY <3>1 DEF HookInv, FlightsInv, R!Live
    <3>3. Cardinality(R!Live) = 1
      BY <3>2, FS_Singleton
    <3> QED
      BY <3>3
  <2> QED
    BY <2>1, <2>2
<1>3. R!Cardinality(R!Live) = Cardinality(R!Live)
  BY DEF R!Cardinality, Cardinality
<1> QED
  BY <1>1, <1>2, <1>3 DEF R!PendingMeansComposing, HookInv, FlightsInv, ThreadInv

-----------------------------------------------------------------------------
(* Least elements, without an induction rule that takes a predicate: the    *)
(* intervals from 0 are finite sets, and these are well-founded.            *)
LEMMA Smallest ==
  ASSUME NEW T \in SUBSET Nat, T # {}
  PROVE  \E n \in T : \A m \in T : n <= m
<1> DEFINE below == {0..n : n \in T}
<1>1. \A n \in Nat : IsFiniteSet(0..n)
  BY FS_Interval
<1>2. below \subseteq FiniteSubsetsOf(Nat)
  BY <1>1, SMT DEF FiniteSubsetsOf
<1>3. below # {}
  OBVIOUS
<1>4. IsWellFoundedOn(StrictSubsetOrdering(Nat), FiniteSubsetsOf(Nat))
  BY FS_StrictSubsetOrderingWellFounded
<1> HIDE DEF below
<1>5. PICK I \in below : \A J \in below : ~(<<J, I>> \in StrictSubsetOrdering(Nat))
  BY <1>2, <1>3, <1>4, WFMin
<1>6. PICK n \in T : I = 0..n
  BY <1>5 DEF below
<1>7. ASSUME NEW m \in T, m < n PROVE FALSE
  <2>1. 0..m \in below
    BY DEF below
  <2>2. <<0..m, 0..n>> \in StrictSubsetOrdering(Nat)
    BY <1>7 DEF StrictSubsetOrdering
  <2> QED
    BY <2>1, <2>2, <1>5, <1>6
<1> QED
  BY <1>6, <1>7

(* One step of the quick replies.                                           *)
Take1(memory, reply, out, item) ==
  IF Len(out) < R!MaxReplies /\ R!Chosen(memory, reply, out, item) THEN Append(out, item) ELSE out

IsTaking(f, n, memory, reply, items) ==
  f = [i \in 0..n |-> IF i = 0 THEN R!TellMeMore(reply)
                      ELSE Take1(memory, reply, f[i - 1], items[i])]

LEMMA TakingExists ==
  ASSUME NEW memory, NEW reply, NEW items
  PROVE  \A n \in Nat : \E f : IsTaking(f, n, memory, reply, items)
<1> DEFINE Without == {n \in Nat : ~\E f : IsTaking(f, n, memory, reply, items)}
<1>1. SUFFICES ASSUME Without # {} PROVE FALSE
  OBVIOUS
<1>2. PICK n \in Without : \A m \in Without : n <= m
  BY <1>1, Smallest
<1>3. CASE n = 0
  <2>1. IsTaking([i \in 0..0 |-> R!TellMeMore(reply)], 0, memory, reply, items)
    BY DEF IsTaking
  <2> QED
    BY <1>2, <1>3, <2>1
<1>4. CASE n # 0
  <2>1. n \in Nat /\ n - 1 \in Nat /\ ~(n <= n - 1)
    BY <1>2, <1>4
  <2>2. n - 1 \notin Without
    BY <1>2, <2>1
  <2>3. PICK f : IsTaking(f, n - 1, memory, reply, items)
    BY <2>1, <2>2
  <2> DEFINE g == [i \in 0..n |-> IF i = n THEN Take1(memory, reply, f[n - 1], items[n]) ELSE f[i]]
  <2>4. \A i \in 0..n : g[i] = IF i = 0 THEN R!TellMeMore(reply)
                               ELSE Take1(memory, reply, g[i - 1], items[i])
    <3>1. TAKE i \in 0..n
    <3>2. CASE i = n
      BY <1>4, <2>1, <3>2
    <3>3. CASE i # n
      <4>1. i \in 0..(n - 1) /\ (i # 0 => i - 1 \in 0..(n - 1))
        BY <2>1, <3>3
      <4>2. f[i] = IF i = 0 THEN R!TellMeMore(reply) ELSE Take1(memory, reply, f[i - 1], items[i])
        BY <2>3, <4>1 DEF IsTaking
      <4>3. g[i] = f[i] /\ (i # 0 => g[i - 1] = f[i - 1])
        BY <2>1, <3>3, <4>1
      <4> QED
        BY <4>2, <4>3
    <3> QED
      BY <3>2, <3>3
  <2>5. g = [i \in 0..n |-> g[i]]
    OBVIOUS
  <2>6. IsTaking(g, n, memory, reply, items)
    <3> HIDE DEF g
    <3> QED
      BY <2>4, <2>5 DEF IsTaking
  <2> QED
    BY <1>2, <2>6
<1> QED
  BY <1>3, <1>4

LEMMA TakingIsOf ==
  ASSUME NEW memory, NEW reply, NEW items, NEW X, NEW n \in Nat,
         R!TellMeMore(reply) \in Seq(X),
         \A i \in 1..n : \A out : R!Chosen(memory, reply, out, items[i]) => items[i] \in X,
         NEW f, IsTaking(f, n, memory, reply, items)
  PROVE  \A i \in 0..n : f[i] \in Seq(X)
<1> DEFINE Off == {i \in 0..n : f[i] \notin Seq(X)}
<1>1. SUFFICES ASSUME Off # {} PROVE FALSE
  OBVIOUS
<1>2. Off \in SUBSET Nat
  OBVIOUS
<1>3. PICK i \in Off : \A m \in Off : i <= m
  BY <1>1, <1>2, Smallest
<1>4. CASE i = 0
  BY <1>3, <1>4 DEF IsTaking
<1>5. CASE i # 0
  <2>1. i \in 1..n /\ i - 1 \in 0..n /\ ~(i <= i - 1)
    BY <1>3, <1>5
  <2>2. f[i - 1] \in Seq(X)
    BY <1>3, <2>1
  <2>3. f[i] = Take1(memory, reply, f[i - 1], items[i])
    BY <1>5, <2>1 DEF IsTaking
  <2>4. f[i] \in Seq(X)
    BY <2>1, <2>2, <2>3 DEF Take1
  <2> QED
    BY <1>3, <2>4
<1> QED
  BY <1>4, <1>5

LEMMA TakenIsOf ==
  ASSUME NEW memory, NEW reply, NEW items, NEW X, Len(items) \in Nat,
         R!TellMeMore(reply) \in Seq(X),
         \A i \in 1..Len(items) : \A out : R!Chosen(memory, reply, out, items[i]) => items[i] \in X
  PROVE  R!Taken(memory, reply, items) \in Seq(X)
<1>1. PICK f : IsTaking(f, Len(items), memory, reply, items)
  BY TakingExists
<1>2. PICK g : /\ IsTaking(g, Len(items), memory, reply, items)
               /\ R!Taken(memory, reply, items) = g[Len(items)]
  BY <1>1 DEF R!Taken, Take1, IsTaking
<1>3. \A i \in 0..Len(items) : g[i] \in Seq(X)
  BY <1>2, TakingIsOf
<1> QED
  BY <1>2, <1>3

-----------------------------------------------------------------------------
(* The reader's panel.                                                      *)

Answering == {"answer", "repeat", "drilldown"}
WithoutAnswer == {"gate", "routing", "error"}

Item == [text : Questions, at : Scopes \cup {None}]

ReaderTypes ==
  /\ scope \in Scopes \cup {None}
  /\ thread.memory.answered \in [Topics -> Nat]
  /\ thread.memory.prior \in Topics \cup {None}
  /\ \A f \in flights : f.q \in Questions /\ f.ctx \in Scopes \cup {None}

(* What was resolved and waits for its pause: an answer has a scope and is  *)
(* about a topic; it is no repeat only where the topic was not answered.    *)
Fits(f) ==
  /\ f.reply.kind \in Answering \cup WithoutAnswer
  /\ f.reply.kind \in Answering => f.ctx # None /\ f.reply.intent \in Topics
  /\ f.reply.kind \in WithoutAnswer => f.reply.intent = None
  /\ f.reply.kind = "answer" => f.memory.answered[f.reply.intent] = 0

RepliesFit == \A f \in R!Live : f.stage = "pausing" => Fits(f)

Offerable(item, at, counted) ==
  /\ item \in Item /\ at # None /\ item.at \in {None, at}
  /\ item.at # None => counted[R!TopicOf(item.text, item.at)] = 0

FollowUpsFit ==
  thread.followUps \in Seq({item \in Item : Offerable(item, scope, thread.memory.answered)})

(* The memory counts every answer that is on the thread.                    *)
AnswersAreCounted ==
  \A i \in R!Answers :
    thread.turns[i].reply.intent \in Topics
    /\ thread.memory.answered[thread.turns[i].reply.intent] > 0

ReaderInv ==
  /\ HookInv /\ ReaderTypes
  /\ R!AnswerUnderItsScope /\ RepliesFit /\ FollowUpsFit
  /\ AnswersAreCounted /\ R!NeverColdTwice

LEMMA QuestionsOfAScope ==
  ASSUME R!ReaderAssumption, NEW c \in Scopes
  PROVE  R!Offered(c) \in Seq([text : Questions, at : {c}])
<1>1. R!ScopedQuestions(c) \in Seq(Questions)
  BY DEF R!ReaderAssumption, R!ScopedQuestions, R!CedarQuestions
<1>2. c # None
  BY DEF R!ReaderAssumption
<1> DEFINE n == Len(R!ScopedQuestions(c))
<1>3. n \in Nat /\ DOMAIN R!ScopedQuestions(c) = 1..n /\ \A i \in 1..n : R!ScopedQuestions(c)[i] \in Questions
  BY <1>1
<1>4. R!Offered(c) = [i \in 1..n |-> [text |-> R!ScopedQuestions(c)[i], at |-> c]]
  BY <1>2, <1>3 DEF R!Offered
<1>5. \A i \in 1..n : [text |-> R!ScopedQuestions(c)[i], at |-> c] \in [text : Questions, at : {c}]
  BY <1>3
<1> HIDE DEF n
<1>6. R!Offered(c) \in [1..n -> [text : Questions, at : {c}]]
  BY <1>4, <1>5
<1> QED
  BY <1>3, <1>6, SeqDef

LEMMA ItemsOffered ==
  ASSUME R!ReaderAssumption, NEW at \in Scopes \cup {None}, NEW i \in 1..Len(R!Offered(at)),
         R!Offered(at)[i] # None
  PROVE  R!Offered(at)[i] \in Item /\ R!Offered(at)[i].at \in Scopes
<1>1. CASE at \in Scopes
  <2>1. R!Offered(at) \in Seq([text : Questions, at : {at}])
    BY <1>1, QuestionsOfAScope
  <2>2. R!Offered(at)[i] \in [text : Questions, at : {at}]
    BY <2>1, ElementOfSeq
  <2> QED
    BY <1>1, <2>2 DEF Item
<1>2. CASE at \notin Scopes
  <2>1. at = None /\ R!Offered(at) = [k \in DOMAIN FirstFour |-> R!OpenQuestion(k)]
    BY <1>2 DEF R!Offered, R!Examples
  <2>2. FirstFour \in Seq(Scopes)
    BY DEF R!ReaderAssumption
  <2>3. i \in 1..Len(FirstFour) /\ R!Offered(at)[i] = R!OpenQuestion(i)
    BY <2>1, <2>2
  <2>4. FirstFour[i] \in Scopes
    BY <2>2, <2>3
  <2>5. R!CedarQuestions(FirstFour[i]) \in Seq(Questions)
    BY <2>4 DEF R!ReaderAssumption, R!CedarQuestions
  <2> QED
    BY <2>3, <2>4, <2>5 DEF R!OpenQuestion, Item
<1> QED
  BY <1>1, <1>2

(* What may follow an answer at a scope.                                    *)
Following(memory, reply, c) ==
  {item \in Item :
     /\ item.at \in {None, c}
     /\ item.at # None => /\ memory.answered[R!TopicOf(item.text, item.at)] = 0
                          /\ R!TopicOf(item.text, item.at) # reply.intent}

LEMMA FollowUpsOffered ==
  ASSUME R!ReaderAssumption, NEW memory, NEW reply, NEW c \in Scopes
  PROVE  R!Taken(memory, reply, R!Offered(c)) \in Seq(Following(memory, reply, c))
<1>1. R!Offered(c) \in Seq([text : Questions, at : {c}])
  BY QuestionsOfAScope
<1>2. R!TellMeMore(reply) \in Seq(Following(memory, reply, c))
  <2>1. [text |-> More, at |-> None] \in Following(memory, reply, c)
    BY DEF Item, R!ReaderAssumption, Following
  <2> QED
    BY <2>1 DEF R!TellMeMore
<1>3. ASSUME NEW i \in 1..Len(R!Offered(c)), NEW out, R!Chosen(memory, reply, out, R!Offered(c)[i])
      PROVE  R!Offered(c)[i] \in Following(memory, reply, c)
  <2>1. R!Offered(c)[i] \in [text : Questions, at : {c}]
    BY <1>1, ElementOfSeq
  <2> QED
    BY <1>3, <2>1 DEF R!Chosen, Item, Following
<1>4. Len(R!Offered(c)) \in Nat
  BY <1>1
<1> QED
  BY <1>2, <1>3, <1>4, TakenIsOf

LEMMA InitReader ==
  ASSUME R!ReaderAssumption, R!ReaderInit
  PROVE  ReaderInv
<1>1. HookInv
  BY InitHook DEF R!ReaderInit
<1>2. /\ thread = R!FreshThread /\ flights = {} /\ scope = None
      /\ thread.turns = <<>> /\ thread.followUps = <<>> /\ thread.memory = R!FreshMemory
  BY DEF R!ReaderInit, R!ThreadInit, R!FreshThread
<1>3. ReaderTypes
  BY <1>2 DEF ReaderTypes, R!FreshMemory
<1>4. R!Answers = {}
  BY <1>2 DEF R!Answers
<1>5. FollowUpsFit
  BY <1>2 DEF FollowUpsFit
<1> QED
  BY <1>1, <1>2, <1>3, <1>4, <1>5
  DEF ReaderInv, R!AnswerUnderItsScope, RepliesFit, R!Live, AnswersAreCounted, R!NeverColdTwice

LEMMA SameAnswers ==
  ASSUME thread'.turns = thread.turns, thread'.memory = thread.memory,
         AnswersAreCounted, R!NeverColdTwice
  PROVE  AnswersAreCounted' /\ R!NeverColdTwice'
BY DEF R!Answers, AnswersAreCounted, R!NeverColdTwice

(* A turn of the reader's adds no answer.                                   *)
LEMMA QuestionAnswersNothing ==
  ASSUME HookInv, NEW e, e.role = "you",
         thread'.turns = Append(thread.turns, e), thread'.memory = thread.memory,
         AnswersAreCounted, R!NeverColdTwice
  PROVE  AnswersAreCounted' /\ R!NeverColdTwice'
<1>1. PICK T : thread.turns \in Seq(T)
  BY DEF HookInv, ThreadInv, IsThread
<1>2. /\ Len(thread'.turns) = Len(thread.turns) + 1 /\ Len(thread.turns) \in Nat
      /\ \A i \in 1..Len(thread.turns) : thread'.turns[i] = thread.turns[i]
      /\ thread'.turns[Len(thread.turns) + 1] = e
  BY <1>1, Appended
<1>3. R!Answers' = R!Answers /\ R!Answers \subseteq 1..Len(thread.turns)
  BY <1>2 DEF R!Answers
<1>4. \A i \in R!Answers : thread'.turns[i] = thread.turns[i]
  BY <1>2, <1>3
<1>5. AnswersAreCounted'
  BY <1>3, <1>4, Zenon DEF AnswersAreCounted
<1>6. R!NeverColdTwice'
  <2>1. SUFFICES ASSUME NEW i \in R!Answers', NEW j \in R!Answers', i < j,
                        thread'.turns[j].reply.kind = "answer"
                 PROVE  thread'.turns[i].reply.intent # thread'.turns[j].reply.intent
    BY DEF R!NeverColdTwice
  <2>2. i \in R!Answers /\ j \in R!Answers
    BY <1>3
  <2>3. thread'.turns[i] = thread.turns[i] /\ thread'.turns[j] = thread.turns[j]
    BY <1>4, <2>2
  <2> QED
    BY <2>1, <2>2, <2>3 DEF R!NeverColdTwice
<1> QED
  BY <1>5, <1>6

LEMMA AskKeepsReader ==
  ASSUME ReaderInv, HookInv', NEW q \in Questions, NEW echo, NEW ctx \in Scopes \cup {None},
         R!Ask(q, echo, ctx), scope' = ctx
  PROVE  ReaderInv'
<1> DEFINE new == [n |-> asks + 1, q |-> q, ctx |-> ctx, memory |-> thread.memory,
                   stage |-> "resolving", reply |-> None]
           e == [role |-> "you", n |-> asks + 1, text |-> echo]
<1>1. flights' = flights \cup {new} /\ aborted' = aborted /\ abortRef = 0
  BY DEF R!Ask, R!Begin
<1>2. new.q = q /\ new.ctx = ctx /\ new.stage = "resolving"
  OBVIOUS
<1>3. R!Live' \subseteq {new}
  BY <1>1 DEF R!Live, ReaderInv, HookInv, FlightsInv
<1>4. /\ thread'.turns = Append(thread.turns, e) /\ thread'.memory = thread.memory
      /\ thread'.followUps = <<>> /\ e.role = "you"
  <2>1. thread' = R!BeginTurn(thread, echo, asks + 1)
    BY DEF R!Ask, R!Begin
  <2>2. thread = [turns |-> thread.turns, memory |-> thread.memory, followUps |-> thread.followUps]
    BY DEF ReaderInv, HookInv, ThreadInv, IsThread
  <2>3. R!BeginTurn(thread, echo, asks + 1) =
        [turns |-> Append(thread.turns, e), memory |-> thread.memory, followUps |-> <<>>]
    BY <2>2, TurnBegun
  <2> QED
    BY <2>1, <2>3
<1> HIDE DEF new, e
<1>5. ReaderTypes'
  BY <1>1, <1>2, <1>4 DEF ReaderInv, ReaderTypes
<1>6. R!AnswerUnderItsScope' /\ RepliesFit'
  BY <1>2, <1>3 DEF R!AnswerUnderItsScope, RepliesFit
<1>7. FollowUpsFit'
  BY <1>4 DEF FollowUpsFit
<1>8. AnswersAreCounted' /\ R!NeverColdTwice'
  BY <1>4, QuestionAnswersNothing DEF ReaderInv
<1> QED
  BY <1>5, <1>6, <1>7, <1>8 DEF ReaderInv

LEMMA ReplyTo ==
  ASSUME ReaderInv, HookInv', NEW f \in flights, NEW reply, R!Answer(f, reply), scope' = scope,
         NEW g, g = [n |-> f.n, q |-> f.q, ctx |-> f.ctx, memory |-> f.memory,
                     stage |-> "pausing", reply |-> reply],
         f.n \notin aborted => Fits(g)
  PROVE  ReaderInv'
<1>1. /\ flights' = (flights \ {f}) \cup (IF f.n \in aborted THEN {} ELSE {g})
      /\ aborted' = aborted \ {f.n} /\ thread' = thread
  <2>1. [f EXCEPT !.stage = "pausing", !.reply = reply] = g
    BY Answered DEF ReaderInv, HookInv, FlightsInv
  <2> QED
    BY <2>1 DEF R!Answer
<1>2. g.n = f.n /\ g.q = f.q /\ g.ctx = f.ctx
  OBVIOUS
<1>3. \A h \in R!Live' : h \in R!Live \/ (h = g /\ f \in R!Live)
  <2>1. \A h \in flights' : (h = g /\ f.n \notin aborted) \/ (h \in flights /\ h.n # f.n)
    BY <1>1 DEF ReaderInv, HookInv, FlightsInv
  <2> QED
    BY <1>1, <2>1 DEF R!Live
<1>4. ReaderTypes'
  BY <1>1, <1>2 DEF ReaderInv, ReaderTypes
<1>5. R!AnswerUnderItsScope' /\ RepliesFit'
  BY <1>2, <1>3 DEF ReaderInv, R!AnswerUnderItsScope, RepliesFit, R!Live
<1>6. FollowUpsFit'
  BY <1>1 DEF ReaderInv, FollowUpsFit
<1>7. AnswersAreCounted' /\ R!NeverColdTwice'
  BY <1>1, SameAnswers DEF ReaderInv
<1> QED
  BY <1>4, <1>5, <1>6, <1>7 DEF ReaderInv

LEMMA SaidHereFits ==
  ASSUME NEW g, NEW kind \in WithoutAnswer, NEW source, g.reply = R!Said(kind, None, source)
  PROVE  Fits(g)
BY DEF Fits, R!Said, Answering, WithoutAnswer

LEMMA WordedFits ==
  ASSUME R!ReaderAssumption, ReaderInv, NEW f \in R!Live, f.ctx # None, NEW source, NEW g,
         g.ctx = f.ctx, g.memory = f.memory, g.reply = R!Worded(f, source)
  PROVE  Fits(g)
<1>1. /\ f.memory.answered \in [Topics -> Nat] /\ f.memory.prior \in Topics \cup {None}
      /\ f.q \in Questions /\ f.ctx \in Scopes
  BY DEF ReaderInv, HookInv, R!MemoryIsCurrent, ReaderTypes, R!Live
<1>2. R!TopicOf(f.q, f.ctx) \in Topics
  BY <1>1 DEF R!TopicOf, R!ReaderAssumption
<1>3. CASE R!IsDrillDown(f.q) /\ f.memory.prior # None
  <2>1. R!Worded(f, source) = R!Said("drilldown", f.memory.prior, source)
    BY <1>3 DEF R!Worded
  <2>2. g.reply.kind = "drilldown" /\ g.reply.intent = f.memory.prior
    BY <2>1 DEF R!Said
  <2> QED
    BY <1>1, <1>3, <2>2 DEF Fits, Answering, WithoutAnswer
<1>4. CASE ~(R!IsDrillDown(f.q) /\ f.memory.prior # None)
  <2> DEFINE t == R!TopicOf(f.q, f.ctx)
  <2>1. R!Worded(f, source) = R!Said(IF f.memory.answered[t] > 0 THEN "repeat" ELSE "answer", t, source)
    BY <1>4 DEF R!Worded
  <2> HIDE DEF t
  <2>2. t \in Topics /\ f.memory.answered[t] \in Nat
    BY <1>1, <1>2 DEF t
  <2>3. CASE f.memory.answered[t] > 0
    BY <2>1, <2>2, <2>3 DEF R!Said, Fits, Answering, WithoutAnswer
  <2>4. CASE ~(f.memory.answered[t] > 0)
    BY <2>1, <2>2, <2>4 DEF R!Said, Fits, Answering, WithoutAnswer
  <2> QED
    BY <2>3, <2>4
<1> QED
  BY <1>3, <1>4

LEMMA AnswerKeepsReader ==
  ASSUME R!ReaderAssumption, ReaderInv, HookInv', NEW f \in flights,
         R!AnswerHere(f) \/ R!ServiceFails(f) \/ \E source : R!ServiceAnswers(f, source)
  PROVE  ReaderInv'
<1>1. ASSUME NEW reply
      PROVE  \E g : g = [n |-> f.n, q |-> f.q, ctx |-> f.ctx, memory |-> f.memory,
                         stage |-> "pausing", reply |-> reply]
  OBVIOUS
<1>2. CASE R!AnswerHere(f)
  <2>1. PICK kind \in WithoutAnswer : R!Answer(f, R!Said(kind, None, None)) /\ scope' = scope
    BY <1>2 DEF R!AnswerHere, WithoutAnswer, R!readerVars
  <2>2. PICK g : g = [n |-> f.n, q |-> f.q, ctx |-> f.ctx, memory |-> f.memory,
                      stage |-> "pausing", reply |-> R!Said(kind, None, None)]
    OBVIOUS
  <2>3. Fits(g)
    BY <2>2, SaidHereFits
  <2> QED
    BY <2>1, <2>2, <2>3, ReplyTo
<1>3. CASE R!ServiceFails(f)
  <2>1. R!Answer(f, R!Said("error", None, None)) /\ scope' = scope
    BY <1>3 DEF R!ServiceFails, R!readerVars
  <2>2. PICK g : g = [n |-> f.n, q |-> f.q, ctx |-> f.ctx, memory |-> f.memory,
                      stage |-> "pausing", reply |-> R!Said("error", None, None)]
    OBVIOUS
  <2>3. Fits(g)
    <3>1. "error" \in WithoutAnswer
      BY DEF WithoutAnswer
    <3> QED
      BY <2>2, <3>1, SaidHereFits
  <2> QED
    BY <2>1, <2>2, <2>3, ReplyTo
<1>4. ASSUME NEW source, R!ServiceAnswers(f, source)
      PROVE  ReaderInv'
  <2>1. /\ R!Answer(f, R!Worded(f, source)) /\ scope' = scope
        /\ f.n \notin aborted /\ f.ctx # None
    BY <1>4 DEF R!ServiceAnswers, R!Unavailable
  <2>2. PICK g : g = [n |-> f.n, q |-> f.q, ctx |-> f.ctx, memory |-> f.memory,
                      stage |-> "pausing", reply |-> R!Worded(f, source)]
    OBVIOUS
  <2>3. g.ctx = f.ctx /\ g.memory = f.memory /\ g.reply = R!Worded(f, source) /\ f \in R!Live
    BY <2>1, <2>2 DEF R!Live
  <2>4. Fits(g)
    BY <2>1, <2>3, WordedFits
  <2> QED
    BY <2>1, <2>2, <2>4, ReplyTo
<1> QED
  BY <1>2, <1>3, <1>4

LEMMA Remembered ==
  ASSUME R!ThreadAssumption, ReaderTypes, NEW f, Fits(f), NEW memory,
         memory = R!Remember(thread.memory, f.reply, None)
  PROVE  /\ memory.answered \in [Topics -> Nat] /\ memory.prior \in Topics \cup {None}
         /\ \A t \in Topics :
              /\ memory.answered[t] >= thread.memory.answered[t]
              /\ t # f.reply.intent => memory.answered[t] = thread.memory.answered[t]
         /\ f.reply.kind \in {"answer", "repeat"} => memory.answered[f.reply.intent] > 0
<1> DEFINE about  == f.reply.intent # None
           counts == about /\ f.reply.kind # "drilldown"
<1>1. /\ memory.prior = IF /\ about /\ f.reply.kind # "clarify" /\ f.reply.intent \notin NonTopics
                        THEN f.reply.intent ELSE thread.memory.prior
      /\ memory.answered = IF counts
                           THEN [thread.memory.answered EXCEPT ![f.reply.intent] = @ + 1]
                           ELSE thread.memory.answered
  BY DEF R!Remember
<1>2. about => f.reply.intent \in Topics
  BY DEF Fits
<1>3. f.reply.kind \in {"answer", "repeat"} => counts
  BY DEF Fits, Answering, R!ThreadAssumption
<1> QED
  BY <1>1, <1>2, <1>3 DEF ReaderTypes

LEMMA SettleLiveKeepsReader ==
  ASSUME R!ThreadAssumption, R!ReaderAssumption, ReaderInv, HookInv', NEW f \in R!Live, R!ReaderSettle(f)
  PROVE  ReaderInv'
<1> DEFINE e == [role |-> "cedar", n |-> f.n, reply |-> f.reply]
           next == R!FabFollowUps(thread.memory, f.reply, f.ctx)
           learnt == R!Remember(thread.memory, f.reply, None)
<1>1. /\ f.stage = "pausing" /\ flights' = flights \ {f} /\ aborted' = aborted \ {f.n}
      /\ thread' = R!SettleTurn(thread, f.reply, f.n, None, next) /\ scope' = scope
  BY DEF R!ReaderSettle, R!Settle, R!Live, R!readerVars
<1>2. /\ thread'.turns = Append(thread.turns, e) /\ thread'.memory = learnt
      /\ thread'.followUps = next
  BY <1>1 DEF R!SettleTurn
<1>3. e.role = "cedar" /\ e.reply = f.reply
  OBVIOUS
<1>4. Fits(f) /\ f.ctx = scope /\ f.memory = thread.memory
  BY <1>1 DEF ReaderInv, HookInv, RepliesFit, R!AnswerUnderItsScope, R!MemoryIsCurrent
<1> HIDE DEF e
<1>5. R!Live' = {}
  BY <1>1 DEF R!Live, ReaderInv, HookInv, FlightsInv
<1>6. /\ learnt.answered \in [Topics -> Nat] /\ learnt.prior \in Topics \cup {None}
      /\ \A t \in Topics :
           /\ learnt.answered[t] >= thread.memory.answered[t]
           /\ t # f.reply.intent => learnt.answered[t] = thread.memory.answered[t]
      /\ f.reply.kind \in {"answer", "repeat"} => learnt.answered[f.reply.intent] > 0
  BY <1>4, Remembered DEF ReaderInv
<1>7. next \in Seq({item \in Item : Offerable(item, scope, learnt.answered)})
  <2>1. CASE f.reply.kind \in WithoutAnswer
    BY <2>1 DEF R!FabFollowUps, WithoutAnswer
  <2>2. CASE f.reply.kind \notin WithoutAnswer
    <3>1. next = R!Taken(thread.memory, f.reply, R!Offered(scope))
      BY <1>4, <2>2 DEF R!FabFollowUps, WithoutAnswer
    <3>2. scope \in Scopes /\ None \notin Scopes
      BY <1>4, <2>2 DEF Fits, ReaderInv, ReaderTypes, R!ReaderAssumption
    <3>3. next \in Seq(Following(thread.memory, f.reply, scope))
      BY <3>1, <3>2, FollowUpsOffered
    <3>4. Following(thread.memory, f.reply, scope)
            \subseteq {item \in Item : Offerable(item, scope, learnt.answered)}
      <4>1. SUFFICES ASSUME NEW item \in Following(thread.memory, f.reply, scope)
                     PROVE  item \in Item /\ Offerable(item, scope, learnt.answered)
        OBVIOUS
      <4>2. /\ item \in Item /\ item.at \in {None, scope}
            /\ item.at # None => /\ thread.memory.answered[R!TopicOf(item.text, item.at)] = 0
                                 /\ R!TopicOf(item.text, item.at) # f.reply.intent
        BY <4>1 DEF Following
      <4>3. R!TopicOf(item.text, item.at) \in Topics
        BY <4>2 DEF Item, R!TopicOf, R!ReaderAssumption
      <4> HIDE DEF learnt, next
      <4> QED
        BY <1>6, <3>2, <4>2, <4>3 DEF Offerable
    <3> HIDE DEF next, learnt
    <3> QED
      BY <3>3, <3>4, SeqMonotonic
  <2> QED
    BY <2>1, <2>2
<1> HIDE DEF next, learnt
<1>8. ReaderTypes'
  BY <1>1, <1>2, <1>6 DEF ReaderInv, ReaderTypes
<1>9. R!AnswerUnderItsScope' /\ RepliesFit'
  BY <1>5 DEF R!AnswerUnderItsScope, RepliesFit
<1>10. FollowUpsFit'
  BY <1>1, <1>2, <1>7 DEF FollowUpsFit
<1>11. PICK T : thread.turns \in Seq(T)
  BY DEF ReaderInv, HookInv, ThreadInv, IsThread
<1> DEFINE last == Len(thread.turns) + 1
<1>12. /\ Len(thread.turns) \in Nat /\ Len(thread'.turns) = last
       /\ \A i \in 1..Len(thread.turns) : thread'.turns[i] = thread.turns[i]
       /\ thread'.turns[last] = e
  BY <1>2, <1>11, Appended
<1>13. \A i \in R!Answers' :
         \/ i \in R!Answers /\ thread'.turns[i] = thread.turns[i] /\ i < last
         \/ i = last /\ thread'.turns[i].reply = f.reply /\ f.reply.kind \in {"answer", "repeat"}
  BY <1>3, <1>12 DEF R!Answers
<1>14. AnswersAreCounted'
  <2>1. SUFFICES ASSUME NEW i \in R!Answers'
                 PROVE  /\ thread'.turns[i].reply.intent \in Topics
                        /\ thread'.memory.answered[thread'.turns[i].reply.intent] > 0
    BY DEF AnswersAreCounted
  <2>2. CASE i \in R!Answers /\ thread'.turns[i] = thread.turns[i]
    <3>1. /\ thread.turns[i].reply.intent \in Topics
          /\ thread.memory.answered[thread.turns[i].reply.intent] > 0
      BY <2>2 DEF ReaderInv, AnswersAreCounted
    <3>2. thread.memory.answered \in [Topics -> Nat]
      BY DEF ReaderInv, ReaderTypes
    <3> QED
      BY <1>2, <1>6, <2>2, <3>1, <3>2
  <2>3. CASE thread'.turns[i].reply = f.reply /\ f.reply.kind \in {"answer", "repeat"}
    BY <1>2, <1>4, <1>6, <2>3 DEF Fits, Answering
  <2> QED
    BY <1>13, <2>2, <2>3
<1>15. R!NeverColdTwice'
  <2>1. SUFFICES ASSUME NEW i \in R!Answers', NEW j \in R!Answers', i < j,
                        thread'.turns[j].reply.kind = "answer"
                 PROVE  thread'.turns[i].reply.intent # thread'.turns[j].reply.intent
    BY DEF R!NeverColdTwice
  <2>2. i \in R!Answers /\ thread'.turns[i] = thread.turns[i]
    <3>1. j <= last /\ i \in Nat /\ j \in Nat
      BY <1>12 DEF R!Answers
    <3> QED
      BY <1>12, <1>13, <2>1, <3>1
  <2>3. CASE j \in R!Answers /\ thread'.turns[j] = thread.turns[j]
    BY <2>1, <2>2, <2>3 DEF ReaderInv, R!NeverColdTwice
  <2>4. CASE thread'.turns[j].reply = f.reply
    <3>1. thread.memory.answered[f.reply.intent] = 0
      BY <1>4, <2>1, <2>4 DEF Fits
    <3>2. thread.memory.answered[thread.turns[i].reply.intent] > 0
      BY <2>2 DEF ReaderInv, AnswersAreCounted
    <3> QED
      BY <2>2, <2>4, <3>1, <3>2
  <2> QED
    BY <1>13, <2>3, <2>4
<1> QED
  BY <1>8, <1>9, <1>10, <1>14, <1>15 DEF ReaderInv

LEMMA SettleKeepsReader ==
  ASSUME R!ThreadAssumption, R!ReaderAssumption, ReaderInv, HookInv', NEW f \in flights,
         R!ReaderSettle(f)
  PROVE  ReaderInv'
<1>1. CASE f \in R!Live
  BY <1>1, SettleLiveKeepsReader
<1>2. CASE f \notin R!Live
  <2>1. /\ thread' = thread /\ flights' = flights \ {f} /\ aborted' = aborted \ {f.n}
        /\ scope' = scope
    BY <1>2 DEF R!ReaderSettle, R!Settle, R!Live, R!readerVars
  <2>2. R!Live' \subseteq R!Live
    BY <2>1 DEF R!Live, ReaderInv, HookInv, FlightsInv
  <2>3. ReaderTypes' /\ FollowUpsFit'
    BY <2>1 DEF ReaderInv, ReaderTypes, FollowUpsFit
  <2>4. R!AnswerUnderItsScope' /\ RepliesFit'
    BY <2>1, <2>2 DEF ReaderInv, R!AnswerUnderItsScope, RepliesFit
  <2>5. AnswersAreCounted' /\ R!NeverColdTwice'
    BY <2>1, SameAnswers DEF ReaderInv
  <2> QED
    BY <2>3, <2>4, <2>5 DEF ReaderInv
<1> QED
  BY <1>1, <1>2

LEMMA RescopeKeepsReader ==
  ASSUME R!ReaderAssumption, ReaderInv, HookInv', R!Cancel, thread' = R!RetireFollowUps(thread),
         scope' \in Scopes \cup {None}
  PROVE  ReaderInv'
<1>1. /\ thread'.turns = thread.turns /\ thread'.memory = thread.memory
      /\ thread'.followUps = <<>>
  <2>1. thread = [turns |-> thread.turns, memory |-> thread.memory, followUps |-> thread.followUps]
    BY DEF ReaderInv, HookInv, ThreadInv, IsThread
  <2>2. thread' = [turns |-> thread.turns, memory |-> thread.memory, followUps |-> <<>>]
    BY <2>1, Retired DEF R!RetireFollowUps
  <2> QED
    BY <2>2
<1>2. flights' = flights /\ R!Live' = {}
  BY AbandonKeepsFlights DEF R!Cancel, ReaderInv, HookInv, R!Live
<1>3. ReaderTypes' /\ FollowUpsFit'
  BY <1>1, <1>2 DEF ReaderInv, ReaderTypes, FollowUpsFit
<1>4. R!AnswerUnderItsScope' /\ RepliesFit'
  BY <1>2 DEF R!AnswerUnderItsScope, RepliesFit
<1>5. AnswersAreCounted' /\ R!NeverColdTwice'
  BY <1>1, SameAnswers DEF ReaderInv
<1> QED
  BY <1>3, <1>4, <1>5 DEF ReaderInv

LEMMA ChangePageKeepsReader ==
  ASSUME ReaderInv, HookInv', R!ChangePage
  PROVE  ReaderInv'
<1>1. /\ thread'.turns = <<>> /\ thread'.followUps = <<>> /\ thread'.memory = R!FreshMemory
      /\ scope' = None
  BY DEF R!ChangePage, R!Remount, R!FreshThread
<1>2. flights' = flights /\ R!Live' = {}
  BY AbandonKeepsFlights DEF R!ChangePage, R!Remount, ReaderInv, HookInv, R!Live
<1>3. R!Answers' = {}
  BY <1>1 DEF R!Answers
<1>4. ReaderTypes' /\ FollowUpsFit'
  BY <1>1, <1>2 DEF ReaderInv, ReaderTypes, FollowUpsFit, R!FreshMemory
<1>5. /\ R!AnswerUnderItsScope' /\ RepliesFit' /\ AnswersAreCounted' /\ R!NeverColdTwice'
  BY <1>2, <1>3 DEF R!AnswerUnderItsScope, RepliesFit, AnswersAreCounted, R!NeverColdTwice
<1> QED
  BY <1>4, <1>5 DEF ReaderInv

LEMMA StepKeepsReader ==
  ASSUME R!ThreadAssumption, R!ReaderAssumption, ReaderInv, [R!ReaderNext]_R!allVars
  PROVE  ReaderInv'
<1>1. HookInv'
  BY ReaderRunsTheHook, StepKeepsHook DEF ReaderInv
<1>2. ASSUME NEW text \in Questions, R!Submit(text) PROVE ReaderInv'
  BY <1>1, <1>2, AskKeepsReader DEF R!Submit, R!readerVars, ReaderInv, ReaderTypes
<1>3. ASSUME NEW i \in 1..Len(R!FabStarters), R!TapStarter(R!FabStarters[i]) PROVE ReaderInv'
  <2> DEFINE item == R!FabStarters[i]
  <2>1. R!FabStarters = R!Offered(scope)
    BY DEF R!FabStarters
  <2>2. item \in Item /\ item.at \in Scopes
    BY <1>3, <2>1, ItemsOffered DEF R!TapStarter, ReaderInv, ReaderTypes
  <2> HIDE DEF item
  <2>3. item.text \in Questions /\ item.at \in Scopes \cup {None} /\ scope \in Scopes \cup {None}
    BY <2>2 DEF Item, ReaderInv, ReaderTypes
  <2>4. scope' = (IF scope # None THEN scope ELSE item.at)
        /\ R!Ask(item.text, item.text, IF scope # None THEN scope ELSE item.at)
    BY <1>3 DEF R!TapStarter, item
  <2> QED
    BY <1>1, <2>3, <2>4, AskKeepsReader
<1>4. ASSUME NEW i \in 1..Len(thread.followUps), R!TapFollowUp(thread.followUps[i])
      PROVE  ReaderInv'
  <2> DEFINE item == thread.followUps[i]
  <2>1. item \in Item /\ Offerable(item, scope, thread.memory.answered)
    BY ElementOfSeq DEF ReaderInv, FollowUpsFit
  <2>2. R!Ask(item.text, item.text, IF item.at # None THEN item.at ELSE scope)
        /\ scope' = IF item.at # None /\ scope = None THEN item.at ELSE scope
    BY <1>4 DEF R!TapFollowUp
  <2> HIDE DEF item
  <2>3. R!Ask(item.text, item.text, scope) /\ scope' = scope
    BY <2>1, <2>2 DEF Offerable
  <2> QED
    BY <1>1, <2>1, <2>3, AskKeepsReader DEF Item, ReaderInv, ReaderTypes
<1>5. ASSUME NEW s \in Scopes, R!OnScope(s) PROVE ReaderInv'
  BY <1>1, <1>5, RescopeKeepsReader DEF R!OnScope
<1>6. CASE R!ClearScope
  BY <1>1, <1>6, RescopeKeepsReader DEF R!ClearScope
<1>7. CASE R!ChangePage
  BY <1>1, <1>7, ChangePageKeepsReader
<1>8. ASSUME NEW f \in flights,
             R!AnswerHere(f) \/ R!ServiceFails(f) \/ \E source : R!ServiceAnswers(f, source)
      PROVE  ReaderInv'
  BY <1>1, <1>8, AnswerKeepsReader
<1>9. ASSUME NEW f \in flights, R!ReaderSettle(f) PROVE ReaderInv'
  BY <1>1, <1>9, SettleKeepsReader
<1>10. CASE UNCHANGED R!allVars
  BY <1>1, <1>10
  DEF R!allVars, R!readerVars, R!threadVars, ReaderInv, ReaderTypes, R!AnswerUnderItsScope, RepliesFit,
      FollowUpsFit, AnswersAreCounted, R!Answers, R!NeverColdTwice, R!Live
<1> QED
  BY <1>2, <1>3, <1>4, <1>5, <1>6, <1>7, <1>8, <1>9, <1>10 DEF R!ReaderNext

LEMMA ReaderIsRight ==
  ASSUME R!ThreadAssumption, R!ReaderAssumption, ReaderInv
  PROVE  R!QuickRepliesInScope /\ R!NoReOffer
<1> DEFINE X == {item \in Item : Offerable(item, scope, thread.memory.answered)}
<1>1. R!ToSet(thread.followUps) \subseteq X
  <2>1. thread.followUps \in Seq(X)
    BY DEF ReaderInv, FollowUpsFit
  <2> HIDE DEF X
  <2> QED
    BY <2>1 DEF R!ToSet
<1>2. R!QuickRepliesInScope
  BY <1>1 DEF R!QuickRepliesInScope, Offerable
<1>3. ASSUME NEW item \in X, item.at # None, NEW i \in R!Answers
      PROVE  thread.turns[i].reply.intent # R!TopicOf(item.text, item.at)
  BY <1>3 DEF Offerable, ReaderInv, AnswersAreCounted
<1> QED
  BY <1>1, <1>2, <1>3 DEF R!NoReOffer

-----------------------------------------------------------------------------
(* The door: when a reader is handed to a person.                           *)

(* The misses of the memory are those in a row that end the thread.         *)
MissesAreCounted ==
  /\ thread.memory.misses \in Nat
  /\ \A n \in Nat : n = Len(thread.turns) + 1 => (thread.memory.misses > 0 <=> D!AfterMiss(n))

Tells(f) ==
  /\ f.reply.missed <=> (f.reply.kind = "miss")
  /\ f.reply.kind = "miss" => (f.reply.text[3] <=> f.memory.misses + 1 >= 2)

MissesTell == \A f \in R!Live : f.stage = "pausing" => Tells(f)

DoorInv == HookInv /\ MissesAreCounted /\ MissesTell /\ D!HandsOffOnSecondMiss

LEMMA ResolvedTells ==
  ASSUME NEW memory, NEW q, NEW forced, NEW g, g.memory = memory,
         g.reply = D!ResolveLocally(memory, q, forced)
  PROVE  Tells(g)
<1> DEFINE Right(r) == /\ r.missed <=> (r.kind = "miss")
                       /\ r.kind = "miss" => (r.text[3] <=> memory.misses + 1 >= 2)
<1>1. ASSUME NEW kind \in {"drilldown", "clarify", "repeat", "answer"}, NEW t, NEW text, NEW cands,
             NEW second, NEW deepened
      PROVE  Right(D!Reply(kind, t, text, cands, second, deepened))
  BY DEF D!Reply
<1>2. ASSUME NEW t, NEW second
      PROVE  Right(D!AnswerOn(memory, t, second))
  BY <1>1 DEF D!AnswerOn
<1>3. ASSUME NEW near
      PROVE  Right(D!Reply("miss", None, D!MissAnswer(near, D!HandingOff(memory)), near, None, FALSE))
  BY DEF D!Reply, D!MissAnswer, D!HandingOff
<1>4. ASSUME NEW t, NEW score, NEW cands, NEW out
      PROVE  Right(D!Settled(memory, q, forced, t, score, cands, out))
  <2> HIDE DEF Right
  <2> QED
    BY <1>1, <1>2, <1>3 DEF D!Settled
<1>5. ASSUME NEW matched, NEW out
      PROVE  Right(D!Scoring(memory, q, forced, matched, out))
  <2> HIDE DEF Right
  <2> QED
    BY <1>4 DEF D!Scoring
<1>6. Right(D!ResolveLocally(memory, q, forced))
  <2> HIDE DEF Right
  <2> QED
    BY <1>1, <1>5 DEF D!ResolveLocally, D!Resolved
<1> QED
  BY <1>6 DEF Tells

(* What stands before a turn does not change when turns are added after it. *)
LEMMA AfterMissIsBefore ==
  ASSUME NEW n \in Nat, \A i \in 1..n : thread'.turns[i] = thread.turns[i], NEW j \in 1..(n + 1)
  PROVE  D!AfterMiss(j)' <=> D!AfterMiss(j)
<1>1. \A i \in 1..(j - 1) : thread'.turns[i] = thread.turns[i]
  OBVIOUS
<1>2. \A i \in 1..(j - 1) : \A k \in (i + 1)..(j - 1) : thread'.turns[k] = thread.turns[k]
  BY <1>1
<1> QED
  BY <1>1, <1>2 DEF D!AfterMiss

LEMMA SameTurns ==
  ASSUME MissesAreCounted, D!HandsOffOnSecondMiss, HookInv,
         thread'.turns = thread.turns, thread'.memory = thread.memory
  PROVE  MissesAreCounted' /\ D!HandsOffOnSecondMiss'
<1>1. \A j : D!AfterMiss(j)' <=> D!AfterMiss(j)
  BY DEF D!AfterMiss
<1> QED
  BY <1>1 DEF MissesAreCounted, D!HandsOffOnSecondMiss

(* One turn more: a question, or an answer that is or is not a miss.        *)
LEMMA OneTurnMore ==
  ASSUME HookInv, MissesAreCounted, D!HandsOffOnSecondMiss,
         NEW e, thread'.turns = Append(thread.turns, e), thread'.memory.misses \in Nat,
         e.role # "cedar" => thread'.memory.misses = thread.memory.misses,
         e.role = "cedar" => (thread'.memory.misses > 0 <=> e.reply.kind = "miss"),
         (e.role = "cedar" /\ e.reply.kind = "miss") =>
           (e.reply.text[3] <=> thread.memory.misses > 0)
  PROVE  MissesAreCounted' /\ D!HandsOffOnSecondMiss'
<1>1. PICK T : thread.turns \in Seq(T)
  BY DEF HookInv, ThreadInv, IsThread
<1>2. PICK n \in Nat : n = Len(thread.turns)
  BY <1>1
<1>3. /\ Len(thread'.turns) = n + 1
      /\ \A i \in 1..n : thread'.turns[i] = thread.turns[i]
      /\ thread'.turns[n + 1] = e
  BY <1>1, <1>2, Appended
<1>4. \A j \in 1..(n + 1) : D!AfterMiss(j)' <=> D!AfterMiss(j)
  BY <1>3, AfterMissIsBefore
<1>5. thread.memory.misses > 0 <=> D!AfterMiss(n + 1)
  BY <1>2 DEF MissesAreCounted
<1>6. PICK m \in Nat : m = n + 2
  OBVIOUS
<1>7. thread'.memory.misses > 0 <=> D!AfterMiss(m)'
  <2>1. CASE e.role = "cedar"
    <3>1. \A i \in 1..(m - 1) : (\A k \in (i + 1)..(m - 1) : thread'.turns[k].role # "cedar")
                                => i = n + 1
      BY <1>3, <1>6, <2>1
    <3>2. D!AfterMiss(m)' <=> e.reply.kind = "miss"
      <4>1. ASSUME e.reply.kind = "miss" PROVE D!AfterMiss(m)'
        <5>1. PICK i \in 1..(m - 1) : i = n + 1
          BY <1>6
        <5>2. thread'.turns[i].role = "cedar" /\ thread'.turns[i].reply.kind = "miss"
          BY <1>3, <2>1, <4>1, <5>1
        <5>3. \A k \in (i + 1)..(m - 1) : thread'.turns[k].role # "cedar"
          BY <1>6, <5>1
        <5> QED
          BY <5>2, <5>3 DEF D!AfterMiss
      <4>2. ASSUME D!AfterMiss(m)' PROVE e.reply.kind = "miss"
        BY <1>3, <3>1, <4>2 DEF D!AfterMiss
      <4> QED
        BY <4>1, <4>2
    <3> QED
      BY <2>1, <3>2
  <2>2. CASE e.role # "cedar"
    <3>1. D!AfterMiss(m)' <=> D!AfterMiss(n + 1)'
      <4>1. ASSUME NEW i \in 1..(m - 1), thread'.turns[i].role = "cedar",
                   \A k \in (i + 1)..(m - 1) : thread'.turns[k].role # "cedar"
            PROVE  i \in 1..n /\ \A k \in (i + 1)..n : thread'.turns[k].role # "cedar"
        BY <1>3, <1>6, <2>2, <4>1
      <4>2. ASSUME NEW i \in 1..n, \A k \in (i + 1)..n : thread'.turns[k].role # "cedar"
            PROVE  i \in 1..(m - 1) /\ \A k \in (i + 1)..(m - 1) : thread'.turns[k].role # "cedar"
        BY <1>3, <1>6, <2>2, <4>2
      <4>3. (n + 1) - 1 = n
        OBVIOUS
      <4> QED
        BY <4>1, <4>2, <4>3 DEF D!AfterMiss
    <3> QED
      BY <1>4, <1>5, <2>2, <3>1
  <2> QED
    BY <2>1, <2>2
<1>8. MissesAreCounted'
  <2>1. Len(thread'.turns) + 1 = m
    BY <1>3, <1>6
  <2> QED
    BY <1>7, <2>1 DEF MissesAreCounted
<1>9. D!HandsOffOnSecondMiss'
  <2>1. SUFFICES ASSUME NEW j \in 1..(n + 1), thread'.turns[j].role = "cedar",
                        thread'.turns[j].reply.kind = "miss"
                 PROVE  thread'.turns[j].reply.text[3] <=> D!AfterMiss(j)'
    BY <1>3 DEF D!HandsOffOnSecondMiss
  <2>2. CASE j = n + 1
    BY <1>3, <1>4, <1>5, <2>1, <2>2
  <2>3. CASE j \in 1..n
    <3>1. thread.turns[j] = thread'.turns[j]
      BY <1>3, <2>3
    <3> QED
      BY <1>2, <1>4, <2>1, <2>3, <3>1 DEF D!HandsOffOnSecondMiss
  <2>4. j = n + 1 \/ j \in 1..n
    BY <1>2, <2>1
  <2> QED
    BY <2>2, <2>3, <2>4
<1> QED
  BY <1>8, <1>9

LEMMA StepKeepsDoor ==
  ASSUME DoorInv, [D!DoorNext]_(D!doorVars)
  PROVE  DoorInv'
<1>1. HookInv'
  BY DoorRunsTheHook, StepKeepsHook DEF DoorInv
<1>2. ASSUME NEW q, NEW echo, NEW ctx, R!Ask(q, echo, ctx) \/ R!Replace(q, echo, ctx)
      PROVE  DoorInv'
  <2> DEFINE new == [n |-> asks + 1, q |-> q, ctx |-> ctx, memory |-> thread.memory,
                     stage |-> "resolving", reply |-> None]
             e == [role |-> "you", n |-> asks + 1, text |-> echo]
  <2>1. /\ flights' = flights \cup {new}
        /\ aborted' = aborted \cup ({abortRef} \ {0})
        /\ thread' = R!BeginTurn(thread, echo, asks + 1)
    BY <1>2 DEF R!Ask, R!Replace, R!Begin
  <2>2. /\ thread'.turns = Append(thread.turns, e) /\ thread'.memory = thread.memory
    <3>1. thread = [turns |-> thread.turns, memory |-> thread.memory, followUps |-> thread.followUps]
      BY DEF DoorInv, HookInv, ThreadInv, IsThread
    <3>2. R!BeginTurn(thread, echo, asks + 1) =
          [turns |-> Append(thread.turns, e), memory |-> thread.memory, followUps |-> <<>>]
      BY <3>1, TurnBegun
    <3> QED
      BY <2>1, <3>2
  <2>3. new.stage = "resolving" /\ e.role = "you"
    OBVIOUS
  <2> HIDE DEF new, e
  <2>4. MissesTell'
    BY <2>1, <2>3 DEF DoorInv, MissesTell, R!Live, Tells
  <2>5. MissesAreCounted' /\ D!HandsOffOnSecondMiss'
    <3>1. thread'.memory.misses \in Nat
      BY <2>2 DEF DoorInv, MissesAreCounted
    <3> QED
      BY <2>2, <2>3, <3>1, OneTurnMore DEF DoorInv
  <2> QED
    BY <1>1, <2>4, <2>5 DEF DoorInv
<1>3. ASSUME NEW f \in flights, D!Resolve(f)
      PROVE  DoorInv'
  <2> DEFINE r == D!ResolveLocally(f.memory, f.q, f.ctx)
  <2>1. R!Answer(f, r)
    BY <1>3, SameHook DEF D!Resolve
  <2>2. PICK g : g = [n |-> f.n, q |-> f.q, ctx |-> f.ctx, memory |-> f.memory,
                      stage |-> "pausing", reply |-> r]
    OBVIOUS
  <2>3. /\ flights' = (flights \ {f}) \cup (IF f.n \in aborted THEN {} ELSE {g})
        /\ aborted' = aborted \ {f.n} /\ thread' = thread
    <3>1. [f EXCEPT !.stage = "pausing", !.reply = r] = g
      BY <2>2, Answered DEF DoorInv, HookInv, FlightsInv
    <3> QED
      BY <2>1, <3>1 DEF R!Answer
  <2>4. g.memory = f.memory /\ g.reply = D!ResolveLocally(f.memory, f.q, f.ctx)
    BY <2>2
  <2> HIDE DEF r
  <2>5. Tells(g)
    BY <2>4, ResolvedTells
  <2>6. MissesTell'
    <3>1. \A h \in flights' : h = g \/ (h \in flights /\ h.n # f.n)
      BY <2>3 DEF DoorInv, HookInv, FlightsInv
    <3> QED
      BY <2>3, <2>5, <3>1 DEF DoorInv, MissesTell, R!Live
  <2>7. MissesAreCounted' /\ D!HandsOffOnSecondMiss'
    BY <2>3, SameTurns DEF DoorInv
  <2> QED
    BY <1>1, <2>6, <2>7 DEF DoorInv
<1>4. ASSUME NEW f \in flights, NEW audience, NEW followUps, R!Settle(f, audience, followUps)
      PROVE  DoorInv'
  <2>1. flights' = flights \ {f} /\ aborted' = aborted \ {f.n} /\ f.stage = "pausing"
    BY <1>4 DEF R!Settle
  <2>2. R!Live' \subseteq R!Live
    BY <2>1 DEF R!Live, DoorInv, HookInv, FlightsInv
  <2>3. MissesTell'
    BY <2>2 DEF DoorInv, MissesTell
  <2>4. CASE f \notin R!Live
    <3>1. thread' = thread
      BY <1>4, <2>4 DEF R!Settle, R!Live
    <3> QED
      BY <1>1, <2>3, <3>1, SameTurns DEF DoorInv
  <2>5. CASE f \in R!Live
    <3> DEFINE e == [role |-> "cedar", n |-> f.n, reply |-> f.reply]
    <3>1. thread' = R!SettleTurn(thread, f.reply, f.n, audience, followUps)
      BY <1>4, <2>5 DEF R!Settle, R!Live
    <3>2. /\ thread'.turns = Append(thread.turns, e)
          /\ thread'.memory.misses = IF f.reply.missed THEN thread.memory.misses + 1 ELSE 0
      BY <3>1 DEF R!SettleTurn, R!Remember
    <3>3. e.role = "cedar" /\ e.reply = f.reply
      OBVIOUS
    <3>4. Tells(f) /\ f.memory = thread.memory
      BY <2>1, <2>5 DEF DoorInv, HookInv, MissesTell, R!MemoryIsCurrent
    <3> HIDE DEF e
    <3>5. thread.memory.misses \in Nat
      BY DEF DoorInv, MissesAreCounted
    <3>6. /\ thread'.memory.misses \in Nat
          /\ thread'.memory.misses > 0 <=> e.reply.kind = "miss"
          /\ e.reply.kind = "miss" => (e.reply.text[3] <=> thread.memory.misses > 0)
      BY <3>2, <3>3, <3>4, <3>5 DEF Tells
    <3>7. MissesAreCounted' /\ D!HandsOffOnSecondMiss'
      BY <3>2, <3>3, <3>6, OneTurnMore DEF DoorInv
    <3> QED
      BY <1>1, <2>3, <3>7 DEF DoorInv
  <2> QED
    BY <2>4, <2>5
<1>5. CASE R!Cancel /\ UNCHANGED thread
  <2>1. flights' = flights /\ R!Live' = {}
    BY <1>5, AbandonKeepsFlights DEF R!Cancel, DoorInv, HookInv, R!Live
  <2> QED
    BY <1>1, <1>5, <2>1, SameTurns DEF DoorInv, MissesTell
<1>6. CASE R!Remount
  <2>1. /\ thread'.turns = <<>> /\ thread'.memory.misses = 0 /\ R!Live' = {}
    BY <1>6, AbandonKeepsFlights DEF R!Remount, R!FreshThread, R!FreshMemory, DoorInv, HookInv, R!Live
  <2>2. PICK n \in Nat : n = 1
    OBVIOUS
  <2>3. ~D!AfterMiss(n)'
    BY <2>2 DEF D!AfterMiss
  <2>4. MissesAreCounted' /\ D!HandsOffOnSecondMiss'
    BY <2>1, <2>2, <2>3 DEF MissesAreCounted, D!HandsOffOnSecondMiss
  <2> QED
    BY <1>1, <2>1, <2>4 DEF DoorInv, MissesTell
<1>7. CASE UNCHANGED R!threadVars
  <2>1. R!Live' = R!Live /\ thread' = thread
    BY <1>7 DEF R!threadVars, R!Live
  <2> QED
    BY <1>1, <2>1, SameTurns DEF DoorInv, MissesTell
<1> QED
  <2>1. ASSUME NEW q \in DoorQuestions, D!Submit(q) PROVE DoorInv'
    BY <1>2, <2>1, SameHook DEF D!Submit
  <2>2. ASSUME NEW t \in Starters, D!TapStarter(t) PROVE DoorInv'
    BY <1>2, <2>2, SameHook DEF D!TapStarter
  <2>3. ASSUME NEW i, D!TapFollowUp(thread.followUps[i]) PROVE DoorInv'
    BY <1>2, <2>3, SameHook DEF D!TapFollowUp
  <2>4. ASSUME NEW c \in HandedOver, D!AskCollection(c) PROVE DoorInv'
    BY <1>2, <1>5, <2>4, SameHook DEF D!AskCollection
  <2>5. ASSUME NEW f \in flights, D!Resolve(f) \/ D!DoorSettle(f) PROVE DoorInv'
    BY <1>3, <1>4, <2>5, SameHook DEF D!DoorSettle
  <2>6. CASE D!LeaveDoor
    BY <1>6, <2>6, SameHook DEF D!LeaveDoor
  <2>7. CASE D!ToggleOpen \/ UNCHANGED D!doorVars
    BY <1>7, <2>7 DEF D!ToggleOpen, D!doorVars, D!threadVars, R!threadVars
  <2> QED
    BY <2>1, <2>2, <2>3, <2>4, <2>5, <2>6, <2>7 DEF D!DoorNext

LEMMA InitDoor ==
  ASSUME D!DoorInit
  PROVE  DoorInv
<1>1. R!ThreadInit
  BY SameHook DEF D!DoorInit
<1>2. /\ thread.turns = <<>> /\ thread.memory.misses = 0 /\ flights = {}
  BY <1>1 DEF R!ThreadInit, R!FreshThread, R!FreshMemory
<1>3. PICK n \in Nat : n = 1
  OBVIOUS
<1>4. ~D!AfterMiss(n)
  BY <1>3 DEF D!AfterMiss
<1>5. MissesAreCounted /\ D!HandsOffOnSecondMiss
  BY <1>2, <1>3, <1>4 DEF MissesAreCounted, D!HandsOffOnSecondMiss
<1> QED
  BY <1>1, <1>2, <1>5, InitHook DEF DoorInv, MissesTell, R!Live

-----------------------------------------------------------------------------
(* The door: what the bank answers and what is offered under an answer.     *)

(* The elements of a sequence that are in a set form a sequence of them.    *)
IsAmong(f, n, s, X) ==
  f = [i \in 0..n |-> IF i = 0 THEN <<>>
                      ELSE IF s[i] \in X THEN Append(f[i - 1], s[i]) ELSE f[i - 1]]

LEMMA AmongExists ==
  ASSUME NEW s, NEW X
  PROVE  \A n \in Nat : \E f : IsAmong(f, n, s, X)
<1> DEFINE Without == {n \in Nat : ~\E f : IsAmong(f, n, s, X)}
           Next1(f, n) == IF s[n] \in X THEN Append(f[n - 1], s[n]) ELSE f[n - 1]
<1>1. SUFFICES ASSUME Without # {} PROVE FALSE
  OBVIOUS
<1>2. PICK n \in Without : \A m \in Without : n <= m
  BY <1>1, Smallest
<1>3. CASE n = 0
  <2>1. IsAmong([i \in 0..0 |-> <<>>], 0, s, X)
    BY DEF IsAmong
  <2> QED
    BY <1>2, <1>3, <2>1
<1>4. CASE n # 0
  <2>1. n \in Nat /\ n - 1 \in Nat /\ ~(n <= n - 1)
    BY <1>2, <1>4
  <2>2. PICK f : IsAmong(f, n - 1, s, X)
    BY <1>2, <2>1
  <2> DEFINE g == [i \in 0..n |-> IF i = n THEN Next1(f, n) ELSE f[i]]
  <2>3. \A i \in 0..n : g[i] = IF i = 0 THEN <<>> ELSE Next1(g, i)
    <3>1. TAKE i \in 0..n
    <3>2. CASE i = n
      <4>1. g[n] = Next1(f, n) /\ g[n - 1] = f[n - 1]
        BY <1>4, <2>1
      <4> HIDE DEF g
      <4> QED
        BY <1>4, <3>2, <4>1
    <3>3. CASE i # n
      <4>1. i \in 0..(n - 1) /\ (i # 0 => i - 1 \in 0..(n - 1))
        BY <2>1, <3>3
      <4>2. f[i] = IF i = 0 THEN <<>> ELSE Next1(f, i)
        BY <2>2, <4>1 DEF IsAmong
      <4>3. g[i] = f[i] /\ (i # 0 => g[i - 1] = f[i - 1])
        BY <2>1, <3>3, <4>1
      <4> HIDE DEF g
      <4> QED
        BY <4>2, <4>3
    <3> QED
      BY <3>2, <3>3
  <2>4. g = [i \in 0..n |-> g[i]]
    OBVIOUS
  <2>5. IsAmong(g, n, s, X)
    <3> HIDE DEF g
    <3> QED
      BY <2>3, <2>4 DEF IsAmong
  <2> QED
    BY <1>2, <2>5
<1> QED
  BY <1>3, <1>4

LEMMA AmongIsOf ==
  ASSUME NEW s, NEW X, Len(s) \in Nat
  PROVE  D!Among(s, X) \in Seq(X)
<1>1. PICK f : IsAmong(f, Len(s), s, X)
  BY AmongExists
<1>2. PICK g : IsAmong(g, Len(s), s, X) /\ D!Among(s, X) = g[Len(s)]
  BY <1>1 DEF D!Among, IsAmong
<1> DEFINE Off == {i \in 0..Len(s) : g[i] \notin Seq(X)}
<1>3. Off = {}
  <2>1. SUFFICES ASSUME Off # {} PROVE FALSE
    OBVIOUS
  <2>2. Off \in SUBSET Nat
    OBVIOUS
  <2>3. PICK i \in Off : \A m \in Off : i <= m
    BY <2>1, <2>2, Smallest
  <2>4. CASE i = 0
    BY <1>2, <2>3, <2>4 DEF IsAmong
  <2>5. CASE i # 0
    <3>1. i \in 1..Len(s) /\ i - 1 \in 0..Len(s) /\ ~(i <= i - 1)
      BY <2>3, <2>5
    <3>2. g[i - 1] \in Seq(X)
      BY <2>3, <3>1
    <3>3. g[i] = IF s[i] \in X THEN Append(g[i - 1], s[i]) ELSE g[i - 1]
      BY <1>2, <2>5, <3>1 DEF IsAmong
    <3>4. g[i] \in Seq(X)
      BY <3>2, <3>3
    <3> QED
      BY <2>3, <3>4
  <2> QED
    BY <2>4, <2>5
<1> QED
  BY <1>2, <1>3

LEMMA CappedIsOf ==
  ASSUME NEW X, NEW s \in Seq(X)
  PROVE  D!Capped(s) \in Seq(X) /\ Len(D!Capped(s)) \in 0..Len(s)
<1>1. PICK n \in 0..Len(s) : n = IF Len(s) < 3 THEN Len(s) ELSE 3
  OBVIOUS
<1>2. D!Capped(s) = SubSeq(s, 1, n)
  BY <1>1 DEF D!Capped, D!MaxFollowUps
<1> QED
  BY <1>2

(* What the matcher finds is an intent of the bank.                         *)
LEMMA IntentsOfTheBank ==
  ASSUME D!BankAssumption
  PROVE  D!Intents \subseteq Topics /\ Bank \in Seq(D!Intents)
<1>1. Bank \in Seq(Topics) /\ D!Intents = {Bank[i] : i \in DOMAIN Bank}
  BY DEF D!BankAssumption, D!Intents, D!ToSet
<1> QED
  BY <1>1

LEMMA Matched ==
  ASSUME D!BankAssumption, NEW q, NEW out
  PROVE  /\ D!TopMatches(q, out) \in Seq(D!Intents)
         /\ D!Classify(q, out) \in D!Intents \cup {None}
<1>1. Len(Bank) \in Nat
  BY IntentsOfTheBank
<1>2. D!TopMatches(q, out) \in Seq({t \in D!Scored(q, out) : D!Score(t, q) = D!TopScore(q, out)})
  BY <1>1, AmongIsOf DEF D!TopMatches
<1>3. {t \in D!Scored(q, out) : D!Score(t, q) = D!TopScore(q, out)} \subseteq D!Intents
  BY DEF D!Scored
<1> DEFINE tops == {t \in D!Scored(q, out) : D!Score(t, q) = D!TopScore(q, out)}
<1> HIDE DEF tops
<1>4. D!TopMatches(q, out) \in Seq(D!Intents)
  BY <1>2, <1>3 DEF tops
<1>5. Head(Append(D!TopMatches(q, out), None)) \in D!Intents \cup {None}
  <2>1. PICK s \in Seq(D!Intents) : s = D!TopMatches(q, out)
    BY <1>4
  <2>2. Head(Append(s, None)) \in D!Intents \cup {None}
    <3>1. Append(s, None) \in Seq(D!Intents \cup {None}) /\ Append(s, None) # <<>>
      OBVIOUS
    <3> QED
      BY <3>1
  <2> QED
    BY <2>1, <2>2
<1> QED
  BY <1>4, <1>5 DEF D!Classify

ChipOrAsked == D!Asked \cup {D!ChipText(t) : t \in D!Intents}

LEMMA Rescued ==
  ASSUME D!BankAssumption, NEW q \in ChipOrAsked
  PROVE  D!Fuzzy(q) \in D!Intents \cup {None}
<1> DEFINE Hit == [intent : D!Intents, near : BOOLEAN, lengthGap : Nat, score : Nat]
           good == {i \in 1..Len(q.hits) : q.hits[i].near /\ q.hits[i].lengthGap <= 2}
           best == {i \in good : \A j \in good : q.hits[i].score <= q.hits[j].score}
<1>1. q.hits \in Seq(Hit)
  <2>1. CASE q \in {D!ChipText(t) : t \in D!Intents}
    <3>1. q.hits = <<>>
      BY <2>1 DEF D!ChipText
    <3> HIDE DEF Hit
    <3> QED
      BY <3>1
  <2>2. CASE q \in D!Asked
    BY <2>2 DEF D!BankAssumption
  <2> QED
    BY <2>1, <2>2 DEF ChipOrAsked
<1>2. best \subseteq 1..Len(q.hits) /\ Len(q.hits) \in Nat
  BY <1>1
<1>3. D!Fuzzy(q) = IF best = {} THEN None ELSE q.hits[D!Min(best)].intent
  BY DEF D!Fuzzy
<1>4. best # {} => D!Min(best) \in 1..Len(q.hits)
  <2> HIDE DEF best
  <2>1. SUFFICES ASSUME best # {} PROVE D!Min(best) \in best
    BY <1>2
  <2>2. best \in SUBSET Nat
    BY <1>2
  <2>3. \E n \in best : \A m \in best : n <= m
    BY <2>1, <2>2, Smallest
  <2> QED
    BY <2>3 DEF D!Min
<1>5. \A i \in 1..Len(q.hits) : q.hits[i].intent \in D!Intents
  <2>1. \A h \in Hit : h.intent \in D!Intents
    OBVIOUS
  <2> HIDE DEF Hit
  <2> QED
    BY <1>1, <2>1
<1> QED
  BY <1>3, <1>4, <1>5

LEMMA NearestAreIntents ==
  ASSUME D!BankAssumption, NEW q \in ChipOrAsked
  PROVE  D!Nearest(q) \in Seq(D!Intents)
<1> DEFINE k == IF Len(q.near) < 6 THEN Len(q.near) ELSE 6
           first == [i \in 1..k |-> IF \E j \in 1..(i - 1) : q.near[j] = q.near[i] THEN None ELSE q.near[i]]
           found == D!Among(first, D!Intents)
<1>1. k \in Nat
  BY DEF ChipOrAsked, D!BankAssumption, D!ChipText
<1>2. Len(first) = k
  BY <1>1
<1>3. found \in Seq(D!Intents)
  BY <1>1, <1>2, AmongIsOf
<1>4. D!Nearest(q) = SubSeq(found, 1, IF Len(found) < 3 THEN Len(found) ELSE 3)
  BY DEF D!Nearest
<1> HIDE DEF found
<1>5. PICK n \in 0..Len(found) : n = IF Len(found) < 3 THEN Len(found) ELSE 3
  BY <1>3
<1> QED
  BY <1>3, <1>4, <1>5


(* Pushing quick replies: each is an intent of the bank that is neither the *)
(* answer's own nor answered before.                                        *)
IsPushing(f, n, memory, reply, out, ts) ==
  f = [i \in 0..n |-> IF i = 0 THEN out ELSE D!Push(memory, reply, f[i - 1], ts[i])]

LEMMA PushingExists ==
  ASSUME NEW memory, NEW reply, NEW out, NEW ts
  PROVE  \A n \in Nat : \E f : IsPushing(f, n, memory, reply, out, ts)
<1> DEFINE Without == {n \in Nat : ~\E f : IsPushing(f, n, memory, reply, out, ts)}
<1>1. SUFFICES ASSUME Without # {} PROVE FALSE
  OBVIOUS
<1>2. PICK n \in Without : \A m \in Without : n <= m
  BY <1>1, Smallest
<1>3. CASE n = 0
  <2>1. IsPushing([i \in 0..0 |-> out], 0, memory, reply, out, ts)
    BY DEF IsPushing
  <2> QED
    BY <1>2, <1>3, <2>1
<1>4. CASE n # 0
  <2>1. n \in Nat /\ n - 1 \in Nat /\ ~(n <= n - 1)
    BY <1>2, <1>4
  <2>2. PICK f : IsPushing(f, n - 1, memory, reply, out, ts)
    BY <1>2, <2>1
  <2> DEFINE g == [i \in 0..n |-> IF i = n THEN D!Push(memory, reply, f[n - 1], ts[n]) ELSE f[i]]
  <2>3. \A i \in 0..n : g[i] = IF i = 0 THEN out ELSE D!Push(memory, reply, g[i - 1], ts[i])
    <3>1. TAKE i \in 0..n
    <3>2. CASE i = n
      <4>1. g[n] = D!Push(memory, reply, f[n - 1], ts[n]) /\ g[n - 1] = f[n - 1]
        BY <1>4, <2>1
      <4> HIDE DEF g
      <4> QED
        BY <1>4, <3>2, <4>1
    <3>3. CASE i # n
      <4>1. i \in 0..(n - 1) /\ (i # 0 => i - 1 \in 0..(n - 1))
        BY <2>1, <3>3
      <4>2. f[i] = IF i = 0 THEN out ELSE D!Push(memory, reply, f[i - 1], ts[i])
        BY <2>2, <4>1 DEF IsPushing
      <4>3. g[i] = f[i] /\ (i # 0 => g[i - 1] = f[i - 1])
        BY <2>1, <3>3, <4>1
      <4> HIDE DEF g
      <4> QED
        BY <4>2, <4>3
    <3> QED
      BY <3>2, <3>3
  <2>4. g = [i \in 0..n |-> g[i]]
    OBVIOUS
  <2>5. IsPushing(g, n, memory, reply, out, ts)
    <3> HIDE DEF g
    <3> QED
      BY <2>3, <2>4 DEF IsPushing
  <2> QED
    BY <1>2, <2>5
<1> QED
  BY <1>3, <1>4

LEMMA PushedIsOf ==
  ASSUME NEW memory, NEW reply, NEW X, NEW out \in Seq(X), NEW ts, Len(ts) \in Nat,
         \A t \in D!Intents : t # reply.intent /\ ~(memory.answered[t] > 0) => D!Chip(t) \in X
  PROVE  D!PushAll(memory, reply, out, ts) \in Seq(X)
<1>1. PICK f : IsPushing(f, Len(ts), memory, reply, out, ts)
  BY PushingExists
<1>2. PICK g : /\ IsPushing(g, Len(ts), memory, reply, out, ts)
               /\ D!PushAll(memory, reply, out, ts) = g[Len(ts)]
  BY <1>1 DEF D!PushAll, IsPushing
<1> DEFINE Off == {i \in 0..Len(ts) : g[i] \notin Seq(X)}
<1>3. Off = {}
  <2>1. SUFFICES ASSUME Off # {} PROVE FALSE
    OBVIOUS
  <2>2. Off \in SUBSET Nat
    OBVIOUS
  <2>3. PICK i \in Off : \A m \in Off : i <= m
    BY <2>1, <2>2, Smallest
  <2>4. CASE i = 0
    BY <1>2, <2>3, <2>4 DEF IsPushing
  <2>5. CASE i # 0
    <3>1. i \in 1..Len(ts) /\ i - 1 \in 0..Len(ts) /\ ~(i <= i - 1)
      BY <2>3, <2>5
    <3>2. g[i - 1] \in Seq(X)
      BY <2>3, <3>1
    <3>3. g[i] = D!Push(memory, reply, g[i - 1], ts[i])
      BY <1>2, <2>5, <3>1 DEF IsPushing
    <3>4. g[i] \in Seq(X)
      <4>1. PICK s \in Seq(X) : s = g[i - 1]
        BY <3>2
      <4>2. D!Push(memory, reply, s, ts[i]) \in Seq(X)
        BY DEF D!Push
      <4> QED
        BY <3>3, <4>1, <4>2
    <3> QED
      BY <2>3, <3>4
  <2> QED
    BY <2>4, <2>5
<1> QED
  BY <1>2, <1>3

(* What an answer of the bank is about, by its kind.                        *)
Says(r, memory) ==
  /\ r.kind \in {"drilldown", "clarify", "miss", "repeat", "answer"}
  /\ r.kind \in {"clarify", "miss"} => r.intent = None
  /\ r.kind \in {"repeat", "answer"} => r.intent \in D!Intents
  /\ r.kind = "drilldown" => r.intent = memory.prior /\ r.intent \in D!Intents
  /\ r.text[1] = "deep" => r.kind = "drilldown" /\ r.text[2] = r.intent
  /\ r.cands \in Seq(D!Intents)

LEMMA ResolvedSays ==
  ASSUME D!BankAssumption, NEW memory, memory.prior \in D!Intents \cup {None},
         NEW q \in ChipOrAsked, NEW forced \in D!Intents \cup {None}
  PROVE  Says(D!ResolveLocally(memory, q, forced), memory)
<1>1. ASSUME NEW t \in D!Intents, NEW second
      PROVE  Says(D!AnswerOn(memory, t, second), memory)
  <2>1. PICK r : r = D!AnswerOn(memory, t, second)
    OBVIOUS
  <2>2. r.kind \in {"repeat", "answer"} /\ r.intent = t /\ r.cands = <<>>
    BY <2>1 DEF D!AnswerOn, D!Reply
  <2>3. \A times, deepSeen : D!RepeatAnswer(t, times, deepSeen)[1] # "deep"
    BY DEF D!RepeatAnswer
  <2>4. r.text[1] # "deep"
    BY <2>1, <2>3 DEF D!AnswerOn, D!Reply
  <2>5. Says(r, memory)
    BY <2>2, <2>4 DEF Says
  <2> QED
    BY <2>1, <2>5
<1>2. Says(D!Reply("miss", None, D!MissAnswer(D!Nearest(q), D!HandingOff(memory)), D!Nearest(q), None, FALSE), memory)
  BY NearestAreIntents DEF Says, D!Reply, D!MissAnswer
<1>3. ASSUME NEW cands \in Seq(D!Intents)
      PROVE  Says(D!Reply("clarify", None, <<"clarify", D!Capped(cands), 0>>, cands, None, FALSE), memory)
  BY DEF Says, D!Reply
<1>4. ASSUME memory.prior # None
      PROVE  Says(D!Reply("drilldown", memory.prior, <<"deep", memory.prior, 0>>, <<>>, None, FALSE), memory)
  BY <1>4 DEF Says, D!Reply
<1>5. ASSUME NEW t \in D!Intents \cup {None}, NEW score, NEW cands \in Seq(D!Intents), NEW out
      PROVE  Says(D!Settled(memory, q, forced, t, score, cands, out), memory)
  BY <1>1, <1>2, <1>3 DEF D!Settled
<1>6. ASSUME NEW matched \in D!Intents \cup {None}, NEW out
      PROVE  Says(D!Scoring(memory, q, forced, matched, out), memory)
  <2>1. D!TopicOf(q, forced, matched, D!TopScore(q, out)) \in D!Intents \cup {None}
    BY Rescued DEF D!TopicOf
  <2> DEFINE chips == {t \in D!Intents : Intent[t].chip}
             cands == D!Among(D!TopMatches(q, out), chips)
  <2>2. cands \in Seq(D!Intents)
    <3>1. cands \in Seq(chips)
      BY Matched, AmongIsOf
    <3>2. chips \subseteq D!Intents
      OBVIOUS
    <3> HIDE DEF chips, cands
    <3> QED
      BY <3>1, <3>2
  <2>3. D!Scoring(memory, q, forced, matched, out) =
        D!Settled(memory, q, forced, D!TopicOf(q, forced, matched, D!TopScore(q, out)),
                  D!TopScore(q, out), cands, out)
    BY DEF D!Scoring
  <2> HIDE DEF cands
  <2> QED
    BY <1>5, <2>1, <2>2, <2>3
<1>7. ASSUME NEW first \in D!Intents \cup {None}
      PROVE  Says(D!Resolved(memory, q, forced, first), memory)
  <2>1. D!DrillsDown(memory, q, first) => memory.prior # None
    BY DEF D!DrillsDown
  <2>2. D!Classify(q, DrillIds \cup AffirmIds) \in D!Intents \cup {None}
    BY Matched
  <2> QED
    BY <1>4, <1>6, <2>1, <2>2 DEF D!Resolved
<1> QED
  BY <1>7, Matched DEF D!ResolveLocally

(* The memory: how it grows, and what the quick replies are chosen with.    *)
IsMemory(m) ==
  /\ m = [prior |-> m.prior, answered |-> m.answered, shown |-> m.shown, misses |-> m.misses,
          audience |-> m.audience]
  /\ m.prior \in D!Intents \cup {None} /\ m.answered \in [Topics -> Nat]

LEMMA Biases ==
  ASSUME NEW m, IsMemory(m), NEW audience
  PROVE  /\ D!Biased(m, audience).answered = m.answered
         /\ D!Biased(m, audience).shown = m.shown
<1>1. PICK p, n, h, k, a : m = [prior |-> p, answered |-> n, shown |-> h, misses |-> k, audience |-> a]
  BY DEF IsMemory
<1> QED
  BY <1>1 DEF D!Biased

LEMMA Learnt ==
  ASSUME R!ThreadAssumption, D!BankAssumption, NEW m, IsMemory(m), NEW r, Says(r, m), NEW audience,
         NEW k, k = R!Remember(m, r, audience)
  PROVE  /\ IsMemory(k)
         /\ \A t \in Topics : /\ k.answered[t] >= m.answered[t]
                              /\ t # r.intent => k.answered[t] = m.answered[t]
         /\ r.kind \in {"repeat", "answer"} => k.answered[r.intent] > 0
         /\ \A t \in m.shown : t \in k.shown
         /\ r.kind = "drilldown" => r.intent \in k.shown
         /\ D!OffersMore(m, r) => k.prior = r.intent /\ r.intent \notin k.shown
<1> DEFINE about  == r.intent # None
           counts == about /\ r.kind # "drilldown"
           deep   == about /\ (r.kind = "drilldown" \/ r.deepened)
<1>1. /\ k.prior = IF about /\ r.kind # "clarify" /\ r.intent \notin NonTopics THEN r.intent ELSE m.prior
      /\ k.answered = IF counts THEN [m.answered EXCEPT ![r.intent] = @ + 1] ELSE m.answered
      /\ k.shown = IF deep THEN m.shown \cup {r.intent} ELSE m.shown
      /\ k = [prior |-> k.prior, answered |-> k.answered, shown |-> k.shown, misses |-> k.misses,
              audience |-> k.audience]
  BY DEF R!Remember
<1>2. D!Intents \subseteq Topics /\ None \notin D!Intents
  BY IntentsOfTheBank DEF R!ThreadAssumption
<1>3. about => r.intent \in D!Intents
  BY DEF Says
<1>4. r.kind \in {"repeat", "answer"} => counts
  BY <1>2 DEF Says
<1>5. r.kind = "drilldown" => deep
  BY <1>2 DEF Says
<1>6. D!OffersMore(m, r) => about /\ r.kind # "clarify" /\ r.intent \notin NonTopics /\ ~deep /\ r.intent \notin m.shown
  BY <1>3 DEF D!OffersMore, Says, D!BankAssumption
<1>7. IsMemory(k)
  BY <1>1, <1>2, <1>3 DEF IsMemory
<1>8. \A t \in Topics : /\ k.answered[t] >= m.answered[t]
                        /\ t # r.intent => k.answered[t] = m.answered[t]
  BY <1>1, <1>2, <1>3 DEF IsMemory
<1>9. r.kind \in {"repeat", "answer"} => k.answered[r.intent] > 0
  BY <1>1, <1>2, <1>3, <1>4 DEF IsMemory
<1> QED
  BY <1>1, <1>5, <1>6, <1>7, <1>8, <1>9

(* What may be offered under an answer.                                     *)
Fresh(m, r) == {t \in D!Intents : r.kind # "clarify" => t # r.intent /\ ~(m.answered[t] > 0)}

OfferedUnder(m, r) ==
  {D!Chip(t) : t \in Fresh(m, r)} \cup {c \in {D!TellMoreChip} : D!OffersMore(m, r)}

LEMMA OfferedIsFresh ==
  ASSUME D!BankAssumption, R!ThreadAssumption, NEW m, IsMemory(m), NEW r, Says(r, m), NEW audience
  PROVE  D!FollowUpsFor(D!Biased(m, audience), r) \in Seq(OfferedUnder(m, r))
<1> DEFINE X == OfferedUnder(m, r)
           b == D!Biased(m, audience)
           second  == D!PushAll(b, r, <<>>, IF r.second = None THEN <<>> ELSE <<r.second>>)
           more    == IF D!OffersMore(b, r) THEN Append(second, D!TellMoreChip) ELSE second
           route   == IF b.audience = None THEN <<>> ELSE <<AudienceRoute[b.audience]>>
           related == IF r.intent # None /\ Intent[r.intent].next # <<>> THEN Intent[r.intent].next
                      ELSE DefaultFollowUps
<1>1. b.answered = m.answered /\ (D!OffersMore(b, r) <=> D!OffersMore(m, r))
  BY Biases DEF D!OffersMore
<1>2. \A t \in D!Intents : t # r.intent /\ ~(b.answered[t] > 0) => D!Chip(t) \in X
  BY <1>1 DEF OfferedUnder, Fresh
<1>3. D!OffersMore(b, r) => D!TellMoreChip \in X
  BY <1>1 DEF OfferedUnder
<1>4. ASSUME NEW out \in Seq(X), NEW ts, Len(ts) \in Nat
      PROVE  D!PushAll(b, r, out, ts) \in Seq(X)
  BY <1>2, <1>4, PushedIsOf
<1>5. /\ Len(DefaultFollowUps) \in Nat /\ Len(r.cands) \in Nat /\ Len(related) \in Nat
      /\ Len(route) \in Nat /\ Len(IF r.second = None THEN <<>> ELSE <<r.second>>) \in Nat
  <2>1. DefaultFollowUps \in Seq(Topics) /\ r.cands \in Seq(D!Intents)
    BY DEF D!BankAssumption, Says
  <2>2. r.intent # None => Intent[r.intent].next \in Seq(Topics)
    BY DEF D!BankAssumption, Says
  <2> QED
    BY <2>1, <2>2
<1>6. CASE r.kind = "miss"
  <2>1. D!FollowUpsFor(b, r) = D!Capped(D!PushAll(b, r, D!PushAll(b, r, <<>>, r.cands), DefaultFollowUps))
    BY <1>6 DEF D!FollowUpsFor
  <2>2. D!PushAll(b, r, D!PushAll(b, r, <<>>, r.cands), DefaultFollowUps) \in Seq(X)
    <3> HIDE DEF X, b
    <3>1. <<>> \in Seq(X)
      OBVIOUS
    <3>2. PICK out \in Seq(X) : out = D!PushAll(b, r, <<>>, r.cands)
      BY <1>4, <1>5, <3>1
    <3> QED
      BY <1>4, <1>5, <3>2
  <2> HIDE DEF X, b
  <2> QED
    BY <2>1, <2>2, CappedIsOf DEF X, b
<1>7. CASE r.kind = "clarify"
  <2> DEFINE n == Len(D!Capped(r.cands))
  <2>1. D!FollowUpsFor(b, r) = [i \in 1..n |-> D!Chip(r.cands[i])]
    BY <1>7 DEF D!FollowUpsFor
  <2>2. n \in 0..Len(r.cands) /\ r.cands \in Seq(D!Intents)
    BY CappedIsOf DEF Says
  <2>3. \A i \in 1..n : D!Chip(r.cands[i]) \in X
    <3> HIDE DEF n
    <3>1. \A i \in 1..n : r.cands[i] \in D!Intents
      BY <2>2
    <3> QED
      BY <1>7, <3>1 DEF OfferedUnder, Fresh
  <2> HIDE DEF n, X, b
  <2>4. [i \in 1..n |-> D!Chip(r.cands[i])] \in Seq(X)
    BY <2>2, <2>3
  <2> QED
    BY <2>1, <2>4 DEF X, b
<1>8. CASE r.kind \notin {"miss", "clarify"}
  <2>1. D!FollowUpsFor(b, r) = D!Capped(D!PushAll(b, r, D!PushAll(b, r, more, route), related))
    BY <1>8 DEF D!FollowUpsFor
  <2>2. second \in Seq(X)
    <3> HIDE DEF X, b
    <3>1. <<>> \in Seq(X)
      OBVIOUS
    <3> QED
      BY <1>4, <1>5, <3>1
  <2>3. more \in Seq(X)
    <3> HIDE DEF X, b, second
    <3> QED
      BY <1>3, <2>2
  <2>4. D!PushAll(b, r, D!PushAll(b, r, more, route), related) \in Seq(X)
    <3> HIDE DEF X, b, more, route, related
    <3>1. PICK out \in Seq(X) : out = D!PushAll(b, r, more, route)
      BY <1>4, <1>5, <2>3
    <3> QED
      BY <1>4, <1>5, <3>1
  <2> HIDE DEF X, b, more, route, related
  <2> QED
    BY <2>1, <2>4, CappedIsOf DEF X, b
<1> QED
  BY <1>6, <1>7, <1>8


-----------------------------------------------------------------------------
(* The door's thread: what its memory and its quick replies are about.      *)

DoorAsks == \A f \in flights : f.q \in ChipOrAsked /\ f.ctx \in D!Intents \cup {None}

RepliesSay == \A f \in R!Live : f.stage = "pausing" => Says(f.reply, f.memory)

(* The memory knows each answer of the thread, and each deeper text.        *)
Counted(r, m) ==
  /\ r.kind \in {"repeat", "answer"} => r.intent \in D!Intents /\ m.answered[r.intent] > 0
  /\ r.text[1] = "deep" => r.text[2] \in m.shown

ThreadIsCounted ==
  \A i \in 1..Len(thread.turns) :
    thread.turns[i].role = "cedar" => Counted(thread.turns[i].reply, thread.memory)

(* Quick replies stand under an answer, which ends the thread.              *)
Stands(c, n) ==
  /\ n > 0 /\ thread.turns[n].role = "cedar"
  /\ c.tell => /\ thread.memory.prior # None /\ thread.memory.prior = thread.turns[n].reply.intent
               /\ Intent[thread.memory.prior].deep /\ thread.memory.prior \notin thread.memory.shown
  /\ ~c.tell /\ thread.turns[n].reply.kind # "clarify" => thread.memory.answered[c.intent] = 0

OffersStand ==
  /\ thread.followUps \in Seq({D!Chip(t) : t \in D!Intents} \cup {D!TellMoreChip})
  /\ \A k \in 1..Len(thread.followUps) : Stands(thread.followUps[k], Len(thread.turns))

BankInv ==
  HookInv /\ IsMemory(thread.memory) /\ DoorAsks /\ RepliesSay /\ ThreadIsCounted /\ OffersStand

LEMMA InitBank ==
  ASSUME D!BankAssumption, D!DoorInit
  PROVE  BankInv
<1>1. R!ThreadInit
  BY SameHook DEF D!DoorInit
<1>2. /\ thread.turns = <<>> /\ thread.memory = R!FreshMemory /\ thread.followUps = <<>> /\ flights = {}
  BY <1>1 DEF R!ThreadInit, R!FreshThread
<1>3. IsMemory(thread.memory)
  BY <1>2 DEF IsMemory, R!FreshMemory
<1> QED
  BY <1>1, <1>2, <1>3, InitHook DEF BankInv, DoorAsks, RepliesSay, ThreadIsCounted, OffersStand, R!Live

(* Where the thread stays as it is and no ask is new.                       *)
LEMMA RestKeepsBank ==
  ASSUME BankInv, HookInv', thread' = thread, flights' \subseteq flights, R!Live' \subseteq R!Live
  PROVE  BankInv'
<1>1. DoorAsks' /\ RepliesSay'
  BY DEF BankInv, DoorAsks, RepliesSay
<1>2. IsMemory(thread.memory)' /\ ThreadIsCounted' /\ OffersStand'
  BY DEF BankInv, ThreadIsCounted, OffersStand, Stands
<1> QED
  BY <1>1, <1>2 DEF BankInv

LEMMA AskKeepsBank ==
  ASSUME BankInv, HookInv', NEW q \in ChipOrAsked, NEW echo, NEW ctx \in D!Intents \cup {None},
         R!Ask(q, echo, ctx) \/ R!Replace(q, echo, ctx)
  PROVE  BankInv'
<1> DEFINE new == [n |-> asks + 1, q |-> q, ctx |-> ctx, memory |-> thread.memory,
                   stage |-> "resolving", reply |-> None]
           e == [role |-> "you", n |-> asks + 1, text |-> echo]
<1>1. /\ flights' = flights \cup {new}
      /\ aborted' = aborted \cup ({abortRef} \ {0})
      /\ thread' = R!BeginTurn(thread, echo, asks + 1)
  BY DEF R!Ask, R!Replace, R!Begin
<1>2. /\ thread'.turns = Append(thread.turns, e) /\ thread'.memory = thread.memory
      /\ thread'.followUps = <<>>
  <2>1. thread = [turns |-> thread.turns, memory |-> thread.memory, followUps |-> thread.followUps]
    BY DEF BankInv, HookInv, ThreadInv, IsThread
  <2>2. R!BeginTurn(thread, echo, asks + 1) =
        [turns |-> Append(thread.turns, e), memory |-> thread.memory, followUps |-> <<>>]
    BY <2>1, TurnBegun
  <2> QED
    BY <1>1, <2>2
<1>3. new.stage = "resolving" /\ new.q = q /\ new.ctx = ctx /\ e.role = "you"
  OBVIOUS
<1> HIDE DEF new, e
<1>4. DoorAsks'
  BY <1>1, <1>3 DEF BankInv, DoorAsks
<1>5. RepliesSay'
  BY <1>1, <1>3 DEF BankInv, RepliesSay, R!Live
<1>6. ThreadIsCounted'
  <2>1. PICK T : thread.turns \in Seq(T)
    BY DEF BankInv, HookInv, ThreadInv, IsThread
  <2>2. \A i \in 1..Len(thread'.turns) :
          thread'.turns[i].role = "cedar" => i \in 1..Len(thread.turns) /\ thread'.turns[i] = thread.turns[i]
    BY <1>2, <1>3, <2>1, Appended
  <2> QED
    BY <1>2, <2>2 DEF BankInv, ThreadIsCounted
<1>7. IsMemory(thread'.memory) /\ OffersStand'
  BY <1>2 DEF BankInv, OffersStand
<1> QED
  BY <1>4, <1>5, <1>6, <1>7 DEF BankInv

LEMMA ResolveKeepsBank ==
  ASSUME D!BankAssumption, BankInv, HookInv', NEW f \in flights, D!Resolve(f)
  PROVE  BankInv'
<1>1. PICK r : r = D!ResolveLocally(f.memory, f.q, f.ctx)
  OBVIOUS
<1>2. R!Answer(f, r)
  BY <1>1, SameHook DEF D!Resolve
<1>3. PICK g : g = [n |-> f.n, q |-> f.q, ctx |-> f.ctx, memory |-> f.memory,
                    stage |-> "pausing", reply |-> r]
  OBVIOUS
<1>4. /\ flights' = (flights \ {f}) \cup (IF f.n \in aborted THEN {} ELSE {g})
      /\ aborted' = aborted \ {f.n} /\ thread' = thread
  <2>1. [f EXCEPT !.stage = "pausing", !.reply = r] = g
    BY <1>3, Answered DEF BankInv, HookInv, FlightsInv
  <2> QED
    BY <1>2, <2>1 DEF R!Answer
<1>5. g.q = f.q /\ g.ctx = f.ctx /\ g.memory = f.memory /\ g.reply = r
  BY <1>3
<1>6. DoorAsks'
  BY <1>4, <1>5 DEF BankInv, DoorAsks
<1>7. RepliesSay'
  <2>1. SUFFICES ASSUME NEW h \in flights', h.n \notin aborted', h.stage = "pausing"
                 PROVE  Says(h.reply, h.memory)
    BY DEF RepliesSay, R!Live
  <2>2. CASE h = g /\ f.n \notin aborted
    <3>1. f.memory = thread.memory
      BY <2>2 DEF BankInv, HookInv, R!MemoryIsCurrent, R!Live
    <3>2. f.memory.prior \in D!Intents \cup {None} /\ f.q \in ChipOrAsked /\ f.ctx \in D!Intents \cup {None}
      BY <3>1 DEF BankInv, IsMemory, DoorAsks
    <3>3. Says(r, f.memory)
      BY <1>1, <3>2, ResolvedSays
    <3> QED
      BY <1>5, <2>2, <3>3
  <2>3. CASE h \in flights /\ h # f
    BY <1>4, <2>1, <2>3 DEF BankInv, HookInv, FlightsInv, RepliesSay, R!Live
  <2> QED
    BY <1>4, <2>1, <2>2, <2>3
<1>8. IsMemory(thread.memory)' /\ ThreadIsCounted' /\ OffersStand'
  BY <1>4 DEF BankInv, ThreadIsCounted, OffersStand, Stands
<1> QED
  BY <1>6, <1>7, <1>8 DEF BankInv

LEMMA SettleKeepsBank ==
  ASSUME R!ThreadAssumption, D!BankAssumption, BankInv, HookInv', NEW f \in flights, D!DoorSettle(f)
  PROVE  BankInv'
<1>1. PICK audience, next :
        /\ next = D!FollowUpsFor(D!Biased(thread.memory, audience), f.reply)
        /\ R!Settle(f, audience, next)
  BY SameHook DEF D!DoorSettle
<1>2. flights' = flights \ {f} /\ aborted' = aborted \ {f.n} /\ f.stage = "pausing"
  BY <1>1 DEF R!Settle
<1>3. R!Live' \subseteq R!Live
  BY <1>2 DEF R!Live, BankInv, HookInv, FlightsInv
<1>4. CASE f \notin R!Live
  <2>1. thread' = thread
    BY <1>1, <1>4 DEF R!Settle, R!Live
  <2> QED
    BY <1>2, <1>3, <2>1, RestKeepsBank
<1>5. CASE f \in R!Live
  <2> DEFINE e == [role |-> "cedar", n |-> f.n, reply |-> f.reply]
  <2>1. PICK m, r, k : m = thread.memory /\ r = f.reply /\ k = R!Remember(m, r, audience)
    OBVIOUS
  <2>2. thread' = R!SettleTurn(thread, f.reply, f.n, audience, next)
    BY <1>1, <1>5 DEF R!Settle, R!Live
  <2>3. thread'.turns = Append(thread.turns, e) /\ thread'.memory = k /\ thread'.followUps = next
    BY <2>1, <2>2 DEF R!SettleTurn
  <2>4. e.role = "cedar" /\ e.reply = r
    BY <2>1
  <2> HIDE DEF e
  <2>5. Says(r, m) /\ IsMemory(m)
    BY <1>2, <1>5, <2>1 DEF BankInv, HookInv, RepliesSay, R!MemoryIsCurrent
  <2>6. /\ IsMemory(k)
        /\ \A t \in Topics : /\ k.answered[t] >= m.answered[t]
                             /\ t # r.intent => k.answered[t] = m.answered[t]
        /\ r.kind \in {"repeat", "answer"} => k.answered[r.intent] > 0
        /\ \A t \in m.shown : t \in k.shown
        /\ r.kind = "drilldown" => r.intent \in k.shown
        /\ D!OffersMore(m, r) => k.prior = r.intent /\ r.intent \notin k.shown
    BY <2>1, <2>5, Learnt
  <2>7. next \in Seq(OfferedUnder(m, r))
    BY <1>1, <2>1, <2>5, OfferedIsFresh
  <2>8. PICK T : thread.turns \in Seq(T)
    BY DEF BankInv, HookInv, ThreadInv, IsThread
  <2>9. PICK n \in Nat : n = Len(thread.turns)
    BY <2>8
  <2>10. /\ Len(thread'.turns) = n + 1 /\ thread'.turns[n + 1] = e
         /\ \A i \in 1..n : thread'.turns[i] = thread.turns[i]
    BY <2>3, <2>8, <2>9, Appended
  <2>11. D!Intents \subseteq Topics
    BY IntentsOfTheBank
  <2>12. DoorAsks' /\ RepliesSay'
    BY <1>2, <1>3 DEF BankInv, DoorAsks, RepliesSay
  <2>13. ThreadIsCounted'
    <3>1. SUFFICES ASSUME NEW i \in 1..(n + 1), thread'.turns[i].role = "cedar"
                   PROVE  Counted(thread'.turns[i].reply, k)
      BY <2>3, <2>10 DEF ThreadIsCounted
    <3>2. CASE i = n + 1
      <4>1. Counted(r, k)
        BY <2>5, <2>6 DEF Counted, Says
      <4> QED
        BY <2>4, <2>10, <3>2, <4>1
    <3>3. CASE i \in 1..n
      <4>1. PICK a : a = thread.turns[i].reply
        OBVIOUS
      <4>2. thread'.turns[i].reply = a /\ Counted(a, m)
        BY <2>1, <2>9, <2>10, <3>1, <3>3, <4>1 DEF BankInv, ThreadIsCounted
      <4>3. \A t \in Topics : m.answered[t] > 0 => k.answered[t] > 0
        BY <2>5, <2>6 DEF IsMemory
      <4>4. Counted(a, k)
        BY <2>6, <2>11, <4>2, <4>3 DEF Counted
      <4> QED
        BY <4>2, <4>4
    <3> QED
      BY <3>2, <3>3
  <2>14. OffersStand'
    <3>1. next \in Seq({D!Chip(t) : t \in D!Intents} \cup {D!TellMoreChip})
      <4>1. OfferedUnder(m, r) \subseteq {D!Chip(t) : t \in D!Intents} \cup {D!TellMoreChip}
        BY DEF OfferedUnder, Fresh
      <4> QED
        BY <2>7, <4>1
    <3>2. SUFFICES ASSUME NEW c \in OfferedUnder(m, r)
                   PROVE  /\ c.tell => /\ k.prior # None /\ k.prior = r.intent
                                       /\ Intent[k.prior].deep /\ k.prior \notin k.shown
                          /\ ~c.tell /\ r.kind # "clarify" => k.answered[c.intent] = 0
      <4>1. \A i \in 1..Len(next) : next[i] \in OfferedUnder(m, r)
        BY <2>7
      <4>2. \A c \in OfferedUnder(m, r) : Stands(c, n + 1)'
        BY <2>3, <2>4, <2>10, <3>2 DEF Stands
      <4> QED
        BY <2>3, <2>10, <3>1, <4>1, <4>2 DEF OffersStand
    <3>3. CASE c = D!TellMoreChip /\ D!OffersMore(m, r)
      BY <2>6, <3>3 DEF D!OffersMore, D!TellMoreChip
    <3>4. CASE \E t \in Fresh(m, r) : c = D!Chip(t)
      <4>1. PICK t \in Fresh(m, r) : c = D!Chip(t)
        BY <3>4
      <4>2. ~c.tell /\ c.intent = t
        BY <4>1 DEF D!Chip
      <4>3. r.kind # "clarify" => m.answered[t] = 0 /\ t # r.intent
        BY <2>5, <2>11, <4>1 DEF Fresh, IsMemory
      <4> QED
        BY <2>6, <2>11, <4>1, <4>2, <4>3 DEF Fresh
    <3> QED
      BY <3>2, <3>3, <3>4 DEF OfferedUnder
  <2> QED
    BY <2>3, <2>6, <2>12, <2>13, <2>14 DEF BankInv
<1> QED
  BY <1>4, <1>5

LEMMA RemountKeepsBank ==
  ASSUME D!BankAssumption, BankInv, HookInv', R!Remount
  PROVE  BankInv'
<1>1. /\ thread'.turns = <<>> /\ thread'.memory = R!FreshMemory /\ thread'.followUps = <<>>
      /\ flights' = flights /\ R!Live' = {}
  BY AbandonKeepsFlights DEF R!Remount, R!FreshThread, BankInv, HookInv, R!Live
<1>2. IsMemory(thread'.memory)
  BY <1>1 DEF IsMemory, R!FreshMemory
<1> QED
  BY <1>1, <1>2 DEF BankInv, DoorAsks, RepliesSay, ThreadIsCounted, OffersStand

LEMMA StepKeepsBank ==
  ASSUME R!ThreadAssumption, D!BankAssumption, BankInv, [D!DoorNext]_(D!doorVars)
  PROVE  BankInv'
<1>1. HookInv'
  BY DoorRunsTheHook, StepKeepsHook DEF BankInv
<1>2. (\A t \in D!Intents : D!ChipText(t) \in ChipOrAsked) /\ None \in D!Intents \cup {None}
  BY DEF ChipOrAsked
<1>3. ASSUME NEW q \in DoorQuestions, D!Submit(q) PROVE BankInv'
  <2>1. q \in ChipOrAsked
    BY DEF ChipOrAsked, D!Asked
  <2> QED
    BY <1>1, <1>2, <1>3, <2>1, AskKeepsBank, SameHook DEF D!Submit
<1>4. ASSUME NEW t \in Starters, D!TapStarter(t) PROVE BankInv'
  <2>1. t \in D!Intents /\ t \in D!Intents \cup {None}
    BY DEF D!BankAssumption
  <2> QED
    BY <1>1, <1>2, <1>4, <2>1, AskKeepsBank, SameHook DEF D!TapStarter
<1>5. ASSUME NEW i \in 1..Len(thread.followUps), D!TapFollowUp(thread.followUps[i]) PROVE BankInv'
  <2>1. thread.followUps[i] \in {D!Chip(t) : t \in D!Intents} \cup {D!TellMoreChip}
    BY DEF BankInv, OffersStand
  <2>2. CASE thread.followUps[i].tell
    <3>1. R!Ask(TellMore, "tell", None)
      BY <1>5, <2>2, SameHook DEF D!TapFollowUp
    <3>2. TellMore \in ChipOrAsked
      BY DEF ChipOrAsked, D!Asked
    <3> QED
      BY <1>1, <1>2, <3>1, <3>2, AskKeepsBank
  <2>3. CASE ~thread.followUps[i].tell
    <3>1. thread.followUps[i].intent \in D!Intents
      BY <2>1, <2>3 DEF D!Chip, D!TellMoreChip
    <3>2. R!Ask(D!ChipText(thread.followUps[i].intent), "chip", thread.followUps[i].intent)
      BY <1>5, <2>3, SameHook DEF D!TapFollowUp
    <3> QED
      BY <1>1, <1>2, <3>1, <3>2, AskKeepsBank
  <2> QED
    BY <2>2, <2>3
<1>6. ASSUME R!Cancel, thread' = thread PROVE BankInv'
  <2>1. flights' = flights /\ R!Live' = {}
    BY <1>6, AbandonKeepsFlights DEF R!Cancel, BankInv, HookInv, R!Live
  <2> QED
    BY <1>1, <1>6, <2>1, RestKeepsBank
<1>7. ASSUME NEW c \in HandedOver, D!AskCollection(c) PROVE BankInv'
  <2>1. CollectionQuestion[c] \in ChipOrAsked /\ CollectionIntent[c] \in D!Intents \cup {None}
    BY DEF ChipOrAsked, D!Asked, D!BankAssumption
  <2> QED
    BY <1>1, <1>6, <1>7, <2>1, AskKeepsBank, SameHook DEF D!AskCollection
<1>8. ASSUME NEW f \in flights, D!Resolve(f) \/ D!DoorSettle(f) PROVE BankInv'
  BY <1>1, <1>8, ResolveKeepsBank, SettleKeepsBank
<1>9. CASE D!LeaveDoor
  BY <1>1, <1>9, RemountKeepsBank, SameHook DEF D!LeaveDoor
<1>10. CASE D!ToggleOpen \/ UNCHANGED D!doorVars
  <2>1. R!Live' = R!Live /\ thread' = thread /\ flights' = flights
    BY <1>10 DEF D!ToggleOpen, D!doorVars, D!threadVars, R!Live
  <2> QED
    BY <1>1, <2>1, RestKeepsBank
<1> QED
  BY <1>3, <1>4, <1>5, <1>7, <1>8, <1>9, <1>10 DEF D!DoorNext

(* What stands is what was promised.                                        *)
LEMMA LastOfCedar ==
  ASSUME NEW n \in Nat, n = Len(thread.turns), n > 0, thread.turns[n].role = "cedar"
  PROVE  D!LastReply = thread.turns[n].reply
<1>1. n \in D!CedarTurns /\ \A i \in D!CedarTurns : i \in Nat /\ i <= n
  BY DEF D!CedarTurns
<1>2. PICK T : T = D!CedarTurns
  OBVIOUS
<1>3. n \in T /\ \A i \in T : i \in Nat /\ i <= n
  BY <1>1, <1>2
<1>4. D!Max(T) = n
  <2>1. PICK m : m = D!Max(T)
    OBVIOUS
  <2>2. \A y \in T : n >= y
    BY <1>3
  <2>3. m = CHOOSE x \in T : \A y \in T : x >= y
    BY <2>1 DEF D!Max
  <2>4. m \in T /\ \A y \in T : m >= y
    BY <1>3, <2>2, <2>3
  <2>5. m >= n /\ m <= n /\ m \in Nat
    BY <1>3, <2>4
  <2> QED
    BY <2>1, <2>5
<1> QED
  BY <1>2, <1>4 DEF D!LastReply

LEMMA BankIsRight ==
  ASSUME R!ThreadAssumption, D!BankAssumption, BankInv
  PROVE  D!TellMoreDeepens /\ D!QuickRepliesAreNew
<1>1. PICK n \in Nat : n = Len(thread.turns)
  BY DEF BankInv, HookInv, ThreadInv, IsThread
<1>2. ASSUME NEW c \in D!ToSet(thread.followUps)
      PROVE  /\ Stands(c, n) /\ D!LastReply = thread.turns[n].reply
             /\ c \in {D!Chip(t) : t \in D!Intents} \cup {D!TellMoreChip}
  <2>1. PICK k \in 1..Len(thread.followUps) : c = thread.followUps[k]
    BY <1>2 DEF D!ToSet, BankInv, OffersStand
  <2>2. Stands(c, n) /\ c \in {D!Chip(t) : t \in D!Intents} \cup {D!TellMoreChip}
    BY <1>1, <2>1 DEF BankInv, OffersStand
  <2> QED
    BY <1>1, <2>2, LastOfCedar DEF Stands
<1>3. D!Intents \subseteq Topics /\ None \notin D!Intents
  BY IntentsOfTheBank DEF R!ThreadAssumption
<1>4. D!TellMoreDeepens
  <2>1. SUFFICES ASSUME D!TellMoreChip \in D!ToSet(thread.followUps)
                 PROVE  LET reply == D!ResolveLocally(thread.memory, TellMore, None)
                        IN /\ reply.kind = "drilldown"
                           /\ reply.intent = D!LastReply.intent
                           /\ \A i \in D!CedarTurns : thread.turns[i].reply.text # reply.text
    BY DEF D!TellMoreDeepens
  <2>2. D!TellMoreChip.tell
    BY DEF D!TellMoreChip
  <2>3. PICK p : p = thread.memory.prior
    OBVIOUS
  <2>4. p # None /\ p = D!LastReply.intent /\ Intent[p].deep /\ p \notin thread.memory.shown
    BY <1>2, <2>1, <2>2, <2>3 DEF Stands
  <2>5. PICK first : first = D!Classify(TellMore, {})
    OBVIOUS
  <2>6. D!DrillsDown(thread.memory, TellMore, first)
    BY <2>3, <2>4, <2>5 DEF D!DrillsDown, D!BankAssumption
  <2>7. D!ResolveLocally(thread.memory, TellMore, None) =
        D!Reply("drilldown", p, <<"deep", p, 0>>, <<>>, None, FALSE)
    BY <2>3, <2>5, <2>6 DEF D!ResolveLocally, D!Resolved
  <2>8. ASSUME NEW i \in D!CedarTurns, thread.turns[i].reply.text = <<"deep", p, 0>>
        PROVE  FALSE
    <3>1. Counted(thread.turns[i].reply, thread.memory)
      BY <2>8 DEF D!CedarTurns, BankInv, ThreadIsCounted
    <3> QED
      BY <2>4, <2>8, <3>1 DEF Counted
  <2> QED
    BY <2>4, <2>7, <2>8 DEF D!Reply
<1>5. D!QuickRepliesAreNew
  <2>1. SUFFICES ASSUME NEW next \in D!ToSet(thread.followUps), D!LastReply.kind # "clarify", ~next.tell,
                        NEW i \in D!CedarTurns, thread.turns[i].reply.kind \in {"answer", "repeat"}
                 PROVE  thread.turns[i].reply.intent # next.intent
    BY DEF D!QuickRepliesAreNew
  <2>2. thread.memory.answered[next.intent] = 0
    BY <1>2, <2>1 DEF Stands
  <2>3. Counted(thread.turns[i].reply, thread.memory)
    BY DEF D!CedarTurns, BankInv, ThreadIsCounted
  <2> QED
    BY <2>1, <2>2, <2>3 DEF Counted
<1> QED
  BY <1>4, <1>5

-----------------------------------------------------------------------------
(* What a filter keeps: what it is for, each once where each was there once. *)

Of(s) == {s[i] : i \in 1..Len(s)}
Once(s) == \A i, j \in 1..Len(s) : s[i] = s[j] => i = j

LEMMA OneMore ==
  ASSUME NEW Y, NEW s \in Seq(Y), NEW e
  PROVE  /\ Of(Append(s, e)) = Of(s) \cup {e}
         /\ Once(s) /\ e \notin Of(s) => Once(Append(s, e))
<1>1. PICK t : t = Append(s, e)
  OBVIOUS
<1> DEFINE n == Len(s)
<1>2. Len(t) = n + 1 /\ t[n + 1] = e /\ \A i \in 1..n : t[i] = s[i]
  BY <1>1, Appended
<1>3. n \in Nat /\ 1..(n + 1) = (1..n) \cup {n + 1}
  OBVIOUS
<1>4. Of(t) = Of(s) \cup {e}
  BY <1>1, <1>2, <1>3 DEF Of
<1>5. ASSUME Once(s), e \notin Of(s) PROVE Once(t)
  BY <1>1, <1>2, <1>3, <1>5 DEF Of, Once
<1> QED
  BY <1>1, <1>4, <1>5

KeptOf(t, n, s, X, Y) ==
  /\ t \in Seq(Y) /\ Of(t) = {s[i] : i \in 1..n} \cap X
  /\ Once(s) => Once(t)

LEMMA KeptOneMore ==
  ASSUME NEW Y, NEW s \in Seq(Y), NEW X, NEW n \in 1..Len(s), NEW t, NEW u, KeptOf(t, n - 1, s, X, Y),
         u = IF s[n] \in X THEN Append(t, s[n]) ELSE t
  PROVE  KeptOf(u, n, s, X, Y)
<1>1. 1..n = (1..(n - 1)) \cup {n} /\ s[n] \in Y /\ t \in Seq(Y)
  BY DEF KeptOf
<1>2. {s[i] : i \in 1..n} = {s[i] : i \in 1..(n - 1)} \cup {s[n]}
  BY <1>1
<1>3. CASE s[n] \in X
  <2>1. Append(t, s[n]) \in Seq(Y)
    BY <1>1
  <2>2. Once(s) => s[n] \notin {s[i] : i \in 1..(n - 1)}
    BY DEF Once
  <2> QED
    BY <1>1, <1>2, <1>3, <2>1, <2>2, OneMore DEF KeptOf
<1>4. CASE s[n] \notin X
  BY <1>1, <1>2, <1>4 DEF KeptOf
<1> QED
  BY <1>3, <1>4

LEMMA AmongKeeps ==
  ASSUME NEW Y, NEW s \in Seq(Y), NEW X
  PROVE  /\ D!Among(s, X) \in Seq(Y) /\ Of(D!Among(s, X)) = Of(s) \cap X
         /\ Once(s) => Once(D!Among(s, X))
<1>0. Len(s) \in Nat
  OBVIOUS
<1>1. PICK f : IsAmong(f, Len(s), s, X)
  BY <1>0, AmongExists
<1>2. PICK g : IsAmong(g, Len(s), s, X) /\ D!Among(s, X) = g[Len(s)]
  BY <1>1 DEF D!Among, IsAmong
<1> DEFINE Off == {i \in 0..Len(s) : ~KeptOf(g[i], i, s, X, Y)}
<1>3. Off = {}
  <2>1. SUFFICES ASSUME Off # {} PROVE FALSE
    OBVIOUS
  <2>2. Off \in SUBSET Nat
    OBVIOUS
  <2>3. PICK i \in Off : \A m \in Off : i <= m
    BY <2>1, <2>2, Smallest
  <2>4. CASE i = 0
    <3>1. g[0] = <<>>
      BY <1>2 DEF IsAmong
    <3>2. KeptOf(<<>>, 0, s, X, Y)
      BY DEF KeptOf, Of, Once
    <3> QED
      BY <2>3, <2>4, <3>1, <3>2
  <2>5. CASE i # 0
    <3>1. i \in 1..Len(s) /\ i - 1 \in 0..Len(s) /\ ~(i <= i - 1)
      BY <2>3, <2>5
    <3>2. KeptOf(g[i - 1], i - 1, s, X, Y)
      BY <2>3, <3>1
    <3>3. g[i] = IF s[i] \in X THEN Append(g[i - 1], s[i]) ELSE g[i - 1]
      BY <1>2, <2>5, <3>1 DEF IsAmong
    <3>4. KeptOf(g[i], i, s, X, Y)
      BY <3>1, <3>2, <3>3, KeptOneMore
    <3> QED
      BY <2>3, <3>4
  <2> QED
    BY <2>4, <2>5
<1>4. KeptOf(g[Len(s)], Len(s), s, X, Y)
  BY <1>3
<1> QED
  BY <1>2, <1>4 DEF KeptOf, Of

LEMMA SameFilter ==
  \A s, X : RP!Among(s, X) = D!Among(s, X) /\ TR!Among(s, X) = D!Among(s, X)
BY DEF RP!Among, TR!Among, D!Among

LEMMA Joined ==
  ASSUME NEW Y, NEW s \in Seq(Y), NEW t \in Seq(Y)
  PROVE  /\ s \o t \in Seq(Y) /\ Of(s \o t) = Of(s) \cup Of(t)
         /\ Once(s) /\ Once(t) /\ Of(s) \cap Of(t) = {} => Once(s \o t)
<1>1. PICK m \in Nat, n \in Nat : m = Len(s) /\ n = Len(t)
  OBVIOUS
<1>0. PICK u : u = s \o t
  OBVIOUS
<1>2. /\ u \in Seq(Y) /\ Len(u) = m + n
      /\ \A i \in 1..m : u[i] = s[i]
      /\ \A i \in 1..n : u[m + i] = t[i]
  BY <1>0, <1>1
<1>3. \A i \in 1..(m + n) : i \in 1..m \/ (i - m \in 1..n /\ u[i] = t[i - m])
  <2>1. SUFFICES ASSUME NEW i \in 1..(m + n), i \notin 1..m
                 PROVE  i - m \in 1..n /\ u[i] = t[i - m]
    OBVIOUS
  <2>2. i - m \in 1..n /\ m + (i - m) = i
    BY <2>1
  <2> QED
    BY <1>2, <2>2
<1>4. 1..m \subseteq 1..(m + n) /\ \A i \in 1..n : m + i \in 1..(m + n)
  OBVIOUS
<1>5. Of(u) = Of(s) \cup Of(t)
  <2>1. ASSUME NEW i \in 1..(m + n) PROVE u[i] \in Of(s) \cup Of(t)
    BY <1>0, <1>1, <1>2, <1>3 DEF Of
  <2>2. ASSUME NEW i \in 1..m PROVE s[i] \in Of(u)
    <3>1. i \in 1..Len(u) /\ u[i] = s[i]
      BY <1>2, <1>4
    <3> QED
      BY <3>1 DEF Of
  <2>3. ASSUME NEW i \in 1..n PROVE t[i] \in Of(u)
    <3>1. m + i \in 1..Len(u) /\ u[m + i] = t[i]
      BY <1>2, <1>4
    <3> QED
      BY <3>1 DEF Of
  <2>4. Of(u) \subseteq Of(s) \cup Of(t)
    BY <1>2, <2>1 DEF Of
  <2>5. Of(s) \subseteq Of(u)
    BY <1>1, <2>2 DEF Of
  <2>6. Of(t) \subseteq Of(u)
    BY <1>1, <2>3 DEF Of
  <2> QED
    BY <2>4, <2>5, <2>6
<1>6. ASSUME Once(s), Once(t), Of(s) \cap Of(t) = {} PROVE Once(u)
  <2>1. SUFFICES ASSUME NEW i \in 1..(m + n), NEW j \in 1..(m + n), u[i] = u[j] PROVE i = j
    BY <1>2 DEF Once
  <2>2. \A k \in 1..m : u[k] \in Of(s)
    BY <1>0, <1>1, <1>2 DEF Of
  <2>3. \A k \in 1..(m + n) : k \notin 1..m => u[k] \in Of(t)
    BY <1>0, <1>1, <1>3 DEF Of
  <2>4. CASE i \in 1..m /\ j \in 1..m
    BY <1>0, <1>1, <1>2, <1>6, <2>1, <2>4 DEF Once
  <2>5. CASE i \notin 1..m /\ j \notin 1..m
    <3>1. i - m = j - m
      BY <1>0, <1>1, <1>3, <1>6, <2>1, <2>5 DEF Once
    <3> QED
      BY <3>1
  <2> QED
    BY <1>6, <2>1, <2>2, <2>3, <2>4, <2>5
<1> QED
  BY <1>0, <1>1, <1>2, <1>5, <1>6

LEMMA Beginning ==
  ASSUME NEW Y, NEW s \in Seq(Y), NEW n \in 0..Len(s)
  PROVE  /\ SubSeq(s, 1, n) \in Seq(Y) /\ Of(SubSeq(s, 1, n)) \subseteq Of(s)
         /\ Once(s) => Once(SubSeq(s, 1, n))
<1>1. PICK t : t = SubSeq(s, 1, n)
  OBVIOUS
<1>2. t \in Seq(Y) /\ Len(t) = n /\ \A i \in 1..n : t[i] = s[i]
  BY <1>1
<1>3. 1..n \subseteq 1..Len(s)
  OBVIOUS
<1>4. Of(t) \subseteq Of(s) /\ (Once(s) => Once(t))
  BY <1>2, <1>3 DEF Of, Once
<1> QED
  BY <1>1, <1>2, <1>4

LEMMA CountedOnce ==
  ASSUME NEW Y, NEW s \in Seq(Y), Once(s)
  PROVE  IsFiniteSet(Of(s)) /\ Cardinality(Of(s)) = Len(s)
<1>1. PICK n \in Nat : n = Len(s)
  OBVIOUS
<1>2. IsFiniteSet(1..n) /\ Cardinality(1..n) = n
  BY FS_Interval
<1> DEFINE f == [i \in 1..n |-> s[i]]
<1>3. f \in Bijection(1..n, Of(s))
  <2>1. f \in [1..n -> Of(s)]
    BY <1>1 DEF Of
  <2>2. \A i, j \in 1..n : f[i] = f[j] => i = j
    BY <1>1 DEF Once
  <2>3. \A e \in Of(s) : \E i \in 1..n : f[i] = e
    BY <1>1 DEF Of
  <2> HIDE DEF f
  <2> QED
    BY <2>1, <2>2, <2>3 DEF Bijection, Injection, Surjection, IsInjective
<1> QED
  BY <1>1, <1>2, <1>3, FS_Bijection DEF ExistsBijection

-----------------------------------------------------------------------------
(* A record's page: a column is in the details, or in the one group of its   *)
(* name, because the details name no column twice; and the heading and the   *)
(* line fit because no plan opens what is nowhere.                           *)

RecordInv ==
  /\ s1 \in FieldContracts /\ s2 \in FieldBooks /\ s3 \in FieldRows
  /\ s4 \in {"unread", "reading", "read", "failed"}
  /\ s5 \in {"it", "others", "nothing"}
  /\ s10 \in {"nowhere", "without", "table"} /\ s11 \in BOOLEAN
  /\ s10 = "nowhere" => ~s11

LEMMA NamedOnce ==
  ASSUME NEW Y, NEW s \in Seq(Y)
  PROVE  (RP!IsInjective(s) <=> Once(s)) /\ RP!ToSet(s) = Of(s)
<1>1. DOMAIN s = 1..Len(s)
  OBVIOUS
<1> QED
  BY <1>1 DEF RP!IsInjective, RP!ToSet, Once, Of

LEMMA FirstsOnce ==
  ASSUME NEW Y, NEW s \in Seq(Y), NEW n \in Nat
  PROVE  RP!FirstOf(s, n) \in Seq(Y) /\ (Once(s) => Once(RP!FirstOf(s, n)))
<1>1. PICK k \in 0..Len(s) : k = IF Len(s) < n THEN Len(s) ELSE n
  OBVIOUS
<1>2. RP!FirstOf(s, n) = SubSeq(s, 1, k)
  BY <1>1 DEF RP!FirstOf
<1> QED
  BY <1>2, Beginning

LEMMA DetailsOnce ==
  ASSUME RP!RecordAssumption, RecordInv
  PROVE  RP!Detail \in Seq(DOMAIN Fields) /\ Once(RP!Detail)
<1> DEFINE N == DOMAIN Fields
<1>1. s1.view \in Seq(N) /\ s2 \in Seq(N) /\ Once(s1.view) /\ Once(s2)
  BY NamedOnce DEF RP!RecordAssumption, RecordInv
<1> HIDE DEF N
<1>2. PICK bk : bk = RP!Book
  OBVIOUS
<1>3. bk \in Seq(N) /\ Once(bk)
  BY <1>1, <1>2, SameFilter, AmongKeeps DEF RP!Book, RP!InRow
<1>4. PICK scr : scr = RP!FirstScreen
  OBVIOUS
<1>5. scr \in Seq(N) /\ Once(scr)
  BY <1>2, <1>3, <1>4, SameFilter, AmongKeeps DEF RP!FirstScreen
<1>6. PICK told : told = RP!DeclaredDetail
  OBVIOUS
<1>7. told \in Seq(N) /\ Once(told)
  <2>1. PICK v : v = RP!InRow(s1.view)
    OBVIOUS
  <2>2. v \in Seq(N) /\ Once(v)
    BY <1>1, <2>1, SameFilter, AmongKeeps DEF RP!InRow
  <2>3. PICK w : w = IF v # <<>> THEN v ELSE RP!FirstOf(scr, 3)
    OBVIOUS
  <2>4. w \in Seq(N) /\ Once(w)
    BY <1>5, <2>2, <2>3, FirstsOnce
  <2>5. told = RP!Among(w, {c \in RP!Carried : RP!Spoken(c)})
    BY <1>4, <1>6, <2>1, <2>3 DEF RP!DeclaredDetail
  <2> QED
    BY <2>4, <2>5, SameFilter, AmongKeeps
<1>8. PICK tu : tu = RP!TopUp
  OBVIOUS
<1>9. tu \in Seq(N) /\ Once(tu) /\ Of(told) \cap Of(tu) = {}
  <2> DEFINE X == {c \in RP!Carried :
                    /\ RP!Spoken(c) /\ c \notin RP!ToSet(told) /\ ~Fields[c].flag
                    /\ \/ Fields[c].normalizes # None
                       \/ /\ \A d \in RP!Carried : Fields[d].normalizes # c
                          /\ ~(Fields[c].key /\ s3[c] = "long")}
  <2>1. tu = RP!Among(scr, X) /\ \A c \in X : c \notin RP!ToSet(told)
    BY <1>4, <1>6, <1>8 DEF RP!TopUp
  <2> HIDE DEF X
  <2>2. tu \in Seq(N) /\ Once(tu) /\ Of(tu) = Of(scr) \cap X
    BY <1>5, <2>1, SameFilter, AmongKeeps
  <2> QED
    BY <1>7, <2>1, <2>2, NamedOnce
<1>10. told \o tu \in Seq(N) /\ Once(told \o tu)
  BY <1>7, <1>9, Joined
<1>11. RP!Detail = IF Len(told) >= 3 THEN told ELSE RP!FirstOf(told \o tu, 3)
  BY <1>6, <1>8 DEF RP!Detail
<1> QED
  BY <1>7, <1>10, <1>11, FirstsOnce DEF N

LEMMA RecordSays ==
  ASSUME RecordInv
  PROVE  RP!HeadingFits
<1>1. PICK wanted \in BOOLEAN : wanted = RP!Wanted
  BY DEF RP!Wanted
<1>2. PICK rows : rows = RP!Rows
  OBVIOUS
<1>3. rows = IF wanted /\ s4 = "read" THEN s5 ELSE "nothing"
  BY <1>1, <1>2 DEF RP!Rows
<1>4. RP!Found = (rows = "it")
  BY <1>2 DEF RP!Found
<1>5. RP!Heading = IF rows = "it" THEN "the record"
                   ELSE IF (wanted /\ s4 \in {"unread", "reading"})
                           \/ (rows = "nothing" /\ ~(wanted /\ s4 = "failed") /\ wanted) THEN "opening"
                   ELSE IF wanted /\ s4 = "failed" THEN "not loaded" ELSE "not in this preview"
  BY <1>1, <1>2, <1>4 DEF RP!Heading, RP!Loading, RP!Missing
<1>6. RP!Line = IF rows = "it" THEN "none"
                ELSE IF s10 = "nowhere" THEN "no such collection" ELSE IF ~s11 THEN "not on your plan"
                ELSE IF s10 = "without" THEN "no preview"
                ELSE IF wanted /\ s4 \in {"unread", "reading"} THEN "reading"
                ELSE IF wanted /\ s4 = "failed" THEN "retry" ELSE "perhaps not in the sample"
  BY <1>1, <1>4 DEF RP!Line, RP!Loading, RP!Missing
<1>7. wanted <=> s10 = "table" /\ s11
  BY <1>1 DEF RP!Wanted
<1>8. CASE ~wanted
  <2>1. /\ RP!Heading = "not in this preview"
        /\ RP!Line \in {"no such collection", "not on your plan", "no preview"}
    BY <1>3, <1>5, <1>6, <1>7, <1>8 DEF RecordInv
  <2> QED
    BY <2>1 DEF RP!HeadingFits
<1>9. CASE wanted /\ s4 \in {"unread", "reading"}
  <2>1. RP!Heading = "opening" /\ RP!Line = "reading"
    BY <1>3, <1>5, <1>6, <1>7, <1>9
  <2> QED
    BY <2>1 DEF RP!HeadingFits
<1>10. CASE wanted /\ s4 = "failed"
  <2>1. RP!Heading = "not loaded" /\ RP!Line = "retry"
    BY <1>3, <1>5, <1>6, <1>7, <1>10
  <2> QED
    BY <2>1 DEF RP!HeadingFits
<1>11. CASE wanted /\ s4 = "read"
  <2>1. CASE s5 = "it"
    <3>1. RP!Heading = "the record" /\ RP!Line = "none"
      BY <1>3, <1>5, <1>6, <1>11, <2>1
    <3> QED
      BY <3>1 DEF RP!HeadingFits
  <2>2. CASE s5 # "it"
    <3>1. /\ RP!Line = "perhaps not in the sample"
          /\ RP!Heading = IF s5 = "nothing" THEN "opening" ELSE "not in this preview"
      BY <1>3, <1>5, <1>6, <1>7, <1>11, <2>2
    <3> QED
      BY <1>1, <1>11, <2>2, <3>1 DEF RP!HeadingFits
  <2> QED
    BY <2>1, <2>2
<1> QED
  BY <1>8, <1>9, <1>10, <1>11 DEF RecordInv

LEMMA RecordIsRight ==
  ASSUME RP!RecordAssumption, RecordInv
  PROVE  RP!EveryColumnOnce /\ RP!HeadingFits
<1>1. RP!HeadingFits
  BY RecordSays
<1>2. PICK detail : detail = RP!Detail
  OBVIOUS
<1>3. PICK groups : groups = RP!Groups
  OBVIOUS
<1>4. SUFFICES ASSUME NEW c \in DOMAIN s3, RP!Spoken(c)
               PROVE  RP!Cardinality(RP!Places(c, detail, groups)) = 1
  BY <1>1, <1>2, <1>3 DEF RP!EveryColumnOnce, RP!Carried
<1>5. /\ c \in DOMAIN Fields /\ c # None /\ Fields[c].group \in RP!GroupNames
  BY DEF RP!RecordAssumption, RecordInv
<1>6. /\ c \notin RP!InHead /\ c \notin RP!InSummary /\ c \notin RP!ToSet(RP!Attribution)
  BY <1>4 DEF RP!Spoken
<1>7. /\ c # s1.amount /\ c # s1.date
      /\ c \notin RP!InHead \cup s1.observation \cup RP!Said(s1.subject)
  BY <1>5, <1>6 DEF RP!InSummary, RP!Said
<1>8. detail \in Seq(DOMAIN Fields) /\ Once(detail) /\ RP!ToSet(detail) = Of(detail)
  BY <1>2, DetailsOnce, NamedOnce
<1>9. RP!Places(c, detail, groups) =
        {<<"details", i>> : i \in {j \in 1..Len(detail) : detail[j] = c}}
        \cup {<<"groups", g>> : g \in {h \in RP!GroupNames : c \in groups[h]}}
  BY <1>6, <1>7, <1>8 DEF RP!Places
<1>10. \A g \in RP!GroupNames : c \in groups[g] <=> c \in RP!Grouped /\ Fields[c].group = g
  BY <1>3 DEF RP!Groups
<1>11. c \in RP!Grouped <=> c \notin Of(detail)
  BY <1>2, <1>6, <1>8 DEF RP!Grouped, RP!Rest, RP!Technical, RP!DetailSet, RP!Carried
<1>12. \E p : RP!Places(c, detail, groups) = {p}
  <2>1. CASE c \in Of(detail)
    <3>1. PICK i \in 1..Len(detail) : detail[i] = c
      BY <2>1 DEF Of
    <3>2. \A j \in 1..Len(detail) : detail[j] = c => j = i
      BY <1>8, <3>1 DEF Once
    <3>3. {j \in 1..Len(detail) : detail[j] = c} = {i}
      BY <3>1, <3>2
    <3>4. {h \in RP!GroupNames : c \in groups[h]} = {}
      BY <1>10, <1>11, <2>1
    <3>5. RP!Places(c, detail, groups) = {<<"details", i>>}
      BY <1>9, <3>3, <3>4
    <3> QED
      BY <3>5
  <2>2. CASE c \notin Of(detail)
    <3>1. {j \in 1..Len(detail) : detail[j] = c} = {}
      BY <2>2 DEF Of
    <3>2. {h \in RP!GroupNames : c \in groups[h]} = {Fields[c].group}
      BY <1>5, <1>10, <1>11, <2>2
    <3>3. RP!Places(c, detail, groups) = {<<"groups", Fields[c].group>>}
      BY <1>9, <3>1, <3>2
    <3> QED
      BY <3>3
  <2> QED
    BY <2>1, <2>2
<1>13. PICK p : RP!Places(c, detail, groups) = {p}
  BY <1>12
<1>14. RP!Cardinality({p}) = Cardinality({p})
  BY DEF RP!Cardinality, Cardinality
<1> QED
  BY <1>13, <1>14, FS_Singleton

LEMMA InitRecord ==
  ASSUME RP!Init
  PROVE  RecordInv
BY DEF RP!Init, RecordInv

LEMMA StepKeepsRecord ==
  ASSUME RecordInv, [RP!Next]_(RP!vars)
  PROVE  RecordInv'
<1>1. ASSUME NEW answer \in {"read", "failed"}, RP!Reads(answer) PROVE RecordInv'
  BY <1>1 DEF RecordInv, RP!Reads, RP!link
<1>2. CASE RP!Retry
  BY <1>2 DEF RecordInv, RP!Retry, RP!link
<1>3. CASE RP!ToggleMore \/ RP!ToggleDefinitions \/ RP!Copy \/ RP!CopyFades
  BY <1>3 DEF RecordInv, RP!link, RP!ToggleMore, RP!ToggleDefinitions, RP!Copy, RP!CopyFades
<1>4. CASE RP!Walk
  BY <1>4 DEF RecordInv, RP!Walk, RP!link
<1>5. CASE RP!PlanChanges
  BY <1>5 DEF RecordInv, RP!PlanChanges, RP!link
<1>6. CASE UNCHANGED RP!vars
  BY <1>6 DEF RecordInv, RP!vars, RP!link
<1> QED
  BY <1>1, <1>2, <1>3, <1>4, <1>5, <1>6 DEF RP!Next

-----------------------------------------------------------------------------
(* A table: what it opens on is filtered from its own columns, once each.    *)
(* The contract it is read by keeps lists for lists: its opening columns and *)
(* the observation, whatever preset and override went over it.               *)

Listed(c) == \E Y : c.defaults \in Seq(Y) /\ c.observation \in Seq(Y)

TableInv ==
  /\ s2 \in Declarations \cup {TR!NoOverride}
  /\ s3 # None => Listed(s3)

LEMMA RangeOf ==
  ASSUME NEW Y, NEW s \in Seq(Y)
  PROVE  TR!Range(s) = Of(s) /\ (TR!IsInjective(s) <=> Once(s))
<1>1. DOMAIN s = 1..Len(s)
  OBVIOUS
<1> QED
  BY <1>1 DEF TR!Range, TR!IsInjective, Of, Once

LEMMA DistinctOnce ==
  ASSUME NEW Y, NEW s \in Seq(Y)
  PROVE  TR!Distinct(s) \in Seq(Y) /\ Once(TR!Distinct(s)) /\ Of(TR!Distinct(s)) \subseteq Of(s)
<1>1. PICK n \in Nat : n = Len(s)
  OBVIOUS
<1> DEFINE places == [i \in 1..n |-> i]
           firsts == {i \in 1..n : \A j \in 1..(i - 1) : s[j] # s[i]}
<1>2. places \in Seq(Nat) /\ Once(places) /\ Of(places) = 1..n
  <2>1. places \in Seq(Nat) /\ Len(places) = n /\ \A i \in 1..n : places[i] = i
    OBVIOUS
  <2> HIDE DEF places
  <2> QED
    BY <2>1 DEF Once, Of
<1>3. PICK at : at = TR!Among(places, firsts)
  OBVIOUS
<1>4. at \in Seq(Nat) /\ Once(at) /\ Of(at) = (1..n) \cap firsts
  <2> HIDE DEF places, firsts
  <2> QED
    BY <1>2, <1>3, SameFilter, AmongKeeps
<1>5. PICK m \in Nat : m = Len(at)
  BY <1>4
<1>6. PICK u : u = TR!Distinct(s)
  OBVIOUS
<1>7. u = [k \in 1..m |-> s[at[k]]]
  BY <1>1, <1>3, <1>5, <1>6 DEF TR!Distinct
<1>8. \A k \in 1..m : at[k] \in 1..n /\ \A j \in 1..(at[k] - 1) : s[j] # s[at[k]]
  BY <1>4, <1>5 DEF Of
<1>9. u \in Seq(Y) /\ Len(u) = m /\ \A k \in 1..m : u[k] = s[at[k]]
  BY <1>1, <1>7, <1>8
<1>10. Of(u) \subseteq Of(s)
  BY <1>1, <1>8, <1>9 DEF Of
<1>11. Once(u)
  <2>1. SUFFICES ASSUME NEW k \in 1..m, NEW l \in 1..m, u[k] = u[l] PROVE k = l
    BY <1>9 DEF Once
  <2>2. s[at[k]] = s[at[l]]
    BY <1>9, <2>1
  <2>3. ~(at[k] < at[l]) /\ ~(at[l] < at[k])
    BY <1>8, <2>2
  <2>4. at[k] = at[l]
    BY <1>8, <2>3
  <2> QED
    BY <1>4, <1>5, <2>4 DEF Once
<1> QED
  BY <1>6, <1>9, <1>10, <1>11

LEMMA PresentOnce ==
  ASSUME NEW Y, NEW s \in Seq(Y), NEW t
  PROVE  TR!Present(t, s) \in Seq(Y)
<1>1. TR!Among(s, t.columns) \in Seq(Y)
  BY SameFilter, AmongKeeps
<1> QED
  BY <1>1, DistinctOnce DEF TR!Present

LEMMA FirstOnes ==
  ASSUME NEW Y, NEW s \in Seq(Y), NEW n \in Nat
  PROVE  TR!Firsts(s, n) \in Seq(Y)
<1>1. n < Len(s) => SubSeq(s, 1, n) \in Seq(Y)
  OBVIOUS
<1> QED
  BY <1>1 DEF TR!Firsts

LEMMA DefaultsAreAList ==
  ASSUME TR!TableReadingAssumption, NEW t, NEW c, c.observation \in Seq(FileNames),
         TR!DefaultColumns(t, c, TR!Required(t, c)) # None
  PROVE  \E Y : TR!DefaultColumns(t, c, TR!Required(t, c)) \in Seq(Y)
<1> DEFINE Y == FileNames \cup {c.subject, c.name, c.role, c.amount, c.basis, c.date, c.year, c.source}
<1>1. PICK r : r = TR!Required(t, c)
  OBVIOUS
<1>2. r.who \in Seq(Y)
  <2>1. <<c.subject, c.name, c.role>> \in Seq(Y)
    OBVIOUS
  <2> HIDE DEF Y
  <2> QED
    BY <1>1, <2>1, PresentOnce DEF TR!Required
<1>3. r.source \in Seq(Y)
  <2>1. <<c.source>> \in Seq(Y)
    OBVIOUS
  <2> HIDE DEF Y
  <2> QED
    BY <1>1, <2>1, PresentOnce DEF TR!Required
<1>4. r.rest \in Seq(Y)
  <2> DEFINE money == IF c.amount = None THEN <<>> ELSE <<c.amount, c.basis>> \o NameRules.qualifiers
             day == IF c.date \in t.columns THEN c.date ELSE c.year
  <2>1. NameRules.qualifiers \in Seq(Y) /\ <<c.amount, c.basis>> \in Seq(Y) /\ <<day>> \in Seq(Y)
    BY DEF TR!TableReadingAssumption
  <2>2. money \o <<day>> \in Seq(Y)
    <3> HIDE DEF Y, day
    <3> QED
      BY <2>1
  <2>3. r.rest = TR!Present(t, money \o <<day>>)
    BY <1>1 DEF TR!Required
  <2> HIDE DEF Y, money, day
  <2> QED
    BY <2>2, <2>3, PresentOnce
<1>5. c.observation \in Seq(Y)
  OBVIOUS
<1> HIDE DEF Y
<1>6. PICK needed : needed = TR!Present(t, r.who \o r.rest \o r.source)
  OBVIOUS
<1>7. needed \in Seq(Y)
  <2>1. r.who \o r.rest \o r.source \in Seq(Y)
    BY <1>2, <1>3, <1>4
  <2> QED
    BY <1>6, <2>1, PresentOnce
<1>8. PICK more : more = TR!Among(TR!Present(t, c.observation), t.columns \ (TR!Range(needed) \cup LineageNames))
  OBVIOUS
<1>9. more \in Seq(Y)
  <2>1. TR!Present(t, c.observation) \in Seq(Y)
    BY <1>5, PresentOnce
  <2> QED
    BY <1>8, <2>1, SameFilter, AmongKeeps
<1>10. PICK found : found = TR!DefaultColumns(t, c, r)
  OBVIOUS
<1>11. found = IF Len(needed) > OpeningLimit THEN None
               ELSE TR!Present(t, r.who \o r.rest \o TR!Firsts(more, OpeningLimit - Len(needed)) \o r.source)
  BY <1>6, <1>8, <1>10 DEF TR!DefaultColumns, TR!Around
<1>12. ~(Len(needed) > OpeningLimit) /\ OpeningLimit - Len(needed) \in Nat
  BY <1>1, <1>7, <1>10, <1>11 DEF TR!TableReadingAssumption
<1>13. PICK some : some = TR!Firsts(more, OpeningLimit - Len(needed))
  OBVIOUS
<1>14. some \in Seq(Y)
  BY <1>9, <1>12, <1>13, FirstOnes
<1>15. r.who \o r.rest \o some \o r.source \in Seq(Y)
  BY <1>2, <1>3, <1>4, <1>14
<1>16. found \in Seq(Y)
  BY <1>11, <1>12, <1>13, <1>15, PresentOnce
<1> QED
  BY <1>1, <1>10, <1>16

LEMMA OverOf ==
  \A c, more :
    /\ DOMAIN TR!Over(c, more) = DOMAIN c \cup DOMAIN more
    /\ \A f \in DOMAIN c \ DOMAIN more : TR!Over(c, more)[f] = c[f]
    /\ \A f \in DOMAIN more : TR!Over(c, more)[f] = more[f]
BY DEF TR!Over

(* Laid over a contract, a preset or an override leaves each field a list    *)
(* that was one, or makes it another.                                        *)
LEMMA OverKeepsList ==
  ASSUME NEW Y, NEW c, NEW more, NEW f, f \in DOMAIN c, c[f] \in Seq(Y),
         f \in DOMAIN more => more[f] \in Seq(Y)
  PROVE  f \in DOMAIN TR!Over(c, more) /\ TR!Over(c, more)[f] \in Seq(Y)
<1>1. CASE f \in DOMAIN more
  BY <1>1, OverOf
<1>2. CASE f \notin DOMAIN more
  BY <1>2, OverOf
<1> QED
  BY <1>1, <1>2

LEMMA DescribedIsAList ==
  ASSUME TR!TableReadingAssumption, NEW t, NEW c
  PROVE  TR!Described(t, c) \in Seq(FileNames)
<1>1. TR!Among(Describing, t.columns \ (TR!Taken(c) \cup LineageNames)) \in Seq(FileNames)
  BY SameFilter, AmongKeeps DEF TR!TableReadingAssumption
<1>2. TR!Firsts(TR!Among(Describing, t.columns \ (TR!Taken(c) \cup LineageNames)), 4) \in Seq(FileNames)
  BY <1>1, FirstOnes
<1>3. NameRules.revenue \in Seq(FileNames)
  BY DEF TR!TableReadingAssumption
<1> QED
  BY <1>2, <1>3 DEF TR!Described

LEMMA NamedHasNoList ==
  ASSUME NEW t
  PROVE  "observation" \notin DOMAIN TR!Named(t)
<1>1. PICK own : own = [fallback |-> None, builder |-> None, id |-> TR!CustomerRecordId(t),
                        roles |-> {[column |-> col, role |-> col] :
                                     col \in (NameRules.roles \cap t.columns)
                                               \ {TR!PickColumn(t.columns, NameRules["uid"])}}]
  OBVIOUS
<1> DEFINE picked == [role \in {"uid", "name", "role", "year", "date", "subject", "amount", "basis", "source"} |->
                        TR!PickColumn(t.columns, NameRules[role])]
           reported == NameRules.period \subseteq t.columns
           read == [picked EXCEPT !.name = IF picked.uid = None THEN None ELSE @,
                                  !.role = IF picked.uid = None THEN None ELSE @,
                                  !.basis = IF picked.amount = None THEN None ELSE @,
                                  !.year = IF reported THEN None ELSE @,
                                  !.date = IF reported THEN NameRules.start ELSE @]
           kept == [read EXCEPT !.subject = IF @ = read.name THEN None ELSE @]
<1>2. DOMAIN picked = {"uid", "name", "role", "year", "date", "subject", "amount", "basis", "source"}
  OBVIOUS
<1>3. DOMAIN kept = DOMAIN picked
  <2> HIDE DEF picked, reported
  <2> QED
    OBVIOUS
<1>4. picked.uid = TR!PickColumn(t.columns, NameRules["uid"])
  OBVIOUS
<1>5. TR!Named(t) = TR!Over(own, kept)
  BY <1>1, <1>4 DEF TR!Named
<1> HIDE DEF picked, read, kept
<1>6. PICK roles : roles = kept
  OBVIOUS
<1>7. DOMAIN TR!Named(t) = DOMAIN own \cup DOMAIN roles
  BY <1>5, <1>6, OverOf
<1>8. DOMAIN own = {"fallback", "builder", "id", "roles"}
  BY <1>1
<1> QED
  BY <1>2, <1>3, <1>6, <1>7, <1>8

LEMMA DerivedOf ==
  ASSUME TR!TableReadingAssumption, NEW t, NEW o \in Declarations \cup {TR!NoOverride},
         TR!DeriveOf(t, o) # None
  PROVE  Listed(TR!DeriveOf(t, o))
<1>1. PICK n : n = TR!Named(t)
  OBVIOUS
<1>2. PICK seen : seen = TR!Seen(t, n)
  OBVIOUS
<1>3. "observation" \in DOMAIN seen /\ seen["observation"] \in Seq(FileNames)
  <2>1. PICK first : first = [observation |-> TR!Described(t, n)]
    OBVIOUS
  <2>2. /\ seen = TR!Over(first, n) /\ "observation" \in DOMAIN first /\ "observation" \notin DOMAIN n
        /\ first["observation"] \in Seq(FileNames)
    BY <1>1, <1>2, <2>1, NamedHasNoList, DescribedIsAList DEF TR!Seen
  <2> QED
    BY <2>2, OverKeepsList
<1>4. /\ "observation" \in DOMAIN Preset => Preset["observation"] \in Seq(FileNames)
      /\ "defaults" \in DOMAIN Preset => Preset["defaults"] \in Seq(FileNames)
      /\ "observation" \in DOMAIN o => o["observation"] \in Seq(FileNames)
      /\ "defaults" \in DOMAIN o => o["defaults"] \in Seq(FileNames)
  <2>1. CASE o = TR!NoOverride
    BY <2>1 DEF TR!NoOverride, TR!TableReadingAssumption
  <2>2. CASE o \in Declarations
    BY <2>2 DEF TR!TableReadingAssumption
  <2> QED
    BY <2>1, <2>2
<1>5. PICK shown : shown = TR!Over(seen, Preset)
  OBVIOUS
<1>6. "observation" \in DOMAIN shown /\ shown["observation"] \in Seq(FileNames)
  BY <1>3, <1>4, <1>5, OverKeepsList
<1>7. PICK base : base = TR!CustomerTableContract(t)
  OBVIOUS
<1>8. PICK c : c = TR!Overridden(base, o)
  OBVIOUS
<1>9. base # None /\ TR!DeriveOf(t, o) = c
  BY <1>7, <1>8 DEF TR!DeriveOf, TR!Written
<1>10. PICK opening : opening = IF "defaults" \in DOMAIN Preset THEN Preset.defaults
                                ELSE TR!DefaultColumns(t, shown, TR!Required(t, shown))
  OBVIOUS
<1>11. opening # None /\ base = TR!Over(shown, [defaults |-> opening])
  BY <1>1, <1>2, <1>5, <1>7, <1>9, <1>10 DEF TR!CustomerTableContract, TR!Opened
<1>12. PICK Y : opening \in Seq(Y)
  <2>1. CASE "defaults" \in DOMAIN Preset
    BY <1>4, <1>10, <2>1
  <2>2. CASE "defaults" \notin DOMAIN Preset
    <3>1. shown.observation \in Seq(FileNames)
      BY <1>6
    <3> QED
      BY <1>10, <1>11, <2>2, <3>1, DefaultsAreAList
  <2> QED
    BY <2>1, <2>2
<1>13. PICK Z : Z = Y \cup FileNames
  OBVIOUS
<1>14. opening \in Seq(Z) /\ \A s \in Seq(FileNames) : s \in Seq(Z)
  BY <1>12, <1>13
<1>15. /\ "defaults" \in DOMAIN base /\ base["defaults"] \in Seq(Z)
       /\ "observation" \in DOMAIN base /\ base["observation"] \in Seq(Z)
  <2>1. PICK first : first = [defaults |-> opening]
    OBVIOUS
  <2>2. DOMAIN first = {"defaults"} /\ first["defaults"] = opening /\ base = TR!Over(shown, first)
    BY <1>11, <2>1
  <2>3. "defaults" \in DOMAIN base /\ base["defaults"] = opening
    <3>1. "defaults" \in DOMAIN first /\ base = TR!Over(shown, first)
      BY <2>2
    <3>2. base["defaults"] = first["defaults"]
      BY <3>1, OverOf
    <3>3. DOMAIN base = DOMAIN shown \cup DOMAIN first
      BY <3>1, OverOf
    <3> QED
      BY <2>2, <3>1, <3>2, <3>3
  <2>4. "observation" \in DOMAIN base /\ base["observation"] \in Seq(Z)
    <3>1. shown["observation"] \in Seq(Z) /\ "observation" \notin DOMAIN first
      BY <1>6, <1>14, <2>2
    <3> QED
      BY <1>6, <2>2, <3>1, OverKeepsList
  <2> QED
    BY <1>14, <2>3, <2>4
<1>16. PICK told : told = TR!Over(base, o)
  OBVIOUS
<1>17. /\ "defaults" \in DOMAIN told /\ told["defaults"] \in Seq(Z)
       /\ "observation" \in DOMAIN told /\ told["observation"] \in Seq(Z)
  <2>1. /\ "observation" \in DOMAIN o => o["observation"] \in Seq(Z)
        /\ "defaults" \in DOMAIN o => o["defaults"] \in Seq(Z)
    BY <1>4, <1>14
  <2> QED
    BY <1>15, <1>16, <2>1, OverKeepsList
<1>18. c.defaults = told["defaults"] /\ c.observation = told["observation"]
  BY <1>8, <1>16, <1>17 DEF TR!Overridden
<1> QED
  BY <1>9, <1>17, <1>18 DEF Listed

LEMMA OpensRight ==
  ASSUME TR!TableReadingAssumption, NEW t, NEW c, Listed(c), NEW opened,
         opened = TR!DisplayColumns(t, c)
  PROVE  /\ TR!Range(opened) \subseteq TR!Openable(t, c)
         /\ TR!Cardinality(TR!Range(opened)) = Len(opened)
         /\ (\E col \in TR!Range(opened) : ~TR!Filled(t, col))
              => TR!Cardinality({col \in TR!Range(opened) : TR!Filled(t, col)}) < 3
<1>0. PICK Y : c.defaults \in Seq(Y) /\ c.observation \in Seq(Y)
  BY DEF Listed
<1> DEFINE Z == Y \cup FileNames \cup {LinkName, c.name, c.amount, c.date, c.source}
<1>1. /\ c.defaults \in Seq(Z) /\ c.observation \in Seq(Z)
      /\ DisplayOrder \in Seq(Z) /\ Once(DisplayOrder) /\ Explained \in Seq(Z)
  BY <1>0, RangeOf DEF TR!TableReadingAssumption
<1>2. /\ <<LinkName>> \in Seq(Z) /\ <<>> \in Seq(Z) /\ <<c.name>> \in Seq(Z)
      /\ \A source \in {LinkName, c.source} : <<c.amount, c.date, source>> \in Seq(Z)
  OBVIOUS
<1> HIDE DEF Z
<1>3. PICK declared : declared = TR!Among(DisplayOrder, TR!Openable(t, c))
  OBVIOUS
<1>4. declared \in Seq(Z) /\ Once(declared) /\ Of(declared) \subseteq TR!Openable(t, c)
  BY <1>1, <1>3, SameFilter, AmongKeeps
<1>5. PICK view : view = TR!DeclaredView(t, c)
  OBVIOUS
<1>6. view \in Seq(Z) /\ Once(view) /\ Of(view) \subseteq TR!Openable(t, c)
  <2>1. PICK own : own = TR!Among(c.defaults, TR!PublicColumns(t))
    OBVIOUS
  <2>2. own \in Seq(Z) /\ Of(own) \subseteq TR!PublicColumns(t)
    BY <1>1, <2>1, SameFilter, AmongKeeps
  <2>3. PICK link : link = IF TR!Built(t, c) THEN <<LinkName>> ELSE <<>>
    OBVIOUS
  <2>4. link \in Seq(Z) /\ Of(link) \subseteq (IF TR!Built(t, c) THEN {LinkName} ELSE {})
    BY <1>2, <2>3 DEF Of
  <2>5. PICK both : both = own \o link
    OBVIOUS
  <2>6. both \in Seq(Z) /\ Of(both) \subseteq TR!Openable(t, c)
    <3>1. own \o link \in Seq(Z) /\ Of(own \o link) = Of(own) \cup Of(link)
      BY <2>2, <2>4, Joined
    <3> QED
      BY <2>2, <2>4, <2>5, <3>1 DEF TR!Openable
  <2>7. PICK source \in {LinkName, c.source} : source = IF TR!Built(t, c) THEN LinkName ELSE c.source
    OBVIOUS
  <2>8. PICK roles : roles = <<c.name>> \o c.observation \o <<c.amount, c.date, source>>
    OBVIOUS
  <2>9. roles \in Seq(Z)
    BY <1>1, <1>2, <2>8
  <2>10. PICK roleFirst : roleFirst = TR!Among(roles, TR!Openable(t, c))
    OBVIOUS
  <2>11. roleFirst \in Seq(Z) /\ Of(roleFirst) \subseteq TR!Openable(t, c)
    BY <2>9, <2>10, SameFilter, AmongKeeps
  <2>12. PICK told : told = TR!Among(Explained, TR!PublicColumns(t) \ LineageNames)
    OBVIOUS
  <2>13. told \in Seq(Z) /\ Of(told) \subseteq TR!PublicColumns(t)
    BY <1>1, <2>12, SameFilter, AmongKeeps
  <2>14. PICK fallback : fallback = roleFirst \o told
    OBVIOUS
  <2>15. fallback \in Seq(Z) /\ Of(fallback) \subseteq TR!Openable(t, c)
    <3>1. roleFirst \o told \in Seq(Z) /\ Of(roleFirst \o told) = Of(roleFirst) \cup Of(told)
      BY <2>11, <2>13, Joined
    <3> QED
      BY <2>11, <2>13, <2>14, <3>1 DEF TR!Openable
  <2>16. view = TR!Distinct(IF own # <<>> THEN both ELSE fallback)
    BY <1>5, <2>1, <2>3, <2>5, <2>7, <2>8, <2>10, <2>12, <2>14 DEF TR!DeclaredView
  <2>17. PICK long : long = IF own # <<>> THEN both ELSE fallback
    OBVIOUS
  <2>18. long \in Seq(Z) /\ Of(long) \subseteq TR!Openable(t, c)
    BY <2>6, <2>15, <2>17
  <2> QED
    BY <2>16, <2>17, <2>18, DistinctOnce
<1>7. PICK base : base = IF Len(declared) >= 3 THEN declared ELSE view
  OBVIOUS
<1>8. base \in Seq(Z) /\ Once(base) /\ Of(base) \subseteq TR!Openable(t, c) /\ TR!Range(base) = Of(base)
  BY <1>4, <1>6, <1>7, RangeOf
<1>9. PICK kept : kept = TR!Among(base, {col \in TR!Range(base) : TR!Filled(t, col)})
  OBVIOUS
<1>10. kept \in Seq(Z) /\ Once(kept) /\ Of(kept) = {col \in Of(base) : TR!Filled(t, col)}
  BY <1>8, <1>9, SameFilter, AmongKeeps
<1>11. opened = IF Len(kept) >= 3 THEN kept ELSE base
  BY <1>3, <1>5, <1>7, <1>9 DEF TR!DisplayColumns
<1>12. opened \in Seq(Z) /\ Once(opened) /\ Of(opened) \subseteq TR!Openable(t, c) /\ TR!Range(opened) = Of(opened)
  BY <1>8, <1>10, <1>11, RangeOf
<1>13. Cardinality(Of(opened)) = Len(opened) /\ Cardinality(Of(kept)) = Len(kept) /\ Len(kept) \in Nat
  <2>1. Cardinality(Of(opened)) = Len(opened)
    BY <1>12, CountedOnce
  <2>2. kept \in Seq(Z) /\ Once(kept)
    BY <1>10
  <2>3. Cardinality(Of(kept)) = Len(kept) /\ Len(kept) \in Nat
    BY <2>2, CountedOnce
  <2> QED
    BY <2>1, <2>3
<1>14. \A X : TR!Cardinality(X) = Cardinality(X)
  BY DEF TR!Cardinality, Cardinality
<1>15. ASSUME NEW col \in Of(opened), ~TR!Filled(t, col)
       PROVE  Cardinality({k \in Of(opened) : TR!Filled(t, k)}) < 3
  <2>1. ~(Len(kept) >= 3) /\ opened = base
    BY <1>10, <1>11, <1>15
  <2>2. {k \in Of(opened) : TR!Filled(t, k)} = Of(kept)
    BY <1>10, <2>1
  <2>3. Len(kept) < 3
    BY <1>13, <2>1
  <2> QED
    BY <1>13, <2>2, <2>3
<1> QED
  BY <1>12, <1>13, <1>14, <1>15

LEMMA TableIsRight ==
  ASSUME TR!TableReadingAssumption, TableInv
  PROVE  TR!OpensOnWhatItCarries
<1>1. SUFFICES ASSUME s3 # None, NEW opened, opened = TR!DisplayColumns(s1, s3)
               PROVE  /\ TR!Range(opened) \subseteq TR!Openable(s1, s3)
                      /\ TR!Cardinality(TR!Range(opened)) = Len(opened)
                      /\ (\E col \in TR!Range(opened) : ~TR!Filled(s1, col))
                           => TR!Cardinality({col \in TR!Range(opened) : TR!Filled(s1, col)}) < 3
  BY DEF TR!OpensOnWhatItCarries
<1>2. Listed(s3)
  BY <1>1 DEF TableInv
<1> QED
  BY <1>1, <1>2, OpensRight

LEMMA InitTable ==
  ASSUME TR!Init
  PROVE  TableInv
BY DEF TR!Init, TableInv

LEMMA StepKeepsTable ==
  ASSUME TR!TableReadingAssumption, TableInv, [TR!Next]_(TR!vars)
  PROVE  TableInv'
<1>1. ASSUME NEW col \in FileNames, TR!RenderColumn(col) \/ TR!RenderValues(col) PROVE TableInv'
  BY <1>1 DEF TableInv, Listed, TR!RenderColumn, TR!RenderValues, TR!Edit
<1>2. ASSUME NEW o \in Declarations, TR!Declare(o) PROVE TableInv'
  BY <1>2 DEF TableInv, Listed, TR!Declare, TR!Edit
<1>3. CASE TR!Derive
  <2>1. PICK c : c = TR!DeriveOf(s1, s2)
    OBVIOUS
  <2>2. s3' = c /\ c # None /\ s2' = s2
    BY <1>3, <2>1 DEF TR!Derive
  <2>3. Listed(c)
    BY <2>1, <2>2, DerivedOf DEF TableInv
  <2> QED
    BY <2>2, <2>3 DEF TableInv, Listed
<1>4. CASE UNCHANGED TR!vars
  BY <1>4 DEF TableInv, Listed, TR!vars
<1> QED
  BY <1>1, <1>2, <1>3, <1>4 DEF TR!Next

LEMMA RecordRun ==
  /\ ClientInit /\ part = "record" => RP!Init
  /\ part = "record" /\ [ClientNext]_clientVars => [RP!Next]_(RP!vars)
<1>1. ClientInit /\ part = "record" => RP!Init
  BY DEF ClientInit
<1>2. part = "record" /\ ClientNext => RP!Next
  BY DEF ClientNext
<1>3. UNCHANGED clientVars => UNCHANGED RP!vars
  BY DEF clientVars, RP!vars, RP!link, RP!switches
<1> QED
  BY <1>1, <1>2, <1>3

LEMMA TableRun ==
  /\ ClientInit /\ part = "table" => TR!Init
  /\ part = "table" /\ [ClientNext]_clientVars => [TR!Next]_(TR!vars)
<1>1. ClientInit /\ part = "table" => TR!Init
  BY DEF ClientInit
<1>2. part = "table" /\ ClientNext => TR!Next
  BY DEF ClientNext
<1>3. UNCHANGED clientVars => UNCHANGED TR!vars
  BY DEF clientVars, TR!vars
<1> QED
  BY <1>1, <1>2, <1>3

-----------------------------------------------------------------------------
(* The results.                                                             *)

(* The hook by itself, run by anything that only asks, answers, settles,    *)
(* cancels and remounts through it.                                         *)
ThreadSpec == R!ThreadInit /\ [][ThreadNext]_R!threadVars

(* The door and the reader's panel do nothing to a thread but run the hook: *)
(* each step of theirs is one of its steps or changes nothing of it         *)
(* (PressDoorCedar.jsx, PressCedarFab.jsx over useCedarThread.js).          *)
THEOREM DoorImplementsTheHook == D!DoorSpec => ThreadSpec
<1>1. D!DoorInit => R!ThreadInit
  BY SameHook DEF D!DoorInit
<1> QED
  BY <1>1, DoorRunsTheHook, PTL DEF D!DoorSpec, ThreadSpec

THEOREM ReaderImplementsTheHook == R!ReaderSpec => ThreadSpec
<1>1. R!ReaderInit => R!ThreadInit
  BY DEF R!ReaderInit
<1> QED
  BY <1>1, ReaderRunsTheHook, PTL DEF R!ReaderSpec, ThreadSpec

(* Whatever a surface asks for and however late an answer comes: the        *)
(* indicator is up exactly while one ask is composed for, an answer stands  *)
(* under its question, and it is worded from the thread's present memory    *)
(* (useCedarThread.js).                                                     *)
THEOREM ThreadsAreRight ==
  ThreadSpec => [](R!PendingMeansComposing /\ R!AnswersFollowTheirQuestion /\ R!MemoryIsCurrent)
<1>1. R!ThreadInit => HookInv
  BY InitHook
<1>2. HookInv /\ [ThreadNext]_R!threadVars => HookInv'
  BY StepKeepsHook
<1>3. HookInv => R!PendingMeansComposing /\ R!AnswersFollowTheirQuestion /\ R!MemoryIsCurrent
  BY HookIsRight
<1> QED
  BY <1>1, <1>2, <1>3, PTL DEF ThreadSpec

(* The reader's panel: an answer never lands under the heading of another   *)
(* collection than it was asked about, the quick replies on screen are      *)
(* about the collection named (PressCedarFab.jsx onScope, readerCedar.js).  *)
THEOREM ScopesAreKept ==
  ASSUME R!ThreadAssumption, R!ReaderAssumption
  PROVE  R!ReaderSpec => [](R!AnswerUnderItsScope /\ R!QuickRepliesInScope)
<1>1. R!ReaderInit => ReaderInv
  BY InitReader
<1>2. ReaderInv /\ [R!ReaderNext]_R!allVars => ReaderInv'
  BY StepKeepsReader
<1>3. ReaderInv => R!AnswerUnderItsScope /\ R!QuickRepliesInScope
  BY ReaderIsRight DEF ReaderInv
<1> QED
  BY <1>1, <1>2, <1>3, PTL DEF R!ReaderSpec

(* The reader's panel: no question is answered twice without a word that it *)
(* was, none that was answered is offered again, across re-scoping, failed  *)
(* calls and drill-downs (PressCedarFab.jsx, readerCedar.js fabFollowUps).  *)
THEOREM NothingIsRepeated ==
  ASSUME R!ThreadAssumption, R!ReaderAssumption
  PROVE  R!ReaderSpec => [](R!NeverColdTwice /\ R!NoReOffer)
<1>1. R!ReaderInit => ReaderInv
  BY InitReader
<1>2. ReaderInv /\ [R!ReaderNext]_R!allVars => ReaderInv'
  BY StepKeepsReader
<1>3. ReaderInv => R!NeverColdTwice /\ R!NoReOffer
  BY ReaderIsRight DEF ReaderInv
<1> QED
  BY <1>1, <1>2, <1>3, PTL DEF R!ReaderSpec

(* The door hands the reader to a person on the second miss in a row, and   *)
(* on no other answer, whatever was cancelled in between                    *)
(* (cedarConversation.js remember, missAnswer).                             *)
THEOREM SecondMissHandsOff == D!DoorSpec => []D!HandsOffOnSecondMiss
<1>1. D!DoorInit => DoorInv
  BY InitDoor
<1>2. DoorInv /\ [D!DoorNext]_(D!doorVars) => DoorInv'
  BY StepKeepsDoor
<1>3. DoorInv => D!HandsOffOnSecondMiss
  BY DEF DoorInv
<1> QED
  BY <1>1, <1>2, <1>3, PTL DEF D!DoorSpec

(* The door: "Tell me more", offered, is answered with a deeper text the    *)
(* thread has not shown, and no other quick reply is of a topic the thread  *)
(* answered (cedarConversation.js followUpsFor, resolveLocally).            *)
THEOREM WhatIsOfferedIsNew ==
  ASSUME R!ThreadAssumption, D!BankAssumption
  PROVE  D!DoorSpec => [](D!TellMoreDeepens /\ D!QuickRepliesAreNew)
<1>1. D!DoorInit => BankInv
  BY InitBank
<1>2. BankInv /\ [D!DoorNext]_(D!doorVars) => BankInv'
  BY StepKeepsBank
<1>3. BankInv => D!TellMoreDeepens /\ D!QuickRepliesAreNew
  BY BankIsRight
<1> QED
  BY <1>1, <1>2, <1>3, PTL DEF D!DoorSpec

(* The client: whatever part a behaviour is of, the reader's panel composes  *)
(* one answer at a time, at the scope it names, and repeats nothing          *)
(* (PressCedarFab.jsx, readerCedar.js).                                      *)
THEOREM ClientKeepsThread == ClientSpec => []ReaderThread
<1> DEFINE Here == part = "reader"
           Hook == R!PendingMeansComposing
           Scoped == R!AnswerUnderItsScope /\ R!QuickRepliesInScope
           Anew == R!NeverColdTwice /\ R!NoReOffer
<1>1. ClientInit /\ Here => R!ReaderInit
  BY DEF ClientInit
<1>2. Here /\ [ClientNext]_clientVars => [R!ReaderNext]_R!allVars
  <2>1. Here /\ ClientNext => R!ReaderNext
    BY DEF ClientNext
  <2>2. UNCHANGED clientVars => UNCHANGED R!allVars
    BY DEF clientVars, R!allVars, R!threadVars, R!readerVars, thread, composing, abortRef, flights, aborted,
           asks, gated, connected, scope, serviceThread, handOffs
  <2> QED
    BY <2>1, <2>2
<1>3. [ClientNext]_clientVars => (Here' <=> Here)
  BY DEF ClientNext, clientVars
<1>4. R!ReaderSpec => []Hook
  BY ReaderImplementsTheHook, ThreadsAreRight, PTL
<1>5. R!ReaderSpec => []Scoped
  BY ScopesAreKept, PartsAssumption DEF PartsAssumption
<1>6. R!ReaderSpec => []Anew
  BY NothingIsRepeated, PartsAssumption DEF PartsAssumption
<1>7. (Here => Hook /\ Scoped /\ Anew) => ReaderThread
  BY DEF ReaderThread
<1> HIDE DEF Here, Hook, Scoped, Anew
<1> QED
  BY <1>1, <1>2, <1>3, <1>4, <1>5, <1>6, <1>7, PTL DEF ClientSpec, R!ReaderSpec

(* The client: on the public page a conversation is kept like that too: one  *)
(* answer at a time, under its question and from the memory it was asked in, *)
(* quick replies that lead on, and a hand-off on the second miss             *)
(* (PressDoorCedar.jsx, cedarConversation.js).                               *)
THEOREM ClientKeepsDoor == ClientSpec => []DoorThread
<1> DEFINE Here == part = "door"
           Hook == D!PendingMeansComposing /\ D!AnswersFollowTheirQuestion /\ D!MemoryIsCurrent
           New == D!TellMoreDeepens /\ D!QuickRepliesAreNew
           Misses == D!HandsOffOnSecondMiss
<1>1. ClientInit /\ Here => D!DoorInit
  BY DEF ClientInit
<1>2. Here /\ [ClientNext]_clientVars => [D!DoorNext]_(D!doorVars)
  <2>1. Here /\ ClientNext => D!DoorNext
    BY DEF ClientNext
  <2>2. UNCHANGED clientVars => UNCHANGED D!doorVars
    BY DEF clientVars, D!doorVars, D!threadVars, thread, composing, abortRef, flights, aborted, asks, doorOpen
  <2> QED
    BY <2>1, <2>2
<1>3. [ClientNext]_clientVars => (Here' <=> Here)
  BY DEF ClientNext, clientVars
<1>4. R!PendingMeansComposing /\ R!AnswersFollowTheirQuestion /\ R!MemoryIsCurrent => Hook
  <2>1. D!Live = R!Live /\ D!Cardinality(D!Live) = R!Cardinality(R!Live)
    BY DEF D!Live, R!Live, D!Cardinality, R!Cardinality
  <2> QED
    BY <2>1 DEF R!PendingMeansComposing, R!AnswersFollowTheirQuestion, R!MemoryIsCurrent,
                D!PendingMeansComposing, D!AnswersFollowTheirQuestion, D!MemoryIsCurrent
<1>5. D!DoorSpec => []Hook
  <2> HIDE DEF Hook
  <2> QED
    BY <1>4, DoorImplementsTheHook, ThreadsAreRight, PTL
<1>6. D!DoorSpec => []New
  BY WhatIsOfferedIsNew, PartsAssumption DEF PartsAssumption
<1>7. D!DoorSpec => []Misses
  BY SecondMissHandsOff
<1>8. (Here => Hook /\ New /\ Misses) => DoorThread
  BY DEF DoorThread
<1> HIDE DEF Here, Hook, New, Misses
<1> QED
  BY <1>1, <1>2, <1>3, <1>5, <1>6, <1>7, <1>8, PTL DEF ClientSpec, D!DoorSpec

(* A record's page, whatever part a behaviour is of: every column that the   *)
(* head, the summary and the evidence do not speak for is in the details or  *)
(* in one group, in one place only, whatever its table's contract, codebook  *)
(* and cells are; and where no record is shown its heading and the line      *)
(* under it give one reason, whatever was read and whatever plan the reader  *)
(* comes to have (CedarPressRecord.jsx, useSamples.js).                      *)
THEOREM ClientKeepsRecord == ClientSpec => []RecordIsWhole
<1> DEFINE Here == part = "record"
           Kept == RP!EveryColumnOnce /\ RP!HeadingFits
<1>1. ClientInit /\ Here => RecordInv
  BY RecordRun, InitRecord
<1>2. Here /\ RecordInv /\ [ClientNext]_clientVars => RecordInv'
  BY RecordRun, StepKeepsRecord
<1>3. [ClientNext]_clientVars => (Here' <=> Here)
  BY DEF ClientNext, clientVars
<1>4. RecordInv => Kept
  BY RecordIsRight, PartsAssumption DEF PartsAssumption
<1>5. (Here => Kept) => RecordIsWhole
  BY DEF RecordIsWhole
<1> HIDE DEF Here, Kept
<1> QED
  BY <1>1, <1>2, <1>3, <1>4, <1>5, PTL DEF ClientSpec

(* A table, whatever part a behaviour is of: whatever contract was committed *)
(* under it, overridden by hand or behind the file that was published, it    *)
(* opens on columns the file carries, each once, with a blank one only where *)
(* there is too little else (recordColumns.js, showcase.js,                  *)
(* derive-explore.mjs).                                                      *)
THEOREM ClientKeepsTable == ClientSpec => []TableOpens
<1> DEFINE Here == part = "table"
           Kept == TR!OpensOnWhatItCarries
<1>1. ClientInit /\ Here => TableInv
  BY TableRun, InitTable
<1>2. Here /\ TableInv /\ [ClientNext]_clientVars => TableInv'
  BY TableRun, StepKeepsTable, PartsAssumption DEF PartsAssumption
<1>3. [ClientNext]_clientVars => (Here' <=> Here)
  BY DEF ClientNext, clientVars
<1>4. TableInv => Kept
  BY TableIsRight, PartsAssumption DEF PartsAssumption
<1>5. (Here => Kept) => TableOpens
  BY DEF TableOpens
<1> HIDE DEF Here, Kept
<1> QED
  BY <1>1, <1>2, <1>3, <1>4, <1>5, PTL DEF ClientSpec
=============================================================================
