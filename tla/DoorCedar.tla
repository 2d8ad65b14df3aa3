------------------------------ MODULE DoorCedar ------------------------------
(***************************************************************************)
(* Cedar on the door: PressDoorCedar.jsx over a bank of intents matched     *)
(* locally (the matcher and the resolver of cedarConversation.js with the   *)
(* bank of doorCedar.js).                                                   *)
(*                                                                          *)
(* A question is what normalising and indexing it yields: "has", the bank's *)
(* phrases it contains; "is", the phrase it consists of, a trailing please  *)
(* aside; "short", under two letters; "hits", what the typo index finds for *)
(* its longer words, in their order; "near", the topics the nearest-topic   *)
(* index finds, closest first; "who", the audiences whose words it carries, *)
(* in declaration order.                                                    *)
(* An answer's text is a tuple that tells apart the texts the bank holds.   *)
(***************************************************************************)
EXTENDS CedarThread, SequencesExt, Filtering

CONSTANTS
  Bank,            \* the intents in declaration order
  Intent,          \* each one's chip, its label's audiences (who), deep (has a deeper answer),
                   \* variants, triggers, next
  WordsOf,         \* the words of each phrase
  OutOfScope,      \* phrases of questions the door is not for
  DrillIds, AffirmIds,
  DefaultFollowUps,
  Starters,        \* the five chips of an empty panel
  AudienceRoute,   \* the intent each audience is sent to
  DoorQuestions,   \* what a visitor types
  TellMore,        \* the question of the "Tell me more" quick reply
  Collections,     \* collections a page can hand over
  CollectionIntent, \* the intent of each, None for one without
  CollectionQuestion \* the question such a hand-over asks, by collection

VARIABLE open    \* whether the panel is open

doorVars == <<threadVars, open>>

Intents == ToSet(Bank)

-----------------------------------------------------------------------------
(* The matcher.                                                             *)

Score(t, q) ==
  MapThenSumSet(LAMBDA p : IF WordsOf[p] > 1 THEN WordsOf[p] ELSE 1,
                Intent[t].triggers \cap q.has)

Scored(q, out) == {t \in Intents \ out : ~q.short /\ Score(t, q) > 0}

TopScore(q, out) == Max({0} \cup {Score(t, q) : t \in Scored(q, out)})

TopMatches(q, out) ==
  Among(Bank, {t \in Scored(q, out) : Score(t, q) = TopScore(q, out)})

Classify(q, out) == Head(Append(TopMatches(q, out), None))

IsBare(q, t) == q.is \in Intent[t].triggers

(* The best other topic, kept when it is a multi-word hit or ties.          *)
Secondary(q, primary, out) ==
  LET rest == {t \in Scored(q, out) : t # primary /\ Intent[t].chip}
      top  == Max({Score(t, q) : t \in rest})
      own  == IF primary \in Scored(q, out) THEN Score(primary, q) ELSE 0
  IN IF rest = {} \/ ~(top >= 2 \/ top = own) THEN None
     ELSE Head(Among(Bank, {t \in rest : Score(t, q) = top}))

(* A typo rescue: the closest hit, the first one on a tie, that is near     *)
(* enough and about as long as the word.                                    *)
Fuzzy(q) ==
  LET good == {i \in 1..Len(q.hits) : q.hits[i].near /\ q.hits[i].lengthGap <= 2}
      best == {i \in good : \A j \in good : q.hits[i].score <= q.hits[j].score}
  IN IF best = {} THEN None ELSE q.hits[Min(best)].intent

(* The distinct topics nearest to a question, three of the six the index    *)
(* returns at most.                                                         *)
Nearest(q) ==
  LET first == [i \in 1..(IF Len(q.near) < 6 THEN Len(q.near) ELSE 6) |->
                  IF \E j \in 1..(i - 1) : q.near[j] = q.near[i] THEN None ELSE q.near[i]]
      found == Among(first, Intents)
  IN SubSeq(found, 1, IF Len(found) < 3 THEN Len(found) ELSE 3)

DetectAudience(q) == IF q.who = <<>> THEN None ELSE Head(q.who)

IsOutOfScope(q) == OutOfScope \cap q.has # {}

-----------------------------------------------------------------------------
(* The resolver.                                                            *)

ShouldClarify(score, n) == n >= 3 \/ (score >= 2 /\ n >= 2)

Bridges == 3
MaxFollowUps == 3

Capped(s) == SubSeq(s, 1, IF Len(s) < MaxFollowUps THEN Len(s) ELSE MaxFollowUps)

RepeatAnswer(t, times, deepSeen) ==
  IF Intent[t].variants > 0 THEN <<"variant", t, (times - 1) % Intent[t].variants>>
  ELSE IF Intent[t].deep /\ ~deepSeen THEN <<"deeper", t, 0>>
  ELSE <<"again", t, (times - 1) % Bridges>>

Reply(kind, t, text, cands, second, deepened) ==
  [kind |-> kind, intent |-> t, text |-> text, cands |-> cands, second |-> second,
   missed |-> kind = "miss", deepened |-> deepened]

(* A miss says so, offers the nearest topics, and may name a person.        *)
MissAnswer(near, handingOff) == <<"miss", near, handingOff>>

HandingOff(memory) == memory.misses + 1 >= 2

(* A bare follow-up phrase asks for the deeper answer of the last topic.    *)
DrillsDown(memory, q, t) ==
  /\ t \in DrillIds \cup AffirmIds /\ IsBare(q, t)
  /\ memory.prior # None /\ Intent[memory.prior].deep

(* An out-of-scope question beats a one-word match; with no match left, a   *)
(* typo is tried.                                                           *)
TopicOf(q, forced, matched, score) ==
  IF forced # None \/ (matched # None /\ ~(IsOutOfScope(q) /\ score <= 1)) THEN matched
  ELSE IF IsOutOfScope(q) THEN None ELSE Fuzzy(q)

(* A topic answered before is acknowledged as a repeat.                     *)
AnswerOn(memory, t, second) ==
  LET seen == memory.answered[t]
      deepened == /\ seen > 0 /\ Intent[t].variants = 0 /\ Intent[t].deep
                  /\ t \notin memory.shown
  IN Reply(IF seen > 0 THEN "repeat" ELSE "answer", t,
           IF seen > 0 THEN RepeatAnswer(t, seen, t \in memory.shown) ELSE <<"answer", t, 0>>,
           <<>>, second, deepened)

(* The question put back to the reader, the miss, or the answer.            *)
Settled(memory, q, forced, t, score, cands, out) ==
  IF forced = None /\ ~IsOutOfScope(q) /\ ShouldClarify(score, Len(cands))
  THEN Reply("clarify", None, <<"clarify", Capped(cands), 0>>, cands, None, FALSE)
  ELSE IF t = None
  THEN Reply("miss", None, MissAnswer(Nearest(q), HandingOff(memory)), Nearest(q), None, FALSE)
  ELSE AnswerOn(memory, t, IF forced # None \/ t \in NonTopics THEN None ELSE Secondary(q, t, out))

(* Outside the follow-up phrases, when one of them was not all that was said.*)
Scoring(memory, q, forced, matched, out) ==
  Settled(memory, q, forced, TopicOf(q, forced, matched, TopScore(q, out)), TopScore(q, out),
          Among(TopMatches(q, out), {t \in Intents : Intent[t].chip}), out)

Resolved(memory, q, forced, first) ==
  LET follow == DrillIds \cup AffirmIds IN
  IF forced = None /\ DrillsDown(memory, q, first)
  THEN Reply("drilldown", memory.prior, <<"deep", memory.prior, 0>>, <<>>, None, FALSE)
  ELSE IF forced = None /\ first \in follow /\ ~IsBare(q, first)
  THEN Scoring(memory, q, forced, Classify(q, follow), follow)
  ELSE Scoring(memory, q, forced, first, {})

ResolveLocally(memory, q, forced) ==
  Resolved(memory, q, forced, IF forced # None THEN forced ELSE Classify(q, {}))

-----------------------------------------------------------------------------
(* The quick replies: at most three, each a topic or "Tell me more".        *)

Chip(t) == [tell |-> FALSE, intent |-> t]
TellMoreChip == [tell |-> TRUE, intent |-> None]

Push(memory, reply, out, t) ==
  IF \/ Len(out) >= MaxFollowUps
     \/ t \notin Intents \/ t = reply.intent \/ memory.answered[t] > 0
     \/ ~Intent[t].chip \/ Chip(t) \in ToSet(out)
  THEN out ELSE Append(out, Chip(t))

PushAll(memory, reply, out, ts) ==
  LET pushed[n \in 0..Len(ts)] ==
        IF n = 0 THEN out ELSE Push(memory, reply, pushed[n - 1], ts[n])
  IN pushed[Len(ts)]

(* "Tell me more" stands under an answer whose deeper text is not shown yet.*)
OffersMore(memory, reply) ==
  /\ reply.intent # None /\ reply.kind # "drilldown" /\ ~reply.deepened
  /\ Intent[reply.intent].deep /\ reply.intent \notin memory.shown

FollowUpsFor(memory, reply) ==
  LET t       == reply.intent
      second  == PushAll(memory, reply, <<>>, IF reply.second = None THEN <<>> ELSE <<reply.second>>)
      more    == IF OffersMore(memory, reply) THEN Append(second, TellMoreChip) ELSE second
      route   == IF memory.audience = None THEN <<>> ELSE <<AudienceRoute[memory.audience]>>
      related == IF t # None /\ Intent[t].next # <<>> THEN Intent[t].next ELSE DefaultFollowUps
  IN CASE reply.kind = "miss" ->
            Capped(PushAll(memory, reply, PushAll(memory, reply, <<>>, reply.cands), DefaultFollowUps))
       [] reply.kind = "clarify" ->
            [i \in 1..Len(Capped(reply.cands)) |-> Chip(reply.cands[i])]
       [] OTHER ->
            Capped(PushAll(memory, reply, PushAll(memory, reply, more, route), related))

-----------------------------------------------------------------------------
(* The surface.                                                             *)

(* A chip names its intent, so the resolver reads nothing of its label; the  *)
(* audience is looked for in it as in any question.                          *)
ChipText(t) == [has |-> {}, is |-> None, short |-> FALSE, hits |-> <<>>, near |-> <<>>,
                who |-> Intent[t].who]

Asked == DoorQuestions \cup {TellMore} \cup {CollectionQuestion[c] : c \in Collections}

(* What the door's bank and its indices are: the starters, the collections' *)
(* intents and the hits of an index are intents of the bank, no filler has a*)
(* deeper answer, and "tell me more" is a follow-up phrase and nothing else *)
(* (doorCedar.js).                                                          *)
BankAssumption ==
  /\ Bank \in Seq(Topics) /\ Starters \subseteq Intents
  /\ \A c \in Collections : CollectionIntent[c] \in Intents \cup {None}
  /\ \A t \in Intents : Intent[t].next \in Seq(Topics)
  /\ DefaultFollowUps \in Seq(Topics)
  /\ \A q \in Asked :
       /\ q.near \in Seq(Intents)
       /\ q.hits \in Seq([intent : Intents, near : BOOLEAN, lengthGap : Nat, score : Nat])
  /\ \A t \in Intents \cap NonTopics : ~Intent[t].deep
  /\ LET first == Classify(TellMore, {})
     IN first \in DrillIds \cup AffirmIds /\ IsBare(TellMore, first)

DoorInit == ThreadInit /\ open = FALSE

(* The composer: the send button is disabled while Cedar composes.          *)
Submit(q) ==
  /\ open /\ CanSend
  /\ Ask(q, "typed", None)
  /\ UNCHANGED open

(* A starter, on an empty thread only.                                      *)
TapStarter(t) ==
  /\ open /\ StartersShown
  /\ Ask(ChipText(t), "chip", t)
  /\ UNCHANGED open

(* A quick reply, shown while nothing is being composed.                    *)
TapFollowUp(next) ==
  /\ open /\ RepliesShown
  /\ IF next.tell THEN Ask(TellMore, "tell", None)
     ELSE Ask(ChipText(next.intent), "chip", next.intent)
  /\ UNCHANGED open

(* cedar:ask-collection: replaces the turn in flight, opens the panel.      *)
AskCollection(c) ==
  /\ open' = TRUE
  /\ IF CollectionIntent[c] # None
     THEN Replace(CollectionQuestion[c], "collection", CollectionIntent[c])
     ELSE Cancel /\ UNCHANGED thread

ToggleOpen == open' = ~open /\ UNCHANGED threadVars

(* The bank answers from the memory the ask read.                           *)
Resolve(f) == Answer(f, ResolveLocally(f.memory, f.q, f.ctx)) /\ UNCHANGED open

DoorSettle(f) ==
  /\ Settle(f, DetectAudience(f.q), FollowUpsFor(Biased(thread.memory, DetectAudience(f.q)), f.reply))
  /\ UNCHANGED open

LeaveDoor == Remount /\ open' = FALSE /\ thread.turns # <<>>

DoorNext ==
  \/ \E q \in DoorQuestions : Submit(q)
  \/ \E t \in Starters : TapStarter(t)
  \/ \E i \in 1..Len(thread.followUps) : TapFollowUp(thread.followUps[i])
  \/ \E c \in Collections : AskCollection(c)
  \/ ToggleOpen
  \/ \E f \in flights : Resolve(f)
  \/ \E f \in flights : DoorSettle(f)
  \/ LeaveDoor

DoorSpec == DoorInit /\ [][DoorNext]_doorVars

-----------------------------------------------------------------------------
(* Properties.                                                              *)

CedarTurns == {i \in 1..Len(thread.turns) : thread.turns[i].role = "cedar"}

LastReply == thread.turns[Max(CedarTurns)].reply

(* "Tell me more" is offered only where it goes deeper: asked next, it is   *)
(* answered with the deeper text of the topic it stands under, a text the   *)
(* thread has not shown, and never by a miss or by another topic.           *)
TellMoreDeepens ==
  (TellMoreChip \in ToSet(thread.followUps)) =>
    LET reply == ResolveLocally(thread.memory, TellMore, None)
    IN /\ reply.kind = "drilldown"
       /\ reply.intent = LastReply.intent
       /\ \A i \in CedarTurns : thread.turns[i].reply.text # reply.text

(* The last answer before the j-th turn was a miss.                         *)
AfterMiss(j) ==
  \E i \in 1..(j - 1) :
    /\ thread.turns[i].role = "cedar" /\ thread.turns[i].reply.kind = "miss"
    /\ \A k \in (i + 1)..(j - 1) : thread.turns[k].role # "cedar"

(* The reader is handed to a person on the second miss in a row and on no   *)
(* other answer, whichever questions were cancelled or answered in between. *)
HandsOffOnSecondMiss ==
  \A j \in 1..Len(thread.turns) :
    (thread.turns[j].role = "cedar" /\ thread.turns[j].reply.kind = "miss") =>
      (thread.turns[j].reply.text[3] <=> AfterMiss(j))

(* A quick reply breaks new ground: outside a clarification it is neither   *)
(* the answer it stands under nor a topic this thread answered before.      *)
QuickRepliesAreNew ==
  \A next \in ToSet(thread.followUps) :
    LastReply.kind # "clarify" /\ ~next.tell =>
      \A i \in CedarTurns :
        thread.turns[i].reply.kind \in {"answer", "repeat"} =>
          thread.turns[i].reply.intent # next.intent

=============================================================================
