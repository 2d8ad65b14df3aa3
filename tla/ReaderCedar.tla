----------------------------- MODULE ReaderCedar -----------------------------
(***************************************************************************)
(* Cedar behind the sign-in: PressCedarFab.jsx over readerCedar.js.  The    *)
(* question goes to the service at the scope, a collection or none, it was  *)
(* asked at; a page may re-scope the panel at any moment.                   *)
(*                                                                          *)
(* A topic is a question at a scope.  The texts of the answers are the      *)
(* service's; a reply keeps what the panel decides about it.  Whether the   *)
(* panel is open changes none of this: closing it leaves an ask in flight   *)
(* composing (PanelFocus has the opening and closing).                      *)
(***************************************************************************)
EXTENDS CedarThread, SequencesExt

CONSTANTS
  Scopes,       \* the collections
  Texts,        \* the questions
  More,         \* "tell me more", the one bare follow-up phrase modelled
  Suggested,    \* COLLECTION_JOBS: the questions Cedar can answer about each, <<>> for one without
  ChangesQuestion, \* CEDAR_CHANGES_QUESTION, the last of each
  ScopedExamples, \* SCOPED_EXAMPLES, offered where a collection has none of its own
  FirstFour,    \* the collections an unscoped panel speaks of, in shelf order
  MaxHandOffs   \* bound: the times a page re-scopes the panel

ReaderAssumption ==
  /\ More \in Texts
  /\ None \notin Scopes
  /\ (Scopes \cup {None}) \X Texts \subseteq Topics
  /\ Suggested \in [Scopes -> Seq(Texts)] /\ ChangesQuestion \in Texts
  /\ ScopedExamples \in Seq(Texts) /\ FirstFour \in Seq(Scopes)

VARIABLES
  gated,          \* why Cedar will not query the collections, None when it will
  connected,      \* whether a service is configured
  scope,          \* the collection the panel is about
  serviceThread,  \* the service's own conversation id
  handOffs

readerVars == <<gated, connected, scope, serviceThread, handOffs>>
allVars == <<threadVars, readerVars>>

-----------------------------------------------------------------------------
TopicOf(text, at) == <<at, text>>

IsDrillDown(text) == text = More

(* The reply that needs no call.                                            *)
Unavailable(at) == ~connected \/ at = None

Said(kind, topic, source) ==
  [kind |-> kind, intent |-> topic, source |-> source, missed |-> FALSE, deepened |-> FALSE]

(* How the panel words the service's answer: a drill-down is about the last *)
(* topic, a question answered before in this thread is a repeat.            *)
Worded(f, source) ==
  LET drilling == IsDrillDown(f.q) /\ f.memory.prior # None
      topic    == IF drilling THEN f.memory.prior ELSE TopicOf(f.q, f.ctx)
  IN Said(IF drilling THEN "drilldown"
          ELSE IF f.memory.answered[topic] > 0 THEN "repeat" ELSE "answer",
          topic, source)

(* A candidate becomes a quick reply unless it was answered before, is what *)
(* was answered now, or is among them already.                              *)
Chosen(memory, reply, out, item) ==
  /\ item # None
  /\ memory.answered[TopicOf(item.text, item.at)] = 0
  /\ TopicOf(item.text, item.at) # reply.intent
  /\ item \notin ToSet(out)

(* The questions offered at a scope: the collection's own, else the set that *)
(* suits any; unscoped, one of each collection, and not the same of every    *)
(* (nothing, None, of one that has none).                                   *)
CedarQuestions(c) == IF Suggested[c] = <<>> THEN <<>> ELSE Append(Suggested[c], ChangesQuestion)

ScopedQuestions(c) == IF CedarQuestions(c) = <<>> THEN ScopedExamples ELSE CedarQuestions(c)

OpenQuestion(i) ==
  LET asked == CedarQuestions(FirstFour[i])
  IN  IF asked = <<>> THEN None
      ELSE [text |-> asked[((i - 1) % Len(asked)) + 1], at |-> FirstFour[i]]

Examples == [i \in DOMAIN FirstFour |-> OpenQuestion(i)]

Offered(at) ==
  IF at = None THEN Examples
  ELSE [i \in DOMAIN ScopedQuestions(at) |-> [text |-> ScopedQuestions(at)[i], at |-> at]]

MaxReplies == 3

TellMeMore(reply) ==
  IF reply.source = "cedar" /\ reply.intent # None THEN <<[text |-> More, at |-> None]>> ELSE <<>>

(* The candidates are taken in their order, after "Tell me more".           *)
Taken(memory, reply, items) ==
  LET out[i \in 0..Len(items)] ==
        IF i = 0 THEN TellMeMore(reply)
        ELSE IF Len(out[i - 1]) < MaxReplies /\ Chosen(memory, reply, out[i - 1], items[i])
        THEN Append(out[i - 1], items[i])
        ELSE out[i - 1]
  IN out[Len(items)]

FabFollowUps(memory, reply, at) ==
  IF reply.kind \in {"gate", "routing", "error"} THEN <<>>
  ELSE Taken(memory, reply, Offered(at))

FabStarters == IF connected THEN Offered(scope) ELSE <<>>

-----------------------------------------------------------------------------
ReaderInit ==
  /\ ThreadInit
  /\ gated \in {None, "signedout", "unentitled"}
  /\ connected \in BOOLEAN
  /\ scope = None /\ serviceThread = None /\ handOffs = 0

(* What is typed is asked at the panel's scope; the send button is disabled *)
(* while Cedar composes and while no service is connected.                  *)
Submit(text) ==
  /\ connected /\ CanSend
  /\ Ask(text, text, scope)
  /\ UNCHANGED readerVars

(* A suggestion that names a collection scopes the panel in the same tap.   *)
TapStarter(item) ==
  /\ StartersShown /\ item # None
  /\ scope' = IF item.at # None /\ scope = None THEN item.at ELSE scope
  /\ Ask(item.text, item.text, IF scope # None THEN scope ELSE item.at)
  /\ UNCHANGED <<gated, connected, serviceThread, handOffs>>

(* A quick reply is asked at the scope it carries.                          *)
TapFollowUp(item) ==
  /\ RepliesShown
  /\ scope' = IF item.at # None /\ scope = None THEN item.at ELSE scope
  /\ Ask(item.text, item.text, IF item.at # None THEN item.at ELSE scope)
  /\ UNCHANGED <<gated, connected, serviceThread, handOffs>>

(* Mutant of OnScope: the ask in flight is not abandoned.                   *)
OnScopeKeepsAsk(s) ==
  /\ handOffs < MaxHandOffs /\ handOffs' = handOffs + 1
  /\ thread' = RetireFollowUps(thread)
  /\ scope' = s
  /\ UNCHANGED <<pending, abortRef, flights, aborted, asks, gated, connected, serviceThread>>

(* cedar:ask-collection: a page hands over a scope (and perhaps a question, *)
(* which is then typed).                                                    *)
OnScope(s) ==
  /\ handOffs < MaxHandOffs /\ handOffs' = handOffs + 1
  /\ Cancel
  /\ thread' = RetireFollowUps(thread)
  /\ scope' = s
  /\ UNCHANGED <<gated, connected, serviceThread>>

(* "Ask about all collections instead".                                     *)
ClearScope ==
  /\ scope # None
  /\ Cancel
  /\ thread' = RetireFollowUps(thread)
  /\ scope' = None
  /\ UNCHANGED <<gated, connected, serviceThread, handOffs>>

(* A reply the panel gives without a call.                                  *)
AnswerHere(f) ==
  /\ gated # None \/ Unavailable(f.ctx)
  /\ Answer(f, Said(IF gated # None THEN "gate" ELSE "routing", None, None))
  /\ UNCHANGED readerVars

(* The service answers: Cedar names its conversation, whose id rides with   *)
(* the next question; a release's own answer returns the id it was sent.    *)
ServiceAnswers(f, source) ==
  /\ gated = None /\ ~Unavailable(f.ctx) /\ f.n \notin aborted
  /\ serviceThread' = IF source = "cedar" THEN "thread" ELSE serviceThread
  /\ Answer(f, Worded(f, source))
  /\ UNCHANGED <<gated, connected, scope, handOffs>>

(* The call fails, runs into its deadline, or was aborted with the ask.     *)
ServiceFails(f) ==
  /\ gated = None /\ ~Unavailable(f.ctx)
  /\ Answer(f, Said("error", None, None))
  /\ UNCHANGED readerVars

ReaderSettle(f) ==
  /\ Settle(f, None, FabFollowUps(thread.memory, f.reply, f.ctx))
  /\ UNCHANGED readerVars

(* The reader goes to another page, which mounts a panel of its own.        *)
ChangePage ==
  /\ thread.turns # <<>>
  /\ Remount
  /\ scope' = None /\ serviceThread' = None
  /\ UNCHANGED <<gated, connected, handOffs>>

ReaderNext ==
  \/ \E text \in Texts : Submit(text)
  \/ \E i \in 1..Len(FabStarters) : TapStarter(FabStarters[i])
  \/ \E i \in 1..Len(thread.followUps) : TapFollowUp(thread.followUps[i])
  \/ \E s \in Scopes : OnScope(s)
  \/ ClearScope
  \/ ChangePage
  \/ \E f \in flights : AnswerHere(f)
  \/ \E f \in flights, source \in {"cedar", "release"} : ServiceAnswers(f, source)
  \/ \E f \in flights : ServiceFails(f)
  \/ \E f \in flights : ReaderSettle(f)

ReaderSpec == ReaderInit /\ [][ReaderNext]_allVars

-----------------------------------------------------------------------------
(* Properties.                                                              *)

(* The answer being composed is for the collection the panel names: a late  *)
(* answer cannot land under the heading of a collection the reader moved to.*)
AnswerUnderItsScope == \A f \in Live : f.ctx = scope

(* The quick replies on screen are questions about the collection the panel *)
(* is about, which is also where a tap would ask them.                      *)
QuickRepliesInScope ==
  \A item \in ToSet(thread.followUps) : scope # None /\ item.at \in {None, scope}

(* The turns that answered a question.                                      *)
Answers ==
  {i \in 1..Len(thread.turns) :
     thread.turns[i].role = "cedar" /\ thread.turns[i].reply.kind \in {"answer", "repeat"}}

(* PressCedarFab.jsx: "a question asked twice is acknowledged as a repeat   *)
(* rather than printed cold a second time", across re-scoping, failed calls *)
(* and drill-downs.                                                         *)
NeverColdTwice ==
  \A i, j \in Answers :
    (i < j /\ thread.turns[j].reply.kind = "answer") =>
      thread.turns[i].reply.intent # thread.turns[j].reply.intent

(* "The quick replies under an answer never re-offer a question this thread *)
(* has already asked" and had answered.                                     *)
NoReOffer ==
  \A item \in ToSet(thread.followUps) :
    item.at # None =>
      \A i \in Answers : thread.turns[i].reply.intent # TopicOf(item.text, item.at)

=============================================================================
