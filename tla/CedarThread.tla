----------------------------- MODULE CedarThread -----------------------------
(***************************************************************************)
(* One Cedar conversation: the thread and its memory as plain values       *)
(* (src/src/features/grove/cedarConversation.js) and the hook that         *)
(* sequences a turn, useCedarThread.js.  The door and the reader's panel    *)
(* both run it; each says, in a module of its own, how a question is        *)
(* resolved and which quick replies follow.                                 *)
(*                                                                          *)
(* An ask is an asynchronous function: it runs to its first await, then     *)
(* again when the resolver answers, then again when the thinking pause is   *)
(* over.  "flights" holds the asks that are suspended, "aborted" those of    *)
(* them whose controller was aborted; an ask that finds itself aborted          *)
(* returns.  Asks are numbered so that a turn names the ask it belongs to.  *)
(***************************************************************************)
EXTENDS Naturals, Sequences, FiniteSets

CONSTANTS
  Topics,      \* what an answer can be about: the door's intents, the reader's topics
  NonTopics,   \* the fillers, which never become the last topic
  None,        \* null
  MaxAsks      \* bound: the asks of one session

ThreadAssumption == /\ NonTopics \subseteq Topics
                    /\ None \notin Topics
                    /\ MaxAsks \in Nat

VARIABLES
  thread,    \* the turns, the memory, and the quick replies under the last answer
  pending,   \* the typing indicator
  abortRef,  \* the ask whose controller is held, 0 for null
  flights,   \* the asks suspended at an await
  aborted,   \* the suspended asks whose controller was aborted
  asks       \* how many asks there have been

threadVars == <<thread, pending, abortRef, flights, aborted, asks>>

-----------------------------------------------------------------------------
(* The thread and its memory.                                              *)

FreshMemory == [prior |-> None, answered |-> [t \in Topics |-> 0], shown |-> {},
                misses |-> 0, audience |-> None]

FreshThread == [turns |-> <<>>, memory |-> FreshMemory, followUps |-> <<>>]

(* The memory after a reply.  expandedShown keeps the last 60 ids; neither  *)
(* surface has that many topics with a deeper answer, so it is a set.       *)
Remember(memory, reply, audience) ==
  LET about  == reply.intent # None
      counts == about /\ reply.kind # "drilldown"
      deep   == about /\ (reply.kind = "drilldown" \/ reply.deepened)
  IN [prior    |-> IF about /\ reply.kind # "clarify" /\ reply.intent \notin NonTopics
                   THEN reply.intent ELSE memory.prior,
      answered |-> IF counts THEN [memory.answered EXCEPT ![reply.intent] = @ + 1]
                   ELSE memory.answered,
      shown    |-> IF deep THEN memory.shown \cup {reply.intent} ELSE memory.shown,
      misses   |-> IF reply.missed THEN memory.misses + 1 ELSE 0,
      audience |-> IF audience # None THEN audience ELSE memory.audience]

(* The memory the quick replies are chosen with: the one before the answer, *)
(* with the audience this question named already in it.                     *)
Biased(memory, audience) ==
  IF audience = None THEN memory ELSE [memory EXCEPT !.audience = audience]

BeginTurn(th, echo, n) ==
  [th EXCEPT !.turns = Append(@, [role |-> "you", n |-> n, text |-> echo]),
             !.followUps = <<>>]

SettleTurn(th, reply, n, audience, followUps) ==
  [turns     |-> Append(th.turns, [role |-> "cedar", n |-> n, reply |-> reply]),
   memory    |-> Remember(th.memory, reply, audience),
   followUps |-> followUps]

RetireFollowUps(th) == [th EXCEPT !.followUps = <<>>]

-----------------------------------------------------------------------------
(* What the shared panel offers: the starters on an empty thread, the quick *)
(* replies while nothing is being composed, the send button likewise.       *)

StartersShown == thread.turns = <<>>
RepliesShown  == ~pending
CanSend       == ~pending

-----------------------------------------------------------------------------
(* The hook.                                                                *)

ThreadInit ==
  /\ thread = FreshThread
  /\ pending = FALSE
  /\ abortRef = 0
  /\ flights = {}
  /\ aborted = {}
  /\ asks = 0

(* An ask up to its first await: the memory is read now and used later.     *)
Begin(q, echo, ctx) ==
  /\ asks < MaxAsks
  /\ asks' = asks + 1
  /\ abortRef' = asks + 1
  /\ pending' = TRUE
  /\ thread' = BeginTurn(thread, echo, asks + 1)
  /\ flights' = flights \cup {[n |-> asks + 1, q |-> q, ctx |-> ctx,
                               memory |-> thread.memory,
                               stage |-> "resolving", reply |-> None]}

(* ask(): refused while another ask holds the controller.                   *)
Ask(q, echo, ctx) ==
  /\ abortRef = 0
  /\ Begin(q, echo, ctx)
  /\ UNCHANGED aborted

(* cancel() and ask() in one handler: the newer request replaces the other. *)
Replace(q, echo, ctx) ==
  /\ Begin(q, echo, ctx)
  /\ aborted' = aborted \cup ({abortRef} \ {0})

(* The resolver answers (or throws, which is an "error" reply): an aborted  *)
(* ask returns, the others wait for the thinking pause.                     *)
Answer(f, reply) ==
  /\ f.stage = "resolving"
  /\ flights' = (flights \ {f}) \cup
                (IF f.n \in aborted THEN {}
                 ELSE {[f EXCEPT !.stage = "pausing", !.reply = reply]})
  /\ aborted' = aborted \ {f.n}
  /\ UNCHANGED <<thread, pending, abortRef, asks>>

(* The pause is over: the turn settles unless the ask was aborted.          *)
Settle(f, audience, followUps) ==
  /\ f.stage = "pausing"
  /\ flights' = flights \ {f}
  /\ IF f.n \in aborted
     THEN UNCHANGED <<thread, pending, abortRef>>
     ELSE /\ thread' = SettleTurn(thread, f.reply, f.n, audience, followUps)
          /\ pending' = FALSE
          /\ abortRef' = 0
  /\ aborted' = aborted \ {f.n}
  /\ UNCHANGED asks

(* Mutant of Cancel: the indicator goes, the ask in flight stays live.      *)
CancelKeepsAsk == abortRef' = 0 /\ pending' = FALSE /\ UNCHANGED <<flights, aborted, asks>>

(* cancel() in a handler that also sets the quick replies, or not.          *)
Cancel ==
  /\ aborted' = aborted \cup ({abortRef} \ {0})
  /\ abortRef' = 0
  /\ pending' = FALSE
  /\ UNCHANGED <<flights, asks>>

(* The panel unmounts and, later, a new one mounts with a thread of its own.*)
Remount ==
  /\ aborted' = aborted \cup ({abortRef} \ {0})
  /\ thread' = FreshThread
  /\ pending' = FALSE
  /\ abortRef' = 0
  /\ UNCHANGED <<flights, asks>>

-----------------------------------------------------------------------------
(* Properties of the hook, for every surface that runs it.                  *)

Live == {f \in flights : f.n \notin aborted}

(* The indicator is up exactly while one ask that nobody abandoned is in    *)
(* flight, and that ask is the one whose controller is held: no stuck       *)
(* indicator, and no answer composed with nothing on screen to say so.      *)
PendingMeansComposing ==
  /\ pending <=> (abortRef # 0)
  /\ {f.n : f \in Live} = {abortRef} \ {0}
  /\ Cardinality(Live) <= 1

(* An answer stands right under the question it answers, whatever was       *)
(* cancelled, asked again or answered late in between.                      *)
AnswersFollowTheirQuestion ==
  \A i \in 1..Len(thread.turns) :
    thread.turns[i].role = "cedar" =>
      /\ i > 1
      /\ thread.turns[i - 1].role = "you"
      /\ thread.turns[i - 1].n = thread.turns[i].n

(* The memory an ask read before it was suspended is still the thread's     *)
(* memory when its answer is worded from it.                                *)
MemoryIsCurrent == \A f \in Live : f.memory = thread.memory
=============================================================================
