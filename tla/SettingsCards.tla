---------------------------- MODULE SettingsCards ----------------------------
(* The cards of the settings page that load and save (CedarPressSettings):   *)
(* what the reader works on (readerWork.js), the profile's name, the change  *)
(* of address and the change of password.  The service is external.          *)
EXTENDS Integers, Sequences, SequencesExt, FiniteSets

CONSTANTS
  None,
  Offered,    \* the audiences a reader chooses from, in order
  Preserved,  \* retired answer -> the audience it belongs to
  Names,      \* names a reader types, None the empty one
  MaxActs, MaxFaults

SettingsAssumption ==
  /\ Offered \in Seq(Range(Offered)) /\ IsInjective(Offered) /\ None \notin Range(Offered) \cup DOMAIN Preserved
  /\ DOMAIN Preserved \cap Range(Offered) = {}
  /\ MaxActs \in Nat /\ MaxFaults \in Nat

VARIABLES
  card,    \* per card: what is saved, the draft, whether it waits, failed, is done, is loaded
  wire,    \* the calls under way
  stored,  \* the service
  raced,   \* whether a card was saved with its load still under way
  acts, faults

vars == <<card, wire, stored, raced, acts, faults>>

Cards == {"work", "name", "email", "password"}
Loaders == {"work", "name"}

-----------------------------------------------------------------------------
(* The answers of the work card.                                             *)

WorkKinds == Range(Offered) \cup DOMAIN Preserved
NormalizeWork(value) == IF value \in WorkKinds THEN value ELSE None

\* Which audience an answer is counted under.
WorkAudience(value) ==
  IF value \in DOMAIN Preserved THEN Preserved[value] ELSE NormalizeWork(value)

(* Mutant of WorkOptions: the list of today, whatever the reader stored.     *)
WorkOptionsOfToday(held) == Offered

\* The list of today, with the reader's own answer after its audience.
WorkOptions(held) ==
  LET at == SelectInSeq(Offered, LAMBDA kind : kind = WorkAudience(held))
  IN  IF held \notin DOMAIN Preserved THEN Offered ELSE InsertAt(Offered, at + 1, held)

-----------------------------------------------------------------------------
(* Cards.                                                                    *)

Fresh == [saved |-> None, draft |-> None, busy |-> FALSE, error |-> FALSE, done |-> FALSE, loaded |-> FALSE]
Apply(c, value) == [c EXCEPT !.saved = value, !.draft = value, !.loaded = TRUE]

\* The option the browser shows as chosen: an unknown value shows as the first.
Chosen(k) ==
  IF k = "work" /\ card[k].draft \notin Range(WorkOptions(card[k].saved)) THEN None ELSE card[k].draft

Picks(k) ==
  CASE k = "work" -> Range(WorkOptions(card[k].saved)) \cup {None}
    [] k = "name" -> IF card[k].loaded THEN Names ELSE {}
    [] OTHER -> {"typed"}

\* The button: work and name save a change, the others what was typed.
CanSave(k) ==
  /\ ~card[k].busy
  /\ CASE k = "work" -> card[k].draft # card[k].saved
       [] k = "name" -> card[k].loaded /\ card[k].draft # card[k].saved
       [] OTHER -> card[k].draft # None

Call(k, op, value) == [card |-> k, op |-> op, value |-> value, answer |-> "none"]
Act == acts < MaxActs /\ acts' = acts + 1

Edit(k) ==
  /\ Act
  /\ \E value \in Picks(k) \ {card[k].draft} : card' = [card EXCEPT ![k].draft = value]
  /\ UNCHANGED <<wire, stored, raced, faults>>

SaveName == CanSave("name") /\ card' = [card EXCEPT !["name"].busy = TRUE, !["name"].error = FALSE]
SaveWork == CanSave("work") /\ card' = [card EXCEPT !["work"].busy = TRUE]
SendEmailChange == CanSave("email") /\ card' = [card EXCEPT !["email"].busy = TRUE, !["email"].error = FALSE]
ChangePassword ==
  CanSave("password") /\ card' = [card EXCEPT !["password"].busy = TRUE, !["password"].error = FALSE, !["password"].done = FALSE]

Save(k) ==
  /\ Act
  /\ CASE k = "name" -> SaveName [] k = "work" -> SaveWork
       [] k = "email" -> SendEmailChange [] OTHER -> ChangePassword
  /\ wire' = wire \cup {Call(k, "save", IF k = "work" THEN NormalizeWork(card[k].draft) ELSE card[k].draft)}
  /\ raced' = (raced \/ \E c \in wire : c.card = k /\ c.op = "load")
  /\ UNCHANGED <<stored, faults>>

-----------------------------------------------------------------------------
(* The service, and the answers.                                             *)

Serve(c) ==
  /\ c.answer = "none"
  /\ stored' = IF c.op = "save" THEN [stored EXCEPT ![c.card] = c.value] ELSE stored
  /\ wire' = (wire \ {c}) \cup {[c EXCEPT !.answer = "ok", !.value = stored'[c.card]]}
  /\ UNCHANGED <<card, raced, acts, faults>>

Fail(c) ==
  /\ c.answer \in {"none", "ok"} /\ faults < MaxFaults /\ faults' = faults + 1
  /\ wire' = (wire \ {c}) \cup {[c EXCEPT !.answer = "failed"]}
  /\ UNCHANGED <<card, stored, raced, acts>>

\* A load that fails says so on the name's card and empties the work's.
Loaded(c) ==
  /\ c.op = "load" /\ c.answer # "none"
  /\ wire' = wire \ {c}
  /\ card' = [card EXCEPT ![c.card] =
                IF c.answer = "ok" THEN Apply(@, c.value)
                ELSE IF c.card = "work" THEN Apply(@, None) ELSE [@ EXCEPT !.error = TRUE]]
  /\ UNCHANGED <<stored, raced, acts, faults>>

\* A saved answer is shown as stored; what was typed to send is forgotten.
Saved(c) ==
  /\ c.op = "save" /\ c.answer # "none"
  /\ wire' = wire \ {c}
  /\ card' = [card EXCEPT ![c.card] =
                LET after == [@ EXCEPT !.busy = FALSE] IN
                IF c.answer = "failed" THEN [after EXCEPT !.error = (c.card # "work")]
                ELSE IF c.card \in Loaders THEN Apply(after, c.value)
                ELSE [after EXCEPT !.draft = None, !.done = TRUE]]
  /\ UNCHANGED <<stored, raced, acts, faults>>

-----------------------------------------------------------------------------
Init ==
  /\ card = [k \in Cards |-> Fresh]
  /\ wire = {Call(k, "load", None) : k \in Loaders}
  /\ stored \in [Cards -> WorkKinds \cup Names \cup {None}]
  /\ stored["work"] \in WorkKinds \cup {None} /\ stored["name"] \in Names
  /\ stored["email"] = None /\ stored["password"] = None
  /\ raced = FALSE /\ acts = 0 /\ faults = 0

Next ==
  \/ \E k \in Cards : Edit(k) \/ Save(k)
  \/ \E c \in wire : Serve(c) \/ Fail(c) \/ Loaded(c) \/ Saved(c)

Spec == Init /\ [][Next]_vars

-----------------------------------------------------------------------------
(* Once a card is at rest and its draft is what it saved, the reader sees    *)
(* the answer the service holds, one that is no longer offered included, so  *)
(* that opening the page and saving never drops it (workOptions).  A save    *)
(* sent before the load has answered is the exception.                       *)
AnswerOnScreen ==
  \A k \in Loaders :
    card[k].loaded /\ ~card[k].busy /\ card[k].draft = card[k].saved /\ ~raced /\ faults = 0
      => Chosen(k) = stored[k]
=============================================================================
