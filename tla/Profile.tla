-------------------------------- MODULE Profile --------------------------------
(* The entity profile: one entity's rows from every preview the plan opens,  *)
(* with the names its sources used and the patents and ratings kept for it   *)
(* (pages/grove/CedarPressEntity.jsx, NeedEntityEvidence.jsx), and who a row *)
(* of the record table or of its cards names (PressRecordTable.jsx).  The    *)
(* rows are those of ExploreRows; the service and the plan are external.     *)
EXTENDS ExploreRows

CONSTANTS
  Shelf,        \* the collections with a preview, in shelf order
  RawRows,      \* collection |-> its rows, as the file has them
  KnownReg,     \* the register as the service has it
  Plans,        \* the sets of collections a plan opens
  Visited,      \* the uids a profile may be asked for
  Need,         \* the collection whose plan opens the patents and ratings
  MaxActs       \* bound on what the reader and the network do

VARIABLES
  uid, from,    \* the entity asked for, and the record the reader came from
  plan,         \* the collections the reader can open
  regStatus,    \* the register: "loading", "ok", or "failed" for good
  loaded, failed, pending,  \* the previews: arrived, refused, in flight
  evidence,     \* what the evidence panel last took: [subject, status]
  calls,        \* the evidence requests: number |-> [subject, aborted]
  acts

vars == <<uid, from, plan, regStatus, loaded, failed, pending, evidence, calls, acts>>

-----------------------------------------------------------------------------
Reg == IF regStatus = "ok" THEN KnownReg ELSE EmptyRegister
Wanted(open) == open \cap ToSet(Shelf)

RowsOf(tables, reg) ==
  SelectSeq(FlattenSeq([n \in DOMAIN Shelf |-> UniversalRows(Shelf[n], RawRows[Shelf[n]], reg)]),
            LAMBDA item : item.key \in tables)

Rows == RowsOf(Wanted(plan) \cap loaded, Reg)
Loading == Wanted(plan) \ (loaded \cup failed) # {}
Missing == Wanted(plan) \cap failed

Registered == uid \in DOMAIN Reg.byUid
Unknown == ~Registered /\ DOMAIN Reg.byUid # {}

\* The entity's records: the rows that name it, under whatever role.
Mine == SelectSeq(Rows, LAMBDA item : \E e \in Linked(item) : e.uid = uid)

Groups == {item.key : item \in Range(Mine)}
Group(c) == SelectSeq(Mine, LAMBDA item : item.key = c)

\* The names its sources used.
SourceNames == {item.subject : item \in Range(Mine)} \ {None}

\* What the profile says of itself, in the order it decides it.
Heading ==
  IF Registered THEN IF Reg.byUid[uid].withheld THEN WithheldText ELSE Reg.byUid[uid].name
  ELSE IF Unknown THEN "No entity with that Cedar id" ELSE "Opening the entity"

Body ==
  CASE Loading /\ Groups = {} -> "Reading the published samples"
    [] Groups # {} -> "records"
    [] OTHER -> "No record in the published previews names this entity"

-----------------------------------------------------------------------------
(* Where the profile leads: the table, narrowed to the entity.               *)

TableCut(c) ==
  [entities |-> {uid}, collections |-> IF c = None THEN None ELSE {c}, scopes |-> {}, broad |-> FALSE,
   types |-> None, years |-> None, q |-> "", history |-> FALSE]

TableRows(c) == FilterRows(RowsOf({c} \cap loaded, Reg), TableCut(c), Reg)

-----------------------------------------------------------------------------
(* Who a row names in the table and in the cards.                            *)

EntityCell(item) ==
  LET first == item.entities[1]
      own == IF first.name # None THEN first.name ELSE IF first.withheld THEN WithheldText ELSE first.uid
  IN  IF item.entities = <<>> THEN {item.subject} \ {None}
      ELSE {own, item.subject} \ {None}

Printed ==
  UNION {EntityCell(item) : item \in Range(Rows)}
  \cup SourceNames \cup {Heading}

-----------------------------------------------------------------------------
(* The evidence panel: mounted for an entity whose name may be shown, on a   *)
(* plan that opens its collection; it asks once for each subject.            *)

PanelShown(id, open, status) ==
  status = "ok" /\ id \in DOMAIN KnownReg.byUid /\ ~KnownReg.byUid[id].withheld /\ Need \in open

(* Mutant of Current: whatever was answered last is shown.                   *)
CurrentAsAnswered == evidence

\* An answer is shown for the entity it was asked for only.
Current == IF evidence # None /\ evidence.subject = uid THEN evidence ELSE None

Shown == PanelShown(uid, plan, regStatus)

\* The panel after a change of the entity, the plan or the register: a request
\* no longer wanted is aborted, an unmounted panel forgets what it held.
Panel(id, open, status) ==
  LET stays == Shown /\ PanelShown(id, open, status) /\ id = uid
      aborted == [n \in DOMAIN calls |-> [calls[n] EXCEPT !.aborted = TRUE]]
  IN  /\ calls' = IF stays THEN calls
                  ELSE IF PanelShown(id, open, status)
                    THEN Append(aborted, [subject |-> id, aborted |-> FALSE, answered |-> FALSE]) ELSE aborted
      /\ evidence' = IF PanelShown(id, open, status) /\ Shown THEN evidence ELSE None

Answer(n) ==
  /\ ~calls[n].answered
  /\ calls' = [calls EXCEPT ![n].answered = TRUE]
  /\ \E status \in {"available", "unavailable"} :
       evidence' = IF calls[n].aborted THEN evidence ELSE [subject |-> calls[n].subject, status |-> status]
  /\ UNCHANGED <<uid, from, plan, regStatus, loaded, failed, pending, acts>>

-----------------------------------------------------------------------------
Act == acts < MaxActs /\ acts' = acts + 1

\* From a record, whose page the profile leads back to, or from another name.
Visit(id, back) ==
  /\ Act /\ id # uid
  /\ uid' = id /\ from' = back
  /\ UNCHANGED <<plan, regStatus, loaded, failed, pending>>
  /\ Panel(id, plan, regStatus)

\* The session is read again and the plan is another.
ChangePlan ==
  /\ Act
  /\ \E open \in Plans \ {plan} :
       /\ plan' = open
       /\ pending' = pending \cup (Wanted(open) \ (loaded \cup failed))
       /\ Panel(uid, open, regStatus)
  /\ UNCHANGED <<uid, from, regStatus, loaded, failed>>

RegisterAnswers(status) ==
  /\ regStatus = "loading" /\ regStatus' = status
  /\ UNCHANGED <<uid, from, plan, loaded, failed, pending, acts>>
  /\ Panel(uid, plan, status)

Arrive(c) ==
  /\ c \in pending /\ pending' = pending \ {c} /\ loaded' = loaded \cup {c}
  /\ UNCHANGED <<uid, from, plan, regStatus, failed, evidence, calls, acts>>

Refuse(c) ==
  /\ c \in pending /\ pending' = pending \ {c} /\ failed' = failed \cup {c}
  /\ UNCHANGED <<uid, from, plan, regStatus, loaded, evidence, calls, acts>>

\* The Retry beside the previews that could not be read.
Retry ==
  /\ Act /\ Missing # {}
  /\ pending' = pending \cup Missing /\ failed' = failed \ Missing
  /\ UNCHANGED <<uid, from, plan, regStatus, loaded, evidence, calls>>

Init ==
  /\ uid \in Visited /\ from \in {None, "record"} /\ plan \in Plans
  /\ regStatus = "loading" /\ loaded = {} /\ failed = {} /\ pending = Wanted(plan)
  /\ evidence = None /\ calls = <<>> /\ acts = 0

Next ==
  \/ \E id \in Visited, back \in {None, "record"} : Visit(id, back)
  \/ ChangePlan \/ RegisterAnswers("ok") \/ RegisterAnswers("failed")
  \/ \E c \in ToSet(Shelf) : Arrive(c) \/ Refuse(c)
  \/ Retry
  \/ \E n \in DOMAIN calls : Answer(n)

Spec == Init /\ [][Next]_vars

-----------------------------------------------------------------------------
(* "All of this entity's records" opens the table on the records the profile *)
(* listed of the collection, but for the superseded ones, and on no other:   *)
(* the profile and the cut agree which rows name an entity, whatever role or *)
(* list position names it and whatever register answered                     *)
(* (CedarPressEntity.jsx `mine`, explore.js filterRows).                     *)
TableShowsTheGroup ==
  \A c \in Wanted(plan) \cap loaded :
    Range(TableRows(c)) = {item \in Range(Group(c)) : ~item.superseded}

(* The patents and ratings on screen were asked for the entity on screen,    *)
(* though answers land after the reader has moved on (NeedEntityEvidence).   *)
EvidenceIsOfThisEntity == Shown /\ Current # None => Current.subject = uid

(* When the profile says that no record names the entity, and nothing it     *)
(* asked for failed, none of the files the plan opens names it: nothing it   *)
(* would have had to read was still to come, through changes of the plan and *)
(* retries (CedarPressEntity.jsx).                                           *)
DeniesOnlyWhatItRead ==
  (Body = "No record in the published previews names this entity" /\ Missing = {}) =>
    \A c \in Wanted(plan) : \A i \in DOMAIN RawRows[c] : uid \notin ToSet(RawRows[c][i].uids)

(* No table row, card or profile prints a name the register withholds, once  *)
(* it has answered (PressRecordTable EntityCell, CedarPressEntity).          *)
NobodyWithheldIsPrinted ==
  regStatus = "ok" =>
    \A n \in DOMAIN Rows :
      LET raw == RawRows[Rows[n].key][Rows[n].index]
          held == {At(raw.names, j) : j \in {i \in DOMAIN raw.uids :
                     raw.uids[i] \in DOMAIN Reg.byUid /\ Reg.byUid[raw.uids[i]].withheld}} \ {None}
      IN  held \cap Printed = {}
=============================================================================
