------------------------------ MODULE RecordPage ------------------------------
(* The record page: where it puts each column of one row, what it says while *)
(* it has no row to show, and how it and the record table read a cell        *)
(* (pages/grove/CedarPressRecord.jsx, PressRecordTable.jsx,                  *)
(* features/grove/readerValues.js).  A column is a value with the traits its *)
(* name gives it; a cell is the kind of text it holds.                       *)
EXTENDS Integers, Sequences, SequencesExt, FiniteSets, Filtering

CONSTANTS
  None,
  Columns,      \* column |-> the traits of its name: [group, lineage, flag, key, money, yesNo, normalizes]
  Contracts,    \* the contracts a table may have: [amount, date, subject, observation, identity, view, attribution]
  Books,        \* the codebooks a table may have: its columns in order
  RawRows,      \* the rows a sample may have: column |-> the kind of its cell
  MostActs

VARIABLES
  contract, book,   \* of the table the row is in; None where it has none
  row,          \* the row: column |-> the kind of its cell
  leads,        \* where the link leads: "nowhere", to a collection "without" a preview, or to its "table"
  open,         \* whether the reader's plan opens that collection
  sample,       \* the table's sample, kept once read: "unread", "reading", "read" or "failed"
  held,         \* what it holds: "it", "others" or "nothing"
  listed,       \* the reader's result: the place of the record in it, 0 for none, and its length
  more, definitions,   \* the page's two switches
  copied,       \* the copy button: "no", "yes", or "prompted"
  acts

link == <<contract, book, leads, held>>
switches == <<more, definitions>>
vars == <<link, open, row, sample, listed, switches, copied, acts>>

-----------------------------------------------------------------------------
(* Where the columns of the row go.                                          *)

Carried == DOMAIN row
Filled(c) == row[c] # "blank"
InRow(seq) == Among(seq, Carried)
FirstOf(seq, n) == SubSeq(seq, 1, IF Len(seq) < n THEN Len(seq) ELSE n)

Said(x) == {x} \ {None}
InHead == contract.identity
InSummary == Said(contract.amount) \cup Said(contract.date) \cup Said(contract.subject) \cup contract.observation

Attribution == Among(contract.attribution, {c \in Carried : Filled(c)})

\* Columns neither the head nor the summary nor the evidence speaks for.
Spoken(c) == c \notin InHead \cup InSummary \cup ToSet(Attribution)

Book == InRow(book)
FirstScreen == Among(Book, {c \in Carried : ~Columns[c].lineage})
DeclaredDetail ==
  LET declared == InRow(contract.view)
  IN  Among(IF declared # <<>> THEN declared ELSE FirstOf(FirstScreen, 3), {c \in Carried : Spoken(c)})

\* What fills a thin view up: no bare flag, no long key, no column beside its
\* own normalized form.
TopUp ==
  LET declared == ToSet(DeclaredDetail)
  IN  Among(FirstScreen, {c \in Carried :
        /\ Spoken(c) /\ c \notin declared /\ ~Columns[c].flag
        /\ \/ Columns[c].normalizes # None
           \/ /\ \A d \in Carried : Columns[d].normalizes # c
              /\ ~(Columns[c].key /\ row[c] = "long")})

\* The first screen holds three fields here; the code's block holds six.
Detail ==
  IF Len(DeclaredDetail) >= 3 THEN DeclaredDetail ELSE FirstOf(DeclaredDetail \o TopUp, 3)

DetailSet == ToSet(Detail) \cup InHead \cup InSummary \cup ToSet(Attribution)
Rest == ToSet(Book) \ DetailSet

(* Mutant of Technical: the codebook's columns are taken for all there are.  *)
TechnicalOfTheBook == ToSet(Book) \ (DetailSet \cup Rest)

Technical == Carried \ (DetailSet \cup Rest)

GroupNames == {"geography", "financial", "identifiers", "classifications", "other"}
Grouped == Rest \cup Technical
Groups == LET grouped == Grouped IN [g \in GroupNames |-> {c \in grouped : Columns[c].group = g}]

(* Every column has a group, and the declared view and the codebook name a   *)
(* column once (groupFields; data/cedar/explore.json).                       *)
RecordAssumption ==
  LET named == DOMAIN Columns IN
  /\ None \notin named /\ \A c \in named : Columns[c].group \in GroupNames
  /\ \A cells \in RawRows : DOMAIN cells \subseteq named
  /\ \A k \in Contracts :
       k.view \in Seq(named) /\ IsInjective(k.view) /\ k.attribution \in Seq(named)
  /\ \A fields \in Books : fields \in Seq(named) /\ IsInjective(fields)

MoreCount == Cardinality(Rest) + Cardinality(Technical)

\* Where the page prints a column: its figure and its date only where they are
\* one, the observation and the identity in the head, the rest in the blocks.
Places(c, detail, groups) ==
  {<<"details", i>> : i \in {j \in DOMAIN detail : detail[j] = c}}
  \cup {<<"groups", g>> : g \in {h \in GroupNames : c \in groups[h]}}
  \cup (IF c \in ToSet(Attribution) THEN {<<"evidence">>} ELSE {})
  \cup (IF c = contract.amount /\ row[c] = "number" THEN {<<"figure">>} ELSE {})
  \cup (IF c = contract.date /\ Filled(c) THEN {<<"summary">>} ELSE {})
  \cup (IF c \in InHead \cup contract.observation \cup Said(contract.subject) THEN {<<"head">>} ELSE {})

-----------------------------------------------------------------------------
(* What the page says, and its switches.                                     *)

\* The page asks for the table of a collection that is open, and has no other's rows.
Wanted == leads = "table" /\ open
Rows == IF Wanted /\ sample = "read" THEN held ELSE "nothing"
Found == Rows = "it"
Loading == Wanted /\ sample \in {"unread", "reading"}
Missing == Wanted /\ sample = "failed"

Heading ==
  IF Found THEN "the record"
  ELSE IF Loading \/ (Rows = "nothing" /\ ~Missing /\ Wanted) THEN "opening"
  ELSE IF Missing THEN "not loaded" ELSE "not in this preview"

\* What is read out under it, and where Retry is offered.
Line ==
  IF Found THEN "none"
  ELSE IF leads = "nowhere" THEN "no such collection" ELSE IF ~open THEN "not on your plan"
  ELSE IF leads = "without" THEN "no preview" ELSE IF Loading THEN "reading"
  ELSE IF Missing THEN "retry" ELSE "perhaps not in the sample"

Place == IF Found THEN listed.at ELSE 0
Previous == Place > 1
NextRecord == Place > 0 /\ Place < listed.of

Act == acts < MostActs /\ acts' = acts + 1

\* A sample asked for arrives though the page no longer wants it.
Reads(answer) ==
  /\ sample = "reading" /\ sample' = answer
  /\ UNCHANGED <<link, open, row, listed, switches, copied, acts>>

\* The reader presses Retry, or the browser is back online: the failure is
\* forgotten, and the sample asked for again where it is wanted.
Retry ==
  /\ sample = "failed" /\ Act
  /\ sample' = IF Wanted THEN "reading" ELSE "unread"
  /\ UNCHANGED <<link, open, row, listed, switches, copied>>

\* The plan changes under the open page; the copy button leaves with the record.
PlanChanges ==
  /\ leads # "nowhere" /\ Act /\ open' = ~open
  /\ sample' = IF leads = "table" /\ ~open /\ sample = "unread" THEN "reading" ELSE sample
  /\ copied' = "no"
  /\ UNCHANGED <<link, row, listed, switches>>

ToggleMore ==
  /\ Found /\ MoreCount > 0 /\ Act /\ more' = ~more
  /\ UNCHANGED <<link, open, row, sample, listed, definitions, copied>>

ToggleDefinitions ==
  /\ Found /\ Act /\ definitions' = ~definitions
  /\ UNCHANGED <<link, open, row, sample, listed, more, copied>>

\* The clipboard may refuse, and a prompt is then the copy.
Copy ==
  /\ Found /\ Act /\ copied' \in {"yes", "prompted"}
  /\ UNCHANGED <<link, open, row, sample, listed, switches>>

CopyFades ==
  /\ copied # "no" /\ copied' = "no"
  /\ UNCHANGED <<link, open, row, sample, listed, switches, acts>>

\* Previous and next keep the page, and its switches, on the next record.
Walk ==
  /\ Found /\ Act
  /\ \/ Previous /\ listed' = [listed EXCEPT !.at = @ - 1]
     \/ NextRecord /\ listed' = [listed EXCEPT !.at = @ + 1]
  /\ row' \in {cells \in RawRows : DOMAIN cells = Carried}
  /\ UNCHANGED <<link, open, sample, switches, copied>>

Init ==
  /\ contract \in Contracts /\ book \in Books
  /\ row \in RawRows
  /\ leads \in {"nowhere", "without", "table"}
  /\ open \in (IF leads = "nowhere" THEN {FALSE} ELSE BOOLEAN)
  /\ held \in (IF leads = "table" THEN {"it", "others", "nothing"} ELSE {"nothing"})
  /\ sample = IF Wanted THEN "reading" ELSE "unread"
  /\ listed \in [at : {0, 1}, of : {2}]
  /\ more = FALSE /\ definitions = FALSE /\ copied = "no" /\ acts = 0

Next ==
  \/ Reads("read") \/ Reads("failed") \/ Retry \/ PlanChanges
  \/ ToggleMore \/ ToggleDefinitions \/ Copy \/ CopyFades \/ Walk

Spec == Init /\ [][Next]_vars

-----------------------------------------------------------------------------
(* Every column of the record that the head, the summary and the evidence do *)
(* not speak for is in one place and one only, the first screen or a group,  *)
(* however the declared view, the codebook and the row differ                *)
(* (CedarPressRecord.jsx, "a missing field is not" cosmetic).                *)
EveryColumnOnce ==
  LET detail == Detail
      groups == Groups
  IN  \A c \in Carried : Spoken(c) => Cardinality(Places(c, detail, groups)) = 1

(* The heading and the line under it, which the page decides apart, agree on *)
(* why no record is shown, whatever the link leads to, whatever was read and *)
(* however the plan changes: the heading opens the record while the line     *)
(* reads, Retry stands under a failure only, and a record is perhaps not in  *)
(* the sample only once that sample was read, open, without it.  A sample of *)
(* no rows is the exception: the heading goes on opening.                    *)
HeadingFits ==
  /\ Heading = "opening" <=> Line = "reading" \/ (Line = "perhaps not in the sample" /\ held = "nothing")
  /\ Heading = "not loaded" <=> Line = "retry"
  /\ Line = "perhaps not in the sample" => Wanted /\ sample = "read" /\ held # "it"

=============================================================================
