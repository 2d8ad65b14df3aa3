---------------------------- MODULE TableReading ----------------------------
(***************************************************************************)
(* How a collection's table comes to be read: scripts/derive-explore.mjs   *)
(* picks the columns by name into a contract, committed with the site, and *)
(* the viewer and the public page plan their opening columns from the      *)
(* contract and whatever table was published.                              *)
(*                                                                         *)
(* A table is [columns, blank, repeats]: its columns, those blank in every *)
(* row, and those whose values cannot tell the rows apart (a value twice,  *)
(* or none).                                                               *)
(***************************************************************************)
EXTENDS Naturals, Sequences, SequencesExt, FiniteSetsExt, Filtering

CONSTANTS
  None,
  Rules,        \* role |-> the names looked for, then those of its shape: first present wins;
                \* and [period, start, revenue, roles]: the columns of a reporting period and
                \* the one it starts in, of a revenue, and of further entities
  Observation,  \* the columns that describe a row, most telling first
  Lineage,      \* columns whose values name Cedar's own files
  Retired,      \* columns of retired identifier schemes
  RecordIds,    \* CUSTOMER_RECORD_ID
  Presentation, \* CUSTOMER_PRESENTATION of this collection: field |-> value
  Overrides,    \* the entries explore.overrides.json may hold for the table
  Builders,     \* SOURCE_BUILDERS: kind |-> the columns its pattern reads
  Display,      \* DISPLAY_DEFAULTS of this collection, or <<>>
  Codebook,     \* the columns the codebook explains, in its order
  Stands,       \* COLUMN_FALLBACKS: column |-> the columns that stand in for it
  BuiltLink,    \* SOURCE_LINK_COLUMN
  OpeningLimit, \* eight columns at most
  AllColumns,
  Published,    \* the columns the table may first be published with
  MaxEdits      \* bound: changes of the table and the overrides

(* The display columns name no column twice (showcase.js DISPLAY_DEFAULTS).  *)
TableReadingAssumption ==
  /\ BuiltLink \notin AllColumns /\ None \notin AllColumns \cup {BuiltLink}
  /\ OpeningLimit \in Nat \ {0} /\ MaxEdits \in Nat
  /\ Display \in Seq(AllColumns \cup {BuiltLink}) /\ IsInjective(Display)
  /\ RecordIds \in Seq(AllColumns) /\ Observation \in Seq(AllColumns) /\ Codebook \in Seq(AllColumns)
  /\ Rules.qualifiers \in Seq(AllColumns) /\ Rules.revenue \in Seq(AllColumns)
  /\ \A o \in Overrides \cup {Presentation} :
       \A f \in {"defaults", "observation"} \cap DOMAIN o : o[f] \in Seq(AllColumns)

VARIABLES table,     \* the published table
          override,  \* the declaration over the derived contract
          contract,  \* the committed contract, or None
          edits

vars == <<table, override, contract, edits>>

Distinct(seq) ==
  LET at == Among([i \in 1..Len(seq) |-> i],
                  {i \in 1..Len(seq) : \A j \in 1..(i - 1) : seq[j] # seq[i]})
  IN  [n \in 1..Len(at) |-> seq[at[n]]]
Over(c, fields) == [f \in DOMAIN c \cup DOMAIN fields |-> IF f \in DOMAIN fields THEN fields[f] ELSE c[f]]
Firsts(seq, n) == IF Len(seq) <= n THEN seq ELSE SubSeq(seq, 1, n)
-----------------------------------------------------------------------------
(* Deriving the contract. *)

PickColumn(columns, wanted) ==
  LET here == Among(wanted, columns)
  IN  IF here = <<>> THEN None ELSE here[1]

CustomerRecordId(t) ==
  LET telling == Among(RecordIds, t.columns \ t.repeats)
  IN  IF telling = <<>> THEN None ELSE telling[1]

(* The columns read by name. The entity's are read only beside its uid, and  *)
(* a table of reporting periods by the day they start.                       *)
Named(t) ==
  LET picked == [role \in {"uid", "name", "role", "year", "date", "subject", "amount", "basis", "source"} |->
                   PickColumn(t.columns, Rules[role])]
      reported == Rules.period \subseteq t.columns
      read == [picked EXCEPT !.name = IF picked.uid = None THEN None ELSE @,
                             !.role = IF picked.uid = None THEN None ELSE @,
                             !.basis = IF picked.amount = None THEN None ELSE @,
                             !.year = IF reported THEN None ELSE @,
                             !.date = IF reported THEN Rules.start ELSE @]
      further == (Rules.roles \cap t.columns) \ {picked.uid}
  IN  Over([fallback |-> None, builder |-> None, id |-> CustomerRecordId(t),
            roles |-> {[column |-> col, role |-> col] : col \in further}],
           [read EXCEPT !.subject = IF @ = read.name THEN None ELSE @])

Taken(c) == {c.uid, c.name, c.role, c.subject, c.year, c.date, c.amount, c.basis, c.source, c.id}

\* A revenue is described by what it is of: it may name no recipient.
Described(t, c) ==
  IF Range(Rules.revenue) \subseteq t.columns THEN Rules.revenue
  ELSE Firsts(Among(Observation, t.columns \ (Taken(c) \cup Lineage)), 4)

(* spreadsheetDefaultColumns: who, how much and on what basis, when, what   *)
(* else there is room for, and the source.  More than fit is refused.       *)
Present(t, seq) == Distinct(Among(seq, t.columns))
Required(t, c) ==
  LET money == IF c.amount = None THEN <<>> ELSE <<c.amount, c.basis>> \o Rules.qualifiers
      day == IF c.date \in t.columns THEN c.date ELSE c.year
  IN  [who |-> Present(t, <<c.subject, c.name, c.role>>),
       rest |-> Present(t, money \o <<day>>), source |-> Present(t, <<c.source>>)]
Around(t, c, r, needed) ==
  LET more == Among(Present(t, c.observation), t.columns \ (Range(needed) \cup Lineage))
  IN  IF Len(needed) > OpeningLimit THEN None
      ELSE Present(t, r.who \o r.rest \o Firsts(more, OpeningLimit - Len(needed)) \o r.source)
DefaultColumns(t, c, r) == Around(t, c, r, Present(t, r.who \o r.rest \o r.source))

(* customerTableContract, the override over it; None where a step throws.   *)
Opened(t, preset) ==
  LET opening == IF "defaults" \in DOMAIN Presentation THEN Presentation.defaults
                 ELSE DefaultColumns(t, preset, Required(t, preset))
  IN  IF opening = None THEN None ELSE Over(preset, [defaults |-> opening])
Seen(t, named) == Over([observation |-> Described(t, named)], named)
CustomerTableContract(t) == Opened(t, Over(Seen(t, Named(t)), Presentation))

Overridden(c, o) ==
  LET told == Over(c, o)
  IN  IF "basis" \notin DOMAIN o /\ told.amount = None THEN [told EXCEPT !.basis = None] ELSE told

(* validateContract *)
Valid(t, c) == /\ Range(c.defaults) \subseteq t.columns
               /\ c.source = None \/ c.source \in t.columns
               /\ c.builder = None \/ (c.builder \in DOMAIN Builders
                                        /\ Builders[c.builder] \subseteq t.columns)
               /\ \A r \in c.roles : r.column \in t.columns \ {c.uid} /\ r.role # None

Written(t, c) == IF Valid(t, c) THEN c ELSE None
DeriveOf(t, o) ==
  LET base == CustomerTableContract(t)
  IN  IF base = None THEN None ELSE Written(t, Overridden(base, o))
-----------------------------------------------------------------------------
(* Reading it. *)

(* columnPlan: a table whose link is built gets a column for it; one that    *)
(* lost every column of its declared view opens on its roles and on what the *)
(* codebook explains.                                                        *)
PublicColumns(t) == t.columns \ Retired
Built(t, c) == c.builder # None /\ c.source \notin PublicColumns(t)
Openable(t, c) == PublicColumns(t) \cup (IF Built(t, c) THEN {BuiltLink} ELSE {})
DeclaredView(t, c) ==
  LET declared == Among(c.defaults, PublicColumns(t))
      source == IF Built(t, c) THEN BuiltLink ELSE c.source
      roleFirst == Among(<<c.name>> \o c.observation \o <<c.amount, c.date, source>>, Openable(t, c))
  IN  Distinct(IF declared # <<>>
               THEN declared \o (IF Built(t, c) THEN <<BuiltLink>> ELSE <<>>)
               ELSE roleFirst \o Among(Codebook, PublicColumns(t) \ Lineage))

(* displayColumns: the collection's display columns where three of them are *)
(* there, without any that is blank in every record unless fewer are left.  *)
(* The built link has no cell, so it reads as blank.                        *)
Filled(t, col) == ({col} \cup Range(IF col \in DOMAIN Stands THEN Stands[col] ELSE <<>>))
                    \cap (t.columns \ t.blank) # {}

(* Mutant of DisplayColumns: the display columns as declared. *)
DisplayColumnsAsDeclared(t, c) ==
  LET base == IF Len(Display) >= 3 THEN Display ELSE DeclaredView(t, c)
      kept == Among(base, {col \in Range(base) : Filled(t, col)})
  IN  IF Len(kept) >= 3 THEN kept ELSE base
DisplayColumns(t, c) ==
  LET declared == Among(Display, Openable(t, c))
      base == IF Len(declared) >= 3 THEN declared ELSE DeclaredView(t, c)
      kept == Among(base, {col \in Range(base) : Filled(t, col)})
  IN  IF Len(kept) >= 3 THEN kept ELSE base

-----------------------------------------------------------------------------
NoOverride == [f \in {} |-> None]

Init == /\ table \in {[columns |-> first, blank |-> {}, repeats |-> {}] : first \in Published}
        /\ override = NoOverride /\ contract = None /\ edits = 0

Edit == edits < MaxEdits /\ edits' = edits + 1 /\ UNCHANGED contract

(* The customer tables are rendered again: a column goes or comes back, is   *)
(* blank throughout or not, tells its rows apart or not.                     *)
Toggle(set, x) == IF x \in set THEN set \ {x} ELSE set \cup {x}
RenderColumn(col) ==
  /\ Edit
  /\ table' = IF col \in table.columns
              THEN [table EXCEPT !.columns = @ \ {col}, !.blank = @ \ {col}, !.repeats = @ \ {col}]
              ELSE [table EXCEPT !.columns = @ \cup {col}]
  /\ UNCHANGED override
RenderValues(col) ==
  /\ Edit /\ col \in table.columns
  /\ \/ table' = [table EXCEPT !.blank = Toggle(@, col), !.repeats = @ \cup {col}]
     \/ col \in Range(RecordIds) \ table.blank /\ table' = [table EXCEPT !.repeats = Toggle(@, col)]
  /\ UNCHANGED override
Declare(o) == Edit /\ override' = o /\ UNCHANGED table

(* node scripts/derive-explore.mjs: writes the contract, or throws. *)
Derive ==
  /\ contract' = DeriveOf(table, override) /\ contract' # None
  /\ UNCHANGED <<table, override, edits>>

Next == \/ \E col \in AllColumns : RenderColumn(col) \/ RenderValues(col)
        \/ Derive
        \/ \E o \in Overrides : Declare(o)

Spec == Init /\ [][Next]_vars

-----------------------------------------------------------------------------
(* Whatever contract was committed and whatever table is published under it, *)
(* the table opens on columns the file carries, or on the link it builds,    *)
(* each once and never on a retired identifier; a column blank in every      *)
(* example is among them only where fewer than three would be left           *)
(* (columnPlan, displayColumns).                                             *)
OpensOnWhatItCarries ==
  contract # None =>
    LET opened == DisplayColumns(table, contract)
    IN  /\ Range(opened) \subseteq Openable(table, contract)
        /\ Cardinality(Range(opened)) = Len(opened)
        /\ (\E col \in Range(opened) : ~Filled(table, col))
             => Cardinality({col \in Range(opened) : Filled(table, col)}) < 3
=============================================================================
