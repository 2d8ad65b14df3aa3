---------------------------- MODULE ExploreRows ----------------------------
(* The rows of the Explore card: one raw row read through its table's        *)
(* contract and the entity register, and everything a cut asks of the rows:  *)
(* filter, reason, sort, page, facets, address (features/grove/explore.js    *)
(* and pressRecord.js).  Names, words and identifiers are values; a cell     *)
(* that cannot be read is Blank, a missing one None.                         *)
EXTENDS Null, Integers, FiniteSets, Sequences, SequencesExt, TLC

CONSTANTS
  Blank,         \* a cell that cannot be read
  Unlinked,      \* the type-picker token for rows no register entity is linked to
  WithheldText,  \* what is printed where the publication rule withholds a name
  Contracts,     \* table |-> how its columns are read
  ScopeClasses,  \* collective scope |-> [classes, parameter]: those it covers, or None: not
                 \* evaluable; and whether its codes <<scope, parameter or None>> carry one
  PageSize,      \* PAGE_SIZE
  NameRank       \* name or uid |-> its place in the collating order

----------------------------------------------------------------------------
\* A register is [byUid, dated]: what is known of each uid, and whether it
\* carries its own date.
EmptyRegister == [byUid |-> <<>>, dated |-> FALSE]

Class(uid, reg) == IF uid \in DOMAIN reg.byUid THEN reg.byUid[uid].type ELSE None

At(seq, i) == IF i \in DOMAIN seq /\ seq[i] # Blank THEN seq[i] ELSE None

(* An entity a row names: the register answers first, the table's own name   *)
(* and type only for a uid the register does not know.                       *)
Entity(uid, ownName, ownType, roles, reg) ==
  IF uid \in DOMAIN reg.byUid
    THEN [uid |-> uid, type |-> reg.byUid[uid].type, roles |-> roles,
          name |-> IF reg.byUid[uid].withheld THEN None ELSE reg.byUid[uid].name,
          withheld |-> reg.byUid[uid].withheld]
    ELSE [uid |-> uid, type |-> ownType, roles |-> roles, name |-> ownName, withheld |-> FALSE]

FirstOf(seq, i) == seq[i] # Blank /\ \A j \in 1..(i - 1) : seq[j] # seq[i]

(* The primary entities, at the positions where the uid cell first names     *)
(* each; aligned names are read before anything is dropped.                  *)
PrimaryEntities(row, contract, reg) ==
  LET at == SelectSeq([i \in DOMAIN row.uids |-> i], LAMBDA i : FirstOf(row.uids, i))
      own(i) == IF contract.nameList \/ i = 1 THEN At(row.names, i) ELSE None
      kind(i) == IF contract.nameList \/ i = 1 THEN At(row.types, i) ELSE None
      roles(uid) == {At(row.roles, j) : j \in {k \in DOMAIN row.uids : row.uids[k] = uid}} \ {None}
      linked == [n \in DOMAIN at |->
                   Entity(row.uids[at[n]], own(at[n]), kind(at[n]), roles(row.uids[at[n]]), reg)]
  IN  IF linked = <<>> /\ ~contract.nameList /\ At(row.names, 1) # None
        THEN <<[uid |-> None, name |-> row.names[1], type |-> At(row.types, 1),
                roles |-> {}, withheld |-> FALSE]>>
        ELSE linked

(* The further role columns: a party already there gains a role, another is  *)
(* appended.                                                                 *)
WithParties(row, primary, reg) ==
  LET have == {primary[i].uid : i \in DOMAIN primary}
      role(uid) == {row.parties[j].role : j \in {k \in DOMAIN row.parties : row.parties[k].uid = uid}}
      uids == [j \in DOMAIN row.parties |-> row.parties[j].uid]
      new == SelectSeq([j \in DOMAIN uids |-> j], LAMBDA j : FirstOf(uids, j) /\ uids[j] \notin have)
  IN  [i \in DOMAIN primary |-> [primary[i] EXCEPT !.roles = @ \cup role(primary[i].uid)]]
      \o [n \in DOMAIN new |-> Entity(uids[new[n]], None, None, role(uids[new[n]]), reg)]

(* Every entity a row names.                                                 *)
RowEntities(row, contract, reg) == WithParties(row, PrimaryEntities(row, contract, reg), reg)

(* The row's own name cells with the withheld names masked.                  *)
PublicNames(row, contract, ents) ==
  LET held == {ents[i].uid : i \in {j \in DOMAIN ents : ents[j].withheld}}
  IN  IF contract.nameList
        THEN [i \in DOMAIN row.names |-> IF At(row.uids, i) \in held THEN WithheldText ELSE row.names[i]]
        ELSE IF ents # <<>> /\ ents[1].withheld THEN <<WithheldText>> ELSE row.names

(* A table with a year column answers from that column and only that one, a  *)
(* table without from its date's year; a date is [year, day].                *)
RowYear(row, contract) ==
  IF contract.fiscal THEN row.fiscal ELSE IF row.date = None THEN None ELSE row.date.year

RowDate(row, contract) ==
  LET year == RowYear(row, contract)
  IN  IF row.date # None /\ row.date.day # None THEN row.date
      ELSE IF year = None THEN None ELSE [year |-> year, day |-> None]

\* Bounds remain bounds: the row of a range has no amount to sort by.
RowAmount(row) == IF row.bounds = None THEN row.amount ELSE None
RowAmountRange(row) ==
  IF row.bounds = None \/ row.bounds = [lower |-> None, upper |-> None] THEN None ELSE row.bounds

RowSuperseded(row) == row.superseded \in {"yes", "superseded"}

LinkStatuses == {"resolved", "no_individual_named", "unresolved", "withheld"}
RowLinkStatus(row, contract) ==
  IF contract.linkStatus /\ row.status \in LinkStatuses THEN row.status ELSE None

(* Links.  A source cell is a sequence of tokens [of, address, safe]: the id *)
(* it carries, whether it is an address, whether it may be followed.         *)
FirstUrl(tokens) ==
  LET addresses == SelectSeq(tokens, LAMBDA t : t.address)
  IN  IF addresses = <<>> THEN None ELSE Head(addresses)

SafeSourceUrl(url) == IF url # None /\ url.safe THEN url ELSE None

\* The address that a row's own identifier determines, where its table says so.
BuiltSource(row, contract) ==
  IF contract.builder /\ row.key # None THEN [of |-> row.key, address |-> TRUE, safe |-> TRUE] ELSE None

(* The table's source column, its fallback, then the one that is built.      *)
RowSource(row, contract) ==
  LET found == SelectSeq(<<SafeSourceUrl(FirstUrl(row.source)), SafeSourceUrl(FirstUrl(row.fallback)),
                           SafeSourceUrl(BuiltSource(row, contract))>>, LAMBDA url : url # None)
  IN  IF found = <<>> THEN None ELSE Head(found)

\* The record that replaces this one, with this one's address under the other id.
RowReplacement(row) ==
  LET own == FirstUrl(row.source)
  IN  IF row.replacedBy = None THEN None
      ELSE [id |-> row.replacedBy,
            url |-> IF row.id # None /\ own # None /\ own.of = row.id
                      THEN [own EXCEPT !.of = row.replacedBy] ELSE None]

(* A row in the universal shape.                                             *)
UniversalRow(key, i, row, contract, ents) ==
  LET subject == IF contract.recipientSubject /\ ents # <<>> /\ ents[1].withheld
                   THEN WithheldText ELSE row.subject
  IN  [key |-> key, index |-> i, recordId |-> row.id,
       recordType |-> IF contract.typed THEN row.kind ELSE None,
       entities |-> ents, names |-> PublicNames(row, contract, ents), subject |-> subject,
       scopes |-> row.scopes, linkStatus |-> RowLinkStatus(row, contract),
       year |-> RowYear(row, contract), date |-> RowDate(row, contract),
       amount |-> RowAmount(row), range |-> RowAmountRange(row),
       words |-> row.words, superseded |-> RowSuperseded(row),
       source |-> RowSource(row, contract), replacement |-> RowReplacement(row)]

UniversalRows(key, rows, reg) ==
  [i \in DOMAIN rows |->
     UniversalRow(key, i, rows[i], Contracts[key], RowEntities(rows[i], Contracts[key], reg))]

Linked(item) == {item.entities[i] : i \in {j \in DOMAIN item.entities : item.entities[j].uid # None}}

----------------------------------------------------------------------------
(* Where the search looks: the names and uids the row shows and every cell.  *)
Searchable(item) ==
  {item.entities[i].name : i \in DOMAIN item.entities}
  \cup {item.entities[i].uid : i \in DOMAIN item.entities}
  \cup Range(item.names) \cup {item.subject} \cup item.words

(* What the export writes of a row, in the table's columns or in the         *)
(* universal ones.                                                           *)
Exported(item) ==
  {IF e.withheld THEN WithheldText ELSE IF e.name # None THEN e.name ELSE e.uid :
     e \in Range(item.entities)}
  \cup Range(item.names) \cup {item.subject} \cup item.words

(* One entity has to pass the entity filter and the type filter at once; a   *)
(* row without one passes a type filter only as unlinked.                    *)
EntityPasses(item, entities, types) ==
  IF Linked(item) = {}
    THEN entities = {} /\ (types = None \/ Unlinked \in types)
    ELSE \E e \in Linked(item) : /\ entities = {} \/ e.uid \in entities
                                 /\ types = None \/ e.type \in types

Elements(item) == IF item.scopes = None THEN {} ELSE item.scopes

\* A code without its parameter would stand for all of that scope's.
ScopeHits(item, wanted) ==
  {el \in Elements(item) : {el.scope, <<el.scope[1], None>>} \cap wanted # {}}

(* Membership can be evaluated for a scope of register classes whose         *)
(* population is dated on or after the register's own date.                  *)
Population(el) == ScopeClasses[el.scope[1]].classes
EvaluableScope(el, reg) == Population(el) # None /\ reg.dated /\ el.dated

ScopeCovers(el, uid, reg) ==
  EvaluableScope(el, reg) /\ Class(uid, reg) # None /\ Class(uid, reg) \in Population(el)

(* The scope elements that bring a row in for an entity it does not name.    *)
BroadHits(item, cut, reg) ==
  LET named == {e.uid : e \in Linked(item)}
      candidates == {uid \in cut.entities : cut.types = None \/ Class(uid, reg) \in cut.types}
  IN  IF ~cut.broad \/ cut.entities \cap named # {} THEN {}
      ELSE {el \in Elements(item) : \E uid \in candidates : ScopeCovers(el, uid, reg)}

(* Whether a cut selects a row.                                              *)
Selects(item, cut, reg) ==
  LET byScope == ScopeHits(item, cut.scopes) # {}
  IN  /\ cut.history \/ ~item.superseded
      /\ IF cut.scopes # {} /\ cut.entities = {}
           THEN byScope /\ EntityPasses(item, {}, cut.types)
           ELSE \/ EntityPasses(item, cut.entities, cut.types)
                \/ byScope
                \/ BroadHits(item, cut, reg) # {}
      /\ cut.years = None \/ (item.year # None /\ cut.years[1] <= item.year /\ item.year <= cut.years[2])
      /\ cut.q = "" \/ cut.q \in Searchable(item)

FilterRows(items, cut, reg) == SelectSeq(items, LAMBDA item : Selects(item, cut, reg))

(* Why a row is in the file: it names a chosen entity, carries a chosen      *)
(* scope, or covers a broader group one belongs to.                          *)
MatchedBy(item, cut, reg) ==
  (IF cut.entities # {} /\ EntityPasses(item, cut.entities, cut.types) THEN {"named"} ELSE {})
  \cup (IF ScopeHits(item, cut.scopes) # {} THEN {"scope"} ELSE {})
  \cup (IF BroadHits(item, cut, reg) # {} THEN {"broad"} ELSE {})

(* What the year range and the superseded rule left out, among the rows that *)
(* satisfy the rest of the cut.                                              *)
ExcludedBy(items, cut, reg) ==
  LET undated == SelectSeq(FilterRows(items, [cut EXCEPT !.years = None], reg), LAMBDA r : r.year = None)
      old == SelectSeq(FilterRows(items, [cut EXCEPT !.history = TRUE], reg), LAMBDA r : r.superseded)
  IN  [undated |-> IF cut.years = None THEN 0 ELSE Len(undated),
       superseded |-> IF cut.history THEN 0 ELSE Len(old)]

----------------------------------------------------------------------------
SortKey(item, by) ==
  CASE by = "year" -> item.year
    [] by = "amount" -> item.amount
    [] item.entities = <<>> -> None
    [] OTHER -> LET first == item.entities[1]
                IN  NameRank[IF first.name = None THEN first.uid ELSE first.name]

(* Stable, and a blank last in both directions.                              *)
SortRows(items, sort) ==
  LET key(i) == SortKey(items[i], sort.by)
      before(i, j) ==
        IF key(i) = None \/ key(j) = None
          THEN IF key(i) = None /\ key(j) = None THEN i < j ELSE key(j) = None
          ELSE IF key(i) = key(j) THEN i < j
               ELSE IF sort.dir = "desc" THEN key(i) > key(j) ELSE key(i) < key(j)
      order == SortSeq([n \in DOMAIN items |-> n], before)
  IN  IF sort = None THEN items ELSE [n \in DOMAIN order |-> items[order[n]]]

Pages(items) == IF Len(items) = 0 THEN 1 ELSE (Len(items) + PageSize - 1) \div PageSize

PageNumber(items, page) == IF page > Pages(items) THEN Pages(items) ELSE page

PageOf(items, page) ==
  LET n == PageNumber(items, page)
      last == IF n * PageSize < Len(items) THEN n * PageSize ELSE Len(items)
  IN  SubSeq(items, (n - 1) * PageSize + 1, last)

(* Mutant of Facets: a type is counted once for each entity that has it.     *)
FacetsByEntity(items, reg) ==
  LET all == UNION {{<<i, e>> : e \in Linked(items[i])} : i \in DOMAIN items}
      codes == UNION {{el.scope : el \in Elements(items[i])} : i \in DOMAIN items}
  IN  [entities |-> [u \in {x[2].uid : x \in all} |-> Cardinality({x \in all : x[2].uid = u})],
       types |-> [t \in {x[2].type : x \in all} \ {None} |-> Cardinality({x \in all : x[2].type = t})],
       scopes |-> [c \in codes |-> 1], evaluable |-> codes, unlinked |-> 0, years |-> None]

(* What the pickers offer, counted over the rows before the cut's filters: a *)
(* row counts once for an entity, a type or a scope it carries.              *)
Facets(items, reg) ==
  LET count(P(_)) == Cardinality({i \in DOMAIN items : P(items[i])})
      uids == UNION {{e.uid : e \in Linked(items[i])} : i \in DOMAIN items}
      types == UNION {{e.type : e \in Linked(items[i])} : i \in DOMAIN items} \ {None}
      codes == UNION {{el.scope : el \in Elements(items[i])} : i \in DOMAIN items}
      years == {items[i].year : i \in DOMAIN items} \ {None}
  IN  [entities |-> [u \in uids |-> count(LAMBDA r : \E e \in Linked(r) : e.uid = u)],
       types |-> [t \in types |-> count(LAMBDA r : \E e \in Linked(r) : e.type = t)],
       scopes |-> [c \in codes |-> count(LAMBDA r : \E el \in Elements(r) : el.scope = c)],
       evaluable |-> {c \in codes : \E i \in DOMAIN items : \E el \in Elements(items[i]) :
                                       el.scope = c /\ EvaluableScope(el, reg)},
       unlinked |-> count(LAMBDA r : Linked(r) = {}),
       years |-> IF years = {} THEN None
                 ELSE <<CHOOSE y \in years : \A z \in years : y <= z,
                        CHOOSE y \in years : \A z \in years : y >= z>>]

----------------------------------------------------------------------------
(* A record's address, and the row it finds: by its own id, with the type    *)
(* where the address carries one, and by position where the table has no id. *)
RecordHref(item, from) ==
  [key |-> item.key, recordId |-> item.recordId, recordType |-> item.recordType,
   index |-> IF item.recordId = None THEN item.index ELSE None, from |-> from]

FindRecord(items, asked) ==
  LET typed(item) == asked.recordType = None \/ item.recordType = asked.recordType
      matches == {i \in DOMAIN items : items[i].recordId = asked.recordId /\ typed(items[i])}
  IN  IF asked.recordId # None
        THEN IF Cardinality(matches) = 1 THEN items[CHOOSE i \in matches : TRUE] ELSE None
        ELSE IF asked.index \in DOMAIN items /\ typed(items[asked.index]) THEN items[asked.index] ELSE None

(* Where a record sits in the reader's own ordering: 0 when it is not in it. *)
PlaceOf(items, item) ==
  LET same == {i \in DOMAIN items : items[i].index = item.index /\ items[i].key = item.key}
  IN  IF same = {} THEN 0 ELSE CHOOSE i \in same : TRUE
============================================================================
