------------------------------- MODULE Explore -------------------------------
(* The signed-in data surface and the record page beside it: the cut in the  *)
(* URL, the register and the previews it reads, the pickers and the table,   *)
(* saved views and downloads, and the trip to a record and back              *)
(* (pages/grove/PressExplore.jsx, CedarPressRecord.jsx, useSamples.js).      *)
(*                                                                           *)
(* A query string is the function of the parameters it carries.  What is     *)
(* drawn, logged to telemetry or scrolled into view is left out, but for the *)
(* one scroll position a return restores.                                    *)
EXTENDS ExploreRows

CONSTANTS
  Catalog,      \* the storefront collections
  Shelf,        \* the collections with a preview, in shelf order
  Default,      \* DEFAULT_COLLECTION
  RawRows,      \* collection with a preview |-> its rows, as the file has them
  Uids,         \* well-formed entity identifiers
  Classes,      \* the register's entity classes
  KnownReg,     \* the register as the service has it
  Plans,        \* the sets of collections a plan opens
  Arrivals,     \* the query strings a reader may arrive with
  Texts,        \* what a reader may type in the search box
  Trimmed,      \* text |-> the text without its outer blanks
  Years,        \* years a reader may ask for
  MaxEdits      \* bound on the reader's operations

VARIABLES
  page,         \* "viewer" or "record"
  query,        \* the viewer's query string
  address,      \* the record page's address
  opened,       \* the row that was opened (history)
  plan,         \* the collections the reader can open
  regStatus,    \* the register: "loading", "ok" or "failed"
  loaded, failed, pending,  \* the previews: arrived, refused, in flight
  saved,        \* views saved on this device: [query, had]
  kept,         \* the return note in session storage
  returning,    \* the return the viewer took and has not scrolled to yet
  edits         \* operations so far (bound)

vars == <<page, query, address, opened, plan, regStatus, loaded, failed, pending,
          saved, kept, returning, edits>>

----------------------------------------------------------------------------
(* The cut and its query string.                                             *)

EmptyCut == [entities |-> {}, scopes |-> {}, broad |-> FALSE, types |-> None, years |-> None,
             collections |-> None, table |-> None, q |-> "", sort |-> None, page |-> 1,
             history |-> FALSE, about |-> FALSE]

Param(p, v, present) == IF present THEN p :> v ELSE <<>>

(* `t` and `c` with nothing after them are the explicit nothing; absent,     *)
(* they are no restriction.                                                  *)
Encode(cut) ==
  Param("e", cut.entities, cut.entities # {})
  @@ Param("sc", cut.scopes, cut.scopes # {})
  @@ Param("b", TRUE, cut.broad)
  @@ Param("t", cut.types, cut.types # None)
  @@ Param("y", cut.years, cut.years # None)
  @@ Param("c", cut.collections, cut.collections # None)
  @@ Param("tb", cut.table, cut.table # None)
  @@ Param("q", cut.q, cut.q # "")
  @@ Param("s", cut.sort, cut.sort # None)
  @@ Param("p", cut.page, cut.page > 1)
  @@ Param("h", TRUE, cut.history)
  @@ Param("about", TRUE, cut.about)

Ask(params, p, otherwise) == IF p \in DOMAIN params THEN params[p] ELSE otherwise

(* A scope of a parameter carries one, and no other does.                    *)
ValidScopeCode(code) ==
  code[1] \in DOMAIN ScopeClasses /\ (ScopeClasses[code[1]].parameter <=> code[2] # None)

(* What cannot be read is dropped, and never widens the cut.                 *)
Decode(params) ==
  LET years == Ask(params, "y", None)
      table == Ask(params, "tb", None)
  IN  [entities |-> Ask(params, "e", {}) \cap Uids,
       scopes |-> {code \in Ask(params, "sc", {}) : ValidScopeCode(code)},
       broad |-> Ask(params, "b", FALSE),
       types |-> Ask(params, "t", None),
       years |-> IF years = None \/ years[1] <= years[2] THEN years ELSE <<years[2], years[1]>>,
       collections |-> IF "c" \in DOMAIN params THEN params["c"] \cap Catalog ELSE None,
       table |-> IF table \in DOMAIN Contracts THEN table ELSE None,
       q |-> Trimmed[Ask(params, "q", "")],
       sort |-> Ask(params, "s", None),
       page |-> Ask(params, "p", 1),
       history |-> Ask(params, "h", FALSE),
       about |-> Ask(params, "about", FALSE)]

IsNarrowed(cut) ==
  cut.entities # {} \/ cut.scopes # {} \/ cut.types # None \/ cut.years # None \/ cut.q # ""

----------------------------------------------------------------------------
(* What a cut asks for, what the plan opens, and what is on screen.          *)

Flagships == DOMAIN RawRows

Requested(cut, open) ==
  IF cut.collections # None THEN cut.collections
  ELSE IF Default \in open THEN {Default}
  ELSE IF open = {} THEN {} ELSE {CHOOSE c \in open : TRUE}

Selected(cut, open) == Requested(cut, open) \cap open

\* The one collection in view, open or locked.
TheOne(cut, open) ==
  IF Cardinality(Selected(cut, open)) = 1 THEN CHOOSE c \in Selected(cut, open) : TRUE
  ELSE IF Cardinality(Requested(cut, open)) = 1 THEN CHOOSE c \in Requested(cut, open) : TRUE
  ELSE None

LockedSingle(cut, open) == TheOne(cut, open) # None /\ TheOne(cut, open) \notin open
Unavailable(cut, open) == TheOne(cut, open) # None /\ TheOne(cut, open) \notin Flagships

\* The catalog table, shown for every open collection at once.
Atlas(cut, open) ==
  /\ TheOne(cut, open) = None
  /\ ~IsNarrowed(cut) /\ ~cut.history
  /\ open # {} /\ Selected(cut, open) = open

\* The previews the page reads: of a record page, its own table.
Tables(cut, open) == IF Unavailable(cut, open) THEN {} ELSE Selected(cut, open) \cap Flagships

Wanted(pg, params, addr, open) ==
  IF pg = "viewer" THEN Tables(Decode(params), open)
  ELSE {addr.key} \cap open \cap Flagships

Register(status) == IF status = "ok" THEN KnownReg ELSE EmptyRegister

\* Every row through either register, in shelf order; the page reads the rows
\* of the previews that answered.
Universal == [reg \in {KnownReg, EmptyRegister} |->
                FlattenSeq([n \in DOMAIN Shelf |-> UniversalRows(Shelf[n], RawRows[Shelf[n]], reg)])]

RowsOf(tables, reg) == SelectSeq(Universal[reg], LAMBDA item : item.key \in tables)

\* The list a cut makes of the previews that answered.
Listed(cut, tables, reg) == SortRows(FilterRows(RowsOf(tables, reg), cut, reg), cut.sort)

Cut == Decode(query)
Reg == Register(regStatus)
Want == Wanted(page, query, address, plan)
Rows == RowsOf(Want \cap loaded, Reg)

Loading == Want \ (loaded \cup failed) # {}
Missing == Want \cap failed
Settling == Loading \/ regStatus = "loading"
OnScreen == IF page = "viewer" THEN PageOf(Listed(Cut, Want \cap loaded, Reg), Cut.page) ELSE <<>>

(* Mutant of Kept: no restriction is saved as no restriction.                *)
KeptAsAsked == [Cut EXCEPT !.page = 1]

\* What travels with a file, and what a saved view keeps.
Said == [Cut EXCEPT !.collections = IF @ = None THEN None ELSE Selected(Cut, plan),
                    !.table = IF TheOne(Cut, plan) \in Flagships /\ ~LockedSingle(Cut, plan)
                                THEN TheOne(Cut, plan) ELSE None]
Kept == [Cut EXCEPT !.collections = Selected(Cut, plan), !.page = 1]

CanSave == /\ page = "viewer" /\ ~LockedSingle(Cut, plan) /\ ~Unavailable(Cut, plan)
           /\ ~Atlas(Cut, plan)
CanDownload == CanSave /\ Listed(Cut, Want \cap loaded, Reg) # <<>> /\ ~Settling

(* The file: the listed rows and why each is there, the cut and the previews *)
(* it could not read.                                                        *)
File == LET items == Listed(Cut, Want \cap loaded, Reg)
        IN  [rows |-> items, missing |-> Missing, query |-> Encode(Said),
             explained |-> Cut.broad \/ Cut.scopes # {},
             matchedBy |-> [i \in DOMAIN items |-> MatchedBy(items[i], Cut, Reg)]]

(* The record page: the row its address finds, and the reader's own ordering.*)
Found == IF page = "record" THEN FindRecord(Rows, address) ELSE None
Ordered == Listed(Decode(address.from), Want \cap loaded, Reg)

----------------------------------------------------------------------------
(* Effects: a wanted preview that has not answered is fetched; the note of a *)
(* return is scrolled to once its rows are on screen.                        *)

Fetch(lost) ==
  pending' = (IF lost THEN {} ELSE pending)
             \cup (Wanted(page', query', address', plan') \ (loaded' \cup failed'))

Restore(note) ==
  returning' = IF note # None /\ page' = "viewer" /\ ~Loading' /\ OnScreen' # <<>>
                 THEN None ELSE note

Write(next) ==
  /\ page = "viewer" /\ edits < MaxEdits
  /\ edits' = edits + 1
  /\ query' = Encode(next)
  /\ UNCHANGED <<page, address, opened, plan, regStatus, loaded, failed, saved, kept>>
  /\ Fetch(FALSE)
  /\ Restore(returning)

\* Any filter starts again at the first page.
Narrow(next) == Write([next EXCEPT !.page = 1])

Filtering == page = "viewer" /\ ~LockedSingle(Cut, plan) /\ ~Unavailable(Cut, plan)

Toggle(set, x) == IF x \in set THEN set \ {x} ELSE set \cup {x}

\* The entity list is not offered while rows are still arriving; a register
\* entity beyond the loaded rows is, where its name may be shown.
PickEntity ==
  /\ Filtering /\ ~Settling
  /\ \E u \in DOMAIN Facets(Rows, Reg).entities
              \cup {v \in DOMAIN Reg.byUid : ~Reg.byUid[v].withheld} :
       Narrow([Cut EXCEPT !.entities = Toggle(@, u)])

PickScope ==
  /\ Filtering
  /\ \E c \in DOMAIN Facets(Rows, Reg).scopes :
       Narrow([Cut EXCEPT !.scopes = Toggle(@, c)])

PickBroad ==
  /\ Filtering /\ Facets(Rows, Reg).evaluable # {} /\ Cut.entities # {}
  /\ Narrow([Cut EXCEPT !.broad = ~@])

\* Every option checked again is no restriction; anything less is the set.
PickType ==
  LET options == (IF regStatus = "ok" THEN Classes ELSE DOMAIN Facets(Rows, Reg).types) \cup {Unlinked}
      chosen == IF Cut.types = None THEN options ELSE Cut.types
  IN  /\ Filtering
      /\ \E t \in options :
           LET next == Toggle(chosen, t)
           IN  Narrow([Cut EXCEPT !.types = IF options \subseteq next THEN None ELSE next])

\* A blank box takes the previews' own bound, or the other box.
CommitYears ==
  LET bounds == Facets(Rows, Reg).years
  IN  /\ Filtering /\ bounds # None
      /\ \E from, to \in Years \cup {None} :
           LET lo == IF from # None THEN from ELSE bounds[1]
               hi == IF to # None THEN to ELSE bounds[2]
           IN  Narrow([Cut EXCEPT !.years =
                         IF from = None /\ to = None THEN None
                         ELSE IF lo <= hi THEN <<lo, hi>> ELSE <<hi, lo>>])

TypeText == /\ page = "viewer" /\ ~Atlas(Cut, plan)
            /\ \E t \in Texts : Narrow([Cut EXCEPT !.q = t])

SortBy ==
  /\ OnScreen # <<>> /\ ~Atlas(Cut, plan)
  /\ \E by \in {"entity", "year", "amount"} :
       Narrow([Cut EXCEPT !.sort =
                 [by |-> by,
                  dir |-> IF Cut.sort # None /\ Cut.sort.by = by
                            THEN IF Cut.sort.dir = "asc" THEN "desc" ELSE "asc"
                            ELSE IF by = "amount" THEN "desc" ELSE "asc"]])

TurnPage ==
  LET items == Listed(Cut, Want \cap loaded, Reg)
      n == PageNumber(items, Cut.page)
  IN  /\ Filtering /\ ~Atlas(Cut, plan)
      /\ \E m \in {n - 1, n + 1} : m \in 1..Pages(items) /\ Write([Cut EXCEPT !.page = m])

ClearFilters ==
  /\ Filtering /\ ~Atlas(Cut, plan) /\ (IsNarrowed(Cut) \/ Cut.history)
  /\ Narrow([EmptyCut EXCEPT !.collections = Cut.collections, !.table = Cut.table, !.about = Cut.about])

HideSuperseded == Filtering /\ Cut.history /\ Narrow([Cut EXCEPT !.history = FALSE])

About == /\ page = "viewer" /\ TheOne(Cut, plan) # None
         /\ Narrow([Cut EXCEPT !.about = ~@])

\* The rail: one collection, locked ones too, or every open one by name.
ChooseCollection ==
  \E c \in {{x} : x \in Catalog} \cup {plan} :
    Narrow([Cut EXCEPT !.collections = c, !.table = None])

SaveView ==
  /\ CanSave /\ edits < MaxEdits
  /\ saved' = saved \cup {[query |-> Encode(Kept), had |-> Selected(Cut, plan)]}
  /\ edits' = edits + 1
  /\ UNCHANGED <<page, query, address, opened, plan, regStatus, loaded, failed, pending, kept, returning>>

OpenView ==
  /\ ~LockedSingle(Cut, plan) /\ ~Unavailable(Cut, plan)
  /\ \E s \in saved : query' = s.query
  /\ page = "viewer" /\ edits < MaxEdits /\ edits' = edits + 1
  /\ UNCHANGED <<page, address, opened, plan, regStatus, loaded, failed, saved, kept>>
  /\ Fetch(FALSE) /\ Restore(returning)

----------------------------------------------------------------------------
(* The previews and the register.                                            *)

Arrive(k) ==
  /\ k \in pending
  /\ loaded' = loaded \cup {k}
  /\ pending' = pending \ {k}
  /\ UNCHANGED <<page, query, address, opened, plan, regStatus, failed, saved, kept, edits>>
  /\ Restore(returning)

Refuse(k) ==
  /\ k \in pending
  /\ failed' = failed \cup {k}
  /\ pending' = pending \ {k}
  /\ UNCHANGED <<page, query, address, opened, plan, regStatus, loaded, saved, kept, edits>>
  /\ Restore(returning)

\* Retry, or the browser back online: what failed is fetched again.
Retry ==
  /\ failed # {} /\ edits < MaxEdits
  /\ failed' = {}
  /\ edits' = edits + 1
  /\ UNCHANGED <<page, query, address, opened, plan, regStatus, loaded, saved, kept, returning>>
  /\ Fetch(FALSE)

RegisterAnswers(status) ==
  /\ regStatus = "loading"
  /\ regStatus' = status
  /\ UNCHANGED <<page, query, address, opened, plan, loaded, failed, pending, saved, kept, edits>>
  /\ Restore(returning)

RetryRegister ==
  /\ page = "viewer" /\ regStatus = "failed" /\ edits < MaxEdits
  /\ regStatus' = "loading"
  /\ edits' = edits + 1
  /\ UNCHANGED <<page, query, address, opened, plan, loaded, failed, pending, saved, kept, returning>>

\* The account's plan changes while the page is open.
ChangePlan ==
  /\ edits < MaxEdits
  /\ \E open \in Plans \ {plan} : plan' = open
  /\ edits' = edits + 1
  /\ UNCHANGED <<page, query, address, opened, regStatus, loaded, failed, saved, kept>>
  /\ Fetch(FALSE) /\ Restore(returning)

----------------------------------------------------------------------------
(* To a record and back: each page mounts with nothing loaded.               *)

Mount(note) ==
  /\ edits < MaxEdits /\ edits' = edits + 1
  /\ loaded' = {} /\ failed' = {} /\ regStatus' = "loading"
  /\ UNCHANGED <<plan, saved>>
  /\ Fetch(TRUE)
  /\ Restore(note)

OpenRecord ==
  /\ page = "viewer" /\ ~Atlas(Cut, plan)
  /\ \E i \in DOMAIN OnScreen :
       /\ address' = RecordHref(OnScreen[i], query)
       /\ opened' = [key |-> OnScreen[i].key, index |-> OnScreen[i].index]
  /\ kept' = query
  /\ page' = "record"
  /\ UNCHANGED query
  /\ Mount(None)

\* Previous and next, in the order of the results the reader came from.
Walk ==
  /\ Found # None
  /\ LET at == PlaceOf(Ordered, Found)
     IN  /\ at # 0
         /\ \E n \in {at - 1, at + 1} \cap DOMAIN Ordered :
              /\ address' = RecordHref(Ordered[n], address.from)
              /\ opened' = [key |-> Ordered[n].key, index |-> Ordered[n].index]
  /\ edits < MaxEdits /\ edits' = edits + 1
  /\ UNCHANGED <<page, query, plan, regStatus, loaded, failed, saved, kept, returning>>
  /\ Fetch(FALSE)

\* The viewer takes the return note once, for the query it was written for.
BackToResults ==
  /\ page = "record"
  /\ page' = "viewer"
  /\ query' = address.from
  /\ address' = None /\ opened' = None
  /\ kept' = None
  /\ Mount(IF kept = address.from THEN kept ELSE None)

Init ==
  /\ page = "viewer" /\ address = None /\ opened = None
  /\ query \in Arrivals
  /\ plan \in Plans
  /\ regStatus = "loading" /\ loaded = {} /\ failed = {}
  /\ pending = Wanted("viewer", query, None, plan)
  /\ saved = {} /\ kept = None /\ returning = None
  /\ edits = 0

Next ==
  \/ PickEntity \/ PickScope \/ PickBroad \/ PickType \/ CommitYears \/ TypeText
  \/ SortBy \/ TurnPage \/ ClearFilters \/ HideSuperseded \/ About \/ ChooseCollection
  \/ SaveView \/ OpenView \/ ChangePlan
  \/ \E k \in Flagships : Arrive(k) \/ Refuse(k)
  \/ Retry \/ RegisterAnswers("ok") \/ RegisterAnswers("failed") \/ RetryRegister
  \/ OpenRecord \/ Walk \/ BackToResults

Spec == Init /\ [][Next]_vars

----------------------------------------------------------------------------
(* A name the register withholds can be neither found nor exported, in       *)
(* whatever position of a list cell or under whatever role the row names it  *)
(* (explore.js rowEntities, publicRow, universalRows, matchesQuery, cutTable)*)
WithheldStaysWithheld ==
  regStatus = "ok" =>
    \A n \in DOMAIN Rows :
      LET raw == RawRows[Rows[n].key][Rows[n].index]
          held == {At(raw.names, j) : j \in {i \in DOMAIN raw.uids :
                     raw.uids[i] \in DOMAIN Reg.byUid /\ Reg.byUid[raw.uids[i]].withheld}} \ {None}
      IN  held \cap (Searchable(Rows[n]) \cup Exported(Rows[n])) = {}

(* A count beside a choice is the number of rows that choice alone finds:    *)
(* the pickers and the filter read a row's entities, types, scopes and year  *)
(* alike (explore.js facets, filterRows).                                    *)
FacetsKeepTheirPromise ==
  LET f == Facets(Rows, Reg)
      found(cut) == Len(FilterRows(Rows, [cut EXCEPT !.history = TRUE], Reg))
  IN  /\ \A u \in DOMAIN f.entities : found([EmptyCut EXCEPT !.entities = {u}]) = f.entities[u]
      /\ \A t \in DOMAIN f.types : found([EmptyCut EXCEPT !.types = {t}]) = f.types[t]
      /\ \A c \in DOMAIN f.scopes : found([EmptyCut EXCEPT !.scopes = {c}]) = f.scopes[c]
      /\ found([EmptyCut EXCEPT !.types = {Unlinked}]) = f.unlinked

(* Every listed row of a cut that names entities or scopes has a reason, and *)
(* the reason is true of it: one chosen entity of a chosen type, or a        *)
(* broader group the reader asked for and no chosen entity on the row        *)
(* (explore.js filterRows, broadHits, matchedBy).                            *)
EveryRowSaysWhy ==
  LET items == Listed(Cut, Want \cap loaded, Reg)
  IN  page = "viewer" =>
        \A i \in DOMAIN items :
          LET why == MatchedBy(items[i], Cut, Reg)
              chosen == {e \in Linked(items[i]) : e.uid \in Cut.entities}
          IN  /\ Cut.entities \cup Cut.scopes # {} => why # {}
              /\ "named" \in why => \E e \in chosen : Cut.types = None \/ e.type \in Cut.types
              /\ "broad" \in why => Cut.broad /\ chosen = {}

(* What the caption says was left out is what lifting that filter gives      *)
(* back: the superseded rows and, beside the rows dated outside the range,   *)
(* the undated ones, of this cut and no other (explore.js excludedBy).       *)
LeftOutIsCounted ==
  LET found(cut) == FilterRows(Rows, cut, Reg)
      left == ExcludedBy(Rows, Cut, Reg)
      outside(r) == r.year # None /\ ~(Cut.years[1] <= r.year /\ r.year <= Cut.years[2])
  IN  /\ Len(found([Cut EXCEPT !.history = TRUE])) = Len(found(Cut)) + left.superseded
      /\ Cut.years # None =>
           LET lifted == found([Cut EXCEPT !.years = None])
           IN  Len(lifted) = Len(found(Cut)) + left.undated + Len(SelectSeq(lifted, outside))

(* One object, four uses: the copied link, the view about to be saved and    *)
(* the query in a download's README each open on the rows now listed, and a  *)
(* saved view asks for the collections it was saved on under any later plan  *)
(* (explore.js encodeCut, decodeCut; PressExplore save, download, copyLink). *)
LinksReopenTheView ==
  LET opens(q) == Listed(Decode(q), Tables(Decode(q), plan), Reg)
      links == {Encode(Cut)} \cup (IF CanSave THEN {Encode(Kept)} ELSE {})
               \cup (IF CanDownload THEN {File.query} ELSE {})
  IN  /\ page = "viewer" => \A q \in links : opens(q) = opens(query)
      /\ \A s \in saved : Requested(Decode(s.query), plan) = s.had

(* A file is never silently short: when it may be made, every row the cut    *)
(* selects of every collection in view is in it, once, unless the file says  *)
(* the collection could not be read (useSamples.js; PressExplore download).  *)
DownloadIsWhole ==
  CanDownload =>
    LET due == RowsOf(Want \ File.missing, Reg)
    IN  /\ \A i \in DOMAIN due : Selects(due[i], Cut, Reg) =>
              Cardinality({j \in DOMAIN File.rows : File.rows[j] = due[i]}) = 1
        /\ \A i \in DOMAIN File.rows : File.rows[i] \in Range(due)

(* A record's address opens the row it was made from or no row, whatever     *)
(* identifiers the table repeats and whatever is filtered                    *)
(* (pressRecord.js recordHref, findRecord; CedarPressRecord).                *)
OpensTheRowClicked ==
  Found # None => Found.key = opened.key /\ Found.index = opened.index

============================================================================
