------------------------------- MODULE Guides -------------------------------
(* The researcher documents: a guide for each collection and a dictionary    *)
(* of them all (docs-markdown.mjs, release-docs.mjs).  What is imported of a *)
(* release, the sample a reader downloads (render_sample_downloads.py) and   *)
(* the documents are files written at different times; a document says what  *)
(* it read when it was made.  Sentences that are the same in every guide are *)
(* left out.  Importing a release is external.                               *)
EXTENDS Integers, Sequences, SequencesExt, FiniteSets, TLC

CONSTANTS
  None,
  Imports,    \* collection |-> the states a release may leave its sources in
  Prose,      \* the collections somebody wrote a guide for
  Maps,       \* collection |-> its field map: order, fields, owed; None if it has none
  Packaging,  \* the producer's columns no download carries
  Own,        \* the columns the download adds, in order, each with a meaning of ours
  Named,      \* class |-> the columns whose name says they are of it
  Shapes,     \* shape |-> the values written that way; "" is no value
  MaxActs

Collections == DOMAIN Imports

GuidesAssumption ==
  /\ DOMAIN Maps = Collections /\ Prose \subseteq Collections
  /\ MaxActs \in Nat

VARIABLES
  source,  \* per collection: what is imported of its release
  disk,    \* file -> what it holds, None when missing or unreadable
  writing, \* what the script under way has still to write, in order
  acts
vars == <<source, disk, writing, acts>>

Sheet(c) == <<"sheet", c>>
Guide(c) == <<"guide", c>>
Record == <<"record", None>>
Index == <<"index", None>>
Dictionary == <<"dictionary", None>>
Files == {Sheet(c) : c \in Collections} \cup {Guide(c) : c \in Collections} \cup {Record, Index, Dictionary}

Sold(src) == {c \in Collections : ~src[c].excluded}
Columns(fields) == [i \in DOMAIN fields |-> fields[i].column]
Cells(rows, column) == {r[column] : r \in {q \in ToSet(rows) : column \in DOMAIN q}}
-----------------------------------------------------------------------------
(* release-docs: what a dictionary must be before a guide is made of it.     *)

\* A preview in the spreadsheet's place is of the producer's spreadsheet.
Installed(s) == s.installed

\* Mutant of Follows: nobody compares the dictionary with the file.
FollowsAny(fields, header) == TRUE
Follows(fields, header) == Columns(fields) = header

\* What a row is, where it is from, and a meaning for each column, once, as it is exported.
Substantive(book) ==
  /\ book # None /\ book.fields # << >> /\ book.grain # None
  /\ IsInjective(Columns(book.fields))
  /\ \A f \in ToSet(book.fields) : f.meant /\ f.exported

\* releasedBook: what is installed without such a dictionary stops the script.
Refused(s) == Installed(s) /\ ~Substantive(s.book)
-----------------------------------------------------------------------------
(* The sample download: the preview without its packaging.                   *)
Rendered(s) ==
  [columns |-> SelectSeq(s.preview.columns, LAMBDA k : k \notin Packaging) \o Own,
   rows |-> [i \in DOMAIN s.preview.rows |->
              [k \in (ToSet(s.preview.columns) \ Packaging) \cup ToSet(Own) |->
                 IF k \in ToSet(Own) THEN "ours" ELSE s.preview.rows[i][k]]]]

\* What is recorded of them: the header and, where a layout or the rows say it, the grain.
RecordOf(src) ==
  [c \in Sold(src) |-> [header |-> Rendered(src[c]).columns, grain |-> src[c].preview.grain]]

\* codebookFor: the download's own header, each column with the meaning the dictionary or we give it.
Means(book, column) ==
  column \in ToSet(Own) \/ (book # None /\ \E f \in ToSet(book.fields) : f.column = column /\ f.meant)
BookOf(c, src, files) ==
  IF c \notin DOMAIN files[Record] THEN src[c].book
  ELSE LET seen == files[Record][c] IN
       [grain |-> seen.grain,
        fields |-> [i \in DOMAIN seen.header |->
          [column |-> seen.header[i], meant |-> Means(src[c].book, seen.header[i]), exported |-> TRUE]]]

\* downloadFor: a file the record names and the disk holds.
DownloadOf(c, files) == IF c \in DOMAIN files[Record] THEN files[Sheet(c)] ELSE None
-----------------------------------------------------------------------------
(* What is said of a column, from its name and from its cells.               *)
Is(class, column) == column \in Named[class]
All(filled, shape) == filled # {} /\ filled \subseteq Shapes[shape]
Some(filled, shape) == filled \cap Shapes[shape] # {}

Rule(holds, says) == [holds |-> holds, says |-> says]
FirstThatHolds(rules) == SelectSeq(rules, LAMBDA r : r.holds)[1].says

TypeOf(column, values) ==
  LET filled == values \ {""} IN
  FirstThatHolds(<<
    Rule(Is("id", column) /\ ~Some(filled, "listed"), "id"),
    Rule(Is("id", column) \/ Is("several", column), "list"),
    Rule(Is("money", column) \/ (Is("amount", column) /\ All(filled, "number")), "money"),
    Rule(Is("flag", column), "yesno"),
    Rule(Is("year", column), "year"),
    Rule(All(filled, "stamp"), "datetime"),
    Rule(All(filled, "day"), "date"),
    Rule(Is("dated", column) /\ All(filled, "dateish") /\ ~All(filled, "number"), "date_precision"),
    Rule(~Is("coded", column) /\ All(filled, "number"), "number"),
    Rule(Is("gathered", column) /\ Some(filled, "listed"), "list"),
    Rule(TRUE, "text")>>)

BlankMeans(column, withheld, type) ==
  FirstThatHolds(<<
    Rule(withheld, "masked, or none reported"),
    Rule(column \in Packaging, "never blank"),
    Rule(Is("count", column), "not stated; 0 is none"),
    Rule(type = "yesno", "not stated; 0 is no"),
    Rule(type = "money", "no amount; never zero"),
    Rule(type \in {"date", "date_precision", "datetime", "year"}, "no date"),
    Rule(TRUE, "none, or not applicable")>>)

\* previewFacts, measured from the rows of the file itself.
AllBlank(sheet, fields) ==
  {k \in ToSet(Columns(fields)) : sheet.rows # << >> /\ Cells(sheet.rows, k) \subseteq {""}}
Tokens(sheet, fields) ==
  {<<k, v>> \in ToSet(Columns(fields)) \X Shapes.token : v \in Cells(sheet.rows, k)}

Entry(column, type, withheld) ==
  [column |-> column, type |-> type, blank |-> BlankMeans(column, withheld, type)]
-----------------------------------------------------------------------------
(* One guide.                                                                *)
ReleasedGuide(c, src, files) ==
  LET sheet == DownloadOf(c, files)
      fields == BookOf(c, src, files).fields
  IN [kind |-> "released", grain |-> BookOf(c, src, files).grain, of |-> src[c].of,
      fields |-> [i \in DOMAIN fields |->
        Entry(fields[i].column, TypeOf(fields[i].column, Cells(sheet.rows, fields[i].column)), FALSE)],
      rows |-> Len(sheet.rows), allBlank |-> AllBlank(sheet, fields), tokens |-> Tokens(sheet, fields)]

\* A collection with no spreadsheet installed keeps its authored guide: the approved order,
\* with what is new and owed said to be, and what is neither new nor described passed over.
AuthoredFields(map, rows) ==
  LET described(k) == {f \in ToSet(map.fields) : f.to = k}
      line(k) ==
        IF described(k) = {}
        THEN [column |-> k, type |-> "text", blank |-> IF k \in map.owed THEN "owed" ELSE "not inferred"]
        ELSE LET f == CHOOSE f \in described(k) : TRUE
             IN Entry(k, IF f.as # None THEN f.as ELSE TypeOf(f.column, Cells(rows, f.column)), f.withheld)
      kept == SelectSeq(map.order, LAMBDA k : described(k) # {} \/ k \in map.new)
  IN IF map.fields = << >> THEN << >> ELSE [i \in DOMAIN kept |-> line(kept[i])]

AuthoredGuide(c, src) ==
  [kind |-> "authored", of |-> src[c].of,
   grain |-> IF Maps[c] = None THEN None ELSE Maps[c].grain,
   fields |-> IF Maps[c] = None THEN << >> ELSE AuthoredFields(Maps[c], src[c].preview.rows)]

\* guideFor: a release with no download, or no words at all, stops the script.
Stops(c, src, files) ==
  IF Installed(src[c])
  THEN \/ Refused(src[c])
       \/ DownloadOf(c, files) = None
       \/ ~Substantive(BookOf(c, src, files))
       \/ ~Follows(BookOf(c, src, files).fields, DownloadOf(c, files).columns)
  ELSE c \notin Prose

GuideFor(c, src, files) ==
  IF Installed(src[c]) THEN ReleasedGuide(c, src, files) ELSE AuthoredGuide(c, src)

\* The dictionary of them all tells the installed spreadsheets from the older entries.
DictionaryFor(src) ==
  [c \in {k \in Collections : src[k].book # None} |->
     [installed |-> c \in Sold(src) /\ Installed(src[c]), fields |-> Columns(src[c].book.fields)]]

\* renderDocuments: every document asked for, or none if one of them stops the script.
Kinds == {"codebook", "guides", "all"}
Renders(kind, src, files) ==
  /\ files[Record] # None
  /\ kind # "guides" => \A c \in Sold(src) : ~Refused(src[c])
  /\ kind # "codebook" => \A c \in Sold(src) : ~Stops(c, src, files)

GuideFiles(src, files) ==
  [f \in {Guide(c) : c \in Sold(src)} \cup {Index} |->
     IF f = Index THEN Sold(src) ELSE GuideFor(f[2], src, files)]
Documents(kind, src, files) ==
  (IF kind = "guides" THEN << >> ELSE Dictionary :> DictionaryFor(src))
  @@ (IF kind = "codebook" THEN << >> ELSE GuideFiles(src, files))

\* --check: a missing document is as stale as one that says something else.
StaleDocuments(kind, src, files) ==
  LET made == Documents(kind, src, files) IN {f \in DOMAIN made : files[f] # made[f]}
Check(kind) == Renders(kind, source, disk) /\ StaleDocuments(kind, source, disk) = {}

Downloads(src) ==
  [f \in {Sheet(c) : c \in Sold(src)} \cup {Record} |->
     IF f = Record THEN RecordOf(src) ELSE Rendered(src[f[2]])]
DownloadsCheck ==
  /\ \A f \in DOMAIN Downloads(source) : disk[f] = Downloads(source)[f]
  /\ \A c \in Collections \ Sold(source) : disk[Sheet(c)] = None
-----------------------------------------------------------------------------
Act == acts < MaxActs /\ acts' = acts + 1

Import(c) ==
  /\ Act
  /\ \E s \in Imports[c] : s # source[c] /\ source' = [source EXCEPT ![c] = s]
  /\ UNCHANGED <<disk, writing>>

\* Each script works out all it will write before it writes the first file.
InOrder(files, order) == [i \in DOMAIN order |-> [file |-> order[i], text |-> files[order[i]]]]

\* A download of a collection that is no longer sold is removed first.
RenderDownloads ==
  /\ writing = << >> /\ Act
  /\ LET made == Downloads(source)
     IN writing' = InOrder(made, SetToSeq(DOMAIN made \ {Record}) \o <<Record>>)
  /\ disk' = [f \in Files |-> IF f \in {Sheet(c) : c \in Collections \ Sold(source)} THEN None ELSE disk[f]]
  /\ UNCHANGED source

RenderDocuments(kind) ==
  /\ writing = << >> /\ Act
  /\ Renders(kind, source, disk)
  /\ LET made == Documents(kind, source, disk)
     IN writing' = InOrder(made, SetToSeq(DOMAIN made \cap {Dictionary}) \o SetToSeq(DOMAIN made \ {Dictionary, Index})
                                 \o SetToSeq(DOMAIN made \cap {Index}))
  /\ UNCHANGED <<source, disk>>

Write ==
  /\ writing # << >>
  /\ disk' = [disk EXCEPT ![Head(writing).file] = Head(writing).text]
  /\ writing' = Tail(writing)
  /\ UNCHANGED <<source, acts>>

\* Stopped, perhaps in the middle of a file.
Stop ==
  /\ writing # << >> /\ Act
  /\ disk' \in {disk, [disk EXCEPT ![Head(writing).file] = None]}
  /\ writing' = << >>
  /\ UNCHANGED source

Init ==
  /\ source \in {s \in [Collections -> UNION {Imports[c] : c \in Collections}] :
                   \A c \in Collections : s[c] \in Imports[c]}
  /\ disk = [f \in Files |-> None] /\ writing = << >> /\ acts = 0

Next == \/ \E c \in Collections : Import(c)
        \/ RenderDownloads \/ (\E kind \in Kinds : RenderDocuments(kind)) \/ Write \/ Stop

Spec == Init /\ [][Next]_vars
-----------------------------------------------------------------------------
(* "Re-measured on every render, so the guide cannot describe a sample it no *)
(* longer ships": where the documents pass their check, the guide of an      *)
(* installed release has a line for each column of the file a reader is      *)
(* handed, in its order, and what it observed is true of that file, whatever *)
(* was imported, rendered or stopped between.                                *)
Agrees(type, v) ==
  CASE type = "date" -> v \in Shapes.day
    [] type = "datetime" -> v \in Shapes.stamp
    [] type = "date_precision" -> v \in Shapes.dateish
    [] type = "number" -> v \in Shapes.number
    [] OTHER -> TRUE

GuideIsOfItsDownload ==
  Check("guides") =>
    \A c \in Sold(source) : Installed(source[c]) =>
      LET guide == disk[Guide(c)]
          sheet == disk[Sheet(c)]
      IN /\ Columns(guide.fields) = sheet.columns
         /\ \A i \in DOMAIN guide.fields : \A r \in ToSet(sheet.rows) :
              /\ r[sheet.columns[i]] # "" => Agrees(guide.fields[i].type, r[sheet.columns[i]])
              /\ sheet.columns[i] \in guide.allBlank => r[sheet.columns[i]] = ""

(* And where the downloads pass theirs too, the guide is of the release that *)
(* is imported: its grain, its count, and none of the producer's packaging.  *)
GuideIsOfItsRelease ==
  Check("guides") /\ DownloadsCheck =>
    \A c \in Sold(source) : Installed(source[c]) =>
      LET guide == disk[Guide(c)]
      IN /\ guide.grain = source[c].preview.grain /\ guide.of = source[c].of
         /\ ToSet(Columns(guide.fields)) \cap Packaging = {}
         /\ \A k \in ToSet(Columns(guide.fields)) : Means(source[c].book, k)
=============================================================================
