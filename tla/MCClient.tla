----------------------------- MODULE MCClient -----------------------------
(* The client's components and the release scripts, each on a small instance *)
(* of its own.  A behaviour chooses one part and stays in it: the parts      *)
(* share no state in the code, and one search covers what each of them can   *)
(* do.  Those of Client are given their constants by the configuration; the  *)
(* others are instances here, in the variables Client has for its parts.     *)
EXTENDS Client, Explore

(* The viewer: two open collections with previews, one locked, one without a *)
(* preview; rows with list cells, a blank in a list, a withheld entity first,*)
(* second and as a further party, a uid the register does not know, repeated *)
(* record ids, rows without an entity or a year, and one superseded.         *)
MCContracts ==
  [f |-> [nameList |-> TRUE, recipientSubject |-> FALSE, fiscal |-> TRUE, typed |-> FALSE,
         linkStatus |-> TRUE, builder |-> FALSE],
   g |-> [nameList |-> FALSE, recipientSubject |-> TRUE, fiscal |-> FALSE, typed |-> TRUE,
         linkStatus |-> FALSE, builder |-> TRUE],
   p |-> [nameList |-> TRUE, recipientSubject |-> FALSE, fiscal |-> TRUE, typed |-> FALSE,
         linkStatus |-> TRUE, builder |-> FALSE]]

Row == [id |-> None, kind |-> None, uids |-> <<>>, names |-> <<>>, types |-> <<>>, roles |-> <<>>,
        parties |-> <<>>, subject |-> None, scopes |-> None, fiscal |-> None, date |-> None,
        amount |-> None, bounds |-> None, words |-> {}, superseded |-> None, status |-> None,
        source |-> <<>>, fallback |-> <<>>, key |-> None, replacedBy |-> None]

Note == [of |-> None, address |-> FALSE, safe |-> FALSE]
Link(id) == [of |-> id, address |-> TRUE, safe |-> TRUE]
Signed == [Link(None) EXCEPT !.safe = FALSE]
Day(year) == [year |-> year, day |-> 1]

MCRawRows ==
  [f |-> <<[Row EXCEPT !.uids = <<"e1", "e2">>, !.names = <<"n1", "n2">>, !.roles = <<"a", "b">>,
                       !.id = "r1", !.fiscal = 1, !.amount = 5, !.superseded = "not_superseded",
                       !.date = Day(2), !.source = <<Note, Link("r1")>>],
           [Row EXCEPT !.id = "r2", !.scopes = {[scope |-> <<"all", None>>, dated |-> TRUE]}, !.date = [year |-> 1, day |-> None], !.words = {"w"},
                       !.status = "unresolved", !.source = <<Note>>],
           [Row EXCEPT !.uids = <<Blank, "e1", "e1">>, !.names = <<"n4", "n1", "n1">>, !.roles = <<"a", "a", "b">>,
                       !.id = "r3", !.fiscal = 2, !.amount = 3, !.scopes = {[scope |-> <<"some", "OK">>, dated |-> FALSE]}],
           [Row EXCEPT !.uids = <<"e3", "e4">>, !.names = <<"n3", Blank>>, !.types = <<"T", "T">>, !.id = "r2x",
                       !.parties = <<[uid |-> "e2", role |-> "s"]>>, !.fiscal = 2, !.superseded = "superseded",
                       !.source = <<Link("r2x")>>, !.replacedBy = "r9"]>>,
   g |-> <<[Row EXCEPT !.uids = <<"e2">>, !.names = <<"n2">>, !.subject = "n2", !.id = "r1", !.kind = "A", !.date = Day(2)],
           [Row EXCEPT !.names = <<"n5">>, !.id = "r1", !.kind = "B", !.amount = 4,
                       !.bounds = [lower |-> 1, upper |-> None], !.source = <<Signed>>, !.key = "k1"],
           [Row EXCEPT !.uids = <<"e1">>, !.names = <<"n1">>, !.id = "r2", !.kind = "B", !.date = Day(1)],
           [Row EXCEPT !.uids = <<"e3">>, !.names = <<"n3">>, !.id = "r2", !.kind = "B", !.amount = 4]>>,
   p |-> <<[Row EXCEPT !.uids = <<"e1">>, !.names = <<"n1">>]>>]

MCKnownReg ==
  [dated |-> TRUE,
   byUid |-> [e1 |-> [name |-> "n1", type |-> "T", withheld |-> FALSE],
              e2 |-> [name |-> None, type |-> "K", withheld |-> TRUE]]]

MCScopeClasses ==
  [all |-> [classes |-> {"T"}, parameter |-> FALSE], some |-> [classes |-> None, parameter |-> TRUE]]

MCNameRank ==
  [e1 |-> 1, e2 |-> 2, e3 |-> 3, e4 |-> 4, n2 |-> 5, n3 |-> 6, n1 |-> 7, n4 |-> 8, n5 |-> 9]

MCShelf == <<"f", "g", "p">>

MCPlans == {{"f", "g"}, {"g", "p"}}

MCTrimmed == [x \in {"", "n2", "w", "w "} |-> IF x = "w " THEN "w" ELSE x]

MCTexts == {"n2", "w "}

MCArrivals ==
  {<<>>,
   [c |-> {"f", "g", "q"}, e |-> {"e2", "bad"}, t |-> {"T"}, h |-> TRUE],
   [c |-> {"f"}, sc |-> {<<"all", None>>, <<"some", None>>, <<"bad", None>>}, y |-> <<2, 1>>, tb |-> "x"],
   [c |-> {"g"}, s |-> [by |-> "amount", dir |-> "desc"], p |-> 2],
   [c |-> {"f"}, e |-> {"e1"}, b |-> TRUE]}

(* A bank with a general topic, two collections of which one has a deeper    *)
(* answer, and the two fillers; an id no intent has; questions that reach    *)
(* every branch.  A topic of the door is a pair, like those of the reader.   *)
Door(id) == <<"door", id>>
DoorBank == <<Door("what"), Door("funding"), Door("deals"), Door("tell"), Door("yes")>>
DoorTopics == {"door"} \X {"what", "funding", "deals", "tell", "yes", "gone"}
DoorFillers == {Door("tell"), Door("yes")}
It(chip, who, deep, variants, triggers, next) ==
  [chip |-> chip, who |-> who, deep |-> deep, variants |-> variants, triggers |-> triggers, next |-> next]
DoorIntent ==
  Door("what")    :> It(TRUE, <<>>, TRUE, 0, {"what is"}, <<Door("funding"), Door("gone")>>) @@
  Door("funding") :> It(TRUE, <<>>, TRUE, 0, {"funding", "the funding"}, <<Door("deals"), Door("what")>>) @@
  Door("deals")   :> It(TRUE, <<"nation">>, FALSE, 0, {"deals", "the deals"}, <<>>) @@
  Door("tell")    :> It(FALSE, <<>>, FALSE, 2, {"tell me more"}, <<>>) @@
  Door("yes")     :> It(FALSE, <<>>, FALSE, 2, {"ok"}, <<>>)
DoorDrills == {Door("tell")}
DoorAffirms == {Door("yes")}
DoorStarters == {Door("what"), Door("deals")}
DoorWordsOf == [p \in {"what is", "the funding", "the deals"} |-> 2] @@
               [p \in {"funding", "deals", "ok", "joke"} |-> 1] @@ ("tell me more" :> 3)
Typed(has, is) == [has |-> has, is |-> is, short |-> FALSE, hits |-> <<>>, near |-> <<>>, who |-> <<>>]
DoorTellMore == Typed({"tell me more"}, "tell me more")
DoorAsked ==
  { DoorTellMore,
    Typed({"what is"}, None),
    Typed({"tell me more", "funding"}, None),
    Typed({"funding", "the funding", "deals", "the deals"}, None),
    [Typed({"joke", "deals"}, None) EXCEPT !.near = <<Door("deals"), Door("deals"), Door("what")>>, !.who = <<"nation">>],
    [Typed({}, None) EXCEPT !.hits = <<[intent |-> Door("what"), near |-> TRUE, lengthGap |-> 3, score |-> 0],
                                       [intent |-> Door("deals"), near |-> TRUE, lengthGap |-> 1, score |-> 1]>>],
    Typed({}, None) }
DoorCollection == "c1" :> Door("funding") @@ "c2" :> None
DoorHandOver == [c \in {"c1", "c2"} |-> Typed({"what is", "funding"}, None)]
DoorRoute == "nation" :> Door("what")
DoorFollowUps == <<Door("what"), Door("deals"), Door("funding")>>

(* Two scopes, one with a question of its own, and a bare follow-up.         *)
ReaderTopics == {"a", "b", None} \X {"covers", "sources", "more"}
CedarTopics == ReaderTopics \cup DoorTopics
ReaderSuggested == "a" :> <<"covers">> @@ "b" :> <<>>
ReaderFallback == <<"covers">>
ReaderFirst == <<"b", "a">>

(* One collection with two versions; the generators that rename the file     *)
(* they wrote and those that write in place, with the files each writes.     *)
FilesOutputs == "derive-explore" :> <<"explore.json", "register.json">> @@ "seo-head" :> <<"index.html", "sitemap.xml">>
                @@ "docs-markdown" :> <<"guides">> @@ "dump" :> <<"_press_data.json">>

(* Profile: three collections on two plans; rows that name an entity first,  *)
(* second, twice and as a further party, a withheld one, a superseded record,*)
(* and a scope that covers a class; four profiles, one of an id nobody has.  *)
ProfileContracts ==
  [f |-> [nameList |-> TRUE, recipientSubject |-> FALSE, fiscal |-> TRUE, typed |-> FALSE,
         linkStatus |-> TRUE, builder |-> FALSE],
   g |-> [nameList |-> FALSE, recipientSubject |-> TRUE, fiscal |-> FALSE, typed |-> TRUE,
         linkStatus |-> FALSE, builder |-> TRUE],
   h |-> [nameList |-> FALSE, recipientSubject |-> TRUE, fiscal |-> FALSE, typed |-> FALSE,
         linkStatus |-> TRUE, builder |-> FALSE]]

ProfileRows ==
  [f |-> <<[Row EXCEPT !.uids = <<"e1", "e2">>, !.names = <<"n1", "n2">>, !.roles = <<"a", "b">>,
                       !.id = "r1", !.fiscal = 1],
           [Row EXCEPT !.id = "r2", !.scopes = {[scope |-> <<"all", None>>, dated |-> TRUE]}, !.subject = "s1"],
           [Row EXCEPT !.uids = <<"e3">>, !.names = <<"n3">>, !.id = "r3",
                       !.parties = <<[uid |-> "e1", role |-> "s"]>>, !.fiscal = 2, !.superseded = "superseded"]>>,
   g |-> <<[Row EXCEPT !.uids = <<"e2">>, !.names = <<"n2">>, !.subject = "n2", !.id = "r1", !.kind = "A"],
           [Row EXCEPT !.uids = <<"e1">>, !.names = <<"n1">>, !.subject = "s2", !.id = "r1", !.kind = "B"]>>,
   h |-> <<[Row EXCEPT !.uids = <<"e3">>, !.names = <<"n3">>]>>]

ProfileReg ==
  [dated |-> TRUE,
   byUid |-> [e1 |-> [name |-> "n1", type |-> "T", withheld |-> FALSE],
              e2 |-> [name |-> None, type |-> "K", withheld |-> TRUE],
              e3 |-> [name |-> "n3", type |-> "T", withheld |-> FALSE]]]

ProfileClasses == [all |-> [classes |-> {"T"}, parameter |-> FALSE]]
ProfileRank == [e2 |-> 1, n1 |-> 2, n3 |-> 3]
ProfileShelf == <<"f", "g", "h">>
ProfilePlans == {{"f", "h"}, {"f", "g"}}

(* Record: six columns, an amount, a date, a long key, a column and its      *)
(* normalized form, and a flag; two contracts, one with a thin view and one  *)
(* with none; two codebooks, one of which does not know the key.             *)
Trait == [group |-> "other", lineage |-> FALSE, flag |-> FALSE, key |-> FALSE, money |-> FALSE,
          yesNo |-> FALSE, normalizes |-> None]

RecordColumns ==
  [amount |-> [Trait EXCEPT !.group = "financial", !.money = TRUE],
   date |-> Trait,
   award |-> [Trait EXCEPT !.group = "identifiers", !.key = TRUE],
   kind |-> [Trait EXCEPT !.group = "classifications"],
   kindNormalized |-> [Trait EXCEPT !.group = "classifications", !.normalizes = "kind"],
   flag |-> [Trait EXCEPT !.group = "classifications", !.flag = TRUE, !.yesNo = TRUE]]

BareContract == [amount |-> None, date |-> None, subject |-> None, observation |-> {}, identity |-> {},
             view |-> <<>>, attribution |-> <<>>]

RecordContracts ==
  {BareContract,
   [BareContract EXCEPT !.amount = "amount", !.view = <<"amount", "kindNormalized", "award">>, !.attribution = <<"award">>],
   [BareContract EXCEPT !.date = "date", !.view = <<"flag", "kind">>]}

RecordBooks == {<<"date", "kind", "kindNormalized", "amount", "flag">>, <<"award", "kind", "date", "flag">>}

CellsOf(c) == CASE c = "amount" -> {"number", "code"} [] c = "award" -> {"long", "blank"} [] OTHER -> {"plain"}
RecordRows == UNION {{cells \in [C -> {"number", "code", "long", "blank", "plain"}] : \A c \in C : cells[c] \in CellsOf(c)} :
                      C \in {DOMAIN RecordColumns \ hidden : hidden \in SUBSET {"amount", "kind", "kindNormalized", "flag"}}}

(* Table: one first published with the columns of an award, one of reported  *)
(* revenues, and a thin one; two candidate record ids, a preset naming its   *)
(* subject and its fallback source, an override declaring its record id, one *)
(* a role without a name, one a view, one of a retired column, and one a     *)
(* link that is built.                                                       *)
TableRules == [uid |-> <<"cedar_uid">>, name |-> <<"canonical_name">>, role |-> <<"cedar_entity_role">>,
            subject |-> <<"recipient_name">>, amount |-> <<"amount_usd">>,
            basis |-> <<"amount_basis", "measurement_status">>,
            qualifiers |-> <<"measurement_status">>, year |-> <<"fiscal_year">>,
            date |-> <<"action_date", "period_start">>, source |-> <<"source_url", "page_url">>,
            period |-> {"period_start", "measurement_status"}, start |-> "period_start",
            revenue |-> <<"commodity", "revenue_type">>, roles |-> {"sub_cedar_uid"}]
TableObservation == <<"title", "award_key">>
TableRecordIds == <<"deal_id", "award_key">>
TablePresentation == [subject |-> "recipient_name", fallback |-> "source_urls"]
TableOverrides == {[f \in {} |-> None], [amount |-> None], [source |-> None, builder |-> "usaspending_award"],
                [defaults |-> <<"title", "deal_id">>], [id |-> "award_key"],
                [roles |-> {[column |-> "award_key", role |-> None]}]}
TableBuilders == [usaspending_award |-> {"award_key"}]
TableDisplay == <<"canonical_name", "title", "amount_usd", "action_date", "source_url", "__source">>
TableStands == [action_date |-> <<"fiscal_year">>]
TableCodebook == <<"award_key", "amount_usd", "measurement_status">>
TableAward == {"cedar_uid", "canonical_name", "recipient_name", "amount_usd", "amount_basis",
               "measurement_status", "fiscal_year", "action_date", "title", "award_key",
               "deal_id", "source_url", "source_urls"}
TableRevenue == {"cedar_uid", "sub_cedar_uid", "canonical_name", "amount_usd", "measurement_status",
                 "period_start", "commodity", "revenue_type", "page_url"}
TableThin == {"cedar_uid", "title", "amount_usd", "deal_id", "award_key"}
TablePublished == {TableAward, TableRevenue, TableThin}
TableColumns == UNION TablePublished

(* Priorities: one text is about a priority, one about none. *)
PriorityAbout == [t \in {"t1", "t2"} |-> IF t = "t1" THEN "p1" ELSE None]

(* Account: the tab is opened on every such page. *)
Tab(p, link) == [page |-> p, link |-> link]
AccountLandings == {Tab("login", None), Tab("login", "reset"), Tab("login", "change"), Tab("create", "l1"),
               Tab("plans", None), Tab("confirm", None), Tab("settings", None)}

(* News: three collections on sale, one of them without a record of its      *)
(* version, and a retired one; two readers with overlapping shelves, one of  *)
(* them sent a bad feed, and an account whose plan has no page.              *)
Sold(id, version) == [id |-> id, version |-> version]
Rec(version, date, k) == [version |-> version, date |-> date, kind |-> k]
Sent(id, version) == [id |-> id, version |-> version, event |-> version]

NewsManifest == <<Sold("a", "v2"), Sold("b", "v1"), Sold("c", "v9"), Sold("d", "v1")>>
NewsRefreshes == [selected |-> [id \in {"b"} |-> 7], pin |-> 5]
NewsLedger == [id \in {"a", "b", "c", "d", "old"} |->
               CASE id = "a" -> <<Rec("v1", 3, "data"), Rec("v2", 9, "methodology")>>
                 [] id = "b" -> <<Rec("v1", 5, "data")>>
                 [] id = "c" -> <<Rec("v1", 4, "data")>>
                 [] id = "d" -> <<Rec("v1", 9, "methodology")>>
                 [] OTHER -> <<Rec("v1", 5, "data")>>]
NewsOffered == [u \in {"p1", "p2", "free"} |->
                CASE u = "p1" -> <<Sent("b", "s1"), Sent("a", "s1")>>
                  [] u = "p2" -> <<Sent("a", "s1"), Sent("d", "s1"), Sent("c", "s1")>>
                  [] OTHER -> <<>>]

(* Settings: two audiences on offer and an answer one of them replaced. *)
SettingsOffered == <<"government", "media">>
SettingsPreserved == [k \in {"federal"} |-> "government"]

(* Showcase: five use cases, one about a collection that is not on sale and  *)
(* one about none; those shown have one or two chips and one or two          *)
(* photographs.                                                              *)
ShowcaseCatalog == {"funding", "prime", "lobbying"}
UseCase(collections, pool) == [collections |-> collections, pool |-> pool]
ShowcaseCases == <<UseCase(<<"funding", "prime">>, 2), UseCase(<<"prime", "gaming">>, 3), UseCase(<<"prime">>, 1),
                   UseCase(<<>>, 1), UseCase(<<"lobbying">>, 2)>>

(* Shelves: collections of each shelf, and one of Grove's that the catalog   *)
(* still names.                                                              *)
ShelvesPlaced == [funding |-> "standard", prime |-> "pro", plot |-> "pro", gaming |-> "grove"]
ShelvesCatalog == DOMAIN ShelvesPlaced
ShelvesLaunch == ShelvesCatalog \ {"gaming"}
ShelvesSamples == [c \in ShelvesLaunch |-> [path |-> c, because |-> None]]

(* Guides: one collection whose spreadsheet is installed and may be imported *)
(* with other rows, another order of columns or a column nobody defined, and *)
(* one that may keep its authored guide, be installed, or not be sold.       *)
GuidesField(k) == [column |-> k, meant |-> TRUE, exported |-> TRUE]
GuidesBook == [grain |-> "row", fields |-> <<GuidesField("kind"), GuidesField("uid"), GuidesField("when")>>]
GuidesRow(uid, when) == [kind |-> "deal", uid |-> uid, when |-> when]
GuidesRelease(book, rows, grain) ==
  [excluded |-> FALSE, installed |-> TRUE, book |-> book, of |-> Len(rows),
   preview |-> [columns |-> <<"kind", "uid", "when">>, rows |-> rows, grain |-> grain]]
GuidesMonths == GuidesRelease(GuidesBook, <<GuidesRow("a|b", "2014-05"), GuidesRow("", "2014-05-01")>>, "row")
GuidesDays == GuidesRelease(GuidesBook, <<GuidesRow("", "2014-05-01")>>, "event")
GuidesSwapped == [GuidesMonths EXCEPT !.preview.columns = <<"kind", "when", "uid">>,
                                      !.book.fields = <<GuidesField("kind"), GuidesField("when"), GuidesField("uid")>>]
GuidesUndefined == [GuidesDays EXCEPT !.book.fields[3].meant = FALSE]
GuidesOlder == [GuidesDays EXCEPT !.installed = FALSE]
GuidesImports == "c1" :> {GuidesMonths, GuidesDays, GuidesSwapped, GuidesUndefined}
              @@ "c2" :> {GuidesOlder, GuidesDays, [GuidesDays EXCEPT !.excluded = TRUE]}
GuidesMap == [grain |-> "event", order |-> <<"id", "when", "place", "note">>, new |-> {"place"}, owed |-> {"place"},
              fields |-> <<[column |-> "uid", to |-> "id", as |-> None, withheld |-> FALSE],
                           [column |-> "when", to |-> "when", as |-> None, withheld |-> TRUE]>>]
GuidesNames == [id |-> {"uid"}, several |-> {}, money |-> {}, amount |-> {}, flag |-> {}, year |-> {},
                dated |-> {"when"}, coded |-> {}, gathered |-> {}, count |-> {}]
GuidesShapes == [listed |-> {"a|b"}, number |-> {}, stamp |-> {}, day |-> {"2014-05-01"},
                 dateish |-> {"2014-05", "2014-05-01"}, token |-> {"unknown"}]

----------------------------------------------------------------------------

(* The files of a release. *)
F == INSTANCE ReleaseFiles WITH
      Collections <- {"c1"}, Samples <- {"p1"}, Outputs <- FilesOutputs,
      Atomic <- {"derive-explore"}, Refills <- {"seo-head"}, MaxVersion <- 2, MaxBytes <- 2,
      MaxEdition <- 2, MaxActs <- 5,
      manifest <- s1, ledger <- s2, record <- s3, work <- s4, index <- s5,
      edition <- s6, made <- s7, run <- s8, head <- s9, site <- s10

(* The researcher documents. *)
B == INSTANCE Guides WITH
      None <- None, Imports <- GuidesImports, Prose <- {"c2"},
      Maps <- "c1" :> None @@ "c2" :> GuidesMap, Packaging <- {"kind"}, Own <- <<"cite_as">>,
      Named <- GuidesNames, Shapes <- GuidesShapes, MaxActs <- 5,
      source <- s1, disk <- s2, writing <- s3, acts <- s4

(* An entity's profile. *)
E == INSTANCE Profile WITH
      Contracts <- ProfileContracts, ScopeClasses <- ProfileClasses,
      NameRank <- ProfileRank, Shelf <- ProfileShelf, RawRows <- ProfileRows,
      KnownReg <- ProfileReg, Plans <- ProfilePlans, Visited <- {"e1", "e2", "e3", "e9"},
      Need <- "h", MaxActs <- 2, None <- None, Blank <- Blank, Unlinked <- Unlinked,
      WithheldText <- WithheldText, PageSize <- PageSize,
      uid <- s1, from <- s2, plan <- s3, regStatus <- s4, loaded <- s5,
      failed <- s6, pending <- s7, evidence <- s8, calls <- s9,
      acts <- s10

(* The page of what is new. *)
N == INSTANCE Releases WITH
      Manifest <- NewsManifest, Provenance <- NewsRefreshes, Ledger <- NewsLedger,
      Downloads <- {"a", "b", "d"}, Searches <- {"a", "v1", "other"},
      Holding <- {"p1", "p2"}, Offered <- NewsOffered, Page <- 1, Today <- 9, Window <- 4,
      MaxActs <- 2,
      connected <- s1, user <- s2, authLoading <- s3, owner <- s4, state <- s5, calls <- s6,
      hash <- s7, collection <- s8, kind <- s9, shown <- s10, file <- s11, query <- s12

(* What each part asks of its constants. *)
ASSUME PartsHereAssumption ==
  /\ F!ReleaseFilesAssumption
  /\ B!GuidesAssumption /\ N!ReleasesAssumption

MCInit ==
  \/ /\ part = "viewer" /\ Init
     /\ s1 = None /\ s2 = None /\ s3 = None /\ s4 = None /\ s5 = None /\ s6 = None /\ s7 = None
     /\ s8 = None /\ s9 = None /\ s10 = None /\ s11 = None /\ s12 = None /\ s13 = None /\ s14 = None
     /\ acts = None /\ faults = None
  \/ /\ page = None /\ query = None /\ address = None /\ opened = None /\ plan = None
     /\ regStatus = None /\ loaded = None /\ failed = None /\ pending = None /\ saved = None
     /\ kept = None /\ returning = None /\ edits = None
     /\ \/ ClientInit
        \/ /\ part = "files" /\ F!Init
           /\ s11 = None /\ s12 = None /\ s13 = None /\ s14 = None /\ faults = None
        \/ /\ part = "news" /\ N!Init
           /\ s13 = None /\ s14 = None /\ faults = None
        \/ /\ part = "guides" /\ B!Init
           /\ s5 = None /\ s6 = None /\ s7 = None /\ s8 = None /\ s9 = None /\ s10 = None
           /\ s11 = None /\ s12 = None /\ s13 = None /\ s14 = None /\ acts = None /\ faults = None
        \/ /\ part = "profile" /\ E!Init
           /\ s11 = None /\ s12 = None /\ s13 = None /\ s14 = None /\ acts = None /\ faults = None

MCNext ==
  \/ /\ part = "viewer" /\ Next
     /\ UNCHANGED clientVars
  \/ /\ UNCHANGED <<part, vars>>
     /\ \/ ClientNext
        \/ /\ part = "files" /\ F!Next
           /\ UNCHANGED <<s11, s12, s13, s14, faults>>
        \/ /\ part = "news" /\ N!Next
           /\ UNCHANGED <<s13, s14, faults>>
        \/ /\ part = "guides" /\ B!Next
           /\ UNCHANGED <<s5, s6, s7, s8, s9, s10, s11, s12, s13, s14, acts, faults>>
        \/ /\ part = "profile" /\ E!Next
           /\ UNCHANGED <<s11, s12, s13, s14, acts, faults>>

MCSpec == MCInit /\ [][MCNext]_<<clientVars, vars>>

----------------------------------------------------------------------------
(* What each part promises, one property for each: the parts it names are    *)
(* stated and explained where the part's module defines them.                *)

(* The viewer's rows: a withheld name is neither found nor exported, a count *)
(* beside a choice is what that choice finds, what a filter left out is what *)
(* lifting it gives back, and every listed row has a reason that is true of  *)
(* it (explore.js).                                                          *)
ViewerRows ==
  part = "viewer" => WithheldStaysWithheld /\ FacetsKeepTheirPromise /\ EveryRowSaysWhy /\ LeftOutIsCounted

(* The viewer's addresses: the copied link, the saved view and a download's  *)
(* query reopen the rows now listed, a download holds every row selected, and*)
(* a record's address opens the row it was made from (PressExplore.jsx,      *)
(* pressRecord.js).                                                          *)
ViewerLinks ==
  part = "viewer" => LinksReopenTheView /\ DownloadIsWhole /\ OpensTheRowClicked

(* The files of a release: what is deployed is of one release, a commit      *)
(* names the samples it lacks, and no release leaves the ledger, though a    *)
(* script was stopped between two files or a merge went wrong; a guide that  *)
(* passes its check is of the file a reader downloads (scripts/).            *)
ReleaseFilesAgree ==
  /\ [](part = "guides" => B!GuideIsOfItsDownload /\ B!GuideIsOfItsRelease)
  /\ [](part = "files" => F!SiteIsOfOneRelease /\ F!CommitNamesMissing)
  /\ [][part = "files" => F!LedgerKeepsReleases]_<<F!vars, part>>

(* A profile: the evidence on it is of the entity on it, the table it leads  *)
(* to holds the records it listed, it denies only what it has read, and no   *)
(* withheld name is printed                                                  *)
(* (CedarPressEntity.jsx, PressRecordTable).                                 *)
ProfileIsOfItsEntity ==
  part = "profile" =>
    /\ E!EvidenceIsOfThisEntity /\ E!TableShowsTheGroup /\ E!DeniesOnlyWhatItRead
    /\ E!NobodyWithheldIsPrinted

(* The news: a reader is never shown the releases of another account, every  *)
(* row can be dated, an archive points at its files, and a followed permalink*)
(* finds its release (useReleaseFeed.js, CedarPressWhatsNew.jsx).            *)
NewsIsTheReaders ==
  /\ [](part = "news" => N!OwnReleasesOnly /\ N!EveryRowIsDated /\ N!FilesAreWhatTheySay)
  /\ [][part = "news" => N!PermalinkIsShown]_<<N!vars, part>>
=============================================================================
