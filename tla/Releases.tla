------------------------------ MODULE Releases ------------------------------
(* The release feed: the preview built from the ledger (pressReleases.js),   *)
(* the connected feed and whose it is (useReleaseFeed.js, articleRequest.js),*)
(* the What's New page that reveals it and the links that land in it, and    *)
(* the files a collection hands over (pressDownload.js).  The service, the   *)
(* browser's network and the session are external.                           *)
EXTENDS Integers, Sequences, SequencesExt, FiniteSets, TLC

CONSTANTS
  None,
  Manifest,  \* what the storefront sells, in catalog order: id, version
  Provenance, \* the producer's refreshes: the selected ones by id, and the pin for the rest
  Ledger,    \* the recorded releases of an id, oldest first: version, day
  Downloads, \* the collections with a rendered table (sample_downloads.json)
  Searches,  \* what the search field may hold: a name, a version, or words of neither
  Holding,   \* the accounts whose plan includes the page (canReadCedarPress)
  Offered,   \* what the service offers an account: a sequence of id, version, event
  Page,      \* the rows one reveal adds (8 in the code)
  Today, Window,
  MaxActs    \* bound: what the reader does

ReleasesAssumption ==
  /\ Holding \subseteq DOMAIN Offered /\ {None, "refused"} \cap DOMAIN Offered = {}
  /\ Page \in Nat \ {0} /\ MaxActs \in Nat

VARIABLES
  connected,             \* how the client was built
  user, authLoading,     \* the provider's session
  owner,                 \* the memo of both: a number for each value it has had
  state, calls,          \* the hook: what was published last, the requests under way
  hash,                  \* the address's fragment
  collection, kind, query, shown,   \* query is None for an empty search
  file,                  \* the last file handed over
  acts

session == <<connected, user, authLoading, owner, state, calls>>
filters == <<collection, kind, query>>
view == <<hash, filters, shown>>
vars == <<session, view, file, acts>>

-----------------------------------------------------------------------------
(* The preview, from the ledger.                                             *)

(* A collection's date is its producer's refresh, and no other: that of the  *)
(* refresh it was staged from, else of the pin the others were.              *)
DataRefreshed(id) ==
  IF id \in DOMAIN Provenance.selected THEN Provenance.selected[id] ELSE Provenance.pin

(* The product of one manifest entry. *)
Launch(e) == [version |-> e.version, updated |-> DataRefreshed(e.id), refreshed |-> DataRefreshed(e.id)]

Ids == {Manifest[i].id : i \in DOMAIN Manifest}
OrderOf(id) == IF id \in Ids THEN CHOOSE i \in DOMAIN Manifest : Manifest[i].id = id ELSE Len(Manifest) + 1
LedgerFor(id) == IF id \in DOMAIN Ledger THEN Ledger[id] ELSE <<>>

\* One public entry: the version the collection is on, dated by its data.
HistoryOf(id, version, dataDate) ==
  LET records == LedgerFor(id)
      named == SelectSeq(records, LAMBDA r : r.version = version)
      record == IF version = None THEN records ELSE named
      r == IF version = None THEN Last(record) ELSE Head(record)
  IN  IF record = <<>> THEN <<>>
      ELSE << [version |-> r.version, kind |-> r.kind, date |-> IF dataDate = None THEN r.date ELSE dataDate] >>

BuildReleases ==
  LET retired == {id \in DOMAIN Ledger : id \notin Ids /\ Ledger[id] # <<>>}
      sold(id) == Launch(Manifest[OrderOf(id)])
  IN  [id \in Ids \cup retired |->
         IF id \in Ids
           THEN [updated |-> sold(id).updated, retired |-> FALSE, history |-> HistoryOf(id, sold(id).version, sold(id).refreshed)]
           ELSE [updated |-> Last(Ledger[id]).date, retired |-> TRUE, history |-> HistoryOf(id, None, None)]]

AnchorOf(id, entry) == <<id, entry.version>>

\* The latest entry, and where a "recently updated" line leads: None is the page's top.
LatestRelease(id, releases) == releases[id].history
LinkTo(id, releases) ==
  IF LatestRelease(id, releases) = <<>> THEN None ELSE AnchorOf(id, Head(LatestRelease(id, releases)))

\* Newest first; releases of one day stand in catalog order.
Newer(a, b, on(_)) == IF on(a) = on(b) THEN OrderOf(a.id) < OrderOf(b.id) ELSE on(a) > on(b)

\* The set in order, of which no two are level.
Ordered(S, before(_, _)) ==
  [n \in 1..Cardinality(S) |-> CHOOSE x \in S : Cardinality({y \in S : before(y, x)}) = n - 1]

BuildFeed(releases) ==
  LET entries(id) ==
        {[id |-> id, anchor |-> AnchorOf(id, e), date |-> e.date, kind |-> e.kind, retired |-> releases[id].retired]
           : e \in Range(releases[id].history)}
  IN  Ordered(UNION {entries(id) : id \in DOMAIN releases},
              LAMBDA a, b : Newer(a, b, LAMBDA e : e.date))

RecentlyUpdated(limit, releases) ==
  LET rows == {[id |-> id, updated |-> releases[id].updated] : id \in {r \in DOMAIN releases : ~releases[r].retired}}
      newest == Ordered(rows, LAMBDA a, b : Newer(a, b, LAMBDA e : e.updated))
  IN  SubSeq(newest, 1, IF Len(newest) < limit THEN Len(newest) ELSE limit)

RecentActivity(feed) ==
  LET recent == SelectSeq(feed, LAMBDA e : e.date # None /\ Today - Window <= e.date /\ e.date <= Today)
  IN  [releases |-> Len(recent), collections |-> Cardinality({recent[i].id : i \in DOMAIN recent})]

Model(source, releases) == [source |-> source, releases |-> releases, feed |-> BuildFeed(releases)]
NoModel == [source |-> None, releases |-> <<>>, feed |-> <<>>]
Preview == Model("public_preview", BuildReleases)

\* One bad entry refuses the whole feed.
Valid(payload) ==
  \A i \in DOMAIN payload :
    /\ payload[i].id \in Ids
    /\ payload[i].event = payload[i].version
    /\ \A j \in 1..(i - 1) : payload[j].id # payload[i].id

ConnectedModel(payload) ==
  LET of(id) == payload[SelectInSeq(payload, LAMBDA e : e.id = id)]
  IN  Model("verified_current",
            [id \in {payload[i].id : i \in DOMAIN payload} |->
               [updated |-> None, retired |-> FALSE,
                history |-> << [version |-> of(id).version, kind |-> "data", date |-> None] >>]])

Models == [u \in DOMAIN Offered |-> IF Valid(Offered[u]) THEN ConnectedModel(Offered[u]) ELSE NoModel]
ThePreview == Preview

-----------------------------------------------------------------------------
(* Whose feed it is.                                                         *)

Nothing == [owner |-> 0, status |-> "none", of |-> None]

(* Mutant of VisibleArticleState: what was published is shown to anybody.    *)
ShownToAnybody(held, who, enabled) ==
  IF ~enabled THEN [held EXCEPT !.status = "idle", !.of = None]
  ELSE IF held.owner # 0 THEN held ELSE [held EXCEPT !.status = "loading", !.of = None]

VisibleArticleState(held, who, enabled) ==
  IF ~enabled THEN [held EXCEPT !.status = "idle", !.of = None]
  ELSE IF held.owner = who THEN held ELSE [held EXCEPT !.status = "loading", !.of = None]

Enabled(u, ld) == connected /\ ~ld /\ u \in Holding

\* The model on screen.
ModelOf(held, who, u, ld) ==
  IF ~connected THEN ThePreview
  ELSE LET seen == VisibleArticleState(held, who, Enabled(u, ld))
       IN  IF seen.of = None THEN NoModel ELSE Models[seen.of]
Now == ModelOf(state, owner, user, authLoading)

\* Requests whose effect was cleaned up can publish no more.
Disposed == {[c EXCEPT !.active = FALSE] : c \in calls}

(* Mutant of StartArticleRequest: the closure holds the memo of before.      *)
StartStaleRequest(who) == [owner |-> owner, active |-> TRUE, answer |-> None]

StartArticleRequest(who) == [owner |-> who, active |-> TRUE, answer |-> None]

-----------------------------------------------------------------------------
(* The page.                                                                 *)

LinkedAnchor(at, feed) == at # None /\ \E i \in DOMAIN feed : feed[i].anchor = at

\* What the search reads of an entry is its name and its version.
Entries ==
  SelectSeq(Now.feed, LAMBDA e : /\ collection \in {"all", e.id} /\ kind \in {"all", e.kind}
                                 /\ query \in {None, e.anchor[1], e.anchor[2]})
Visible == LET entries == Entries IN SubSeq(entries, 1, IF shown < Len(entries) THEN shown ELSE Len(entries))
Options == Ids \cap DOMAIN Now.releases

(* What the head of the page says of the feed.                               *)
Heading ==
  IF Now # NoModel
    THEN IF Now.source = "verified_current" THEN <<"available", Len(Now.feed)>>
         ELSE <<"updates", RecentActivity(Now.feed)>>
  ELSE IF authLoading \/ VisibleArticleState(state, owner, Enabled(user, authLoading)).status = "loading"
    THEN <<"loading">> ELSE <<"unavailable">>

\* A date is said once for a run of rows that share it.
RunStart(rows, i) == i = 1 \/ rows[i - 1].date # rows[i].date

Row(rows, i) == [says |-> IF RunStart(rows, i) THEN rows[i].date ELSE None,
                 opens |-> IF rows[i].retired THEN None ELSE rows[i].id,
                 asks |-> <<rows[i].id, rows[i].date>>]

\* The effect runs on every new feed and on every new fragment.
Land(at, before, after) ==
  shown' = IF (before # after \/ hash' # hash) /\ LinkedAnchor(at, after.feed)
             THEN Len(after.feed) + Page ELSE shown

Act == acts < MaxActs /\ acts' = acts + 1

FollowLink(at) ==
  /\ Act /\ at # hash
  /\ hash' = at
  /\ Land(at, Now, Now)
  /\ UNCHANGED <<session, filters, file>>

\* The overview's links are these, and the row's own.
Links == {RecentlyUpdated(3, Now.releases)[i].id : i \in DOMAIN RecentlyUpdated(3, Now.releases)}
FollowRecent == \E id \in Links : LinkTo(id, Now.releases) # None /\ FollowLink(LinkTo(id, Now.releases))
FollowRow == \E i \in DOMAIN Visible : FollowLink(Visible[i].anchor)

Choose(c, k, q) ==
  /\ Act /\ Now # NoModel
  /\ collection' = c /\ kind' = k /\ query' = q
  /\ shown' = Page
  /\ UNCHANGED <<session, hash, file>>
ChooseCollection == \E c \in {"all"} \cup Options : Choose(c, kind, query)
ChooseKind == \E k \in {"all", "data", "methodology"} : Choose(collection, k, query)
Search == \E q \in Searches \cup {None} : Choose(collection, kind, q)

ShowMore ==
  /\ Act /\ shown < Len(Entries)
  /\ shown' = shown + Page
  /\ UNCHANGED <<session, hash, filters, file>>

-----------------------------------------------------------------------------
(* The session changes, the request answers.                                 *)

\* A new memo: the effect of the old one is cleaned up, the new one asks.
Become(u, ld) ==
  /\ user' = u /\ authLoading' = ld
  /\ owner' = owner + 1
  /\ calls' = Disposed \cup (IF Enabled(u, ld) THEN {StartArticleRequest(owner + 1)} ELSE {})
  /\ UNCHANGED <<connected, state, hash, filters, file>>
  /\ Land(hash, Now, ModelOf(state, owner + 1, u, ld))

AuthChecked ==
  /\ authLoading
  /\ \E u \in DOMAIN Offered \cup {None} : Become(u, FALSE)
  /\ UNCHANGED acts

SignIn == Act /\ connected /\ ~authLoading /\ user = None /\ \E u \in DOMAIN Offered : Become(u, FALSE)
SignOut == Act /\ user # None /\ Become(None, FALSE)
\* The same reader read again is another object.
RefreshSession == Act /\ user # None /\ Become(user, FALSE)

\* The service answers for the session the tab has; a refusal is None.
Serve(c) ==
  /\ c.answer = None
  /\ \E answer \in {"refused"} \cup ({user} \ {None}) : calls' = (calls \ {c}) \cup {[c EXCEPT !.answer = answer]}
  /\ UNCHANGED <<connected, user, authLoading, owner, state, view, file, acts>>

Publish(c) ==
  LET served == c.answer \in DOMAIN Offered /\ Valid(Offered[c.answer])
      next == IF served THEN [owner |-> c.owner, status |-> "ready", of |-> c.answer]
              ELSE [owner |-> c.owner, status |-> "unavailable", of |-> None]
      held == IF c.active THEN next ELSE state
  IN
  /\ c.answer # None
  /\ calls' = calls \ {c}
  /\ state' = held
  /\ UNCHANGED <<connected, user, authLoading, owner, hash, filters, file, acts>>
  /\ Land(hash, Now, ModelOf(held, owner, user, authLoading))

-----------------------------------------------------------------------------
(* Files.  A fetched table is used only if its digest is the recorded one;   *)
(* the file is the collection's description otherwise, under that name.      *)

FileTexts == {"recorded", "stale", "lost"}

\* Name lengths tell the archive's entries apart; the data is two bytes longer.
CsvFor(id, text) ==
  IF id \in Downloads /\ text = "recorded"
    THEN [id |-> id, sample |-> TRUE, text |-> text, size |-> OrderOf(id)]
    ELSE [id |-> id, sample |-> FALSE, text |-> "description", size |-> OrderOf(id) + 3]

LocalHeader == 30
DataSize(f) == f.size + 2

\* A stored archive: header, name and data of each file, then the directory.
ZipOf(files) ==
  FoldLeft(LAMBDA z, f : [parts |-> z.parts \o <<LocalHeader, f.size, DataSize(f)>>,
                          central |-> Append(z.central, [file |-> f, at |-> z.offset]),
                          offset |-> z.offset + LocalHeader + f.size + DataSize(f)],
           [parts |-> <<>>, central |-> <<>>, offset |-> 0], files)

NoFile == ZipOf(<<>>)

\* One table, standalone; the connected client saves what the service sends.
DownloadCsv ==
  /\ Act /\ ~connected
  /\ \E id \in Ids, text \in FileTexts : file' = ZipOf(<<CsvFor(id, text)>>)
  /\ UNCHANGED <<session, view>>

DownloadAll ==
  /\ Act
  /\ \E fetched \in [DOMAIN Manifest -> FileTexts] :
       file' = ZipOf([i \in DOMAIN Manifest |-> CsvFor(Manifest[i].id, fetched[i])])
  /\ UNCHANGED <<session, view>>

-----------------------------------------------------------------------------
Init ==
  /\ connected \in BOOLEAN
  /\ user = None /\ authLoading = connected /\ owner = 1
  /\ state = Nothing /\ calls = {}
  /\ hash \in {None} \cup {LinkTo(id, BuildReleases) : id \in DOMAIN BuildReleases}
                  \cup {<<Offered[u][i].id, Offered[u][i].version>> : u \in Holding, i \in 1..1}
  /\ collection = "all" /\ kind = "all" /\ query = None
  /\ shown = IF LinkedAnchor(hash, Now.feed) THEN Len(Now.feed) + Page ELSE Page
  /\ file = NoFile /\ acts = 0

Next ==
  \/ FollowRecent \/ FollowRow \/ ChooseCollection \/ ChooseKind \/ Search \/ ShowMore
  \/ AuthChecked \/ SignIn \/ SignOut \/ RefreshSession
  \/ \E c \in calls : Serve(c) \/ Publish(c)
  \/ DownloadCsv \/ DownloadAll

Spec == Init /\ [][Next]_vars

(* Every request has an answer or a deadline, and the tab takes it in.       *)
TakeIn == AuthChecked \/ \E c \in calls : Serve(c) \/ Publish(c)
FairSpec == Spec /\ WF_vars(TakeIn)

-----------------------------------------------------------------------------
(* A reader is never shown the releases of another account, or any once      *)
(* signed out, however late a request of an earlier session answers          *)
(* (articleRequest's "a disposed request can never put subscriber content    *)
(* back", visibleArticleState).                                              *)
OwnReleasesOnly ==
  connected /\ Now # NoModel => user \in Holding /\ Now = Models[user]

\* Whose releases are on screen, and whether the one the address names is.
Seen == IF connected THEN VisibleArticleState(state, owner, Enabled(user, authLoading)).of ELSE None
LinkIsShown ==
  \E feed \in {Now.feed}, rows \in {Visible} : LinkedAnchor(hash, feed) => LinkedAnchor(hash, rows)

(* A release the address names is among the rows on screen whenever it is    *)
(* followed or its feed arrives, and the filters let it through: "a          *)
(* permalink arrival must find its release" (CedarPressWhatsNew).            *)
PermalinkIsShown ==
  collection = "all" /\ kind = "all" /\ query = None /\ (hash' # hash \/ Seen' # Seen) => LinkIsShown'

(* The page does not go on saying that the feed is loading: the answer to    *)
(* the request of the reader on screen is taken in (useReleaseFeed).         *)
Loading == Heading = <<"loading">>
FeedSettles == Loading ~> ~Loading

(* The date of every row on screen can be read at it or above it, whatever   *)
(* filter cut the feed (CedarPressWhatsNew runStart).                        *)
EveryRowIsDated ==
  LET rows == Visible
      said(i) == {j \in 1..i : RunStart(rows, j)}
  IN  \A i \in DOMAIN rows :
        /\ said(i) # {}
        /\ Row(rows, CHOOSE j \in said(i) : \A k \in said(i) : k <= j).says = rows[i].date

(* A file named as a sample is the recorded table, and every entry of an     *)
(* archive's directory points at that file's own header (csvFor, zipOf).     *)
FilesAreWhatTheySay ==
  \A i \in DOMAIN file.central :
    LET entry == file.central[i] IN
    /\ entry.file.sample => entry.file.text = "recorded"
    /\ entry.at = FoldLeft(LAMBDA total, size : total + size, 0, SubSeq(file.parts, 1, 3 * (i - 1)))
=============================================================================
