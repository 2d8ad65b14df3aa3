----------------------------- MODULE MCProgress -----------------------------
(* What the client owes in the end: four parts of it, each on a small        *)
(* instance of its own and under its own fairness.  A behaviour chooses one  *)
(* part and stays in it, since they share no state that these properties     *)
(* read; the variables of the fade-in hold the state of whichever part it    *)
(* is, as the substitutions say, and those a part does not need keep None.   *)
EXTENDS FadeIn, Sequences

CONSTANTS None

VARIABLES part, slot1, slot2, slot3, slot4, slot5

slots == <<vars, slot1, slot2, slot3, slot4, slot5>>

(* Fade-in: a section of the gate and two of the page, over two screenfuls,  *)
(* the briefing among them late.                                             *)
ScreenOf == [s \in {"title", "hero", "briefing"} |-> IF s = "briefing" THEN 1 ELSE 0]

(* News: three collections on sale, one of them without a record of its      *)
(* version, and a retired one; two readers with overlapping shelves, one of  *)
(* them sent a bad feed, and an account whose plan has no page.              *)
Sold(id, version) == [id |-> id, version |-> version]
Rec(version, date, k) == [version |-> version, date |-> date, kind |-> k]
Sent(id, version) == [id |-> id, version |-> version, event |-> version]

Manifested == <<Sold("a", "v2"), Sold("b", "v1"), Sold("c", "v9"), Sold("d", "v1")>>
Refreshes == [selected |-> [id \in {"b"} |-> 7], pin |-> 5]
Recorded == [id \in {"a", "b", "c", "d", "old"} |->
               CASE id = "a" -> <<Rec("v1", 3, "data"), Rec("v2", 9, "methodology")>>
                 [] id = "b" -> <<Rec("v1", 5, "data")>>
                 [] id = "c" -> <<Rec("v1", 4, "data")>>
                 [] id = "d" -> <<Rec("v1", 9, "methodology")>>
                 [] OTHER -> <<Rec("v1", 5, "data")>>]
Offered == [u \in {"p1", "p2", "free"} |->
                CASE u = "p1" -> <<Sent("b", "s1"), Sent("a", "s1")>>
                  [] u = "p2" -> <<Sent("a", "s1"), Sent("d", "s1"), Sent("c", "s1")>>
                  [] OTHER -> <<>>]

(* The frame: a spread collection of monthly reports, records without an     *)
(* entity or an amount among them, and one whose set chooses three records   *)
(* of the download, one it no longer holds and one that misleads.            *)
Record(id, entity, amount, same) == [id |-> id, entity |-> entity, amount |-> amount, same |-> same]
PaneSamples ==
  [funding |-> <<Record("r1", TRUE, 0, "s"), Record("r2", TRUE, 3, "u"), Record("r3", TRUE, 2, "s"),
                 Record("r4", FALSE, 5, "t"), Record("r5", TRUE, 4, "s"), Record("r6", TRUE, 1, "v")>>,
   prime |-> <<Record("p1", TRUE, 1, "s"), Record("r2", TRUE, 2, "s"), Record("p3", FALSE, 2, "t"),
               Record("p4", TRUE, 0, "u"), Record("p5", TRUE, 1, "u")>>]
PaneSets == [funding |-> <<>>, prime |-> <<"p5", "r2", "gone", "p3", "p4", "p1">>]
PaneRules ==
  [funding |-> [requireEntity |-> FALSE, positiveAmount |-> FALSE, spread |-> TRUE, amountFirst |-> TRUE],
   prime |-> [requireEntity |-> TRUE, positiveAmount |-> TRUE, spread |-> FALSE, amountFirst |-> FALSE]]

----------------------------------------------------------------------------
(* The page of what is new. *)
N == INSTANCE Releases WITH
      None <- None, Manifest <- Manifested,
      Provenance <- Refreshes, Ledger <- Recorded, Downloads <- {"a", "b"},
      Searches <- {"a"}, Holding <- {"p1", "p2"},
      Offered <- Offered, Page <- 1, Today <- 9, Window <- 4, MaxActs <- 2,
      connected <- tree, user <- mounted, authLoading <- revealed, owner <- watched,
      state <- news, calls <- attached, hash <- canObserve, collection <- scroll,
      kind <- watchdog, shown <- popped, file <- acts, acts <- slot1, query <- slot2

(* The records in the public page's frame. *)
P == INSTANCE DoorPane WITH
      Collections <- {"funding", "prime", "plot"}, Samples <- PaneSamples,
      LandingSets <- PaneSets, Excluded <- {"r2"}, Rules <- PaneRules, PaneRows <- 4, PhoneRows <- 2,
      MaxMoves <- 3, MaxFaults <- 2,
      shown <- tree, sample <- mounted, waiting <- revealed, codebook <- watched,
      online <- news, expanded <- attached, moves <- canObserve, faults <- scroll

(* The data page. *)
D == INSTANCE DataPage WITH
      MaxActs <- 2,
      loading <- tree, entitled <- mounted, main <- revealed, hooked <- watched,
      viewer <- news, records <- attached, filters <- canObserve, width <- scroll,
      frame <- watchdog, settle <- popped, measured <- acts, hash <- slot1,
      finished <- slot2, fallback <- slot3, at <- slot4, acts <- slot5

(* What each part asks of its constants. *)
ASSUME ProgressAssumption ==
  /\ N!ReleasesAssumption /\ P!DoorPaneAssumption /\ D!DataPageAssumption

ProgressInit ==
  \/ /\ part = "fade" /\ Init
     /\ slot1 = None /\ slot2 = None /\ slot3 = None /\ slot4 = None /\ slot5 = None
  \/ /\ part = "news" /\ N!Init
     /\ slot3 = None /\ slot4 = None /\ slot5 = None
  \/ /\ part = "pane" /\ P!Init
     /\ watchdog = None /\ popped = None /\ acts = None /\ slot1 = None /\ slot2 = None
     /\ slot3 = None /\ slot4 = None /\ slot5 = None
  \/ /\ part = "data" /\ D!Init

ProgressNext ==
  /\ UNCHANGED part
  /\ \/ /\ part = "fade" /\ Next
        /\ UNCHANGED <<slot1, slot2, slot3, slot4, slot5>>
     \/ /\ part = "news" /\ N!Next
        /\ UNCHANGED <<slot3, slot4, slot5>>
     \/ /\ part = "pane" /\ P!Next
        /\ UNCHANGED <<watchdog, popped, acts, slot1, slot2, slot3, slot4, slot5>>
     \/ /\ part = "data" /\ D!Next

(* The fairness each part states of itself (its FairSpec).                   *)
ProgressSpec ==
  /\ ProgressInit /\ [][ProgressNext]_<<part, slots>>
  /\ WF_vars(part = "fade" /\ Take) /\ WF_vars(part = "fade" /\ Sweep)
  /\ \A s \in Sections : WF_vars(part = "fade" /\ Intersect(s))
  /\ WF_(N!vars)(part = "news" /\ N!TakeIn)
  /\ WF_(P!vars)(part = "pane" /\ P!StartReading) /\ WF_(P!vars)(part = "pane" /\ P!BackOnline)
  /\ WF_(P!vars)(part = "pane" /\ P!Retry)
  /\ SF_(P!vars)(part = "pane" /\ P!SampleArrives) /\ SF_(P!vars)(part = "pane" /\ P!CodebookArrives)
  /\ WF_(D!vars)(part = "data" /\ D!Fallback)

----------------------------------------------------------------------------
(* No section is forgotten, and one the reader stays at is revealed,         *)
(* whatever tree it came with (useFadeIn.js; FadeIn's NoneForgotten and      *)
(* VisibleIsRevealed).                                                       *)
NothingStaysHidden ==
  /\ [](part = "fade" => NoneForgotten)
  /\ \A s \in Sections :
       (part = "fade" /\ s \in mounted /\ OnScreen(s))
         ~> (part = "fade" => s \in revealed \/ s \notin mounted \/ ~OnScreen(s))

(* The page of what is new does not go on saying that its feed is loading    *)
(* (useReleaseFeed.js).                                                      *)
FeedSettles == (part = "news" /\ N!Loading) ~> (part = "news" => ~N!Loading)

(* However its reads failed, a visitor who presses Retry is shown the        *)
(* records, the different ones first and none that would mislead             *)
(* (PressCollectionPreview.jsx, showcase.js).                                *)
RetryShowsTheRecords ==
  /\ (part = "pane" /\ P!Readable) ~> (part = "pane" => P!Status = "ok" \/ ~P!Readable)
  /\ [](part = "pane" => P!ListsTheDifferentFirst)

(* A link to the page's own fragment is answered even where the viewer never *)
(* shows anything, and no answer to it moves a reader who is already among   *)
(* the records (CedarPressData.jsx).                                         *)
FragmentIsReached ==
  /\ (part = "data" /\ D!Due) ~> (part = "data" => D!Reached)
  /\ [][part = "data" => D!ReaderInControl]_<<D!vars, part>>
=============================================================================
