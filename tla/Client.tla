------------------------------- MODULE Client -------------------------------
(***************************************************************************)
(* Components of the client as the parts of one specification: those of    *)
(* which everything promised below is proved.  A behaviour chooses one part*)
(* and stays in it: the parts share no state in the code.  The variables   *)
(* hold the state of whichever part it is, under the names its module gives*)
(* them; those a part does not need keep None.                             *)
(***************************************************************************)
EXTENDS Null, Integers, Sequences, FiniteSets

CONSTANTS
  Topics, NonTopics, MaxAsks, Scopes, Questions, More, Suggested, ChangesQuestion,
  ScopedExamples, FirstFour, MaxHandOffs,
  Bank, Intent, WordsOf, OutOfScope, DrillIds, AffirmIds, DefaultFollowUps, Starters, AudienceRoute,
  DoorQuestions, TellMore, HandedOver, CollectionIntent, CollectionQuestion,
  MaxEvents,
  ShelfCatalog, Placed, OnStore, Previews, Unpublished, Released, MaxChanges,
  Readers, Priorities, PriorityTexts, Concerns, Earned, PriorityActs,
  Audiences, Preserved, Names, SettingsActs,
  PanelActs,
  TabTiers, Reading, SetUpLinks, Landings, MaxPolls, TabActs,
  OnSale, First, UnknownName, UseCases, MinCollections, RotateTime, ResumeTime, ShowcaseActs,
  Fields, FieldContracts, FieldBooks, FieldRows, RecordActs,
  NameRules, Describing, LineageNames, RetiredNames, IdNames, Preset, Declarations, LinkBuilders,
  DisplayOrder, StandIns, Explained, LinkName, OpeningLimit, FileNames, FirstFiles, TableActs,
  MaxFaults

VARIABLES
  part,     \* which part this behaviour is of
  s1, s2, s3, s4, s5, s6, s7, s8, s9, s10, s11, s12, s13, s14,
  acts,     \* the acts of people and of the service so far
  faults    \* the calls that failed so far

clientVars == <<part, s1, s2, s3, s4, s5, s6, s7, s8, s9, s10, s11, s12, s13, s14, acts, faults>>

----------------------------------------------------------------------------
(* The names each part gives the variables it uses, where no part before it  *)
(* has the name.                                                             *)

(* Cedar, on the public page and beside the reader's collections. *)
thread == s1
composing == s2
abortRef == s4
flights == s5
aborted == s6
asks == s7
doorOpen == s8
gated == s8
connected == s3
scope == s9
serviceThread == s10
handOffs == s11

(* A question mark. *)
open == s2
tapped == s3
fromPointer == s4
hover == s5
over == s6
focus == s1
queue == s7
asked == s8
small == s9
low == s10
top == s11
scrolled == s12
events == s13

(* What an account may open. *)
shelfPlan == s1
payload == s3
reading == s4
feed == s5
chosen == s6
pointed == s2
moves == s7

(* The priorities of a session. *)
user == s1
owner == s3
sequence == s4
state == s5
reads == s6
changes == s7
form == s2
moving == s8
mount == s9
dropped == s10
points == s11
requests == s12

(* The settings cards. *)
card == s1
wire == s3
stored == s4
raced == s2

(* The panels' focus. *)
surface == s5
opener == s6
frames == s7
toolbar == s8
inView == s9
phone == s10
note == s11
storage == s12
answered == s13
keptNote == s14

(* A tab on the pages that sign in, sell or confirm. *)
loading == s4
unreachable == s5
retrying == s6
tabPage == s7
life == s8
leaving == s9
valid == s10
tier == s11
spent == s12
paid == s13

(* The public page's frame and band. *)
frameAddress == s3
earlier == s4
by == s5
previewing == s6
pointer == s7
media == s8
band == s9
timers == s10
ran == s11
photos == s12
idle == s13

----------------------------------------------------------------------------
(* The parts. *)

R == INSTANCE ReaderCedar WITH Texts <- Questions, pending <- composing
D == INSTANCE DoorCedar WITH Collections <- HandedOver, pending <- composing, open <- doorOpen
M == INSTANCE Explain
H == INSTANCE Shelves WITH Catalog <- ShelfCatalog, Launch <- OnStore, Samples <- Previews,
       plan <- shelfPlan, user <- payload, changes <- moves
Q == INSTANCE PrioritySession WITH Texts <- PriorityTexts, About <- Concerns,
       MaxActs <- PriorityActs, ledger <- points, asked <- requests
S == INSTANCE SettingsCards WITH Offered <- Audiences, MaxActs <- SettingsActs
W == INSTANCE PanelFocus WITH MaxActs <- PanelActs, kept <- keptNote
A == INSTANCE SignIn WITH Readers <- Reading, Tiers <- TabTiers, MaxActs <- TabActs, page <- tabPage
G == INSTANCE DoorPage WITH Catalog <- OnSale, Unknown <- UnknownName, MaxActs <- ShowcaseActs,
       address <- frameAddress
RP == INSTANCE RecordPage WITH Columns <- Fields, Contracts <- FieldContracts, Books <- FieldBooks,
       RawRows <- FieldRows, MostActs <- RecordActs,
       contract <- s1, book <- s2, row <- s3, sample <- s4, held <- s5, listed <- s6, more <- s7,
       definitions <- s8, copied <- s9, leads <- s10, open <- s11
TR == INSTANCE TableReading WITH Rules <- NameRules, Observation <- Describing, Lineage <- LineageNames,
       Retired <- RetiredNames, RecordIds <- IdNames, Presentation <- Preset, Overrides <- Declarations,
       Builders <- LinkBuilders, Display <- DisplayOrder, Stands <- StandIns, Codebook <- Explained, BuiltLink <- LinkName,
       AllColumns <- FileNames, Published <- FirstFiles, MaxEdits <- TableActs,
       table <- s1, override <- s2, contract <- s3, edits <- s4

(* What each part asks of its constants. *)
ASSUME PartsAssumption ==
  /\ R!ThreadAssumption /\ R!ReaderAssumption /\ D!BankAssumption /\ M!ExplainAssumption /\ H!ShelvesAssumption
  /\ Q!PrioritySessionAssumption /\ S!SettingsAssumption
  /\ W!PanelFocusAssumption /\ A!SignInAssumption /\ G!DoorPageAssumption
  /\ RP!RecordAssumption /\ TR!TableReadingAssumption

ClientInit ==
  \/ /\ part = "reader" /\ R!ReaderInit
     /\ s12 = None /\ s13 = None /\ s14 = None /\ acts = None
     /\ faults = None
  \/ /\ part = "door" /\ D!DoorInit
     /\ s3 = None /\ s9 = None /\ s10 = None /\ s11 = None /\ s12 = None
     /\ s13 = None /\ s14 = None /\ acts = None /\ faults = None
  \/ /\ part = "mark" /\ M!Init
     /\ s14 = None /\ acts = None /\ faults = None
  \/ /\ part = "shelves" /\ H!Init
     /\ s8 = None /\ s9 = None /\ s10 = None /\ s11 = None /\ s12 = None
     /\ s13 = None /\ s14 = None /\ acts = None /\ faults = None
  \/ /\ part = "priorities" /\ Q!Init
     /\ s13 = None /\ s14 = None
  \/ /\ part = "settings" /\ S!Init
     /\ s5 = None /\ s6 = None /\ s7 = None /\ s8 = None /\ s9 = None
     /\ s10 = None /\ s11 = None /\ s12 = None /\ s13 = None
     /\ s14 = None
  \/ /\ part = "panels" /\ W!Init
     /\ faults = None
  \/ /\ part = "account" /\ A!Init
     /\ s14 = None
  \/ /\ part = "showcase" /\ G!Init
     /\ s14 = None /\ faults = None
  \/ /\ part = "record" /\ RP!Init
     /\ s12 = None /\ s13 = None /\ s14 = None /\ faults = None
  \/ /\ part = "table" /\ TR!Init
     /\ s5 = None /\ s6 = None /\ s7 = None /\ s8 = None /\ s9 = None /\ s10 = None /\ s11 = None
     /\ s12 = None /\ s13 = None /\ s14 = None /\ acts = None /\ faults = None

ClientNext ==
  /\ UNCHANGED part
  /\ \/ /\ part = "reader" /\ R!ReaderNext
        /\ UNCHANGED <<s12, s13, s14, acts, faults>>
     \/ /\ part = "door" /\ D!DoorNext
        /\ UNCHANGED <<s3, s9, s10, s11, s12, s13, s14, acts, faults>>
     \/ /\ part = "mark" /\ M!Next
        /\ UNCHANGED <<s14, acts, faults>>
     \/ /\ part = "shelves" /\ H!Next
        /\ UNCHANGED <<s8, s9, s10, s11, s12, s13, s14, acts, faults>>
     \/ /\ part = "priorities" /\ Q!Next
        /\ UNCHANGED <<s13, s14>>
     \/ /\ part = "settings" /\ S!Next
        /\ UNCHANGED <<s5, s6, s7, s8, s9, s10, s11, s12, s13, s14>>
     \/ /\ part = "panels" /\ W!Next
        /\ UNCHANGED <<faults>>
     \/ /\ part = "account" /\ A!Next
        /\ UNCHANGED <<s14>>
     \/ /\ part = "showcase" /\ G!Next
        /\ UNCHANGED <<s14, faults>>
     \/ /\ part = "record" /\ RP!Next
        /\ UNCHANGED <<s12, s13, s14, faults>>
     \/ /\ part = "table" /\ TR!Next
        /\ UNCHANGED <<s5, s6, s7, s8, s9, s10, s11, s12, s13, s14, acts, faults>>

ClientSpec == ClientInit /\ [][ClientNext]_clientVars

----------------------------------------------------------------------------
(* What each part promises: the claims it names are stated and explained     *)
(* where the part's module defines them.                                     *)

(* Cedar beside the collections: the answer being composed and the quick     *)
(* replies are about the collection the panel names, and no answer is given  *)
(* cold twice or offered again (PressCedarFab.jsx).                          *)
ReaderThread ==
  part = "reader" =>
    /\ R!PendingMeansComposing
    /\ R!AnswerUnderItsScope /\ R!QuickRepliesInScope /\ R!NeverColdTwice /\ R!NoReOffer

(* Cedar on the public page: an answer stands under its question, worded     *)
(* from the memory it was asked in; "Tell me more" goes deeper, a quick reply*)
(* is a new topic, and the second miss in a row hands off (useCedarThread,   *)
(* cedarConversation.js).                                                    *)
DoorThread ==
  part = "door" =>
    /\ D!PendingMeansComposing /\ D!AnswersFollowTheirQuestion /\ D!MemoryIsCurrent
    /\ D!TellMoreDeepens /\ D!QuickRepliesAreNew /\ D!HandsOffOnSecondMiss

(* The priorities: once every call is answered the balance on screen is the  *)
(* ledger's, and it never goes back to an older one, whatever reads are      *)
(* answered out of order; a request goes beside what its own text is about,  *)
(* or beside nothing (pressPriorities.js, usePriorities.js).                 *)
PrioritiesAreCurrent ==
  /\ [](part = "priorities" => Q!QuietIsCurrent /\ Q!RequestsReadAsTheirText)
  /\ [][part = "priorities" => Q!BalanceNeverGoesBack]_<<Q!vars, part>>

(* The pages of an account: the form is of the set-up link the address       *)
(* holds, one checkout is asked for at a time, and a payment shown as        *)
(* confirmed stays so, whatever is answered late (CedarPressCreateAccount,   *)
(* CedarPressSubscribe).                                                     *)
AccountPages ==
  /\ [](part = "account" => A!FormIsItsLinks /\ A!OneCheckoutAtATime)
  /\ [][part = "account" => A!ConfirmedForGood]_<<A!vars, part>>

(* A card at rest shows the answer the service holds, one no longer offered  *)
(* included (CedarPressSettings.jsx workOptions).                            *)
AnswerOnScreen == part = "settings" => S!AnswerOnScreen

(* The public page: the band gives back the frame it borrowed, an example    *)
(* the visitor chose holds, and the photograph does not change under them    *)
(* (PressGate.jsx).                                                          *)
ShowcaseHolds ==
  /\ [](part = "showcase" => G!ChipsGiveTheFrameBack)
  /\ [][part = "showcase" => G!ChosenExampleHolds /\ G!PhotographHolds]_<<G!vars, part>>

(* A question mark: a tap decides whether its panel is open, whatever else   *)
(* the browser makes of it, and the sheet clears the mark (Explain.jsx).     *)
MarkObeys == part = "mark" => M!TapDecides /\ M!SheetClearsTheMark

(* The panels: closing one from the keyboard never strands the reader, and   *)
(* Cedar greets once a visit (focusReturn.js, PressCedarFab.jsx).           *)
PanelsReturn == part = "panels" => W!FocusReturns /\ W!GreetsOnce

(* A record: every column is in one place and one only, and where none is    *)
(* shown the heading and the line under it give one reason, also after the   *)
(* plan changed or a sample came late (CedarPressRecord.jsx, useSamples.js). *)
RecordIsWhole == part = "record" => RP!EveryColumnOnce /\ RP!HeadingFits

(* A table: whatever contract was committed under it, it opens on columns    *)
(* the file carries, each once, and on a blank one only where little else is *)
(* left (recordColumns.js, showcase.js, derive-explore.mjs).                 *)
TableOpens == part = "table" => TR!OpensOnWhatItCarries

(* The shelves: the browser opens what the service would serve, an upgrade   *)
(* on offer opens what it is offered for, and a full file is offered to whom *)
(* it is served (pressAccess.js, repository.py).                            *)
ShelvesAreKept ==
  part = "shelves" => H!OpensWhatIsServed /\ H!OffersAreKept /\ H!FullFilesAreThePlans
=============================================================================
