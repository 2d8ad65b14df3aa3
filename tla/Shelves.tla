------------------------------ MODULE Shelves ------------------------------
(***************************************************************************)
(* Which collections a plan opens, and what the page offers because of it. *)
(* The browser decides from the session payload it last read               *)
(* (pressAccess.js, workspaceTier.js); the service decides from the        *)
(* account's tier at every request (repository.py).  The rail marks what   *)
(* is locked or pending (PressCollectionRail.jsx), the pane shows the      *)
(* chosen collection, its outline or why there is no preview, and a link   *)
(* to the full file comes from a list read once for each session payload   *)
(* (PressExplore.jsx).                                                     *)
(***************************************************************************)
EXTENDS Integers, FiniteSets

CONSTANTS
  Catalog,     \* every collection the browser's catalog names
  Placed,      \* collection |-> the shelf the workspace gave it, the same on both sides
  Launch,      \* those the manifest puts on the storefront
  Samples,     \* collection |-> the preview its release produced: path, or None and why there is none
  Unpublished, \* the paths of previews that were produced and are not in the repository
  None,
  Released,    \* those with a pinned full release
  MaxChanges   \* bound: subscriptions that change, sessions read, choices made

ShelvesAssumption ==
  /\ Placed \in [Catalog -> {"standard", "pro", "grove"}]
  /\ Launch = {c \in Catalog : Placed[c] # "grove"} \* the workspace's split, in both files
  /\ Released \subseteq Catalog /\ {"all", "no card"} \cap Catalog = {}
  /\ DOMAIN Samples = Launch /\ None # "not in repository"
  /\ \A c \in Launch : (Samples[c].path = None) # (Samples[c].because = None)
  /\ MaxChanges \in Nat

VARIABLES plan,    \* the account's tier, as the service reads it
          user,    \* the tier of the session payload in hand, or Nobody
          reading, \* the full releases are being read for this payload
          feed,    \* the last ones answered
          chosen,  \* the collection in the pane, or All
          pointed, \* the one whose card is up
          changes
vars == <<plan, user, reading, feed, chosen, pointed, changes>>

Nobody == "nobody"
NoCard == "no card"
All == "all"
-----------------------------------------------------------------------------
(* SHELF_ORDER, on both sides: a plan reaches its shelf and those below it. *)
ShelfOrder == [standard |-> 1, pro |-> 2, grove |-> 3]
ShelfByTier == [press |-> "standard", press_pro |-> "pro", grove |-> "grove", tree |-> "grove"]

Tiers == DOMAIN ShelfByTier \cup {"free", "sapling"}

(* A tier the browser does not know, or none, is the smallest there is.     *)
ResolveTier(u) == IF u \in Tiers THEN u ELSE "sprout"

(* The shelf the plan reaches, if it reaches any.  A payload may name the   *)
(* shelf itself, and no service sends one that does.                        *)
ShelfReach(u) == {ShelfByTier[t] : t \in {ResolveTier(u)} \cap DOMAIN ShelfByTier}

ShelfOf(c) == Placed[c]

(* canOpenDataset: nothing on the Grove shelf opens here, for any plan.     *)
(* Mutant of CanOpen: the reach of the plan is all there is to it. *)
CanOpenByReach(u, c) == \E reach \in ShelfReach(u) : ShelfOrder[reach] >= ShelfOrder[ShelfOf(c)]
CanOpen(u, c) ==
  /\ ShelfOf(c) # "grove"
  /\ \E reach \in ShelfReach(u) : ShelfOrder[reach] >= ShelfOrder[ShelfOf(c)]

(* The service: may_open and may_download_full.  A declared Grove           *)
(* collection is not in the manifest's collections.                         *)
Reaches(tier, shelf) == tier \in DOMAIN ShelfByTier /\ ShelfOrder[shelf] <= ShelfOrder[ShelfByTier[tier]]
MayOpen(tier, c) == c \in Launch /\ Reaches(tier, Placed[c])
MayDownloadFull(tier, c) == MayOpen(tier, c) \/ (c \notin Launch /\ Reaches(tier, "grove"))

(* releases(tier): what this plan may take and has a pin, the Grove shelf   *)
(* left out.                                                                *)
ReleasesFor(tier) == {c \in Released \cap Launch : MayDownloadFull(tier, c)}
-----------------------------------------------------------------------------
(* The rail.  Only what the storefront sells is on it.                      *)
Storefront == {c \in Catalog : Placed[c] \in {"standard", "pro"}}

(* A preview the manifest declares and the repository does not hold reads   *)
(* as one not published, with the reason.                                   *)
WithPublication(s) ==
  IF s.path \in Unpublished THEN [path |-> None, because |-> "not in repository"] ELSE s

Sample(c) == IF c \in Launch THEN WithPublication(Samples[c]) ELSE [path |-> None, because |-> None]
HasSample(c) == Sample(c).path # None
IsPending(c) == Sample(c).because # None

(* The examples that are handed over together.                              *)
SampleReady == {c \in Storefront : CanOpen(user, c) /\ ~IsPending(c)}

(* "Get n more", on the shelf it is about.                                  *)
Upgradeable(shelf) == {c \in Storefront : ShelfOf(c) = shelf /\ ~CanOpen(user, c) /\ ~IsPending(c)}
UpgradeFor(c) == IF ShelfOf(c) = "grove" THEN "grove" ELSE "press_pro"

(* The pane: no preview comes before no plan, and either before the records.*)
Pane(c) == CASE c = All -> "all"
             [] IsPending(c) -> "unavailable"
             [] ~CanOpen(user, c) -> "locked"
             [] OTHER -> "records"

(* The full spreadsheet, beside the records of an open collection.          *)
FullOffered(c) == user # Nobody /\ c \in feed /\ Pane(c) = "records"
-----------------------------------------------------------------------------
Change == changes < MaxChanges /\ changes' = changes + 1

Init == /\ plan \in Tiers \cup {"sprout"} /\ user = Nobody
        /\ reading = FALSE /\ feed = {}
        /\ chosen \in Storefront \cup {All} /\ pointed = NoCard /\ changes = 0

(* The subscription is bought, upgraded or over; the page is not told.      *)
Subscribe == /\ Change /\ plan' \in (Tiers \cup {"sprout"}) \ {plan}
             /\ UNCHANGED <<user, reading, feed, chosen, pointed>>

(* A payload of the session, or that there is none: the last reading is     *)
(* given up and another begun, and what it had found is kept meanwhile.     *)
SessionRead(u) == /\ Change /\ user' = u
                  /\ reading' = (u # Nobody)
                  /\ UNCHANGED <<plan, feed, chosen, pointed>>
FeedAnswered == /\ reading /\ reading' = FALSE /\ feed' = ReleasesFor(plan)
                /\ UNCHANGED <<plan, user, chosen, pointed, changes>>
FeedRefused == /\ reading /\ reading' = FALSE
               /\ UNCHANGED <<plan, user, feed, chosen, pointed, changes>>

(* Locked and pending collections can be chosen like any other, and so can  *)
(* all of them.                                                             *)
Choose(c) == /\ Change /\ c # chosen /\ chosen' = c
             /\ UNCHANGED <<plan, user, reading, feed, pointed>>

(* The card of the collection under the mouse or in focus; leaving, Escape  *)
(* or scrolling the rail takes it away.                                     *)
Point(c) == /\ pointed # c /\ pointed' = c
            /\ UNCHANGED <<plan, user, reading, feed, chosen, changes>>

Next == \/ Subscribe \/ SessionRead(plan) \/ SessionRead(Nobody)
        \/ FeedAnswered \/ FeedRefused
        \/ (\E c \in Storefront \cup {All} : Choose(c)) \/ (\E c \in Storefront \cup {NoCard} : Point(c))

Spec == Init /\ [][Next]_vars
-----------------------------------------------------------------------------
(* "The two must answer identically": whatever happened to the account      *)
(* since, a payload that states the account's tier opens in the browser     *)
(* exactly what the service would serve, for every collection it names.     *)
OpensWhatIsServed ==
  user = plan => \A c \in Catalog : CanOpen(user, c) <=> MayOpen(plan, c)

(* "Never promise an upgrade for a release that has no self-service         *)
(* preview": each collection counted in the offer is one the product named  *)
(* for it would open, with records to show, to a reader who has less; and   *)
(* the examples handed over together all have a file.                       *)
OffersAreKept ==
  /\ \A c \in SampleReady : HasSample(c)
  /\ \A shelf \in {"standard", "pro"} : \A c \in Upgradeable(shelf) :
       MayOpen(UpgradeFor(c), c) /\ HasSample(c) /\ Pane(c) = "locked"

(* The list of full files may be of an earlier payload, even of another     *)
(* reader; what is offered beside the records is still only what the plan   *)
(* in hand is served.                                                       *)
FullFilesAreThePlans == FullOffered(chosen) => MayDownloadFull(user, chosen)
=============================================================================
