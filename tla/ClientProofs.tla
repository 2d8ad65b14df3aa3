---------------------------- MODULE ClientProofs ----------------------------
(***************************************************************************)
(* Parts of the client and the release scripts, for any constants and any  *)
(* number of steps.  Each part is proved from its own specification alone, *)
(* over the state the client's module gives it; then the client, whose     *)
(* behaviours are those of one part each, keeps what its parts keep.  The  *)
(* fade-in (V) and the collections page (L) have a run of their own and no *)
(* part in the client.                                                     *)
(***************************************************************************)
EXTENDS Client, SequenceTheorems, FiniteSetTheorems, TLAPS

-----------------------------------------------------------------------------
(* The question mark.  What the browser still owes of a tap is a focus, an   *)
(* entering mouse, or the two in that order; the latches that keep each from *)
(* undoing the tap are set until it has come.                                *)

Owed == {<< >>, <<"focus">>, <<"enter">>, <<"focus", "enter">>}

MarkInv ==
  /\ queue \in Owed
  /\ queue # << >> => tapped /\ asked \in {"open", "shut"}
  /\ queue # << >> /\ Head(queue) = "focus" => fromPointer
  /\ asked = "open" => open
  /\ asked = "shut" => ~open
  /\ open \in BOOLEAN /\ top \in BOOLEAN /\ small \in BOOLEAN /\ low \in BOOLEAN

LEMMA Owes ==
  ASSUME queue \in Owed, queue # << >>
  PROVE  /\ Tail(queue) \in Owed
         /\ Head(queue) = "focus" => Tail(queue) \in {<< >>, <<"enter">>}
         /\ Head(queue) = "enter" => Tail(queue) = << >>
         /\ Head(queue) \in {"focus", "enter"}
<1>1. CASE queue = <<"focus">>
  BY <1>1 DEF Owed
<1>2. CASE queue = <<"enter">>
  BY <1>2 DEF Owed
<1>3. CASE queue = <<"focus", "enter">>
  BY <1>3 DEF Owed
<1> QED
  BY <1>1, <1>2, <1>3 DEF Owed

(* A gesture finds nothing owed, and leaves what it asked for done.          *)
LEMMA GestureKeeps ==
  ASSUME MarkInv, queue = << >>, queue' = queue, top' \in BOOLEAN, small' \in BOOLEAN, low' \in BOOLEAN,
         open' \in BOOLEAN, asked' = "open" => open', asked' = "shut" => ~open'
  PROVE  MarkInv'
  BY DEF MarkInv

LEMMA PlacedIsBoolean ==
  ASSUME MarkInv, M!PlacedIfOpened
  PROVE  top' \in BOOLEAN /\ small' \in BOOLEAN /\ low' \in BOOLEAN
<1>1. CASE open' /\ ~open
  <2>1. UNCHANGED <<small, low>> /\ top' = (small' /\ low')
    BY <1>1 DEF M!PlacedIfOpened, M!Place
  <2> QED
    BY <2>1, Zenon DEF MarkInv
<1>2. CASE ~(open' /\ ~open)
  <2>1. UNCHANGED <<small, low, top>>
    BY <1>2 DEF M!PlacedIfOpened, M!placeVars
  <2> QED
    BY <2>1, Zenon DEF MarkInv
<1> QED
  BY <1>1, <1>2

LEMMA StepKeepsMark ==
  ASSUME MarkInv, [M!Next]_(M!vars)
  PROVE  MarkInv'
<1> USE DEF M!Gesture, M!NotATap, M!Asks, M!OpenedByFocus
<1>1. CASE M!MouseEnter
  <2>1. queue = << >> /\ queue' = queue /\ asked' = "nothing" /\ open' = (open \/ ~tapped)
    BY <1>1 DEF M!MouseEnter
  <2> QED
    BY <1>1, <2>1, GestureKeeps, PlacedIsBoolean DEF M!MouseEnter
<1>2. CASE M!MouseLeave
  <2>1. queue = << >> /\ queue' = queue /\ asked' = "nothing" /\ open' = (open /\ (tapped \/ ~hover))
    BY <1>2 DEF M!MouseLeave
  <2> QED
    BY <1>2, <2>1, GestureKeeps, PlacedIsBoolean DEF M!MouseLeave
<1>3. CASE M!MouseDown \/ M!KeyToPanel \/ M!PointerChanges
  <2>1. /\ queue = << >> /\ queue' = queue /\ asked' = "nothing"
        /\ UNCHANGED <<open, small, low, top>>
    BY <1>3 DEF M!MouseDown, M!KeyToPanel, M!PointerChanges, M!placeVars
  <2>2. open' \in BOOLEAN /\ top' \in BOOLEAN /\ small' \in BOOLEAN /\ low' \in BOOLEAN
    BY <2>1, Zenon DEF MarkInv
  <2> QED
    BY <2>1, <2>2, GestureKeeps
<1>4. CASE M!Tap
  <2>1. tapped' /\ fromPointer' /\ queue = << >>
    BY <1>4 DEF M!Tap
  <2>2. open' = ~open /\ asked' = IF open THEN "shut" ELSE "open"
    BY <1>4 DEF M!Tap
  <2>3. queue' \in Owed
    <3>1. PICK focuses \in BOOLEAN, enters \in BOOLEAN :
            queue' = (IF focuses /\ focus # "mark" THEN <<"focus">> ELSE << >>)
                       \o (IF enters /\ hover /\ ~over THEN <<"enter">> ELSE << >>)
      BY <1>4 DEF M!Tap
    <3>2. queue' \in {<<"focus">> \o <<"enter">>, <<"focus">> \o << >>,
                      << >> \o <<"enter">>, << >> \o << >>}
      BY <3>1
    <3> QED
      BY <3>2 DEF Owed
  <2>4. top' \in BOOLEAN /\ small' \in BOOLEAN /\ low' \in BOOLEAN
    BY <1>4, PlacedIsBoolean DEF M!Tap
  <2> QED
    BY <2>1, <2>2, <2>3, <2>4 DEF MarkInv
<1>5. CASE M!TapFocuses
  <2>1. queue # << >> /\ Head(queue) = "focus" /\ queue' = Tail(queue) /\ UNCHANGED <<tapped, asked>>
    BY <1>5 DEF M!TapFocuses
  <2>2. fromPointer /\ tapped /\ asked \in {"open", "shut"} /\ queue' \in {<< >>, <<"enter">>}
    BY <2>1, Owes DEF MarkInv
  <2>3. open' = (open \/ ~fromPointer)
    BY <1>5 DEF M!TapFocuses
  <2>4. open' = open
    BY <2>2, <2>3, Zenon DEF MarkInv
  <2>5. top' \in BOOLEAN /\ small' \in BOOLEAN /\ low' \in BOOLEAN
    BY <1>5, PlacedIsBoolean DEF M!TapFocuses
  <2>6. queue' \in Owed /\ (queue' # << >> => Head(queue') # "focus")
    BY <2>2 DEF Owed
  <2> QED
    BY <2>1, <2>2, <2>4, <2>5, <2>6 DEF MarkInv
<1>6. CASE M!TapEnters
  <2>1. queue # << >> /\ Head(queue) = "enter" /\ queue' = Tail(queue) /\ UNCHANGED <<tapped, asked>>
    BY <1>6 DEF M!TapEnters
  <2>2. tapped /\ queue' = << >>
    BY <2>1, Owes DEF MarkInv
  <2>3. open' = (open \/ ~tapped)
    BY <1>6 DEF M!TapEnters
  <2>4. open' = open
    BY <2>2, <2>3, Zenon DEF MarkInv
  <2>5. top' \in BOOLEAN /\ small' \in BOOLEAN /\ low' \in BOOLEAN
    BY <1>6, PlacedIsBoolean DEF M!TapEnters
  <2> QED
    BY <2>1, <2>2, <2>4, <2>5 DEF MarkInv, Owed
<1>7. CASE M!KeyToMark
  <2>1. queue = << >> /\ queue' = queue /\ asked' = "nothing" /\ open' = (open \/ ~fromPointer)
    BY <1>7 DEF M!KeyToMark
  <2> QED
    BY <1>7, <2>1, GestureKeeps, PlacedIsBoolean DEF M!KeyToMark
<1>8. CASE M!KeyPress
  <2>1. queue = << >> /\ queue' = queue /\ asked' = "nothing" /\ open' = ~open
    BY <1>8 DEF M!KeyPress
  <2> QED
    BY <1>8, <2>1, GestureKeeps, PlacedIsBoolean DEF M!KeyPress
<1>9. CASE M!KeyAway
  <2>1. /\ queue = << >> /\ queue' = queue /\ asked' = "nothing" /\ open' = (open /\ focus = "panel")
        /\ UNCHANGED <<small, low, top>>
    BY <1>9 DEF M!KeyAway, M!placeVars
  <2>2. open' \in BOOLEAN /\ top' \in BOOLEAN /\ small' \in BOOLEAN /\ low' \in BOOLEAN
    BY <2>1, Zenon DEF MarkInv
  <2> QED
    BY <2>1, <2>2, GestureKeeps
<1>10. CASE M!Escape
  <2>1. /\ queue = << >> /\ queue' = queue /\ asked' = (IF focus = "mark" THEN "shut" ELSE "nothing")
        /\ UNCHANGED <<small, low, top>> /\ open' = (focus # "mark" /\ (FALSE \/ ~fromPointer))
    BY <1>10 DEF M!Escape, M!placeVars
  <2>2. open' \in BOOLEAN /\ top' \in BOOLEAN /\ small' \in BOOLEAN /\ low' \in BOOLEAN
    BY <2>1, Zenon DEF MarkInv
  <2> QED
    BY <2>1, <2>2, GestureKeeps
<1>11. CASE M!Done \/ M!PressOutside
  <2>1. /\ queue = << >> /\ queue' = queue /\ asked' = "nothing" /\ open' = FALSE
        /\ UNCHANGED <<small, low, top>>
    BY <1>11 DEF M!Done, M!PressOutside, M!placeVars
  <2>2. top' \in BOOLEAN /\ small' \in BOOLEAN /\ low' \in BOOLEAN
    BY <2>1, Zenon DEF MarkInv
  <2> QED
    BY <2>1, <2>2, GestureKeeps
<1>12. CASE M!Resize
  <2>1. /\ queue = << >> /\ queue' = queue /\ asked' = "nothing" /\ open' = open
        /\ small' \in BOOLEAN /\ low' \in BOOLEAN
    BY <1>12 DEF M!Resize, M!pointerVars
  <2>2. top' = (small' /\ low') \/ top' = top
    BY <1>12 DEF M!Resize, M!Place
  <2>3. top' \in BOOLEAN /\ open' \in BOOLEAN
    BY <2>1, <2>2, Zenon DEF MarkInv
  <2> QED
    BY <2>1, <2>3, GestureKeeps
<1>13. CASE M!Scroll
  <2>1. /\ queue = << >> /\ queue' = queue /\ asked' = "nothing" /\ UNCHANGED <<open, small, top>>
        /\ low' = ~low
    BY <1>13 DEF M!Scroll
  <2>2. open' \in BOOLEAN /\ top' \in BOOLEAN /\ small' \in BOOLEAN /\ low' \in BOOLEAN
    BY <2>1, Zenon DEF MarkInv
  <2> QED
    BY <2>1, <2>2, GestureKeeps
<1>14. CASE UNCHANGED M!vars
  BY <1>14 DEF M!vars, M!pointerVars, M!placeVars, MarkInv
<1> QED
  BY <1>1, <1>2, <1>3, <1>4, <1>5, <1>6, <1>7, <1>8, <1>9, <1>10, <1>11, <1>12, <1>13, <1>14
  DEF M!Next

(* Where it is put as it opens stays right until the page is scrolled.       *)
LEMMA StepKeepsSheetClear ==
  ASSUME M!SheetClearsTheMark, [M!Next]_(M!vars)
  PROVE  M!SheetClearsTheMark'
<1> USE DEF M!SheetClearsTheMark
<1>1. CASE M!PlacedIfOpened
  <2>1. CASE open' /\ ~open
    BY <1>1, <2>1 DEF M!PlacedIfOpened, M!Place
  <2>2. CASE ~(open' /\ ~open)
    BY <1>1, <2>2 DEF M!PlacedIfOpened, M!placeVars
  <2> QED
    BY <2>1, <2>2
<1>2. CASE (open' => open) /\ UNCHANGED M!placeVars
  BY <1>2 DEF M!placeVars
<1>3. CASE M!Resize
  BY <1>3 DEF M!Resize, M!Place, M!Measures, M!pointerVars
<1>4. CASE M!Scroll
  BY <1>4 DEF M!Scroll
<1>5. M!PlacedIfOpened \/ ((open' => open) /\ UNCHANGED M!placeVars) \/ M!Resize \/ M!Scroll
  <2>1. CASE M!MouseEnter \/ M!MouseLeave \/ M!Tap \/ M!TapFocuses \/ M!TapEnters \/ M!KeyToMark \/ M!KeyPress
    BY <2>1 DEF M!MouseEnter, M!MouseLeave, M!Tap, M!TapFocuses, M!TapEnters, M!KeyToMark, M!KeyPress
  <2>2. CASE M!MouseDown \/ M!KeyToPanel \/ M!KeyAway \/ M!Escape \/ M!Done \/ M!PressOutside \/ M!PointerChanges
    BY <2>2 DEF M!MouseDown, M!KeyToPanel, M!KeyAway, M!Escape, M!Done, M!PressOutside, M!PointerChanges
  <2>3. CASE UNCHANGED M!vars
    BY <2>3 DEF M!vars
  <2> QED
    BY <2>1, <2>2, <2>3 DEF M!Next
<1> QED
  BY <1>1, <1>2, <1>3, <1>4, <1>5

(* However the browser splits and orders the events of a gesture: the panel  *)
(* is as the last tap, or Escape on the mark, decided, and a sheet that is   *)
(* up lies along the edge the mark is not at (Explain.jsx).                  *)
THEOREM TheMarkObeys == M!Spec => [](M!TapDecides /\ M!SheetClearsTheMark)
<1>1. M!Init => MarkInv /\ M!SheetClearsTheMark
  BY DEF M!Init, MarkInv, Owed, M!SheetClearsTheMark
<1>2. MarkInv /\ [M!Next]_(M!vars) => MarkInv'
  BY StepKeepsMark
<1>3. M!SheetClearsTheMark /\ [M!Next]_(M!vars) => M!SheetClearsTheMark'
  BY StepKeepsSheetClear
<1>4. MarkInv => M!TapDecides
  BY DEF MarkInv, M!TapDecides
<1> QED
  BY <1>1, <1>2, <1>3, <1>4, PTL DEF M!Spec

-----------------------------------------------------------------------------
(* The shelves.  The list of full files in hand may be of any earlier plan,  *)
(* but holds nothing of Grove's, and a payload is of a plan there is.        *)

Plans == H!Tiers \cup {"sprout"}

ShelvesInv ==
  /\ shelfPlan \in Plans /\ payload \in Plans \cup {H!Nobody}
  /\ feed \subseteq Released \cap OnStore
  /\ chosen \in H!Storefront \cup {H!All}

(* What the browser works out of the tier's name is what the service does.   *)
LEMMA ReachOf ==
  ASSUME NEW t \in Plans \cup {H!Nobody}
  PROVE  H!ShelfReach(t) = IF t \in DOMAIN H!ShelfByTier THEN {H!ShelfByTier[t]} ELSE {}
<1>1. "sprout" \notin DOMAIN H!ShelfByTier /\ H!Nobody \notin DOMAIN H!ShelfByTier
  BY DEF H!ShelfByTier, H!Nobody
<1>2. CASE t \in H!Tiers
  BY <1>2 DEF H!ShelfReach, H!ResolveTier
<1>3. CASE t \notin H!Tiers
  <2>1. H!ResolveTier(t) = "sprout" /\ t \in {"sprout", H!Nobody}
    BY <1>3 DEF H!ResolveTier, Plans
  <2> QED
    BY <1>1, <2>1 DEF H!ShelfReach
<1> QED
  BY <1>2, <1>3

LEMMA BothSidesAgree ==
  ASSUME H!ShelvesAssumption, NEW t \in Plans \cup {H!Nobody}, NEW c \in ShelfCatalog
  PROVE  H!CanOpen(t, c) <=> H!MayOpen(t, c)
<1>1. c \in OnStore <=> Placed[c] # "grove"
  BY DEF H!ShelvesAssumption
<1>2. CASE t \in DOMAIN H!ShelfByTier
  <2>1. H!ShelfReach(t) = {H!ShelfByTier[t]}
    BY <1>2, ReachOf
  <2>2. H!CanOpen(t, c) <=> /\ Placed[c] # "grove"
                            /\ H!ShelfOrder[H!ShelfByTier[t]] >= H!ShelfOrder[Placed[c]]
    BY <2>1 DEF H!CanOpen, H!ShelfOf
  <2>3. H!ShelfOrder[H!ShelfByTier[t]] \in Int /\ H!ShelfOrder[Placed[c]] \in Int
    <3>1. H!ShelfByTier[t] \in {"standard", "pro", "grove"}
      BY <1>2 DEF H!ShelfByTier
    <3>2. Placed[c] \in {"standard", "pro", "grove"}
      BY DEF H!ShelvesAssumption
    <3> QED
      BY <3>1, <3>2 DEF H!ShelfOrder
  <2>4. H!MayOpen(t, c) <=> /\ Placed[c] # "grove"
                            /\ H!ShelfOrder[Placed[c]] <= H!ShelfOrder[H!ShelfByTier[t]]
    BY <1>1, <1>2 DEF H!MayOpen, H!Reaches
  <2> QED
    BY <2>2, <2>3, <2>4
<1>3. CASE t \notin DOMAIN H!ShelfByTier
  BY <1>3, ReachOf DEF H!CanOpen, H!MayOpen, H!Reaches
<1> QED
  BY <1>2, <1>3

LEMMA InitShelves ==
  ASSUME H!Init
  PROVE  ShelvesInv
  BY DEF H!Init, ShelvesInv, Plans

LEMMA StepKeepsShelves ==
  ASSUME ShelvesInv, [H!Next]_(H!vars)
  PROVE  ShelvesInv'
<1> USE DEF ShelvesInv
<1>1. CASE H!Subscribe
  BY <1>1 DEF H!Subscribe, Plans
<1>2. CASE H!SessionRead(shelfPlan) \/ H!SessionRead(H!Nobody)
  BY <1>2 DEF H!SessionRead
<1>3. CASE H!FeedAnswered
  BY <1>3 DEF H!FeedAnswered, H!ReleasesFor
<1>4. CASE H!FeedRefused
  BY <1>4 DEF H!FeedRefused
<1>5. ASSUME NEW c \in H!Storefront \cup {H!All}, H!Choose(c)
      PROVE  ShelvesInv'
  BY <1>5 DEF H!Choose
<1>6. ASSUME NEW c, H!Point(c)
      PROVE  ShelvesInv'
  BY <1>6 DEF H!Point
<1>7. CASE UNCHANGED H!vars
  BY <1>7 DEF H!vars
<1> QED
  BY <1>1, <1>2, <1>3, <1>4, <1>5, <1>6, <1>7 DEF H!Next

(* What is on the storefront and is not pending has a preview to show.       *)
LEMMA ShownHasAFile ==
  ASSUME H!ShelvesAssumption, NEW c \in H!Storefront, ~H!IsPending(c)
  PROVE  H!HasSample(c)
<1>1. c \in OnStore
  BY DEF H!Storefront, H!ShelvesAssumption
<1>2. H!Sample(c) = H!WithPublication(Previews[c])
  BY <1>1 DEF H!Sample
<1>3. (Previews[c].path = None) # (Previews[c].because = None)
  BY <1>1 DEF H!ShelvesAssumption
<1>4. None # "not in repository"
  BY DEF H!ShelvesAssumption
<1>5. CASE Previews[c].path \in Unpublished
  <2>1. H!Sample(c) = [path |-> None, because |-> "not in repository"]
    BY <1>2, <1>5 DEF H!WithPublication
  <2>2. ASSUME NEW r, r = [path |-> None, because |-> "not in repository"]
        PROVE  r.because # None
    BY <1>4, <2>2
  <2> QED
    BY <2>1, <2>2 DEF H!IsPending
<1>6. CASE Previews[c].path \notin Unpublished
  <2>1. H!Sample(c) = Previews[c]
    BY <1>2, <1>6 DEF H!WithPublication
  <2>2. CASE Previews[c].because = None
    BY <1>3, <2>1, <2>2 DEF H!HasSample
  <2>3. CASE Previews[c].because # None
    BY <2>1, <2>3 DEF H!IsPending
  <2> QED
    BY <2>2, <2>3
<1> QED
  BY <1>5, <1>6

LEMMA ShelvesAreRight ==
  ASSUME H!ShelvesAssumption, ShelvesInv
  PROVE  H!OpensWhatIsServed /\ H!OffersAreKept /\ H!FullFilesAreThePlans
<1>1. H!OpensWhatIsServed
  BY BothSidesAgree DEF ShelvesInv, H!OpensWhatIsServed
<1>2. ASSUME NEW c \in H!SampleReady
      PROVE  H!HasSample(c)
  BY ShownHasAFile DEF H!SampleReady
<1>3. ASSUME NEW shelf \in {"standard", "pro"}, NEW c \in H!Upgradeable(shelf)
      PROVE  H!MayOpen(H!UpgradeFor(c), c) /\ H!HasSample(c) /\ H!Pane(c) = "locked"
  <2>1. c \in H!Storefront /\ Placed[c] = shelf /\ ~H!CanOpen(payload, c) /\ ~H!IsPending(c)
    BY DEF H!Upgradeable, H!ShelfOf
  <2>2. H!HasSample(c)
    BY <2>1, ShownHasAFile
  <2>3. c \in OnStore /\ c # H!All
    BY <2>1 DEF H!Storefront, H!ShelvesAssumption, H!All
  <2>4. H!UpgradeFor(c) = "press_pro"
    BY <2>1 DEF H!UpgradeFor, H!ShelfOf
  <2>5. H!Reaches("press_pro", Placed[c])
    BY <2>1 DEF H!Reaches, H!ShelfByTier, H!ShelfOrder
  <2>6. H!Pane(c) = "locked"
    BY <2>1, <2>3 DEF H!Pane
  <2> QED
    BY <2>2, <2>3, <2>4, <2>5, <2>6 DEF H!MayOpen
<1>4. ASSUME H!FullOffered(chosen)
      PROVE  H!MayDownloadFull(payload, chosen)
  <2>1. chosen \in OnStore /\ chosen \in ShelfCatalog
    BY <1>4 DEF H!FullOffered, ShelvesInv, H!ShelvesAssumption
  <2>2. H!CanOpen(payload, chosen)
    BY <1>4, <2>1 DEF H!FullOffered, H!Pane, H!All, H!ShelvesAssumption
  <2> QED
    BY <2>1, <2>2, BothSidesAgree DEF ShelvesInv, H!MayDownloadFull
<1> QED
  BY <1>1, <1>2, <1>3, <1>4 DEF H!OffersAreKept, H!FullFilesAreThePlans

(* Whatever happens to the subscription and in whatever order the payloads   *)
(* and the lists of full files arrive: a payload of the account's plan opens *)
(* what the service serves, an upgrade on offer opens what it is offered     *)
(* for, and a full file is offered to whom it is served (pressAccess.js,     *)
(* repository.py).                                                           *)
THEOREM ShelvesAgree ==
  ASSUME H!ShelvesAssumption
  PROVE  H!Spec => [](H!OpensWhatIsServed /\ H!OffersAreKept /\ H!FullFilesAreThePlans)
<1>1. H!Init => ShelvesInv
  BY InitShelves
<1>2. ShelvesInv /\ [H!Next]_(H!vars) => ShelvesInv'
  BY StepKeepsShelves
<1>3. ShelvesInv => H!OpensWhatIsServed /\ H!OffersAreKept /\ H!FullFilesAreThePlans
  BY ShelvesAreRight
<1> QED
  BY <1>1, <1>2, <1>3, PTL DEF H!Spec

-----------------------------------------------------------------------------
(* The priorities.  What a read was served is no newer than the ledger and,  *)
(* for the one read that may publish, no older than what is on screen.       *)

Account == [put : [Priorities -> Int], at : Nat]
ReadType == [owner : Nat, rev : Nat, list : Account \cup {None}, card : Account \cup {None},
             live : BOOLEAN]
ChangeType == [kind : {"move", "submit"}, by : Readers, owner : Nat,
               priority : Priorities \cup {None}, points : Int, text : PriorityTexts \cup {None},
               step : {"sent", "applied", "reading", "done", "failed"}, awaits : Nat, mount : Nat]
FormType == [text : PriorityTexts \cup {None}, matches : Priorities \cup {None}, support : BOOLEAN,
             busy : BOOLEAN, looks : SUBSET PriorityTexts]

SessionInv ==
  /\ user \in Readers \cup {None} /\ owner \in Nat /\ sequence \in Nat /\ mount \in Nat
  /\ points \in [Readers -> Account]
  /\ state.owner \in Nat /\ state.owner <= owner /\ state.at \in Nat
  /\ state.owner = owner => user \in Readers /\ state.at <= points[user].at

\* A read of this session, as far as it was served.
Served(r) ==
  /\ r.owner = owner => user \in Readers /\ (r.card # None => r.card.at <= points[user].at)
  /\ Q!Current(r) /\ state.owner = owner /\ r.card # None => state.at <= r.card.at

ReadsInv ==
  /\ reads \subseteq ReadType
  /\ \A r \in reads : r.owner <= owner /\ r.rev > 0 /\ r.rev <= sequence /\ Served(r)
  /\ \A r, s \in reads : r.rev = s.rev => r = s

ChangesInv ==
  /\ changes \subseteq ChangeType
  /\ \A c \in changes : /\ c.owner <= owner /\ (c.owner = owner => c.by = user)
                        /\ c.step \in {"sent", "applied"} => c.awaits = 0

\* What the form says of its text, and what was asked for, is of that text.
FormInv ==
  /\ form \in FormType
  /\ form.matches # None /\ form.text # None => form.matches = Concerns[form.text]
  /\ \A c \in changes : c.kind = "submit" => c.text \in PriorityTexts /\ c.priority \in {None, Concerns[c.text]}
  /\ Q!RequestsReadAsTheirText

PrioritiesInv == SessionInv /\ ReadsInv /\ ChangesInv /\ FormInv

-----------------------------------------------------------------------------
(* Records.                                                                  *)

LEMMA NewReadTyped ==
  ASSUME NEW who \in Nat, NEW rev \in Nat
  PROVE  /\ Q!NewRead(who, rev) \in ReadType
         /\ Q!NewRead(who, rev).owner = who /\ Q!NewRead(who, rev).rev = rev
         /\ Q!NewRead(who, rev).list = None /\ Q!NewRead(who, rev).card = None
         /\ Q!NewRead(who, rev).live = TRUE
  BY DEF Q!NewRead, ReadType

LEMMA AbortedTyped ==
  ASSUME NEW r \in ReadType
  PROVE  /\ [r EXCEPT !.live = FALSE] \in ReadType
         /\ [r EXCEPT !.live = FALSE].owner = r.owner /\ [r EXCEPT !.live = FALSE].rev = r.rev
         /\ [r EXCEPT !.live = FALSE].card = r.card /\ [r EXCEPT !.live = FALSE].live = FALSE
  BY DEF ReadType

LEMMA ServedTyped ==
  ASSUME NEW r \in ReadType, NEW a \in Account, NEW new,
         new = [r EXCEPT !.list = a] \/ new = [r EXCEPT !.card = a]
  PROVE  /\ new \in ReadType /\ new.owner = r.owner /\ new.rev = r.rev /\ new.live = r.live
         /\ new.list \in {r.list, a} /\ new.card \in {r.card, a}
<1>1. CASE new = [r EXCEPT !.list = a]
  BY <1>1 DEF ReadType
<1>2. CASE new = [r EXCEPT !.card = a]
  BY <1>2 DEF ReadType
<1> QED
  BY <1>1, <1>2

LEMMA StepTyped ==
  ASSUME NEW c \in ChangeType, NEW step \in {"sent", "applied", "reading", "done", "failed"},
         NEW d, d = [c EXCEPT !.step = step]
  PROVE  /\ d \in ChangeType /\ d.kind = c.kind /\ d.by = c.by /\ d.owner = c.owner
         /\ d.text = c.text /\ d.priority = c.priority /\ d.step = step /\ d.awaits = c.awaits
  BY DEF ChangeType

LEMMA AwaitsTyped ==
  ASSUME NEW c \in ChangeType, NEW n \in Nat, NEW d, d = [c EXCEPT !.step = "reading", !.awaits = n]
  PROVE  /\ d \in ChangeType /\ d.kind = c.kind /\ d.by = c.by /\ d.owner = c.owner
         /\ d.text = c.text /\ d.priority = c.priority /\ d.step = "reading"
<1>1. d = [[c EXCEPT !.step = "reading"] EXCEPT !.awaits = n]
  OBVIOUS
<1>2. ASSUME NEW e \in ChangeType, NEW f, f = [e EXCEPT !.awaits = n]
      PROVE  /\ f \in ChangeType /\ f.kind = e.kind /\ f.by = e.by /\ f.owner = e.owner
             /\ f.text = e.text /\ f.priority = e.priority /\ f.step = e.step
  BY <1>2 DEF ChangeType
<1>3. PICK e : e = [c EXCEPT !.step = "reading"]
  OBVIOUS
<1>4. /\ e \in ChangeType /\ e.kind = c.kind /\ e.by = c.by /\ e.owner = c.owner
      /\ e.text = c.text /\ e.priority = c.priority /\ e.step = "reading"
  BY <1>3, StepTyped
<1>5. d = [e EXCEPT !.awaits = n]
  BY <1>1, <1>3
<1> QED
  BY <1>2, <1>4, <1>5

(* A move leaves every account an account, and none with an earlier count.   *)
LEMMA MovedTyped ==
  ASSUME NEW a \in Account, NEW p, NEW n \in Int
  PROVE  Q!Moved(a, p, n) \in Account /\ Q!Moved(a, p, n).at = a.at + 1
<1> DEFINE old == a.put
           put == [old EXCEPT ![p] = @ + n]
<1>1. old \in [Priorities -> Int] /\ a.at \in Nat
  BY DEF Account
<1> HIDE DEF old
<1>2. put \in [Priorities -> Int]
  <2>1. put = [x \in Priorities |-> IF x = p THEN old[p] + n ELSE old[x]]
    BY <1>1
  <2>2. \A x \in Priorities : (IF x = p THEN old[p] + n ELSE old[x]) \in Int
    BY <1>1
  <2> QED
    BY <2>1, <2>2
<1>3. Q!Moved(a, p, n) = [put |-> put, at |-> a.at + 1]
  BY DEF Q!Moved, old
<1> HIDE DEF put
<1> QED
  BY <1>1, <1>2, <1>3 DEF Account

LEMMA LedgerGrows ==
  ASSUME points \in [Readers -> Account], NEW c \in ChangeType,
         points' = [points EXCEPT ![c.by] = Q!Moved(@, c.priority, c.points)]
  PROVE  points' \in [Readers -> Account] /\ \A u \in Readers : points[u].at <= points'[u].at
<1> DEFINE new == Q!Moved(points[c.by], c.priority, c.points)
<1>1. c.by \in Readers /\ c.points \in Int
  BY DEF ChangeType
<1>2. new \in Account /\ new.at = points[c.by].at + 1
  BY <1>1, MovedTyped
<1>3. points' = [points EXCEPT ![c.by] = new]
  OBVIOUS
<1> HIDE DEF new
<1>4. points' \in [Readers -> Account]
  BY <1>2, <1>3
<1>5. \A u \in Readers : points'[u] = IF u = c.by THEN new ELSE points[u]
  BY <1>3
<1>6. \A u \in Readers : points[u].at \in Nat
  BY DEF Account
<1> QED
  BY <1>1, <1>2, <1>4, <1>5, <1>6

-----------------------------------------------------------------------------
(* The reads.                                                                *)

(* Aborting leaves a read everything but its life.                           *)
LEMMA AbortedReads ==
  ASSUME SessionInv, ReadsInv
  PROVE  /\ \A r \in Q!Aborted : /\ r \in ReadType /\ r.owner <= owner /\ r.rev > 0 /\ r.rev <= sequence
                                 /\ r.rev \in Nat /\ r.owner \in Nat /\ ~Q!Current(r)
                                 /\ r.owner = owner => (r.card # None => r.card.at <= points[user].at)
         /\ \A r, s \in Q!Aborted : r.rev = s.rev => r = s
<1>1. ASSUME NEW r \in Q!Aborted
      PROVE  \E s \in reads : /\ r = [s EXCEPT !.live = FALSE] /\ r \in ReadType
                              /\ r.owner = s.owner /\ r.rev = s.rev /\ r.card = s.card /\ ~r.live
  <2>1. PICK s \in reads : r = [s EXCEPT !.live = FALSE]
    BY DEF Q!Aborted
  <2>2. s \in ReadType
    BY DEF ReadsInv
  <2> QED
    BY <2>1, <2>2, AbortedTyped
<1>2. \A r \in Q!Aborted : r.rev \in Nat /\ r.owner \in Nat
  BY <1>1 DEF ReadType
<1>3. \A r, s \in Q!Aborted : r.rev = s.rev => r = s
  <2> SUFFICES ASSUME NEW r \in Q!Aborted, NEW s \in Q!Aborted, r.rev = s.rev
               PROVE  r = s
    OBVIOUS
  <2>1. PICK x \in reads : r = [x EXCEPT !.live = FALSE] /\ r.rev = x.rev
    BY <1>1
  <2>2. PICK y \in reads : s = [y EXCEPT !.live = FALSE] /\ s.rev = y.rev
    BY <1>1
  <2>3. x = y
    BY <2>1, <2>2 DEF ReadsInv
  <2> QED
    BY <2>1, <2>2, <2>3
<1> QED
  BY <1>1, <1>2, <1>3 DEF ReadsInv, Served, Q!Current

LEMMA ReloadKeepsReads ==
  ASSUME SessionInv, ReadsInv, user \in Readers, Q!Reload, UNCHANGED <<user, owner, state, mount, points>>
  PROVE  SessionInv' /\ ReadsInv'
<1>1. PICK new : new = Q!NewRead(owner, sequence + 1)
  OBVIOUS
<1>2. sequence' = sequence + 1 /\ reads' = Q!Aborted \cup {new}
  BY <1>1 DEF Q!Reload
<1>3. owner \in Nat /\ sequence \in Nat /\ sequence + 1 \in Nat
  BY DEF SessionInv
<1>4. new \in ReadType /\ new.owner = owner /\ new.rev = sequence + 1 /\ new.card = None
  BY <1>1, <1>3, NewReadTyped
<1>5. SessionInv'
  BY <1>2 DEF SessionInv
<1>6. ASSUME NEW r \in Q!Aborted
      PROVE  r \in ReadType /\ r.owner <= owner' /\ r.rev > 0 /\ r.rev <= sequence' /\ Served(r)'
  <2>1. r.rev \in Nat /\ r.rev > 0 /\ r.rev <= sequence
    BY AbortedReads
  <2>2. r.rev # sequence' /\ r.rev <= sequence'
    BY <1>2, <1>3, <2>1
  <2> QED
    BY <2>2, AbortedReads DEF Served, Q!Current
<1>7. new.owner <= owner' /\ new.rev > 0 /\ new.rev <= sequence' /\ Served(new)'
  BY <1>2, <1>3, <1>4 DEF Served
<1>8. \A r, s \in reads' : r.rev = s.rev => r = s
  <2>1. \A r \in Q!Aborted : r.rev # new.rev
    BY <1>3, <1>4, AbortedReads
  <2> QED
    BY <1>2, <2>1, AbortedReads
<1> QED
  BY <1>2, <1>4, <1>5, <1>6, <1>7, <1>8 DEF ReadsInv

LEMMA ServeKeepsReads ==
  ASSUME SessionInv, ReadsInv, NEW r \in reads, Q!ServeRead(r)
  PROVE  SessionInv' /\ ReadsInv'
<1>1. UNCHANGED <<user, owner, sequence, state, mount, points>> /\ user \in Readers
  BY DEF Q!ServeRead, Q!hook, Q!page, SessionInv
<1>2. points[user] \in Account
  BY <1>1 DEF SessionInv
<1>3. PICK new : /\ reads' = (reads \ {r}) \cup {new}
                 /\ \/ new = [r EXCEPT !.list = points[user]]
                    \/ new = [r EXCEPT !.card = points[user]]
  BY DEF Q!ServeRead
<1>4. r \in ReadType
  BY DEF ReadsInv
<1>5. /\ new \in ReadType /\ new.owner = r.owner /\ new.rev = r.rev /\ new.live = r.live
      /\ new.card \in {r.card, points[user]}
  BY <1>2, <1>3, <1>4, ServedTyped
<1>6. SessionInv'
  BY <1>1 DEF SessionInv
<1>7. \A s \in reads : Served(s)' <=> Served(s)
  BY <1>1 DEF Served, Q!Current
<1>8. Served(new)'
  <2>1. points[user].at \in Nat /\ state.at \in Nat
    BY <1>2 DEF Account, SessionInv
  <2>2. Served(new)
    BY <1>1, <1>5, <2>1 DEF ReadsInv, SessionInv, Served, Q!Current
  <2> QED
    BY <1>1, <2>2 DEF Served, Q!Current
<1>9. \A s, t \in reads' : s.rev = t.rev => s = t
  BY <1>3, <1>5 DEF ReadsInv
<1> QED
  BY <1>1, <1>3, <1>5, <1>6, <1>7, <1>8, <1>9 DEF ReadsInv

(* The read that publishes is the only one of its number.                    *)
LEMMA PublishKeepsReads ==
  ASSUME SessionInv, ReadsInv, NEW r \in reads, Q!Current(r), reads' = reads \ {r},
         UNCHANGED <<user, owner, sequence, mount, points>>,
         state'.owner = owner, state'.at \in Nat,
         r.owner = owner => state'.at <= points[user].at
  PROVE  SessionInv' /\ ReadsInv'
<1>1. r.owner = owner /\ user \in Readers
  BY DEF Q!Current, ReadsInv, Served
<1>2. SessionInv'
  BY <1>1 DEF SessionInv
<1>3. \A s \in reads' : s \in reads /\ s.rev # sequence
  BY DEF ReadsInv, Q!Current
<1>4. \A s \in reads' : Served(s)'
  BY <1>3 DEF ReadsInv, Served, Q!Current
<1> QED
  BY <1>2, <1>3, <1>4 DEF ReadsInv

LEMMA DropKeepsReads ==
  ASSUME SessionInv, ReadsInv, reads' \subseteq reads,
         UNCHANGED <<user, owner, sequence, mount, points, state>>
  PROVE  SessionInv' /\ ReadsInv'
<1>1. \A s \in reads : Served(s)' <=> Served(s)
  BY DEF Served, Q!Current
<1> QED
  BY <1>1 DEF SessionInv, ReadsInv

LEMMA DoneKeepsReads ==
  ASSUME SessionInv, ReadsInv, NEW r \in reads, Q!ReadDone(r) \/ Q!ReadFailed(r)
  PROVE  SessionInv' /\ ReadsInv'
<1>1. reads' = reads \ {r} /\ UNCHANGED <<user, owner, sequence, mount, points>>
  BY DEF Q!ReadDone, Q!ReadFailed, Q!page
<1>2. CASE ~Q!Current(r)
  <2>1. state' = state
    BY <1>2 DEF Q!ReadDone, Q!ReadFailed
  <2> QED
    BY <1>1, <2>1, DropKeepsReads
<1>3. CASE Q!Current(r) /\ Q!ReadDone(r)
  <2>1. /\ r.card # None
        /\ state' = [owner |-> owner, status |-> "ok", list |-> r.list.put, card |-> r.card.put, at |-> r.card.at]
    BY <1>3 DEF Q!ReadDone
  <2>2. r.card \in Account
    BY <2>1 DEF ReadsInv, ReadType
  <2>3. r.owner = owner => r.card.at <= points[user].at
    BY <2>1 DEF ReadsInv, Served
  <2>4. state'.owner = owner /\ state'.at = r.card.at /\ state'.at \in Nat
    BY <2>1, <2>2 DEF Account
  <2> QED
    BY <1>1, <1>3, <2>3, <2>4, PublishKeepsReads
<1>4. CASE Q!Current(r) /\ Q!ReadFailed(r)
  <2>1. state' = [Q!Loading EXCEPT !.status = "failed"]
    BY <1>4 DEF Q!ReadFailed
  <2>2. state'.owner = owner /\ state'.at = 0
    BY <2>1 DEF Q!Loading
  <2>3. r.owner = owner => 0 <= points[user].at
    BY DEF ReadsInv, Served, SessionInv, Account
  <2> QED
    BY <1>1, <1>4, <2>2, <2>3, PublishKeepsReads
<1> QED
  BY <1>2, <1>3, <1>4

LEMMA ApplyKeepsReads ==
  ASSUME SessionInv, ReadsInv, ChangesInv, NEW c \in changes, Q!Apply(c)
  PROVE  SessionInv' /\ ReadsInv'
<1>1. UNCHANGED <<user, owner, sequence, state, mount, reads>>
  BY DEF Q!Apply, Q!hook, Q!page
<1>2. points' \in [Readers -> Account] /\ \A u \in Readers : points[u].at <= points'[u].at
  <2>1. CASE points' = points
    <3>1. \A u \in Readers : points[u].at \in Nat
      BY DEF SessionInv, Account
    <3> QED
      BY <2>1, <3>1 DEF SessionInv
  <2>2. CASE points' = [points EXCEPT ![c.by] = Q!Moved(@, c.priority, c.points)]
    BY <2>2, LedgerGrows DEF SessionInv, ChangesInv
  <2> QED
    BY <2>1, <2>2 DEF Q!Apply
<1>3. \A u \in Readers : points[u].at \in Nat /\ points'[u].at \in Nat
  BY <1>2 DEF SessionInv, Account
<1>4. \A r \in reads : r.card = None \/ r.card.at \in Nat
  BY DEF ReadsInv, ReadType, Account
<1>5. \A r \in reads : Served(r)'
  BY <1>1, <1>2, <1>3, <1>4 DEF ReadsInv, Served, Q!Current
<1> QED
  BY <1>1, <1>2, <1>3, <1>5 DEF SessionInv, ReadsInv

(* Another memo: what is shown and what is under way are of an earlier one.  *)
LEMMA BecomeKeepsReads ==
  ASSUME SessionInv, ReadsInv, NEW u \in Readers \cup {None}, Q!Become(u)
  PROVE  SessionInv' /\ ReadsInv'
<1>1. PICK new : new = Q!NewRead(owner + 1, sequence + 1)
  OBVIOUS
<1>2. /\ user' = u /\ owner' = owner + 1 /\ sequence' = sequence + 1 /\ UNCHANGED <<state, points>>
      /\ reads' = Q!Aborted \cup (IF u = None THEN {} ELSE {new})
      /\ mount' \in {mount, mount + 1}
  BY <1>1 DEF Q!Become, Q!Doing
<1>3. owner \in Nat /\ sequence \in Nat /\ sequence + 1 \in Nat /\ owner + 1 \in Nat
  BY DEF SessionInv
<1>4. new \in ReadType /\ new.owner = owner + 1 /\ new.rev = sequence + 1 /\ new.card = None
  BY <1>1, <1>3, NewReadTyped
<1>5. SessionInv' /\ state'.owner # owner'
  BY <1>2 DEF SessionInv
<1>6. ASSUME NEW r \in Q!Aborted
      PROVE  r \in ReadType /\ r.owner <= owner' /\ r.rev > 0 /\ r.rev <= sequence' /\ Served(r)'
  <2>1. r.rev \in Nat /\ r.rev > 0 /\ r.rev <= sequence /\ r.owner \in Nat /\ r.owner <= owner /\ r \in ReadType
    BY AbortedReads
  <2>2. r.owner # owner' /\ r.owner <= owner' /\ r.rev <= sequence'
    BY <1>2, <1>3, <2>1
  <2> QED
    BY <1>5, <2>1, <2>2 DEF Served, Q!Current
<1>7. u # None => new.owner <= owner' /\ new.rev > 0 /\ new.rev <= sequence' /\ Served(new)'
  BY <1>2, <1>3, <1>4 DEF Served
<1>8. \A r, s \in reads' : r.rev = s.rev => r = s
  <2>1. \A r \in Q!Aborted : r.rev # new.rev
    BY <1>3, <1>4, AbortedReads
  <2> QED
    BY <1>2, <2>1, AbortedReads
<1> QED
  BY <1>2, <1>4, <1>5, <1>6, <1>7, <1>8 DEF ReadsInv

LEMMA StepKeepsReads ==
  ASSUME SessionInv, ReadsInv, ChangesInv, [Q!Next]_(Q!vars)
  PROVE  SessionInv' /\ ReadsInv'
<1>1. ASSUME NEW r \in reads, Q!ServeRead(r) \/ Q!ReadDone(r) \/ Q!ReadFailed(r)
      PROVE  SessionInv' /\ ReadsInv'
  BY <1>1, ServeKeepsReads, DoneKeepsReads
<1>2. ASSUME NEW c \in changes, Q!Apply(c)
      PROVE  SessionInv' /\ ReadsInv'
  BY <1>2, ApplyKeepsReads
<1>3. ASSUME NEW c \in changes, Q!Answered(c)
      PROVE  SessionInv' /\ ReadsInv'
  <2>1. c.owner = owner /\ Q!Reload /\ UNCHANGED <<user, owner, state, mount, points>>
    BY <1>3 DEF Q!Answered, Q!page
  <2>2. user \in Readers
    BY <2>1 DEF ChangesInv, ChangeType
  <2> QED
    BY <2>1, <2>2, ReloadKeepsReads
<1>4. CASE Q!Retry
  <2>1. Q!Reload /\ UNCHANGED <<user, owner, state, mount, points>> /\ Q!Visible.status = "failed"
    BY <1>4 DEF Q!Retry, Q!Act, Q!Doing, Q!page
  <2>2. user # None
    <3>1. Q!SignedOut.status = "signed-out"
      BY DEF Q!SignedOut, Q!Loading
    <3> QED
      BY <2>1, <3>1 DEF Q!Visible
  <2> QED
    BY <2>1, <2>2, ReloadKeepsReads DEF SessionInv
<1>5. ASSUME NEW u \in Readers \cup {None}, Q!Become(u)
      PROVE  SessionInv' /\ ReadsInv'
  BY <1>5, BecomeKeepsReads
<1>6. CASE UNCHANGED <<user, owner, sequence, mount, points, state, reads>>
  BY <1>6, DropKeepsReads
<1>7. ASSUME NEW c \in changes, Q!LoseAnswer(c) \/ Q!Overtaken(c) \/ Q!Ended(c)
      PROVE  UNCHANGED <<user, owner, sequence, mount, points, state, reads>>
  BY <1>7 DEF Q!LoseAnswer, Q!Overtaken, Q!Ended, Q!hook, Q!page
<1>8. ASSUME NEW p, NEW n, Q!Move(p, n)
      PROVE  UNCHANGED <<user, owner, sequence, mount, points, state, reads>>
  BY <1>8 DEF Q!Move, Q!Act, Q!Doing, Q!hook, Q!page
<1>9. CASE Q!Type \/ Q!ToggleSupport \/ Q!Submit \/ Q!FetchRelated \/ UNCHANGED Q!vars
  BY <1>6, <1>9 DEF Q!Type, Q!ToggleSupport, Q!Submit, Q!FetchRelated, Q!Act, Q!Doing, Q!hook, Q!page, Q!vars
<1> QED
  BY <1>1, <1>2, <1>3, <1>4, <1>5, <1>6, <1>7, <1>8, <1>9 DEF Q!Next, Q!TakeIn

-----------------------------------------------------------------------------
(* The changes and the form.                                                 *)

\* A change keeps who asked for what, however far it has come.
SameChange(d, c) ==
  /\ d \in ChangeType /\ d.kind = c.kind /\ d.by = c.by /\ d.owner = c.owner
  /\ d.text = c.text /\ d.priority = c.priority
  /\ d.step \in {"sent", "applied"} => c.step \in {"sent", "applied"} /\ d.awaits = c.awaits

LEMMA EveryChangeIsOld ==
  ASSUME SessionInv, ChangesInv,
         \/ \E r \in reads : Q!ServeRead(r) \/ Q!ReadDone(r) \/ Q!ReadFailed(r)
         \/ \E c \in changes : Q!Apply(c) \/ Q!Answered(c) \/ Q!Overtaken(c) \/ Q!Ended(c) \/ Q!LoseAnswer(c)
         \/ Q!Type \/ Q!ToggleSupport \/ Q!Retry \/ Q!FetchRelated \/ UNCHANGED Q!vars
         \/ \E u \in Readers \cup {None} : Q!Become(u)
  PROVE  \A d \in changes' : \E c \in changes : SameChange(d, c)
<1>1. \A c \in changes : SameChange(c, c)
  BY DEF SameChange, ChangesInv
<1>2. ASSUME NEW c \in changes, NEW step \in {"applied", "reading", "done", "failed"},
             step = "applied" => c.step = "sent"
      PROVE  SameChange([c EXCEPT !.step = step], c)
  <2>1. c \in ChangeType
    BY DEF ChangesInv
  <2>2. PICK d : d = [c EXCEPT !.step = step]
    OBVIOUS
  <2>3. /\ d \in ChangeType /\ d.kind = c.kind /\ d.by = c.by /\ d.owner = c.owner
        /\ d.text = c.text /\ d.priority = c.priority /\ d.step = step /\ d.awaits = c.awaits
    <3>1. step \in {"sent", "applied", "reading", "done", "failed"}
      BY <1>2
    <3> QED
      BY <2>1, <2>2, <3>1, StepTyped
  <2>4. SameChange(d, c)
    BY <1>2, <2>3 DEF SameChange
  <2> QED
    BY <2>2, <2>4
<1>3. ASSUME NEW r \in reads, Q!ReadDone(r) \/ Q!ReadFailed(r)
      PROVE  \A d \in changes' : \E c \in changes : SameChange(d, c)
  <2>1. changes' = {IF c.awaits = r.rev THEN [c EXCEPT !.step = "done"] ELSE c : c \in changes}
    BY <1>3 DEF Q!ReadDone, Q!ReadFailed
  <2> QED
    BY <1>1, <1>2, <2>1
<1>4. ASSUME NEW c \in changes, Q!Apply(c) \/ Q!Overtaken(c) \/ Q!LoseAnswer(c)
      PROVE  \A d \in changes' : \E e \in changes : SameChange(d, e)
  <2>1. \E step \in {"applied", "reading", "done", "failed"} :
          /\ changes' = (changes \ {c}) \cup {[c EXCEPT !.step = step]}
          /\ step = "applied" => c.step = "sent"
    BY <1>4 DEF Q!Apply, Q!Overtaken, Q!LoseAnswer
  <2> QED
    BY <1>1, <1>2, <2>1
<1>5. ASSUME NEW c \in changes, Q!Answered(c)
      PROVE  \A d \in changes' : \E e \in changes : SameChange(d, e)
  <2>1. PICK d : d = [c EXCEPT !.step = "reading", !.awaits = sequence + 1]
    OBVIOUS
  <2>2. changes' = (changes \ {c}) \cup {d}
    BY <1>5, <2>1 DEF Q!Answered
  <2>3. c \in ChangeType /\ sequence + 1 \in Nat
    BY DEF ChangesInv, SessionInv
  <2>4. SameChange(d, c)
    BY <2>1, <2>3, AwaitsTyped DEF SameChange
  <2> QED
    BY <1>1, <2>2, <2>4
<1>6. ASSUME NEW c \in changes, Q!Ended(c)
      PROVE  changes' \subseteq changes
  BY <1>6 DEF Q!Ended
<1>7. ASSUME NEW r \in reads, Q!ServeRead(r)
      PROVE  changes' = changes
  BY <1>7 DEF Q!ServeRead
<1>8. ASSUME NEW u \in Readers \cup {None}, Q!Become(u)
      PROVE  changes' = changes
  BY <1>8 DEF Q!Become
<1>9. ASSUME Q!Type \/ Q!ToggleSupport \/ Q!Retry \/ Q!FetchRelated \/ UNCHANGED Q!vars
      PROVE  changes' = changes
  BY <1>9 DEF Q!Type, Q!ToggleSupport, Q!Retry, Q!FetchRelated, Q!vars
<1> QED
  BY <1>1, <1>3, <1>4, <1>5, <1>6, <1>7, <1>8, <1>9

(* What a move or a request says when it is made.                            *)
LEMMA MadeTyped ==
  ASSUME SessionInv, user \in Readers, NEW kind \in {"move", "submit"}, NEW p \in Priorities \cup {None},
         NEW n \in Int, NEW text \in PriorityTexts \cup {None}, NEW d, d = Q!Change(kind, p, n, text)
  PROVE  /\ d \in ChangeType /\ d.kind = kind /\ d.owner = owner /\ d.by = user
         /\ d.text = text /\ d.priority = p /\ d.step = "sent" /\ d.awaits = 0
  BY DEF Q!Change, ChangeType, SessionInv

LEMMA VisibleIsTheirs ==
  ASSUME Q!Visible.status = "ok"
  PROVE  user # None /\ state.owner = owner /\ Q!Visible = state
<1>1. Q!SignedOut.status = "signed-out" /\ Q!Loading.status = "loading"
  BY DEF Q!SignedOut, Q!Loading
<1> QED
  BY <1>1 DEF Q!Visible

LEMMA MoveIsMade ==
  ASSUME SessionInv, NEW p \in Priorities, NEW n \in {1, -1}, Q!Move(p, n)
  PROVE  \E d : /\ changes' = changes \cup {d} /\ d \in ChangeType /\ d.kind = "move"
                /\ d.owner = owner /\ d.by = user /\ d.step = "sent" /\ d.awaits = 0
<1>1. PICK d : d = Q!Change("move", p, n, None)
  OBVIOUS
<1>2. changes' = changes \cup {d} /\ user \in Readers
  BY <1>1, VisibleIsTheirs DEF Q!Move, Q!CanMove, SessionInv
<1> QED
  BY <1>1, <1>2, MadeTyped

(* A request names the priority its text is about, or none.                  *)
LEMMA RequestIsMade ==
  ASSUME Q!PrioritySessionAssumption, SessionInv, FormInv, Q!Submit
  PROVE  \E d : /\ changes' = changes \cup {d} /\ d \in ChangeType /\ d.owner = owner /\ d.by = user
                /\ d.text \in PriorityTexts /\ d.priority \in {None, Concerns[d.text]} /\ d.step = "sent" /\ d.awaits = 0
<1>1. user \in Readers /\ form.text \in PriorityTexts
  BY DEF Q!Submit, Q!Act, Q!Doing, SessionInv, FormInv, FormType
<1>2. Q!Best \in {None, Concerns[form.text]} /\ Concerns[form.text] \in Priorities \cup {None}
  BY <1>1 DEF Q!Best, Q!Related, FormInv, Q!PrioritySessionAssumption
<1>3. PICK n \in {0, 1} : changes' = changes \cup {Q!Change("submit", Q!Best, n, form.text)}
  BY DEF Q!Submit
<1>4. PICK d : d = Q!Change("submit", Q!Best, n, form.text)
  OBVIOUS
<1>5. n \in Int /\ form.text \in PriorityTexts \cup {None} /\ Q!Best \in Priorities \cup {None}
  BY <1>1, <1>2
<1>6. /\ d \in ChangeType /\ d.owner = owner /\ d.by = user
      /\ d.text = form.text /\ d.priority \in {None, Concerns[form.text]} /\ d.step = "sent" /\ d.awaits = 0
  <2>1. PICK text, p : text = form.text /\ p = Q!Best
    OBVIOUS
  <2>2. /\ d = Q!Change("submit", p, n, text) /\ "submit" \in {"move", "submit"}
        /\ text \in PriorityTexts \cup {None} /\ p \in Priorities \cup {None}
    BY <1>4, <1>5, <2>1
  <2>3. /\ d \in ChangeType /\ d.owner = owner /\ d.by = user
        /\ d.text = text /\ d.priority = p /\ d.step = "sent" /\ d.awaits = 0
    BY <1>1, <1>5, <2>2, MadeTyped
  <2> QED
    BY <1>2, <2>1, <2>3
<1> QED
  BY <1>1, <1>3, <1>4, <1>6

LEMMA StepKeepsChanges ==
  ASSUME Q!PrioritySessionAssumption, SessionInv, ChangesInv, FormInv, [Q!Next]_(Q!vars)
  PROVE  ChangesInv'
<1>1. ASSUME \A d \in changes' : \E c \in changes : SameChange(d, c),
             UNCHANGED <<user, owner>> \/ (owner' = owner + 1)
      PROVE  ChangesInv'
  <2>1. \A d \in changes' : d \in ChangeType /\ d.owner \in Nat /\ d.owner <= owner
    BY <1>1 DEF SameChange, ChangesInv, ChangeType
  <2>2. \A d \in changes' : /\ d.owner <= owner' /\ (d.owner = owner' => d.by = user')
                            /\ d.step \in {"sent", "applied"} => d.awaits = 0
    BY <1>1, <2>1 DEF SameChange, ChangesInv, SessionInv
  <2> QED
    BY <2>1, <2>2 DEF ChangesInv
<1>2. ASSUME NEW u \in Readers \cup {None}, Q!Become(u)
      PROVE  owner' = owner + 1
  BY <1>2 DEF Q!Become
<1>3. ASSUME ~(\E u \in Readers \cup {None} : Q!Become(u))
      PROVE  UNCHANGED <<user, owner>>
  BY <1>3 DEF Q!Next, Q!TakeIn, Q!ServeRead, Q!ReadDone, Q!ReadFailed, Q!Apply, Q!Answered, Q!Overtaken,
              Q!Ended, Q!LoseAnswer, Q!Move, Q!Type, Q!ToggleSupport, Q!Submit, Q!Retry, Q!FetchRelated,
              Q!hook, Q!vars
<1>4. ASSUME NEW d \in ChangeType, changes' = changes \cup {d}, d.owner = owner, d.by = user,
             d.step \in {"sent", "applied"} => d.awaits = 0, UNCHANGED <<user, owner>>
      PROVE  ChangesInv'
  BY <1>4 DEF ChangesInv, SessionInv
<1>5. ASSUME NEW p \in Priorities, NEW n \in {1, -1}, Q!Move(p, n)
      PROVE  ChangesInv'
  BY <1>4, <1>5, MoveIsMade DEF Q!Move, Q!hook
<1>6. CASE Q!Submit
  BY <1>4, <1>6, RequestIsMade DEF Q!Submit, Q!hook
<1> QED
  BY <1>1, <1>2, <1>3, <1>5, <1>6, EveryChangeIsOld DEF Q!Next, Q!TakeIn

\* What happens to the form: its reading of the text goes with the text.
LEMMA FormKeeps ==
  ASSUME Q!PrioritySessionAssumption, FormInv, [Q!Next]_(Q!vars)
  PROVE  form' \in FormType /\ (form'.matches # None /\ form'.text # None => form'.matches = Concerns[form'.text])
<1> DEFINE Sound(f) == f \in FormType /\ (f.matches # None /\ f.text # None => f.matches = Concerns[f.text])
<1>1. Sound(form)
  BY DEF FormInv
<1>2. ASSUME NEW text \in PriorityTexts, form' = [form EXCEPT !.text = text, !.matches = None, !.looks = {text}]
      PROVE  Sound(form')
  <2>1. PICK f : f = [form EXCEPT !.text = text]
    OBVIOUS
  <2>2. f \in FormType
    BY <2>1 DEF FormInv, FormType
  <2>3. PICK g : g = [f EXCEPT !.matches = None]
    OBVIOUS
  <2>4. g \in FormType /\ g.matches = None
    BY <2>2, <2>3 DEF FormType
  <2>5. form' = [g EXCEPT !.looks = {text}]
    BY <1>2, <2>1, <2>3
  <2> QED
    BY <2>4, <2>5 DEF FormType
<1>3. CASE Q!Type
  BY <1>2, <1>3 DEF Q!Type
<1>4. CASE Q!FetchRelated
  <2>1. form.text \in PriorityTexts /\ Concerns[form.text] \in Priorities \cup {None}
    BY <1>4 DEF Q!FetchRelated, FormInv, FormType, Q!PrioritySessionAssumption
  <2>2. PICK f : f = [form EXCEPT !.looks = {}]
    OBVIOUS
  <2>3. f \in FormType /\ f.text = form.text
    BY <2>2 DEF FormInv, FormType
  <2>4. form' = [f EXCEPT !.matches = Concerns[form.text]]
    BY <1>4, <2>2 DEF Q!FetchRelated
  <2> QED
    BY <2>1, <2>3, <2>4 DEF FormType
<1>5. CASE Q!ToggleSupport
  BY <1>5 DEF Q!ToggleSupport, FormInv, FormType
<1>6. CASE Q!Submit
  BY <1>6 DEF Q!Submit, FormInv, FormType
<1>7. ASSUME NEW c \in changes, Q!Ended(c)
      PROVE  Sound(form')
  <2>1. CASE form' = form
    BY <1>1, <2>1
  <2>2. ASSUME NEW text \in {None, form.text}, form' = [form EXCEPT !.busy = FALSE, !.text = text]
        PROVE  Sound(form')
    <3>1. PICK f : f = [form EXCEPT !.busy = FALSE]
      OBVIOUS
    <3>2. f \in FormType /\ f.text = form.text /\ f.matches = form.matches
      BY <3>1 DEF FormInv, FormType
    <3>3. form' = [f EXCEPT !.text = text]
      BY <2>2, <3>1
    <3>4. form' \in FormType /\ form'.text = text /\ form'.matches = form.matches
      BY <3>2, <3>3 DEF FormType
    <3> QED
      BY <3>4 DEF FormInv
  <2>3. \/ form' = form
        \/ form' = [form EXCEPT !.busy = FALSE, !.text = None]
        \/ form' = [form EXCEPT !.busy = FALSE, !.text = form.text]
    BY <1>7 DEF Q!Ended
  <2> QED
    BY <2>1, <2>2, <2>3
<1>8. ASSUME NEW u \in Readers \cup {None}, Q!Become(u)
      PROVE  Sound(form')
  <2>1. form' = form \/ form' = Q!EmptyForm
    BY <1>8 DEF Q!Become
  <2>2. Sound(Q!EmptyForm)
    <3>1. Q!EmptyForm \in FormType
      BY DEF Q!EmptyForm, FormType
    <3>2. Q!EmptyForm.text = None
      BY DEF Q!EmptyForm
    <3> QED
      BY <3>1, <3>2
  <2> HIDE DEF Sound
  <2> QED
    BY <1>1, <2>1, <2>2
<1>9. ASSUME ~Q!Type, ~Q!FetchRelated, ~Q!ToggleSupport, ~Q!Submit,
             ~(\E c \in changes : Q!Ended(c)), ~(\E u \in Readers \cup {None} : Q!Become(u))
      PROVE  form' = form
  BY <1>9 DEF Q!Next, Q!TakeIn, Q!ServeRead, Q!ReadDone, Q!ReadFailed, Q!Apply, Q!Answered, Q!Overtaken,
              Q!LoseAnswer, Q!Move, Q!Retry, Q!vars
<1> QED
  BY <1>1, <1>3, <1>4, <1>5, <1>6, <1>7, <1>8, <1>9

LEMMA StepKeepsForm ==
  ASSUME Q!PrioritySessionAssumption, SessionInv, ChangesInv, FormInv, [Q!Next]_(Q!vars)
  PROVE  FormInv'
<1>1. \A d \in changes' : d.kind = "submit" => d.text \in PriorityTexts /\ d.priority \in {None, Concerns[d.text]}
  <2>1. ASSUME \A d \in changes' : \E c \in changes : SameChange(d, c)
        PROVE  \A d \in changes' : d.kind = "submit" => d.text \in PriorityTexts /\ d.priority \in {None, Concerns[d.text]}
    BY <2>1 DEF SameChange, FormInv
  <2>2. ASSUME NEW p \in Priorities, NEW n \in {1, -1}, Q!Move(p, n)
        PROVE  \A d \in changes' : d.kind = "submit" => d.text \in PriorityTexts /\ d.priority \in {None, Concerns[d.text]}
    BY <2>2, MoveIsMade DEF FormInv
  <2>3. CASE Q!Submit
    BY <2>3, RequestIsMade DEF FormInv
  <2> QED
    BY <2>1, <2>2, <2>3, EveryChangeIsOld DEF Q!Next, Q!TakeIn
<1>2. Q!RequestsReadAsTheirText'
  <2>1. ASSUME NEW c \in changes, Q!Apply(c)
        PROVE  \A q \in requests' : q[2] \in {None, Concerns[q[1]]}
    <3>1. requests' = requests \/ (c.kind = "submit" /\ requests' = requests \cup {<<c.text, c.priority>>})
      BY <2>1 DEF Q!Apply
    <3> QED
      BY <3>1 DEF FormInv, Q!RequestsReadAsTheirText
  <2>2. ASSUME ~(\E c \in changes : Q!Apply(c))
        PROVE  requests' = requests
    BY <2>2 DEF Q!Next, Q!TakeIn, Q!ServeRead, Q!ReadDone, Q!ReadFailed, Q!Answered, Q!Overtaken, Q!Ended,
                Q!LoseAnswer, Q!Move, Q!Type, Q!ToggleSupport, Q!Submit, Q!Retry, Q!FetchRelated, Q!Become,
                Q!Act, Q!Doing, Q!vars
  <2> QED
    BY <2>1, <2>2 DEF FormInv, Q!RequestsReadAsTheirText
<1> QED
  BY <1>1, <1>2, FormKeeps DEF FormInv

-----------------------------------------------------------------------------
(* What is on screen.                                                        *)

LEMMA InitPriorities ==
  ASSUME Q!PrioritySessionAssumption, Q!Init
  PROVE  PrioritiesInv
<1>1. Q!NothingPut \in [Priorities -> Int]
  BY DEF Q!NothingPut
<1>2. PICK new : new = Q!NewRead(1, 1)
  OBVIOUS
<1>3. /\ reads = {new} /\ new \in ReadType /\ new.owner = 1 /\ new.rev = 1 /\ new.card = None
  <2>1. 1 \in Nat
    OBVIOUS
  <2>2. new \in ReadType /\ new.owner = 1 /\ new.rev = 1 /\ new.card = None
    BY <1>2, <2>1, NewReadTyped, Zenon
  <2> QED
    BY <1>2, <2>2 DEF Q!Init
<1>4. SessionInv
  <2>1. [put |-> Q!NothingPut, at |-> 0] \in Account
    BY <1>1 DEF Account
  <2>2. points \in [Readers -> Account]
    BY <2>1 DEF Q!Init
  <2>3. state.owner = 0 /\ state.at = 0 /\ owner = 1 /\ sequence = 1 /\ mount = 1 /\ user \in Readers
    BY DEF Q!Init
  <2> QED
    BY <2>2, <2>3 DEF SessionInv
<1>5. ReadsInv
  <2>1. state.owner = 0 /\ owner = 1 /\ sequence = 1 /\ user \in Readers
    BY DEF Q!Init
  <2> QED
    BY <1>3, <2>1 DEF ReadsInv, Served
<1>6. ChangesInv
  BY DEF Q!Init, ChangesInv
<1>7. FormInv
  <2>1. Q!EmptyForm \in FormType /\ Q!EmptyForm.matches = None
    BY DEF Q!EmptyForm, FormType
  <2> QED
    BY <2>1 DEF Q!Init, FormInv, Q!RequestsReadAsTheirText
<1> QED
  BY <1>4, <1>5, <1>6, <1>7 DEF PrioritiesInv

LEMMA StepKeepsPriorities ==
  ASSUME Q!PrioritySessionAssumption, PrioritiesInv, [Q!Next]_(Q!vars)
  PROVE  PrioritiesInv'
  BY StepKeepsReads, StepKeepsChanges, StepKeepsForm DEF PrioritiesInv

LEMMA VisibleIsTheirsNext ==
  ASSUME Q!Visible'.status = "ok"
  PROVE  user' # None /\ state'.owner = owner' /\ Q!Visible' = state'
<1>1. Q!SignedOut'.status = "signed-out" /\ Q!Loading'.status = "loading"
  BY DEF Q!SignedOut, Q!Loading
<1> QED
  BY <1>1 DEF Q!Visible

(* Only the read that may publish changes what is on screen for its reader.  *)
LEMMA StepNeverGoesBack ==
  ASSUME PrioritiesInv, PrioritiesInv', [Q!Next]_(Q!vars)
  PROVE  Q!BalanceNeverGoesBack
<1> SUFFICES ASSUME Q!Visible.status = "ok", Q!Visible'.status = "ok", user' = user
             PROVE  Q!Visible'.at >= Q!Visible.at
  BY DEF Q!BalanceNeverGoesBack
<1>1. state.owner = owner /\ state'.owner = owner' /\ Q!Visible = state /\ Q!Visible' = state'
  BY VisibleIsTheirs, VisibleIsTheirsNext
<1>2. CASE state' = state
  BY <1>1, <1>2 DEF PrioritiesInv, SessionInv
<1>3. ASSUME NEW r \in reads, Q!ReadDone(r), state' # state
      PROVE  state'.at >= state.at
  <2>1. Q!Current(r) /\ r.card # None
    BY <1>3 DEF Q!ReadDone
  <2>2. state' = [owner |-> owner, status |-> "ok", list |-> r.list.put, card |-> r.card.put, at |-> r.card.at]
    BY <1>3 DEF Q!ReadDone
  <2>3. state'.at = r.card.at /\ state.at <= r.card.at
    BY <1>1, <2>1, <2>2 DEF PrioritiesInv, ReadsInv, Served
  <2> QED
    BY <2>3 DEF PrioritiesInv, SessionInv
<1>4. ASSUME NEW r \in reads, Q!ReadFailed(r), state' # state
      PROVE  FALSE
  <2>1. state' = [Q!Loading EXCEPT !.status = "failed"]
    BY <1>4 DEF Q!ReadFailed
  <2>2. state'.status = "failed"
    BY <2>1 DEF Q!Loading
  <2> QED
    BY <1>1, <2>2
<1>5. ASSUME ~(\E r \in reads : Q!ReadDone(r) \/ Q!ReadFailed(r))
      PROVE  state' = state
  BY <1>5 DEF Q!Next, Q!TakeIn, Q!ServeRead, Q!Apply, Q!Answered, Q!Overtaken, Q!Ended, Q!LoseAnswer,
              Q!Move, Q!Type, Q!ToggleSupport, Q!Submit, Q!Retry, Q!FetchRelated, Q!Become, Q!hook, Q!vars
<1> QED
  BY <1>1, <1>2, <1>3, <1>4, <1>5

-----------------------------------------------------------------------------
(* While no answer was lost or dropped, what is on screen is the ledger's,   *)
(* or a read will bring it that is, or a change that moved the ledger has    *)
(* yet to ask for that read.                                                 *)

Told == state.owner = owner /\ state.list = points[user].put /\ state.card = points[user].put
Fresh(r) == r.list \in {None, points[user]} /\ r.card \in {None, points[user]}

TellsWhatIs ==
  /\ \A r \in reads : Q!Current(r) => Fresh(r)
  /\ (\E r \in reads : Q!Current(r)) \/ Told

ToldInv ==
  /\ faults \in Nat
  /\ faults = 0 /\ ~dropped =>
       /\ \A c \in changes : c.owner = owner
       /\ user # None /\ (\A c \in changes : c.step # "applied") => TellsWhatIs

LEMMA ReloadTells ==
  ASSUME SessionInv, ReadsInv, Q!Reload, UNCHANGED <<user, owner, points>>
  PROVE  (\A r \in reads' : Q!Current(r)' => Fresh(r)') /\ (\E r \in reads' : Q!Current(r)')
<1>1. PICK new : new = Q!NewRead(owner, sequence + 1)
  OBVIOUS
<1>2. owner \in Nat /\ sequence \in Nat /\ sequence + 1 \in Nat
  BY DEF SessionInv
<1>3. sequence' = sequence + 1 /\ reads' = Q!Aborted \cup {new}
  BY <1>1 DEF Q!Reload
<1>4. /\ new.owner = owner /\ new.rev = sequence + 1 /\ new.live
      /\ new.list = None /\ new.card = None
  BY <1>1, <1>2, NewReadTyped
<1>5. \A r \in Q!Aborted : ~Q!Current(r)'
  <2>1. \A r \in Q!Aborted : r.rev \in Nat /\ r.rev <= sequence
    BY AbortedReads
  <2> QED
    BY <1>2, <1>3, <2>1 DEF Q!Current
<1>6. Q!Current(new)' /\ Fresh(new)'
  BY <1>3, <1>4 DEF Q!Current, Fresh
<1> QED
  BY <1>3, <1>5, <1>6

\* A change may come, go or fail, as long as it does not hide a moved ledger.
LEMMA StillTold ==
  ASSUME ToldInv, faults' = 0, ~dropped', faults = 0, ~dropped,
         UNCHANGED <<user, owner, sequence, state, reads, points>>,
         \A d \in changes' : d.owner = owner,
         (\E c \in changes : c.step = "applied") => (\E d \in changes' : d.step = "applied")
  PROVE  ToldInv'
<1>1. TellsWhatIs => TellsWhatIs'
  BY DEF TellsWhatIs, Told, Fresh, Q!Current
<1> QED
  BY <1>1 DEF ToldInv

LEMMA FaultsOnlyGrow ==
  ASSUME ToldInv, [Q!Next]_(Q!vars)
  PROVE  /\ faults' \in Nat
         /\ faults' = 0 => /\ faults = 0 /\ ~(\E r \in reads : Q!ReadFailed(r))
                          /\ ~(\E c \in changes : Q!LoseAnswer(c))
         /\ ~dropped' => ~dropped /\ ((\E u \in Readers \cup {None} : Q!Become(u)) => changes = {})
<1>1. ASSUME NEW r \in reads, Q!ReadFailed(r)
      PROVE  faults' = faults + 1 /\ dropped' = dropped
  BY <1>1 DEF Q!ReadFailed, Q!page
<1>2. ASSUME NEW c \in changes, Q!LoseAnswer(c)
      PROVE  faults' = faults + 1 /\ dropped' = dropped
  BY <1>2 DEF Q!LoseAnswer, Q!page
<1>3. ASSUME NEW u \in Readers \cup {None}, Q!Become(u)
      PROVE  dropped' = (dropped \/ changes # {}) /\ faults' = faults
  BY <1>3 DEF Q!Become, Q!Doing
<1>4. ASSUME ~(\E r \in reads : Q!ReadFailed(r)), ~(\E c \in changes : Q!LoseAnswer(c)),
             ~(\E u \in Readers \cup {None} : Q!Become(u))
      PROVE  UNCHANGED <<faults, dropped>>
  BY <1>4 DEF Q!Next, Q!TakeIn, Q!ServeRead, Q!ReadDone, Q!Apply, Q!Answered, Q!Overtaken, Q!Ended,
              Q!Move, Q!Type, Q!ToggleSupport, Q!Submit, Q!Retry, Q!FetchRelated, Q!Act, Q!Doing, Q!page, Q!vars
<1>5. faults \in Nat
  BY DEF ToldInv
<1>6. faults + 1 # 0 /\ faults + 1 \in Nat
  BY <1>5
<1>7. CASE \E r \in reads : Q!ReadFailed(r)
  <2>1. faults' = faults + 1
    BY <1>1, <1>7
  <2>2. ~(\E u \in Readers \cup {None} : Q!Become(u))
    BY <1>3, <1>5, <2>1
  <2> QED
    BY <1>1, <1>6, <1>7, <2>1, <2>2
<1>8. CASE \E c \in changes : Q!LoseAnswer(c)
  <2>1. faults' = faults + 1
    BY <1>2, <1>8
  <2>2. ~(\E u \in Readers \cup {None} : Q!Become(u))
    BY <1>3, <1>5, <2>1
  <2> QED
    BY <1>2, <1>6, <1>8, <2>1, <2>2
<1>9. CASE \E u \in Readers \cup {None} : Q!Become(u)
  BY <1>3, <1>5, <1>7, <1>8, <1>9
<1> QED
  BY <1>4, <1>5, <1>7, <1>8, <1>9

LEMMA StepKeepsTold ==
  ASSUME Q!PrioritySessionAssumption, PrioritiesInv, PrioritiesInv', ToldInv, [Q!Next]_(Q!vars)
  PROVE  ToldInv'
<1> SUFFICES ASSUME faults' = 0, ~dropped'
             PROVE  ToldInv'
  BY FaultsOnlyGrow DEF ToldInv
<1>1. faults = 0 /\ ~dropped /\ faults' \in Nat
  BY FaultsOnlyGrow
<1>2. SessionInv /\ ReadsInv /\ ChangesInv /\ FormInv /\ SessionInv' /\ ReadsInv'
  BY DEF PrioritiesInv
<1>3. \A c \in changes : c.owner = owner
  BY <1>1 DEF ToldInv
<1>4. user # None /\ (\A c \in changes : c.step # "applied") => TellsWhatIs
  BY <1>1 DEF ToldInv
<1>5. ASSUME NEW r \in reads, Q!ServeRead(r)
      PROVE  ToldInv'
  <2>1. PICK new : /\ reads' = (reads \ {r}) \cup {new}
                   /\ new = [r EXCEPT !.list = points[user]] \/ new = [r EXCEPT !.card = points[user]]
    BY <1>5 DEF Q!ServeRead
  <2>2. UNCHANGED <<user, owner, sequence, state, points, changes>>
    BY <1>5 DEF Q!ServeRead, Q!hook
  <2>3. r \in ReadType /\ points[user] \in Account
    BY <1>2, <1>5 DEF ReadsInv, SessionInv, Q!ServeRead
  <2>4. /\ new.owner = r.owner /\ new.rev = r.rev /\ new.live = r.live
        /\ new.list \in {r.list, points[user]} /\ new.card \in {r.card, points[user]}
    BY <2>1, <2>3, ServedTyped
  <2>5. TellsWhatIs => TellsWhatIs'
    BY <2>1, <2>2, <2>4 DEF TellsWhatIs, Told, Fresh, Q!Current
  <2> QED
    BY <1>1, <1>3, <1>4, <2>2, <2>5 DEF ToldInv
<1>6. ASSUME NEW r \in reads, Q!ReadDone(r)
      PROVE  ToldInv'
  <2>1. /\ reads' = reads \ {r} /\ UNCHANGED <<user, owner, sequence, points>>
        /\ r.list # None /\ r.card # None
        /\ changes' = {IF c.awaits = r.rev THEN [c EXCEPT !.step = "done"] ELSE c : c \in changes}
    BY <1>6 DEF Q!ReadDone
  <2>2. \A c \in changes : c.step = "applied" => c.awaits # r.rev
    BY <1>2 DEF ChangesInv, ReadsInv
  <2>3. \A c \in changes : [c EXCEPT !.step = "done"].owner = c.owner
    BY <1>2, StepTyped DEF ChangesInv
  <2>4. \A d \in changes' : d.owner = owner'
    BY <1>3, <2>1, <2>3
  <2>5. (\E c \in changes : c.step = "applied") => (\E d \in changes' : d.step = "applied")
    BY <2>1, <2>2
  <2>6. CASE ~Q!Current(r)
    <3>1. state' = state
      BY <1>6, <2>6 DEF Q!ReadDone
    <3>2. TellsWhatIs => TellsWhatIs'
      BY <2>1, <2>6, <3>1 DEF TellsWhatIs, Told, Fresh, Q!Current
    <3> QED
      BY <1>1, <1>4, <2>1, <2>4, <2>5, <3>2 DEF ToldInv
  <2>7. CASE Q!Current(r)
    <3>1. state' = [owner |-> owner, status |-> "ok", list |-> r.list.put, card |-> r.card.put, at |-> r.card.at]
      BY <1>6, <2>7 DEF Q!ReadDone
    <3>2. state'.owner = owner /\ state'.list = r.list.put /\ state'.card = r.card.put
      BY <3>1
    <3>3. \A s \in reads' : ~Q!Current(s)'
      BY <1>2, <2>1, <2>7 DEF ReadsInv, Q!Current
    <3>4. TellsWhatIs => Told'
      BY <2>1, <2>7, <3>2 DEF TellsWhatIs, Told, Fresh
    <3> QED
      BY <1>1, <1>4, <2>1, <2>4, <2>5, <3>3, <3>4 DEF ToldInv, TellsWhatIs
  <2> QED
    BY <2>6, <2>7
<1>7. ASSUME NEW c \in changes, NEW step, changes' = (changes \ {c}) \cup {[c EXCEPT !.step = step]},
             step \in {"applied", "done", "failed"}, c.step # "applied",
             UNCHANGED <<user, owner, sequence, state, reads>>, points' = points \/ step = "applied"
      PROVE  ToldInv'
  <2>1. c \in ChangeType
    BY <1>2 DEF ChangesInv
  <2>2. [c EXCEPT !.step = step].owner = c.owner /\ [c EXCEPT !.step = step].step = step
    BY <1>7, <2>1, StepTyped
  <2>3. (\E e \in changes : e.step = "applied") => (\E d \in changes' : d.step = "applied")
    BY <1>7
  <2>4. \A d \in changes' : d.owner = owner
    BY <1>3, <1>7, <2>2
  <2>5. CASE points' = points
    BY <1>1, <1>7, <2>3, <2>4, <2>5, StillTold
  <2>6. CASE step = "applied"
    BY <1>1, <1>7, <2>2, <2>4, <2>6 DEF ToldInv
  <2> QED
    BY <1>7, <2>5, <2>6
<1>8. ASSUME NEW c \in changes, Q!Apply(c)
      PROVE  ToldInv'
  <2>1. c.step = "sent" /\ UNCHANGED <<user, owner, sequence, state, reads>>
    BY <1>8 DEF Q!Apply, Q!hook
  <2>2. \/ changes' = (changes \ {c}) \cup {[c EXCEPT !.step = "applied"]}
        \/ changes' = (changes \ {c}) \cup {[c EXCEPT !.step = "failed"]} /\ points' = points
    BY <1>8 DEF Q!Apply
  <2> QED
    BY <1>7, <2>1, <2>2
<1>9. ASSUME NEW c \in changes, Q!Overtaken(c)
      PROVE  ToldInv'
  BY <1>7, <1>9 DEF Q!Overtaken, Q!hook
<1>10. ASSUME NEW c \in changes, Q!Ended(c)
       PROVE  ToldInv'
  <2>1. /\ changes' = changes \ {c} /\ c.step # "applied"
        /\ UNCHANGED <<user, owner, sequence, state, reads, points>>
    BY <1>3, <1>10 DEF Q!Ended, Q!hook
  <2> QED
    BY <1>1, <1>3, <2>1, StillTold
<1>11. ASSUME NEW d, changes' = changes \cup {d}, d.owner = owner,
              UNCHANGED <<user, owner, sequence, state, reads, points>>
       PROVE  ToldInv'
  BY <1>1, <1>3, <1>11, StillTold
<1>12. ASSUME NEW p \in Priorities, NEW n \in {1, -1}, Q!Move(p, n)
       PROVE  ToldInv'
  <2>1. UNCHANGED <<user, owner, sequence, state, reads, points>>
    BY <1>12 DEF Q!Move, Q!Act, Q!Doing, Q!hook
  <2> QED
    BY <1>2, <1>11, <1>12, <2>1, MoveIsMade
<1>13. CASE Q!Submit
  <2>1. UNCHANGED <<user, owner, sequence, state, reads, points>>
    BY <1>13 DEF Q!Submit, Q!Act, Q!Doing, Q!hook
  <2> QED
    BY <1>2, <1>11, <1>13, <2>1, RequestIsMade
<1>14. ASSUME Q!Reload, UNCHANGED <<user, owner, points>>, \A d \in changes' : d.owner = owner
       PROVE  ToldInv'
  BY <1>1, <1>2, <1>14, ReloadTells DEF ToldInv, TellsWhatIs
<1>15. ASSUME NEW c \in changes, Q!Answered(c)
       PROVE  ToldInv'
  <2>1. PICK d : d = [c EXCEPT !.step = "reading", !.awaits = sequence + 1]
    OBVIOUS
  <2>2. c \in ChangeType /\ sequence + 1 \in Nat
    BY <1>2 DEF ChangesInv, SessionInv
  <2>3. d.owner = c.owner
    BY <2>1, <2>2, AwaitsTyped
  <2>4. Q!Reload /\ UNCHANGED <<user, owner, points>> /\ changes' = (changes \ {c}) \cup {d}
    BY <1>15, <2>1 DEF Q!Answered
  <2> QED
    BY <1>3, <1>14, <2>3, <2>4
<1>16. CASE Q!Retry
  <2>1. Q!Reload /\ UNCHANGED <<user, owner, points, changes>>
    BY <1>16 DEF Q!Retry, Q!Act, Q!Doing
  <2> QED
    BY <1>3, <1>14, <2>1
<1>17. ASSUME NEW u \in Readers \cup {None}, Q!Become(u)
       PROVE  ToldInv'
  <2>1. PICK new : new = Q!NewRead(owner + 1, sequence + 1)
    OBVIOUS
  <2>2. owner \in Nat /\ sequence \in Nat /\ owner + 1 \in Nat /\ sequence + 1 \in Nat
    BY <1>2 DEF SessionInv
  <2>3. /\ user' = u /\ owner' = owner + 1 /\ sequence' = sequence + 1 /\ changes' = changes
        /\ reads' = Q!Aborted \cup (IF u = None THEN {} ELSE {new})
    BY <1>17, <2>1 DEF Q!Become
  <2>4. /\ new.owner = owner + 1 /\ new.rev = sequence + 1 /\ new.live
        /\ new.list = None /\ new.card = None
    BY <2>1, <2>2, NewReadTyped
  <2>5. changes' = {}
    BY <1>17, <2>3, FaultsOnlyGrow
  <2>6. \A r \in Q!Aborted : r.rev \in Nat /\ r.rev <= sequence
    BY <1>2, AbortedReads
  <2>7. \A r \in Q!Aborted : ~Q!Current(r)'
    BY <2>2, <2>3, <2>6 DEF Q!Current
  <2>8. Q!Current(new)' /\ Fresh(new)'
    BY <2>3, <2>4 DEF Q!Current, Fresh
  <2>9. user' # None => TellsWhatIs'
    BY <2>3, <2>7, <2>8 DEF TellsWhatIs
  <2> QED
    BY <1>1, <2>5, <2>9 DEF ToldInv
<1>18. CASE Q!Type \/ Q!ToggleSupport \/ Q!FetchRelated \/ UNCHANGED Q!vars
  <2>1. UNCHANGED <<user, owner, sequence, state, reads, points, changes>>
    BY <1>18 DEF Q!Type, Q!ToggleSupport, Q!FetchRelated, Q!Act, Q!Doing, Q!hook, Q!vars
  <2> QED
    BY <1>1, <1>3, <2>1, StillTold
<1> QED
  BY <1>5, <1>6, <1>8, <1>9, <1>10, <1>12, <1>13, <1>15, <1>16, <1>17, <1>18, FaultsOnlyGrow
  DEF Q!Next, Q!TakeIn

LEMMA InitTold ==
  ASSUME Q!Init
  PROVE  ToldInv
<1>1. PICK new : new = Q!NewRead(1, 1)
  OBVIOUS
<1>2. new.owner = 1 /\ new.rev = 1 /\ new.live /\ new.list = None /\ new.card = None
  <2>1. 1 \in Nat
    OBVIOUS
  <2> QED
    BY <1>1, <2>1, NewReadTyped, Zenon
<1>3. reads = {new} /\ owner = 1 /\ sequence = 1 /\ changes = {} /\ faults = 0
  BY <1>1 DEF Q!Init
<1> QED
  BY <1>2, <1>3 DEF ToldInv, TellsWhatIs, Fresh, Q!Current

(* Whatever is answered, lost, overtaken or handed to another reader in any  *)
(* order: a request is never kept beside a priority another text is about,   *)
(* and, once every call has come back, what is on screen is the ledger's     *)
(* (pressPriorities.js, CedarPressPriorities.jsx).                           *)
THEOREM PrioritiesAreTheirs ==
  ASSUME Q!PrioritySessionAssumption
  PROVE  Q!Spec => [](Q!RequestsReadAsTheirText /\ Q!QuietIsCurrent)
<1>1. Q!Init => PrioritiesInv /\ ToldInv
  BY InitPriorities, InitTold
<1>2. PrioritiesInv /\ ToldInv /\ [Q!Next]_(Q!vars) => (PrioritiesInv /\ ToldInv)'
  BY StepKeepsPriorities, StepKeepsTold
<1>3. PrioritiesInv /\ ToldInv => Q!RequestsReadAsTheirText /\ Q!QuietIsCurrent
  <2> SUFFICES ASSUME PrioritiesInv, ToldInv
               PROVE  Q!RequestsReadAsTheirText /\ Q!QuietIsCurrent
    OBVIOUS
  <2>1. Q!RequestsReadAsTheirText
    BY DEF PrioritiesInv, FormInv
  <2>2. ASSUME reads = {}, changes = {}, faults = 0, ~dropped, Q!CanMove
        PROVE  Q!Visible.list = points[user].put /\ Q!Visible.card = points[user].put
    BY <2>2, VisibleIsTheirs DEF ToldInv, TellsWhatIs, Told, Q!CanMove
  <2> QED
    BY <2>1, <2>2 DEF Q!QuietIsCurrent
<1> QED
  BY <1>1, <1>2, <1>3, PTL DEF Q!Spec

(* However out of order the reads are answered, no reader sees a balance     *)
(* older than one that was on screen before (createPrioritySession).         *)
THEOREM BalancesOnlyAdvance ==
  ASSUME Q!PrioritySessionAssumption
  PROVE  Q!Spec => [][Q!BalanceNeverGoesBack]_(Q!vars)
<1>1. Q!Init => PrioritiesInv
  BY InitPriorities
<1>2. PrioritiesInv /\ [Q!Next]_(Q!vars) => PrioritiesInv'
  BY StepKeepsPriorities
<1>3. PrioritiesInv /\ PrioritiesInv' /\ [Q!Next]_(Q!vars) => [Q!BalanceNeverGoesBack]_(Q!vars)
  BY StepNeverGoesBack
<1> QED
  BY <1>1, <1>2, <1>3, PTL DEF Q!Spec

-----------------------------------------------------------------------------
(* The settings cards: one at rest shows what the service holds.             *)

Answers == S!WorkKinds \cup {None}
Values == Answers \cup Names \cup {"typed"}
CardType == [saved : Values, draft : Values, busy : BOOLEAN, error : BOOLEAN, done : BOOLEAN,
             loaded : BOOLEAN]
CallType == [card : S!Cards, op : {"load", "save"}, value : Values, answer : {"none", "ok", "failed"}]

(* A card that waits is the only one with a save on the wire, and unless it  *)
(* was saved under its load, no call can change what another one brings.     *)
WireInv ==
  /\ \A c \in wire : /\ c.op = "load" => c.card \in S!Loaders
                     /\ c.op = "save" => card[c.card].busy
                     /\ c.op = "save" /\ c.card = "work" /\ c.answer = "none" => c.value \in Answers
                     /\ c.answer = "failed" => faults > 0
  /\ \A c, d \in wire : c.card = d.card /\ c.op = d.op => c = d
  /\ ~raced => \A c, d \in wire : c.card = d.card => c = d
  /\ ~raced => \A c \in wire : c.answer = "ok" => c.value = stored[c.card]

CardsInv ==
  /\ card \in [S!Cards -> CardType] /\ wire \in SUBSET CallType
  /\ stored \in [S!Cards -> Values] /\ stored["work"] \in Answers
  /\ raced \in BOOLEAN /\ faults \in Nat
  /\ WireInv
  /\ ~raced /\ faults = 0 =>
       \A k \in S!Loaders : card[k].loaded /\ ~card[k].busy => card[k].saved = stored[k]

-----------------------------------------------------------------------------
(* Lists of options.  Every set of numbers that is not empty has a least     *)
(* element, and what is put into a list is all that it gains.                *)

LEMMA Smallest ==
  ASSUME NEW T \in SUBSET Nat, T # {}
  PROVE  \E n \in T : \A m \in T : n <= m
<1> DEFINE below == {0..n : n \in T}
<1>1. \A n \in Nat : IsFiniteSet(0..n)
  BY FS_Interval
<1>2. below \subseteq FiniteSubsetsOf(Nat)
  BY <1>1, SMT DEF FiniteSubsetsOf
<1>3. below # {}
  OBVIOUS
<1>4. IsWellFoundedOn(StrictSubsetOrdering(Nat), FiniteSubsetsOf(Nat))
  BY FS_StrictSubsetOrderingWellFounded
<1> HIDE DEF below
<1>5. PICK places \in below : \A others \in below : ~(<<others, places>> \in StrictSubsetOrdering(Nat))
  BY <1>2, <1>3, <1>4, WFMin
<1>6. PICK n \in T : places = 0..n
  BY <1>5 DEF below
<1>7. ASSUME NEW m \in T, m < n PROVE FALSE
  <2>1. 0..m \in below
    BY DEF below
  <2>2. <<0..m, 0..n>> \in StrictSubsetOrdering(Nat)
    BY <1>7 DEF StrictSubsetOrdering
  <2> QED
    BY <2>1, <2>2, <1>5, <1>6
<1> QED
  BY <1>6, <1>7

LEMMA InsertedAt ==
  ASSUME NEW X, NEW s \in Seq(X), NEW i \in Nat, i <= Len(s), NEW e
  PROVE  S!Range(S!InsertAt(s, i + 1, e)) = S!Range(s) \cup {e}
<1> DEFINE front == SubSeq(s, 1, i)
           back == SubSeq(s, i + 1, Len(s))
<1>1. Len(s) \in Nat /\ DOMAIN s = 1..Len(s) /\ \A j \in 1..Len(s) : s[j] \in X
  OBVIOUS
<1>2. /\ front \in Seq(X) /\ Len(front) = i /\ \A j \in 1..i : front[j] = s[j]
  BY <1>1
<1>3. /\ back \in Seq(X) /\ Len(back) = Len(s) - i
      /\ \A j \in 1..Len(s) - i : back[j] = s[i + j]
  <2>1. i + 1 \in 1..Len(s) + 1 /\ Len(s) \in i + 1 - 1..Len(s)
    BY <1>1
  <2>2. back = [j \in 1..Len(s) - i |-> s[i + j]]
    BY <1>1
  <2>3. back \in [1..Len(s) - i -> X]
    <3>1. \A j \in 1..Len(s) - i : i + j \in 1..Len(s)
      BY <1>1
    <3>2. \A j \in 1..Len(s) - i : s[i + j] \in X
      BY <1>1, <3>1
    <3> HIDE DEF back
    <3> QED
      BY <2>2, <3>2
  <2>4. Len(s) - i \in Nat
    BY <1>1
  <2> QED
    BY <2>2, <2>3, <2>4, SeqDef
<1>4. <<e>> \in Seq(X \cup {e}) /\ front \in Seq(X \cup {e}) /\ back \in Seq(X \cup {e})
  BY <1>2, <1>3
<1> DEFINE all == S!InsertAt(s, i + 1, e)
<1>5. all = front \o <<e>> \o back
  <2>1. (i + 1) - 1 = i
    OBVIOUS
  <2>2. all = SubSeq(s, 1, (i + 1) - 1) \o <<e>> \o SubSeq(s, i + 1, Len(s))
    BY Zenon DEF S!InsertAt
  <2> QED
    BY <2>1, <2>2, Zenon
<1> HIDE DEF front, back, all
<1>6. /\ DOMAIN all = 1..Len(s) + 1
      /\ \A j \in 1..Len(s) + 1 : all[j] = IF j <= i THEN s[j] ELSE IF j = i + 1 THEN e ELSE s[j - 1]
  <2> DEFINE left == front \o <<e>>
  <2>1. left \in Seq(X \cup {e}) /\ Len(left) = i + 1
        /\ \A j \in 1..i + 1 : left[j] = IF j <= i THEN s[j] ELSE e
    BY <1>2, <1>4
  <2> HIDE DEF left
  <2>2. left \o back \in Seq(X \cup {e}) /\ Len(left \o back) = Len(s) + 1
        /\ \A j \in 1..Len(s) + 1 : (left \o back)[j] = IF j <= i + 1 THEN left[j] ELSE back[j - (i + 1)]
    BY <1>1, <1>3, <1>4, <2>1
  <2>3. all = left \o back
    BY <1>5 DEF left
  <2>4. DOMAIN all = 1..Len(s) + 1
    BY <1>1, <2>2, <2>3
  <2>5. ASSUME NEW j \in 1..Len(s) + 1
        PROVE  all[j] = IF j <= i THEN s[j] ELSE IF j = i + 1 THEN e ELSE s[j - 1]
    <3>1. all[j] = IF j <= i + 1 THEN left[j] ELSE back[j - (i + 1)]
      BY <2>2, <2>3
    <3>2. CASE j <= i + 1
      BY <1>1, <2>1, <3>1, <3>2
    <3>3. CASE ~(j <= i + 1)
      <4>1. j - (i + 1) \in 1..Len(s) - i /\ i + (j - (i + 1)) = j - 1
        BY <1>1, <3>3
      <4>2. back[j - (i + 1)] = s[i + (j - (i + 1))]
        BY <1>3, <4>1
      <4> QED
        BY <3>1, <3>3, <4>1, <4>2
    <3> QED
      BY <3>2, <3>3
  <2> QED
    BY <2>4, <2>5
<1>7. \A x \in S!Range(s) : x \in S!Range(all)
  <2> SUFFICES ASSUME NEW j \in 1..Len(s) PROVE s[j] \in S!Range(all)
    BY <1>1 DEF S!Range
  <2>1. s[j] = all[IF j <= i THEN j ELSE j + 1]
    BY <1>1, <1>6
  <2>2. (IF j <= i THEN j ELSE j + 1) \in DOMAIN all
    BY <1>1, <1>6
  <2> QED
    BY <2>1, <2>2 DEF S!Range
<1>8. e = all[i + 1] /\ i + 1 \in DOMAIN all
  BY <1>1, <1>6
<1>9. \A x \in S!Range(all) : x \in S!Range(s) \cup {e}
  <2> SUFFICES ASSUME NEW j \in 1..Len(s) + 1 PROVE all[j] \in S!Range(s) \cup {e}
    BY <1>6 DEF S!Range
  <2>1. CASE j <= i
    BY <1>1, <1>6, <2>1 DEF S!Range
  <2>2. CASE j = i + 1
    BY <1>6, <2>2
  <2>3. CASE ~(j <= i) /\ j # i + 1
    <3>1. all[j] = s[j - 1] /\ j - 1 \in DOMAIN s
      BY <1>1, <1>6, <2>3
    <3> QED
      BY <3>1 DEF S!Range
  <2> QED
    BY <2>1, <2>2, <2>3
<1> QED
  BY <1>7, <1>8, <1>9 DEF S!Range, all

LEMMA OptionsAreAnswers ==
  ASSUME S!SettingsAssumption, NEW was
  PROVE  /\ S!Range(S!WorkOptions(was)) \subseteq Answers
         /\ was \in S!WorkKinds => was \in S!Range(S!WorkOptions(was))
<1>1. CASE was \notin DOMAIN Preserved
  <2>1. S!WorkOptions(was) = Audiences
    BY <1>1, SMT DEF S!WorkOptions
  <2> QED
    BY <1>1, <2>1 DEF S!WorkKinds, Answers
<1>2. CASE was \in DOMAIN Preserved
  <2> DEFINE at == S!SelectInSeq(Audiences, LAMBDA offered : offered = S!WorkAudience(was))
             places == {i \in 1..Len(Audiences) : Audiences[i] = S!WorkAudience(was)}
  <2>1. Audiences \in Seq(S!Range(Audiences)) /\ Len(Audiences) \in Nat
    BY DEF S!SettingsAssumption
  <2>2. at = IF places # {} THEN S!Min(places) ELSE 0
    BY DEF S!SelectInSeq
  <2>3. at \in Nat /\ at <= Len(Audiences)
    <3>1. CASE places = {}
      BY <2>1, <2>2, <3>1
    <3>2. CASE places # {}
      <4>1. places \in SUBSET Nat
        BY <2>1
      <4>2. S!Min(places) \in places
        BY <3>2, <4>1, Smallest DEF S!Min
      <4> QED
        BY <2>1, <2>2, <3>2, <4>2
    <3> QED
      BY <3>1, <3>2
  <2>4. S!WorkOptions(was) = S!InsertAt(Audiences, at + 1, was)
    BY <1>2 DEF S!WorkOptions
  <2> HIDE DEF at
  <2>5. S!Range(S!WorkOptions(was)) = S!Range(Audiences) \cup {was}
    BY <2>1, <2>3, <2>4, InsertedAt
  <2> QED
    BY <1>2, <2>5 DEF S!WorkKinds, Answers
<1> QED
  BY <1>1, <1>2

LEMMA InitCards == S!Init => CardsInv
<1> SUFFICES ASSUME S!Init PROVE CardsInv
  OBVIOUS
<1>1. S!Fresh \in CardType
  BY DEF S!Fresh, CardType, Values, Answers
<1>2. card \in [S!Cards -> CardType] /\ \A k \in S!Cards : card[k] = S!Fresh
  BY <1>1 DEF S!Init
<1>3. wire \in SUBSET CallType
  BY DEF S!Init, S!Call, CallType, Values, Answers, S!Loaders, S!Cards
<1>4. stored \in [S!Cards -> Values] /\ stored["work"] \in Answers
  BY DEF S!Init, Values, Answers, S!Cards
<1>5. WireInv
  BY DEF S!Init, S!Call, WireInv, S!Loaders
<1> QED
  BY <1>2, <1>3, <1>4, <1>5 DEF S!Init, CardsInv, S!Fresh, S!Loaders, S!Cards

LEMMA EditCards ==
  ASSUME S!SettingsAssumption, CardsInv, NEW k \in S!Cards, S!Edit(k)
  PROVE  CardsInv'
<1>1. PICK v \in S!Picks(k) \ {card[k].draft} : card' = [card EXCEPT ![k].draft = v]
  BY DEF S!Edit
<1>2. v \in Values
  <2>1. card[k].saved \in Values
    BY DEF CardsInv, CardType
  <2>2. \A x : x \in S!Range(S!WorkOptions(card[k].saved)) => x \in Values
    BY <2>1, OptionsAreAnswers DEF Values
  <2> QED
    BY <2>2 DEF S!Picks, Values, Answers
<1>3. /\ card' \in [S!Cards -> CardType]
      /\ \A j \in S!Cards : /\ card'[j].busy = card[j].busy /\ card'[j].loaded = card[j].loaded
                            /\ card'[j].saved = card[j].saved
  BY <1>1, <1>2 DEF CardsInv, CardType
<1>4. UNCHANGED <<wire, stored, raced, faults>>
  BY DEF S!Edit
<1>5. WireInv'
  BY <1>3, <1>4 DEF CardsInv, WireInv, CallType
<1> QED
  BY <1>3, <1>4, <1>5 DEF CardsInv, S!Loaders, S!Cards

LEMMA SaveCards ==
  ASSUME S!SettingsAssumption, CardsInv, NEW k \in S!Cards, S!Save(k)
  PROVE  CardsInv'
<1> DEFINE value == IF k = "work" THEN S!NormalizeWork(card[k].draft) ELSE card[k].draft
           call == S!Call(k, "save", value)
<1>1. card[k] \in CardType /\ card \in [S!Cards -> CardType]
  BY DEF CardsInv
<1>2. value \in Values /\ (k = "work" => value \in Answers)
  BY <1>1 DEF CardType, Values, Answers, S!NormalizeWork
<1>3. /\ ~card[k].busy
      /\ \E e, d \in BOOLEAN : card' = [card EXCEPT ![k] = [@ EXCEPT !.busy = TRUE, !.error = e, !.done = d]]
  <2>1. CASE k = "name"
    <3>1. ~card[k].busy /\ card' = [card EXCEPT !["name"].busy = TRUE, !["name"].error = FALSE]
      BY <2>1 DEF S!Save, S!SaveName, S!CanSave
    <3>2. card' = [card EXCEPT ![k] = [@ EXCEPT !.busy = TRUE, !.error = FALSE, !.done = card[k].done]]
      BY <1>1, <2>1, <3>1 DEF CardType
    <3> QED
      BY <1>1, <3>1, <3>2 DEF CardType
  <2>2. CASE k = "work"
    <3>1. ~card[k].busy /\ card' = [card EXCEPT !["work"].busy = TRUE]
      BY <2>2 DEF S!Save, S!SaveWork, S!CanSave
    <3>2. card' = [card EXCEPT ![k] = [@ EXCEPT !.busy = TRUE, !.error = card[k].error, !.done = card[k].done]]
      BY <1>1, <2>2, <3>1 DEF CardType
    <3> QED
      BY <1>1, <3>1, <3>2 DEF CardType
  <2>3. CASE k = "email"
    <3>1. ~card[k].busy /\ card' = [card EXCEPT !["email"].busy = TRUE, !["email"].error = FALSE]
      BY <2>3 DEF S!Save, S!SendEmailChange, S!CanSave
    <3>2. card' = [card EXCEPT ![k] = [@ EXCEPT !.busy = TRUE, !.error = FALSE, !.done = card[k].done]]
      BY <1>1, <2>3, <3>1 DEF CardType
    <3> QED
      BY <1>1, <3>1, <3>2 DEF CardType
  <2>4. CASE k = "password"
    <3>1. /\ ~card[k].busy
          /\ card' = [card EXCEPT !["password"].busy = TRUE, !["password"].error = FALSE, !["password"].done = FALSE]
      BY <2>4 DEF S!Save, S!ChangePassword, S!CanSave
    <3>2. card' = [card EXCEPT ![k] = [@ EXCEPT !.busy = TRUE, !.error = FALSE, !.done = FALSE]]
      BY <1>1, <2>4, <3>1 DEF CardType
    <3> QED
      BY <1>1, <3>1, <3>2 DEF CardType
  <2> QED
    BY <2>1, <2>2, <2>3, <2>4 DEF S!Cards
<1>4. PICK e, d \in BOOLEAN : card' = [card EXCEPT ![k] = [@ EXCEPT !.busy = TRUE, !.error = e, !.done = d]]
  BY <1>3
<1>5. /\ card' \in [S!Cards -> CardType] /\ card'[k].busy
      /\ \A j \in S!Cards : j # k => card'[j] = card[j]
  BY <1>1, <1>4 DEF CardType
<1>6. /\ wire' = wire \cup {call} /\ raced' = (raced \/ \E c \in wire : c.card = k /\ c.op = "load")
      /\ UNCHANGED <<stored, faults>>
  BY DEF S!Save
<1>7. /\ call \in CallType /\ call.card = k /\ call.op = "save" /\ call.value = value /\ call.answer = "none"
  BY <1>2 DEF S!Call, CallType
<1> HIDE DEF value, call
<1>8. \A c \in wire : /\ c \in CallType
                      /\ c.op = "save" => c.card # k
                      /\ ~raced' => c.card # k
  BY <1>3, <1>6 DEF CardsInv, WireInv, CallType
<1>9. raced' \in BOOLEAN /\ (~raced' => ~raced)
  BY <1>6, Zenon DEF CardsInv
<1>10. WireInv'
  <2>1. \A c \in wire' : /\ c.op = "load" => c.card \in S!Loaders
                         /\ c.op = "save" => card'[c.card].busy
                         /\ c.op = "save" /\ c.card = "work" /\ c.answer = "none" => c.value \in Answers
                         /\ c.answer = "failed" => faults' > 0
    <3> SUFFICES ASSUME NEW c \in wire'
                 PROVE  /\ c.op = "load" => c.card \in S!Loaders
                        /\ c.op = "save" => card'[c.card].busy
                        /\ c.op = "save" /\ c.card = "work" /\ c.answer = "none" => c.value \in Answers
                        /\ c.answer = "failed" => faults' > 0
      OBVIOUS
    <3>1. CASE c = call
      BY <1>2, <1>5, <1>7, <3>1
    <3>2. CASE c \in wire
      BY <1>5, <1>6, <1>8, <3>2 DEF CardsInv, WireInv, CallType
    <3> QED
      BY <1>6, <3>1, <3>2
  <2>2. \A b, c \in wire' : b.card = c.card /\ b.op = c.op => b = c
    BY <1>6, <1>7, <1>8 DEF CardsInv, WireInv
  <2>3. ~raced' => \A b, c \in wire' : b.card = c.card => b = c
    BY <1>6, <1>7, <1>8, <1>9 DEF CardsInv, WireInv
  <2>4. ~raced' => \A c \in wire' : c.answer = "ok" => c.value = stored'[c.card]
    BY <1>6, <1>7, <1>9 DEF CardsInv, WireInv
  <2> QED
    BY <2>1, <2>2, <2>3, <2>4 DEF WireInv
<1>11. ~raced' /\ faults' = 0 =>
         \A j \in S!Loaders : card'[j].loaded /\ ~card'[j].busy => card'[j].saved = stored'[j]
  BY <1>5, <1>6, <1>9 DEF CardsInv, S!Loaders, S!Cards
<1> QED
  BY <1>5, <1>6, <1>7, <1>9, <1>10, <1>11 DEF CardsInv

LEMMA ServeCards ==
  ASSUME CardsInv, NEW c \in wire, S!Serve(c)
  PROVE  CardsInv'
<1>1. c \in CallType /\ c.answer = "none" /\ UNCHANGED <<card, raced, faults>>
  BY DEF CardsInv, S!Serve
<1>2. /\ stored' \in [S!Cards -> Values] /\ stored'["work"] \in Answers
      /\ \A j \in S!Cards : j # c.card => stored'[j] = stored[j]
      /\ c.op # "save" => stored' = stored
  BY <1>1 DEF CardsInv, WireInv, CallType, S!Serve, S!Cards
<1> DEFINE now == stored'[c.card]
           served == [c EXCEPT !.answer = "ok", !.value = now]
<1>3. now \in Values
  BY <1>1, <1>2 DEF CallType
<1>4. wire' = (wire \ {c}) \cup {served}
  BY DEF S!Serve
<1>5. /\ served \in CallType /\ served.card = c.card /\ served.op = c.op
      /\ served.answer = "ok" /\ served.value = now
  BY <1>1, <1>3 DEF CallType
<1> HIDE DEF served
<1>6. \A b \in wire \ {c} : b \in CallType /\ ~(b.card = c.card /\ b.op = c.op) /\ (~raced => b.card # c.card)
  BY DEF CardsInv, WireInv
<1>7. WireInv'
  <2>1. \A b \in wire' : /\ b.op = "load" => b.card \in S!Loaders
                         /\ b.op = "save" => card'[b.card].busy
                         /\ b.op = "save" /\ b.card = "work" /\ b.answer = "none" => b.value \in Answers
                         /\ b.answer = "failed" => faults' > 0
    BY <1>1, <1>4, <1>5, <1>6 DEF CardsInv, WireInv
  <2>2. \A a, b \in wire' : a.card = b.card /\ a.op = b.op => a = b
    BY <1>4, <1>5, <1>6 DEF CardsInv, WireInv
  <2>3. ~raced' => \A a, b \in wire' : a.card = b.card => a = b
    BY <1>1, <1>4, <1>5, <1>6 DEF CardsInv, WireInv
  <2>4. ~raced' => \A b \in wire' : b.answer = "ok" => b.value = stored'[b.card]
    BY <1>1, <1>2, <1>4, <1>5, <1>6 DEF CardsInv, WireInv, CallType
  <2> QED
    BY <2>1, <2>2, <2>3, <2>4 DEF WireInv
<1>8. ~raced' /\ faults' = 0 =>
        \A j \in S!Loaders : card'[j].loaded /\ ~card'[j].busy => card'[j].saved = stored'[j]
  <2> SUFFICES ASSUME ~raced, faults = 0, NEW j \in S!Loaders, card[j].loaded, ~card[j].busy
               PROVE  card[j].saved = stored'[j]
    BY <1>1
  <2>1. card[j].saved = stored[j]
    BY DEF CardsInv
  <2>2. stored'[j] = stored[j]
    BY <1>2 DEF CardsInv, WireInv, S!Loaders, S!Cards
  <2> QED
    BY <2>1, <2>2
<1>9. wire' \in SUBSET CallType
  BY <1>4, <1>5, <1>6
<1> QED
  BY <1>1, <1>2, <1>7, <1>8, <1>9 DEF CardsInv

LEMMA FailCards ==
  ASSUME S!SettingsAssumption, CardsInv, NEW c \in wire, S!Fail(c)
  PROVE  CardsInv'
<1> DEFINE failed == [c EXCEPT !.answer = "failed"]
<1>1. /\ c \in CallType /\ faults' = faults + 1 /\ wire' = (wire \ {c}) \cup {failed}
      /\ UNCHANGED <<card, stored, raced>>
  BY DEF CardsInv, S!Fail
<1>2. /\ failed \in CallType /\ failed.card = c.card /\ failed.op = c.op /\ failed.answer = "failed"
      /\ failed.value = c.value
  BY <1>1 DEF CallType
<1> HIDE DEF failed
<1>3. \A b \in wire \ {c} : b \in CallType /\ ~(b.card = c.card /\ b.op = c.op) /\ (~raced => b.card # c.card)
  BY DEF CardsInv, WireInv
<1>4. faults' \in Nat /\ faults' > 0
  BY <1>1 DEF CardsInv
<1>5. WireInv'
  BY <1>1, <1>2, <1>3, <1>4 DEF CardsInv, WireInv
<1> QED
  BY <1>1, <1>2, <1>3, <1>4, <1>5 DEF CardsInv

(* What an answer does to its card: whatever it brings, the card no longer   *)
(* waits for it, and a card that loads shows what an answer kept holds.      *)
LEMMA AnsweredCards ==
  ASSUME CardsInv, NEW c \in wire, NEW after \in CardType,
         wire' = wire \ {c}, card' = [card EXCEPT ![c.card] = after],
         UNCHANGED <<stored, raced, faults>>,
         c.op = "load" => after.busy = card[c.card].busy,
         c.card \in S!Loaders /\ c.answer = "ok" => after.saved = c.value,
         c.answer # "none"
  PROVE  CardsInv'
<1>1. c \in CallType /\ card' \in [S!Cards -> CardType]
      /\ \A j \in S!Cards : card'[j] = IF j = c.card THEN after ELSE card[j]
  BY DEF CardsInv, CallType
<1>2. \A b \in wire' : /\ b \in wire /\ b \in CallType
                       /\ b.op = "save" => card'[b.card].busy
  BY <1>1 DEF CardsInv, WireInv, CallType
<1>3. WireInv'
  BY <1>2 DEF CardsInv, WireInv
<1>4. ~raced' /\ faults' = 0 =>
        \A j \in S!Loaders : card'[j].loaded /\ ~card'[j].busy => card'[j].saved = stored'[j]
  <2> SUFFICES ASSUME ~raced, faults = 0, NEW j \in S!Loaders, card'[j].loaded, ~card'[j].busy
               PROVE  card'[j].saved = stored[j]
    OBVIOUS
  <2>1. j \in S!Cards
    BY DEF S!Loaders, S!Cards
  <2>2. CASE j # c.card
    BY <1>1, <2>1, <2>2 DEF CardsInv
  <2>3. CASE j = c.card
    <3>1. c.answer = "ok"
      BY <1>1 DEF CardsInv, WireInv, CallType
    <3> QED
      BY <1>1, <2>1, <2>3, <3>1 DEF CardsInv, WireInv
  <2> QED
    BY <2>2, <2>3
<1> QED
  BY <1>1, <1>2, <1>3, <1>4 DEF CardsInv

LEMMA LoadedCards ==
  ASSUME CardsInv, NEW c \in wire, S!Loaded(c)
  PROVE  CardsInv'
<1> DEFINE now == card[c.card]
           after == IF c.answer = "ok" THEN S!Apply(now, c.value)
                    ELSE IF c.card = "work" THEN S!Apply(now, None) ELSE [now EXCEPT !.error = TRUE]
<1>1. c \in CallType /\ now \in CardType
  BY DEF CardsInv, CallType
<1>2. after \in CardType /\ after.busy = now.busy /\ (c.answer = "ok" => after.saved = c.value)
  BY <1>1 DEF S!Apply, CardType, CallType, Values, Answers
<1>3. card' = [card EXCEPT ![c.card] = after]
  BY <1>1 DEF S!Loaded, CardsInv, CallType
<1> HIDE DEF after
<1>4. wire' = wire \ {c} /\ c.answer # "none" /\ UNCHANGED <<stored, raced, faults>>
  BY DEF S!Loaded
<1> QED
  BY <1>2, <1>3, <1>4, AnsweredCards

LEMMA SavedCards ==
  ASSUME CardsInv, NEW c \in wire, S!Saved(c)
  PROVE  CardsInv'
<1> DEFINE now == card[c.card]
           rest == [now EXCEPT !.busy = FALSE]
           after == IF c.answer = "failed" THEN [rest EXCEPT !.error = (c.card # "work")]
                    ELSE IF c.card \in S!Loaders THEN S!Apply(rest, c.value)
                    ELSE [rest EXCEPT !.draft = None, !.done = TRUE]
<1>1. c \in CallType /\ now \in CardType /\ rest \in CardType
  BY DEF CardsInv, CallType, CardType
<1>2. after \in CardType
  <2>1. None \in Values /\ c.value \in Values /\ (c.card # "work") \in BOOLEAN
    BY <1>1 DEF Values, Answers, CallType
  <2> HIDE DEF rest
  <2> QED
    BY <1>1, <2>1 DEF S!Apply, CardType
<1>3. c.card \in S!Loaders /\ c.answer = "ok" => after.saved = c.value
  <2> HIDE DEF rest
  <2> QED
    BY <1>1 DEF S!Apply, CardType
<1>4. card' = [card EXCEPT ![c.card] = after]
  BY <1>1 DEF S!Saved, CardsInv, CallType
<1> HIDE DEF after
<1>5. wire' = wire \ {c} /\ c.answer # "none" /\ c.op = "save" /\ UNCHANGED <<stored, raced, faults>>
  BY DEF S!Saved
<1> QED
  BY <1>2, <1>3, <1>4, <1>5, AnsweredCards

LEMMA StepCards == S!SettingsAssumption /\ CardsInv /\ [S!Next]_S!vars => CardsInv'
<1> SUFFICES ASSUME S!SettingsAssumption, CardsInv, [S!Next]_S!vars PROVE CardsInv'
  OBVIOUS
<1>1. ASSUME NEW k \in S!Cards, S!Edit(k) PROVE CardsInv'
  BY <1>1, EditCards
<1>2. ASSUME NEW k \in S!Cards, S!Save(k) PROVE CardsInv'
  BY <1>2, SaveCards
<1>3. ASSUME NEW c \in wire, S!Serve(c) PROVE CardsInv'
  BY <1>3, ServeCards
<1>4. ASSUME NEW c \in wire, S!Fail(c) PROVE CardsInv'
  BY <1>4, FailCards
<1>5. ASSUME NEW c \in wire, S!Loaded(c) PROVE CardsInv'
  BY <1>5, LoadedCards
<1>6. ASSUME NEW c \in wire, S!Saved(c) PROVE CardsInv'
  BY <1>6, SavedCards
<1>7. CASE UNCHANGED S!vars
  BY <1>7 DEF S!vars, CardsInv, WireInv
<1> QED
  BY <1>1, <1>2, <1>3, <1>4, <1>5, <1>6, <1>7 DEF S!Next

LEMMA CardsShowWhatIsHeld == S!SettingsAssumption /\ CardsInv => S!AnswerOnScreen
<1> SUFFICES ASSUME S!SettingsAssumption, CardsInv, NEW k \in S!Loaders, card[k].loaded, ~card[k].busy,
                    card[k].draft = card[k].saved, ~raced, faults = 0
             PROVE  S!Chosen(k) = stored[k]
  BY DEF S!AnswerOnScreen
<1>1. card[k].saved = stored[k]
  BY DEF CardsInv
<1>2. CASE k # "work"
  BY <1>1, <1>2 DEF S!Chosen
<1>3. CASE k = "work"
  <2>1. stored[k] = None \/ stored[k] \in S!WorkKinds
    BY <1>3 DEF CardsInv, Answers
  <2>2. stored[k] \in S!WorkKinds => stored[k] \in S!Range(S!WorkOptions(stored[k]))
    BY OptionsAreAnswers
  <2> QED
    BY <1>1, <1>3, <2>1, <2>2 DEF S!Chosen
<1> QED
  BY <1>2, <1>3

(* Whatever was loaded, edited, saved and answered, and in whatever order:   *)
(* a card at rest whose draft is what it saved shows the answer the service  *)
(* holds, an audience no longer offered included (readerWork.js,             *)
(* CedarPressSettings).                                                      *)
THEOREM AnswersStayOnScreen ==
  ASSUME S!SettingsAssumption
  PROVE  S!Spec => []S!AnswerOnScreen
<1>1. S!Init => CardsInv
  BY InitCards
<1>2. CardsInv /\ [S!Next]_S!vars => CardsInv'
  BY StepCards
<1>3. CardsInv => S!AnswerOnScreen
  BY CardsShowWhatIsHeld
<1> QED
  BY <1>1, <1>2, <1>3, PTL DEF S!Spec

-----------------------------------------------------------------------------
(* The panels: whoever closes one from the keyboard has the focus somewhere. *)

Return == <<"return", "cedar">>
FrameType == {<<"enter", "cedar">>, <<"enter", "profile">>, Return}

(* The greeting was answered for good, or storage does not work.             *)
GreetInv ==
  storage => /\ answered => note = "done"
             /\ note = "done" => stored

(* A panel left by keyboard has given the focus to a control, or for Cedar   *)
(* the frame that will is still to come.                                     *)
PanelsInv ==
  /\ open \subseteq W!Panels /\ frames \in Seq(FrameType) /\ DOMAIN opener = {"cedar", "profile"}
  /\ \A panel \in keptNote : W!WayBack(panel) =>
       focus # "body" \/ (panel = "cedar" /\ \E i \in DOMAIN frames : frames[i] = Return)

LEMMA InitPanels == W!Init => PanelsInv /\ GreetInv
<1> SUFFICES ASSUME W!Init PROVE PanelsInv /\ GreetInv
  OBVIOUS
<1>1. <<"enter", "profile">> \in FrameType
  BY DEF FrameType
<1>2. frames \in Seq(FrameType)
  BY <1>1 DEF W!Init, W!Enters
<1> QED
  BY <1>2 DEF W!Init, PanelsInv, GreetInv, W!Panels

LEMMA GreetingKeeps == GreetInv /\ [W!Next]_W!vars => GreetInv'
<1> SUFFICES ASSUME GreetInv, [W!Next]_W!vars PROVE GreetInv'
  OBVIOUS
<1>1. ASSUME NEW c, W!Greeting(c), UNCHANGED storage PROVE GreetInv'
  BY <1>1 DEF W!Greeting, W!Answered, GreetInv
<1>2. ASSUME UNCHANGED <<storage, note, stored, answered>> PROVE GreetInv'
  BY <1>2 DEF GreetInv
<1>3. ASSUME NEW c \in W!Controls, W!Tab(c) PROVE GreetInv'
  BY <1>2, <1>3 DEF W!Tab, W!pageVars
<1>4. ASSUME NEW c \in W!Controls, NEW mouse \in BOOLEAN, W!Press(c, mouse) PROVE GreetInv'
  BY <1>1, <1>4 DEF W!Press, W!pageVars
<1>5. CASE W!PointElsewhere
  BY <1>2, <1>5 DEF W!PointElsewhere, W!pageVars
<1>6. CASE W!Escape
  BY <1>2, <1>6 DEF W!Escape, W!pageVars
<1>7. CASE W!Frame
  BY <1>2, <1>7 DEF W!Frame, W!pageVars
<1>8. ASSUME NEW slot, W!Scroll(slot) PROVE GreetInv'
  BY <1>2, <1>8 DEF W!Scroll, W!Left
<1>9. CASE W!Turn
  BY <1>2, <1>9 DEF W!Turn, W!Left
<1>10. CASE W!Records
  BY <1>2, <1>10 DEF W!Records, W!Left
<1>11. CASE W!NoteRises
  BY <1>11 DEF W!NoteRises, W!pageVars, GreetInv
<1>12. CASE W!NewPage
  BY <1>12 DEF W!NewPage, GreetInv
<1>13. CASE UNCHANGED W!vars
  BY <1>2, <1>13 DEF W!vars, W!pageVars
<1> QED
  BY <1>3, <1>4, <1>5, <1>6, <1>7, <1>8, <1>9, <1>10, <1>11, <1>12, <1>13 DEF W!Next

(* What is taken out of a list, and what stays.                              *)
LEMMA TakenOut ==
  ASSUME NEW X, NEW s \in Seq(X), NEW e, NEW r, r # e
  PROVE  /\ W!RemoveFirst(s, e) \in Seq(X)
         /\ (\E i \in DOMAIN s : s[i] = r) =>
              \E i \in DOMAIN W!RemoveFirst(s, e) : W!RemoveFirst(s, e)[i] = r
<1>1. Len(s) \in Nat /\ DOMAIN s = 1..Len(s)
  OBVIOUS
<1>2. CASE ~\E i \in 1..Len(s) : s[i] = e
  <2>1. W!RemoveFirst(s, e) = s
    BY <1>2, Zenon DEF W!RemoveFirst
  <2> QED
    BY <2>1
<1>3. CASE \E i \in 1..Len(s) : s[i] = e
  <2> DEFINE places == {i \in 1..Len(s) : s[i] = e}
             k == W!SelectInSeq(s, LAMBDA v : v = e)
  <2>1. places # {} /\ places \in SUBSET Nat
    BY <1>1, <1>3
  <2>2. k = W!Min(places)
    BY <2>1 DEF W!SelectInSeq
  <2>3. k \in places
    BY <2>1, <2>2, Smallest DEF W!Min
  <2>4. W!RemoveFirst(s, e) = W!RemoveAt(s, k)
    BY <1>3, Zenon DEF W!RemoveFirst
  <2>5. W!RemoveAt(s, k) = SubSeq(s, 1, k - 1) \o SubSeq(s, k + 1, Len(s))
    BY Zenon DEF W!RemoveAt
  <2>6. k \in 1..Len(s) /\ s[k] = e
    BY <2>3
  <2> HIDE DEF k
  <2> DEFINE front == SubSeq(s, 1, k - 1)
             back == SubSeq(s, k + 1, Len(s))
  <2>7. /\ front \in Seq(X) /\ Len(front) = k - 1
        /\ \A i \in 1..k - 1 : front[i] = s[i]
    <3>1. 1 \in 1..Len(s) + 1 /\ k - 1 \in 1 - 1..Len(s)
      BY <1>1, <2>6
    <3>2. \A i \in 1..k - 1 - 1 + 1 : front[i] = s[1 + i - 1]
      BY <3>1, SubSeqProperties
    <3> QED
      BY <1>1, <2>6, <3>1, <3>2, SubSeqProperties
  <2>8. /\ back \in Seq(X) /\ Len(back) = Len(s) - k
        /\ \A i \in 1..Len(s) - k : back[i] = s[k + i]
    <3>1. k + 1 \in 1..Len(s) + 1 /\ Len(s) \in k + 1 - 1..Len(s)
      BY <1>1, <2>6
    <3>2. /\ back \in Seq(X) /\ Len(back) = IF k + 1 <= Len(s) THEN Len(s) - (k + 1) + 1 ELSE 0
          /\ \A i \in 1..Len(s) - (k + 1) + 1 : back[i] = s[k + 1 + i - 1]
      BY <3>1, SubSeqProperties
    <3> HIDE DEF back
    <3>3. Len(back) = Len(s) - k
      <4>1. Len(s) \in Int /\ k \in Int /\ k <= Len(s)
        BY <1>1, <2>6
      <4>2. CASE k + 1 <= Len(s)
        BY <3>2, <4>1, <4>2
      <4>3. CASE ~(k + 1 <= Len(s))
        <5>1. Len(s) - k = 0
          BY <4>1, <4>3
        <5> QED
          BY <3>2, <4>3, <5>1
      <4> QED
        BY <4>2, <4>3
    <3>4. ASSUME NEW i \in 1..Len(s) - k PROVE back[i] = s[k + i]
      <4>1. k + 1 + i - 1 = k + i /\ Len(s) - (k + 1) + 1 = Len(s) - k
        BY <1>1, <2>6
      <4> QED
        BY <3>2, <4>1
    <3> QED
      BY <3>2, <3>3, <3>4
  <2> HIDE DEF front, back
  <2>9. W!RemoveFirst(s, e) = front \o back
    BY <2>4, <2>5 DEF front, back
  <2>10. ASSUME NEW i \in DOMAIN s, s[i] = r
         PROVE  \E j \in DOMAIN (front \o back) : (front \o back)[j] = r
    <3>1. CASE i < k
      <4>1. i \in DOMAIN (front \o back) /\ (front \o back)[i] = s[i]
        BY <1>1, <2>6, <2>7, <2>8, <3>1
      <4> QED
        BY <2>10, <4>1
    <3>2. CASE i > k
      <4>1. i - k \in 1..Len(s) - k /\ k + (i - k) = i
        BY <1>1, <2>6, <3>2
      <4>2. i - 1 \in DOMAIN (front \o back) /\ (front \o back)[i - 1] = back[i - k]
        BY <1>1, <2>6, <2>7, <2>8, <3>2
      <4>3. back[i - k] = s[i]
        BY <2>8, <4>1
      <4> QED
        BY <2>10, <4>2, <4>3
    <3> QED
      BY <1>1, <2>6, <2>10, <3>1, <3>2
  <2> QED
    BY <2>7, <2>8, <2>9, <2>10
<1> QED
  BY <1>2, <1>3

(* The frames after a render: the ones that return the focus all stay.       *)
LEMMA FramesStay ==
  ASSUME NEW returns, NEW drawn, W!Frames(returns, drawn), frames \in Seq(FrameType)
  PROVE  /\ frames' \in Seq(FrameType)
         /\ returns => \E i \in DOMAIN frames' : frames'[i] = Return
<1> DEFINE asksFor(panel) == panel \in open' /\ (panel \notin open \/ (drawn /\ panel = "profile"))
           one == IF "profile" \in open' /\ ~asksFor("profile") THEN frames
                  ELSE W!RemoveFirst(frames, W!Enters("profile"))
           two == IF "cedar" \in open' /\ ~asksFor("cedar") THEN one ELSE W!RemoveFirst(one, W!Enters("cedar"))
           back == IF returns THEN <<Return>> ELSE <<>>
           in == IF asksFor("profile") THEN <<W!Enters("profile")>> ELSE <<>>
           on == IF asksFor("cedar") THEN <<W!Enters("cedar")>> ELSE <<>>
<1>1. frames' = two \o back \o in \o on
  BY Zenon DEF W!Frames, Return
<1>2. one \in Seq(FrameType)
  <2>1. Return # W!Enters("profile")
    BY DEF Return, W!Enters
  <2> QED
    BY <2>1, TakenOut
<1> HIDE DEF one
<1>3. two \in Seq(FrameType)
  <2>1. Return # W!Enters("cedar")
    BY DEF Return, W!Enters
  <2> QED
    BY <1>2, <2>1, TakenOut
<1> HIDE DEF two
<1>4. Return \in FrameType /\ W!Enters("profile") \in FrameType /\ W!Enters("cedar") \in FrameType
  BY DEF FrameType, Return, W!Enters
<1>5. back \in Seq(FrameType) /\ (returns => back = <<Return>>)
  BY <1>4
<1>6. in \in Seq(FrameType)
  BY <1>4
<1>7. on \in Seq(FrameType)
  BY <1>4
<1> HIDE DEF back, in, on
<1>8. frames' \in Seq(FrameType)
  BY <1>1, <1>3, <1>5, <1>6, <1>7
<1>9. ASSUME returns PROVE \E i \in DOMAIN frames' : frames'[i] = Return
  <2>1. two \o back \in Seq(FrameType) /\ Len(two) \in Nat /\ Len(two \o back) = Len(two) + 1
        /\ (two \o back)[Len(two) + 1] = Return
    <3>1. two \in Seq(FrameType) /\ back = <<Return>>
      BY <1>3, <1>5, <1>9
    <3>2. two \o <<Return>> \in Seq(FrameType) /\ Len(<<Return>>) = 1 /\ <<Return>>[1] = Return
      BY <1>3, <1>4
    <3>3. Len(two) \in Nat
      BY <3>1
    <3>4. Len(two \o <<Return>>) = Len(two) + 1
      BY <1>3, <1>4
    <3>5. (two \o <<Return>>)[Len(two) + 1] = Return
      BY <1>3, <1>4, <3>3
    <3> QED
      BY <3>1, <3>2, <3>3, <3>4, <3>5
  <2> DEFINE left == two \o back
  <2> HIDE DEF left
  <2>2. left \o in \in Seq(FrameType) /\ Len(left \o in) >= Len(left) /\ (left \o in)[Len(two) + 1] = Return
    BY <1>6, <2>1 DEF left
  <2> DEFINE most == left \o in
  <2> HIDE DEF most
  <2>3. Len(most \o on) >= Len(most) /\ (most \o on)[Len(two) + 1] = Return /\ most \o on \in Seq(FrameType)
    BY <1>7, <2>1, <2>2 DEF left, most
  <2>4. frames' = most \o on
    BY <1>1 DEF left, most
  <2>5. Len(two) + 1 \in DOMAIN (most \o on)
    BY <2>1, <2>2, <2>3 DEF left, most
  <2> QED
    BY <2>3, <2>4, <2>5
<1> QED
  BY <1>8, <1>9

(* The body is no control that is shown.                                     *)
LEMMA BodyIsNoControl ==
  ASSUME open \subseteq W!Panels
  PROVE  ~W!Shown("body")
<1>1. \A panel \in W!Panels : "body" \notin W!In(panel)
  BY DEF W!In, W!CedarControls, W!ProfileControls, W!PickerControls, W!PlansControls, W!AccountControls,
         W!SectionControls, W!Panels, W!Menus
<1>2. \A menu \in W!MenusHere : menu \in W!Panels /\ W!Summary[menu] # "body"
  BY DEF W!MenusHere, W!MastMenus, W!BarMenus, W!Summary, W!Panels, W!Menus
<1> QED
  BY <1>1, <1>2 DEF W!Shown, W!Present

(* What had the focus keeps it while it is shown; a profile that took it     *)
(* along gives it back to what opened it.                                    *)
LEMMA SettlesOn ==
  ASSUME NEW had, W!Settles(had), DOMAIN opener = {"cedar", "profile"}
  PROVE  /\ DOMAIN opener' = {"cedar", "profile"}
         /\ W!Shown(had)' /\ had # "body" => focus' = had
         /\ "profile" \in open \ open' /\ ~W!Shown(had)' /\ W!Shown(opener["profile"])' /\ opener["profile"] # "body"
              => focus' # "body"
         /\ "profile" \in open \ open' => opener'["profile"] = opener["profile"]
<1> QED
  BY DEF W!Settles, W!Restored

(* The controls, one by one.                                                 *)
LEMMA WhatClosesWhat ==
  ASSUME open \subseteq W!Panels, NEW c, NEW panel \in open \ W!Pressed(c, open), c \in W!In(panel)
  PROVE  \/ panel = "cedar" /\ c = "close"
         \/ panel = "profile" /\ c = "shut"
         \/ panel = "picker" /\ c = "done"
<1>1. panel \in W!Panels
  OBVIOUS
<1> USE DEF W!Pressed, W!MenuPressed, W!ProfilePressed, W!PlansPressed, W!CedarPressed, W!Toggled, W!Summaries,
            W!Summary
<1>2. CASE panel = "cedar"
  BY <1>2 DEF W!In, W!CedarControls
<1>3. CASE panel = "profile"
  BY <1>3 DEF W!In, W!ProfileControls
<1>4. CASE panel = "picker"
  BY <1>4 DEF W!In, W!PickerControls
<1>5. CASE panel = "plans"
  BY <1>5 DEF W!In, W!PlansControls
<1>6. CASE panel \in {"account", "sections", "filters"}
  BY <1>6 DEF W!In, W!AccountControls, W!SectionControls
<1> QED
  BY <1>1, <1>2, <1>3, <1>4, <1>5, <1>6 DEF W!Panels, W!Menus

LEMMA PressedPanels ==
  ASSUME NEW c, NEW before, before \subseteq W!Panels
  PROVE  W!Pressed(c, before) \subseteq W!Panels
<1>1. DOMAIN W!Summary \subseteq W!Panels
  BY DEF W!Summary, W!Panels, W!Menus
<1>2. W!CedarPressed(c, before) \subseteq W!Panels
  BY DEF W!CedarPressed, W!Toggled, W!Panels
<1>3. ASSUME NEW b, b \subseteq W!Panels PROVE W!PlansPressed(c, b) \subseteq W!Panels
  BY <1>3 DEF W!PlansPressed, W!Toggled, W!Panels
<1>4. ASSUME NEW b, b \subseteq W!Panels PROVE W!ProfilePressed(c, b) \subseteq W!Panels
  BY <1>4 DEF W!ProfilePressed, W!Panels
<1>5. ASSUME NEW b, b \subseteq W!Panels PROVE W!MenuPressed(c, b) \subseteq W!Panels
  <2>1. CASE c \in W!Summaries
    <3>1. PICK menu \in DOMAIN W!Summary : W!Summary[menu] = c
      BY <2>1 DEF W!Summaries
    <3> DEFINE taken == CHOOSE m \in DOMAIN W!Summary : W!Summary[m] = c
    <3>2. taken \in DOMAIN W!Summary
      BY <3>1
    <3>3. c # "done"
      BY <2>1 DEF W!Summaries, W!Summary
    <3> HIDE DEF taken
    <3>4. W!MenuPressed(c, b) = W!Toggled(b, taken)
      BY <2>1, <3>3 DEF W!MenuPressed, taken
    <3> QED
      BY <1>1, <1>5, <3>2, <3>4 DEF W!Toggled
  <2>2. CASE c \notin W!Summaries
    BY <1>5, <2>2 DEF W!MenuPressed
  <2> QED
    BY <2>1, <2>2
<1> QED
  BY <1>2, <1>3, <1>4, <1>5 DEF W!Pressed

(* A panel closed by its own button gives nothing that is hidden the focus.  *)
LEMMA ShutIsGone ==
  "profile" \notin open /\ open \subseteq W!Panels => \A c \in W!ProfileControls : ~W!Shown(c)
<1> SUFFICES ASSUME "profile" \notin open, open \subseteq W!Panels, NEW c \in W!ProfileControls
             PROVE  ~W!Shown(c)
  OBVIOUS
<1>1. \A panel \in W!Panels \ {"profile"} : c \notin W!In(panel)
  BY DEF W!In, W!CedarControls, W!ProfileControls, W!PickerControls, W!PlansControls, W!AccountControls,
         W!SectionControls, W!Panels, W!Menus
<1>2. \A menu \in W!MenusHere : menu \in W!Panels \ {"profile"} /\ W!Summary[menu] # c
  BY DEF W!MenusHere, W!MastMenus, W!BarMenus, W!Summary, W!Panels, W!Menus, W!ProfileControls
<1> QED
  BY <1>1, <1>2 DEF W!Shown, W!Present, W!ProfileControls

LEMMA ShownIsAControl ==
  open \subseteq W!Panels /\ W!Shown(opener["profile"]) => opener["profile"] # "body"
  BY BodyIsNoControl

(* A profile closed with the focus in it: what opened it has the focus.      *)
LEMMA ProfileGivesBack ==
  ASSUME NEW had \in W!ProfileControls, W!Settles(had), "profile" \in open \ open', open' \subseteq W!Panels,
         DOMAIN opener = {"cedar", "profile"}, W!WayBack("profile")'
  PROVE  focus' # "body"
<1>1. (\A c \in W!ProfileControls : ~W!Shown(c))'
  <2>1. ("profile" \notin open /\ open \subseteq W!Panels)'
    OBVIOUS
  <2> QED
    BY <2>1, ShutIsGone, PTL
<1>2. ~W!Shown(had)'
  BY <1>1 DEF W!ProfileControls
<1>3. DOMAIN opener' = {"cedar", "profile"} /\ opener'["profile"] = opener["profile"]
  BY SettlesOn
<1>4. W!Shown(opener["profile"])'
  BY <1>3 DEF W!WayBack
<1>5. (opener["profile"] # "body")'
  <2>1. (open \subseteq W!Panels)'
    OBVIOUS
  <2> QED
    BY <1>4, <2>1, ShownIsAControl, PTL
<1> QED
  BY <1>2, <1>3, <1>4, <1>5, SettlesOn

LEMMA PressKeepsPanels ==
  ASSUME PanelsInv, NEW c \in W!Controls, NEW mouse \in BOOLEAN, W!Press(c, mouse)
  PROVE  PanelsInv'
<1> DEFINE had == IF c = "done" THEN W!Summary["picker"] ELSE c
<1>1. W!Settles(had) /\ W!Frames(c = "close", FALSE)
  BY DEF W!Press
<1>2. open' \subseteq W!Panels
  <2>1. (IF mouse THEN open \ W!ShutByPointer(c) ELSE open) \subseteq W!Panels
    BY DEF PanelsInv
  <2> QED
    BY <2>1, PressedPanels DEF W!Press
<1>3. /\ frames' \in Seq(FrameType)
      /\ c = "close" => \E i \in DOMAIN frames' : frames'[i] = Return
  BY <1>1, FramesStay DEF PanelsInv
<1>4. DOMAIN opener' = {"cedar", "profile"}
  BY <1>1, SettlesOn DEF PanelsInv
<1>5. ASSUME NEW panel \in keptNote', W!WayBack(panel)'
      PROVE  focus' # "body" \/ (panel = "cedar" /\ \E i \in DOMAIN frames' : frames'[i] = Return)
  <2>1. ~mouse /\ panel \in open \ W!Pressed(c, open) /\ open' = W!Pressed(c, open) /\ c \in W!In(panel)
    BY <1>5 DEF W!Press
  <2>2. \/ panel = "cedar" /\ c = "close"
        \/ panel = "profile" /\ c = "shut"
        \/ panel = "picker" /\ c = "done"
    BY <2>1, WhatClosesWhat DEF PanelsInv
  <2>3. CASE panel = "cedar" /\ c = "close"
    BY <1>3, <2>3
  <2>4. CASE panel = "profile" /\ c = "shut"
    <3>1. "profile" \in open \ open' /\ had = "shut"
      BY <2>1, <2>4
    <3>2. "shut" \in W!ProfileControls
      BY DEF W!ProfileControls
    <3>3. W!WayBack("profile")'
      BY <1>5, <2>4
    <3> QED
      BY <1>1, <1>2, <3>1, <3>2, <3>3, ProfileGivesBack DEF PanelsInv
  <2>5. CASE panel = "picker" /\ c = "done"
    <3>1. had = "pick"
      BY <2>5 DEF W!Summary
    <3>2. W!Shown("pick")'
      BY <1>4, <1>5, <2>5 DEF W!WayBack, W!Summary
    <3> QED
      BY <1>1, <3>1, <3>2, SettlesOn DEF PanelsInv
  <2> QED
    BY <2>2, <2>3, <2>4, <2>5
<1> QED
  BY <1>2, <1>3, <1>4, <1>5 DEF PanelsInv

LEMMA EscapeKeepsPanels ==
  ASSUME PanelsInv, W!Escape
  PROVE  PanelsInv'
<1>1. PICK had \in IF W!MenusLeft = {} THEN {focus} ELSE {W!Summary[menu] : menu \in W!MenusLeft} : W!Settles(had)
  BY DEF W!Escape
<1>2. /\ open' = (IF W!Stopped THEN open ELSE open \cap (W!Menus \cup {"picker"})) \ W!MenusLeft
      /\ keptNote' = W!MenusLeft \cup {panel \in (open \ open') \cap {"cedar", "profile"} : focus \in W!In(panel)}
      /\ W!Frames("cedar" \in open \ open' /\ W!CedarHeld, FALSE)
  BY DEF W!Escape
<1>3. open' \subseteq W!Panels
  BY <1>2 DEF PanelsInv, W!Panels, W!Menus
<1>4. /\ frames' \in Seq(FrameType)
      /\ "cedar" \in open \ open' /\ W!CedarHeld => \E i \in DOMAIN frames' : frames'[i] = Return
  BY <1>2, FramesStay DEF PanelsInv
<1>5. DOMAIN opener' = {"cedar", "profile"}
  BY <1>1, SettlesOn DEF PanelsInv
<1>6. ASSUME NEW panel \in keptNote', W!WayBack(panel)'
      PROVE  focus' # "body" \/ (panel = "cedar" /\ \E i \in DOMAIN frames' : frames'[i] = Return)
  <2>1. CASE panel \in W!MenusLeft
    <3>1. /\ panel \in {"account", "sections", "filters", "picker"} /\ focus \in W!Within(panel)
          /\ \A other \in W!MenusLeft : other = panel
      BY <2>1 DEF W!MenusLeft, W!Stopped, W!Menus, W!Within, W!In, W!Summary, W!AccountControls, W!SectionControls,
                  W!PickerControls
    <3>2. had = W!Summary[panel]
      BY <1>1, <2>1, <3>1
    <3>3. had # "body"
      BY <3>1, <3>2 DEF W!Summary
    <3>4. W!Shown(W!Summary[panel])'
      BY <1>5, <1>6, <3>1 DEF W!WayBack
    <3> QED
      BY <1>1, <3>2, <3>3, <3>4, SettlesOn DEF PanelsInv
  <2>2. CASE panel \notin W!MenusLeft
    <3>1. panel \in (open \ open') \cap {"cedar", "profile"} /\ focus \in W!In(panel)
      BY <1>2, <2>2
    <3>2. CASE panel = "cedar"
      <4>1. W!CedarHeld
        BY <3>1, <3>2 DEF W!CedarHeld, W!In
      <4> QED
        BY <1>4, <3>1, <3>2, <4>1
    <3>3. CASE panel = "profile"
      <4>1. focus \in W!ProfileControls
        BY <3>1, <3>3 DEF W!In
      <4>2. W!MenusLeft = {}
        <5>1. \A menu \in {"account", "sections", "filters", "picker"} : focus \notin W!Within(menu)
          BY <4>1 DEF W!ProfileControls, W!Within, W!In, W!Summary, W!AccountControls, W!SectionControls,
                      W!PickerControls
        <5> QED
          BY <5>1 DEF W!MenusLeft, W!Stopped, W!Menus
      <4>3. had \in W!ProfileControls
        BY <1>1, <4>1, <4>2
      <4>4. W!WayBack("profile")'
        BY <1>6, <3>3
      <4> QED
        BY <1>1, <1>3, <3>1, <3>3, <4>3, <4>4, ProfileGivesBack DEF PanelsInv
    <3> QED
      BY <3>1, <3>2, <3>3
  <2> QED
    BY <2>1, <2>2
<1> QED
  BY <1>3, <1>4, <1>5, <1>6 DEF PanelsInv

LEMMA FrameKeepsPanels ==
  ASSUME PanelsInv, W!Frame
  PROVE  PanelsInv'
<1>1. /\ frames # <<>> /\ frames' = Tail(frames)
      /\ UNCHANGED <<surface, toolbar, inView, phone, connected, storage, open, opener, note, keptNote>>
  BY DEF W!Frame, W!pageVars
<1>2. frames \in Seq(FrameType) /\ frames' \in Seq(FrameType)
  BY <1>1 DEF PanelsInv
<1>3. Head(frames) \in FrameType
  BY <1>1, <1>2
<1>4. CASE Head(frames) # Return
  <2>1. focus' # "body"
    BY <1>3, <1>4 DEF W!Frame, FrameType, Return, W!Entrance
  <2> QED
    BY <1>1, <1>2, <2>1 DEF PanelsInv
<1>5. CASE Head(frames) = Return
  <2> DEFINE back == opener["cedar"]
  <2>1. focus' = CASE back # "body" /\ W!Shown(back) -> back
                   [] ~(back # "body" /\ W!Shown(back)) /\ W!Shown("launcher") -> "launcher"
                   [] OTHER -> focus
    BY <1>1, <1>5 DEF W!Frame, Return, W!Restored, W!Shown, W!Present, W!LauncherAway, W!Within, W!MenusHere,
                      W!MastMenus, W!BarMenus
  <2>2. \A panel : W!WayBack(panel)' <=> W!WayBack(panel)
    BY <1>1 DEF W!WayBack, W!Shown, W!Present, W!LauncherAway, W!Within, W!MenusHere, W!MastMenus, W!BarMenus
  <2>3. ASSUME NEW panel \in keptNote, W!WayBack(panel) PROVE focus' # "body"
    <3>1. CASE focus # "body"
      BY <2>1, <3>1
    <3>2. CASE focus = "body"
      <4>1. panel = "cedar"
        BY <2>3, <3>2 DEF PanelsInv
      <4>2. W!Shown(back) \/ W!Shown("launcher")
        BY <2>3, <4>1 DEF W!WayBack, PanelsInv
      <4>3. W!Shown(back) => back # "body"
        BY BodyIsNoControl DEF PanelsInv
      <4> QED
        BY <2>1, <4>2, <4>3
    <3> QED
      BY <3>1, <3>2
  <2> QED
    BY <1>1, <1>2, <2>2, <2>3 DEF PanelsInv
<1> QED
  BY <1>4, <1>5

LEMMA StepKeepsPanels == PanelsInv /\ [W!Next]_W!vars => PanelsInv'
<1> SUFFICES ASSUME PanelsInv, [W!Next]_W!vars PROVE PanelsInv'
  OBVIOUS
<1>1. ASSUME NEW c \in W!Controls, W!Tab(c) PROVE PanelsInv'
  BY <1>1 DEF W!Tab, W!pageVars, PanelsInv
<1>2. ASSUME NEW c \in W!Controls, NEW mouse \in BOOLEAN, W!Press(c, mouse) PROVE PanelsInv'
  BY <1>2, PressKeepsPanels
<1>3. CASE W!PointElsewhere
  <2>1. open' \subseteq W!Panels /\ keptNote' = {} /\ W!Settles("body") /\ W!Frames(FALSE, FALSE)
    BY <1>3 DEF W!PointElsewhere, PanelsInv
  <2> QED
    BY <2>1, SettlesOn, FramesStay DEF PanelsInv
<1>4. CASE W!Escape
  BY <1>4, EscapeKeepsPanels
<1>5. CASE W!Frame
  BY <1>5, FrameKeepsPanels
<1>6. ASSUME NEW drawn, W!Left(drawn), open' \subseteq open PROVE PanelsInv'
  <2>1. W!Frames(FALSE, drawn) /\ keptNote' = {}
    BY <1>6 DEF W!Left
  <2>2. PICK had : W!Settles(had)
    BY <1>6 DEF W!Left
  <2> QED
    BY <1>6, <2>1, <2>2, SettlesOn, FramesStay DEF PanelsInv
<1>7. ASSUME NEW slot, W!Scroll(slot) PROVE PanelsInv'
  BY <1>6, <1>7 DEF W!Scroll
<1>8. CASE W!Turn
  BY <1>6, <1>8 DEF W!Turn
<1>9. CASE W!Records
  BY <1>6, <1>9 DEF W!Records
<1>10. CASE W!NoteRises
  <2>1. UNCHANGED <<open, opener, frames>> /\ keptNote' = {}
    BY <1>10 DEF W!NoteRises
  <2> QED
    BY <2>1 DEF PanelsInv
<1>11. CASE W!NewPage
  BY <1>11 DEF W!NewPage, PanelsInv
<1>12. CASE UNCHANGED W!vars
  <2>1. UNCHANGED <<open, opener, frames, keptNote, focus>>
    BY <1>12 DEF W!vars
  <2>2. \A panel : W!WayBack(panel)' <=> W!WayBack(panel)
    BY <1>12 DEF W!vars, W!pageVars, W!WayBack, W!Shown, W!Present, W!LauncherAway, W!Within, W!MenusHere,
                 W!MastMenus, W!BarMenus
  <2> QED
    BY <2>1, <2>2 DEF PanelsInv
<1> QED
  BY <1>1, <1>2, <1>3, <1>4, <1>5, <1>7, <1>8, <1>9, <1>10, <1>11, <1>12 DEF W!Next

(* Whatever opens, closes and is scrolled away, and for however long: a      *)
(* reader who closed Cedar, a profile, a menu or a picker from the keyboard  *)
(* is left on a control, and a greeting that was answered stays away         *)
(* (focusReturn.js, useDismissable.jsx, CedarGreeting.jsx).                  *)
THEOREM NobodyIsStranded == W!Spec => []W!FocusReturns /\ []W!GreetsOnce
<1>1. W!Init => PanelsInv /\ GreetInv
  BY InitPanels
<1>2. PanelsInv /\ [W!Next]_W!vars => PanelsInv'
  BY StepKeepsPanels
<1>3. GreetInv /\ [W!Next]_W!vars => GreetInv'
  BY GreetingKeeps
<1>4. PanelsInv => W!FocusReturns
  BY DEF PanelsInv, W!FocusReturns
<1>5. GreetInv => W!GreetsOnce
  BY DEF GreetInv, W!GreetsOnce
<1> QED
  BY <1>1, <1>2, <1>3, <1>4, <1>5, PTL DEF W!Spec

-----------------------------------------------------------------------------
(* The tab that signs in, sells and confirms.                                *)

Payments == {"open", "complete", "sent"}
Confirming == {"complete", "sent"}
PageFormType == [step : {"signin", "forgot", "reset", "change"}, held : SUBSET {"reset", "change"},
                 link : SetUpLinks \cup {None},
                 shown : SetUpLinks \cup Payments \cup {None, "plans", "billing"},
                 busy : BOOLEAN, error : BOOLEAN, done : BOOLEAN, polls : Nat, timer : BOOLEAN]
ReplyType == [kind : {"none", "ok", "refused", "lost"},
              value : TabTiers \cup SetUpLinks \cup Payments \cup {None, "billing"}]
AccountOps == {"me", "refresh", "login", "logout", "reset", "change", "create", "setup", "forgot", "plans",
               "checkout", "billing", "reload", "poll", "resend"}
AccountCalls == [op : AccountOps, arg : SetUpLinks \cup {None, "reset", "change"},
                 then : {None, "reset", "change", "create", "retry", "billing"}, life : Nat, reply : ReplyType]
ABag(wired) == wired \in [DOMAIN wired -> Nat \ {0}]

(* A call made from the page on screen is one that page makes; a poll waits  *)
(* for the one before it, and the buttons for a checkout.                    *)
CallIsHere(c, pg, f) ==
  /\ c.op \in {"forgot", "login", "reset", "change"} => pg = "login"
  /\ c.op = "refresh" /\ c.then \in {"reset", "change"} => pg = "login"
  /\ c.op \in {"create", "setup"} => pg = "create"
  /\ c.op = "plans" => pg = "plans"
  /\ c.op \in {"billing", "reload"} => pg = "settings"
  /\ c.op \in {"poll", "resend"} => pg = "confirm"
  /\ c.op = "checkout" => pg \in {"plans", "settings"} /\ f.busy
  /\ c.op = "poll" => ~f.timer /\ (c.reply.kind = "ok" /\ f.shown \in Confirming => c.reply.value \in Confirming)
  /\ c.op = "resend" => f.shown \in Confirming

CallFits(c, lf, pg, f, pd) ==
  /\ c \in AccountCalls /\ c.life <= lf
  /\ c.op = "setup" => c.arg \in SetUpLinks /\ (c.reply.kind = "ok" => c.reply.value = c.arg)
  /\ c.op = "poll" /\ c.reply.kind = "ok" =>
       c.reply.value \in Payments /\ (c.reply.value \in Confirming => pd \in Confirming)
  /\ c.op = "resend" /\ c.reply.kind = "ok" => c.reply.value = "sent"
  /\ c.life = lf => CallIsHere(c, pg, f)

(* An address is that of the link held; a payment confirmed is paid.         *)
FormFits(pg, f, pd) ==
  /\ f \in PageFormType
  /\ pg = "create" /\ f.shown # None => f.shown = f.link
  /\ pg = "confirm" /\ f.shown \in Confirming => pd \in Confirming

OneAtATime(wired, lf) ==
  \A c \in DOMAIN wired : c.life = lf /\ c.op \in {"poll", "checkout"} =>
    wired[c] = 1 /\ \A d \in DOMAIN wired : d.life = lf /\ d.op = c.op => d = c

NoneOf(op, wired, lf) == \A c \in DOMAIN wired : ~(c.op = op /\ c.life = lf)

(* The page that opened Stripe's keeps its buttons.                          *)
LeftFor(wired, lf, pg, f, lv) ==
  /\ lv \in Nat /\ lv <= lf
  /\ lv = lf => pg \notin {"login", "create", "confirm"} /\ f.busy /\ NoneOf("checkout", wired, lf)

TabFits(wired, lf, pg, f, pd, lv) ==
  /\ ABag(wired) /\ lf \in Nat \ {0} /\ pd \in Payments
  /\ FormFits(pg, f, pd)
  /\ \A c \in DOMAIN wired : CallFits(c, lf, pg, f, pd)
  /\ OneAtATime(wired, lf)
  /\ LeftFor(wired, lf, pg, f, lv)

TabInv == TabFits(wire, life, tabPage, form, paid, leaving) /\ tier \in TabTiers

----------------------------------------------------------------------------
(* Bags, and what fits after a call more or less, or another form.           *)

LEMMA BagAdded ==
  ASSUME NEW B, NEW x, ABag(B)
  PROVE  /\ ABag(A!BagAdd(B, x)) /\ DOMAIN A!BagAdd(B, x) = DOMAIN B \cup {x}
         /\ \A y \in DOMAIN B : y # x => A!BagAdd(B, x)[y] = B[y]
         /\ x \notin DOMAIN B => A!BagAdd(B, x)[x] = 1
<1>1. CASE x \in DOMAIN B
  <2> DEFINE more == [e \in DOMAIN B |-> IF e = x THEN B[e] + 1 ELSE B[e]]
  <2>1. A!BagAdd(B, x) = more
    BY <1>1 DEF A!BagAdd
  <2>2. \A e \in DOMAIN B : B[e] \in Nat \ {0}
    BY DEF ABag
  <2>3. \A e \in DOMAIN B : more[e] \in Nat \ {0}
    BY <2>2
  <2>4. DOMAIN more = DOMAIN B /\ more \in [DOMAIN B -> Nat \ {0}]
    BY <2>3
  <2>5. DOMAIN B \cup {x} = DOMAIN B
    BY <1>1
  <2>6. \A y \in DOMAIN B : y # x => more[y] = B[y]
    OBVIOUS
  <2> HIDE DEF more
  <2> QED
    BY <1>1, <2>1, <2>4, <2>5, <2>6, Zenon DEF ABag
<1>2. CASE x \notin DOMAIN B
  BY <1>2 DEF A!BagAdd, ABag
<1> QED
  BY <1>1, <1>2

LEMMA BagRemoved ==
  ASSUME NEW B, NEW x, ABag(B)
  PROVE  /\ ABag(A!BagRemove(B, x)) /\ DOMAIN A!BagRemove(B, x) \subseteq DOMAIN B
         /\ \A y \in DOMAIN B : y # x => y \in DOMAIN A!BagRemove(B, x) /\ A!BagRemove(B, x)[y] = B[y]
         /\ x \in DOMAIN A!BagRemove(B, x) => B[x] # 1
<1>1. CASE x \in DOMAIN B /\ B[x] = 1
  BY <1>1 DEF A!BagRemove, ABag
<1>2. CASE x \in DOMAIN B /\ B[x] # 1
  BY <1>2 DEF A!BagRemove, ABag
<1>3. CASE x \notin DOMAIN B
  BY <1>3 DEF A!BagRemove, ABag
<1> QED
  BY <1>1, <1>2, <1>3

LEMMA MoreFits ==
  ASSUME NEW B, NEW lf, NEW pg, NEW f, NEW pd, NEW lv, TabFits(B, lf, pg, f, pd, lv),
         NEW c, CallFits(c, lf, pg, f, pd),
         c.op \in {"poll", "checkout"} /\ c.life = lf => NoneOf(c.op, B, lf),
         c.op = "checkout" /\ c.life = lf => lv # lf
  PROVE  TabFits(A!BagAdd(B, c), lf, pg, f, pd, lv)
<1> DEFINE more == A!BagAdd(B, c)
<1>1. /\ ABag(more) /\ DOMAIN more = DOMAIN B \cup {c}
      /\ \A y \in DOMAIN B : y # c => more[y] = B[y]
      /\ c \notin DOMAIN B => more[c] = 1
  BY BagAdded DEF TabFits
<1> HIDE DEF more
<1>2. OneAtATime(more, lf)
  BY <1>1 DEF TabFits, OneAtATime, NoneOf
<1>3. LeftFor(more, lf, pg, f, lv)
  BY <1>1 DEF TabFits, LeftFor, NoneOf
<1> QED
  BY <1>1, <1>2, <1>3 DEF TabFits, more

LEMMA FewerFit ==
  ASSUME NEW B, NEW lf, NEW pg, NEW f, NEW pd, NEW lv, TabFits(B, lf, pg, f, pd, lv), NEW c \in DOMAIN B
  PROVE  /\ TabFits(A!BagRemove(B, c), lf, pg, f, pd, lv)
         /\ c.op \in {"poll", "checkout"} /\ c.life = lf => NoneOf(c.op, A!BagRemove(B, c), lf)
<1> DEFINE less == A!BagRemove(B, c)
<1>1. /\ ABag(less) /\ DOMAIN less \subseteq DOMAIN B
      /\ \A y \in DOMAIN B : y # c => y \in DOMAIN less /\ less[y] = B[y]
      /\ c \in DOMAIN less => B[c] # 1
  BY BagRemoved DEF TabFits
<1> HIDE DEF less
<1>2. OneAtATime(less, lf)
  BY <1>1 DEF TabFits, OneAtATime
<1>3. LeftFor(less, lf, pg, f, lv)
  BY <1>1 DEF TabFits, LeftFor, NoneOf
<1>4. c.op \in {"poll", "checkout"} /\ c.life = lf => NoneOf(c.op, less, lf)
  BY <1>1 DEF TabFits, OneAtATime, NoneOf
<1> QED
  BY <1>1, <1>2, <1>3, <1>4 DEF TabFits, less

LEMMA WithoutFits ==
  ASSUME NEW B, NEW lf, NEW pg, NEW f, NEW pd, NEW lv, TabFits(B, lf, pg, f, pd, lv), NEW ops
  PROVE  TabFits(A!Without(B, ops), lf, pg, f, pd, lv)
<1> DEFINE less == A!Without(B, ops)
<1>1. ABag(less) /\ DOMAIN less \subseteq DOMAIN B /\ \A y \in DOMAIN less : less[y] = B[y]
  BY DEF TabFits, ABag, A!Without
<1> HIDE DEF less
<1> QED
  BY <1>1 DEF TabFits, OneAtATime, LeftFor, NoneOf, less

LEMMA FormChanged ==
  ASSUME NEW B, NEW lf, NEW pg, NEW f, NEW pd, NEW lv, TabFits(B, lf, pg, f, pd, lv),
         NEW g, FormFits(pg, g, pd), NEW lw, LeftFor(B, lf, pg, g, lw),
         \A c \in DOMAIN B : c.life = lf => CallIsHere(c, pg, g)
  PROVE  TabFits(B, lf, pg, g, pd, lw)
  BY DEF TabFits, CallFits

LEMMA PaidRises ==
  ASSUME NEW B, NEW lf, NEW pg, NEW f, NEW pd, NEW lv, TabFits(B, lf, pg, f, pd, lv),
         NEW qd \in Payments, pd \in Confirming => qd \in Confirming
  PROVE  TabFits(B, lf, pg, f, qd, lv)
  BY DEF TabFits, FormFits, CallFits

(* A page that mounts starts afresh, and no call is its own yet.             *)
LEMMA FreshFits ==
  ASSUME A!SignInAssumption, NEW B, NEW lf, NEW pg, NEW f, NEW pd, NEW lv, TabFits(B, lf, pg, f, pd, lv), NEW q
  PROVE  /\ TabFits(B, lf + 1, q, A!Fresh, pd, lv)
         /\ \A c \in DOMAIN B : c.life # lf + 1
         /\ lv # lf + 1
<1>1. A!Fresh \in PageFormType /\ A!Fresh.shown = None /\ None \notin Confirming
  BY DEF A!Fresh, PageFormType, A!SignInAssumption, Confirming
<1>2. lf \in Nat /\ \A c \in DOMAIN B : c.life \in Nat /\ c.life <= lf
  BY DEF TabFits, CallFits, AccountCalls
<1>3. FormFits(q, A!Fresh, pd)
  BY <1>1 DEF FormFits
<1>4. \A c \in DOMAIN B : c.life # lf + 1 /\ c.life <= lf + 1
  BY <1>2
<1>5. LeftFor(B, lf + 1, q, A!Fresh, lv) /\ lv # lf + 1
  BY <1>2 DEF TabFits, LeftFor
<1> QED
  BY <1>2, <1>3, <1>4, <1>5 DEF TabFits, CallFits, OneAtATime

LEMMA NewCallFits ==
  ASSUME NEW op \in AccountOps, NEW arg \in SetUpLinks \cup {None, "reset", "change"},
         NEW then \in {None, "reset", "change", "create", "retry", "billing"},
         NEW at \in Nat, NEW lf, NEW pg, NEW f, NEW pd, at <= lf, op = "setup" => arg \in SetUpLinks,
         at = lf => CallIsHere(A!Call(op, arg, then, at), pg, f)
  PROVE  /\ CallFits(A!Call(op, arg, then, at), lf, pg, f, pd)
         /\ A!Call(op, arg, then, at).op = op /\ A!Call(op, arg, then, at).life = at
<1>1. A!Call(op, arg, then, at) \in AccountCalls
  BY DEF A!Call, AccountCalls, A!NoReply, ReplyType
<1> QED
  BY <1>1 DEF A!Call, A!NoReply, CallFits

(* What a page reads when it mounts, or when its cards do.                   *)
LEMMA ReadsFit ==
  ASSUME NEW B, NEW lf, NEW pg, NEW f, NEW pd, NEW lv, TabFits(B, lf, pg, f, pd, lv),
         pg = "confirm" => NoneOf("poll", B, lf) /\ ~f.timer
  PROVE  TabFits(A!Reads(B, pg, f, lf), lf, pg, f, pd, lv)
<1>1. lf \in Nat /\ f.link \in SetUpLinks \cup {None}
  BY DEF TabFits, FormFits, PageFormType
<1>2. ASSUME NEW op \in {"plans", "poll", "setup", "billing"}, NEW arg \in SetUpLinks \cup {None},
             op = "setup" => arg \in SetUpLinks,
             pg = CASE op = "plans" -> "plans" [] op = "poll" -> "confirm" [] op = "setup" -> "create"
                    [] op = "billing" -> "settings"
      PROVE  TabFits(A!BagAdd(B, A!Call(op, arg, None, lf)), lf, pg, f, pd, lv)
  <2> DEFINE c == A!Call(op, arg, None, lf)
  <2>1. CallIsHere(c, pg, f)
    BY <1>2 DEF A!Call, A!NoReply, CallIsHere
  <2>2. CallFits(c, lf, pg, f, pd) /\ c.op = op
    <3>1. op \in AccountOps /\ arg \in SetUpLinks \cup {None, "reset", "change"} /\ lf \in Nat /\ lf <= lf
          /\ None \in {None, "reset", "change", "create", "retry", "billing"}
      BY <1>1, <1>2 DEF AccountOps
    <3>2. op = "setup" => arg \in SetUpLinks
      BY <1>2
    <3> QED
      BY <2>1, <3>1, <3>2, NewCallFits
  <2>3. c.op \in {"poll", "checkout"} => NoneOf(c.op, B, lf)
    BY <1>2, <2>2
  <2> HIDE DEF c
  <2> QED
    BY <1>2, <2>2, <2>3, MoreFits DEF c
<1>3. CASE pg = "plans"
  BY <1>2, <1>3 DEF A!Reads
<1>4. CASE pg = "confirm"
  BY <1>2, <1>4 DEF A!Reads
<1>5. CASE pg = "create" /\ f.link # None
  BY <1>1, <1>2, <1>5 DEF A!Reads
<1>6. CASE pg = "settings"
  BY <1>2, <1>6 DEF A!Reads
<1>7. CASE pg \notin {"plans", "confirm", "settings"} /\ ~(pg = "create" /\ f.link # None)
  BY <1>7 DEF A!Reads
<1> QED
  BY <1>3, <1>4, <1>5, <1>6, <1>7

----------------------------------------------------------------------------
(* The steps.  Each keeps the invariant, and a payment confirmed.            *)

Confirmed(f) == tabPage = "confirm" /\ form.shown \in Confirming => f.shown \in Confirming
StaysRight == TabInv' /\ A!ConfirmedForGood

(* A render of a form that fits, over calls that do; of another page,        *)
(* whatever form it is given.                                                *)
LEMMA RenderFits ==
  ASSUME A!SignInAssumption, NEW wired, NEW f, NEW u, NEW ld, NEW p, NEW h,
         TabFits(wired, life, tabPage, h, paid, leaving'), A!Render(u, ld, p, f, wired), p = tabPage => f = h,
         Confirmed(h), UNCHANGED <<paid, tier>>, tier \in TabTiers
  PROVE  StaysRight
<1> DEFINE q == IF p = "login" /\ ~ld /\ u # None /\ f.step # "change"
                  THEN IF u \in Reading THEN "home" ELSE "settings" ELSE p
           is == A!Cards(q, u, ld)
           another == p # tabPage \/ q # tabPage \/ (tabPage = "settings" /\ A!Cards(tabPage, user, loading)) # is
           stay == A!Without(wired, A!Dropped)
<1>1. /\ tabPage' = q /\ life' = IF another THEN life + 1 ELSE life
      /\ form' = IF another THEN A!Fresh ELSE f
      /\ wire' = IF another
                   THEN IF q # "settings" \/ is THEN A!Reads(stay, q, A!Fresh, life + 1) ELSE stay
                   ELSE IF is /\ (u = None) # (user = None)
                     THEN A!Reads(A!Without(wired, {"billing"}), q, f, life) ELSE wired
  BY DEF A!Render
<1>2. ~another => p = tabPage /\ q = tabPage
  OBVIOUS
<1>3. is => q = "settings"
  BY DEF A!Cards
<1> HIDE DEF q, is, another, stay
<1>4. CASE another
  <2>1. life' # life
    BY <1>1, <1>4 DEF TabFits
  <2>2. TabFits(stay, life, tabPage, h, paid, leaving')
    BY WithoutFits DEF stay
  <2>3. /\ TabFits(stay, life + 1, q, A!Fresh, paid, leaving')
        /\ NoneOf("poll", stay, life + 1)
    BY <2>2, FreshFits DEF NoneOf
  <2>4. ~A!Fresh.timer
    BY DEF A!Fresh
  <2>5. TabFits(A!Reads(stay, q, A!Fresh, life + 1), life + 1, q, A!Fresh, paid, leaving')
    BY <2>3, <2>4, ReadsFit
  <2>6. life' = life + 1 /\ form' = A!Fresh
        /\ (wire' = stay \/ wire' = A!Reads(stay, q, A!Fresh, life + 1))
    BY <1>1, <1>4
  <2>7. TabFits(wire', life', tabPage', form', paid', leaving')
    BY <1>1, <2>3, <2>5, <2>6
  <2> QED
    BY <2>1, <2>7 DEF StaysRight, TabInv, A!ConfirmedForGood
<1>5. CASE ~another
  <2>1. tabPage' = tabPage /\ life' = life /\ form' = f /\ f = h
    BY <1>1, <1>2, <1>5
  <2>2. CASE is /\ (u = None) # (user = None)
    <3>1. wire' = A!Reads(A!Without(wired, {"billing"}), tabPage, f, life) /\ tabPage = "settings"
      BY <1>1, <1>2, <1>3, <1>5, <2>2
    <3>2. TabFits(wire', life, tabPage, f, paid, leaving')
      BY <2>1, <3>1, WithoutFits, ReadsFit
    <3> QED
      BY <2>1, <3>2 DEF StaysRight, TabInv, A!ConfirmedForGood, Confirmed, Confirming
  <2>3. CASE ~(is /\ (u = None) # (user = None))
    <3>1. wire' = wired
      BY <1>1, <1>5, <2>3
    <3> QED
      BY <2>1, <3>1 DEF StaysRight, TabInv, A!ConfirmedForGood, Confirmed, Confirming
  <2> QED
    BY <2>2, <2>3
<1> QED
  BY <1>4, <1>5

(* An answer taken in: the call is gone, and the form it leaves fits.        *)
LEMMA SettledFits ==
  ASSUME A!SignInAssumption, TabInv, NEW c \in DOMAIN wire, NEW g, A!Settle(c, g),
         c.life = life => /\ FormFits(tabPage, g, paid) /\ Confirmed(g)
                          /\ form.busy /\ ~g.busy => tabPage \in {"login", "create", "confirm"}
                          /\ \A d \in DOMAIN A!Rest(c) : d.life = life => CallIsHere(d, tabPage, g)
  PROVE  StaysRight
<1> DEFINE f == IF c.life = life THEN g ELSE form
<1>1. A!Render(user, loading, tabPage, f, A!Rest(c)) /\ UNCHANGED <<paid, tier, leaving>>
  BY DEF A!Settle, A!Mine, A!service
<1>2. TabFits(A!Rest(c), life, tabPage, form, paid, leaving)
  BY FewerFit DEF A!Rest, TabInv
<1>3. TabFits(A!Rest(c), life, tabPage, f, paid, leaving) /\ Confirmed(f)
  <2>1. CASE c.life = life
    <3>1. LeftFor(A!Rest(c), life, tabPage, g, leaving)
      <4>1. g.busy \in BOOLEAN /\ form.busy \in BOOLEAN
        BY <1>2, <2>1 DEF TabFits, FormFits, PageFormType
      <4> QED
        BY <1>2, <2>1, <4>1 DEF TabFits, LeftFor
    <3> QED
      BY <1>2, <2>1, <3>1, FormChanged
  <2>2. CASE c.life # life
    BY <1>2, <2>2 DEF Confirmed
  <2> QED
    BY <2>1, <2>2
<1> HIDE DEF f
<1>4. leaving' = leaving
  BY <1>1
<1> QED
  BY <1>1, <1>3, <1>4, RenderFits DEF TabInv

(* A call answered, lost or refused: it is still what it was.                *)
LEMMA RepliedFits ==
  ASSUME A!SignInAssumption, TabInv, NEW c \in DOMAIN wire, NEW reply \in ReplyType, A!Replied(c, reply),
         UNCHANGED <<tabPage, life, form, leaving>>, tier' \in TabTiers, paid' \in Payments,
         paid \in Confirming => paid' \in Confirming,
         reply.kind = "ok" =>
           /\ c.op = "setup" => reply.value = c.arg
           /\ c.op = "poll" => reply.value = paid
           /\ c.op = "resend" => reply.value = "sent"
  PROVE  StaysRight
<1> DEFINE d == [c EXCEPT !.reply = reply]
<1>1. c \in AccountCalls
  BY DEF TabInv, TabFits, CallFits
<1>2. /\ d \in AccountCalls /\ d.op = c.op /\ d.arg = c.arg /\ d.then = c.then /\ d.life = c.life
      /\ d.reply = reply
  BY <1>1 DEF AccountCalls
<1> HIDE DEF d
<1>3. TabFits(A!Rest(c), life, tabPage, form, paid, leaving)
      /\ (c.op \in {"poll", "checkout"} /\ c.life = life => NoneOf(c.op, A!Rest(c), life))
  BY FewerFit DEF A!Rest, TabInv
<1>4. CallFits(d, life, tabPage, form, paid)
  BY <1>2 DEF TabInv, TabFits, CallFits, CallIsHere, FormFits
<1>5. c.op = "checkout" /\ c.life = life => leaving # life
  BY DEF TabInv, TabFits, LeftFor, NoneOf
<1>6. d.op = "checkout" /\ d.life = life => leaving # life
  BY <1>2, <1>5
<1>7. TabFits(A!BagAdd(A!Rest(c), d), life, tabPage, form, paid, leaving)
  BY <1>2, <1>3, <1>4, <1>6, MoreFits
<1>8. wire' = A!BagAdd(A!Rest(c), d)
  BY DEF A!Replied, d
<1>9. TabFits(wire', life, tabPage, form, paid', leaving)
  BY <1>7, <1>8, PaidRises
<1> QED
  BY <1>9 DEF StaysRight, TabInv, A!ConfirmedForGood, Confirming

LEMMA AnsweringFits ==
  ASSUME A!SignInAssumption, TabInv, NEW c \in DOMAIN wire, A!Serve(c) \/ A!Lose(c) \/ A!Refuse(c)
  PROVE  StaysRight
<1>1. c \in AccountCalls /\ tier \in TabTiers /\ paid \in Payments
      /\ (c.op = "setup" => c.arg \in SetUpLinks)
  BY DEF TabInv, TabFits, CallFits
<1>2. A!Refused \in ReplyType /\ A!Lost \in ReplyType /\ A!Refused.kind # "ok" /\ A!Lost.kind # "ok"
  BY DEF A!Refused, A!Lost, ReplyType
<1>3. \A v \in TabTiers \cup SetUpLinks \cup Payments \cup {None, "billing"} :
        A!Ok(v) \in ReplyType /\ A!Ok(v).value = v
  BY DEF A!Ok, ReplyType
<1>4. CASE A!Lose(c)
  <2>1. A!Replied(c, A!Lost) /\ UNCHANGED <<tabPage, life, form, leaving, tier, paid>>
    BY <1>4 DEF A!Lose, A!service
  <2> QED
    BY <1>1, <1>2, <2>1, RepliedFits
<1>5. CASE A!Refuse(c)
  <2>1. A!Replied(c, A!Refused) /\ UNCHANGED <<tabPage, life, form, leaving, tier, paid>>
    BY <1>5 DEF A!Refuse, A!service
  <2> QED
    BY <1>1, <1>2, <2>1, RepliedFits
<1>6. CASE A!Serve(c)
  <2> USE DEF A!Serve, A!service
  <2>0. UNCHANGED <<tabPage, life, form, leaving>>
    BY <1>6
  <2>1. CASE c.op \in {"me", "refresh"}
    <3>1. PICK v \in TabTiers \cup {None} : A!Replied(c, A!Ok(v))
      BY <1>1, <1>6, <2>1
    <3>2. UNCHANGED <<tier, paid>>
      BY <1>6, <2>1
    <3> QED
      BY <1>1, <1>3, <2>0, <2>1, <3>1, <3>2, RepliedFits
  <2>2. CASE c.op \in {"login", "logout"}
    <3>1. A!Replied(c, A!Ok(tier)) /\ UNCHANGED <<tier, paid>>
      BY <1>6, <2>2
    <3> QED
      BY <1>1, <1>3, <2>0, <2>2, <3>1, RepliedFits
  <2>3. CASE c.op \in {"reset", "change", "create"}
    <3>1. (A!Replied(c, A!Ok(tier)) \/ A!Replied(c, A!Refused)) /\ UNCHANGED <<tier, paid>>
      BY <1>6, <2>3
    <3> QED
      BY <1>1, <1>2, <1>3, <2>0, <2>3, <3>1, RepliedFits
  <2>4. CASE c.op = "setup"
    <3>1. (A!Replied(c, A!Ok(c.arg)) \/ A!Replied(c, A!Refused)) /\ UNCHANGED <<tier, paid>>
      BY <1>6, <2>4
    <3> QED
      BY <1>1, <1>2, <1>3, <2>0, <2>4, <3>1, RepliedFits
  <2>5. CASE c.op \in {"forgot", "plans", "checkout"}
    <3>1. A!Replied(c, A!Ok(None)) /\ UNCHANGED <<tier, paid>>
      BY <1>6, <2>5
    <3> QED
      BY <1>1, <1>3, <2>0, <2>5, <3>1, RepliedFits
  <2>6. CASE c.op \in {"billing", "reload"}
    <3>1. (A!Replied(c, A!Ok("billing")) \/ A!Replied(c, A!Refused)) /\ UNCHANGED <<tier, paid>>
      BY <1>6, <2>6
    <3> QED
      BY <1>1, <1>2, <1>3, <2>0, <2>6, <3>1, RepliedFits
  <2>7. CASE c.op = "poll"
    <3>1. A!Replied(c, A!Ok(paid)) /\ UNCHANGED <<tier, paid>>
      BY <1>6, <2>7
    <3> QED
      BY <1>1, <1>3, <2>0, <2>7, <3>1, RepliedFits
  <2>8. CASE c.op = "resend"
    <3>1. A!Replied(c, A!Ok("sent")) /\ paid' = "sent" /\ UNCHANGED tier
      BY <1>6, <2>8
    <3>2. "sent" \in Payments /\ "sent" \in Confirming
      BY DEF Payments, Confirming
    <3> QED
      BY <1>1, <1>3, <2>0, <2>8, <3>1, <3>2, RepliedFits
  <2> QED
    BY <1>1, <2>1, <2>2, <2>3, <2>4, <2>5, <2>6, <2>7, <2>8 DEF AccountCalls, AccountOps
<1> QED
  BY <1>4, <1>5, <1>6

----------------------------------------------------------------------------
(* The answers.                                                              *)

LEMMA RestFits ==
  ASSUME TabInv, NEW c \in DOMAIN wire
  PROVE  /\ TabFits(A!Rest(c), life, tabPage, form, paid, leaving)
         /\ c.op \in {"poll", "checkout"} /\ c.life = life => NoneOf(c.op, A!Rest(c), life)
         /\ CallFits(c, life, tabPage, form, paid) /\ FormFits(tabPage, form, paid)
         /\ c.reply \in ReplyType /\ form \in PageFormType
         /\ \A d \in DOMAIN A!Rest(c) : d.life = life => CallIsHere(d, tabPage, form)
<1>1. TabFits(A!Rest(c), life, tabPage, form, paid, leaving)
      /\ (c.op \in {"poll", "checkout"} /\ c.life = life => NoneOf(c.op, A!Rest(c), life))
  BY FewerFit DEF A!Rest, TabInv
<1> QED
  BY <1>1 DEF TabInv, TabFits, CallFits, FormFits, AccountCalls

(* The session's own answers: the form is left, or lets go on its own page.  *)
LEMMA SessionFits ==
  ASSUME A!SignInAssumption, TabInv, NEW c \in DOMAIN wire, NEW u, NEW ld, NEW p, NEW f,
         A!Render(u, ld, p, f, A!Rest(c)), UNCHANGED <<paid, tier, leaving>>,
         \/ f = form
         \/ /\ tabPage = "login" /\ f \in PageFormType /\ f.shown = form.shown /\ f.link = form.link
            /\ f.timer = form.timer
  PROVE  StaysRight
<1>1. TabFits(A!Rest(c), life, tabPage, form, paid, leaving)
      /\ \A d \in DOMAIN A!Rest(c) : d.life = life => CallIsHere(d, tabPage, form)
  BY RestFits
<1>2. CASE f = form
  BY <1>1, <1>2, RenderFits DEF TabInv, Confirmed
<1>3. CASE f # form
  <2>1. tabPage = "login" /\ f \in PageFormType
    BY <1>3
  <2>2. FormFits(tabPage, f, paid) /\ LeftFor(A!Rest(c), life, tabPage, f, leaving) /\ Confirmed(f)
        /\ \A d \in DOMAIN A!Rest(c) : d.life = life => CallIsHere(d, tabPage, f)
    BY <1>1, <2>1 DEF TabFits, FormFits, LeftFor, CallIsHere, Confirmed
  <2>3. TabFits(A!Rest(c), life, tabPage, f, paid, leaving)
    BY <1>1, <2>2, FormChanged
  <2>4. leaving' = leaving
    OBVIOUS
  <2> QED
    BY <2>2, <2>3, <2>4, RenderFits DEF TabInv
<1> QED
  BY <1>2, <1>3

LEMMA ProviderFits ==
  ASSUME A!SignInAssumption, TabInv, NEW c \in DOMAIN wire,
         A!MountChecked(c) \/ A!Refreshed(c) \/ A!SignedIn(c) \/ A!SignedOut(c)
  PROVE  StaysRight
<1>0. CallFits(c, life, tabPage, form, paid) /\ form \in PageFormType /\ c.reply \in ReplyType
  BY RestFits
<1>1. CASE A!MountChecked(c)
  BY <1>1, SessionFits DEF A!MountChecked, A!service
<1>2. CASE A!SignedOut(c)
  BY <1>2, SessionFits DEF A!SignedOut, A!service
<1>3. CASE A!SignedIn(c)
  <2> DEFINE f == IF A!Mine(c) THEN [form EXCEPT !.busy = FALSE, !.error = c.reply.kind # "ok"] ELSE form
  <2>1. \/ f = form
        \/ /\ tabPage = "login" /\ f \in PageFormType /\ f.shown = form.shown /\ f.link = form.link
           /\ f.timer = form.timer
    <3>1. CASE A!Mine(c)
      <4>1. tabPage = "login"
        BY <1>0, <1>3, <3>1 DEF A!SignedIn, A!Mine, CallFits, CallIsHere
      <4>2. (c.reply.kind # "ok") \in BOOLEAN
        OBVIOUS
      <4> QED
        BY <1>0, <3>1, <4>1, <4>2 DEF PageFormType
    <3> QED
      BY <3>1
  <2>2. \E u, ld, p : A!Render(u, ld, p, f, A!Rest(c))
    <3> HIDE DEF f
    <3>1. \/ A!Render(c.reply.value, loading, IF c.reply.value \in Reading THEN tabPage ELSE "settings", f, A!Rest(c))
          \/ A!Render(user, loading, tabPage, f, A!Rest(c))
      BY <1>3, Zenon DEF A!SignedIn, f
    <3> QED
      BY <3>1
  <2>3. UNCHANGED <<paid, tier, leaving>>
    BY <1>3 DEF A!SignedIn, A!service
  <2> HIDE DEF f
  <2> QED
    BY <2>1, <2>2, <2>3, SessionFits
<1>4. CASE A!Refreshed(c)
  <2> DEFINE mine == A!Mine(c)
             f == CASE mine /\ c.then = "reset" -> [form EXCEPT !.busy = FALSE]
                    [] mine /\ c.then = "change" ->
                         [form EXCEPT !.busy = FALSE, !.step = "signin", !.error = FALSE, !.done = FALSE]
                    [] OTHER -> form
  <2>1. \/ f = form
        \/ /\ tabPage = "login" /\ f \in PageFormType /\ f.shown = form.shown /\ f.link = form.link
           /\ f.timer = form.timer
    <3>1. CASE mine /\ c.then \in {"reset", "change"}
      <4>1. tabPage = "login"
        BY <1>0, <1>4, <3>1 DEF A!Refreshed, A!Mine, CallFits, CallIsHere
      <4>2. CASE c.then = "reset"
        BY <1>0, <3>1, <4>1, <4>2 DEF PageFormType
      <4>3. CASE c.then = "change"
        <5>1. f = [form EXCEPT !.busy = FALSE, !.step = "signin", !.error = FALSE, !.done = FALSE]
          BY <3>1, <4>3
        <5> QED
          BY <1>0, <4>1, <5>1 DEF PageFormType
      <4> QED
        BY <3>1, <4>2, <4>3
    <3>2. CASE ~(mine /\ c.then \in {"reset", "change"})
      BY <3>2
    <3> QED
      BY <3>1, <3>2
  <2>2. \E u, ld, p : A!Render(u, ld, p, f, A!Rest(c))
    <3>1. A!Render(c.reply.value, FALSE, IF c.then = "create" THEN "home" ELSE tabPage, f, A!Rest(c))
      BY <1>4 DEF A!Refreshed
    <3> QED
      BY <3>1
  <2>3. UNCHANGED <<paid, tier, leaving>>
    BY <1>4 DEF A!Refreshed, A!service
  <2> HIDE DEF f
  <2> QED
    BY <2>1, <2>2, <2>3, SessionFits
<1> QED
  BY <1>1, <1>2, <1>3, <1>4

LEMMA PagesFit ==
  ASSUME A!SignInAssumption, TabInv, NEW c \in DOMAIN wire,
         \/ A!ResetAsked(c) \/ A!LinkUsed(c) \/ A!SetUpChecked(c) \/ A!PlansRead(c) \/ A!BillingRead(c)
         \/ A!Polled(c) \/ A!Resent(c)
  PROVE  StaysRight
<1>0. /\ CallFits(c, life, tabPage, form, paid) /\ FormFits(tabPage, form, paid) /\ form \in PageFormType
      /\ c.reply \in ReplyType /\ (c.life = life => CallIsHere(c, tabPage, form))
      /\ c.op = "poll" /\ c.life = life => NoneOf("poll", A!Rest(c), life)
      /\ \A d \in DOMAIN A!Rest(c) : d.life = life => CallIsHere(d, tabPage, form)
  BY RestFits DEF CallFits
\* A form that only lets go, or says what failed, on a page of no checkout.
<1>1. ASSUME NEW g, A!Settle(c, g), g \in PageFormType, g.shown = form.shown, g.link = form.link,
             g.timer = form.timer, c.life = life => tabPage \in {"login", "create", "confirm"} \/ g.busy = form.busy
      PROVE  StaysRight
  <2>1. FormFits(tabPage, g, paid) /\ Confirmed(g)
    BY <1>0, <1>1 DEF FormFits, Confirmed
  <2>2. c.life = life => \A d \in DOMAIN A!Rest(c) : d.life = life => CallIsHere(d, tabPage, g)
    BY <1>0, <1>1 DEF CallIsHere
  <2> QED
    BY <1>1, <2>1, <2>2, SettledFits
<1>2. CASE A!ResetAsked(c)
  <2> DEFINE g == IF c.reply.kind = "ok" THEN [form EXCEPT !.busy = FALSE, !.done = TRUE]
                  ELSE [form EXCEPT !.busy = FALSE, !.error = TRUE]
  <2>1. g \in PageFormType /\ g.shown = form.shown /\ g.link = form.link /\ g.timer = form.timer
    BY <1>0 DEF PageFormType
  <2>2. A!Settle(c, g) /\ c.op = "forgot"
    BY <1>2 DEF A!ResetAsked
  <2> QED
    BY <1>0, <1>1, <2>1, <2>2 DEF CallIsHere
<1>3. CASE A!LinkUsed(c) /\ c.reply.kind # "ok"
  <2> DEFINE g == [form EXCEPT !.busy = FALSE, !.error = TRUE]
  <2>1. g \in PageFormType /\ g.shown = form.shown /\ g.link = form.link /\ g.timer = form.timer
    BY <1>0 DEF PageFormType
  <2>2. A!Settle(c, g) /\ c.op \in {"reset", "change", "create"}
    BY <1>3 DEF A!LinkUsed
  <2> QED
    BY <1>0, <1>1, <2>1, <2>2 DEF CallIsHere
<1>4. CASE A!LinkUsed(c) /\ c.reply.kind = "ok"
  <2> DEFINE d == A!Call("refresh", None, c.op, c.life)
  <2>1. /\ wire' = A!BagAdd(A!Rest(c), d) /\ c.op \in {"reset", "change", "create"}
        /\ UNCHANGED <<tabPage, life, form, leaving, tier, paid>>
    BY <1>4 DEF A!LinkUsed, A!service
  <2>2. CallIsHere(c, tabPage, form) => CallIsHere(d, tabPage, form)
    BY <2>1 DEF CallIsHere, A!Call, A!NoReply
  <2>3. c.life \in Nat /\ c.life <= life
    BY <1>0 DEF CallFits, AccountCalls
  <2>4. CallFits(d, life, tabPage, form, paid) /\ d.op = "refresh"
    <3>1. "refresh" \in AccountOps /\ None \in SetUpLinks \cup {None, "reset", "change"}
          /\ c.op \in {None, "reset", "change", "create", "retry", "billing"}
      BY <2>1 DEF AccountOps
    <3>2. c.life = life => CallIsHere(d, tabPage, form)
      BY <1>0, <2>2
    <3>3. d \in AccountCalls /\ d.op = "refresh" /\ d.life = c.life
      BY <2>3, <3>1 DEF A!Call, AccountCalls, A!NoReply, ReplyType
    <3> HIDE DEF d
    <3> QED
      BY <2>3, <3>2, <3>3 DEF CallFits
  <2> HIDE DEF d
  <2>5. TabFits(wire', life, tabPage, form, paid, leaving)
    BY <2>1, <2>4, RestFits, MoreFits
  <2> QED
    BY <2>1, <2>5 DEF StaysRight, TabInv, A!ConfirmedForGood, Confirming
<1>5. CASE A!SetUpChecked(c)
  <2> DEFINE g == IF c.arg # form.link THEN form
                  ELSE IF c.reply.kind = "ok" THEN [form EXCEPT !.shown = c.reply.value, !.error = FALSE]
                  ELSE [form EXCEPT !.error = TRUE]
  <2>1. A!Settle(c, g) /\ c.op = "setup"
    BY <1>5 DEF A!SetUpChecked
  <2>2. CASE c.arg = form.link /\ c.reply.kind = "ok"
    <3>1. c.reply.value = form.link /\ form.link \in SetUpLinks
      BY <1>0, <2>1, <2>2 DEF CallFits
    <3>2. g = [form EXCEPT !.shown = c.reply.value, !.error = FALSE]
      BY <2>2
    <3>3. g \in PageFormType /\ g.shown = form.link /\ g.link = form.link /\ g.timer = form.timer /\ g.busy = form.busy
      BY <1>0, <3>1, <3>2 DEF PageFormType
    <3> HIDE DEF g
    <3>4. c.life = life => tabPage = "create"
      BY <1>0, <2>1 DEF CallIsHere
    <3>5. c.life = life => FormFits(tabPage, g, paid) /\ Confirmed(g)
      BY <3>3, <3>4 DEF FormFits, Confirmed
    <3>6. c.life = life => \A d \in DOMAIN A!Rest(c) : d.life = life => CallIsHere(d, tabPage, g)
      BY <1>0, <3>3, <3>4 DEF CallIsHere
    <3> QED
      BY <2>1, <3>3, <3>4, <3>5, <3>6, SettledFits
  <2>3. CASE ~(c.arg = form.link /\ c.reply.kind = "ok")
    <3>1. g \in PageFormType /\ g.shown = form.shown /\ g.link = form.link /\ g.timer = form.timer
          /\ g.busy = form.busy
      BY <1>0, <2>3 DEF PageFormType
    <3> QED
      BY <1>1, <2>1, <3>1
  <2> QED
    BY <2>2, <2>3
<1>6. CASE A!PlansRead(c) \/ A!BillingRead(c)
  <2>1. PICK word \in {"plans", "billing"}, wrong \in BOOLEAN :
          A!Settle(c, IF c.reply.kind = "ok" THEN [form EXCEPT !.shown = word, !.error = wrong]
                      ELSE [form EXCEPT !.error = TRUE])
    <3>1. CASE A!PlansRead(c)
      <4>1. [form EXCEPT !.shown = "plans"] = [form EXCEPT !.shown = "plans", !.error = form.error]
        BY <1>0 DEF PageFormType
      <4>2. form.error \in BOOLEAN
        BY <1>0 DEF PageFormType
      <4> QED
        BY <3>1, <4>1, <4>2 DEF A!PlansRead
    <3>2. CASE A!BillingRead(c)
      <4>1. PICK wrong \in BOOLEAN : wrong = (form.error /\ c.op = "billing")
        OBVIOUS
      <4>2. [form EXCEPT !.shown = "billing", !.error = (@ /\ c.op = "billing")]
              = [form EXCEPT !.shown = "billing", !.error = wrong]
        BY <4>1
      <4> QED
        BY <3>2, <4>1, <4>2 DEF A!BillingRead
    <3> QED
      BY <1>6, <3>1, <3>2
  <2>2. c.op \in {"plans", "billing", "reload"}
    BY <1>6 DEF A!PlansRead, A!BillingRead
  <2> DEFINE g == IF c.reply.kind = "ok" THEN [form EXCEPT !.shown = word, !.error = wrong]
                  ELSE [form EXCEPT !.error = TRUE]
  <2>3. g \in PageFormType /\ g.link = form.link /\ g.timer = form.timer /\ g.busy = form.busy
    BY <1>0 DEF PageFormType
  <2>4. A!Settle(c, g)
    BY <2>1
  <2> HIDE DEF g
  <2>5. c.life = life => tabPage \in {"plans", "settings"}
    BY <1>0, <2>2 DEF CallIsHere
  <2>6. c.life = life => FormFits(tabPage, g, paid) /\ Confirmed(g)
    BY <2>3, <2>5 DEF FormFits, Confirmed
  <2>7. c.life = life => \A d \in DOMAIN A!Rest(c) : d.life = life => CallIsHere(d, tabPage, g)
    BY <1>0, <2>3, <2>5 DEF CallIsHere
  <2> QED
    BY <2>3, <2>4, <2>6, <2>7, SettledFits
<1>7. CASE A!Polled(c)
  <2>1. c.op = "poll"
    BY <1>7 DEF A!Polled
  <2>2. CASE c.reply.kind # "ok"
    <3> DEFINE g == [form EXCEPT !.error = TRUE]
    <3>1. g \in PageFormType /\ g.shown = form.shown /\ g.link = form.link /\ g.timer = form.timer
          /\ g.busy = form.busy
      BY <1>0 DEF PageFormType
    <3>2. A!Settle(c, g)
      BY <1>7, <2>2 DEF A!Polled
    <3> QED
      BY <1>1, <3>1, <3>2
  <2>3. CASE c.reply.kind = "ok"
    <3>1. PICK more \in BOOLEAN : more = (c.reply.value # "sent" /\ form.polls + 1 < MaxPolls)
      OBVIOUS
    <3> DEFINE g == [form EXCEPT !.shown = c.reply.value, !.polls = @ + 1, !.timer = more]
    <3>2. A!Settle(c, g)
      BY <1>7, <2>3, <3>1 DEF A!Polled
    <3>3. c.reply.value \in Payments /\ (c.reply.value \in Confirming => paid \in Confirming)
      BY <1>0, <2>1, <2>3 DEF CallFits
    <3>4. g \in PageFormType /\ g.shown = c.reply.value /\ g.busy = form.busy
      <4>1. form.polls + 1 \in Nat /\ c.reply.value \in SetUpLinks \cup Payments \cup {None, "plans", "billing"}
        BY <1>0, <3>3 DEF PageFormType
      <4>2. PICK n : n = form.polls + 1
        OBVIOUS
      <4>3. PICK v : v = c.reply.value
        OBVIOUS
      <4>4. g = [form EXCEPT !.shown = v, !.polls = n, !.timer = more]
        BY <4>2, <4>3
      <4> HIDE DEF g
      <4> QED
        BY <1>0, <4>1, <4>2, <4>3, <4>4 DEF PageFormType
    <3> HIDE DEF g
    <3>5. c.life = life => tabPage = "confirm" /\ (form.shown \in Confirming => c.reply.value \in Confirming)
      BY <1>0, <2>1, <2>3 DEF CallIsHere
    <3>6. c.life = life => FormFits(tabPage, g, paid) /\ Confirmed(g)
      BY <3>3, <3>4, <3>5 DEF FormFits, Confirmed
    <3>7. c.life = life => \A d \in DOMAIN A!Rest(c) : d.life = life => CallIsHere(d, tabPage, g)
      BY <1>0, <2>1, <3>4, <3>5 DEF CallIsHere, NoneOf
    <3> QED
      BY <3>2, <3>4, <3>6, <3>7, SettledFits
  <2> QED
    BY <2>2, <2>3
<1>8. CASE A!Resent(c)
  <2>1. c.op = "resend"
    BY <1>8 DEF A!Resent
  <2>2. c.life = life => tabPage = "confirm" /\ form.shown \in Confirming
    BY <1>0, <2>1 DEF CallIsHere
  <2>3. CASE c.reply.kind # "ok"
    <3> DEFINE g == [form EXCEPT !.busy = FALSE, !.error = TRUE]
    <3>1. g \in PageFormType /\ g.shown = form.shown /\ g.link = form.link /\ g.timer = form.timer
      BY <1>0 DEF PageFormType
    <3>2. A!Settle(c, g)
      BY <1>8, <2>3 DEF A!Resent
    <3> QED
      BY <1>1, <2>2, <3>1, <3>2
  <2>4. CASE c.reply.kind = "ok"
    <3> DEFINE g == [form EXCEPT !.busy = FALSE, !.shown = c.reply.value, !.done = TRUE]
    <3>1. A!Settle(c, g)
      BY <1>8, <2>4 DEF A!Resent
    <3>2. c.reply.value = "sent" /\ "sent" \in Payments /\ "sent" \in Confirming
      BY <1>0, <2>1, <2>4 DEF CallFits, Payments, Confirming
    <3>3. g \in PageFormType /\ g.shown = "sent" /\ g.timer = form.timer
      BY <1>0, <3>2 DEF PageFormType
    <3> HIDE DEF g
    <3>4. c.life = life => FormFits(tabPage, g, paid) /\ Confirmed(g)
      BY <1>0, <2>2, <3>2, <3>3 DEF FormFits, Confirmed
    <3>5. c.life = life => \A d \in DOMAIN A!Rest(c) : d.life = life => CallIsHere(d, tabPage, g)
      BY <1>0, <2>2, <3>2, <3>3 DEF CallIsHere
    <3> QED
      BY <2>2, <3>1, <3>4, <3>5, SettledFits
  <2> QED
    BY <2>3, <2>4
<1> QED
  BY <1>2, <1>3, <1>4, <1>5, <1>6, <1>7, <1>8

(* Stripe's page is opened for good, or its page has its buttons back.       *)
LEMMA CheckoutFits ==
  ASSUME A!SignInAssumption, TabInv, NEW c \in DOMAIN wire, A!CheckoutOpened(c)
  PROVE  StaysRight
<1> DEFINE f == IF A!Mine(c) /\ c.reply.kind # "ok" THEN [form EXCEPT !.busy = FALSE, !.error = TRUE] ELSE form
<1>1. /\ A!Render(user, loading, tabPage, f, A!Rest(c)) /\ c.op = "checkout" /\ UNCHANGED <<tier, paid>>
      /\ leaving' = IF c.reply.kind = "ok" THEN c.life ELSE leaving
  BY DEF A!CheckoutOpened, A!service
<1>2. /\ TabFits(A!Rest(c), life, tabPage, form, paid, leaving) /\ form \in PageFormType
      /\ CallFits(c, life, tabPage, form, paid)
      /\ c.life = life => NoneOf("checkout", A!Rest(c), life) /\ form.busy /\ tabPage \in {"plans", "settings"}
      /\ \A d \in DOMAIN A!Rest(c) : d.life = life => CallIsHere(d, tabPage, form)
  BY <1>1, RestFits DEF CallFits, CallIsHere
<1>3. c.life = life => leaving # life
  BY <1>1 DEF TabInv, TabFits, LeftFor, NoneOf
<1>4. c.life \in Nat /\ c.life <= life
  BY <1>2 DEF CallFits, AccountCalls
<1>5. f \in PageFormType /\ f.shown = form.shown /\ f.link = form.link /\ f.timer = form.timer
  BY <1>2 DEF PageFormType
<1>6. f.busy = form.busy \/ (c.life = life /\ c.reply.kind # "ok")
  BY DEF A!Mine
<1> HIDE DEF f
<1>7. FormFits(tabPage, f, paid) /\ Confirmed(f)
  BY <1>2, <1>5 DEF TabFits, FormFits, Confirmed
<1>8. \A d \in DOMAIN A!Rest(c) : d.life = life => CallIsHere(d, tabPage, f)
  <2>1. CASE f.busy = form.busy
    BY <1>2, <1>5, <2>1 DEF CallIsHere
  <2>2. CASE c.life = life
    BY <1>2, <1>5, <2>2 DEF CallIsHere, NoneOf
  <2> QED
    BY <1>6, <2>1, <2>2
<1>9. PICK lw : lw = leaving'
  OBVIOUS
<1>10. LeftFor(A!Rest(c), life, tabPage, f, lw)
  BY <1>1, <1>2, <1>3, <1>4, <1>6, <1>9 DEF TabFits, LeftFor
<1>11. TabFits(A!Rest(c), life, tabPage, f, paid, lw)
  BY <1>2, <1>7, <1>8, <1>10, FormChanged
<1> QED
  BY <1>1, <1>7, <1>9, <1>11, RenderFits DEF TabInv

----------------------------------------------------------------------------
(* What the reader, the timer and the world do.                              *)

\* A call more, on a form that fits.
LEMMA CallAdded ==
  ASSUME NEW B, NEW f, TabFits(B, life, tabPage, f, paid, leaving),
         NEW op \in AccountOps, NEW arg \in SetUpLinks \cup {None, "reset", "change"},
         NEW then \in {None, "reset", "change", "create", "retry", "billing"}, op # "setup",
         CallIsHere(A!Call(op, arg, then, life), tabPage, f),
         op \in {"poll", "checkout"} => NoneOf(op, B, life), op = "checkout" => leaving # life
  PROVE  TabFits(A!BagAdd(B, A!Call(op, arg, then, life)), life, tabPage, f, paid, leaving)
<1> DEFINE d == A!Call(op, arg, then, life)
<1>1. life \in Nat
  BY DEF TabFits
<1>2. d \in AccountCalls /\ d.op = op /\ d.life = life
  BY <1>1 DEF A!Call, AccountCalls, A!NoReply, ReplyType
<1>3. CallIsHere(d, tabPage, f)
  OBVIOUS
<1> HIDE DEF d
<1>4. CallFits(d, life, tabPage, f, paid)
  <2>1. d.op = "setup" => d.arg \in SetUpLinks
    BY <1>2
  <2>2. d.reply.kind # "ok"
    BY DEF d, A!Call, A!NoReply
  <2> QED
    BY <1>1, <1>2, <1>3, <2>1, <2>2 DEF CallFits
<1>5. TabFits(A!BagAdd(B, d), life, tabPage, f, paid, leaving)
  BY <1>2, <1>4, MoreFits
<1> QED
  BY <1>5 DEF d

LEMMA SubmitFits ==
  ASSUME TabInv, NEW op \in AccountOps, NEW arg \in SetUpLinks \cup {None, "reset", "change"}, A!Submit(op, arg),
         \/ op \in {"forgot", "login", "reset", "change"} /\ tabPage = "login"
         \/ op = "create" /\ tabPage = "create"
         \/ op = "checkout" /\ tabPage \in {"plans", "settings"}
         \/ op = "resend" /\ tabPage = "confirm" /\ form.shown \in Confirming
  PROVE  StaysRight
<1> DEFINE g == [form EXCEPT !.busy = TRUE, !.error = FALSE]
<1>1. /\ ~form.busy /\ form' = g /\ wire' = A!BagAdd(wire, A!Call(op, arg, None, life))
      /\ UNCHANGED <<tabPage, life, leaving, tier, paid>>
  BY DEF A!Submit, A!Act, A!service
<1>2. g \in PageFormType /\ g.busy /\ g.shown = form.shown /\ g.link = form.link /\ g.timer = form.timer
  BY DEF TabInv, TabFits, FormFits, PageFormType
<1> HIDE DEF g
<1>3. TabFits(wire, life, tabPage, g, paid, leaving)
  <2>1. FormFits(tabPage, g, paid) /\ LeftFor(wire, life, tabPage, g, leaving)
    BY <1>2 DEF TabInv, TabFits, FormFits, LeftFor
  <2>2. \A c \in DOMAIN wire : c.life = life => CallIsHere(c, tabPage, g)
    BY <1>2 DEF TabInv, TabFits, CallFits, CallIsHere
  <2> QED
    BY <2>1, <2>2, FormChanged DEF TabInv
<1>4. CallIsHere(A!Call(op, arg, None, life), tabPage, g)
  BY <1>2 DEF CallIsHere, A!Call, A!NoReply
<1>5. op = "checkout" => NoneOf(op, wire, life) /\ leaving # life
  BY <1>1 DEF TabInv, TabFits, LeftFor, NoneOf, CallFits, CallIsHere
<1>6. op \notin {"poll", "setup"}
  OBVIOUS
<1>7. TabFits(wire', life, tabPage, g, paid, leaving)
  BY <1>1, <1>3, <1>4, <1>5, <1>6, CallAdded
<1> QED
  BY <1>1, <1>2, <1>7 DEF StaysRight, TabInv, A!ConfirmedForGood, Confirming

\* Another form on the same page, or another page.
LEMMA RenderedFits ==
  ASSUME A!SignInAssumption, TabInv, NEW p, NEW g, A!Render(user, loading, p, g, wire),
         UNCHANGED <<paid, tier, leaving>>,
         \/ g = form
         \/ /\ tabPage = "login" /\ g \in PageFormType /\ g.busy = form.busy
         \/ p # tabPage
  PROVE  StaysRight
<1> DEFINE f == IF p = tabPage THEN g ELSE form
<1>1. TabFits(wire, life, tabPage, f, paid, leaving') /\ Confirmed(f)
  <2>1. CASE f = form
    BY <2>1 DEF TabInv, Confirmed
  <2>2. CASE f # form
    <3>1. tabPage = "login" /\ f \in PageFormType /\ f.busy = form.busy
      BY <2>2
    <3>2. FormFits(tabPage, f, paid) /\ LeftFor(wire, life, tabPage, f, leaving) /\ Confirmed(f)
      BY <3>1 DEF TabInv, TabFits, FormFits, LeftFor, Confirmed
    <3>3. \A c \in DOMAIN wire : c.life = life => CallIsHere(c, tabPage, f)
      BY <3>1 DEF TabInv, TabFits, CallFits, CallIsHere
    <3>4. TabFits(wire, life, tabPage, f, paid, leaving)
      BY <3>2, <3>3, FormChanged DEF TabInv
    <3> QED
      BY <3>2, <3>4
  <2> QED
    BY <2>1, <2>2
<1>2. p = tabPage => g = f
  OBVIOUS
<1> QED
  BY <1>1, <1>2, RenderFits DEF TabInv

LEMMA StartFits == ASSUME A!SignInAssumption, A!Init PROVE TabInv
<1> DEFINE me == A!Call("me", None, None, 1)
           one == [c \in {me} |-> 1]
<1>1. PICK at \in Landings :
        /\ tabPage = at.page
        /\ form = [A!Fresh EXCEPT !.step = IF at.link \in {"reset", "change"} THEN at.link ELSE "signin",
                                  !.held = {at.link} \cap {"reset", "change"},
                                  !.link = IF at.link \in SetUpLinks THEN at.link ELSE None]
        /\ wire = A!Reads(one, tabPage, form, 1)
  BY DEF A!Init, A!Once
<1>2. life = 1 /\ leaving = 0 /\ tier \in TabTiers /\ paid = "open" /\ None \notin Payments
  BY DEF A!Init, A!SignInAssumption, Payments
<1>3. form \in PageFormType /\ form.shown = None /\ ~form.timer
  <2>1. PICK step \in {"signin", "reset", "change"} :
          step = IF at.link \in {"reset", "change"} THEN at.link ELSE "signin"
    OBVIOUS
  <2>2. PICK has \in SUBSET {"reset", "change"} : has = {at.link} \cap {"reset", "change"}
    OBVIOUS
  <2>3. PICK link \in SetUpLinks \cup {None} : link = IF at.link \in SetUpLinks THEN at.link ELSE None
    OBVIOUS
  <2>4. form = [A!Fresh EXCEPT !.step = step, !.held = has, !.link = link]
    BY <1>1, <2>1, <2>2, <2>3
  <2> QED
    BY <2>4 DEF A!Fresh, PageFormType
<1>4. DOMAIN one = {me} /\ ABag(one)
  BY DEF ABag
<1>5. CallFits(me, 1, tabPage, form, paid) /\ me.op = "me"
  <2>1. "me" \in AccountOps /\ None \in SetUpLinks \cup {None, "reset", "change"} /\ 1 \in Nat /\ 1 <= 1
        /\ None \in {None, "reset", "change", "create", "retry", "billing"}
    BY DEF AccountOps
  <2>2. CallIsHere(me, tabPage, form)
    BY DEF CallIsHere, A!Call, A!NoReply
  <2> QED
    BY <2>1, <2>2 DEF CallFits, A!Call, A!NoReply, AccountCalls, ReplyType
<1> HIDE DEF me, one
<1>6. TabFits(one, 1, tabPage, form, paid, 0)
  <2>1. FormFits(tabPage, form, paid)
    BY <1>2, <1>3 DEF FormFits, Confirming, Payments
  <2>2. OneAtATime(one, 1) /\ NoneOf("poll", one, 1)
    BY <1>4, <1>5 DEF OneAtATime, NoneOf
  <2>3. LeftFor(one, 1, tabPage, form, 0)
    BY DEF LeftFor
  <2>4. paid \in Payments /\ 1 \in Nat \ {0}
    BY <1>2 DEF Payments
  <2> QED
    BY <1>4, <1>5, <2>1, <2>2, <2>3, <2>4 DEF TabFits
<1>7. NoneOf("poll", one, 1)
  BY <1>4, <1>5 DEF NoneOf
<1>8. TabFits(A!Reads(one, tabPage, form, 1), 1, tabPage, form, paid, 0)
  BY <1>3, <1>6, <1>7, ReadsFit
<1> QED
  BY <1>1, <1>2, <1>8 DEF TabInv

LEMMA SubmittedFits ==
  ASSUME TabInv,
         \/ A!SubmitSignIn \/ A!SubmitForgot \/ A!SubmitReset \/ A!SubmitChange \/ A!SubmitAccount
         \/ A!Choose \/ A!Resend \/ A!Begin
  PROVE  StaysRight
<1>1. form.link \in SetUpLinks \cup {None}
  BY DEF TabInv, TabFits, FormFits, PageFormType
<1>2. PICK op \in {"login", "forgot", "reset", "change", "create", "checkout", "resend"},
           arg \in SetUpLinks \cup {None, "reset", "change"} :
        /\ A!Submit(op, arg)
        /\ \/ op \in {"forgot", "login", "reset", "change"} /\ tabPage = "login"
           \/ op = "create" /\ tabPage = "create"
           \/ op = "checkout" /\ tabPage \in {"plans", "settings"}
           \/ op = "resend" /\ tabPage = "confirm" /\ form.shown \in Confirming
  <2>1. CASE A!SubmitSignIn
    BY <2>1 DEF A!SubmitSignIn
  <2>2. CASE A!SubmitForgot
    BY <2>2 DEF A!SubmitForgot
  <2>3. CASE A!SubmitReset
    BY <2>3 DEF A!SubmitReset
  <2>4. CASE A!SubmitChange
    BY <2>4 DEF A!SubmitChange
  <2>5. CASE A!SubmitAccount
    BY <1>1, <2>5 DEF A!SubmitAccount
  <2>6. CASE A!Choose
    BY <2>6 DEF A!Choose
  <2>7. CASE A!Resend
    BY <2>7 DEF A!Resend, A!Confirmed, Confirming
  <2>8. CASE A!Begin
    BY <2>8 DEF A!Begin, A!Cards
  <2> QED
    BY <2>1, <2>2, <2>3, <2>4, <2>5, <2>6, <2>7, <2>8
<1>3. op \in AccountOps
  BY DEF AccountOps
<1> QED
  BY <1>2, <1>3, SubmitFits

\* The timer's poll: no other is under way.
LEMMA TickFits == ASSUME TabInv, A!Tick PROVE StaysRight
<1> DEFINE g == [form EXCEPT !.timer = FALSE]
<1>1. /\ tabPage = "confirm" /\ form.timer /\ form' = g
      /\ wire' = A!BagAdd(wire, A!Call("poll", None, None, life))
      /\ UNCHANGED <<tabPage, life, leaving, tier, paid>>
  BY DEF A!Tick, A!service
<1>2. g \in PageFormType /\ g.busy = form.busy /\ g.shown = form.shown /\ g.link = form.link /\ ~g.timer
  BY DEF TabInv, TabFits, FormFits, PageFormType
<1> HIDE DEF g
<1>3. NoneOf("poll", wire, life)
  BY <1>1 DEF TabInv, TabFits, CallFits, CallIsHere, NoneOf
<1>4. TabFits(wire, life, tabPage, g, paid, leaving)
  <2>1. FormFits(tabPage, g, paid) /\ LeftFor(wire, life, tabPage, g, leaving)
    BY <1>2 DEF TabInv, TabFits, FormFits, LeftFor
  <2>2. \A c \in DOMAIN wire : c.life = life => CallIsHere(c, tabPage, g)
    BY <1>2 DEF TabInv, TabFits, CallFits, CallIsHere
  <2> QED
    BY <2>1, <2>2, FormChanged DEF TabInv
<1>5. CallIsHere(A!Call("poll", None, None, life), tabPage, g)
  BY <1>1, <1>2 DEF CallIsHere, A!Call, A!NoReply
<1>6. "poll" \in AccountOps
  BY DEF AccountOps
<1>7. TabFits(wire', life, tabPage, g, paid, leaving)
  BY <1>1, <1>3, <1>4, <1>5, <1>6, CallAdded
<1> QED
  BY <1>1, <1>2, <1>7 DEF StaysRight, TabInv, A!ConfirmedForGood, Confirming

LEMMA LeaveFits == ASSUME TabInv, A!Leave PROVE StaysRight
<1>1. tabPage' = "away" /\ wire' = [c \in {} |-> 1] /\ UNCHANGED <<life, form, leaving, tier, paid>>
  BY DEF A!Leave, A!service, A!Once
<1>2. DOMAIN wire' = {} /\ ABag(wire')
  BY <1>1 DEF ABag
<1>3. FormFits(tabPage', form, paid) /\ LeftFor(wire', life, tabPage', form, leaving)
  BY <1>1, <1>2 DEF TabInv, TabFits, FormFits, LeftFor, NoneOf
<1>4. \A c \in DOMAIN wire' : CallFits(c, life, tabPage', form, paid)
  BY <1>2
<1>5. OneAtATime(wire', life)
  BY <1>2 DEF OneAtATime
<1>6. TabInv'
  BY <1>1, <1>2, <1>3, <1>4, <1>5 DEF TabInv, TabFits
<1> QED
  BY <1>1, <1>6 DEF StaysRight, A!ConfirmedForGood

LEMMA VisitsFit ==
  ASSUME A!SignInAssumption, TabInv, A!GoStep \/ A!OpenLink \/ A!Visit
  PROVE  StaysRight
<1>1. UNCHANGED <<paid, tier, leaving>>
  BY DEF A!GoStep, A!OpenLink, A!Visit, A!Act, A!service
<1>2. CASE A!GoStep
  <2>1. PICK step \in {"signin", "forgot"} :
          A!Render(user, loading, tabPage, [form EXCEPT !.step = step, !.error = FALSE, !.done = FALSE], wire)
    BY <1>2 DEF A!GoStep
  <2> DEFINE g == [form EXCEPT !.step = step, !.error = FALSE, !.done = FALSE]
  <2>2. g \in PageFormType /\ g.busy = form.busy
    BY DEF TabInv, TabFits, FormFits, PageFormType
  <2>3. tabPage = "login"
    BY <1>2 DEF A!GoStep
  <2> HIDE DEF g
  <2>4. A!Render(user, loading, tabPage, g, wire)
    BY <2>1 DEF g
  <2> QED
    BY <1>1, <2>2, <2>3, <2>4, RenderedFits
<1>3. CASE A!OpenLink
  <2>1. PICK link \in {"reset", "change"} :
          A!Render(user, loading, tabPage,
                   [form EXCEPT !.held = @ \cup {link}, !.step = link, !.error = FALSE], wire)
    BY <1>3 DEF A!OpenLink
  <2>2. PICK has : has = form.held \cup {link}
    OBVIOUS
  <2> DEFINE g == [form EXCEPT !.held = has, !.step = link, !.error = FALSE]
  <2>3. form \in PageFormType /\ has \in SUBSET {"reset", "change"}
    BY <2>2 DEF TabInv, TabFits, FormFits, PageFormType
  <2>4. g \in PageFormType /\ g.busy = form.busy
    BY <2>3 DEF PageFormType
  <2>5. tabPage = "login"
    BY <1>3 DEF A!OpenLink
  <2>6. g = [form EXCEPT !.held = @ \cup {link}, !.step = link, !.error = FALSE]
    BY <2>2
  <2> HIDE DEF g
  <2>7. A!Render(user, loading, tabPage, g, wire)
    BY <2>1, <2>6
  <2> QED
    BY <1>1, <2>4, <2>5, <2>7, RenderedFits
<1>4. CASE A!Visit
  <2>1. PICK p \in {"login", "create", "plans", "settings", "home"} \ {tabPage} :
          A!Render(user, loading, p, A!Fresh, wire)
    BY <1>4 DEF A!Visit
  <2> QED
    BY <1>1, <2>1, RenderedFits
<1> QED
  BY <1>2, <1>3, <1>4

\* Another set-up link: the address shown was the one before's.
LEMMA SetUpLinkFits == ASSUME A!SignInAssumption, TabInv, A!OpenSetUpLink PROVE StaysRight
<1>1. PICK link \in SetUpLinks \ {form.link} :
        A!Render(user, loading, tabPage, [form EXCEPT !.link = link, !.shown = None, !.error = FALSE],
                 A!Reads(wire, "create", [form EXCEPT !.link = link, !.shown = None, !.error = FALSE], life))
  BY DEF A!OpenSetUpLink
<1>2. tabPage = "create" /\ UNCHANGED <<paid, tier, leaving>>
  BY DEF A!OpenSetUpLink, A!Act, A!service
<1> DEFINE g == [form EXCEPT !.link = link, !.shown = None, !.error = FALSE]
<1>3. g \in PageFormType /\ g.busy = form.busy /\ g.shown = None /\ g.timer = form.timer
  BY DEF TabInv, TabFits, FormFits, PageFormType
<1> HIDE DEF g
<1>4. A!Render(user, loading, tabPage, g, A!Reads(wire, "create", g, life))
  BY <1>1 DEF g
<1>5. TabFits(wire, life, tabPage, g, paid, leaving)
  <2>1. FormFits(tabPage, g, paid) /\ LeftFor(wire, life, tabPage, g, leaving)
    BY <1>2, <1>3 DEF TabInv, TabFits, FormFits, LeftFor
  <2>2. \A c \in DOMAIN wire : c.life = life => CallIsHere(c, tabPage, g)
    BY <1>2, <1>3 DEF TabInv, TabFits, CallFits, CallIsHere
  <2> QED
    BY <2>1, <2>2, FormChanged DEF TabInv
<1>6. TabFits(A!Reads(wire, "create", g, life), life, tabPage, g, paid, leaving)
  BY <1>2, <1>5, ReadsFit
<1> QED
  BY <1>2, <1>4, <1>6, RenderFits DEF TabInv, Confirmed

\* A call for the session, from the window's focus, a button or a notice.
LEMMA AsksFit ==
  ASSUME A!SignInAssumption, TabInv, A!Focus \/ A!SignOut \/ A!Retry(TRUE) \/ A!Retry(FALSE)
  PROVE  StaysRight
<1>1. UNCHANGED <<tabPage, life, form, leaving, tier, paid>>
  BY DEF A!Focus, A!SignOut, A!Retry, A!Act, A!service
<1>2. {"refresh", "logout", "reload"} \subseteq AccountOps /\ TabFits(wire, life, tabPage, form, paid, leaving)
      /\ None \in SetUpLinks \cup {None, "reset", "change"}
  BY DEF AccountOps, TabInv
<1>3. CASE A!Focus
  <2> DEFINE first == A!BagAdd(wire, A!Call("reload", None, None, life))
  <2>1. wire' = A!BagAdd(first, A!Call("refresh", None, "billing", life)) /\ tabPage = "settings"
    BY <1>3 DEF A!Focus, A!Cards
  <2>2. CallIsHere(A!Call("reload", None, None, life), tabPage, form)
    BY <2>1 DEF CallIsHere, A!Call, A!NoReply
  <2>3. TabFits(first, life, tabPage, form, paid, leaving)
    BY <1>2, <2>2, CallAdded
  <2>4. CallIsHere(A!Call("refresh", None, "billing", life), tabPage, form)
    BY DEF CallIsHere, A!Call, A!NoReply
  <2> HIDE DEF first
  <2>5. TabFits(wire', life, tabPage, form, paid, leaving)
    BY <1>2, <2>1, <2>3, <2>4, CallAdded
  <2> QED
    BY <1>1, <2>5 DEF StaysRight, TabInv, A!ConfirmedForGood
<1>4. CASE A!SignOut \/ A!Retry(TRUE) \/ A!Retry(FALSE)
  <2>1. PICK op \in {"refresh", "logout"}, then \in {None, "retry"} :
          wire' = A!BagAdd(wire, A!Call(op, None, then, life))
    BY <1>4 DEF A!SignOut, A!Retry
  <2>2. CallIsHere(A!Call(op, None, then, life), tabPage, form)
    <3> DEFINE d == A!Call(op, None, then, life)
    <3>1. d.op = op /\ d.then = then /\ op \in {"refresh", "logout"}
      BY DEF A!Call
    <3>2. then \notin {"reset", "change"}
      BY DEF A!SignInAssumption
    <3> HIDE DEF d
    <3> QED
      BY <3>1, <3>2 DEF CallIsHere, d
  <2>3. TabFits(wire', life, tabPage, form, paid, leaving)
    BY <1>2, <2>1, <2>2, CallAdded
  <2> QED
    BY <1>1, <2>3 DEF StaysRight, TabInv, A!ConfirmedForGood
<1> QED
  BY <1>3, <1>4

LEMMA ElsewhereFits == ASSUME TabInv, A!Elsewhere PROVE StaysRight
<1>1. UNCHANGED <<tabPage, life, form, leaving, wire>> /\ tier' \in TabTiers
  BY DEF A!Elsewhere, A!provider, TabInv
<1>2. PICK qd \in Payments : qd = paid' /\ (paid \in Confirming => qd \in Confirming)
  BY DEF A!Elsewhere, TabInv, TabFits, Payments, Confirming
<1>3. TabFits(wire, life, tabPage, form, qd, leaving)
  BY <1>2, PaidRises DEF TabInv
<1> QED
  BY <1>1, <1>2, <1>3 DEF StaysRight, TabInv, A!ConfirmedForGood

LEMMA TabSteps == ASSUME A!SignInAssumption, TabInv, [A!Next]_A!vars PROVE StaysRight
<1>1. CASE A!Answer
  <2>1. PICK c \in DOMAIN wire : A!Serve(c) \/ A!Lose(c) \/ A!Refuse(c)
    BY <1>1 DEF A!Answer
  <2> QED
    BY <2>1, AnsweringFits
<1>2. CASE A!TakeIn
  <2>1. PICK c \in DOMAIN wire :
          \/ A!MountChecked(c) \/ A!Refreshed(c) \/ A!SignedIn(c) \/ A!SignedOut(c) \/ A!ResetAsked(c)
          \/ A!LinkUsed(c) \/ A!SetUpChecked(c) \/ A!PlansRead(c) \/ A!BillingRead(c) \/ A!CheckoutOpened(c)
          \/ A!Polled(c) \/ A!Resent(c)
    BY <1>2 DEF A!TakeIn
  <2> QED
    BY <2>1, ProviderFits, PagesFit, CheckoutFits
<1>3. CASE UNCHANGED A!vars
  BY <1>3 DEF A!vars, A!service, StaysRight, TabInv, A!ConfirmedForGood
<1> QED
  BY <1>1, <1>2, <1>3, TickFits, LeaveFits, SubmittedFits, VisitsFit, SetUpLinkFits, AsksFit, ElsewhereFits
     DEF A!Next

(* Sign-in (SignIn): whatever the order in which answers come, and whichever *)
(* calls are refused or not reached, the account form never stands under one *)
(* set-up link with the address of another, a page asks for one checkout at  *)
(* a time and none after Stripe's page was opened, and a payment shown as    *)
(* confirmed stays so on its page.                                           *)
THEOREM PagesHoldTheirOwn ==
  ASSUME A!SignInAssumption
  PROVE  A!Spec => [](A!FormIsItsLinks /\ A!OneCheckoutAtATime) /\ [][A!ConfirmedForGood]_A!vars
<1>1. A!Init => TabInv
  BY StartFits
<1>2. TabInv /\ [A!Next]_A!vars => TabInv'
  BY TabSteps DEF StaysRight
<1>3. TabInv /\ [A!Next]_A!vars => [A!ConfirmedForGood]_A!vars
  BY TabSteps DEF StaysRight
<1>4. TabInv => A!FormIsItsLinks /\ A!OneCheckoutAtATime
  <2> SUFFICES ASSUME TabInv PROVE A!FormIsItsLinks /\ A!OneCheckoutAtATime
    OBVIOUS
  <2>1. A!FormIsItsLinks
    BY DEF TabInv, TabFits, FormFits, A!FormIsItsLinks
  <2>2. OneAtATime(wire, life) /\ LeftFor(wire, life, tabPage, form, leaving)
    BY DEF TabInv, TabFits
  <2>3. A!OneCheckoutAtATime
    BY <2>2 DEF OneAtATime, LeftFor, NoneOf, A!OneCheckoutAtATime
  <2> QED
    BY <2>1, <2>3
<1> QED
  BY <1>1, <1>2, <1>3, <1>4, PTL DEF A!Spec

-----------------------------------------------------------------------------
(* The public page: the frame the band borrows, and the examples it turns.   *)

BandType == [index : 1..G!Total, stopped : BOOLEAN, hovered : BOOLEAN, focused : BOOLEAN,
             visible : BOOLEAN, choices : {0, 1}]
TimerType == [rotate : Nat \cup {G!Off}, resume : Nat \cup {G!Off}]

(* A frame that is the chips' is given back, or one of them is still under   *)
(* the mouse or the focus.                                                   *)
FrameInv ==
  by = "chips" => pointed = None \/ (previewing /\ (pointer.at = "chip" \/ focus.at = "chip"))

(* A band that turns was left alone for long enough to turn again, and its   *)
(* timer runs for a band that turns; one that was stopped waits to go on.    *)
TimersFit(left, seen, b, m, t) ==
  /\ left \in TimerType
  /\ left.rotate # G!Off => /\ seen.rotate[1] /\ ~m.reduced /\ ~b.stopped
                            /\ t + left.rotate >= ResumeTime + RotateTime
  /\ seen.rotate[1] => ~b.stopped
  /\ seen.resume = <<b.stopped, b.choices>>
  /\ b.stopped => left.resume # G!Off /\ t + left.resume >= ResumeTime
  /\ ~b.stopped => left.resume = G!Off /\ t >= ResumeTime

BandInv ==
  /\ band \in BandType /\ idle \in Nat /\ acts \in Nat /\ DOMAIN photos = 1..G!Total
  /\ band.hovered = G!WithinBand(pointer) /\ band.focused = G!WithinBand(focus)
  /\ TimersFit(timers, ran, band, media, idle)

LEMMA TurnsWithin ==
  ASSUME G!DoorPageAssumption, NEW i \in 1..G!Total
  PROVE  (i % G!Total) + 1 \in 1..G!Total /\ ((i + G!Total - 2) % G!Total) + 1 \in 1..G!Total
<1>1. G!Total \in Nat /\ G!Total > 0
  BY DEF G!DoorPageAssumption
<1>2. \A x \in Nat, n \in Nat \ {0} : x % n \in 0..(n - 1)
  OBVIOUS
<1>3. i + G!Total - 2 \in Nat /\ i \in Nat
  BY <1>1
<1> QED
  BY <1>1, <1>2, <1>3

(* The effects run: what they start, they start from now.                    *)
LEMMA EffectsFit ==
  ASSUME G!DoorPageAssumption, NEW b \in BandType, NEW m, NEW left \in TimerType, NEW t \in Nat,
         G!RunEffects(b, m, left),
         left.rotate # G!Off => ran.rotate[1] /\ (~b.stopped => t + left.rotate >= ResumeTime + RotateTime),
         ~b.stopped => t >= ResumeTime,
         ran.resume = <<b.stopped, b.choices>> =>
           /\ b.stopped => left.resume # G!Off /\ t + left.resume >= ResumeTime
           /\ ~b.stopped => left.resume = G!Off
  PROVE  TimersFit(timers', ran', b, m, t)
<1> DEFINE now == G!Dependencies(b, m)
<1>1. ran' = now /\ now.rotate = <<G!ShouldRotate(b, m), b.index>> /\ now.resume = <<b.stopped, b.choices>>
  BY DEF G!RunEffects, G!Dependencies
<1>2. timers'.rotate = IF ran.rotate = now.rotate THEN left.rotate
                       ELSE IF G!ShouldRotate(b, m) THEN RotateTime ELSE G!Off
  BY DEF G!RunEffects
<1>3. timers'.resume = IF ran.resume = now.resume THEN left.resume
                       ELSE IF b.stopped THEN ResumeTime ELSE G!Off
  BY DEF G!RunEffects
<1>4. timers' = [rotate |-> timers'.rotate, resume |-> timers'.resume]
  BY DEF G!RunEffects
<1> HIDE DEF now
<1>5. RotateTime \in Nat /\ ResumeTime \in Nat /\ RotateTime # G!Off /\ ResumeTime # G!Off
  BY DEF G!DoorPageAssumption, G!Off
<1>6. PICK on \in BOOLEAN : on = G!ShouldRotate(b, m) /\ (on => ~b.stopped /\ ~m.reduced)
  BY DEF G!ShouldRotate
<1>7. now.rotate[1] = on
  BY <1>1, <1>6
<1> QED
  BY <1>1, <1>2, <1>3, <1>4, <1>5, <1>6, <1>7 DEF TimersFit, TimerType

----------------------------------------------------------------------------
(* The steps.                                                                *)

BandRight == BandInv' /\ G!ChosenExampleHolds /\ G!PhotographHolds

LEMMA TurnFits ==
  ASSUME NEW b, G!Turn(b), DOMAIN photos = 1..G!Total
  PROVE  /\ band' = b /\ DOMAIN photos' = 1..G!Total
         /\ b.index = band.index => photos' = photos
         /\ b.index # band.index /\ b.index \in 1..G!Total =>
              photos'[b.index] = G!NextPhoto(b.index, photos[b.index])
  BY DEF G!Turn

\* A step by the visitor, or one that leaves the example on screen.
LEMMA NoTurn ==
  ASSUME band'.index = band.index => photos' = photos, band'.index = band.index \/ acts' # acts
  PROVE  G!ChosenExampleHolds /\ G!PhotographHolds
  BY DEF G!ChosenExampleHolds, G!PhotographHolds, G!PhotoOn

LEMMA StartFrame == ASSUME G!DoorPageAssumption, G!Init PROVE FrameInv /\ BandInv
<1>1. FrameInv
  BY DEF G!Init, FrameInv
<1>2. 1 \in 1..G!Total /\ ResumeTime \in Nat /\ RotateTime \in Nat
  BY DEF G!DoorPageAssumption
<1>3. band \in BandType /\ ~band.visible /\ ~band.stopped
      /\ band.hovered = G!WithinBand(pointer) /\ band.focused = G!WithinBand(focus)
  <2>1. /\ band = [index |-> 1, stopped |-> FALSE, hovered |-> FALSE, focused |-> FALSE,
                    visible |-> FALSE, choices |-> 0]
        /\ pointer.at = "away" /\ focus.at = "away"
    BY DEF G!Init, G!Away
  <2>2. band \in BandType
    BY <1>2, <2>1 DEF BandType
  <2>3. ~G!WithinBand(pointer) /\ ~G!WithinBand(focus)
    BY <2>1 DEF G!WithinBand
  <2>4. ~band.visible /\ ~band.stopped /\ band.hovered = FALSE /\ band.focused = FALSE
    BY <2>1
  <2>5. G!WithinBand(pointer) = FALSE /\ G!WithinBand(focus) = FALSE
    BY <2>3 DEF G!WithinBand
  <2> QED
    BY <2>2, <2>4, <2>5
<1>4. idle \in Nat /\ idle >= ResumeTime /\ acts \in Nat /\ DOMAIN photos = 1..G!Total
  BY <1>2 DEF G!Init
<1>5. timers \in TimerType /\ timers.rotate = G!Off /\ timers.resume = G!Off
  BY DEF G!Init, TimerType
<1>6. ran.rotate = <<G!ShouldRotate(band, media), band.index>> /\ ran.resume = <<band.stopped, band.choices>>
  BY DEF G!Init, G!Dependencies
<1>7. ~ran.rotate[1]
  <2>1. PICK on \in BOOLEAN : on = G!ShouldRotate(band, media) /\ ~on
    BY <1>3 DEF G!ShouldRotate
  <2>2. ran.rotate[1] = on
    BY <1>6, <2>1
  <2> QED
    BY <2>1, <2>2
<1> QED
  BY <1>1, <1>3, <1>4, <1>5, <1>6, <1>7 DEF BandInv, TimersFit

\* The frame, over every step.
LEMMA FrameSteps == ASSUME FrameInv, [G!Next]_G!vars PROVE FrameInv'
<1> USE DEF FrameInv, G!HoldFrame, G!ClearPreview, G!LeavesChips, G!Held
<1>1. ASSUME NEW to, G!MovePointer(to) PROVE FrameInv'
  BY <1>1 DEF G!MovePointer, G!PointAt
<1>2. ASSUME NEW to, G!MoveFocus(to) PROVE FrameInv'
  BY <1>2 DEF G!MoveFocus, G!PointAt
<1>3. ASSUME NEW c, G!ClickRail(c) \/ G!ClickChip(c) PROVE FrameInv'
  BY <1>3 DEF G!ClickRail, G!ClickChip, G!Pick
<1>4. CASE G!ChooseExample
  BY <1>4 DEF G!ChooseExample, G!InBand
<1>5. ASSUME NEW m, G!MediaChanges(m) PROVE FrameInv'
  BY <1>5 DEF G!MediaChanges
<1>6. CASE G!Scroll \/ G!FollowAnchor \/ G!GoBack \/ G!Settle \/ G!Pass \/ G!TickFires \/ G!ResumeFires
           \/ UNCHANGED G!vars
  BY <1>6 DEF G!Scroll, G!FollowAnchor, G!GoBack, G!Settle, G!Pass, G!TickFires, G!ResumeFires,
              G!vars, G!frameVars
<1> QED
  BY <1>1, <1>2, <1>3, <1>4, <1>5, <1>6 DEF G!Next

\* The mouse, the scroll and the address: the effects wait.
LEMMA WaitingFits ==
  ASSUME G!DoorPageAssumption, BandInv,
         \/ \E to \in G!Places : G!MovePointer(to)
         \/ G!Scroll \/ G!FollowAnchor \/ G!GoBack
  PROVE  BandRight
<1>1. acts' = acts + 1 /\ acts' \in Nat /\ acts' # acts
      /\ UNCHANGED <<focus, media, timers, ran, idle>>
  <2>1. acts' = acts + 1 /\ UNCHANGED <<focus, media, timers, ran, idle>>
    <3>1. ASSUME NEW to, G!MovePointer(to)
          PROVE  acts' = acts + 1 /\ UNCHANGED <<focus, media, timers, ran, idle>>
      BY <3>1 DEF G!MovePointer, G!Act
    <3>2. CASE G!Scroll \/ G!FollowAnchor \/ G!GoBack
      BY <3>2 DEF G!Scroll, G!FollowAnchor, G!GoBack, G!Act, G!bandVars
    <3> QED
      BY <3>1, <3>2
  <2> QED
    BY <2>1 DEF BandInv
<1>2. PICK b : /\ G!Turn(b) /\ b \in BandType /\ b.stopped = band.stopped /\ b.choices = band.choices
               /\ b.hovered = G!WithinBand(pointer)' /\ b.focused = band.focused
  <2>1. ASSUME NEW to \in G!Places, G!MovePointer(to)
        PROVE  \E b : /\ G!Turn(b) /\ b \in BandType /\ b.stopped = band.stopped /\ b.choices = band.choices
                      /\ b.hovered = G!WithinBand(pointer)' /\ b.focused = band.focused
    <3> DEFINE b == [band EXCEPT !.hovered = G!WithinBand(to)]
    <3>1. G!Turn(b) /\ pointer' = to
      BY <2>1 DEF G!MovePointer
    <3>2. G!WithinBand(to) \in BOOLEAN
      BY DEF G!WithinBand
    <3>3. b \in BandType /\ b.stopped = band.stopped /\ b.choices = band.choices
          /\ b.hovered = G!WithinBand(to) /\ b.focused = band.focused
      BY <3>2 DEF BandInv, BandType
    <3>4. G!WithinBand(pointer)' = G!WithinBand(to)
      BY <3>1 DEF G!WithinBand
    <3> HIDE DEF b
    <3> QED
      BY <3>1, <3>3, <3>4
  <2>2. CASE G!Scroll
    <3> DEFINE b == [band EXCEPT !.visible = ~@]
    <3>1. G!Turn(b) /\ pointer' = pointer
      BY <2>2 DEF G!Scroll
    <3>2. b \in BandType /\ b.stopped = band.stopped /\ b.choices = band.choices
          /\ b.hovered = band.hovered /\ b.focused = band.focused
      BY DEF BandInv, BandType
    <3>3. G!WithinBand(pointer)' = band.hovered
      BY <3>1 DEF BandInv, G!WithinBand
    <3> HIDE DEF b
    <3> QED
      BY <3>1, <3>2, <3>3
  <2>3. CASE G!FollowAnchor \/ G!GoBack
    <3>1. band' = band /\ photos' = photos /\ pointer' = pointer
      BY <2>3 DEF G!FollowAnchor, G!GoBack, G!bandVars
    <3>2. G!Turn(band)
      BY <3>1 DEF G!Turn
    <3>3. G!WithinBand(pointer)' = band.hovered
      BY <3>1 DEF BandInv, G!WithinBand
    <3> QED
      BY <3>2, <3>3 DEF BandInv
  <2> QED
    BY <2>1, <2>2, <2>3
<1>3. band' = b /\ DOMAIN photos' = 1..G!Total /\ (b.index = band.index => photos' = photos)
  BY <1>2, TurnFits DEF BandInv
<1>4. TimersFit(timers', ran', band', media', idle')
  BY <1>1, <1>2, <1>3 DEF BandInv, TimersFit
<1>5. G!WithinBand(focus)' = G!WithinBand(focus)
  BY <1>1 DEF G!WithinBand
<1>6. BandInv'
  BY <1>1, <1>2, <1>3, <1>4, <1>5 DEF BandInv
<1> QED
  BY <1>1, <1>3, <1>6, NoTurn DEF BandRight

\* The visitor's other steps, after which the effects run.
LEMMA ActFits ==
  ASSUME G!DoorPageAssumption, BandInv, NEW b \in BandType, NEW m, G!Turn(b), G!RunEffects(b, m, timers),
         media' = m, acts' = acts + 1, NEW t \in Nat, idle' = t,
         b.hovered = G!WithinBand(pointer)', b.focused = G!WithinBand(focus)',
         \/ b.stopped = band.stopped /\ b.choices = band.choices /\ t = idle
         \/ b.stopped /\ b.choices # band.choices
  PROVE  BandRight
<1>1. /\ timers \in TimerType /\ ran.resume = <<band.stopped, band.choices>>
      /\ timers.rotate # G!Off => /\ ran.rotate[1] /\ ~band.stopped
                                  /\ idle + timers.rotate >= ResumeTime + RotateTime
      /\ band.stopped => timers.resume # G!Off /\ idle + timers.resume >= ResumeTime
      /\ ~band.stopped => timers.resume = G!Off /\ idle >= ResumeTime
  BY DEF BandInv, TimersFit
<1>2. b.stopped \in BOOLEAN /\ band.stopped \in BOOLEAN
  BY DEF BandInv, BandType
<1>3. TimersFit(timers', ran', b, m, t)
  <2>1. ran.resume = <<b.stopped, b.choices>> => b.choices = band.choices
    BY <1>1
  <2>2. ran.resume = <<b.stopped, b.choices>> =>
           /\ b.stopped => timers.resume # G!Off /\ t + timers.resume >= ResumeTime
           /\ ~b.stopped => timers.resume = G!Off
    BY <1>1, <1>2, <2>1
  <2>3. timers.rotate # G!Off => ran.rotate[1] /\ (~b.stopped => t + timers.rotate >= ResumeTime + RotateTime)
    BY <1>1
  <2>4. ~b.stopped => t >= ResumeTime
    BY <1>1
  <2> QED
    BY <1>1, <2>2, <2>3, <2>4, EffectsFit
<1>4. band' = b /\ DOMAIN photos' = 1..G!Total /\ (b.index = band.index => photos' = photos)
  BY TurnFits DEF BandInv
<1>5. acts' \in Nat /\ acts' # acts
  BY DEF BandInv
<1>6. BandInv'
  BY <1>3, <1>4, <1>5 DEF BandInv
<1> QED
  BY <1>4, <1>5, <1>6, NoTurn DEF BandRight

LEMMA StopFits ==
  ASSUME NEW b \in BandType
  PROVE  /\ G!Stop(b) \in BandType /\ G!Stop(b).stopped /\ G!Stop(b).choices # b.choices
         /\ G!Stop(b).hovered = b.hovered /\ G!Stop(b).focused = b.focused
<1>1. PICK n \in {0, 1} : n = 1 - b.choices /\ n # b.choices
  BY DEF BandType
<1>2. G!Stop(b) = [b EXCEPT !.stopped = TRUE, !.choices = n]
  BY <1>1 DEF G!Stop
<1> QED
  BY <1>1, <1>2 DEF BandType

LEMMA ChoicesFit ==
  ASSUME G!DoorPageAssumption, BandInv,
         \/ \E to \in G!Places : G!MoveFocus(to)
         \/ \E c \in OnSale : G!ClickRail(c) \/ G!ClickChip(c)
         \/ G!ChooseExample
         \/ \E m \in [wide : BOOLEAN, fine : BOOLEAN, reduced : BOOLEAN] : G!MediaChanges(m)
  PROVE  BandRight
<1>1. band \in BandType /\ idle \in Nat /\ 0 \in Nat /\ band.index \in 1..G!Total /\ band.choices \in {0, 1}
      /\ band.hovered = G!WithinBand(pointer) /\ band.focused = G!WithinBand(focus)
  BY DEF BandInv, BandType
\* A focus that moves, or does not.
<1>2. ASSUME NEW on, on = G!WithinBand(focus)', pointer' = pointer
      PROVE  on \in BOOLEAN /\ band.hovered = G!WithinBand(pointer)'
  BY <1>1, <1>2 DEF G!WithinBand
<1>3. ASSUME NEW to \in G!Places, G!MoveFocus(to) PROVE BandRight
  <2> DEFINE on == G!WithinBand(to)
             b == [band EXCEPT !.focused = on]
  <2>1. G!Turn(b) /\ G!RunEffects(b, media, timers) /\ acts' = acts + 1
        /\ UNCHANGED <<pointer, media, idle>> /\ focus' = to
    BY <1>3 DEF G!MoveFocus, G!Act
  <2>2. on = G!WithinBand(focus)'
    BY <2>1 DEF G!WithinBand
  <2>3. on \in BOOLEAN /\ band.hovered = G!WithinBand(pointer)'
    BY <1>2, <2>1, <2>2
  <2> HIDE DEF on
  <2>4. b \in BandType /\ b.stopped = band.stopped /\ b.choices = band.choices
        /\ b.hovered = band.hovered /\ b.focused = on
    BY <1>1, <2>3 DEF BandType
  <2> HIDE DEF b
  <2> QED
    BY <1>1, <2>1, <2>2, <2>3, <2>4, ActFits
<1>4. ASSUME NEW c \in OnSale, G!ClickRail(c) PROVE BandRight
  <2>1. PICK on : on = G!WithinBand(focus)'
    OBVIOUS
  <2> DEFINE b == [band EXCEPT !.focused = on]
  <2>2. G!Turn(b) /\ G!RunEffects(b, media, timers) /\ acts' = acts + 1
        /\ UNCHANGED <<pointer, media, idle>>
    BY <1>4, <2>1 DEF G!ClickRail, G!Act, G!WithinBand
  <2>3. on \in BOOLEAN /\ band.hovered = G!WithinBand(pointer)'
    BY <1>2, <2>1, <2>2
  <2>4. b \in BandType /\ b.stopped = band.stopped /\ b.choices = band.choices
        /\ b.hovered = band.hovered /\ b.focused = on
    BY <1>1, <2>3 DEF BandType
  <2> HIDE DEF b
  <2> QED
    BY <1>1, <2>1, <2>2, <2>3, <2>4, ActFits
<1>5. ASSUME NEW c \in OnSale, G!ClickChip(c) PROVE BandRight
  <2>1. PICK on : on = G!WithinBand(focus)'
    OBVIOUS
  <2> DEFINE b == G!Stop([band EXCEPT !.focused = on])
  <2>2. G!Turn(b) /\ G!RunEffects(b, media, timers) /\ acts' = acts + 1
        /\ UNCHANGED <<pointer, media>> /\ idle' = 0
    BY <1>5, <2>1 DEF G!ClickChip, G!Act, G!WithinBand
  <2>3. on \in BOOLEAN /\ band.hovered = G!WithinBand(pointer)'
    BY <1>2, <2>1, <2>2
  <2>4. b \in BandType /\ b.stopped /\ b.choices # band.choices
        /\ b.hovered = band.hovered /\ b.focused = on
    <3> DEFINE e == [band EXCEPT !.focused = on]
    <3>1. e \in BandType /\ e.choices = band.choices /\ e.hovered = band.hovered /\ e.focused = on
      BY <1>1, <2>3 DEF BandType
    <3>2. b = G!Stop(e)
      OBVIOUS
    <3> HIDE DEF e, b
    <3> QED
      BY <3>1, <3>2, StopFits
  <2> HIDE DEF b
  <2> QED
    BY <1>1, <2>1, <2>2, <2>3, <2>4, ActFits
<1>6. CASE G!ChooseExample
  <2>1. PICK on : on = G!WithinBand(focus)'
    OBVIOUS
  <2>2. PICK i : /\ i \in 1..G!Total
                 /\ G!Turn([G!Select(band, i) EXCEPT !.focused = on])
                 /\ G!RunEffects([G!Select(band, i) EXCEPT !.focused = on], media, timers)
    <3>1. PICK f \in {G!Select(band, i) : i \in 1..G!Total} \cup {G!Following(band), G!Previous(band)} :
            G!Turn([f EXCEPT !.focused = on]) /\ G!RunEffects([f EXCEPT !.focused = on], media, timers)
      BY <1>6, <2>1 DEF G!ChooseExample, G!WithinBand
    <3>2. PICK i \in 1..G!Total : f = G!Select(band, i)
      BY <1>1, <3>1, TurnsWithin DEF G!Following, G!Previous
    <3> QED
      BY <3>1, <3>2
  <2> DEFINE b == [G!Select(band, i) EXCEPT !.focused = on]
  <2>3. acts' = acts + 1 /\ UNCHANGED <<pointer, media>> /\ idle' = 0
    BY <1>6 DEF G!ChooseExample, G!Act
  <2>4. on \in BOOLEAN /\ band.hovered = G!WithinBand(pointer)'
    BY <1>2, <2>1, <2>3
  <2>5. b \in BandType /\ b.stopped /\ b.choices # band.choices
        /\ b.hovered = band.hovered /\ b.focused = on
    <3> DEFINE e == G!Stop(band)
    <3>1. e \in BandType /\ e.stopped /\ e.choices # band.choices /\ e.hovered = band.hovered
      BY <1>1, StopFits
    <3>2. b = [[e EXCEPT !.index = i] EXCEPT !.focused = on]
      BY DEF G!Select
    <3> HIDE DEF e, b
    <3> QED
      BY <2>2, <2>4, <3>1, <3>2 DEF BandType
  <2> HIDE DEF b
  <2>6. G!Turn(b) /\ G!RunEffects(b, media, timers)
    BY <2>2 DEF b
  <2> QED
    BY <1>1, <2>1, <2>3, <2>4, <2>5, <2>6, ActFits
<1>7. ASSUME NEW m, G!MediaChanges(m) PROVE BandRight
  <2>1. band' = band /\ photos' = photos /\ G!RunEffects(band, m, timers) /\ acts' = acts + 1
        /\ media' = m /\ UNCHANGED <<pointer, focus, idle>>
    BY <1>7 DEF G!MediaChanges, G!Act
  <2>2. G!Turn(band)
    BY <2>1 DEF G!Turn
  <2>3. band.hovered = G!WithinBand(pointer)' /\ band.focused = G!WithinBand(focus)'
    BY <1>1, <2>1 DEF G!WithinBand
  <2> QED
    BY <1>1, <2>1, <2>2, <2>3, ActFits
<1> QED
  BY <1>3, <1>4, <1>5, <1>6, <1>7

\* What happens by itself.
LEMMA TimeFits ==
  ASSUME G!DoorPageAssumption, BandInv, G!Settle \/ G!Pass \/ G!TickFires \/ G!ResumeFires
  PROVE  BandRight
<1>1. /\ band \in BandType /\ idle \in Nat /\ band.index \in 1..G!Total
      /\ band.stopped \in BOOLEAN /\ band.hovered \in BOOLEAN /\ band.focused \in BOOLEAN
      /\ timers \in TimerType /\ timers.rotate \in Nat \cup {G!Off} /\ timers.resume \in Nat \cup {G!Off}
      /\ ran.resume = <<band.stopped, band.choices>>
      /\ timers.rotate # G!Off => /\ ran.rotate[1] /\ ~band.stopped /\ ~media.reduced
                                  /\ idle + timers.rotate >= ResumeTime + RotateTime
      /\ band.stopped => timers.resume # G!Off /\ idle + timers.resume >= ResumeTime
      /\ ~band.stopped => timers.resume = G!Off /\ idle >= ResumeTime
      /\ ran.rotate[1] => ~band.stopped
  BY DEF BandInv, TimersFit, BandType, TimerType
<1>2. UNCHANGED <<pointer, focus, media, acts>>
  BY DEF G!Settle, G!Pass, G!TickFires, G!ResumeFires
<1>3. band.hovered = G!WithinBand(pointer)' /\ band.focused = G!WithinBand(focus)'
  BY <1>2 DEF BandInv, G!WithinBand
<1>4. RotateTime \in Nat /\ ResumeTime \in Nat /\ G!Off = -1
  BY DEF G!DoorPageAssumption, G!Off
\* The effects ran, from timers that fit; the example may have turned.
<1>5. ASSUME NEW b \in BandType, NEW left \in TimerType, G!Turn(b), G!RunEffects(b, media, left), idle' = idle,
             left.rotate # G!Off => ran.rotate[1] /\ (~b.stopped => idle + left.rotate >= ResumeTime + RotateTime),
             ~b.stopped => idle >= ResumeTime,
             ran.resume = <<b.stopped, b.choices>> =>
               /\ b.stopped => left.resume # G!Off /\ idle + left.resume >= ResumeTime
               /\ ~b.stopped => left.resume = G!Off,
             b.hovered = band.hovered, b.focused = band.focused
      PROVE  BandInv' /\ band' = b /\ (b.index = band.index => photos' = photos)
  <2>1. TimersFit(timers', ran', b, media, idle)
    BY <1>1, <1>5, EffectsFit
  <2>2. band' = b /\ DOMAIN photos' = 1..G!Total /\ (b.index = band.index => photos' = photos)
    BY <1>5, TurnFits DEF BandInv
  <2> QED
    BY <1>2, <1>3, <1>5, <2>1, <2>2 DEF BandInv
<1>6. CASE G!Settle
  <2>1. G!RunEffects(band, media, timers) /\ band' = band /\ photos' = photos /\ idle' = idle
    BY <1>6 DEF G!Settle
  <2>2. G!Turn(band)
    BY <2>1 DEF G!Turn
  <2>3. BandInv'
    BY <1>1, <1>5, <2>1, <2>2
  <2> QED
    BY <2>1, <2>3, NoTurn DEF BandRight
<1>7. CASE G!Pass
  <2>1. /\ timers' = [field \in {"rotate", "resume"} |->
                        IF timers[field] = G!Off THEN G!Off ELSE timers[field] - 1]
        /\ idle' = IF idle < ResumeTime + RotateTime THEN idle + 1 ELSE idle
        /\ UNCHANGED <<band, ran, photos>> /\ timers.rotate # 0 /\ timers.resume # 0
    BY <1>7 DEF G!Pass, G!Due
  <2>2. /\ timers'.rotate = IF timers.rotate = G!Off THEN G!Off ELSE timers.rotate - 1
        /\ timers'.resume = IF timers.resume = G!Off THEN G!Off ELSE timers.resume - 1
    BY <2>1
  <2>3. timers' = [rotate |-> timers'.rotate, resume |-> timers'.resume]
    BY <2>1
  <2>4. timers' \in TimerType
    BY <1>1, <1>4, <2>1, <2>2, <2>3 DEF TimerType
  <2>5. TimersFit(timers', ran', band', media', idle')
    BY <1>1, <1>2, <1>4, <2>1, <2>2, <2>4 DEF TimersFit
  <2>6. BandInv'
    BY <1>1, <1>2, <1>3, <1>4, <2>1, <2>5 DEF BandInv
  <2> QED
    BY <2>1, <2>6, NoTurn DEF BandRight
<1>8. CASE G!ResumeFires
  <2> DEFINE b == G!Resume(band)
             left == [timers EXCEPT !.resume = G!Off]
  <2>1. G!Turn(b) /\ G!RunEffects(b, media, left) /\ timers.resume = 0 /\ idle' = idle
    BY <1>8 DEF G!ResumeFires, G!Due, G!Turn
  <2>2. left \in TimerType /\ left.resume = G!Off /\ left.rotate = timers.rotate
    BY <1>1 DEF TimerType
  <2>3. b \in BandType /\ b.stopped = FALSE /\ b.index = band.index
        /\ b.hovered = band.hovered /\ b.focused = band.focused
    BY <1>1 DEF BandType, G!Resume
  <2> HIDE DEF b, left
  <2>4. band.stopped /\ idle >= ResumeTime
    BY <1>1, <1>4, <2>1
  <2>5. BandInv' /\ band' = b /\ photos' = photos
    BY <1>1, <1>5, <2>1, <2>2, <2>3, <2>4
  <2> QED
    BY <2>3, <2>5, NoTurn DEF BandRight
<1>9. CASE G!TickFires
  <2> DEFINE b == G!Rotate(band)
             left == [timers EXCEPT !.rotate = G!Off]
             next == (band.index % G!Total) + 1
  <2>1. G!Turn(b) /\ G!RunEffects(b, media, left) /\ timers.rotate = 0 /\ idle' = idle
    BY <1>9 DEF G!TickFires, G!Due, G!Turn
  <2>2. left \in TimerType /\ left.rotate = G!Off /\ left.resume = timers.resume
    BY <1>1 DEF TimerType
  <2>3. ~band.stopped /\ ~media.reduced /\ idle >= ResumeTime + RotateTime
    BY <1>1, <1>4, <2>1
  <2>4. next \in 1..G!Total
    BY <1>1, TurnsWithin
  <2>5. CASE b.index = band.index
    <3>1. b = band \/ b = [band EXCEPT !.index = next]
      BY DEF G!Rotate
    <3>2. b \in BandType /\ b.stopped = band.stopped /\ b.choices = band.choices
          /\ b.hovered = band.hovered /\ b.focused = band.focused
      BY <1>1, <2>4, <3>1 DEF BandType
    <3> HIDE DEF b, left, next
    <3>3. BandInv' /\ band' = b /\ photos' = photos
      BY <1>1, <1>5, <2>1, <2>2, <2>3, <2>5, <3>2
    <3> QED
      BY <2>5, <3>3, NoTurn DEF BandRight
  <2>6. CASE b.index # band.index
    <3>1. b = [band EXCEPT !.index = next] /\ ~band.hovered /\ ~band.focused /\ band.visible
      BY <2>6 DEF G!Rotate
    <3>2. b \in BandType /\ b.stopped = band.stopped /\ b.choices = band.choices /\ b.index = next
          /\ b.hovered = band.hovered /\ b.focused = band.focused
      BY <1>1, <2>4, <3>1 DEF BandType
    <3> HIDE DEF b, left, next
    <3>3. BandInv' /\ band' = b
      BY <1>1, <1>5, <2>1, <2>2, <2>3, <3>2
    <3>4. G!ChosenExampleHolds
      BY <2>3, <3>1 DEF G!ChosenExampleHolds, BandInv
    <3>5. photos'[next] = G!NextPhoto(next, photos[next])
      BY <2>1, <2>4, <2>6, <3>2, TurnFits DEF BandInv
    <3>6. G!ShouldRotate(band, media) /\ next # band.index
      <4>1. next # band.index
        BY <2>6, <3>2
      <4>2. G!Total \in Nat /\ band.index \in 1..G!Total
        BY <1>1 DEF G!DoorPageAssumption
      <4>3. G!Total > 1
        BY <2>4, <4>1, <4>2
      <4> QED
        BY <2>3, <3>1, <4>1, <4>3 DEF G!ShouldRotate
    <3>7. G!PhotoOn(next, band, media, photos) = G!NextPhoto(next, photos[next])
      BY <3>6 DEF G!PhotoOn, next
    <3>8. PICK p : p = photos'
      OBVIOUS
    <3>9. G!PhotoOn(next, b, media, p) = p[next]
      BY <3>2 DEF G!PhotoOn
    <3>10. PICK m : m = media' /\ m = media
      BY <1>2
    <3>11. band'.index = next /\ band' = b
      BY <3>2, <3>3
    <3>12. G!PhotographHolds
      BY <2>6, <3>2, <3>5, <3>7, <3>8, <3>9, <3>10, <3>11 DEF G!PhotographHolds, G!PhotoOn
    <3> QED
      BY <3>3, <3>4, <3>12 DEF BandRight
  <2> QED
    BY <2>5, <2>6
<1> QED
  BY <1>6, <1>7, <1>8, <1>9

LEMMA BandSteps == ASSUME G!DoorPageAssumption, BandInv, [G!Next]_G!vars PROVE BandRight
<1>1. CASE UNCHANGED G!vars
  <2>1. UNCHANGED <<band, idle, acts, photos, pointer, focus, timers, ran, media>>
    BY <1>1 DEF G!vars, G!bandVars
  <2>2. BandInv'
    BY <2>1 DEF BandInv, G!WithinBand
  <2> QED
    BY <2>1, <2>2, NoTurn DEF BandRight
<1> QED
  BY <1>1, WaitingFits, ChoicesFit, TimeFits DEF G!Next

(* The public page (PressGate): however the mouse, the keyboard, the window  *)
(* and the rail come together, once neither the mouse nor the focus is on a  *)
(* chip the frame the chips borrowed shows the collection of the address; an *)
(* example the visitor chose stays for RESUME_MS and a turn, and none moves  *)
(* under the mouse or the focus; its photograph stays with it, and is the    *)
(* one loaded ahead for it.                                                  *)
THEOREM ShowcaseKeepsStill ==
  ASSUME G!DoorPageAssumption
  PROVE  G!Spec => []G!ChipsGiveTheFrameBack /\ [][G!ChosenExampleHolds /\ G!PhotographHolds]_G!vars
<1>1. G!Init => FrameInv /\ BandInv
  BY StartFrame
<1>2. FrameInv /\ BandInv /\ [G!Next]_G!vars => (FrameInv /\ BandInv)'
  BY FrameSteps, BandSteps DEF BandRight
<1>3. BandInv /\ [G!Next]_G!vars => [G!ChosenExampleHolds /\ G!PhotographHolds]_G!vars
  BY BandSteps DEF BandRight
<1>4. FrameInv => G!ChipsGiveTheFrameBack
  BY DEF FrameInv, G!ChipsGiveTheFrameBack, G!Selected
<1> QED
  BY <1>1, <1>2, <1>3, <1>4, PTL DEF G!Spec

-----------------------------------------------------------------------------
(* The client.  A behaviour of it is one of the part it chose: what the part *)
(* keeps, the client keeps of that part.                                     *)

LEMMA PartStays ==
  ASSUME [ClientNext]_clientVars
  PROVE  part' = part
  BY DEF ClientNext, clientVars

LEMMA MarkRun ==
  /\ ClientInit /\ part = "mark" => M!Init
  /\ part = "mark" /\ [ClientNext]_clientVars => [M!Next]_M!vars
<1>1. ClientInit /\ part = "mark" => M!Init
  BY DEF ClientInit
<1>2. part = "mark" /\ ClientNext => M!Next
  BY DEF ClientNext
<1>3. UNCHANGED clientVars => UNCHANGED M!vars
  BY DEF clientVars, M!vars, M!placeVars, M!pointerVars, open, tapped, fromPointer, hover, over, focus, queue, asked,
         small, low, top, scrolled, events
<1> QED
  BY <1>1, <1>2, <1>3

LEMMA ShelvesRun ==
  /\ ClientInit /\ part = "shelves" => H!Init
  /\ part = "shelves" /\ [ClientNext]_clientVars => [H!Next]_H!vars
<1>1. ClientInit /\ part = "shelves" => H!Init
  BY DEF ClientInit
<1>2. part = "shelves" /\ ClientNext => H!Next
  BY DEF ClientNext
<1>3. UNCHANGED clientVars => UNCHANGED H!vars
  BY DEF clientVars, H!vars, shelfPlan, payload, reading, feed, chosen, pointed, moves
<1> QED
  BY <1>1, <1>2, <1>3

LEMMA PrioritiesRun ==
  /\ ClientInit /\ part = "priorities" => Q!Init
  /\ part = "priorities" /\ [ClientNext]_clientVars => [Q!Next]_Q!vars
<1>1. ClientInit /\ part = "priorities" => Q!Init
  BY DEF ClientInit
<1>2. part = "priorities" /\ ClientNext => Q!Next
  BY DEF ClientNext
<1>3. UNCHANGED clientVars => UNCHANGED Q!vars
  BY DEF clientVars, Q!vars, Q!hook, Q!page, user, owner, sequence, state, reads, changes, form,
         moving, mount, dropped, points, requests
<1> QED
  BY <1>1, <1>2, <1>3

LEMMA CardsRun ==
  /\ ClientInit /\ part = "settings" => S!Init
  /\ part = "settings" /\ [ClientNext]_clientVars => [S!Next]_S!vars
<1>1. ClientInit /\ part = "settings" => S!Init
  BY DEF ClientInit
<1>2. part = "settings" /\ ClientNext => S!Next
  BY DEF ClientNext
<1>3. UNCHANGED clientVars => UNCHANGED S!vars
  BY DEF clientVars, S!vars, card, wire, stored, raced
<1> QED
  BY <1>1, <1>2, <1>3

LEMMA PanelsRun ==
  /\ ClientInit /\ part = "panels" => W!Init
  /\ part = "panels" /\ [ClientNext]_clientVars => [W!Next]_W!vars
<1>1. ClientInit /\ part = "panels" => W!Init
  BY DEF ClientInit
<1>2. part = "panels" /\ ClientNext => W!Next
  BY DEF ClientNext
<1>3. UNCHANGED clientVars => UNCHANGED W!vars
  BY DEF clientVars, W!vars, W!pageVars, surface, toolbar, inView, phone, connected, storage, open,
         focus, opener, frames, note, stored, answered, keptNote
<1> QED
  BY <1>1, <1>2, <1>3

LEMMA AccountRun ==
  /\ ClientInit /\ part = "account" => A!Init
  /\ part = "account" /\ [ClientNext]_clientVars => [A!Next]_A!vars
<1>1. ClientInit /\ part = "account" => A!Init
  BY DEF ClientInit
<1>2. part = "account" /\ ClientNext => A!Next
  BY DEF ClientNext
<1>3. UNCHANGED clientVars => UNCHANGED A!vars
  BY DEF clientVars, A!vars, A!provider, A!service, user, loading, unreachable, retrying, tabPage, life,
         form, leaving, wire, valid, tier, spent, paid
<1> QED
  BY <1>1, <1>2, <1>3

LEMMA ShowcaseRun ==
  /\ ClientInit /\ part = "showcase" => G!Init
  /\ part = "showcase" /\ [ClientNext]_clientVars => [G!Next]_G!vars
<1>1. ClientInit /\ part = "showcase" => G!Init
  BY DEF ClientInit
<1>2. part = "showcase" /\ ClientNext => G!Next
  BY DEF ClientNext
<1>3. UNCHANGED clientVars => UNCHANGED G!vars
  BY DEF clientVars, G!vars, G!frameVars, G!bandVars, frameAddress, earlier, pointed, by, previewing,
         pointer, focus, media, band, timers, ran, photos, idle
<1> QED
  BY <1>1, <1>2, <1>3

(* A question mark, whatever part a behaviour is of: a tap decides whether   *)
(* its panel is open, and its sheet clears the mark (Explain.jsx).           *)
THEOREM ClientKeepsMarks == ClientSpec => []MarkObeys
<1> DEFINE Here == part = "mark"
           Kept == M!TapDecides /\ M!SheetClearsTheMark
<1>1. ClientInit /\ Here => M!Init
  BY MarkRun
<1>2. Here /\ [ClientNext]_clientVars => [M!Next]_M!vars
  BY MarkRun
<1>3. [ClientNext]_clientVars => (Here' <=> Here)
  BY PartStays
<1>4. M!Spec => []Kept
  BY TheMarkObeys
<1>5. (Here => Kept) => MarkObeys
  BY DEF MarkObeys
<1> HIDE DEF Here, Kept
<1> QED
  BY <1>1, <1>2, <1>3, <1>4, <1>5, PTL DEF ClientSpec, M!Spec

(* The shelves: browser and service agree on what is open, and an upgrade on *)
(* offer opens what it is offered for (pressAccess.js, repository.py).       *)
THEOREM ClientKeepsShelves == ClientSpec => []ShelvesAreKept
<1> DEFINE Here == part = "shelves"
           Kept == H!OpensWhatIsServed /\ H!OffersAreKept /\ H!FullFilesAreThePlans
<1>1. ClientInit /\ Here => H!Init
  BY ShelvesRun
<1>2. Here /\ [ClientNext]_clientVars => [H!Next]_H!vars
  BY ShelvesRun
<1>3. [ClientNext]_clientVars => (Here' <=> Here)
  BY PartStays
<1>4. H!Spec => []Kept
  BY ShelvesAgree, PartsAssumption DEF PartsAssumption
<1>5. (Here => Kept) => ShelvesAreKept
  BY DEF ShelvesAreKept
<1> HIDE DEF Here, Kept
<1> QED
  BY <1>1, <1>2, <1>3, <1>4, <1>5, PTL DEF ClientSpec, H!Spec

(* The settings: a card at rest shows the answer the service holds           *)
(* (CedarPressSettings.jsx).                                                 *)
THEOREM ClientKeepsAnswers == ClientSpec => []AnswerOnScreen
<1> DEFINE Here == part = "settings"
           Kept == S!AnswerOnScreen
<1>1. ClientInit /\ Here => S!Init
  BY CardsRun
<1>2. Here /\ [ClientNext]_clientVars => [S!Next]_S!vars
  BY CardsRun
<1>3. [ClientNext]_clientVars => (Here' <=> Here)
  BY PartStays
<1>4. S!Spec => []Kept
  BY AnswersStayOnScreen, PartsAssumption DEF PartsAssumption
<1>5. (Here => Kept) => AnswerOnScreen
  BY DEF AnswerOnScreen
<1> HIDE DEF Here, Kept
<1> QED
  BY <1>1, <1>2, <1>3, <1>4, <1>5, PTL DEF ClientSpec, S!Spec

(* The panels: nobody who closes one from the keyboard is stranded, and      *)
(* Cedar greets once a visit (focusReturn.js, PressCedarFab.jsx).            *)
THEOREM ClientKeepsFocus == ClientSpec => []PanelsReturn
<1> DEFINE Here == part = "panels"
           Kept == W!FocusReturns /\ W!GreetsOnce
<1>1. ClientInit /\ Here => W!Init
  BY PanelsRun
<1>2. Here /\ [ClientNext]_clientVars => [W!Next]_W!vars
  BY PanelsRun
<1>3. [ClientNext]_clientVars => (Here' <=> Here)
  BY PartStays
<1>4. W!Spec => []Kept
  BY NobodyIsStranded
<1>5. (Here => Kept) => PanelsReturn
  BY DEF PanelsReturn
<1> HIDE DEF Here, Kept
<1> QED
  BY <1>1, <1>2, <1>3, <1>4, <1>5, PTL DEF ClientSpec, W!Spec

(* The priorities: the quiet screen is the ledger's and no balance goes back *)
(* (pressPriorities.js, usePriorities.js).                                   *)
THEOREM ClientKeepsBalances == ClientSpec => PrioritiesAreCurrent
<1> DEFINE Here == part = "priorities"
           Kept == Q!QuietIsCurrent /\ Q!RequestsReadAsTheirText
           Goes == Q!BalanceNeverGoesBack
<1>1. ClientInit /\ Here => Q!Init
  BY PrioritiesRun
<1>2. Here /\ [ClientNext]_clientVars => [Q!Next]_Q!vars
  BY PrioritiesRun
<1>3. [ClientNext]_clientVars => (Here' <=> Here)
  BY PartStays
<1>4. Q!Spec => []Kept /\ [][Goes]_Q!vars
  BY PrioritiesAreTheirs, BalancesOnlyAdvance, PartsAssumption DEF PartsAssumption
<1>5. Here /\ [ClientNext]_clientVars /\ [Goes]_Q!vars => [Here => Goes]_<<Q!vars, part>>
  BY PartStays
<1>6. [](Here => Kept) /\ [][Here => Goes]_<<Q!vars, part>> => PrioritiesAreCurrent
  BY PTL DEF PrioritiesAreCurrent, Here, Kept, Goes
<1>7. ~Here => [Here => Goes]_<<Q!vars, part>>
  OBVIOUS
<1> HIDE DEF Here, Kept, Goes
<1> QED
  BY <1>1, <1>2, <1>3, <1>4, <1>5, <1>6, <1>7, PTL DEF ClientSpec, Q!Spec

(* The account's pages: the form is its link's, one checkout is asked for at *)
(* a time, and a payment shown as confirmed stays (CedarPressCreateAccount,  *)
(* CedarPressSubscribe).                                                     *)
THEOREM ClientKeepsPages == ClientSpec => AccountPages
<1> DEFINE Here == part = "account"
           Kept == A!FormIsItsLinks /\ A!OneCheckoutAtATime
           Goes == A!ConfirmedForGood
<1>1. ClientInit /\ Here => A!Init
  BY AccountRun
<1>2. Here /\ [ClientNext]_clientVars => [A!Next]_A!vars
  BY AccountRun
<1>3. [ClientNext]_clientVars => (Here' <=> Here)
  BY PartStays
<1>4. A!Spec => []Kept /\ [][Goes]_A!vars
  BY PagesHoldTheirOwn, PartsAssumption DEF PartsAssumption
<1>5. Here /\ [ClientNext]_clientVars /\ [Goes]_A!vars => [Here => Goes]_<<A!vars, part>>
  BY PartStays
<1>6. [](Here => Kept) /\ [][Here => Goes]_<<A!vars, part>> => AccountPages
  BY PTL DEF AccountPages, Here, Kept, Goes
<1>7. ~Here => [Here => Goes]_<<A!vars, part>>
  OBVIOUS
<1> HIDE DEF Here, Kept, Goes
<1> QED
  BY <1>1, <1>2, <1>3, <1>4, <1>5, <1>6, <1>7, PTL DEF ClientSpec, A!Spec

(* The public page: the frame is given back, a chosen example holds, and the *)
(* photograph does not change under the visitor (PressGate.jsx).             *)
THEOREM ClientKeepsShowcase == ClientSpec => ShowcaseHolds
<1> DEFINE Here == part = "showcase"
           Kept == G!ChipsGiveTheFrameBack
           Goes == G!ChosenExampleHolds /\ G!PhotographHolds
<1>1. ClientInit /\ Here => G!Init
  BY ShowcaseRun
<1>2. Here /\ [ClientNext]_clientVars => [G!Next]_G!vars
  BY ShowcaseRun
<1>3. [ClientNext]_clientVars => (Here' <=> Here)
  BY PartStays
<1>4. G!Spec => []Kept /\ [][Goes]_G!vars
  BY ShowcaseKeepsStill, PartsAssumption DEF PartsAssumption
<1>5. Here /\ [ClientNext]_clientVars /\ [Goes]_G!vars => [Here => Goes]_<<G!vars, part>>
  BY PartStays
<1>6. [](Here => Kept) /\ [][Here => Goes]_<<G!vars, part>> => ShowcaseHolds
  BY PTL DEF ShowcaseHolds, Here, Kept, Goes
<1>7. ~Here => [Here => Goes]_<<G!vars, part>>
  OBVIOUS
<1> HIDE DEF Here, Kept, Goes
<1> QED
  BY <1>1, <1>2, <1>3, <1>4, <1>5, <1>6, <1>7, PTL DEF ClientSpec, G!Spec

-----------------------------------------------------------------------------
(* The fade-in: no section in the document is without a script that looks    *)
(* after it.  That it is then revealed rests on fairness and is left to TLC  *)
(* (NothingStaysHidden).                                                     *)

CONSTANTS GateSections, PageSections, LateSections, Screen, LastScreen, FadeActs
VARIABLES tree, mounted, revealed, watched, news, attached, canObserve, scroll, watchdog, popped

V == INSTANCE FadeIn WITH MaxActs <- FadeActs

(* The script has the root that is in the document: React gives it each.     *)
Looked == attached /\ V!NoneForgotten

LEMMA AttachLooks ==
  ASSUME NEW nodes, V!Attach(nodes), mounted' = nodes
  PROVE  Looked'
  BY DEF V!Attach, V!Follows, Looked, V!NoneForgotten

LEMMA RenderLooks ==
  ASSUME Looked, NEW t, V!Render(t)
  PROVE  Looked'
<1>1. CASE V!SameRoot(t)
  <2>1. mounted' = V!SectionsOf(t) /\ attached' = attached
    BY <1>1 DEF V!Render
  <2>2. news' = news \cup V!SectionsOf(t)
    BY <1>1 DEF V!Render, V!Reported, Looked
  <2> QED
    BY <2>1, <2>2 DEF Looked, V!NoneForgotten
<1>2. CASE ~V!SameRoot(t)
  BY <1>2, AttachLooks DEF V!Render
<1> QED
  BY <1>1, <1>2

LEMMA TakeLooks ==
  ASSUME Looked, V!Take
  PROVE  Looked'
<1>1. mounted' = mounted /\ attached' = attached
  BY DEF V!Take
<1>2. revealed \cup watched \cup news \subseteq revealed' \cup watched' \cup news'
  BY DEF V!Take
<1> QED
  BY <1>1, <1>2 DEF Looked, V!NoneForgotten

LEMMA StepLooks ==
  ASSUME Looked, [V!Next]_(V!vars)
  PROVE  Looked'
<1>1. ASSUME NEW t \in {"gate", "page"}, V!Render(t)
      PROVE  Looked'
  BY <1>1, RenderLooks
<1>2. ASSUME NEW s \in LateSections, V!Arrive(s)
      PROVE  Looked'
  BY <1>2 DEF V!Arrive, V!Reported, Looked, V!NoneForgotten
<1>3. CASE V!Take
  BY <1>3, TakeLooks
<1>4. ASSUME NEW s \in V!Sections, V!Intersect(s)
      PROVE  Looked'
  BY <1>4 DEF V!Intersect, Looked, V!NoneForgotten
<1>5. CASE V!Sweep
  BY <1>5 DEF V!Sweep, Looked, V!NoneForgotten
<1>6. CASE V!Scroll \/ V!PopState \/ UNCHANGED V!vars
  BY <1>6 DEF V!Scroll, V!PopState, V!vars, Looked, V!NoneForgotten
<1> QED
  BY <1>1, <1>2, <1>3, <1>4, <1>5, <1>6 DEF V!Next

(* No section is forgotten, whichever tree came after whichever and whatever *)
(* the browser reports when: it is revealed, watched for, or about to be     *)
(* reported (useFadeIn.js).                                                  *)
THEOREM NobodyIsForgotten == V!Spec => []V!NoneForgotten
<1>1. V!Init => Looked
  BY DEF V!Init, Looked, V!NoneForgotten
<1>2. Looked /\ [V!Next]_(V!vars) => Looked'
  BY StepLooks
<1>3. Looked => V!NoneForgotten
  BY DEF Looked
<1> QED
  BY <1>1, <1>2, <1>3, PTL DEF V!Spec

-----------------------------------------------------------------------------
(* The release files: the ledger keeps what it holds, a commit names what it *)
(* lacks, and what is deployed is of one release.                            *)

CONSTANTS Collections, Samples, Outputs, Atomic, Refills, MaxVersion, MaxBytes, MaxEdition, FilesActs
VARIABLES manifest, ledger, record, work, index, edition, made, run, head, site

F == INSTANCE ReleaseFiles WITH MaxActs <- FilesActs

Release == [version : Nat, facts : Nat]
Ledgers == [kind : {"missing", "ok", "broken"}, releases : [Collections -> Seq(Release)]]

Extends(new, old) == \A c \in Collections : F!IsPrefix(old.releases[c], new.releases[c])

----------------------------------------------------------------------------
(* Prefixes and what the script appends.                                     *)

LEMMA PrefixReflexive ==
  ASSUME NEW X, NEW s \in Seq(X)
  PROVE  F!IsPrefix(s, s)
<1>1. Len(s) \in Nat
  BY LenProperties
<1> QED
  BY <1>1 DEF F!IsPrefix

LEMMA PrefixOfAppend ==
  ASSUME NEW X, NEW s \in Seq(X), NEW x \in X
  PROVE  Append(s, x) \in Seq(X) /\ F!IsPrefix(s, Append(s, x))
<1>1. Len(s) \in Nat /\ Len(Append(s, x)) = Len(s) + 1 /\ Append(s, x) \in Seq(X)
  BY LenProperties, AppendProperties
<1>2. \A i \in 1..Len(s) : Append(s, x)[i] = s[i]
  BY AppendProperties
<1>3. SubSeq(s, 1, Len(s)) = SubSeq(Append(s, x), 1, Len(s))
  BY <1>1, <1>2
<1> QED
  BY <1>1, <1>3 DEF F!IsPrefix

LEMMA EmptyIsPrefix ==
  ASSUME NEW X, NEW s \in Seq(X)
  PROVE  F!IsPrefix(<< >>, s)
<1>1. Len(s) \in Nat /\ Len(<< >>) = 0
  BY LenProperties
<1>2. SubSeq(<< >>, 1, 0) = << >> /\ SubSeq(s, 1, 0) = << >>
  OBVIOUS
<1> QED
  BY <1>1, <1>2 DEF F!IsPrefix

(* What record-release writes holds all that the ledger it read held.        *)
LEMMA RecordedExtends ==
  ASSUME NEW l \in Ledgers, NEW m \in [Collections -> Release]
  PROVE  F!Recorded(l, m) \in Ledgers /\ Extends(F!Recorded(l, m), l) /\ F!Recorded(l, m).kind = l.kind
<1> DEFINE next == [c \in Collections |-> IF c \in F!Behind(l, m) THEN Append(l.releases[c], m[c])
                                          ELSE l.releases[c]]
<1>1. F!Recorded(l, m) = [l EXCEPT !.releases = next]
  BY DEF F!Recorded
<1>2. \A c \in Collections : l.releases[c] \in Seq(Release) /\ m[c] \in Release
  BY DEF Ledgers
<1>3. ASSUME NEW c \in Collections
      PROVE  next[c] \in Seq(Release) /\ F!IsPrefix(l.releases[c], next[c])
  <2>1. CASE c \in F!Behind(l, m)
    BY <1>2, <2>1, PrefixOfAppend
  <2>2. CASE c \notin F!Behind(l, m)
    BY <1>2, <2>2, PrefixReflexive
  <2> QED
    BY <2>1, <2>2
<1>4. next \in [Collections -> Seq(Release)]
  BY <1>3
<1> HIDE DEF next
<1>5. F!Recorded(l, m) = [kind |-> l.kind, releases |-> next]
  BY <1>1 DEF Ledgers
<1> QED
  BY <1>3, <1>4, <1>5 DEF Ledgers, Extends

(* What the script reads holds all that the file holds.                      *)
LEMMA ReadableExtends ==
  ASSUME NEW l \in Ledgers, F!Readable(l).kind = "ok",
         l.kind = "missing" => l.releases = [c \in Collections |-> << >>]
  PROVE  F!Readable(l) \in Ledgers /\ F!Readable(l).releases = l.releases
<1>1. CASE l.kind = "missing"
  <2>1. F!Readable(l) = [kind |-> "ok", releases |-> [c \in Collections |-> << >>]]
    BY <1>1 DEF F!Readable
  <2>2. << >> \in Seq(Release)
    OBVIOUS
  <2>3. [c \in Collections |-> << >>] \in [Collections -> Seq(Release)]
    BY <2>2
  <2> QED
    BY <1>1, <2>1, <2>3 DEF Ledgers
<1>2. CASE l.kind # "missing"
  BY <1>2 DEF F!Readable
<1> QED
  BY <1>1, <1>2

----------------------------------------------------------------------------
(* A script that is to write the ledger holds an extension of it, however    *)
(* long it has been under way and whatever a merge did to the file since.    *)
Pending ==
  \/ run = None
  \/ \E s, v, l : /\ run = F!Runs(s, v, l)
                  /\ s = "record-release" => v \in Ledgers /\ v.kind = "ok" /\ Extends(v, ledger)

LedgerInv ==
  /\ manifest \in [Collections -> Release]
  /\ ledger \in Ledgers
  /\ ledger.kind = "missing" => ledger.releases = [c \in Collections |-> << >>]
  /\ Pending

LEMMA InitLedger == F!Init => LedgerInv
<1> SUFFICES ASSUME F!Init PROVE LedgerInv
  OBVIOUS
<1>1. [version |-> 1, facts |-> 1] \in Release
  BY DEF Release
<1>2. manifest \in [Collections -> Release]
  BY <1>1 DEF F!Init
<1>3. << >> \in Seq(Release)
  OBVIOUS
<1>4. [c \in Collections |-> << >>] \in [Collections -> Seq(Release)]
  BY <1>3
<1>5. ledger = [kind |-> "missing", releases |-> [c \in Collections |-> << >>]] /\ run = None
  BY DEF F!Init
<1> QED
  BY <1>2, <1>4, <1>5 DEF LedgerInv, Ledgers, Pending

(* The file as it stands extends itself.                                     *)
LEMMA ExtendsItself ==
  ASSUME NEW l \in Ledgers
  PROVE  Extends(l, l)
<1>1. \A c \in Collections : l.releases[c] \in Seq(Release)
  BY DEF Ledgers
<1> QED
  BY <1>1, PrefixReflexive DEF Extends

LEMMA StartRecordKeeps ==
  ASSUME LedgerInv, F!StartRecordRelease
  PROVE  LedgerInv'
<1> DEFINE held == F!Readable(ledger)
           next == F!Recorded(held, manifest)
<1>1. held \in Ledgers /\ held.releases = ledger.releases /\ held.kind = "ok"
  BY ReadableExtends DEF LedgerInv, F!StartRecordRelease
<1>2. next \in Ledgers /\ Extends(next, held) /\ next.kind = "ok"
  BY <1>1, RecordedExtends DEF LedgerInv
<1>3. Extends(next, ledger)
  BY <1>1, <1>2 DEF Extends
<1>4. run' = F!Runs("record-release", next, <<"releases.json">>)
      /\ UNCHANGED <<manifest, ledger>>
  BY DEF F!StartRecordRelease
<1> HIDE DEF next
<1>5. Pending'
  BY <1>2, <1>3, <1>4 DEF Pending, Extends
<1> QED
  BY <1>4, <1>5 DEF LedgerInv

(* A script that writes something else leaves the ledger alone.              *)
LEMMA StartOtherKeeps ==
  ASSUME LedgerInv, NEW s, NEW v, NEW l, s # "record-release",
         run' = F!Runs(s, v, l), UNCHANGED <<manifest, ledger>>
  PROVE  LedgerInv'
  BY DEF LedgerInv, Pending

LEMMA WriteKeeps ==
  ASSUME LedgerInv, F!WriteFile
  PROVE  LedgerInv' /\ F!LedgerKeepsReleases
<1>1. PICK s, v, l : /\ run = F!Runs(s, v, l)
                     /\ s = "record-release" => v \in Ledgers /\ v.kind = "ok" /\ Extends(v, ledger)
  BY DEF LedgerInv, Pending, F!WriteFile
<1>2. run.script = s /\ run.value = v /\ manifest' = manifest
  BY <1>1 DEF F!Runs, F!WriteFile
<1>3. run' = None \/ \E rest : run' = F!Runs(s, v, rest)
  BY <1>1 DEF F!WriteFile, F!Runs
<1>4. CASE s = "record-release"
  <2>1. ledger' = v
    BY <1>2, <1>4 DEF F!WriteFile, F!Writes
  <2>2. Extends(ledger', ledger) /\ ledger' \in Ledgers /\ ledger'.kind = "ok" /\ Extends(v, ledger')
    BY <1>1, <1>4, <2>1, ExtendsItself
  <2>3. Pending'
    BY <1>1, <1>3, <1>4, <2>2 DEF Pending, Extends
  <2> QED
    BY <1>2, <2>2, <2>3 DEF LedgerInv, Extends, F!LedgerKeepsReleases
<1>5. CASE s # "record-release"
  <2>1. ledger' = ledger
    BY <1>2, <1>5 DEF F!WriteFile, F!Writes
  <2>2. Pending'
    BY <1>3, <1>5 DEF Pending
  <2>3. Extends(ledger, ledger)
    BY ExtendsItself DEF LedgerInv
  <2> QED
    BY <1>2, <2>1, <2>2, <2>3 DEF LedgerInv, Extends, F!LedgerKeepsReleases
<1> QED
  BY <1>4, <1>5

(* A merge that breaks the file, and its resolution, keep its releases.      *)
LEMMA MergeKeeps ==
  ASSUME LedgerInv, F!BreakLedger \/ F!MendLedger
  PROVE  LedgerInv'
<1>1. ledger'.releases = ledger.releases /\ ledger' \in Ledgers /\ ledger'.kind # "missing"
      /\ UNCHANGED <<manifest, run>>
  BY DEF LedgerInv, F!BreakLedger, F!MendLedger, Ledgers
<1>2. Pending'
  BY <1>1 DEF LedgerInv, Pending, Extends
<1> QED
  BY <1>1, <1>2 DEF LedgerInv

LEMMA ImportKeeps ==
  ASSUME F!ReleaseFilesAssumption, LedgerInv, NEW c \in Collections, F!Import(c)
  PROVE  LedgerInv'
<1>1. PICK version \in manifest[c].version .. MaxVersion, facts \in 1 .. 2 :
        manifest' = [manifest EXCEPT ![c] = [version |-> version, facts |-> facts]]
  BY DEF F!Import
<1>2. manifest[c].version \in Nat
  BY DEF LedgerInv, Release
<1>3. [version |-> version, facts |-> facts] \in Release
  BY <1>1, <1>2 DEF Release, F!ReleaseFilesAssumption
<1>4. manifest' \in [Collections -> Release]
  BY <1>1, <1>3 DEF LedgerInv
<1> QED
  BY <1>4 DEF LedgerInv, F!Import, Pending, Extends

LEMMA OtherKeeps ==
  ASSUME LedgerInv, UNCHANGED <<manifest, ledger>>, run' \in {run, None}
  PROVE  LedgerInv'
  BY DEF LedgerInv, Pending, Extends

LEMMA StepKeeps ==
  ASSUME F!ReleaseFilesAssumption, LedgerInv, [F!Next]_F!vars
  PROVE  LedgerInv' /\ (F!LedgerKeepsReleases \/ UNCHANGED F!vars)
<1>1. Extends(ledger, ledger)
  BY ExtendsItself DEF LedgerInv
<1>2. ledger'.releases = ledger.releases => F!LedgerKeepsReleases
  BY <1>1 DEF Extends, F!LedgerKeepsReleases
<1>3. CASE F!StartMeasure
  BY <1>2, <1>3, StartOtherKeeps DEF F!StartMeasure
<1>4. CASE F!StartRecordRelease
  BY <1>2, <1>4, StartRecordKeeps DEF F!StartRecordRelease
<1>5. ASSUME NEW s \in F!Scripts, F!StartGenerate(s)
      PROVE  LedgerInv' /\ F!LedgerKeepsReleases
  BY <1>2, <1>5, StartOtherKeeps DEF F!StartGenerate, F!ReleaseFilesAssumption
<1>6. CASE F!WriteFile
  BY <1>6, WriteKeeps
<1>7. CASE F!BreakLedger \/ F!MendLedger
  <2>1. ledger'.releases = ledger.releases
    BY <1>7 DEF F!BreakLedger, F!MendLedger, LedgerInv, Ledgers
  <2> QED
    BY <1>2, <1>7, <2>1, MergeKeeps
<1>8. ASSUME NEW c \in Collections, F!Import(c)
      PROVE  LedgerInv' /\ F!LedgerKeepsReleases
  BY <1>2, <1>8, ImportKeeps DEF F!Import
<1>9. CASE F!Stop \/ F!NewEdition \/ F!Commit \/ F!Deploy
  BY <1>2, <1>9, OtherKeeps DEF F!Stop, F!NewEdition, F!Commit, F!Deploy
<1>10. ASSUME NEW p \in Samples, F!EditSample(p) \/ F!GitAdd(p)
       PROVE  LedgerInv' /\ F!LedgerKeepsReleases
  BY <1>2, <1>10, OtherKeeps DEF F!EditSample, F!GitAdd
<1>11. ASSUME NEW f \in F!Files, F!Checkout(f)
       PROVE  LedgerInv' /\ F!LedgerKeepsReleases
  BY <1>2, <1>11, OtherKeeps DEF F!Checkout
<1>12. CASE UNCHANGED F!vars
  BY <1>12, OtherKeeps DEF F!vars
<1> QED
  BY <1>3, <1>4, <1>5, <1>6, <1>7, <1>8, <1>9, <1>10, <1>11, <1>12 DEF F!Next

(* No release leaves the ledger, with the facts it was recorded with,        *)
(* whatever the manifest moves on to and whatever a merge did to the file    *)
(* (record-release.mjs).                                                     *)
THEOREM LedgerIsKept == F!ReleaseFilesAssumption => (F!Spec => [][F!LedgerKeepsReleases]_F!vars)
<1> SUFFICES ASSUME F!ReleaseFilesAssumption PROVE F!Spec => [][F!LedgerKeepsReleases]_F!vars
  OBVIOUS
<1>1. LedgerInv /\ [F!Next]_F!vars => LedgerInv'
  BY StepKeeps
<1>2. LedgerInv /\ [F!Next]_F!vars => [F!LedgerKeepsReleases]_F!vars
  BY StepKeeps
<1> QED
  BY InitLedger, <1>1, <1>2, PTL DEF F!Spec

----------------------------------------------------------------------------
(* A commit made where the record was current names every sample it lacks,   *)
(* as long as "published" is not written like a reason not to be.            *)
NoneIsNoReason ==
  None \notin {"not in repository", "on disk, NOT in the index", "on disk, modified and NOT staged"}

LEMMA LackedIsMeasured ==
  ASSUME NoneIsNoReason, NEW disk, NEW staged, NEW p \in Samples, staged[p] = 0
  PROVE  \E entry \in F!Measure(disk, staged) : entry.path = p
<1>1. F!WhyUnpublished(p, disk, staged) \in {"not in repository", "on disk, NOT in the index"}
  BY DEF F!WhyUnpublished
<1>2. F!WhyUnpublished(p, disk, staged) # None
  BY <1>1 DEF NoneIsNoReason
<1> DEFINE entry == [path |-> p, why |-> F!WhyUnpublished(p, disk, staged)]
<1>3. entry \in F!Measure(disk, staged)
  BY <1>2 DEF F!Measure
<1>4. entry.path = p
  OBVIOUS
<1> QED
  BY <1>3, <1>4

LEMMA CommitNames ==
  ASSUME NoneIsNoReason, F!CommitNamesMissing, [F!Next]_F!vars
  PROVE  F!CommitNamesMissing'
<1>1. CASE F!Commit
  <2>1. SUFFICES ASSUME head'.measured, NEW p \in Samples, head'.samples[p] = 0
                 PROVE  \E entry \in head'.record : entry.path = p
    BY DEF F!CommitNamesMissing
  <2>2. head'.record = record /\ head'.samples = index /\ head'.measured = F!SamplesCheck(work, index, record)
    BY <1>1 DEF F!Commit
  <2>3. record = F!Measure(work, index)
    BY <2>1, <2>2 DEF F!SamplesCheck
  <2> QED
    BY <2>1, <2>2, <2>3, LackedIsMeasured
<1>2. CASE UNCHANGED head
  BY <1>2 DEF F!CommitNamesMissing
<1>3. F!Commit \/ UNCHANGED head
  BY DEF F!Next, F!vars, F!StartMeasure, F!StartRecordRelease, F!StartGenerate, F!WriteFile, F!Stop, F!Import,
         F!NewEdition, F!EditSample, F!GitAdd, F!Checkout, F!BreakLedger, F!MendLedger, F!Deploy
<1> QED
  BY <1>1, <1>2, <1>3

(* A commit made where the record was current names every declared sample it *)
(* does not hold, whatever lay on that machine's disk (measure-samples.mjs). *)
THEOREM CommitIsHonest == NoneIsNoReason => (F!Spec => []F!CommitNamesMissing)
<1> SUFFICES ASSUME NoneIsNoReason PROVE F!Spec => []F!CommitNamesMissing
  OBVIOUS
<1>1. F!Init => F!CommitNamesMissing
  BY DEF F!Init, F!CommitNamesMissing
<1>2. F!CommitNamesMissing /\ [F!Next]_F!vars => F!CommitNamesMissing'
  BY CommitNames
<1> QED
  BY <1>1, <1>2, PTL DEF F!Spec

----------------------------------------------------------------------------
(* A commit whose checks pass is of one release.                             *)
LEMMA GreenIsWhole ==
  ASSUME NEW commit, F!Green(commit)
  PROVE  /\ \A f \in F!Files : commit.made[f] = commit.edition
         /\ \A c \in Collections : \E i \in DOMAIN commit.ledger.releases[c] :
              commit.ledger.releases[c][i] = commit.manifest[c]
<1>1. ASSUME NEW f \in F!Files
      PROVE  commit.made[f] = commit.edition
  <2>1. PICK s \in F!Scripts : f \in F!ToSet(Outputs[s])
    BY DEF F!Files
  <2>2. F!StaleFiles(s, commit.made, commit.edition) = {}
    BY <2>1 DEF F!Green
  <2> QED
    BY <2>1, <2>2 DEF F!StaleFiles
<1>2. ASSUME NEW c \in Collections
      PROVE  \E i \in DOMAIN commit.ledger.releases[c] :
               commit.ledger.releases[c][i] = commit.manifest[c]
  <2> DEFINE l == F!Readable(commit.ledger)
             found == F!Existing(l.releases[c], commit.manifest[c].version)
  <2>1. l.kind = "ok" /\ ~F!Contradicts(l, commit.manifest) /\ F!Behind(l, commit.manifest) = {}
    BY DEF F!Green, F!LedgerCheck
  <2>2. found # {}
    BY <2>1 DEF F!Behind
  <2>3. PICK i \in found : TRUE
    BY <2>2
  <2>4. i \in DOMAIN l.releases[c] /\ l.releases[c][i] = commit.manifest[c]
    BY <2>1, <2>3 DEF F!Contradicts, F!Existing
  <2>5. CASE commit.ledger.kind = "missing"
    <3>1. l.releases[c] = << >>
      BY <2>5 DEF F!Readable
    <3> QED
      BY <2>4, <3>1
  <2>6. CASE commit.ledger.kind # "missing"
    BY <2>4, <2>6 DEF F!Readable
  <2> QED
    BY <2>5, <2>6
<1> QED
  BY <1>1, <1>2

LEMMA SiteStays ==
  ASSUME F!SiteIsOfOneRelease, [F!Next]_F!vars
  PROVE  F!SiteIsOfOneRelease'
<1>1. CASE F!Deploy
  <2>1. F!Green(head) /\ site' = head
    BY <1>1 DEF F!Deploy
  <2> QED
    BY <2>1, GreenIsWhole DEF F!SiteIsOfOneRelease
<1>2. CASE UNCHANGED site
  BY <1>2 DEF F!SiteIsOfOneRelease
<1>3. F!Deploy \/ UNCHANGED site
  BY DEF F!Next, F!vars, F!StartMeasure, F!StartRecordRelease, F!StartGenerate, F!WriteFile, F!Stop, F!Import,
         F!NewEdition, F!EditSample, F!GitAdd, F!Checkout, F!BreakLedger, F!MendLedger, F!Commit
<1> QED
  BY <1>1, <1>2, <1>3

(* What is deployed is of one release, whatever script was stopped between   *)
(* two of the files it writes and whatever was committed since.              *)
THEOREM SiteIsWhole == F!Spec => []F!SiteIsOfOneRelease
<1>1. F!Init => F!SiteIsOfOneRelease
  BY DEF F!Init, F!SiteIsOfOneRelease
<1>2. F!SiteIsOfOneRelease /\ [F!Next]_F!vars => F!SiteIsOfOneRelease'
  BY SiteStays
<1> QED
  BY <1>1, <1>2, PTL DEF F!Spec

-----------------------------------------------------------------------------
(* The news.  A request that may still publish is of the session in hand,    *)
(* and so is the answer the service gave it.                                 *)

CONSTANTS Manifest, Provenance, Ledger, Downloads, Searches, Holding, Offered, Page, Today, Window, NewsActs
VARIABLES hash, reader, authLoading, memo, held, calls, collection, kind, query, shown, file

N == INSTANCE Releases WITH MaxActs <- NewsActs, user <- reader, owner <- memo, state <- held

Request == [owner : Nat, active : BOOLEAN, answer : DOMAIN Offered \cup {None, "refused"}]
Published == [owner : Nat, status : {"none", "ready", "unavailable"}, of : DOMAIN Offered \cup {None}]

NewsInv ==
  /\ memo \in Nat /\ memo > 0 /\ reader \in DOMAIN Offered \cup {None}
  /\ held \in Published /\ held.owner <= memo
  /\ held.owner = memo /\ held.of # None => held.of = reader
  /\ calls \subseteq Request
  /\ \A c \in calls : c.active => /\ c.owner = memo
                                  /\ c.answer \in DOMAIN Offered => c.answer = reader

LEMMA DisposedTyped ==
  ASSUME NEW c \in Request, NEW d, d = [c EXCEPT !.active = FALSE]
  PROVE  d \in Request /\ ~d.active
  BY DEF Request

LEMMA AnsweredTyped ==
  ASSUME NEW c \in Request, NEW answer \in DOMAIN Offered \cup {None, "refused"}, NEW d,
         d = [c EXCEPT !.answer = answer]
  PROVE  d \in Request /\ d.owner = c.owner /\ d.active = c.active /\ d.answer = answer
  BY DEF Request

LEMMA InitNews ==
  ASSUME N!Init
  PROVE  NewsInv
  BY DEF N!Init, NewsInv, N!Nothing, Published

LEMMA BecomeKeepsNews ==
  ASSUME N!ReleasesAssumption, NewsInv, NEW u \in DOMAIN Offered \cup {None}, NEW ld, N!Become(u, ld)
  PROVE  NewsInv'
<1>1. PICK new : new = [owner |-> memo + 1, active |-> TRUE, answer |-> None]
  OBVIOUS
<1>2. /\ memo' = memo + 1 /\ held' = held /\ reader' = u
      /\ calls' \subseteq N!Disposed \cup {new}
  BY <1>1 DEF N!Become, N!StartArticleRequest
<1>3. memo \in Nat /\ memo + 1 \in Nat
  BY DEF NewsInv
<1>4. new \in Request /\ new.owner = memo + 1 /\ new.answer = None
  BY <1>1, <1>3 DEF Request
<1>5. \A d \in N!Disposed : d \in Request /\ ~d.active
  BY DisposedTyped DEF N!Disposed, NewsInv
<1>6. held'.owner < memo'
  BY <1>2 DEF NewsInv, Published
<1>7. \A d \in calls' : d \in Request /\ (d.active => d.owner = memo' /\ d.answer = None)
  BY <1>2, <1>4, <1>5
<1> QED
  BY <1>2, <1>3, <1>6, <1>7 DEF NewsInv, N!ReleasesAssumption, Published

LEMMA StepKeepsNews ==
  ASSUME N!ReleasesAssumption, NewsInv, [N!Next]_(N!vars)
  PROVE  NewsInv'
<1>1. ASSUME NEW u \in DOMAIN Offered \cup {None}, NEW ld, N!Become(u, ld)
      PROVE  NewsInv'
  BY <1>1, BecomeKeepsNews
<1>2. CASE N!AuthChecked \/ N!SignIn \/ N!SignOut \/ N!RefreshSession
  BY <1>1, <1>2 DEF N!AuthChecked, N!SignIn, N!SignOut, N!RefreshSession, NewsInv
<1>3. ASSUME NEW c \in calls, N!Serve(c)
      PROVE  NewsInv'
  <2>1. PICK answer \in {"refused"} \cup ({reader} \ {None}) :
          calls' = (calls \ {c}) \cup {[c EXCEPT !.answer = answer]}
    BY <1>3 DEF N!Serve
  <2>2. PICK d : d = [c EXCEPT !.answer = answer]
    OBVIOUS
  <2>3. c \in Request /\ answer \in DOMAIN Offered \cup {None, "refused"}
    BY DEF NewsInv
  <2>4. d \in Request /\ d.owner = c.owner /\ d.active = c.active /\ d.answer = answer
    BY <2>2, <2>3, AnsweredTyped
  <2>5. answer \in DOMAIN Offered => answer = reader
    BY DEF N!ReleasesAssumption
  <2>6. UNCHANGED <<reader, memo, held>>
    BY <1>3 DEF N!Serve
  <2> QED
    BY <2>1, <2>2, <2>4, <2>5, <2>6 DEF NewsInv
<1>4. ASSUME NEW c \in calls, N!Publish(c)
      PROVE  NewsInv'
  <2>1. calls' = calls \ {c} /\ UNCHANGED <<reader, memo>>
    BY <1>4 DEF N!Publish
  <2>2. CASE ~c.active
    <3>1. held' = held
      BY <1>4, <2>2 DEF N!Publish
    <3> QED
      BY <2>1, <3>1 DEF NewsInv
  <2>3. CASE c.active
    <3>1. c.owner = memo /\ (c.answer \in DOMAIN Offered => c.answer = reader)
      BY <2>3 DEF NewsInv
    <3>2. \/ held' = [owner |-> c.owner, status |-> "ready", of |-> c.answer] /\ c.answer \in DOMAIN Offered
          \/ held' = [owner |-> c.owner, status |-> "unavailable", of |-> None]
      BY <1>4, <2>3 DEF N!Publish
    <3>3. held' \in Published /\ held'.owner = memo /\ (held'.of # None => held'.of = reader)
      BY <3>1, <3>2 DEF Published, NewsInv
    <3> QED
      BY <2>1, <3>3 DEF NewsInv
  <2> QED
    BY <2>2, <2>3
<1>5. ASSUME UNCHANGED N!session
      PROVE  NewsInv'
  BY <1>5 DEF N!session, NewsInv
<1>6. ASSUME NEW at, N!FollowLink(at)
      PROVE  UNCHANGED N!session
  BY <1>6 DEF N!FollowLink
<1>7. ASSUME NEW c, NEW k, NEW q, N!Choose(c, k, q)
      PROVE  UNCHANGED N!session
  BY <1>7 DEF N!Choose
<1>8. CASE N!FollowRecent \/ N!FollowRow \/ N!ChooseCollection \/ N!ChooseKind \/ N!Search
  BY <1>5, <1>6, <1>7, <1>8 DEF N!FollowRecent, N!FollowRow, N!ChooseCollection, N!ChooseKind, N!Search
<1>9. CASE N!ShowMore \/ N!DownloadCsv \/ N!DownloadAll \/ UNCHANGED N!vars
  BY <1>5, <1>9 DEF N!ShowMore, N!DownloadCsv, N!DownloadAll, N!vars
<1> QED
  BY <1>2, <1>3, <1>4, <1>8, <1>9 DEF N!Next

(* However late a request of an earlier session answers, and whoever it      *)
(* answered: a connected page shows the releases of the reader it is for, or *)
(* none (useReleaseFeed.js, articleRequest.js).                              *)
THEOREM NewsIsTheirOwn ==
  ASSUME N!ReleasesAssumption
  PROVE  N!Spec => []N!OwnReleasesOnly
<1>1. N!Init => NewsInv
  BY InitNews
<1>2. NewsInv /\ [N!Next]_(N!vars) => NewsInv'
  BY StepKeepsNews
<1>3. NewsInv => N!OwnReleasesOnly
  <2> SUFFICES ASSUME NewsInv, connected, N!Now # N!NoModel
               PROVE  reader \in Holding /\ N!Now = N!Models[reader]
    BY DEF N!OwnReleasesOnly
  <2>1. PICK seen : seen = N!VisibleArticleState(held, memo, N!Enabled(reader, authLoading))
    OBVIOUS
  <2>2. seen.of # None /\ N!Now = N!Models[seen.of]
    BY <2>1 DEF N!Now, N!ModelOf
  <2>3. [held EXCEPT !.status = "idle", !.of = None].of = None
    BY DEF NewsInv, Published
  <2>4. [held EXCEPT !.status = "loading", !.of = None].of = None
    BY DEF NewsInv, Published
  <2>5. N!Enabled(reader, authLoading) /\ held.owner = memo /\ seen = held
    BY <2>1, <2>2, <2>3, <2>4 DEF N!VisibleArticleState
  <2> QED
    BY <2>2, <2>5 DEF N!Enabled, NewsInv
<1> QED
  BY <1>1, <1>2, <1>3, PTL DEF N!Spec

-----------------------------------------------------------------------------
(* The collections page: one scroll to a fragment, then the reader's own.    *)

CONSTANT DataActs
VARIABLES entitled, main, hooked, viewer, records, filters, width, frame, settle, measured,
          finished, fallback, at

L == INSTANCE DataPage WITH MaxActs <- DataActs

(* The two-second timer runs for a fragment that was not reached yet.        *)
FragmentInv == finished \in BOOLEAN /\ (fallback => ~finished)

LEMMA FragmentSteps == ASSUME FragmentInv, [L!Next]_L!vars PROVE FragmentInv' /\ L!ReaderInControl
<1> USE DEF FragmentInv, L!ReaderInControl
\* An effect that runs, and an attempt of one that ran.
<1>1. ASSUME NEW h, NEW m, NEW v, NEW r, NEW where, L!Run(h, m, v, r, where) PROVE FragmentInv'
  BY <1>1 DEF L!Run
<1>2. ASSUME NEW h, NEW m, NEW v, NEW r, L!Attempt(h, m, v, r, FALSE)
      PROVE  FragmentInv' /\ (finished => at' = at)
  BY <1>2 DEF L!Attempt, L!Spent
<1>3. ASSUME NEW l, NEW e, L!Session(l, e) PROVE FragmentInv' /\ L!ReaderInControl
  <2>1. <<l, e>> # <<loading, entitled>> /\ loading' = l /\ entitled' = e
    BY <1>3 DEF L!Session
  <2>2. FragmentInv'
    BY <1>1, <1>3 DEF L!Session
  <2> QED
    BY <2>1, <2>2
<1>4. CASE L!ViewerArrives \/ L!RecordsArrive
  <2>1. PICK v, r : L!Attempt(hash, main, v, r, FALSE)
    BY <1>4 DEF L!ViewerArrives, L!RecordsArrive
  <2> QED
    BY <1>2, <2>1
<1>5. CASE L!Fallback
  <2>1. fallback /\ ~fallback' /\ finished' \in BOOLEAN
    BY <1>5 DEF L!Fallback, L!Lands, L!TargetThere, L!Forced
  <2> QED
    BY <2>1
<1>6. ASSUME NEW h, L!Follow(h) PROVE FragmentInv' /\ L!ReaderInControl
  <2>1. h # hash /\ hash' = h
    BY <1>6 DEF L!Follow
  <2>2. FragmentInv'
    BY <1>1, <1>6 DEF L!Follow
  <2> QED
    BY <2>1, <2>2
<1>7. CASE L!Wander
  BY <1>7 DEF L!Wander
<1>8. ASSUME \/ L!ViewerFails \/ L!Choose \/ L!Measure \/ L!Settle
             \/ (\E w \in {"wide", "narrow"} : L!Resize(w)) \/ UNCHANGED L!vars
      PROVE  FragmentInv' /\ L!ReaderInControl
  <2>1. UNCHANGED L!anchor
    BY <1>8 DEF L!ViewerFails, L!Choose, L!Measure, L!Settle, L!Resize, L!vars
  <2> QED
    BY <2>1 DEF L!anchor
<1> QED
  BY <1>3, <1>4, <1>5, <1>6, <1>7, <1>8 DEF L!Next, L!SessionAnswers, L!SessionChanges

(* The collections page (CedarPressData): a reader who scrolled away is not  *)
(* taken back to the fragment by anything that arrives later, the two-second *)
(* timer included, unless it was never reached, or the address or the        *)
(* session is another.                                                       *)
THEOREM OneScrollOnly == L!Spec => [][L!ReaderInControl]_L!vars
<1>1. L!Init => FragmentInv
  BY DEF L!Init, FragmentInv
<1>2. FragmentInv /\ [L!Next]_L!vars => FragmentInv'
  BY FragmentSteps
<1>3. FragmentInv /\ [L!Next]_L!vars => [L!ReaderInControl]_L!vars
  BY FragmentSteps
<1> QED
  BY <1>1, <1>2, <1>3, PTL DEF L!Spec
=============================================================================
