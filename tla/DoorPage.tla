------------------------------ MODULE DoorPage ------------------------------
(***************************************************************************)
(* The public page's frame and the band of use cases under it: which       *)
(* collection the frame shows, who may move it, and when the band turns    *)
(* by itself.                                                              *)
(*                                                                         *)
(* A collection is committed by a click, which writes the address, and     *)
(* pointed at by a mouse or by keyboard focus, which does not.  The rail   *)
(* and the band's chips both point; only the chips hand the frame back.    *)
(*                                                                         *)
(* Time passes in units of four seconds.  `idle` is a history variable:    *)
(* the time since the visitor's last choice in the band, capped.           *)
(***************************************************************************)
EXTENDS Integers, Sequences, FiniteSets, Functions

CONSTANTS Catalog,    \* STOREFRONT_CATALOG
          First,      \* the first collection of the first shelf
          Unknown,    \* an id in an address that no collection has
          None,
          UseCases,   \* AUDIENCE_JOBS: the collections each one names, its number of photographs
          MinCollections, \* MIN_COLLECTIONS
          RotateTime, \* ROTATE_MS
          ResumeTime, \* RESUME_MS
          MaxActs     \* bound: what the visitor does in one behaviour

VARIABLES address,    \* `?collection=`
          earlier,    \* the address of the history entry before this one, or None
          pointed,    \* the collection pointed at, or None
          by,         \* history: who set `pointed` last: "rail", "chips" or "choice"
          previewing, \* previewingRef of the band
          pointer, focus,  \* the part of the page under the mouse, and the one with focus
          media,      \* what the three media queries answer
          band,       \* the reducer's state
          timers,     \* the two timeouts: units left, or Off
          ran,        \* the dependencies the two timer effects last ran with
          photos,     \* the photograph each use case showed last, 0 for none
          idle, acts

frameVars == <<address, earlier, pointed, by, previewing>>
bandVars == <<band, timers, ran, photos, idle>>
vars == <<frameVars, pointer, focus, media, bandVars, acts>>

(* The use cases the page shows: those whose collections are all on the     *)
(* storefront, and enough of them to be combined.                           *)
Resolves(useCase) ==
  Range(useCase.collections) \subseteq Catalog /\ Len(useCase.collections) >= MinCollections
VisibleAudiences == SelectSeq(UseCases, Resolves)

Cards == [i \in DOMAIN VisibleAudiences |-> Range(VisibleAudiences[i].collections)]
Pools == [i \in DOMAIN VisibleAudiences |-> VisibleAudiences[i].pool]
Total == Len(VisibleAudiences)
Off == -1

\* There is a band only where an example is shown.
DoorPageAssumption ==
  /\ First \in Catalog /\ Unknown \notin Catalog /\ None \notin Catalog \cup {Unknown}
  /\ \A i \in DOMAIN UseCases : UseCases[i].pool \in Nat \ {0}
  /\ Total \in Nat \ {0}
  /\ RotateTime \in Nat \ {0} /\ ResumeTime \in Nat \ {0} /\ MaxActs \in Nat
-----------------------------------------------------------------------------
(* The frame. *)

Away == [at |-> "away", id |-> None, card |-> 0]
InBand == [at |-> "band", id |-> None, card |-> 0]
RailItem(c) == [at |-> "rail", id |-> c, card |-> 0]
Chip(i, c) == [at |-> "chip", id |-> c, card |-> i]

(* Where the mouse or the focus can be: panels out of view are inert. *)
Places == {Away, InBand} \cup {RailItem(c) : c \in Catalog}
                         \cup {Chip(band.index, c) : c \in Cards[band.index]}
WithinBand(place) == place.at \in {"band", "chip"}
LeavesChips(from, to) == from.at = "chip" /\ (to.at # "chip" \/ to.card # from.card)

Addressed == IF address \in Catalog THEN address ELSE First
Selected == IF pointed # None THEN pointed ELSE Addressed

HoverPreview == media.wide /\ media.fine

(* Mutant of ClearPreview: a preview is cleared only where one could start. *)
ClearPreviewWhereOneStarts(leaves, held) ==
  IF leaves /\ held.previewing /\ HoverPreview
  THEN [previewing |-> FALSE, pointed |-> None, by |-> "chips"] ELSE held
(* The chips let go of the preview they hold; then the place arrived at is *)
(* pointed at, if it may be.                                               *)
ClearPreview(leaves, held) ==
  IF leaves /\ held.previewing
  THEN [previewing |-> FALSE, pointed |-> None, by |-> "chips"] ELSE held

PointAt(place, allowed, held) ==
  CASE allowed /\ place.at = "chip" -> [previewing |-> TRUE, pointed |-> place.id, by |-> "chips"]
    [] allowed /\ place.at = "rail" -> [held EXCEPT !.pointed = place.id, !.by = "rail"]
    [] OTHER -> held

Held == [previewing |-> previewing, pointed |-> pointed, by |-> by]
HoldFrame(held) == /\ previewing' = held.previewing
                   /\ pointed' = held.pointed
                   /\ by' = held.by

(* pick: a click on the rail or on a chip. *)
Pick(c, held) == /\ HoldFrame([held EXCEPT !.pointed = c, !.by = "choice"])
                 /\ address' = c
                 /\ UNCHANGED earlier
-----------------------------------------------------------------------------
(* The band. *)

Rotate(b) == IF b.stopped \/ b.hovered \/ b.focused \/ ~b.visible THEN b
             ELSE [b EXCEPT !.index = (@ % Total) + 1]
(* The count of choices is compared with the count before it only. *)
Stop(b) == [b EXCEPT !.stopped = TRUE, !.choices = 1 - @]
Select(b, i) == [Stop(b) EXCEPT !.index = i]
Following(b) == Select(b, (b.index % Total) + 1)
Previous(b) == Select(b, ((b.index + Total - 2) % Total) + 1)
Resume(b) == [b EXCEPT !.stopped = FALSE]

ShouldRotate(b, m) == ~m.reduced /\ Total > 1 /\ ~b.stopped /\ ~b.hovered /\ ~b.focused /\ b.visible

(* What the two timer effects depend on. *)
Dependencies(b, m) ==
  [rotate |-> <<ShouldRotate(b, m), b.index>>, resume |-> <<b.stopped, b.choices>>]

Settled == ran = Dependencies(band, media)

(* The effects run: a timeout whose dependencies changed starts afresh. *)
RunEffects(b, m, left) ==
  LET now == Dependencies(b, m)
      again(field, on, time) == IF ran[field] = now[field] THEN left[field]
                                ELSE IF on THEN time ELSE Off
  IN  /\ ran' = now
      /\ timers' = [rotate |-> again("rotate", ShouldRotate(b, m), RotateTime),
                    resume |-> again("resume", b.stopped, ResumeTime)]

(* imageFor: the photograph of a use case's next showing. *)
NextPhoto(i, last) == (last % Pools[i]) + 1

(* slugFor: what each panel holds. The next in the rotation is loaded ahead. *)
PhotoOn(i, b, m, held) ==
  IF ShouldRotate(b, m) /\ i = (b.index % Total) + 1 /\ i # b.index
  THEN NextPhoto(i, held[i]) ELSE held[i]

(* The visit is counted while the new example is drawn. *)
Turn(b) == /\ band' = b
           /\ photos' = IF b.index = band.index THEN photos
                        ELSE [photos EXCEPT ![b.index] = NextPhoto(b.index, @)]

Act == acts < MaxActs /\ acts' = acts + 1
-----------------------------------------------------------------------------
Init ==
  /\ address \in Catalog \cup {Unknown, None}
  /\ earlier = None /\ pointed = None /\ by = "nobody" /\ previewing = FALSE
  /\ pointer = Away /\ focus = Away
  /\ media \in [wide : BOOLEAN, fine : BOOLEAN, reduced : BOOLEAN]
  /\ band = [index |-> 1, stopped |-> FALSE, hovered |-> FALSE, focused |-> FALSE,
             visible |-> FALSE, choices |-> 0]
  /\ timers = [rotate |-> Off, resume |-> Off]
  /\ ran = Dependencies(band, media)
  /\ photos = [i \in 1..Total |-> IF i = 1 THEN 1 ELSE 0]
  /\ idle = ResumeTime + RotateTime /\ acts = 0

(* The mouse crosses into another part. The band's effects wait for the browser. *)
MovePointer(to) ==
  /\ Act /\ to # pointer
  /\ pointer' = to
  /\ HoldFrame(PointAt(to, HoverPreview, ClearPreview(LeavesChips(pointer, to), Held)))
  /\ Turn([band EXCEPT !.hovered = WithinBand(to)])
  /\ UNCHANGED <<address, earlier, focus, media, timers, ran, idle>>

(* A key moves the focus: only then does it point. *)
MoveFocus(to) ==
  /\ Act /\ Settled /\ to # focus
  /\ focus' = to
  /\ HoldFrame(PointAt(to, media.wide, ClearPreview(LeavesChips(focus, to), Held)))
  /\ LET b == [band EXCEPT !.focused = WithinBand(to)]
     IN  Turn(b) /\ RunEffects(b, media, timers)
  /\ UNCHANGED <<address, earlier, pointer, media, idle>>

(* A click or a tap, which moves the focus too, except in browsers that do not *)
(* focus a button that is clicked.  It never makes the focus visible.          *)
ClickRail(c) ==
  /\ Act /\ Settled
  /\ focus' \in {RailItem(c), focus}
  /\ Pick(c, ClearPreview(LeavesChips(focus, focus'), Held))
  /\ LET b == [band EXCEPT !.focused = WithinBand(focus')]
     IN  Turn(b) /\ RunEffects(b, media, timers)
  /\ UNCHANGED <<pointer, media, idle>>

(* commit *)
ClickChip(c) ==
  /\ Act /\ Settled /\ c \in Cards[band.index]
  /\ focus' \in {Chip(band.index, c), focus}
  /\ Pick(c, ClearPreview(LeavesChips(focus, focus'), Held))
  /\ LET b == Stop([band EXCEPT !.focused = WithinBand(focus')])
     IN  Turn(b) /\ RunEffects(b, media, timers)
  /\ idle' = 0
  /\ UNCHANGED <<pointer, media>>

(* A tab, an arrow key on the tabs, or one of the two step buttons. *)
ChooseExample ==
  /\ Act /\ Settled
  /\ focus' \in {InBand, focus}
  /\ HoldFrame(ClearPreview(LeavesChips(focus, focus'), Held))
  /\ \E b \in {Select(band, i) : i \in 1..Total} \cup {Following(band), Previous(band)} :
       LET f == [b EXCEPT !.focused = WithinBand(focus')]
       IN  Turn(f) /\ RunEffects(f, media, timers)
  /\ idle' = 0
  /\ UNCHANGED <<address, earlier, pointer, media>>

(* The band comes into view or leaves it. *)
Scroll ==
  /\ Act
  /\ Turn([band EXCEPT !.visible = ~@])
  /\ UNCHANGED <<frameVars, pointer, focus, media, timers, ran, idle>>

(* The window is resized, a pointer is plugged in, reduced motion is switched. *)
MediaChanges(m) ==
  /\ Act /\ Settled /\ m # media
  /\ media' = m
  /\ HoldFrame(ClearPreview(<<m.wide, m.fine>> # <<media.wide, media.fine>>
                              /\ ~(m.wide /\ m.fine), Held))
  /\ RunEffects(band, m, timers)
  /\ UNCHANGED <<address, earlier, pointer, focus, band, photos, idle>>

(* A link within the page adds a history entry; Back returns to the one before. *)
FollowAnchor ==
  /\ Act /\ earlier = None
  /\ earlier' = IF address = None THEN Unknown ELSE address
  /\ UNCHANGED <<address, pointed, by, previewing, pointer, focus, media, bandVars>>
GoBack ==
  /\ Act /\ earlier # None
  /\ address' = earlier /\ earlier' = None
  /\ UNCHANGED <<pointed, by, previewing, pointer, focus, media, bandVars>>

(* The browser runs the effects a hover or a scroll left waiting. *)
Settle ==
  /\ ~Settled
  /\ RunEffects(band, media, timers)
  /\ UNCHANGED <<frameVars, pointer, focus, media, band, photos, idle, acts>>

Due(t) == t = 0
Pass ==
  /\ Settled
  /\ \E field \in {"rotate", "resume"} : timers[field] # Off
  /\ \A field \in {"rotate", "resume"} : ~Due(timers[field])
  /\ timers' = [field \in {"rotate", "resume"} |->
                  IF timers[field] = Off THEN Off ELSE timers[field] - 1]
  /\ idle' = IF idle < ResumeTime + RotateTime THEN idle + 1 ELSE idle
  /\ UNCHANGED <<frameVars, pointer, focus, media, band, ran, photos, acts>>

(* A timeout fires. One that a waiting effect would have cancelled fires too. *)
TickFires ==
  /\ Due(timers.rotate)
  /\ Turn(Rotate(band))
  /\ RunEffects(band', media, [timers EXCEPT !.rotate = Off])
  /\ UNCHANGED <<frameVars, pointer, focus, media, idle, acts>>
ResumeFires ==
  /\ Due(timers.resume)
  /\ Turn(Resume(band))
  /\ RunEffects(band', media, [timers EXCEPT !.resume = Off])
  /\ UNCHANGED <<frameVars, pointer, focus, media, idle, acts>>

Next ==
  \/ \E to \in Places : MovePointer(to) \/ MoveFocus(to)
  \/ \E c \in Catalog : ClickRail(c) \/ ClickChip(c)
  \/ ChooseExample \/ Scroll \/ FollowAnchor \/ GoBack
  \/ \E m \in [wide : BOOLEAN, fine : BOOLEAN, reduced : BOOLEAN] : MediaChanges(m)
  \/ Settle \/ Pass \/ TickFires \/ ResumeFires

Spec == Init /\ [][Next]_vars
-----------------------------------------------------------------------------
(* The band borrows the frame and gives it back: once neither the mouse nor  *)
(* the focus is on a chip, the frame shows the collection the address names, *)
(* whatever the window and the pointer did in between, unless the rail has   *)
(* pointed since or a choice was undone by going back (preview,              *)
(* clearPreview and the effect on the two media queries).                    *)
ChipsGiveTheFrameBack ==
  by = "chips" /\ pointer.at # "chip" /\ focus.at # "chip" => Selected = Addressed

(* An example the visitor chose stays until they have made no choice for the *)
(* whole of RESUME_MS and one turn more, and none moves under the mouse or   *)
(* the focus: a timeout started before the choice or the hover does not move *)
(* it (the two timer effects, and the reducer's own check of a late tick).   *)
ChosenExampleHolds ==
  band'.index # band.index /\ acts' = acts
    => /\ idle >= ResumeTime + RotateTime
       /\ ~WithinBand(pointer) /\ ~WithinBand(focus) /\ ~media.reduced

(* The photograph of the example on screen does not change under the reader, *)
(* and the one a turn of the band shows is the one loaded ahead for it.      *)
PhotographHolds ==
  /\ band'.index = band.index
       => PhotoOn(band.index, band', media', photos') = PhotoOn(band.index, band, media, photos)
  /\ band'.index # band.index /\ acts' = acts
       => PhotoOn(band'.index, band', media', photos') = PhotoOn(band'.index, band, media, photos)
=============================================================================
