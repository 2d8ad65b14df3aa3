------------------------------ MODULE DataPage ------------------------------
(***************************************************************************)
(* The collections page around its viewer (CedarPressData.jsx).  The page  *)
(* is there while the session is being read and for a subscriber; anybody  *)
(* else has the gate in its place.  The viewer is a chunk of its own and   *)
(* its records come later still, and two effects of the page wait on it:   *)
(* the one that takes a reader to the fragment of the address, and the one *)
(* that measures what is above the viewer's frame so that the frame can    *)
(* end where the window ends.                                              *)
(***************************************************************************)
EXTENDS Naturals

CONSTANT MaxActs   \* bound: what the reader, the window and the session do
DataPageAssumption == MaxActs \in Nat

VARIABLES loading, entitled, \* useAuth's answer, and canReadCedarPress of it
          main,     \* the cp-main in the document: the first, a later one, or 0 (the gate)
          hooked,   \* the cp-main the measuring effect found when it ran
          viewer,   \* the chunk: "coming", "here" or "failed"
          records,  \* a row, a card or "unavailable" is in the frame
          filters,  \* the filters are beside the search box: the collection is open
          width,    \* "wide" holds search and filters in one line, "narrow" does not
          frame,    \* a measurement is due at the next animation frame
          settle,   \* the 400 ms timer is running
          measured, \* what the frame's height was last set from, or Nothing
          hash,     \* the fragment: NoHash, "catalog" (the page's), "explore" (the viewer's)
          finished, fallback, \* the fragment's effect: done, and its 2 s timer
          at,       \* where the reader is: "top", "target" or "away"
          acts

session == <<loading, entitled, main, hooked>>
sizes   == <<filters, width, frame, settle, measured>>
anchor  == <<hash, finished, fallback, at>>
vars == <<session, viewer, records, sizes, anchor, acts>>

NoHash == ""
Hashes == {NoHash, "catalog", "explore"}
Nothing == [mast |-> "unmeasured", lines |-> 0]

Act == acts < MaxActs /\ acts' = acts + 1

(* The header above the frame is the masthead and the viewer's own: a line  *)
(* for the search box and, where they do not fit beside it, another for the *)
(* filters, which only a collection that is open has.                       *)
Top(w, f) == [mast |-> w, lines |-> IF w = "narrow" /\ f THEN 2 ELSE 1]

Page(l, e) == l \/ e
TargetThere(h, m, v) == m # 0 /\ (h = "catalog" \/ (h = "explore" /\ v = "here"))
-----------------------------------------------------------------------------
(* scrollToTarget: once, when there is something to land on and something   *)
(* of the viewer's to have given the page its height, unless forced.        *)
Lands(h, m, v, r, force) == TargetThere(h, m, v) /\ (r \/ force)

Spent(run) == run

(* What the page does whenever nodes are added, in a run not yet finished.  *)
Attempt(h, m, v, r, force) ==
  IF ~Spent(finished) /\ h # NoHash /\ Lands(h, m, v, r, force)
  THEN finished' = TRUE /\ fallback' = FALSE /\ at' = "target"
  ELSE UNCHANGED <<finished, fallback, at>>

(* The effect of [hash, loading, entitled]: a new run, tried at once.       *)
Run(h, m, v, r, where) ==
  IF h = NoHash
  THEN finished' = FALSE /\ fallback' = FALSE /\ at' = where
  ELSE IF Lands(h, m, v, r, FALSE)
       THEN finished' = TRUE /\ fallback' = FALSE /\ at' = "target"
       ELSE finished' = FALSE /\ fallback' = TRUE /\ at' = where
-----------------------------------------------------------------------------
Init ==
  /\ loading \in BOOLEAN /\ entitled \in BOOLEAN /\ (loading => ~entitled)
  /\ main = (IF Page(loading, entitled) THEN 1 ELSE 0) /\ hooked = main
  /\ viewer = "coming" /\ records = FALSE
  /\ filters \in BOOLEAN /\ width \in {"wide", "narrow"}
  /\ frame = (main # 0) /\ settle = (main # 0) /\ measured = Nothing
  /\ hash \in Hashes /\ finished = FALSE /\ fallback = (hash # NoHash) /\ at = "top"
  /\ acts = 0

(* The session's answer changes who is here: the page stays in the main it  *)
(* is in, or a gate goes and a new one comes, at its top.                   *)
Session(l, e) ==
  LET m == IF ~Page(l, e) THEN 0 ELSE IF main # 0 THEN main ELSE 2
      r == records /\ m = main
  IN /\ <<l, e>> # <<loading, entitled>>
     /\ loading' = l /\ entitled' = e /\ main' = m /\ records' = r
     /\ Run(hash, m, viewer, r, IF m = main THEN at ELSE "top")
     /\ UNCHANGED <<hooked, viewer, sizes, hash>>
SessionAnswers == loading /\ (\E e \in BOOLEAN : Session(FALSE, e)) /\ UNCHANGED acts
SessionChanges == ~loading /\ Act /\ Session(FALSE, ~entitled)

(* PressShelf: the chunk and the codebook arrive together, or its boundary  *)
(* says the viewer did not load.                                            *)
ViewerArrives ==
  /\ main # 0 /\ viewer = "coming" /\ viewer' = "here"
  /\ Attempt(hash, main, "here", records, FALSE)
  /\ UNCHANGED <<session, records, sizes, hash, acts>>
ViewerFails ==
  /\ main # 0 /\ viewer = "coming" /\ viewer' = "failed"
  /\ UNCHANGED <<session, records, sizes, anchor, acts>>
RecordsArrive ==
  /\ main # 0 /\ viewer = "here" /\ ~records /\ records' = TRUE
  /\ Attempt(hash, main, viewer, TRUE, FALSE)
  /\ UNCHANGED <<session, viewer, sizes, hash, acts>>

(* The two-second timer: the page is what it is by now. *)
(* Mutant of Forced: it tries once more as it always did. *)
ForcedNever == FALSE
Forced == TRUE
Fallback ==
  /\ fallback /\ fallback' = FALSE
  /\ LET lands == Lands(hash, main, viewer, records, Forced)
     IN finished' = lands /\ at' = (IF lands THEN "target" ELSE at)
  /\ UNCHANGED <<session, viewer, records, sizes, hash, acts>>

(* The reader scrolls, or follows a link to a fragment of this page.        *)
Wander == /\ Act /\ at' = "away"
          /\ UNCHANGED <<session, viewer, records, sizes, hash, finished, fallback>>
Follow(h) == /\ Act /\ h # hash /\ hash' = h
             /\ Run(h, main, viewer, records, at)
             /\ UNCHANGED <<session, viewer, records, sizes>>
-----------------------------------------------------------------------------
(* useFrameFill: the window's size and the masthead are what is watched,    *)
(* for the main there was when the page was mounted.                        *)
Resize(w) ==
  /\ Act /\ w # width /\ width' = w
  /\ frame' = (frame \/ hooked # 0)
  /\ UNCHANGED <<session, viewer, records, filters, settle, measured, anchor>>

(* An open collection is chosen after a locked one, or the other way about. *)
Choose ==
  /\ Act /\ viewer = "here" /\ main # 0 /\ filters' = ~filters
  /\ UNCHANGED <<session, viewer, records, width, frame, settle, measured, anchor>>

(* measure: no frame yet is nothing to do. *)
Measure ==
  /\ frame /\ frame' = FALSE
  /\ measured' = IF main = hooked /\ viewer = "here" THEN Top(width, filters) ELSE measured
  /\ UNCHANGED <<session, viewer, records, filters, width, settle, anchor, acts>>
Settle ==
  /\ settle /\ settle' = FALSE /\ frame' = TRUE
  /\ UNCHANGED <<session, viewer, records, filters, width, measured, anchor, acts>>

Next == \/ SessionAnswers \/ SessionChanges
        \/ ViewerArrives \/ ViewerFails \/ RecordsArrive
        \/ Fallback \/ Wander \/ (\E h \in Hashes : Follow(h))
        \/ (\E w \in {"wide", "narrow"} : Resize(w)) \/ Choose \/ Measure \/ Settle

Spec == Init /\ [][Next]_vars

(* The browser's timers fire. *)
Fairness == WF_vars(Fallback)
FairSpec == Spec /\ Fairness
-----------------------------------------------------------------------------
(* "One anchor scroll ... then leave a reader in control": nothing that     *)
(* arrives later takes the reader back to the fragment, unless the address  *)
(* or the session is another.                                               *)
ReaderInControl ==
  at = "away" /\ at' = "target" =>
    ~finished \/ <<hash, loading, entitled>>' # <<hash, loading, entitled>>

(* A link to the page's own fragment is answered even where the viewer      *)
(* never shows anything.                                                    *)
Due == main # 0 /\ hash = "catalog"
Reached == finished \/ ~Due
FragmentIsReached == Due ~> Reached

(* "The frame ends where the window ends" (CedarPressData.jsx): once nothing *)
(* is due, the frame of a reader who arrived on the page was set from what  *)
(* is above it.                                                             *)
FrameEndsWithTheWindow ==
  hooked # 0 /\ main = hooked /\ viewer = "here" /\ ~frame /\ ~settle => measured = Top(width, filters)
=============================================================================
