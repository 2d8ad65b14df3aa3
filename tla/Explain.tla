------------------------------- MODULE Explain -------------------------------
(***************************************************************************)
(* The question mark beside a figure (Explain.jsx) and the panel it opens: *)
(* a mouse opens it by resting on it, a finger by tapping it, a keyboard   *)
(* by arriving at it.  One gesture reaches the page as several events, in  *)
(* an order the browser chooses; each step below is one of them.           *)
(*                                                                         *)
(* The panel holds a button of its own ("Close").  On a small screen it is *)
(* a sheet along one edge, the edge the mark is not at.                    *)
(***************************************************************************)
EXTENDS Naturals, Sequences

CONSTANTS MaxEvents \* bound: gestures of the reader
ExplainAssumption == MaxEvents \in Nat

VARIABLES open,
          tapped,      \* a finger decided, so hovering does not
          fromPointer, \* the focus about to arrive was put there by a pointer
          hover,       \* the device's pointer hovers
          over,        \* the pointer is over the mark or its panel
          focus,       \* "mark", "panel" or "elsewhere"
          queue,       \* what the browser still owes of a tap
          asked,       \* history: what the last gesture asked: "open" or "shut"
                       \* (a tap or Escape), or "nothing" in particular
          small, low,  \* a sheet, and the mark lies in the band at the bottom
          top,         \* the sheet is docked to the upper edge
          scrolled,    \* history: the page has moved since it was placed
          events

pointerVars == <<tapped, fromPointer, hover, over>>
placeVars == <<small, low, top, scrolled>>
vars == <<open, pointerVars, focus, queue, asked, placeVars, events>>

(* place: docked away from the mark, a sheet or not; measured as it opens.  *)
Place == top' = (small' /\ low') /\ scrolled' = FALSE
PlacedIfOpened == IF open' /\ ~open THEN UNCHANGED <<small, low>> /\ Place ELSE UNCHANGED placeVars

Gesture == queue = <<>> /\ events < MaxEvents /\ events' = events + 1
Asks(what) == asked' = what /\ UNCHANGED queue
NotATap == Asks("nothing")

(* The button's onFocus: only a keyboard arriving opens it.                 *)
(* Mutant of OpenedByFocus: whoever brought the focus. *)
OpenedByFocusAlways(was, pointed) == TRUE
OpenedByFocus(was, pointed) == was \/ ~pointed
-----------------------------------------------------------------------------
Init == /\ open = FALSE /\ tapped = FALSE /\ fromPointer = FALSE
        /\ hover \in BOOLEAN /\ over = FALSE /\ focus = "elsewhere"
        /\ queue = <<>> /\ asked = "nothing"
        /\ small \in BOOLEAN /\ low \in BOOLEAN /\ top = FALSE /\ scrolled = FALSE
        /\ events = 0

MouseEnter == /\ Gesture /\ NotATap /\ hover /\ ~over
              /\ over' = TRUE /\ open' = (open \/ ~tapped)
              /\ UNCHANGED <<tapped, fromPointer, hover, focus>> /\ PlacedIfOpened
MouseLeave == /\ Gesture /\ NotATap /\ over
              /\ over' = FALSE /\ open' = (open /\ (tapped \/ ~hover))
              /\ UNCHANGED <<tapped, fromPointer, hover, focus>> /\ PlacedIfOpened

(* A mouse button on the mark moves the focus and nothing else. *)
MouseDown == /\ Gesture /\ NotATap /\ over
             /\ fromPointer' = (focus = "mark") /\ focus' = "mark"
             /\ UNCHANGED <<open, tapped, hover, over, placeVars>>

(* A tap: pointerdown at once, then a focus where the mark had none (some   *)
(* browsers give it none) and, on some, a mouse entering.                   *)
Tap == /\ Gesture
       /\ tapped' = TRUE /\ fromPointer' = TRUE
       /\ open' = ~open /\ asked' = IF open THEN "shut" ELSE "open"
       /\ \E focuses \in BOOLEAN, enters \in BOOLEAN :
            queue' = (IF focuses /\ focus # "mark" THEN <<"focus">> ELSE <<>>)
                       \o (IF enters /\ hover /\ ~over THEN <<"enter">> ELSE <<>>)
       /\ UNCHANGED <<hover, over, focus>> /\ PlacedIfOpened
TapFocuses == /\ queue # <<>> /\ Head(queue) = "focus" /\ queue' = Tail(queue)
              /\ focus' = "mark" /\ open' = OpenedByFocus(open, fromPointer)
              /\ fromPointer' = FALSE
              /\ UNCHANGED <<tapped, hover, over, asked, events>> /\ PlacedIfOpened
TapEnters == /\ queue # <<>> /\ Head(queue) = "enter" /\ queue' = Tail(queue)
             /\ over' = TRUE /\ open' = (open \/ ~tapped)
             /\ UNCHANGED <<tapped, fromPointer, hover, focus, asked, events>> /\ PlacedIfOpened

(* The keyboard: Tab to the mark, on into the panel's button, and away.     *)
(* Only the mark's own blur closes, and not into its panel.                 *)
KeyToMark == /\ Gesture /\ NotATap /\ focus # "mark" /\ focus' = "mark"
             /\ open' = OpenedByFocus(open, fromPointer) /\ fromPointer' = FALSE
             /\ UNCHANGED <<tapped, hover, over>> /\ PlacedIfOpened
KeyToPanel == /\ Gesture /\ NotATap /\ focus = "mark" /\ open /\ small
              /\ focus' = "panel" /\ fromPointer' = FALSE
              /\ UNCHANGED <<open, tapped, hover, over, placeVars>>
KeyAway == /\ Gesture /\ NotATap /\ focus # "elsewhere" /\ focus' = "elsewhere"
           /\ open' = (open /\ focus = "panel")
           /\ fromPointer' = (fromPointer /\ focus = "panel")
           /\ tapped' = (tapped /\ focus = "panel")
           /\ UNCHANGED <<hover, over, placeVars>>
KeyPress == /\ Gesture /\ NotATap /\ focus = "mark" /\ open' = ~open
            /\ UNCHANGED <<pointerVars, focus>> /\ PlacedIfOpened

(* Escape, heard by the whole page while it is open: closed, and the mark   *)
(* focused.  Where the mark did not have the focus that is an event of its  *)
(* own in the same batch, which opens again what a mouse had opened: the    *)
(* comment at the head of the file promises Escape, the code does not keep  *)
(* it there.                                                                *)
Escape == /\ Gesture /\ open /\ Asks(IF focus = "mark" THEN "shut" ELSE "nothing")
          /\ focus' = "mark"
          /\ open' = (focus # "mark" /\ OpenedByFocus(FALSE, fromPointer))
          /\ fromPointer' = (fromPointer /\ focus = "mark")
          /\ UNCHANGED <<tapped, hover, over, placeVars>>

(* Its own Close, which a sheet shows, and a press anywhere else.           *)
Done == /\ Gesture /\ NotATap /\ open /\ small /\ open' = FALSE /\ focus' = "elsewhere"
        /\ fromPointer' = (fromPointer /\ focus # "mark")
        /\ UNCHANGED <<tapped, hover, over, placeVars>>
PressOutside == /\ Gesture /\ NotATap /\ ~over
                /\ open' = FALSE /\ focus' = "elsewhere"
                /\ fromPointer' = (fromPointer /\ focus # "mark")
                /\ tapped' = (tapped /\ focus # "mark")
                /\ UNCHANGED <<hover, over, placeVars>>

(* useHoverPointer: a mouse attached or taken away. *)
PointerChanges == /\ Gesture /\ NotATap /\ hover' = ~hover /\ over' = FALSE
                  /\ UNCHANGED <<open, tapped, fromPointer, focus, placeVars>>

(* The window resized or turned; while open it is measured again.           *)
Measures == open
Resize == /\ Gesture /\ NotATap /\ small' \in BOOLEAN /\ low' \in BOOLEAN
          /\ IF Measures THEN Place ELSE UNCHANGED <<top, scrolled>>
          /\ UNCHANGED <<open, pointerVars>>
          /\ focus' = IF focus = "panel" /\ ~small' THEN "elsewhere" ELSE focus
Scroll == /\ Gesture /\ NotATap /\ low' = ~low /\ scrolled' = TRUE
          /\ UNCHANGED <<open, pointerVars, focus, small, top>>

Next == \/ MouseEnter \/ MouseLeave \/ MouseDown
        \/ Tap \/ TapFocuses \/ TapEnters
        \/ KeyToMark \/ KeyToPanel \/ KeyAway \/ KeyPress \/ Escape
        \/ Done \/ PressOutside \/ PointerChanges \/ Resize \/ Scroll

Spec == Init /\ [][Next]_vars
-----------------------------------------------------------------------------
(* A tap decides: whatever else the browser makes of it, the panel is open  *)
(* after a tap that found it shut and shut after one that found it open     *)
(* (the tapped and fromPointer latches); and Escape shuts it where the mark *)
(* has the focus.                                                           *)
TapDecides == queue = <<>> => /\ asked = "open" => open
                              /\ asked = "shut" => ~open

(* The sheet is never along the edge the mark is at, however the window was *)
(* resized or turned while it was open, until the page is scrolled (place). *)
SheetClearsTheMark == open /\ ~scrolled => top = (small /\ low)
=============================================================================
