----------------------------- MODULE PanelFocus -----------------------------
(***************************************************************************)
(* Where the keyboard's focus is while panels open over a page and close:  *)
(* the door with Cedar and the plans, and the reader's viewer with Cedar,  *)
(* a collection's profile, the masthead's menus, and the filters with a    *)
(* picker among them (focusReturn.js, useDismissable.jsx and the           *)
(* components that use them), and Cedar's launcher with its note.          *)
(*                                                                         *)
(* A control that leaves the document or is hidden takes the focus with it:*)
(* the page's body has it then, and a keyboard starts again from the top.  *)
(***************************************************************************)
EXTENDS Naturals, Sequences, SequencesExt, FiniteSets

CONSTANT MaxActs \* bound: what the reader and the window do
PanelFocusAssumption == MaxActs \in Nat

Menus == {"account", "sections", "filters"}
Panels == Menus \cup {"picker", "cedar", "profile", "plans"}

(* The controls that stand for each panel's, and the page's own.  A menu    *)
(* and the picker are opened by their summary.                              *)
CedarControls == {"field", "close"}
ProfileControls == {"shut", "link"}
PickerControls == {"option", "done"}
PlansControls == {"subscribe"}
AccountControls == {"signout"}
SectionControls == {"section"}
In(panel) == CASE panel = "cedar" -> CedarControls
               [] panel = "profile" -> ProfileControls
               [] panel = "picker" -> PickerControls
               [] panel = "plans" -> PlansControls
               [] panel = "account" -> AccountControls
               [] panel = "sections" -> SectionControls
               [] panel = "filters" -> {}
Summary == [account |-> "initials", sections |-> "here", filters |-> "filter", picker |-> "pick"]
Summaries == {Summary[panel] : panel \in DOMAIN Summary}
Controls == UNION {In(panel) : panel \in Panels} \cup Summaries
              \cup {"ask", "about", "tab", "launcher", "note", "dismiss"}

VARIABLES surface,   \* "door" or "reader"
          open,      \* the panels on screen
          focus,     \* the control that has it, or "body"
          opener,    \* rememberFocus: what had it when "cedar" or "profile" opened
          frames,    \* the animation frames asked for, in order
          toolbar,   \* the viewer has its toolbar (it goes with the collection)
          inView,    \* what is on screen of "viewer" (or the door's preview) and "hero"
          phone,
          connected, \* Cedar can be asked
          note,      \* the greeting: "none", "shown" or "done"
          stored,    \* the visit's storage says it was answered
          storage,   \* storage works
          answered,  \* history: the greeting was answered in this visit
          kept,      \* history: panels that held the focus and were closed by keyboard
          acts

pageVars == <<surface, toolbar, inView, phone, connected, storage>>
vars == <<pageVars, open, focus, opener, frames, note, stored, answered, kept, acts>>
-----------------------------------------------------------------------------
(* The menus there are: the masthead's, one of them a phone's, and the      *)
(* toolbar's, whose filters stand in the page itself on a wide screen.      *)
MastMenus == IF surface = "reader" THEN {"account"} \cup (IF phone THEN {"sections"} ELSE {}) ELSE {}
BarMenus == IF surface = "reader" /\ toolbar THEN {"picker"} \cup (IF phone THEN {"filters"} ELSE {}) ELSE {}
MenusHere == MastMenus \cup BarMenus

(* What a menu holds, itself with its summary.                              *)
Within(menu) == In(menu) \cup {Summary[menu]}
                  \cup (IF menu = "filters" /\ phone THEN In("picker") \cup {Summary["picker"]} ELSE {})

(* In the document, with the panels that are open.                          *)
Present(c) ==
  \/ c = "launcher"
  \/ c = "ask" /\ (surface = "door" \/ toolbar)
  \/ c = "about" /\ surface = "reader"
  \/ c = "tab" /\ surface = "door"
  \/ c \in {"note", "dismiss"} /\ note = "shown" /\ "cedar" \notin open
  \/ \E menu \in MenusHere : c = Summary[menu] \/ (menu \in open /\ c \in In(menu))
  \/ \E panel \in open \ (Menus \cup {"picker"}) : c \in In(panel)

(* The launcher steps aside for what the page is there to show, on a phone  *)
(* also for the door's first screen.                                        *)
LauncherAway ==
  \/ "viewer" \in inView
  \/ surface = "door" /\ phone /\ "hero" \in inView

(* isShown: laid out too.  The stylesheet hides the launcher behind Cedar   *)
(* on the door and on a phone, and a phone's picker in the closed filters.  *)
Shown(c) ==
  /\ Present(c)
  /\ c \in {"launcher", "note", "dismiss"} => ~LauncherAway
  /\ c = "launcher" /\ "cedar" \in open => surface = "reader" /\ ~phone
  /\ c = "field" => connected
  /\ c \in Within("picker") /\ phone => "filters" \in open

(* rememberFocus: what has the focus once the panel is in the document.     *)
Remembered(had) == IF Present(had)' THEN had ELSE "body"

(* The restore function it returns: the opener, or a fallback still there.  *)
(* Mutant of Restored: to the launcher, whatever opened the panel. *)
RestoredToLauncher(had, panel) == IF panel = "cedar" /\ Shown("launcher")' THEN "launcher" ELSE had
Restored(had, panel) ==
  LET back == opener[panel]
  IN  CASE back # "body" /\ Shown(back)' -> back
        [] ~(back # "body" /\ Shown(back)') /\ panel = "cedar" /\ Shown("launcher")' -> "launcher"
        [] OTHER -> had

(* CedarGreeting: opening Cedar by any route answers it, as dismissing does.*)
Answered(pressed, opened) == pressed \in {"note", "dismiss"} \/ opened
Greeting(pressed) ==
  LET done == note # "done" /\ Answered(pressed, "cedar" \in open')
  IN  /\ note' = IF done THEN "done" ELSE note
      /\ stored' = (stored \/ (done /\ storage))
      /\ answered' = (answered \/ pressed = "dismiss" \/ "cedar" \in open')

(* A panel opened asks for a frame to move the focus in, and one closed     *)
(* takes its frame back; Cedar closed with the focus in it asks for one to  *)
(* return it.  The profile asks again whenever the viewer is drawn again,   *)
(* which hands it a new onClose.                                            *)
Enters(panel) == <<"enter", panel>>
Frames(returns, drawn) ==
  LET asks(panel) == panel \in open' /\ (panel \notin open \/ (drawn /\ panel = "profile"))
      waiting(asked, panel) ==
        IF panel \in open' /\ ~asks(panel) THEN asked ELSE RemoveFirst(asked, Enters(panel))
  IN  frames' = waiting(waiting(frames, "profile"), "cedar")
                  \o (IF returns THEN <<<<"return", "cedar">>>> ELSE <<>>)
                  \o (IF asks("profile") THEN <<Enters("profile")>> ELSE <<>>)
                  \o (IF asks("cedar") THEN <<Enters("cedar")>> ELSE <<>>)

(* What a render leaves: had, unless it went; the profile on its way out    *)
(* hands back what it holds, or what nobody does.                           *)
Settles(had) ==
  LET left == IF Shown(had)' THEN had ELSE "body"
  IN  /\ opener' = [panel \in {"cedar", "profile"} |->
                      IF panel \in open' \ open THEN Remembered(had) ELSE opener[panel]]
      /\ focus' = IF "profile" \in open \ open' /\ left = "body" THEN Restored("body", "profile") ELSE left

Act == acts < MaxActs /\ acts' = acts + 1
-----------------------------------------------------------------------------
Init == /\ surface \in {"door", "reader"}
        /\ open \in IF surface = "reader" THEN {{}, {"profile"}} ELSE {{}}
        /\ focus = "body" /\ opener = [panel \in {"cedar", "profile"} |-> "body"]
        /\ frames = (IF open = {} THEN <<>> ELSE <<Enters("profile")>>)
        /\ toolbar \in BOOLEAN /\ inView = {} /\ phone \in BOOLEAN
        /\ connected \in IF surface = "door" THEN {TRUE} ELSE BOOLEAN
        /\ note = "none" /\ stored = FALSE /\ storage \in BOOLEAN /\ answered = FALSE
        /\ kept = {} /\ acts = 0

(* What a pointer put down on c shuts: each listens for one outside it, the *)
(* door's Cedar leaving its launcher's own press alone.                     *)
MenusShut(c) == {menu \in open \cap (Menus \cup {"picker"}) : c \notin Within(menu)}
PlansShut(c) == {panel \in open \cap {"plans"} : c \notin PlansControls \cup {"tab"}}
CedarShut(c) == {panel \in open \cap {"cedar"} : surface = "door" /\ c \notin CedarControls \cup {"launcher"}}
ShutByPointer(c) == MenusShut(c) \cup PlansShut(c) \cup CedarShut(c)

(* What each control opens and closes.                                      *)
Toggled(set, panel) == IF panel \in set THEN set \ {panel} ELSE set \cup {panel}
CedarPressed(c, before) == CASE c \in {"ask", "note"} -> before \cup {"cedar"}
                             [] c = "launcher" -> Toggled(before, "cedar")
                             [] c = "close" -> before \ {"cedar"}
                             [] OTHER -> before
PlansPressed(c, before) == IF c = "tab" THEN Toggled(before, "plans") ELSE before
ProfilePressed(c, before) == CASE c = "about" -> before \cup {"profile"}
                               [] c = "shut" -> before \ {"profile"}
                               [] OTHER -> before
MenuPressed(c, before) ==
  CASE c = "done" -> before \ {"picker"}
    [] c \in Summaries -> Toggled(before, CHOOSE menu \in DOMAIN Summary : Summary[menu] = c)
    [] OTHER -> before
Pressed(c, before) == MenuPressed(c, ProfilePressed(c, PlansPressed(c, CedarPressed(c, before))))

(* A control pressed: by keyboard where the focus is, or by pointer.  The   *)
(* picker's own Close gives the focus to its summary.                       *)
Press(c, pointer) ==
  /\ Act /\ Shown(c) /\ (pointer \/ focus = c)
  /\ open' = Pressed(c, IF pointer THEN open \ ShutByPointer(c) ELSE open)
  /\ UNCHANGED pageVars
  /\ Greeting(c) /\ Settles(IF c = "done" THEN Summary["picker"] ELSE c)
  /\ Frames(c = "close", FALSE)
  /\ kept' = IF pointer THEN {} ELSE {panel \in open \ open' : c \in In(panel)}

PointElsewhere ==
  /\ Act /\ open' = open \ ShutByPointer("body")
  /\ UNCHANGED <<pageVars, note, stored, answered>>
  /\ Settles("body") /\ Frames(FALSE, FALSE) /\ kept' = {}

(* keepTabInside: over a profile Tab goes round inside it, from wherever.   *)
Tab(c) ==
  /\ Act /\ Shown(c) /\ ("profile" \in open => c \in In("profile"))
  /\ focus' = c /\ kept' = {}
  /\ UNCHANGED <<pageVars, open, opener, frames, note, stored, answered>>

(* Escape: an open picker with the focus in it keeps it to itself; else a   *)
(* menu with the focus in it closes, and everything that listens on the     *)
(* page.  A menu's summary has the focus then; Cedar asks for the focus     *)
(* back if it held it, and on the reader's side if nobody does.             *)
Stopped == "picker" \in open /\ focus \in Within("picker")
MenusLeft == IF Stopped THEN {"picker"} ELSE {menu \in open \cap Menus : focus \in Within(menu)}
CedarHeld == focus \in CedarControls \/ (surface = "reader" /\ focus = "body")
Escape ==
  /\ Act
  /\ open' = (IF Stopped THEN open ELSE open \cap (Menus \cup {"picker"})) \ MenusLeft
  /\ UNCHANGED <<pageVars, note, stored, answered>>
  /\ \E had \in IF MenusLeft = {} THEN {focus} ELSE {Summary[menu] : menu \in MenusLeft} : Settles(had)
  /\ Frames("cedar" \in open \ open' /\ CedarHeld, FALSE)
  /\ kept' = MenusLeft \cup {panel \in (open \ open') \cap {"cedar", "profile"} : focus \in In(panel)}

(* An animation frame: the focus goes into the panel, or back.              *)
Entrance(panel) == IF panel = "profile" THEN "shut" ELSE IF connected THEN "field" ELSE "close"
Frame ==
  /\ frames # <<>> /\ frames' = Tail(frames)
  /\ UNCHANGED <<pageVars, open, opener, note, stored, answered, kept, acts>>
  /\ focus' = IF Head(frames)[1] = "enter" THEN Entrance(Head(frames)[2]) ELSE Restored(focus, "cedar")

(* What the window and the records do: what that hides loses the focus, and *)
(* all but scrolling draw the viewer again.                                 *)
Left(drawn) == /\ UNCHANGED <<surface, connected, storage, note, stored, answered>>
               /\ \E had \in {focus} : Settles(had)
               /\ Frames(FALSE, drawn) /\ kept' = {}

Scroll(part) ==
  /\ Act /\ inView' = Toggled(inView, part) /\ (part = "hero" => surface = "door")
  /\ UNCHANGED <<toolbar, phone, open>> /\ Left(FALSE)

(* Turned, the page has the other navigation, and other filters.            *)
Turn == /\ Act /\ phone' = ~phone /\ open' = open \ {"sections", "filters", "picker"}
        /\ UNCHANGED <<toolbar, inView>> /\ Left(TRUE)

(* Another collection, or its records: locked or pending, it has no toolbar.*)
Records == /\ Act /\ surface = "reader" /\ toolbar' \in BOOLEAN
           /\ open' = IF toolbar' THEN open ELSE open \ {"filters", "picker"}
           /\ UNCHANGED <<inView, phone>> /\ Left(TRUE)

(* The greeting rises once, some way down the page and a moment after it    *)
(* opened.                                                                  *)
NoteRises == /\ Act /\ note = "none" /\ note' = "shown" /\ kept' = {}
             /\ UNCHANGED <<pageVars, open, focus, opener, frames, stored, answered>>

(* Another page of the same visit, the door's or the product's. *)
NewPage ==
  /\ Act /\ surface' \in {"door", "reader"} /\ open' = {} /\ frames' = <<>>
  /\ focus' = "body" /\ opener' = [panel \in {"cedar", "profile"} |-> "body"]
  /\ toolbar' = TRUE /\ inView' = {} /\ connected' = TRUE
  /\ note' = IF stored THEN "done" ELSE "none"
  /\ kept' = {} /\ UNCHANGED <<phone, storage, stored, answered>>

Next == \/ \E c \in Controls : Tab(c) \/ \E pointer \in BOOLEAN : Press(c, pointer)
        \/ PointElsewhere \/ Escape \/ Frame \/ (\E part \in {"viewer", "hero"} : Scroll(part))
        \/ Turn \/ Records \/ NoteRises \/ NewPage

Spec == Init /\ [][Next]_vars
-----------------------------------------------------------------------------
(* Closing Cedar, a profile, a menu or a picker from the keyboard never     *)
(* strands the reader: once the frames have run the focus is on a control,  *)
(* as long as what opened the panel, or for Cedar its launcher, is on       *)
(* screen (rememberFocus, focusWasWithin, useDismissable, Picker).          *)
WayBack(panel) ==
  IF panel \in DOMAIN opener THEN Shown(opener[panel]) \/ (panel = "cedar" /\ Shown("launcher"))
  ELSE Shown(Summary[panel])
FocusReturns == frames = <<>> => \A panel \in kept : WayBack(panel) => focus # "body"

(* Opening Cedar by any route, or dismissing the note, answers the greeting *)
(* for the rest of the visit (CedarGreeting, the visit's storage).          *)
GreetsOnce == answered /\ storage => note # "shown"
=============================================================================
