------------------------------- MODULE FadeIn -------------------------------
(***************************************************************************)
(* Sections that arrive as they are scrolled to (useFadeIn.js).  A section *)
(* marked cp-fade is invisible until a script adds is-in, so one that no   *)
(* script looks after is not slow but missing.                             *)
(*                                                                         *)
(* The script follows the page's root element: React hands the element     *)
(* over when it is attached and null when it goes.  CedarPress.jsx renders *)
(* one tree while the session is being read (a root and no sections), the  *)
(* gate, which has a root of its own, or the reader's page, in the first   *)
(* tree's root; some of its sections arrive later still.                   *)
(***************************************************************************)
EXTENDS Naturals

CONSTANTS
  GateSections, PageSections, \* what each tree shows
  LateSections,               \* those of the page that wait for an answer
  Screen,                     \* section |-> the screenful it is on
  LastScreen,
  MaxActs                     \* bound: what the reader and the session do

ASSUME FadeInAssumption ==
  /\ LateSections \subseteq PageSections /\ MaxActs \in Nat /\ LastScreen \in Nat
  /\ Screen \in [GateSections \cup PageSections -> 0..LastScreen]

VARIABLES tree,       \* "reading", "gate" or "page"
          mounted,    \* the sections in the document
          revealed,   \* those with is-in
          watched,    \* those the IntersectionObserver was given
          news,       \* added nodes the MutationObserver has yet to report
          attached,   \* the script has the root now in the document
          canObserve, \* the browser has an IntersectionObserver
          scroll,     \* the screenful in view
          watchdog,   \* "off" (never installed), "set" or "spent"
          popped,     \* a sweep is due for a step back or forward
          acts

vars == <<tree, mounted, revealed, watched, news, attached, canObserve, scroll, watchdog, popped, acts>>

Sections == GateSections \cup PageSections
SectionsOf(t) == CASE t = "gate" -> GateSections
                   [] t = "page" -> PageSections \ LateSections
                   [] t = "reading" -> {}
SameRoot(t) == tree = "reading" /\ t = "page"
OnScreen(s) == Screen[s] = scroll

(* splitByFold: what is above the fold is part of the page, the rest waits. *)
AboveFold(nodes, at) == {s \in nodes : ~canObserve \/ Screen[s] <= at}
-----------------------------------------------------------------------------
(* React calls the ref with every element that comes, not with the first.   *)
(* Mutant of Follows: a ref read by an effect that runs at mount. *)
FollowsFirst == watchdog = "off"
Follows == TRUE

Reported(added) == IF attached THEN added ELSE {}

(* attachFadeIn: the watchdog, once a page load, and the nodes there are.   *)
Attach(nodes) ==
  /\ attached' = Follows /\ news' = {}
  /\ watchdog' = IF watchdog = "off" THEN "set" ELSE watchdog
  /\ revealed' = IF Follows THEN AboveFold(nodes, 0) ELSE {}
  /\ watched' = IF Follows THEN nodes \ AboveFold(nodes, 0) ELSE {}

Act == acts < MaxActs /\ acts' = acts + 1

Init == /\ tree = "reading" /\ mounted = {} /\ canObserve \in BOOLEAN
        /\ revealed = {} /\ watched = {} /\ news = {}
        /\ attached = TRUE /\ watchdog = "set"
        /\ scroll = 0 /\ popped = FALSE /\ acts = 0

(* The session says who is here, or changes its mind: a tree in the root    *)
(* that is there, or another root, at its top.                              *)
Render(t) ==
  /\ Act /\ t # tree /\ t # "reading" /\ tree' = t /\ mounted' = SectionsOf(t)
  /\ UNCHANGED <<canObserve, popped>>
  /\ IF SameRoot(t)
     THEN /\ news' = news \cup Reported(SectionsOf(t))
          /\ UNCHANGED <<revealed, watched, attached, scroll, watchdog>>
     ELSE Attach(SectionsOf(t)) /\ scroll' = 0

(* A section whose answer came. *)
Arrive(s) ==
  /\ Act /\ tree = "page" /\ s \notin mounted
  /\ mounted' = mounted \cup {s} /\ news' = news \cup Reported({s})
  /\ UNCHANGED <<tree, revealed, watched, attached, canObserve, scroll, watchdog, popped>>

(* The MutationObserver's callback: take what was added. *)
Take ==
  /\ news # {} /\ news' = {}
  /\ revealed' = revealed \cup AboveFold(news, scroll)
  /\ watched' = watched \cup (news \ AboveFold(news, scroll))
  /\ UNCHANGED <<tree, mounted, attached, canObserve, scroll, watchdog, popped, acts>>

(* The IntersectionObserver's: revealed, and looked after no more. *)
Intersect(s) ==
  /\ s \in watched /\ OnScreen(s)
  /\ revealed' = revealed \cup {s} /\ watched' = watched \ {s}
  /\ UNCHANGED <<tree, mounted, news, attached, canObserve, scroll, watchdog, popped, acts>>

(* The watchdog's sweep of the whole document, once, and after each popstate.*)
Sweep ==
  /\ watchdog = "set" \/ popped
  /\ watchdog' = IF watchdog = "set" THEN "spent" ELSE watchdog
  /\ popped' = (popped /\ watchdog = "set")
  /\ revealed' = revealed \cup {s \in mounted : OnScreen(s)}
  /\ UNCHANGED <<tree, mounted, watched, news, attached, canObserve, scroll, acts>>

Scroll == /\ Act /\ scroll' \in 0..LastScreen \ {scroll}
          /\ UNCHANGED <<tree, mounted, revealed, watched, news, attached, canObserve, watchdog, popped>>

PopState == /\ Act /\ popped' = TRUE
            /\ UNCHANGED <<tree, mounted, revealed, watched, news, attached, canObserve, scroll, watchdog>>

Next == \/ \E t \in {"gate", "page"} : Render(t)
        \/ \E s \in LateSections : Arrive(s)
        \/ Take \/ (\E s \in Sections : Intersect(s)) \/ Sweep \/ Scroll \/ PopState

Spec == Init /\ [][Next]_vars

Fairness == WF_vars(Take) /\ WF_vars(Sweep) /\ \A s \in Sections : WF_vars(Intersect(s))
FairSpec == Spec /\ Fairness
-----------------------------------------------------------------------------
(* No section in the document is forgotten: it is revealed, watched for, or *)
(* about to be reported, whichever tree came after whichever (the reader    *)
(* that went blank after sign-in).                                          *)
NoneForgotten == mounted \subseteq revealed \cup watched \cup news

(* A section the reader stays at is revealed, whatever tree it came with.   *)
VisibleIsRevealed ==
  \A s \in Sections : (s \in mounted /\ OnScreen(s)) ~> (s \in revealed \/ s \notin mounted \/ ~OnScreen(s))
=============================================================================
