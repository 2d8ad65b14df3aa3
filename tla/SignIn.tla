------------------------------- MODULE SignIn -------------------------------
(* One tab of the client and its account: the session provider               *)
(* (context/AuthProvider.jsx) over the request helper (api.js), and the      *)
(* pages that sign a reader in, create the account, sell the membership,     *)
(* confirm the purchase and show the billing card.                           *)
(*                                                                           *)
(* A call is on the wire, a bag, until its answer is taken in; answers are   *)
(* taken in in any order, and a call remembers the page it was made from.    *)
(* The service is external: it answers, refuses, or is not reached in time.  *)
EXTENDS Integers, BagsExt

CONSTANTS
  None,
  Tiers,      \* the plans of the account
  Readers,    \* the plans that include the page (canReadCedarPress)
  SetUpLinks, \* account set-up links, one address each
  Landings,   \* where the tab is opened: a page, a link
  MaxPolls,   \* the polls of one confirmation page (20 in the code)
  MaxActs,    \* bound: what the reader and the world do
  MaxFaults   \* bound: calls refused or not reached

SignInAssumption ==
  /\ Readers \subseteq Tiers
  /\ None \notin Tiers \cup SetUpLinks \cup {"open", "complete", "sent", "reset", "change"}
  /\ MaxPolls \in Nat \ {0} /\ MaxActs \in Nat /\ MaxFaults \in Nat

VARIABLES
  user, loading, unreachable, retrying,  \* the provider
  page, life, form,                      \* the page on screen, its mount number, its state
  leaving,                               \* the mount that opened Stripe's page, 0 for none
  wire,                                  \* calls under way
  valid, tier, spent, paid,              \* the service: the cookie's session, the account, used links, the purchase
  acts, faults

provider == <<user, loading, unreachable, retrying>>
service == <<valid, tier, spent, paid>>
vars == <<provider, page, life, form, leaving, wire, service, acts, faults>>

-----------------------------------------------------------------------------
(* Calls.                                                                    *)

NoReply == [kind |-> "none", value |-> None]
Ok(v) == [kind |-> "ok", value |-> v]
Refused == [kind |-> "refused", value |-> None]
Lost == [kind |-> "lost", value |-> None]

\* The service was not reached in time; it did not refuse.
IsUnreachable(reply) == reply.kind = "lost"

Once(calls) == [c \in calls |-> 1]
Rest(c) == BagRemove(wire, c)
Replied(c, reply) == wire' = BagAdd(Rest(c), [c EXCEPT !.reply = reply])

(* The deadline, or a dropped connection, before or after the service acted. *)
Lose(c) ==
  /\ faults < MaxFaults
  /\ c.reply.kind \in {"none", "ok"}
  /\ Replied(c, Lost)
  /\ faults' = faults + 1
  /\ UNCHANGED <<provider, page, life, form, leaving, service, acts>>

Refuse(c) ==
  /\ faults < MaxFaults /\ c.reply = NoReply
  /\ Replied(c, Refused)
  /\ faults' = faults + 1
  /\ UNCHANGED <<provider, page, life, form, leaving, service, acts>>

Serve(c) ==
  LET op == c.op
      arg == c.arg
      answer(reply) == Replied(c, reply)
  IN
  /\ c.reply = NoReply
  /\ \/ /\ op \in {"me", "refresh"} /\ answer(Ok(IF valid THEN tier ELSE None))
        /\ UNCHANGED service
     \/ /\ op \in {"login", "logout"} /\ answer(Ok(tier))
        /\ valid' = (op = "login") /\ UNCHANGED <<tier, spent, paid>>
     \/ /\ op \in {"reset", "change", "create"} /\ arg \notin spent /\ answer(Ok(tier))
        /\ spent' = spent \cup {arg} /\ valid' = (op # "change") /\ UNCHANGED <<tier, paid>>
     \/ /\ op \in {"reset", "change", "create", "setup"} /\ arg \in spent /\ answer(Refused)
        /\ UNCHANGED service
     \/ /\ op = "setup" /\ arg \notin spent /\ answer(Ok(arg))
        /\ UNCHANGED service
     \/ /\ op \in {"forgot", "plans", "checkout"} /\ answer(Ok(None))
        /\ UNCHANGED service
     \/ /\ op \in {"billing", "reload"} /\ answer(IF valid THEN Ok("billing") ELSE Refused)
        /\ UNCHANGED service
     \/ /\ op = "poll" /\ answer(Ok(paid))
        /\ UNCHANGED service
     \/ /\ op = "resend" /\ answer(Ok("sent"))
        /\ paid' = "sent" /\ UNCHANGED <<valid, tier, spent>>
  /\ UNCHANGED <<provider, page, life, form, leaving, acts, faults>>

-----------------------------------------------------------------------------
(* What is on screen.                                                        *)

Call(op, arg, then, at) == [op |-> op, arg |-> arg, then |-> then, life |-> at, reply |-> NoReply]

Fresh == [step |-> "signin", held |-> {}, link |-> None, shown |-> None,
          busy |-> FALSE, error |-> FALSE, done |-> FALSE, polls |-> 0, timer |-> FALSE]

\* The settings cards, which a signed-out reader is shown the door instead of.
Cards(p, u, ld) == p = "settings" /\ (ld \/ u # None)

\* What a page asks for when it mounts, besides the calls under way.
Reads(calls, p, f, at) ==
  CASE p = "plans"    -> BagAdd(calls, Call("plans", None, None, at))
    [] p = "confirm"  -> BagAdd(calls, Call("poll", None, None, at))
    [] p = "create" /\ f.link # None -> BagAdd(calls, Call("setup", f.link, None, at))
    [] p = "settings" -> BagAdd(calls, Call("billing", None, None, at))
    [] OTHER -> calls

\* Reads that are aborted, or whose answer is ignored, once the page is gone.
Dropped == {"plans", "billing", "reload", "setup", "poll"}
Without(calls, ops) == [c \in {d \in DOMAIN calls : d.op \notin ops} |-> calls[c]]

(* A render: the login page sends a signed-in reader on, the settings page   *)
(* gives way to the door, a page that mounts starts afresh and asks.         *)
Render(u, ld, p, f, calls) ==
  LET q == IF p = "login" /\ ~ld /\ u # None /\ f.step # "change"
             THEN IF u \in Readers THEN "home" ELSE "settings" ELSE p
      was == page = "settings" /\ Cards(page, user, loading)
      is == Cards(q, u, ld)
      another == p # page \/ q # page \/ was # is
      asks == q # "settings" \/ is
      stay == Without(calls, Dropped)
  IN  /\ user' = u /\ loading' = ld /\ page' = q
      /\ life' = IF another THEN life + 1 ELSE life
      /\ form' = IF another THEN Fresh ELSE f
      /\ wire' = IF another THEN IF asks THEN Reads(stay, q, Fresh, life + 1) ELSE stay
                 ELSE IF is /\ (u = None) # (user = None)
                        THEN Reads(Without(calls, {"billing"}), q, f, life)
                        ELSE calls

\* The form of the page a call came from; a page that is gone has none.
Mine(call) == call.life = life

-----------------------------------------------------------------------------
(* The provider: the check on arrival, and every later one.                  *)

Unreached(reply) == unreachable' = IsUnreachable(reply)

MountChecked(c) ==
  LET reply == c.reply IN
  /\ c.op = "me" /\ reply # NoReply
  /\ IF reply.kind = "ok" THEN UNCHANGED unreachable ELSE Unreached(reply)
  /\ Render(reply.value, FALSE, page, form, Rest(c))
  /\ UNCHANGED <<retrying, leaving, service, acts, faults>>

(* refreshSession, and what waits for it: the notice's Retry, a password     *)
(* set, an address changed, an account made, the billing card.               *)
Refreshed(c) ==
  LET mine == Mine(c) IN
  /\ c.op = "refresh" /\ c.reply # NoReply
  /\ Unreached(c.reply)
  /\ retrying' = (retrying /\ c.then # "retry")
  /\ Render(c.reply.value, FALSE,
            IF c.then = "create" THEN "home" ELSE page,
            CASE mine /\ c.then = "reset" -> [form EXCEPT !.busy = FALSE]
              [] mine /\ c.then = "change" ->
                   [form EXCEPT !.busy = FALSE, !.step = "signin", !.error = FALSE, !.done = FALSE]
              [] OTHER -> form,
            Rest(c))
  /\ UNCHANGED <<leaving, service, acts, faults>>

\* Signed in: a reader without the page is sent to the settings.
SignedIn(c) ==
  LET after == IF Mine(c) THEN [form EXCEPT !.busy = FALSE, !.error = c.reply.kind # "ok"] ELSE form
  IN
  /\ c.op = "login" /\ c.reply # NoReply
  /\ IF c.reply.kind = "ok"
       THEN /\ unreachable' = FALSE
            /\ Render(c.reply.value, loading,
                      IF c.reply.value \in Readers THEN page ELSE "settings", after, Rest(c))
       ELSE Render(user, loading, page, after, Rest(c)) /\ UNCHANGED unreachable
  /\ UNCHANGED <<retrying, leaving, service, acts, faults>>

SignedOut(c) ==
  /\ c.op = "logout" /\ c.reply # NoReply
  /\ unreachable' = FALSE
  /\ Render(None, loading, page, form, Rest(c))
  /\ UNCHANGED <<retrying, leaving, service, acts, faults>>

-----------------------------------------------------------------------------
(* The pages take their answers in.                                          *)

Settle(c, after) ==
  /\ c.reply # NoReply
  /\ Render(user, loading, page, IF Mine(c) THEN after ELSE form, Rest(c))
  /\ UNCHANGED <<unreachable, retrying, leaving, service, acts, faults>>

ResetAsked(c) ==
  /\ c.op = "forgot"
  /\ Settle(c, IF c.reply.kind = "ok" THEN [form EXCEPT !.busy = FALSE, !.done = TRUE]
               ELSE [form EXCEPT !.busy = FALSE, !.error = TRUE])

\* A link was used: the session is read again before the form lets go.
LinkUsed(c) ==
  /\ c.op \in {"reset", "change", "create"} /\ c.reply # NoReply
  /\ IF c.reply.kind = "ok"
       THEN /\ wire' = BagAdd(Rest(c), Call("refresh", None, c.op, c.life))
            /\ UNCHANGED <<provider, page, life, form, leaving, service, acts, faults>>
       ELSE Settle(c, [form EXCEPT !.busy = FALSE, !.error = TRUE])

(* Mutant of SetUpChecked: the answer for an earlier link is taken in too.   *)
SetUpCheckedLate(c) ==
  /\ c.op = "setup"
  /\ Settle(c, IF c.reply.kind = "ok" THEN [form EXCEPT !.shown = c.reply.value, !.error = FALSE]
               ELSE [form EXCEPT !.error = TRUE])

\* The address a set-up link is for; the effect of an earlier link has stopped.
SetUpChecked(c) ==
  /\ c.op = "setup"
  /\ Settle(c, IF c.arg # form.link THEN form
               ELSE IF c.reply.kind = "ok"
                 THEN [form EXCEPT !.shown = c.reply.value, !.error = FALSE]
                 ELSE [form EXCEPT !.error = TRUE])

PlansRead(c) ==
  /\ c.op = "plans"
  /\ Settle(c, IF c.reply.kind = "ok" THEN [form EXCEPT !.shown = "plans"] ELSE [form EXCEPT !.error = TRUE])

BillingRead(c) ==
  /\ c.op \in {"billing", "reload"}
  /\ Settle(c, IF c.reply.kind = "ok"
                 THEN [form EXCEPT !.shown = "billing", !.error = (@ /\ c.op = "billing")]
                 ELSE [form EXCEPT !.error = TRUE])

(* Stripe's page is opened, by whichever page asked; only a failure gives    *)
(* the buttons back.                                                         *)
CheckoutOpened(c) ==
  /\ c.op = "checkout" /\ c.reply # NoReply
  /\ leaving' = IF c.reply.kind = "ok" THEN c.life ELSE leaving
  /\ Render(user, loading, page,
            IF Mine(c) /\ c.reply.kind # "ok" THEN [form EXCEPT !.busy = FALSE, !.error = TRUE] ELSE form,
            Rest(c))
  /\ UNCHANGED <<unreachable, retrying, service, acts, faults>>

\* A poll that failed, said the e-mail is out, or was the last is not repeated.
Polled(c) ==
  /\ c.op = "poll"
  /\ Settle(c, IF c.reply.kind # "ok" THEN [form EXCEPT !.error = TRUE]
               ELSE [form EXCEPT !.shown = c.reply.value,
                                 !.polls = @ + 1,
                                 !.timer = c.reply.value # "sent" /\ form.polls + 1 < MaxPolls])

Resent(c) ==
  /\ c.op = "resend"
  /\ Settle(c, IF c.reply.kind = "ok"
                 THEN [form EXCEPT !.busy = FALSE, !.shown = c.reply.value, !.done = TRUE]
                 ELSE [form EXCEPT !.busy = FALSE, !.error = TRUE])

Tick ==
  /\ page = "confirm" /\ form.timer
  /\ form' = [form EXCEPT !.timer = FALSE]
  /\ wire' = BagAdd(wire, Call("poll", None, None, life))
  /\ UNCHANGED <<provider, page, life, leaving, service, acts, faults>>

Leave ==
  /\ leaving # 0 /\ page # "away"
  /\ page' = "away" /\ wire' = Once({})
  /\ UNCHANGED <<provider, life, form, leaving, service, acts, faults>>

-----------------------------------------------------------------------------
(* What the reader does.                                                     *)

Act == /\ page # "away" /\ acts < MaxActs
       /\ acts' = acts + 1
       /\ UNCHANGED <<service, faults, leaving>>

Submit(op, arg) ==
  /\ Act /\ ~form.busy
  /\ form' = [form EXCEPT !.busy = TRUE, !.error = FALSE]
  /\ wire' = BagAdd(wire, Call(op, arg, None, life))
  /\ UNCHANGED <<provider, page, life>>

\* The confirmation page, and the notice over every page.
Confirmed == form.shown \in {"complete", "sent"}
Notice == unreachable /\ user = None

SubmitSignIn == page = "login" /\ form.step = "signin" /\ Submit("login", None)
SubmitForgot == page = "login" /\ form.step = "forgot" /\ ~form.done /\ Submit("forgot", None)
SubmitReset  == page = "login" /\ form.step = "reset" /\ Submit("reset", "reset")
SubmitChange == page = "login" /\ form.step = "change" /\ Submit("change", "change")
SubmitAccount == page = "create" /\ form.shown # None /\ Submit("create", form.link)
Choose == page = "plans" /\ form.shown # None /\ user = None /\ Submit("checkout", None)
Resend == page = "confirm" /\ Confirmed /\ Submit("resend", None)
Begin == Cards(page, user, loading) /\ form.shown # None /\ Submit("checkout", None)

\* From one form of the login page to another; nothing waits for a call.
GoStep ==
  /\ page = "login" /\ Act
  /\ \E step \in {"signin", "forgot"} :
       /\ form.step = "reset" => step = "forgot"
       /\ step # form.step /\ form.step # "change"
       /\ Render(user, loading, page,
                 [form EXCEPT !.step = step, !.error = FALSE, !.done = FALSE], wire)
  /\ UNCHANGED <<unreachable, retrying>>

\* An emailed link opened in this tab; one that is held already changes nothing.
OpenLink ==
  /\ page = "login" /\ Act
  /\ \E link \in {"reset", "change"} \ form.held :
       Render(user, loading, page,
              [form EXCEPT !.held = @ \cup {link}, !.step = link, !.error = FALSE], wire)
  /\ UNCHANGED <<unreachable, retrying>>

OpenSetUpLink ==
  /\ page = "create" /\ Act
  /\ \E link \in SetUpLinks \ {form.link} :
       LET after == [form EXCEPT !.link = link, !.shown = None, !.error = FALSE]
       IN  Render(user, loading, page, after, Reads(wire, "create", after, life))
  /\ UNCHANGED <<unreachable, retrying>>

Visit ==
  /\ Act
  /\ \E p \in {"login", "create", "plans", "settings", "home"} \ {page} :
       Render(user, loading, p, Fresh, wire)
  /\ UNCHANGED <<unreachable, retrying>>

\* The window has the focus again, or "Refresh billing".
Focus ==
  /\ Cards(page, user, loading) /\ Act
  /\ wire' = BagAdd(BagAdd(wire, Call("reload", None, None, life)), Call("refresh", None, "billing", life))
  /\ UNCHANGED <<provider, page, life, form>>

SignOut ==
  /\ user # None /\ (page = "settings" \/ (page = "home" /\ ~loading /\ user \notin Readers)) /\ Act
  /\ wire' = BagAdd(wire, Call("logout", None, None, life))
  /\ UNCHANGED <<provider, page, life, form>>

\* The notice's button, which waits, and the browser back online, which does not.
Retry(button) ==
  /\ unreachable /\ Act
  /\ button => Notice /\ ~retrying
  /\ retrying' = TRUE
  /\ wire' = BagAdd(wire, Call("refresh", None, "retry", life))
  /\ UNCHANGED <<user, loading, unreachable, page, life, form>>

\* The session lapses, the plan changes, the payment is taken and confirmed.
Elsewhere ==
  /\ page # "away" /\ acts < MaxActs /\ acts' = acts + 1
  /\ \/ valid /\ valid' = FALSE /\ UNCHANGED <<tier, paid>>
     \/ \E t \in Tiers \ {tier} : tier' = t /\ UNCHANGED <<valid, paid>>
     \/ paid = "open" /\ paid' = "complete" /\ UNCHANGED <<valid, tier>>
     \/ paid = "complete" /\ paid' = "sent" /\ UNCHANGED <<valid, tier>>
  /\ UNCHANGED <<provider, page, life, form, leaving, wire, spent, faults>>

-----------------------------------------------------------------------------
Init ==
  /\ user = None /\ loading = TRUE /\ unreachable = FALSE /\ retrying = FALSE
  /\ \E at \in Landings :
       /\ page = at.page
       /\ form = [Fresh EXCEPT !.step = IF at.link \in {"reset", "change"} THEN at.link ELSE "signin",
                               !.held = {at.link} \cap {"reset", "change"},
                               !.link = IF at.link \in SetUpLinks THEN at.link ELSE None]
       /\ wire = Reads(Once({Call("me", None, None, 1)}), page, form, 1)
  /\ life = 1 /\ leaving = 0
  /\ valid \in BOOLEAN /\ tier \in Tiers /\ spent = {} /\ paid = "open"
  /\ acts = 0 /\ faults = 0

Answer == \E c \in DOMAIN wire : Serve(c) \/ Lose(c) \/ Refuse(c)

TakeIn ==
  \E c \in DOMAIN wire :
    \/ MountChecked(c) \/ Refreshed(c) \/ SignedIn(c) \/ SignedOut(c) \/ ResetAsked(c)
    \/ LinkUsed(c) \/ SetUpChecked(c) \/ PlansRead(c) \/ BillingRead(c) \/ CheckoutOpened(c)
    \/ Polled(c) \/ Resent(c)

Next ==
  \/ Answer \/ TakeIn \/ Tick \/ Leave
  \/ SubmitSignIn \/ SubmitForgot \/ SubmitReset \/ SubmitChange \/ SubmitAccount
  \/ Choose \/ Resend \/ Begin
  \/ GoStep \/ OpenLink \/ OpenSetUpLink \/ Visit \/ Focus \/ SignOut
  \/ Retry(TRUE) \/ Retry(FALSE) \/ Elsewhere

Spec == Init /\ [][Next]_vars

(* A call has an answer or a deadline, and the tab takes both in.            *)
FairSpec == Spec /\ WF_vars(Answer) /\ WF_vars(TakeIn) /\ WF_vars(Leave)

-----------------------------------------------------------------------------

(* The account form never stands under one set-up link with the address of   *)
(* another, however late the check of the earlier one answers                *)
(* (CedarPressCreateAccount).                                                *)
FormIsItsLinks == page = "create" /\ form.shown # None => form.shown = form.link

(* A payment once shown as confirmed is not shown as unconfirmed again on    *)
(* that page: a poll waits for the one before it (CedarPressSubscribe).      *)
ConfirmedForGood ==
  page = "confirm" /\ life' = life /\ form.shown \in {"complete", "sent"}
    => form'.shown \in {"complete", "sent"}

(* A page asks for one checkout at a time and for none once Stripe's page    *)
(* was opened: the buttons do not come back on success                       *)
(* (CedarPressSubscribe choose, BillingCard begin).                          *)
OneCheckoutAtATime ==
  LET asked == {c \in DOMAIN wire : c.op = "checkout" /\ c.life = life}
  IN  \A c \in asked : wire[c] = 1 /\ asked = {c} /\ leaving # life
=============================================================================
