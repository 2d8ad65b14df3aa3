--------------------------- MODULE PrioritySession ---------------------------
(* Shape the Research in the client: the session that reads a subscriber's   *)
(* points and moves them (pressPriorities.js createPrioritySession,          *)
(* usePriorities.js), the cards and the request form (CedarPressPriorities). *)
(* The ledger itself (see Points) is external: it applies a move or refuses  *)
(* it, and an answer may be lost either way.                                 *)
EXTENDS Integers, Sequences, FiniteSets, FiniteSetsExt

CONSTANTS
  None,
  Readers,     \* subscribers whose plan includes the page
  Priorities,
  Texts,       \* what a reader may write, long enough to send
  About,       \* the priority a text is about, or None
  Earned,      \* the points of a subscriber
  MaxActs, MaxFaults

PrioritySessionAssumption ==
  /\ About \in [Texts -> Priorities \cup {None}] /\ None \notin Priorities \cup Readers \cup Texts
  /\ Earned \in Nat /\ MaxActs \in Nat /\ MaxFaults \in Nat

VARIABLES
  user, owner,     \* the provider's reader; the hook's memo, numbered
  sequence,        \* the session's read counter
  state,           \* what was published last, with its owner
  reads, changes,  \* the calls under way
  form,            \* the request form
  moving,          \* the cards' buttons wait for a move
  mount, dropped,  \* the page's mount; whether a session ended on a change of its own
  ledger, asked,   \* the service: points put per subscriber, requests received
  acts, faults

hook == <<user, owner, sequence, state>>
page == <<mount, dropped>>
vars == <<hook, page, reads, changes, form, moving, ledger, asked, acts, faults>>

EmptyForm == [text |-> None, matches |-> None, support |-> TRUE, busy |-> FALSE, looks |-> {}]
NothingPut == [p \in Priorities |-> 0]
Spent(put) == SumFunctionOnSet(put, Priorities)

-----------------------------------------------------------------------------
(* What is on screen.                                                        *)

Loading == [owner |-> owner, status |-> "loading", list |-> NothingPut, card |-> NothingPut, at |-> 0]
SignedOut == [Loading EXCEPT !.status = "signed-out"]

\* A balance is shown to the memo it was read for.
Visible == IF user = None THEN SignedOut ELSE IF state.owner = owner THEN state ELSE Loading

CanMove == Visible.status = "ok"
Available == IF CanMove THEN Earned - Spent(Visible.card) ELSE 0
Mine(p) == Visible.card[p]

\* The page reads the text against the list it has, which is empty while it is
\* loading and after a failed read; a reading by the service replaces this one.
Related(text) == IF text = None \/ ~CanMove THEN None ELSE About[text]
Best == IF form.matches # None THEN form.matches ELSE Related(form.text)

\* What the box under the text says: it is related to this, with these points.
Match == IF Best = None THEN None ELSE <<Best, Visible.list[Best]>>

-----------------------------------------------------------------------------
(* Reading.  A reload aborts the read before it; only the newest publishes.  *)

NewRead(who, rev) == [owner |-> who, rev |-> rev, list |-> None, card |-> None, live |-> TRUE]
Aborted == {[r EXCEPT !.live = FALSE] : r \in reads}

Reload ==
  /\ sequence' = sequence + 1
  /\ reads' = Aborted \cup {NewRead(owner, sequence + 1)}

(* Mutant of Current: any read of a session that is not disposed of may      *)
(* publish.                                                                  *)
CurrentUnlessDisposed(r) == r.owner = owner

Current(r) == r.owner = owner /\ r.live /\ r.rev = sequence

\* The two halves of a read are served apart.
ServeRead(r) ==
  /\ user # None
  /\ \/ r.list = None /\ reads' = (reads \ {r}) \cup {[r EXCEPT !.list = ledger[user]]}
     \/ r.card = None /\ reads' = (reads \ {r}) \cup {[r EXCEPT !.card = ledger[user]]}
  /\ UNCHANGED <<page, hook, changes, form, moving, ledger, asked, acts, faults>>

ReadDone(r) ==
  /\ r.list # None /\ r.card # None
  /\ reads' = reads \ {r}
  /\ state' = IF Current(r)
                THEN [owner |-> owner, status |-> "ok", list |-> r.list.put, card |-> r.card.put, at |-> r.card.at]
                ELSE state
  /\ changes' = {IF c.awaits = r.rev THEN [c EXCEPT !.step = "done"] ELSE c : c \in changes}
  /\ UNCHANGED <<page, user, owner, sequence, form, moving, ledger, asked, acts, faults>>

ReadFailed(r) ==
  /\ faults < MaxFaults /\ faults' = faults + 1
  /\ reads' = reads \ {r}
  /\ state' = IF Current(r) THEN [Loading EXCEPT !.status = "failed"] ELSE state
  /\ changes' = {IF c.awaits = r.rev THEN [c EXCEPT !.step = "done"] ELSE c : c \in changes}
  /\ UNCHANGED <<page, user, owner, sequence, form, moving, ledger, asked, acts>>

-----------------------------------------------------------------------------
(* Changing: a move, or a request with a point.  Sent once; an answer that   *)
(* was taken in is followed by a read.                                       *)

Change(kind, p, n, text) ==
  [kind |-> kind, by |-> user, owner |-> owner, priority |-> p, points |-> n, text |-> text,
   step |-> "sent", awaits |-> 0, mount |-> mount]

Applies(c) ==
  \/ c.kind = "submit" /\ c.points = 0
  \/ /\ 0 <= ledger[c.by].put[c.priority] + c.points
     /\ Spent(ledger[c.by].put) + c.points <= Earned

Moved(account, p, n) == [put |-> [account.put EXCEPT ![p] = @ + n], at |-> account.at + 1]

\* The service acts, or refuses; the answer is on its way.
Apply(c) ==
  /\ c.step = "sent"
  /\ IF Applies(c)
       THEN /\ ledger' = IF c.points = 0 THEN ledger
                         ELSE [ledger EXCEPT ![c.by] = Moved(@, c.priority, c.points)]
            /\ asked' = IF c.kind = "submit" THEN asked \cup {<<c.text, c.priority>>} ELSE asked
            /\ changes' = (changes \ {c}) \cup {[c EXCEPT !.step = "applied"]}
       ELSE /\ changes' = (changes \ {c}) \cup {[c EXCEPT !.step = "failed"]}
            /\ UNCHANGED <<ledger, asked>>
  /\ UNCHANGED <<page, hook, reads, form, moving, acts, faults>>

LoseAnswer(c) ==
  /\ c.step \in {"sent", "applied"} /\ faults < MaxFaults /\ faults' = faults + 1
  /\ changes' = (changes \ {c}) \cup {[c EXCEPT !.step = "failed"]}
  /\ UNCHANGED <<page, hook, reads, form, moving, ledger, asked, acts>>

\* mutate: the answer is in, the session reads again before it returns.
Answered(c) ==
  /\ c.step = "applied" /\ c.owner = owner
  /\ Reload
  /\ changes' = (changes \ {c}) \cup {[c EXCEPT !.step = "reading", !.awaits = sequence + 1]}
  /\ UNCHANGED <<page, user, owner, state, form, moving, ledger, asked, acts, faults>>

\* A read that another aborted returns at once to the change that awaits it.
Overtaken(c) ==
  /\ c.step = "reading" /\ c.awaits # sequence
  /\ changes' = (changes \ {c}) \cup {[c EXCEPT !.step = "done"]}
  /\ UNCHANGED <<page, hook, reads, form, moving, ledger, asked, acts, faults>>

\* The page takes the end of its own change in; a disposed one only lets go.
Ended(c) ==
  /\ c.step \in {"done", "failed"} \/ c.owner # owner
  /\ changes' = changes \ {c}
  /\ IF c.mount # mount THEN UNCHANGED <<form, moving>>
     ELSE IF c.kind = "move" THEN moving' = FALSE /\ UNCHANGED form
     ELSE /\ form' = [form EXCEPT !.busy = FALSE, !.text = IF c.owner = owner /\ c.step = "done" THEN None ELSE @]
          /\ UNCHANGED moving
  /\ UNCHANGED <<page, hook, reads, ledger, asked, acts, faults>>

-----------------------------------------------------------------------------
(* What the reader does.                                                     *)

Doing == acts < MaxActs /\ acts' = acts + 1 /\ UNCHANGED <<ledger, asked, faults>>
Act == Doing /\ UNCHANGED page

Move(p, n) ==
  /\ Act /\ CanMove /\ ~moving /\ (n < 0 => Mine(p) > 0)
  /\ moving' = TRUE
  /\ changes' = changes \cup {Change("move", p, n, None)}
  /\ UNCHANGED <<hook, reads, form>>

\* The service's reading of the text before is dropped, and asked for anew.
Type ==
  /\ Act /\ user # None
  /\ \E text \in Texts \ {form.text} : form' = [form EXCEPT !.text = text, !.matches = None, !.looks = {text}]
  /\ UNCHANGED <<hook, reads, changes, moving>>

FetchRelated ==
  /\ form.text \in form.looks
  /\ form' = [form EXCEPT !.looks = {}, !.matches = About[form.text]]
  /\ UNCHANGED <<page, hook, reads, changes, moving, ledger, asked, acts, faults>>

ToggleSupport ==
  /\ Act /\ Match # None /\ CanMove /\ Available > 0
  /\ form' = [form EXCEPT !.support = ~@]
  /\ UNCHANGED <<hook, reads, changes, moving>>

Submit ==
  LET n == IF Best # None /\ form.support /\ CanMove /\ Available > 0 THEN 1 ELSE 0 IN
  /\ Act /\ user # None /\ ~form.busy /\ form.text # None
  /\ form' = [form EXCEPT !.busy = TRUE]
  /\ changes' = changes \cup {Change("submit", Best, n, form.text)}
  /\ UNCHANGED <<hook, reads, moving>>

Retry ==
  /\ Act /\ Visible.status = "failed"
  /\ Reload
  /\ UNCHANGED <<user, owner, state, changes, form, moving>>

\* Another reader, or the same one read again: another memo.  The old session
\* is disposed of and aborts its calls; another reader's page mounts afresh.
Become(u) ==
  /\ Doing /\ (u # None \/ user # None)
  /\ user' = u /\ owner' = owner + 1
  /\ sequence' = sequence + 1
  /\ reads' = Aborted \cup (IF u = None THEN {} ELSE {NewRead(owner + 1, sequence + 1)})
  /\ IF u = user THEN UNCHANGED <<form, moving, mount>>
     ELSE form' = EmptyForm /\ moving' = FALSE /\ mount' = mount + 1
  /\ dropped' = (dropped \/ changes # {})
  /\ UNCHANGED <<state, changes>>

-----------------------------------------------------------------------------
Init ==
  /\ user \in Readers /\ owner = 1 /\ sequence = 1
  /\ state = [owner |-> 0, status |-> "failed", list |-> NothingPut, card |-> NothingPut, at |-> 0]
  /\ reads = {NewRead(1, 1)} /\ changes = {}
  /\ form = EmptyForm /\ moving = FALSE /\ mount = 1 /\ dropped = FALSE
  /\ ledger = [u \in Readers |-> [put |-> NothingPut, at |-> 0]] /\ asked = {}
  /\ acts = 0 /\ faults = 0

TakeIn ==
  \/ \E r \in reads : ServeRead(r) \/ ReadDone(r)
  \/ \E c \in changes : Apply(c) \/ Answered(c) \/ Overtaken(c) \/ Ended(c)

Next ==
  \/ TakeIn \/ FetchRelated
  \/ \E r \in reads : ReadFailed(r)
  \/ \E c \in changes : LoseAnswer(c)
  \/ \E p \in Priorities, n \in {1, -1} : Move(p, n)
  \/ Type \/ ToggleSupport \/ Submit \/ Retry
  \/ \E u \in Readers \cup {None} : Become(u)

Spec == Init /\ [][Next]_vars

-----------------------------------------------------------------------------
(* The balance on screen never goes back to an older one, whatever reads     *)
(* are answered out of order (createPrioritySession's current).              *)
BalanceNeverGoesBack ==
  Visible.status = "ok" /\ Visible'.status = "ok" /\ user' = user => Visible'.at >= Visible.at

(* Once nothing is under way, and no answer was lost or dropped with its     *)
(* session, the cards and the balance on screen are the ledger's: every      *)
(* change is followed by a read (createPrioritySession's mutate).            *)
QuietIsCurrent ==
  reads = {} /\ changes = {} /\ faults = 0 /\ ~dropped /\ CanMove
    => Visible.list = ledger[user].put /\ Visible.card = ledger[user].put

(* A request is never kept beside a priority that an earlier text was read   *)
(* as being about, whatever the service's readings are answered after; one   *)
(* sent before the list or the service was there to read it is kept beside   *)
(* none (RequestForm).                                                       *)
RequestsReadAsTheirText == \A request \in asked : request[2] \in {None, About[request[1]]}
=============================================================================
