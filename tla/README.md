# Cedar Press: specifications

TLA+ models of the parts of Cedar Press whose correctness depends on what happens
*between* steps: transactions of several people, webhook deliveries, e-mails, crashes and
retries on the server; late answers, events in the browser's order and pages that change
under a call in the client; scripts stopped between two files of a release. Each module is translated from the source it names; `PROJECT.json` maps
every definition to the lines it stands for.

    tlc -workers 2 -config MCPurchase.cfg MCReconciler.tla      # one model
    tlapm ReconcilerProofs.tla                                  # one set of proofs

## The system

Cedar Press is a FastAPI service over PostgreSQL (`server/cedar_press`) with a React
client (`src`). Stripe sells the subscriptions and a mail server delivers the links.

| component | state it keeps | operations | talks to |
|---|---|---|---|
| Cedar Points (`priorities.py`, routes in `app.py`) | append-only ledger, derived allocations, requests | `accrue`, `_expire`, `allocate`, `submit_request` | PostgreSQL, one advisory lock per subscription |
| Billing reconciler (`billing/services/reconciler.py`, webhook route, `billing/cli.py`) | mirrored subscriptions, invoices, payments, refunds; one row per webhook event | `process_event`, `reconcile_customer`, repair command | Stripe reads, a session lock per customer, checkout activation, purchase e-mail |
| Signed-in checkout (`billing/services/billing.py`) | checkout attempts of accounts | `checkout` | Stripe sessions (idempotency keys), reconciler |
| Anonymous checkout (`billing/services/checkout.py`) | reservations of a browser, the accounts they become | `start`, `owner`, `prepare_activation`, `activate`, `status`, `resend` | the same, and purchase e-mail |
| Purchase e-mail (`billing/services/purchase_email.py`) | one delivery row per purchase with a lease | `send_claim`, `request_resend` | mail server, setup links |
| Setup links (`accounts/services/setup.py`) | hashed links, one hour each | `issue_link`, `account_details`, `confirm` | account store |
| Accounts (`accounts/services/subscribers.py`, `sessions.py`, routes) | subscribers, password hash, session revision, reset tokens, e-mail changes | sign-in, sign-out, change and reset of passwords, change of address | account store, Stripe customer |
| Rate limiter (`ratelimit.py`) | per process: time stamps per key | `allow`, `retry_after` | called by the routes |
| Database (`db.py`, `migrate.py`) | pool, applied migrations | `pool`, `migrate` | PostgreSQL |
| Stripe adapter (`billing/adapters/stripe.py`) | none | one call per operation | Stripe |
| Pricing, access dates | none | pure functions | |
| Releases, collections, sheets, downloads (`repository.py`, `collections.py`, ...) | files pinned by hash, audit rows | reads, formatting | file store |
| Cedar questions (`cedar_service.py`) | none | relay with a deadline | Cedar service |
| Session and account pages (`AuthProvider.jsx`, sign-in, set-up, plans, confirmation, billing card) | session payload, forms, calls on the wire | sign-in and -out, reset, set-up, checkout, polling | the API |
| Cedar on the public page (`PressDoorCedar.jsx`, `cedarConversation.js`, `doorCedar.js`) | thread, memory, pending ask | ask, quick replies, matching, hand-off | none: answers are local |
| Cedar beside the collections (`PressCedarFab.jsx`, `readerCedar.js`) | the same, and a scope | ask at a scope, re-scope, leave | Cedar service |
| Collections viewer (`PressExplore.jsx`, `explore.js`, `pressRecord.js`) | the cut, its address, previews, register, saved views | filter, sort, page, save, download, open a record and return | published samples, register |
| Entity profile (`CedarPressEntity.jsx`, `NeedEntityEvidence.jsx`) | rows and evidence of one entity | visit, retry, open its table | samples, register, evidence calls |
| Record page (`CedarPressRecord.jsx`, `PressRecordTable.jsx`, `readerValues.js`) | one row, its contract and codebook | place every column, walk, copy | samples, codebook |
| Table contracts (`derive-explore.mjs`, `recordColumns.js`) | the contract of each table | derive, declare, open on a view | viewer, record page, public page |
| What's new (`useReleaseFeed.js`, `pressReleases.js`, `pressDownload.js`) | feed and its owner, filters, the file made | read, follow a link, show more, download | release feed |
| Priorities page (`pressPriorities.js`, `usePriorities.js`) | balance, moves under way, request form | read, move, match, submit, retry | points ledger |
| Settings cards (`CedarPressSettings.jsx`, `readerWork.js`) | what is loaded, edited, saved | load, edit, save | the API |
| Shelves and access (`pressAccess.js`, `pressPlans.js`, `repository.py`) | tier as last read | reach, upgrade, offer of files | session payload, release list |
| Public page (`PressGate.jsx`, `PressCollectionPreview.jsx`) | collection in the frame, band of use cases, records | point, click, rotate, read, retry | samples, codebook |
| Collections page (`CedarPressData.jsx`) | where the reader is, the frame's height | follow a fragment, measure | viewer chunk |
| Question mark (`Explain.jsx`), panels and focus (`focusReturn.js`, ...), fade-in (`useFadeIn.js`) | open or shut, focus, sections seen | pointer, keyboard, observers, timers | the browser |
| Release scripts (`scripts/`) | manifest, ledger, record of samples, generated files | measure, record, generate, `--check` | git, deployment |

What is hard, and where the modules look for it:

* **Two people, one account.** Seats of one subscription share a ledger; two
  transactions that each read a balance and then write would spend it twice. (`Points`)
* **Reads of a moving world.** A handler reads Stripe in five or more calls and writes
  once; Stripe changes in between, and events arrive late, repeated or never. (`BillingReconciler`)
* **Work outside a transaction.** E-mail is sent with no lock held; a lease with a
  timeout stands in for it. (`PurchaseEmail`)
* **One row, many short statements.** A sign-in reads the account three times and writes
  it twice, while other devices change what it read. (`Accounts`)
* **Crashes between two steps**, in each of them: after Stripe did something and before
  the database says so, after the database committed and before the caller was told.
* **Answers that come late.** Every page reads over a network while the reader moves on:
  another account signs in, the scope changes, the page is left and entered again, and
  answers arrive in any order. (`SignIn`, `PrioritySession`, `Releases`, `CedarThread`,
  `ReaderCedar`, `Profile`, `DoorPane`)
* **One gesture, several events.** A tap is an enter, a press, a focus and a click, in the
  browser's order; a closed panel takes the focus with it. (`Explain`, `PanelFocus`)
* **Timers against the visitor**: a band that turns by itself while somebody chooses, a
  watchdog, a fallback that scrolls. (`DoorPage`, `FadeIn`, `DataPage`)
* **One fact on two sides.** What the browser offers, the service must serve; a copied link,
  a saved view and a download must give the rows on screen. (`Shelves`, `Explore`)
* **Files written by scripts that can be stopped**, then committed and deployed by
  somebody else. (`ReleaseFiles`)

## Modules

| module | models | proofs |
|---|---|---|
| `Points` | the points ledger under concurrent seats | `PointsProofs` |
| `Mirror` | the abstract promise of the billing mirror | |
| `BillingReconciler` | webhook handlers and the repair command; refines `Mirror` | `ReconcilerProofs` |
| `Checkout` | the checkout of a signed-in account from several tabs | `CheckoutProofs` |
| `DirectCheckout` | the checkout of a browser without an account, and what activates its purchases | `DirectCheckoutProofs` |
| `PurchaseEmail` | the e-mail of a purchase, its lease and its setup links | `PurchaseEmailProofs` |
| `Accounts` | one account's sessions, password, links and address | `AccountsProofs` |
| `CedarThread` | the conversation both Cedar panels run: asks that suspend, memory, abort | `CedarProofs` |
| `DoorCedar` | Cedar on the public page; refines `CedarThread` | `CedarProofs` |
| `ReaderCedar` | Cedar beside the collections; refines `CedarThread` | `CedarProofs` |
| `ExploreRows` | rows read through a contract and the register: filters, reasons, facets, sort | |
| `Explore` | the viewer over `ExploreRows`: address, previews, saved views, the trip to a record | |
| `Profile` | an entity's profile, over `ExploreRows` | |
| `RecordPage` | where a record's columns go, and what the page says while it has no record | `CedarProofs` |
| `TableReading` | the contracts of the tables and the columns they open on | `CedarProofs` |
| `SignIn` | a tab: session, forms, checkout, confirmation, billing card | `ClientProofs` |
| `Releases` | the feed, the page of what is new, the files handed over | `ClientProofs` |
| `PrioritySession` | the client's copy of the points balance and its moves | `ClientProofs` |
| `SettingsCards` | the settings that load and save | `ClientProofs` |
| `Shelves` | what a plan opens, in the browser and at the service | `ClientProofs` |
| `DoorPage`, `DoorPane` | the public page's frame and band; the records in the frame | `ClientProofs` (`DoorPage`) |
| `DataPage` | fragment and frame of the collections page | `ClientProofs` |
| `Explain`, `PanelFocus`, `FadeIn` | the question mark; focus around panels, menus and the picker; sections that fade in | `ClientProofs` |
| `ReleaseFiles` | the files of a release and the scripts that keep them | `ClientProofs` |
| `Guides` | the researcher documents made from a release, and their check | |
| `Client` | eleven of these as the parts of one specification, with the promises of each | `ClientProofs`, `CedarProofs` |
| `Filtering` | JavaScript's `filter` as a function the provers can unfold, used by `DoorCedar`, `RecordPage` and `TableReading` | |
| `Null` | `None`, declared once for the modules that are proved together | |

`MCPoints`, `MCReconciler` and `MCAccounts` instantiate one module each for TLC.
`MCCheckout`, `MCPurchaseEmail`, `MCClient` and `MCProgress` hold several: a behaviour chooses one *part*
and stays in it, so one search covers modules that share no state. In them the variables of one module
carry the state of whichever part it is, by INSTANCE substitution, and every property names
its part (`part = "door" => ...`). The parts whose promise is proved to the last conjunct are in
`Client`, with `ClientSpec` and the promises, so that the theorems and the runs are about the same
definitions; `MCClient` extends it with the parts that are only, or not wholly, proved.

In several modules a definition stands right before another and extends its name
(`LockFreeUnserialized` before `LockFree`). It is the same definition with a plausible
mistake in it; nothing uses it, but put in place of the correct one it makes a run fail,
and so shows what that run's property is able to notice.

### Points

The ledger is append-only, so the model keeps the sums that the code asks it for: what
an account earned up to each month, what it spent net of refunds, what was written off,
plus the unique index on account and month. A route is `accrue` followed by `allocate` or
`submit_request`; each transaction is two actions, reads and commit, with the account's
advisory lock (`hold`) in between, so that dropping the lock is visible. `Call` starts a
request, `AccrueRead`/`AccrueCommit` are `accrue` and `_expire`, `SpendRead`/
`SpendCommit`/`Refuse` are `allocate` (also inside `submit_request`), `SubmitPlain` is a
request without points, `Crash` loses a transaction. `month_of()` is read before the lock
is waited for, as in the code, and the month may end meanwhile.

* *NeverOverspent*: no balance is negative.
* *LedgerIsExplained*: the derived table agrees with the ledger
  (`AllocationsExplainSpending`), two seats signing in at once earn a month once
  (`MonthEarnsOnce`), and nothing is written off before its time (`OnlyOldPointsExpire`).
* *OldestSpentFirst*: what is written off is exactly what spending did not take from the
  old points.
* *RequestWithItsSupport*: a stored request has its points, a refused one leaves nothing.
* *ExpiredPointsAreNotSpent* is **violated** (`MCPointsExpired.cfg`): `accrue` writes off
  expired points in one transaction and `allocate` spends in the next; a refund by another
  seat in between makes an expired point spendable. The module's docstring says points
  expire after twelve months.

Bounds: one account (accounts share nothing but the code), two seats, two priorities, one
unknown id, moves of one point, four months with credits that expire after two. That is
enough for two expiries, a month that ends during a request, and refunds of expired points.

### BillingReconciler and Mirror

Stripe is the environment. Per customer there are a Checkout session, a subscription, and
invoices with one payment each; each object has a version, and each change of it is one
event that may be delivered at any later time and any number of times until it is answered.
`MayBecome` says which changes Stripe makes and in which order.

A handler (`process_event`) and the repair command (`reconcile_customer`) are workers with
the same steps: `Begin` takes the customer's session lock, `Prepare` is the second half of
`prepare_activation`, `ReadFirst`, `ReadSub`, `ReadInvoices` and `ReadPayment` are one call
to Stripe each, `Commit` is the transaction with the activation of the account, `SendClaim`
the e-mail and the answer to Stripe. `Fail` is any exception, `Crash` the death of the
process. Which rows a commit writes follows `_payment` and `_subscription`: the
payment that was read for the event itself is written last although it was read first.

`Mirror` is the promise: a set of rows that jumps forward, in one transaction, to copies
that are never older than what they replace and never ahead of the remote. The refinement
mapping takes an object's version at Stripe and in the database.

* *MirrorSpec*: the refinement. It fails at once without the per-customer lock.
* *AckedIsMirrored*: once Stripe was told that an event is handled, the rows are at least
  as new as the event. *NoLostActivation*: a buyer whose events were all answered, some of
  them ignored, has an account.
* *AccessIsSound*: what the access view of migration 005 computes from the rows is what
  Stripe would say (`AccessFollowsStripe`), a refund ends it (`RefundEndsAccess`), and who
  has it has an account (`PaidAccessIsActivated`).
* Liveness, in `MCPurchaseEmail`. *WebhooksFinish*: every event is answered, and the buyer is
  told although the handler that created the account died. *RepairCatchesUp*: the repair
  command alone, with every delivery lost, brings the rows up to date.

Bounds: one customer, since customers meet only in the owner of an address; a handler and
the repair command, which take the same lock and the same steps; two invoices, for a renewal
beside a first year; two versions per object, so a row can be behind; one fault; and seven
changes in all, of which a purchase takes four, so a renewal or a refund follows it. For liveness, one
invoice: `webhooks` has a handler and a repair command, one version and four changes;
`repair` a repair command alone, three versions, eight changes and two faults. A renewal
opens only when the deliveries of the year before are answered. These systems rest when
Stripe has nothing left to say, so deadlock is not checked.

Fairness: a handler that waits for a lock gets it (PostgreSQL queues the waiters), a call
under way ends, Stripe redelivers what was not answered, and the repair command is run
again and again. Faults are bounded; nothing is assumed of how fast events arrive.

### Checkout

`BillingService.checkout` is two transactions under the row lock of the subscriber. The
first finds the account's attempt or inserts one; the second has Stripe create the
attempt's session. Its idempotency key is the attempt's id, so attempt and session share a
number in the model. `Ask` is the request before any lock; `Begin`, then one of `Reuse`,
`Keep`, `Replace` with `Expire`, `GiveUp` or `Refuse`, then `List` and `Insert` are the
first transaction with its branches; `SecondCreate`/`SecondOpen`/`SecondRefuse`, `Create`
and `Record` the second. `Fail` is an exception or the death of the process, after which
Stripe may still execute a creation (`Arrive`). `Pay`, `End` and `Tick` are the buyer,
Stripe and time; `Webhook` is what the reconciler does to an attempt; `Cutoff` is the day on
which the early offers end.

* *OneSubscription*: a buyer is never able to pay twice. It rests on `OneAttempt` (the unique
  index of migration 005 never stops an INSERT) and `OneOpenSession`, which are proved.
* `ExpiredIsUnpayable` (proved): no creation that arrives late opens a session whose attempt was given
  up. It rests on Stripe refusing sessions shorter than 30 minutes, which is why the code
  gives up an attempt that has no session only then.
* *PaidIsOnRecord*: the webhook of a paid session finds the attempt.
* *AttemptsEnd* (liveness): no attempt whose offer stays on sale is in the way for ever.
* *OutdatedIsReplaced* is **violated** (`MCCheckoutCutoff.cfg`): an attempt whose session was
  never heard of is closed only for the price and discount it was made for
  (`billing.py:117`). When these are on sale no more, the account is refused every checkout.
* *PaidAttemptEnds* is **violated** (`MCCheckoutOutage.cfg`): `billing.py:105` marks a paid
  attempt complete and raises in the same transaction, which undoes it. Only the webhook
  can close the attempt; if it is lost, the account cannot buy again when its subscription
  has ended.

Bounds: two tabs, two attempts, two offers of which one ends, one fault, an attempt that
lives two ticks of which Stripe demands more than one: enough for an attempt to be given up
while its creation is on its way, or to outlive it. Fairness: requests end, time passes, the
buyer keeps asking for each offer in some tab; in `FairSpec` webhooks are delivered, in
`OutageSpec` they may be lost, as after Stripe's three days of retries. Not modelled: the
creation of the Stripe customer, the portal and the billing summary.

### DirectCheckout

`CheckoutService.start`, as several tabs with one cookie call it. The first transaction holds
the advisory lock of the cookie's secret (`gate`) and finds a reservation or inserts one:
`Find`, then `Keep` or `Insert`. The second holds the row lock (`rowlock`) while it talks to
Stripe: `Second`, then `Look` (an existing session), `NotFound`, or `Create` and `Record`.
`Webhook` is `prepare_activation` (with `owner` before it), `Repair` the first loop of the
repair command, `Activate` the transaction that completes the reservation; what they do to
the account and the mirror is in `BillingReconciler`, and `resend` is a request of
`PurchaseEmail`. `Fail` loses a transaction, after which a creation may still arrive.
Unlike an account, a browser may buy again, so the properties are about one offer.

* *DirectPurchasesHold* (`MCCheckout`) puts three together, each of them proved.
  `NoPaymentForgotten`: no payment's event is answered, or ignored for good, before its
  purchase has its account. It rests on the URL being handed out only after the commit that
  records the session. `OnePayablePerOffer`: never two sessions to pay for one offer, though
  a reservation is given up by the clock alone; it rests on Stripe's session ending when its
  reservation does. `NeverReopened`: a purchase that has its account keeps it.
* *PaidIsActivated* is **violated** (`MCDirectOutage.cfg`): when the 31 minutes are over,
  `start` marks the reservation expired without asking about its session (`checkout.py:70`),
  and the repair command reads only those pending or open (`cli.py:22`). A purchase whose
  webhooks were lost, and whose browser asked for the same offer again, is paid for and
  never activated.

Bounds: two tabs, two reservations, two offers, one mishap, two ticks to live of which Stripe
demands more than one; for the violation one tab and one offer, and no mishap. Fairness
(`OutageSpec`): requests end, and the repair command is run again and again (DATABASE.md
has it run after an outage); webhooks need not arrive. Not an action: `status`, which reads.

### PurchaseEmail

One purchase and its delivery row. `Start` enqueues the row, `Claim` takes the lease and
issues the setup link in one transaction, `Smtp`/`SmtpFails` talk to the mail server
without one, `Requeue` and `MarkSent` finish if the lease is still the sender's, `Resend`
is the buyer's request for another e-mail, `Establish` the redemption of a link. Time is
counted down in ticks. The number of an attempt serves as its lease and as its link.

* `NoConcurrentDelivery` (proved): what the comment in migration 009 promises of the lease. It needs
  the mail server to be faster than a lease is long; that is an assumption of the module
  (`SendTime < LeaseTime`). The code's limit of ten seconds is per socket operation, not
  per e-mail, so a mail server that is slow at every one could break it.
* *DuplicatesHaveACause*: no second e-mail but after a request, or because an attempt
  failed, died or outlived its lease. *LinksKeepWorking*: a link that arrived works until it
  expires or the account is set up.
  `SentMeansArrived` (proved): a row marked sent was delivered.
* *EmailArrives* (liveness): the first e-mail and any the buyer asks for, if faults end, time
  passes, and `send_claim` is called again by a webhook or the repair command.

Bounds: two senders, leases of two ticks, sends of one, links of three, two requests and
two faults: enough for a lease to run out, be taken over, and its first owner to return.

### Accounts

One row of `cedar_press_subscribers` and the requests of its owner's devices. Each statement
that commits by itself is an action: `Login` (`authenticate`), `Upgrade` and `Refind`
(`upgrade_hash`), `Link`, `Issue` (the rest of `_lookup`); `Logout` and `Revoke`; `Open`,
`Verify` and then `ChangePassword` or `InsertMove` for the settings; `AskReset` and
`InsertReset`. The transactions take PostgreSQL's row locks one by one: `Redeem` and
`RedeemWrite` (`redeem_reset`), `SetUp` and `SetUpWrite` (`AccountSetupService.confirm`),
`ConfirmMove`, `WriteMove`, `DeleteReset`, `CallStripe` and `CommitMove`
(`redeem_email_change`). Requests that set a password end in `SignIn`. `Fail` is an error, a
dead process, or PostgreSQL ending a deadlock; the answer of Stripe may be the part that is
lost. `Save` is the trigger of migration 010.

* *SessionKnowsPassword*: a device whose cookie is accepted typed the account's password.
* *SignedOutForGood*: a refused cookie stays refused, whatever the clock, the password and
  the address do, and sign-out has every cookie refused.
* `SetUpOnce` (proved): of several links that set an account up, only the first sets its password.
* *StripeAheadWithLink*: Stripe and the account have different addresses only while an
  unused link can settle it.

Three things the model shows of the code, beside the properties:

* *SessionKnowsPassword* excepts a sign-in that upgraded an old hash. `upgrade_hash` reads
  the account again after its UPDATE (`subscribers.py:271`), and that is the hash the last
  comparison of `_lookup` uses: when the password changes in between, the device that typed
  the old one is signed in, which the comment at `sessions.py:108` rules out.
* `change_password` writes by address alone (`subscribers.py:300`): a reset that commits
  after the current password was verified is overwritten.
* `redeem_reset` locks the reset row before the account, setup and a change of address after
  it. PostgreSQL ends one of the two requests; the properties hold over that.

Bounds: two devices, two passwords, two addresses and five requests, enough for a move away
and back, or for a change between any two steps of a sign-in. A link that expired is one
nobody opens. Deadlock is not checked, since the system rests when the requests are used up.
Not modelled: several accounts that want one address, cookies that expire, display names,
rate limits, the sending of the e-mails, and the environment accounts of a preview.

### The client and the release scripts: MCClient

Sixteen parts (two million states, one property each). A page's
handlers, effects and taken-in answers are one action each; a call stays on the wire until an
answer, a refusal or silence is taken in, in any order. What an answer says is the service's;
what the page does with it, and whether it looks at whose it is, is the code's.

| part, module | property | what it says |
|---|---|---|
| viewer: `Explore` over `ExploreRows` | *ViewerRows* | a withheld name is neither found nor exported; the count beside a choice is what the choice finds; what a filter left out is what lifting it gives back; every row has a reason that is true of it |
| | *ViewerLinks* | a copied link, a saved view and a download's query give the rows on screen; a record's address opens its row |
| door: `DoorCedar` | *DoorThread* | an answer stands under its question, worded from the memory it was asked in; "Tell me more" deepens, quick replies are new, the second miss hands off |
| reader: `ReaderCedar` | *ReaderThread* | the answer being composed and the quick replies are about the collection the panel names; nothing is answered cold twice or offered again |
| files: `ReleaseFiles`; guides: `Guides` | *ReleaseFilesAgree* | what is deployed is of one release, a commit names the samples it lacks, no release leaves the ledger; a guide that passes its check is of the file a reader downloads and of the release imported |
| profile: `Profile` | *ProfileIsOfItsEntity* | evidence is of the entity on screen, the table it leads to holds what it listed, it denies only what it read, no withheld name is printed |
| record: `RecordPage` | *RecordIsWhole* | every column is in one place and one only; the heading and the line under it agree on why no record is shown |
| table: `TableReading` | *TableOpens* | a table opens on columns its file has, each once, whatever contract was committed and whatever is declared over it |
| priorities: `PrioritySession` | *PrioritiesAreCurrent* | the balance never goes back to an older one and, once all is answered, is the ledger's; a request goes beside the priority its text is about, or beside none |
| account: `SignIn` | *AccountPages* | the form is of the link in the address, one checkout at a time, a confirmed payment stays confirmed |
| news: `Releases` | *NewsIsTheReaders* | no reader sees another account's feed, every row is dated, archives point at their files, a followed link finds its release |
| settings: `SettingsCards` | *AnswerOnScreen* | a card at rest shows what the service holds, an answer no longer offered included |
| showcase: `DoorPage` | *ShowcaseHolds* | the band gives back the frame it borrowed, a chosen example holds, a photograph does not change under the visitor |
| mark: `Explain` | *MarkObeys* | a tap decides whether the panel is open, whatever else the browser makes of it; the sheet stays clear of its mark |
| panels: `PanelFocus` | *PanelsReturn* | closing a panel, menu or picker from the keyboard never strands the reader; Cedar greets once a visit |
| shelves: `Shelves` | *ShelvesAreKept* | the browser opens what the service serves, an upgrade opens what it is offered for, a full file is offered to whom it is served |

How state corresponds: `Explore` keeps the query string (`address`), the register and previews
as loaded, saved views and the note left for the way back; `CedarThread` numbers the asks, with
`flights` the asynchronous functions that are suspended and `aborted` the controllers fired;
`PrioritySession`, `Releases`, `Profile`, `SignIn` and `SettingsCards` keep the hook's state,
whose it is, and the calls under way; `Explain` and `PanelFocus` keep the component's state,
the place of pointer and focus, and the events the browser still owes for a gesture;
`DoorPage` keeps the frame, the band, its timers, and the effects whose dependencies changed.

Bounds, and the case each must let happen:

* viewer: two collections open, one locked, one without preview; rows with lists, blanks, a
  withheld entity in each place, repeated ids; two edits of the cut, pages of two rows, so an
  edit follows a page turn. Every edit starts from each of five addresses, among them a
  malformed one.
* door and reader: three asks, so that an ask interrupts one that is composing and the
  second miss follows the first; questions that reach every branch of the matcher; two scopes.
* files: two versions, two editions, five acts: a script stopped between two files, a commit,
  and a deployment after it. guides: five acts, on a collection imported with other rows, another
  order of columns or an undefined one, and on one that is authored, installed or not sold; so a
  guide can be older than its download, and the download older than the release.
* profile: four entities and two acts beside its answers; record: every choice of missing
  cells, links to nothing, to a collection without a preview and to a table, a plan that changes
  while the page is open; table: three edits of a published table, with the contract of the one before.
* priorities: two readers, three moves, one lost answer; account: seven addresses to arrive
  at, two acts, two polls, one fault; news: two readers, two acts, searches by name,
  by version and for neither, all answers in any order;
  settings: five acts and a fault.
* showcase: rotation after two units of four seconds, resumption after three, as in the code;
  three acts. mark: five events, more than any single gesture makes. panels: five acts, so that one
  panel closes over another. shelves: four
  changes of plan, session and list.

Pages rest when a visitor has used up these acts, so deadlock is not checked.

### What the client owes in the end: MCProgress

* *NothingStaysHidden* (`FadeIn`): no section that fades in is forgotten by both observers,
  and one on screen is revealed. Fairness: the browser delivers what its MutationObserver and
  IntersectionObserver have to report, and the watchdog's sweep runs.
* *FeedSettles* (`Releases`): the page does not go on loading. Fairness: a call is answered,
  refused or given up by the client's own deadline.
* *RetryShowsTheRecords* (`DoorPane`): however reads failed, who presses Retry is shown the
  records, different ones first, none that the collection's rules leave out. Fairness: the
  visitor presses Retry and comes back online; a read asked again and again succeeds (strong
  fairness, beside at most two faults).
* *FragmentIsReached* (`DataPage`): a link to the page's own fragment is answered even where
  the viewer never shows anything, and never moves a reader who is already among the records.
  Fairness: the two-second timer fires.

Bounds: six acts over two screenfuls for the fade-in; two readers and two acts for the feed;
three moves, two faults, four rows (two on a phone) for the pane; two acts on the data page.

One run shows that the code does otherwise than it says:

* *FrameEndsWithTheWindow* is **violated** (`MCDataFrame.cfg`): the frame is measured at mount,
  on resize and after 400 ms; a viewer that arrives later is measured by nobody
  (`CedarPressData.jsx:59`).

`Explain` shows another thing: Escape shuts the panel and focuses the mark, whose focus handler
opens it again in the same batch, when a mouse had opened it (`Explain.jsx:82`). *MarkObeys*
therefore speaks of Escape only where the mark has the focus.

Four more things that the models keep of the client:

* `CedarPressRecord.jsx` decides its heading and the line under it apart (388-408). Under a locked
  collection, a link to none or a table without a preview the heading says that the record is not
  in this preview, though nothing was read; the line says why. Under a sample of no rows the
  heading says "Opening the record..." for good while the line says that the record may not be in
  the sample. *HeadingFits* states how the two go together, this case included.
* A table's entry in `explore.overrides.json` is spread over the derived contract
  (`derive-explore.mjs:538`), and `validateContract` looks at the opening columns, the source, the
  builder's columns and the roles only. A record id that is declared is taken as it is, repeated or
  missing, so nothing is claimed of ids here; `Explore` has repeated ids among its rows, and
  *ViewerLinks* is about the addresses made of them.
* The request form reads its text against the priorities on the page, of which there are none while
  the list loads or after it failed (`CedarPressPriorities.jsx:134`). Submit is not disabled: such
  a request is sent beside no priority, which `RequestsReadAsTheirText` allows.
* A scope of a link's query that has a parameter where its definition has none, or lacks the one it
  needs, is dropped (`explore.js:413`); so the match by the base code
  (`explore.js:951`) adds nothing to a well-formed one.

Every part names in a comment what of its source it leaves out: wording, layout and drawing
throughout; telemetry; the formats of exported files.

## Proofs

TLC explores the instances above; the theorems hold for every value of the constants that
the modules' ASSUMEs allow. `ReleaseFiles` and `DirectCheckout`, which TLC reaches by INSTANCE,
state theirs as a definition: it is a hypothesis of their theorems, and the MC modules assume it.

* `PointsProofs`: every property of the module but the one the code violates. A commit relies
  on sums read earlier, so the inductive invariant says that an open transaction holds its
  account's lock (`LockInv`), that what it read is still true (`SnapshotInv`), and that what an
  account earned grows with the months (`EarnedGrows`). For *LedgerIsExplained* the points an
  account holds are numbered, a set with as many members as the ledger says were spent
  (`HeldInv`), and what was written off is old by now (`OldInv`).
* `ReconcilerProofs`: the refinement of `Mirror`, and the three safety properties. `IInv` says
  that a worker between its first read and its commit holds the customer's lock and that
  everything it read lies between the database's row and Stripe's object (`SnapInv`). From that
  every commit is a `Sync` step or stutters, and every other step a `Change` or a stutter.
  `PromiseInv` adds what the data says (`DataInv`: which objects Stripe has beside which, that
  the rows are copies of what was sent, that a paid session is linked, that a buyer without an
  account is still to be heard of) and, for each worker, how far it is and what it has read by
  then (`WorkerInv`: its own object, the invoice before its payments, and copies as new as every
  event that counts as handled). Assumed of the constants: one signed-in account per address,
  and that `None` and "no_account" name nobody.
* `CheckoutProofs`: all five safety properties. `IInv` says that a transaction under way
  holds the row (`LockInv`), how each status of an attempt limits its session (`RowInv`: one
  without a session that may no longer be created and was given up stays shut), that what a
  request looked at is still so (`TabInv`), and who can hold the one subscription (`SubInv`).
* `DirectCheckoutProofs`: all three safety properties. `IInv` says that a request past its
  first lock holds the row or the gate it took (`LockInv`), that what it read is still so
  (`TabInv`), how each status of a reservation limits its session and who can pay it
  (`RowInv`), and that an offer has one active reservation (`OneActive`).
* `PurchaseEmailProofs`: the lease. A sender that talks to the mail server holds the
  current lease with more time than it may still take (`SmtpHoldsLease`); a sender about to
  mark the row has delivered (`MarkDelivered`); an e-mail that is due has a cause left
  (`MailsBounded`). *LinksKeepWorking* follows step by step: only a resend or the link's own
  end takes a link away.
* `AccountsProofs`: all five properties. Beside the types, `IInv` says that locks are held to
  the commit (`LockInv`), that a hash named by a cookie or a sign-in is no newer than the
  row's and goes with the password that was typed (`HashInv`), that nobody but the one who
  sets an account up can give it a password meanwhile (`SetUpInv`), and that a link waits for
  its move to commit (`MoveInv`).

* Both modules about the client first prove a part from its own specification and then that
  `ClientSpec`, in which a behaviour chooses one part and the others' variables rest, keeps the
  promise a run checks: `ClientKeepsMarks`, `ClientKeepsShelves`, `ClientKeepsAnswers`,
  `ClientKeepsFocus`, `ClientKeepsBalances`, `ClientKeepsPages`, `ClientKeepsShowcase`,
  `ClientKeepsThread`, `ClientKeepsDoor`, `ClientKeepsRecord` and `ClientKeepsTable`. The step from one
  to the other is always the same: a behaviour that starts in a part stays there (`PartStays`), and
  there it is a behaviour of that part's module (`MarkRun`, `ShelvesRun` and so on).
* `CedarProofs`: `DoorCedar` and `ReaderCedar` refine `CedarThread`, the hook they share. Of the
  hook: an ask that is suspended has the memory it was asked with and is the one composed for
  unless it was aborted (`FlightsInv`), so an answer stands under its question. Beside the
  collections (`ReaderInv`): a reply that is still to be placed fits the scope, the quick
  replies are of the scope and not answered, and the memory counts every answer on the thread.
  On the public page (`DoorInv`): the memory counts misses since the last answer, and a reply
  that is pending tells what the memory says. `BankInv` is about what the bank answers: a reply
  that is pending is of a topic of the bank (`Says`), the memory has counted every answer of
  the thread and every deeper text it showed (`ThreadIsCounted`), and each quick reply stands
  under the answer it was computed for (`OffersStand`). It takes of the bank what doorCedar.js
  keeps (`BankAssumption`): starters, hand-overs and hits of an index name intents of the bank,
  no filler has a deeper answer, and "tell me more" is matched by a follow-up phrase that it
  consists of. A follow-up id that no intent has is allowed, as `Push` allows it.

  The record page and a table's opening columns are in the same module, since they filter lists with
  the operator its quick replies do: `AmongKeeps` says that a filter keeps what it is for and repeats
  nothing that was not repeated. For the record, the block of details never names a column twice,
  topped up or not (`DetailsOnce`), and the folded groups hold exactly what it leaves out; so a column
  is in one place (`RecordIsRight`), if the declared view and the codebook name it once and every
  column has a group (`RecordAssumption`). For a table, the columns it opens on are filtered from
  lists without repeats (`OpensRight`), by the published table and not by the contract, so a contract
  that is out of date, or overridden by hand in any of its fields, does no harm: all `TableInv` says
  of one is that its columns are a list. What the page says of a missing record follows from what it
  wants and what was read (`RecordSays`).
* `ClientProofs`: eleven parts of the client and the scripts, each from its own specification.
  - `ReleaseFiles`: `LedgerIsKept`, under the module's assumptions: what a script is about to
    write holds all that the file holds (`Pending`). `CommitIsHonest`, if the word for a
    published sample is none of the words for a missing one (`NoneIsNoReason`). `SiteIsWhole`.
  - `FadeIn`: `NobodyIsForgotten`, for any number of sections on any screens. The invariant
    adds that the script has the root that is in the document.
  - `Explain`: `TheMarkObeys`. `MarkInv` says what the browser still owes for a gesture after
    each of its events, and that it can only confirm what the tap decided.
  - `Shelves`: `ShelvesAgree`. Both sides compute one relation from the same shelves
    (`BothSidesAgree`); `ShelvesInv` says that the list on screen was answered for the payload.
  - `PrioritySession`: `PrioritiesAreTheirs` and `BalancesOnlyAdvance`. What is on screen, what
    a read that is still current will bring, and what a change that is still current will bring
    are each the ledger of the reader on the page at some moment no older than what was shown
    (`SessionInv`, `ReadsInv`, `ChangesInv`); `ToldInv` says that somebody current was told of
    each change; `FormInv` is about the request form.
  - `Releases`: `NewsIsTheirOwn`. A feed on screen is its owner's, and a call carries the
    account its session had when it was sent (`NewsInv`).
  - `SettingsCards`: `AnswersStayOnScreen`. `CardsInv` says what each call under way will bring,
    and that a card at rest saved what the service holds; the lemmas on `WorkOptions`, that the
    answer saved is always one of the options shown.
  - `PanelFocus`: `NobodyIsStranded`. The focus may be on the page's body only while the frame
    that gives it back is still to come, which no other frame undoes (`PanelsInv`); a note that
    was answered is over (`GreetInv`).
  - `SignIn`: `PagesHoldTheirOwn`. The calls under way are a bag. `TabInv` says which call a page
    can have made (`CallIsHere`), what its answer can be by now (`CallFits`), and that a page has
    one poll or timer, and one checkout, at a time (`OneAtATime`, `LeftFor`).
  - `DoorPage`: `ShowcaseKeepsStill`, assuming that at least one example is shown. A frame that
    is the chips' shows what the address names, or a chip is still under the mouse or the
    focus (`FrameInv`). What each timer still owes and how long the visitor has done nothing add
    up to the whole wait (`TimersFit`), and the band knows what is over it (`BandInv`).
  - `DataPage`: `OneScrollOnly`. The two-second timer only runs for a fragment that was not
    reached (`FragmentInv`).

Where a proof needs that something is reached, it is by a least counterexample (`Smallest` in
`CedarProofs` and `ClientProofs`: every set of numbers that is not empty has a least element, from the theorems
about finite sets); the library's induction rules take a predicate, which the provers cannot
be given.

Only model-checked: everything about liveness; of *NewsIsTheReaders* the dates, the archive and the permalink; the guides
of *ReleaseFilesAgree*; `DoorPane` of the public page; and *ViewerRows*, *ViewerLinks* and *ProfileIsOfItsEntity*, whose rows
are filtered, sorted and counted with `SelectSeq`, `SortSeq` and folds, which the provers cannot unfold.

## Not modelled

* The rate limiter: a sliding window per key, in one process and under its lock. The pool and
  the migrations: instances that boot together wait for one advisory lock.
* Billing portal and summary, pricing, access dates, field verification: no state of their own.
* Sheets, the server's catalogue and the files' contents: formatting. The Cedar relay: one
  call with a deadline. The SQLite store: a process-wide lock serialises it.
* The anonymous checkout's `status`, which only reads.
* Static pages, site tooling, telemetry.
* The scroll position noted for one list of results (`PressExplore.jsx:896`) is in `Explore`,
  but no property is about it: the code may restore it on another list.

## Plan

1. Proofs of what is left of the client: `ExploreRows` over `Filtering`, for *ViewerRows* and *ProfileIsOfItsEntity*.
2. Two tabs of one account in `SignIn`, whose sessions meet only at the service today.
