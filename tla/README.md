# restorent-os: a TLA+ model of the restaurant's working day

The repository is a restaurant system: tables and their sessions, orders taken
at the POS, by a captain or by guests on their phones, kitchen tickets (KOTs),
payments, stock, and a server that does what browsers are not trusted with.
Everything lives in Firestore documents under `restaurants/R`. This directory
models the parts in which several actors write the same documents at once, or in
which one request is carried out more than once:

* the dine-in bill, from seating a party to freeing its table, in the steps of
  the handlers that interleave, and in money, with its lines, discounts and taxes;
* the guest's order: the checkout on the phone, its way to the server over a bad
  network, the counter that accepts, cooks and hands it over, and the page on
  which the guest follows it;
* the queue a browser keeps while it is offline;
* the restaurant's own subscription, which browsers, webhooks and verifications
  write side by side.

Paths below are relative to `src/` (the repository); the services are in
`src/services`, so `kotService.ts` is `src/src/services/kotService.ts`.

## 1. The system

### Who runs what

There are two places where code runs, and they share nothing but documents.

* **Browsers** (one per member of staff, and those of the guests) run the
  services with the client SDK. Each write must pass `firestore.rules`.
  Recording, completing and refunding payments, ticket status and cancellation,
  the status synchronisation, opening, resizing and closing sessions, cancelling
  and reopening orders, marking an online order ready run here. Code between two
  awaits runs undisturbed; between them anything else may happen, in the same
  browser too.
* **The server** (`server.ts`) runs submissions, acceptance of online orders and
  partial cancellations with the Admin SDK, which bypasses the rules, and
  completion, finalization, further tickets and the session closing as a
  signed-in client whose claim the rules know (`isServer`). The browser's
  services delegate these requests by `fetch`.

Only a single document write and a Firestore transaction are atomic. A handler
that awaits a read, checks, and writes is therefore several steps, with anything
of anybody else in between. Transactions are retried after conflicts on the
documents they read; what was read *before* the transaction is not read again.

### Components

| component | state it keeps | operations | what makes it correct | here |
|---|---|---|---|---|
| Lifecycles (`utils/transactionValidation.ts`, `firestore.rules`) | none: tables of allowed moves | validate a move, aggregate tickets into an order status | services, rules and aggregation agree; terminal is terminal | `OrderStates` |
| Tables and sessions (`tableService.ts`, `tableSessionService.ts`) | `tables` (lock `activeSessionId`, `status`), `tableSessions`, `idempotency` | create, update, delete table; open, resize, close session | one party per table; lock neither leaked nor lost; a repeated request opens once; closed is final | `TableSessions`, `DineIn` |
| Payments (`paymentService.ts`, `domain/settlement.ts`) | `payments`, amounts in `orders`, `idempotency` | record, complete/fail, refund | amount paid = sum of completed payments; never overpaid; a key pays once | `Settlement`, `DineIn` |
| Orders (`orderService.ts`, `server/onlineOrderService.ts`) | `orders` | POS submission, completion, cancellation, reopening, online flow | one bill per session; terminal orders stay; completed means paid and cooked | `DineIn`, `Bills`, `OnlineOrders` |
| Kitchen tickets (`kotService.ts`) | `kots` | create from an order, advance, cancel, synchronise the order | lifecycle; a finished ticket is never rewritten | `DineIn`, `OnlineOrders` |
| Partial cancellation (`server/partialCancellationService.ts`) | order, ticket, session pointer | cancel n items of a ticket | bill and tickets list the same items; nothing becomes dearer | `DineIn`, `Bills` |
| Finalization (`orderFinalizationService.ts`) | none of its own | complete a settled order, close a settled session | it happens, and only when it may | `DineIn` |
| Pricing (`orderCalculationService.ts`, `taxService.ts`, `discountService.ts`, `utils/money.ts`) | none: pure functions | round, tax, discount, allocate, total | no unit lost or invented, a bill is the sum of its lines | `Pricing`, `Bills` |
| Customer orders online (`server/onlineOrderService.ts`, the checkout and tracking pages) | `orders`, `idempotency`, the phone's cart and tracking references | submit, announce, accept, reject, ready, hand over, track | one order per press, one ticket per order; handover after payment; the guest sees progress and learns the end | `OnlineCheckout`, `OnlineOrders` |
| Idempotency (`idempotencyService.ts`) | `idempotency` | acquire with a lease, complete, fail | a request acts once | `OnceOnly`; in `OfflineQueue`, `OnlineCheckout`, `TableSessions`, `Settlement`, `DineIn` |
| Offline queue (`offlineSyncService.ts`) | memory and `localStorage` of a tab | enqueue, process, retry, resolve, clear | nothing lost, nothing twice, what is reported done was done, everything settles | `OfflineQueue` |
| Subscription and Razorpay (`server/razorpayService.ts`, `subscriptionService.ts`) | subscription, history, webhook claims | set up a trial; claim and complete a webhook; verify; activate, renew, expire | only a payment activates; a webhook has one worker; a payment is not lost; the trial is given once | `Subscription` |
| Security rules (`firestore.rules`) | none | allow or deny a write | the guards of the writes above | guards in all modules |
| HTTP server (`server.ts`) | none of its own | authenticate, check the role, call a service | | the routes of what is modelled |
| Stock consumption, inventory, recipes, purchasing | `inventory`, `stockLedger`, `recipes`, `purchaseOrders` | consume, reverse, adjust, receive | stock of an order returns at most once; ledger = stock | not modelled, section 5 |
| Staff, invitations and access | `staff`, `invitations`, `members` | invite, accept, revoke | an invitation is used once | not modelled, section 5; roles are guards |
| Printing, menu, restaurants, customers, storage, audit, analytics, devices, voice, UI, Android shell | own documents or device I/O | single writes and reads | no protocol between actors | not modelled, section 5 |

How they interact: a submission writes order, ticket, session pointer and key
record in one transaction; a ticket that changes starts the synchronisation of
its order's status and, when it finished, the finalization, both in the
background; the payment that settles a bill starts the finalization; the
finalization reads payments, tickets and all orders of the session and may start
`closeSession`; cancelling an order writes its tickets one by one, then the
order, then asks for the finalization; the offline queue calls the same services
later. Shared state is the order document above all: nine handlers of `DineIn` write its
status, five its amounts.

What is hard here is listed line by line under `hazards` in `PROJECT.json`:
values read before a transaction and written inside it, two background handlers
that write one field, checks that an error skips, requests that are repeated
after a lost answer, browsers that are closed between two writes, answers that
overtake each other, roundings that each lose or gain a unit, and events that
must lead to completion whichever of them comes last.

## 2. Modules

| module | lines of code it stands for | content |
|---|---|---|
| `OrderStates` | `transactionValidation.ts`, `kotQueueHelpers.ts`, rules 87-96 | states, `OrderMove`, `KotMove`, `RulesMove`, `AggregateStatus` |
| `TableLock` | (abstract) | a table as a lock: a party that never held one takes a free lock and releases it |
| `TableSessions` | `tableService.ts`, `tableSessionService.ts` | documents, one action per transaction, keys and their failure records |
| `Settlement` | `paymentService.ts` and the amounts written by orders, finalization and partial cancellation | the money; also the abstract specification of `DineIn` and `Bills` |
| `DineIn` | the handlers of tickets, submissions, partial cancellation, completion, reopening, finalization, cancellation and closing | extends `Settlement` and `TableSessions`; handlers in flight |
| `Pricing` | rounding, tax, discount, its allocation, lines and totals of those services | operators |
| `Bills` | pricing of a submission, merging it into a bill, partial cancellation of a line | extends `Settlement` and `Pricing`; the lines of a bill |
| `OnceOnly` | (abstract) | what a request with a key promises: decided once, told as decided |
| `OnlineCheckout` | `CustomerCheckoutModal`, `submitServerOnlineOrder`, `subscribeToNewOnlineOrders` | phone, network, server and the counter's bell |
| `OnlineOrders` | `OnlineOrdersQueue`, acceptance, handover, the kitchen's writes of its tickets (`updateKOTStatus`, `cancelKOT`, partial cancellation), `customerOrderTrackingService` | one online order, two desks, kitchen, guest |
| `OfflineQueue` | `offlineSyncService.ts`, `idempotencyService.ts`, the pages that queue | tabs, storage, the loop, the records of its keys |
| `Subscription` | `razorpayService.ts`, the endpoints of `server.ts` that call it, `ensureRestaurantTrial` | trial, webhooks with their claims and leases, activation; Razorpay as an environment |
| `*Proofs` | | inductive invariants and theorems |
| `MC*` | | instances for TLC |

`MCRecords` and `MCRequests` put two components side by side: the variable
`scene` says which of them a behaviour is about, the other one stands still. One
run then visits the states of both; `Scenes` restricts it to one. In
`MCOnlineOrders` the scene says who stays away:

| scene | guest | kitchen's handlers | tickets cancelled | items taken off | second desk |
|---|---|---|---|---|---|
| `served` | yes | two at once | no | no | yes |
| `watched` | yes | one at a time | no | yes | no |
| `kitchen` | no | two at once | yes | yes | no |
| `counter` | no | one at a time | yes | yes | yes |
| `all` | yes | two at once | yes | yes | yes |

A tap that serves a ticket starts two handlers, so with one at a time a ticket is
served by the handover only. `all` is too large to be exhausted; the
counterexamples below are searched in it.

### How state and actions correspond to the code

* A collection is a function from ids to records; the status `"none"` is a
  document that does not exist. Each id is used for one document at most.
* A transaction is one action. Its guard is the conjunction of the checks of the
  code; a check that throws or returns early without writing is a disabled
  action (nothing changes), unless the failure has an effect of its own
  (`OpenRejected` and `RecordOpenFailure`: the catch block of `openSession`
  writes a failure record later).
* In `DineIn` a handler in flight is a record in `call[c]`: `at` is the await it
  stands at, the other fields are what it read. `StartX` is the request with its
  first reads, the following actions one await each, and `Goto` says what comes
  next. Background work started without `await` (`updateKOTStatus`, line 660)
  takes a second slot, so that the two run side by side. `OnlineOrders` is built
  the same way with `desk[d]` for the handler of a desk, whose other buttons are
  disabled meanwhile, `chore[c]` for what the kitchen display has started (the
  background work of a tap, a cancellation and what it awaits), and `adjust[a]` for a
  partial cancellation at work on the server. `slip[k]` is the state of a ticket,
  `dish[k]` the items left on it, `bill.left` those left on the order.
* `Subscription`: `work[c]` is a handler in flight. A webhook is `[kind, pay]`;
  `event[e]` is its record, where `fresh` says whether its ten-minute lease still
  runs, and `unanswered` what Razorpay still delivers. A slot at `"trial"` or
  `"fallback"` is a browser that sets up a trial.
* `OnlineCheckout`: `phone` is the checkout on the screen with the key drawn when
  it was opened, `wire[k]` a request on its way, `web[r]` one the server works on,
  `claim[k]` the record of the key with its 15-minute lease, `placed[o]` the order
  documents, `bell` the counter's listener with the ids it has seen.
* `OfflineQueue`: `tab[t]` is the memory of a tab (the queue, the items, the loop
  and what it runs over), `shelf` the queue in `localStorage`, `sending[t]` the
  call the loop waits for, `tapped[t]` one a page makes itself before it queues,
  `record[i]` the idempotency record, `done[i]` how often the operation took
  effect. Between two awaits the loop runs undisturbed, so a step goes from one
  await to the next. After `clearCompleted` a loop that is running goes on over
  the array it had (`offlineSyncService.ts:714`), and this is modelled.
* `Bills`: `menu` has the price of each item, `lines[o]` the items array of an
  order, `sums[o]` the totals stored beside it. An operation is one step: what
  its reads may miss is the subject of `DineIn`.
* `MayWriteOrder`, `MayWriteKot`, `MayCancelKot`, `MayReadPayments`, and
  `MayMoveOrder`, `MayMoveSlip`, `KitchenMayWrite` of `OnlineOrders` are the rules
  of the documents, evaluated at the write; where the code swallows the denial
  the handler goes on without the write, as `syncParentOrderStatus` and
  `closeSession` do. Roles and what they may ask for are those of
  `utils/permissions.ts`; the owner may do what the manager may.
* A member of `Staff` stands for all with that role.

### Abstractions

* In `DineIn` the unit price is one: the total of a bill is the number of its
  items, and a submission or cancellation of `q` items changes it by `q`. `Bills`
  has prices, taxes and discounts, and both refine `Settlement`.
* In `DineIn` a bill has one line; `cut[o]` is its `cancelledQuantity`, which a
  submission resets, since the merge rebuilds the line without that field. In
  `Bills` there is one line per item, as the POS makes them; items merged into a
  line are charged at the price the line has.
* `Pricing` has whole percentages and one state (central and state tax). The code
  divides in floating point; where two remainders of a discount are equal, noise
  may decide there which line gets the unit, and the size of the line here.
* Whether "Send KOT" finds the bill in the kitchen already depends on the number
  of lines of a ticket, not on its items: certain when a ticket has the whole of an
  uncut bill, open otherwise (`SendKots`).
* Which open order of the session a submission without a pointer extends is left
  open (the code sorts by creation time).
* The captain's two-minute window for cancelling is always open.
* The check of `submitServerPosOrder` for a cached reply before its reads is
  merged with the one of its transaction: it can only return earlier. What a
  submission answers is not part of the state.
* Audit records, notifications and stock movements started by the handlers are
  left out: their failures are caught and nothing modelled reads them.
* `OnlineCheckout` has one phone; orders are taken for well-formed (validation and
  pricing of the cart happen before anything is written). `OnlineOrders` has one
  order with one amount that is due or not, and each of its items costs something.
* `OfflineQueue` leaves out what an operation does: its calls act or fail in one
  of four ways the loop tells apart. A page that pays by card goes the same way.
* `Subscription` has one restaurant, one plan and one period; a webhook names the
  restaurant and a plan on sale; signatures and prices have been checked. What
  Razorpay does with a payment (`Capture`, `Decline`, ...) is external: an
  authorized payment may be captured later and does not lapse. The clock counts
  in coarse units, and the lease is not measured on it but ends by `LeaseEnds`.
  The history leaves out the checkouts, which nothing reads.
* `activeOrderIds` is never written by the code and does not appear.
* `Till(o)` is the set of units of money the completed payments of an order took,
  so that its size is their sum and the proofs need no recursion.
* History variables, not in the code: `writtenOff` (orders whose balance a
  cancellation closed), the field `key` of sessions, payments and tickets, `rung`
  (how often an order was announced, stopping at two), `setBack` (whether a partial
  cancellation of an online order wrote an old status over a newer one), and of the queue `asked`,
  `fate`, `pressed`, `opened`, `cutOff` and `done` (stopping at two).

### Switches

Each narrows what may happen, is named in the configuration, and what happens
without it is shown by a configuration or described in section 3.

* `RepeatRefunds`: whether a refund may be sent again for a refunded payment.
* `LaterDiscounts`: whether a submission to a bill may carry a discount, and an
  extension so lower its total.
* `Quiet`: whether a submission runs alone. Submissions race with everything
  else (`lost_payment`, `MCTwoBills`, `MCKeyTwice`, `MCCompletedDue`); the runs with
  `Quiet` show what holds apart from these races.
* `OnePartial`: whether two partial cancellations may overlap (`MCPartialTwice`).
* `Crashes`: whether a handler may stop between two steps.
* `Kitchens`: with a kitchen, without (an operating mode in which submissions
  print no ticket), or both, as the owner may switch.
* Of `OnlineCheckout`: `SlowServer` (a request may outlast the lease on its key),
  `LostCommits` (a transaction may commit and yet report an error).
* Of `OfflineQueue`: `TabsClose`, and `MaxPresses`, the bound on retries by hand.
* Of `OnlineOrders`: `Duties` (who presses what at which desk), `CollectAt` (at
  which stages a desk takes the money), `LateFirst` (the page's first fetch and
  its polls may overtake each other), `CrashAt` (where the server may stop), `Adjusts`
  (how many partial cancellations may be at work at once), `Cook` (the role of
  whoever uses the kitchen display) and, in `MCOnlineOrders`, `Scenes`, below.
* Of `Subscription`: `Prompt` (no worker outlasts the lease on its webhook),
  `Patient` (Razorpay repeats a webhook only after the lease), `Faults` (single
  reads and writes of the store may fail), `Newborn` (there is no subscription
  document yet). `MaxMishaps` bounds failures and crashes together.
* `Ops`, `Staff`: the requests and roles of the instance. Refunds, cancellations
  by `updateOrderStatus`, "Send KOT", reopening, captains and managers are left
  out of a run where a finding or a configuration run by hand shows that they
  break its property, and are in the others. The run `settles` leaves out `"pend"`
  (pending payments and their resolution) for that reason, and `"send"` for its size.

## 3. Runs

Deadlock checking is off everywhere: when all ids are used up and every bill is
closed the system rightly stops. Bounds are in the `.cfg` files: `MaxTotal`
(items or units of money of a bill), `MaxQty` (one submission, or one item of
it), `MaxGuests`, `MaxRetries`, `QueueLimit`, `MaxPresses`, `MaxLog`, `MaxTime`,
`MaxMishaps` and the numbers of ids. Symmetry is declared for ids that appear
nowhere by name, and not in the liveness runs.

Passing:

| run | question | bounds and why they suffice |
|---|---|---|
| `records` | Scene `tables`: is a table a lock held by its one open session, while tables are edited and deleted and requests repeated? Scene `bills`: does a bill add up, line by line and as paid, while items are ordered, discounted, repriced on the menu, partly cancelled and paid? | two tables, three sessions (a table is taken, freed and taken again while the other is held), one key used with two payloads; two items at two prices, one with its tax inside the price, two quantities, a percentage and a fixed discount, total at most seven, so that shares, taxes and the kept part of a discount all round; one payment. Both ledgers are proved for any number of payments (section 4); what the run adds is the sums over lines |
| `dine_in` | Do bill, tickets and session agree while tickets are cooked, dropped, partly cancelled, and the bill is paid and completed? | two orders (a bill after a bill), two tickets, two payments, two handlers at once |
| `ledger` | Is every step of the interleaved handlers a step of `Settlement` (`BillsKeepLedger`)? Does a key submit once? | one order, two tickets, two payments, with pending payments, refunds, cancellation |
| `closing` | Does a closed table owe nothing, closed by hand or by the finalization, while everything else goes on? Is a finished ticket ever written again, also with overlapping partial cancellations (`OnePartial` off) and handlers that stop half-way (`Crashes`)? | two orders, so that a second bill of the session can be opened |
| `tickets` | Do tickets follow the kitchen's lifecycle, though cancellation and closing write them from an earlier reading, on bills with and without a kitchen, sent again and reopened? | two tickets of one bill (the second by "Send KOT"), two handlers |
| `settles` | Is a bill that is paid and cooked completed, and its table freed, without anybody closing it? | one bill, two tickets, two payments, up to two items a ticket: last ticket and last payment in either order, at the same time, from two devices, tickets dropped and items taken off meanwhile. A bill that lost a whole ticket to a partial cancellation, and a table whose bill was cut to nothing, are excepted (below) |
| `subscription` | Does anything but a payment activate? Has a webhook one worker, and none once it is processed or ignored? | two payments (one may be declined or renew while the other is captured), two handlers, one crash or failure; webhooks that activate, log, renew and are ignored |
| `activates` | Does a captured payment become a subscription though nobody verifies it? Is the trial ever given again? | one payment with all its webhooks (two of them activate it), two handlers, two crashes (one for each of the two); a clock that moves, so that a second trial would end later |
| `requests` | Scene `checkout`: does one opening of the checkout place one order, ring once, and place it though requests and answers are lost and the server stops? Scene `queue`: is anything queued lost, done twice, or reported done when it was not, with lost answers, tabs that crash and presses of Retry and Clear? | one checkout with three requests at work (the first, a repetition, and one whose sender gave up), three order ids to place a second and third order with; two items, one with a key of its service and one leased, two attempts each, a queue of two (so it is full), one press. More keys do not meet: each has its record and its order |
| `queue_settles` | Is everything queued carried out, or left where the staff see it? | a seating and a payment, two attempts, one press by hand |
| `online_orders` | Is an online order given to the kitchen once, and completed only when it is paid and the kitchen is done with it? Does the guest see it move on, and learn its end? | one order (orders share no documents) of two items, two desks with the duties of a counter and a pass, two handlers of the kitchen (a served ticket starts two), one partial cancellation at a time, two tickets; the scenes `served`, `watched`, `kitchen` and `counter`, 470,825 states |

Two handlers at once are enough for every race of two actors; one of the slots
may do several requests one after another while the other stands still.

### Fairness

* `FairDineSpec`: weak fairness of `Work(c)` for each handler, that is, an awaited
  promise settles and the handler goes on. The event loop of the browser or the
  server does that as long as it is not closed, so `Crashes` is off there. There
  is no fairness on requests: nobody has to pay, cook or close. The payment that
  settles a bill and the tap that finishes a ticket start the finalization as
  part of their own step.
* `FairSubSpec`: leases end, Razorpay delivers again what was not answered with
  success (strong fairness of the claim, since both slots may be busy now and
  then), and a handler goes on unless it crashes, at most `MaxMishaps` times.
* `CheckoutFairness`: faults end (`<>[][Working]`: from some point on nothing is
  lost and no server stops, whatever the ones before left behind), requests
  arrive and the server works on them, leases end, the phone's fetch ends, and a
  guest whose order was not confirmed presses the button again. Nothing of this is
  enabled before a checkout is opened, so in `MCRequests` it restricts no
  behaviour of the scene `queue`.
* `OQFairness`: the network comes back, calls answer, the loop goes on, backoffs
  end, and somebody presses Sync again and again (strong fairness, since the loop
  disables the button). The last is needed: `nextRetryAt` is set
  (`offlineSyncService.ts:640`), but no timer runs the queue when it comes.
  Items that were being sent when their tab was closed stay `syncing` for ever
  (line 288: neither the loop nor `retryItem` takes them), and `QueuedSettles`
  excepts them.
* `OnlineFairness`: handlers end, the interval of the tracking page goes on, and of
  its polls infinitely many answers arrive if infinitely many are sent. Nobody has
  to press a button. The scenes restrict what is started, and no step of what has
  been, except that nothing moves the guest's page in those without a guest: there
  it is never opened.

### What the code does not keep

One run expects a violation: it checks one property which the repository states
and the code does not keep; its finding in `PROJECT.json` quotes both lines.

* `lost_payment`: a submission writes back the amount paid it had read.

More configurations are kept to be run by hand, each of which ends in a
counterexample. They show where the same patterns, values read before they are
used and a record that is not final yet, break other promises, and are why the
switches exist.

The dine-in bill (module `MCDineIn`; `MCRefundTwice` and `MCLateDiscount`:
`MCRecords`):

* `MCRefundTwice`: refunding a refunded payment deducts its amount again
  (`paymentService.ts:598`), against "sum(completed payments ...) ===
  paidAmountMinor" (`domain/settlement.ts:27`).
* `MCTwoBills`: two first submissions of a session make two bills
  (`onlineOrderService.ts:1337`), against "One canonical dine-in bill per open
  table session" (line 1132).
* `MCResurrected`: the finalization completes an order cancelled since its read
  (`orderFinalizationService.ts:125`).
* `MCCaptainCloses`: a captain may not read payments, and the closing takes the
  denial for a transient error and skips its other checks
  (`tableSessionService.ts:456`).
* `MCKeyTwice`: a retry during the first attempt submits a second ticket
  (`onlineOrderService.ts:1340`), though the key is to prevent "multiple kitchen
  print runs during network retries" (`PROJECT_DECISIONS.md:27`).
* `MCCompletedDue`: items added during the finalization are completed unpaid.
* `MCStaleTicket`: a partial cancellation writes back an earlier ticket status
  (`partialCancellationService.ts:205`).
* `MCPartialTwice`: of two partial cancellations, one read the ticket before the
  other wrote it, and the ticket keeps an item that is not billed.
* `MCCollectible`: an order cancelled because all its tickets were keeps its
  balance due (`kotService.ts:499`), though "A cancelled order must never remain
  collectible" (`orderService.ts:1510`).
* `MCLateDiscount`: a discount sent with further items is taken off the whole bill,
  which falls below what was paid (`onlineOrderService.ts:1243`), against
  "paidAmountMinor <= grandTotalMinor" (`domain/settlement.ts`, invariant 3).
* `"send"` added to the `Ops` of `MCDineIn.cfg`: a ticket sent again repeats the
  dishes of the first ones, and `TicketsMatchBill` fails. The check that is to
  "Return existing KOT idempotently" (`kotService.ts`, lines 403-408) compares the
  number of lines of one ticket with that of the bill, which differ as soon as the
  bill has two rounds.
* `SettledBillCompletes` without `CutAway`: a partial cancellation of all that is left
  of the last ticket brings the bill down to what was paid, and neither the route
  (`server.ts:613-624`) nor the service (`kotService.ts:834-848`) evaluates it: paid and
  out of the kitchen, the bill stays open for ever.
* `SettledTableCloses` without its last disjunct: a bill cut to nothing is cancelled and
  the session's pointer to it dropped, but the session stays open and its table
  occupied until a further bill is settled or somebody closes it.
* `"pend"` added to the `Ops` of `MCSettles.cfg`: a pending payment that is completed, or
  fails, after everything else is done settles the bill, and `updatePaymentStatus`
  evaluates nothing either: `SettledBillCompletes` fails.
* `"send"` in the `Ops` and a captain in the `Staff` of `MCSettles.cfg`, with `MaxQty = 1`:
  both properties hold when a bill is sent to the kitchen again (635,455 states).
* `Kitchens = {TRUE, FALSE}` there, with a captain alone and without `"tap"` or
  `"partial"` to keep it small: a bill submitted without a kitchen, then sent to it,
  is paid and completed before the write that advances the order
  (`kotService.ts:433`), and its new ticket dropped; that write reopens the order,
  and nobody evaluates it again: `SettledBillCompletes` fails.
* `"reopen"` with a manager in `MCSettles.cfg`: a reopened order (`orderService.ts:2765`)
  is paid, open and never evaluated, behind a closed table.
* Scene `bills` of `MCRecords.cfg` with the property `EarlierDiscountKept`: the
  discount of a bill is not stored in the field from which the next submission
  reads it (`existingSessionOrder.orderDiscount`), and is gone once items are added.
* The same with `OpenBillExtends`: a line whose quantity was cancelled to zero
  stays, and the pricing of the next submission throws for it.

The guest's order (`MCRequests` with the scene `checkout`, and `MCOnlineOrders`):

* `MCSlowServer`, `MCLostCommit`: a request that outlasts the lease of its key, or a
  commit reported as an error (`onlineOrderService.ts:1034` marks the record failed
  all the same), places a second order.
* `MCRejectedCooked`: one desk accepts what another rejects, and it is cooked. With
  `Duties <- TwoAccept` and `OneSlipPerOrder` there, both accept it, and each writes
  a ticket (`onlineOrderService.ts:737`).
* `MCNoTicket`: the server stops between the acceptance and its ticket; the order
  stays in the kitchen without one.
* `MCPrepaid`: an order paid before it was accepted is completed uncooked.
* `MCSetBack`: the kitchen takes an item off an order while it becomes ready. The
  partial cancellation has read the order's status before its transaction
  (`partialCancellationService.ts:64-66`), compares only items and amounts in it, and
  writes the status back (lines 154 and 219), as it does that of the ticket (line
  205): the order is in preparation again, and its guest sees it go back. No manager
  is needed. `GuestSeesProgress` excepts what happens after that (`setBack`).
* `Duties <- ManagerHelps` in `MCSetBack.cfg`, with `Adjusts = {}` and `GuestSeesProgress`:
  a manager marks ready what was completed meanwhile (`orderService.ts:2489`), and the
  guest sees that. So he does with `Cook = "manager"`: the kitchen's late write of the
  order's status passes the rules whatever the order has become.
* `LateFirst = TRUE` in `MCOnlineOrders.cfg`: the page's first fetch overtakes a poll,
  and the guest sees the order go back.
* A paid order whose only ticket is cancelled is completed, and nothing of it was
  served: the finalization takes cancelled tickets for done
  (`orderFinalizationService.ts:24-31`, `115-131`), as `completeOrder` does.
  `CompletedIsFinished` says what the code promises, that no ticket is left to cook
  or serve; "some ticket was served" in its place fails in twelve steps. Nothing
  refunds the payment.
* An unpaid order whose tickets are all cancelled stays open: the status the
  kitchen's synchronisation computes is "cancelled", which the rules do not let the
  kitchen write, and the denial is swallowed.
* `Adjusts = {a1, a2}` with `RejectedIsNotCooked` and `OneDeskEach`: of two partial
  cancellations, one has read the ticket before the other wrote it and puts items
  back on the ticket of an order that has none left; the order is cancelled, and
  its ticket is cooked.
* A guest who closes the checkout after a lost answer and opens it again draws a
  new key and may place a second order; with two checkouts each still places one.

The offline queue (`MCOfflineQueue`, or `MCRequests` with the scene `queue`):

* `MCLeasedTwice`: an operation whose key is acquired in a transaction of its own
  acts twice: the caller of an acquisition that reports `in_flight` goes on as if
  it had acquired (`idempotencyService.ts:269`).
* "strict chronological order" (`offlineSyncService.ts:271`) holds for first
  attempts only (`FirstTriesInOrder`): an item in backoff is skipped (line 293).
* Two tabs overwrite each other's queue; with `Tabs = {t1, t2}` and one seating,
  `KeyedActsOnce` and `CompletedWasDone` still hold, `NothingLost` is about one tab.
* The captain's page queues a field `status` where the loop reads `newStatus`
  (`CaptainPage.tsx:398`), so such an item is refused; a payload edited between two
  attempts ends as a divergence error; items retried by hand may make the queue
  longer than its capacity. None of these breaks a property here.

The subscription (`MCSubscription`):

* `MCActivatedTwice`: a verification and a webhook of one payment both read the
  subscription before either writes it (`razorpayService.ts:712`), and both
  activate and record it, against "avoids duplicate activations" (line 543).
* `MCEventLost`: a webhook repeated before the lease of its crashed worker ends is
  answered with success and never comes again (`razorpayService.ts:465`), though
  the lease is to protect against "a worker crash between claim and completion".
* `MCTrialReset`: an activation that cannot read the subscription restarts its
  trial (line 727), against "never resets the trial window" (line 542).
* `MCTrialReset.cfg` with `Newborn = TRUE`, `Ops = {"trial"}` and no faults: the
  browser's own trial overwrites the one the server gave
  (`subscriptionService.ts:160`), against "If one already exists, leaves it
  completely untouched" (line 48).

## 4. Proofs

All are checked by TLAPS without further assumptions than those named in the
modules, for any sets of ids and any bounds.

**Tables and sessions** (`TableSessionsProofs`). The two documents of a seating,
session and lock, are only related through each other: that at most one session
is open at a table follows because every open session at a table that exists or
existed *holds that table's lock*, and a lock names one session. The inductive
invariant `SessionsInv` consists of the types, `OpenHoldsLock` (an open session is
named by its table's lock, also after the table was deleted), its converse for
tables that exist (`LockIsLive`), and `OpenKeysRecorded` (a session opened with a
key is the one in the key's record). `OneOpenSessionPerTable`,
`LockMatchesSession`, `KeyOpensOnce` and `ClosedIsFinal` follow;
`SessionsImplementLock` maps each step to one of `TableLock` or a stutter, with the
invariant to show that a table free in the documents has no holder.

**Money** (`SettlementProofs`). `LedgerBalanced` is not inductive alone: a payment
that is completed or refunded must change the amount by exactly its own, and the
code cuts off at zero. `IInv` therefore adds that amounts are naturals, that a
payment that exists belongs to an order that exists, `NoneOverpaid` (that is,
`NeverOverpaid` unless `LaterDiscounts`) and `DueIsRemainder`. Lemmas about `Till`
say how the set of units grows and shrinks when one payment's status changes; all
else is arithmetic. These theorems assume `~RepeatRefunds`, as `MCRefundTwice`
shows they must, and `NoOverpayment` also `~LaterDiscounts` (`MCLateDiscount`);
`SettleTypes`, `KeyPaysOnlyOnce` and `PaymentsStayRecords` need neither.
`BillsAreLedgers` carries them over to the handlers of `DineIn`, and
`PricedBillsAreLedger` to the lines of `Bills`, both below.

**Bills and tickets with all their handlers** (`DineInProofs`, about the module in
which everything interleaves). What makes these proofs possible is an invariant
about the handlers in flight, `DineBase`: beside the types of the documents, the
types of the money and `SessionsInv`, it says for each await what the handler
that stands there has read (`CallsTyped`): an order that was placed, since orders
are not deleted, a ticket of such an order, a list of tickets or orders still to
be visited. `TicketsHeld` adds that an id drawn for a ticket is free until the
submission that drew it commits. `StepKinds` splits the steps by what they write
(a reading, an order, a ticket, a session, a payment), and most lemmas are about
one kind.

* `DineTypes`; `TablesUndisturbed`: `DineIn` implements `TableSessions`, so that at
  most one session is open at a table there too (`OneSessionWithBills`).
* `TerminalKotStays` needs nothing else: each write of a ticket compares the status
  it read with the one it finds, or asks for a ticket that is not finished.
  `KotsFollowLifecycle` needs that there are no partial cancellations (`"partial"`
  not in `Ops`), since those write back the status of an earlier reading, and in a
  run with them TLC shows where that leads (`MCStaleTicket`).
* `BillsAreLedgers`: with `Quiet` each step of `DineIn` is a step of `Settlement` or
  changes no money. A submission writes amounts it computed several awaits
  before; `Alone` (nobody else is in flight meanwhile) and `CarriedBills` (the bill
  carried is the order as it is, extended) say why they are still right. Without
  `Quiet` they are not (`lost_payment`). `LedgerWithHandlers` and
  `NoOverpaymentWithHandlers` follow from the theorems on `Settlement`.
* `KeyReachesKitchenOnce`: a key that is on a ticket is completed, or its submission
  is the one about to say so (`KeyInv`). It needs `Quiet` (`MCKeyTwice`) and
  `~Crashes`: a submission that stops before its reply leaves the key pending, and
  the next one with it prints again.
* `BillChargesTickets`: a bill charges what its tickets list, items partly cancelled
  taken off on both sides. `TicketsInv` says that the amount of a bill is the number
  of items of its tickets (`TicketsCounted`), that a ticket not cancelled lists some
  and an unused one none (`KotsCarry`), that the partial cancellation in flight is
  alone and still right about its ticket (`PartialsHeld`), and that every submission
  prints what it adds (`Cooked`). `ItemsChange` counts the items when one ticket
  changes. The assumptions: submissions run alone, as for the ledger; partial
  cancellations run one at a time (`MCPartialTwice`); every bill has a kitchen, since
  others have no tickets; and no bill is sent again (`"send"`, section 3).
* `CompletedOrderIsDone`, `SessionHasOneBill`, `TerminalOrderStays` and
  `ClosedTableOwesNothing` rest on one invariant, `BillsInv`. Its first part speaks of
  documents: an open order is its session's and pointed to, a completed one paid and
  out of the kitchen (`OrdersTrue`), a pointer names an order of its session
  (`PointersTrue`), a closed session has nothing open (`ClosedDone`). The second says
  for every await what the handler that stands there has found out and still
  relies on (`CallTrue`, `SubmitTrue`): the finalization that has seen the payments
  that they cover the bill, the one that has seen the tickets also that none is
  being cooked, the closing which of the orders it read it is done with. That these
  reliances outlive what others do in between is the heart of the proof: a step
  keeps an order, or cuts its bill down and not below what was paid (`Kept`, `Cut`),
  so that what was paid stays paid, a terminal order stays terminal, and only a
  submission gives the kitchen new work (`Steady`).
* They assume `Undisturbed`, as the instance of `dine_in` does: submissions run alone
  (else `MCTwoBills`, `MCCompletedDue`); no manager is on duty, whose stale writes
  the rules let pass (`MCResurrected`, `MCCollectible`); nobody cancels or reopens an
  order, refunds a payment or sends a bill again, since each of these is to undo
  what another handler has looked at; no refund is repeated and no later submission
  discounts the bill. Tickets are cooked and dropped, items partly cancelled, bills
  paid, completed and finalized and tables closed, all interleaved, with crashes.
  `ClosedTableOwesNothing` further assumes what `BillChargesTickets` does, so that a
  bill cut to nothing has no ticket left, and that no captain closes, who may not
  read payments (`MCCaptainCloses`). In all of them the value that stands for no
  order is none of the orders (`NoOrderIsNoOrder`).

**Prices** (`BillsProofs`). Lemmas on `HalfUp` (nearest, monotone, bounded) give,
for all amounts and rates, that the two parts of a tax make it up
(`TaxPartsMakeTax`), and that the discount a partly cancelled line keeps, a
rounded proportion of the old one, fits what is left (`KeptDiscountFits`), so that
no cancellation is refused for it. The invariant `BillsInv` (`MenuOK`, and every
line is the price of its quantity, discount and rate) is preserved by submissions,
merges, edits of the menu and cancellations (`LinesStayPriced`);
`LinesAlwaysAddUp` and `CancelledLinesNeverDearer` follow, the latter because
rounding is monotone.

Whole bills are sums over their lines, and `SumFunction` is a fold whose recursion
picks the elements of a set in an unknown order. `SumIsFold` unfolds it to the
function that the library's `CHOOSE` names, `FoldExists` shows that there is one for
a finite set, and `SubsetInduction` is the induction over its subsets, by a least
counterexample, that takes the place of the library's (which is about an operator,
see below). With it `SumRemove` says that any element may be the first, from which
follow the lemmas the bills need: sums compared line by line (`SumMonotone`), added
(`SumOfTwo`), scaled (`SumScaled`).

* `SharesAreExact`: `allocateTotalDiscount` gives away the whole discount, no line
  more than its price, and each line its proportion up to less than a unit, for any
  lines and any discount. The units that rounding down leaves over are fewer than
  the lines with a remainder (`Shares` gives one unit each to as many). So it is for
  the bills that come about (`AllocationIsExact`).
* `BillsAlwaysAddUp` needs the strengthening `WholeInv`: `BillsInv`, the types of the
  money (`MoneyTypes`), that what is due is part of the bill (`DueInBill`), and that
  the totals are those of the lines (`SumsKept`), which a partial cancellation keeps
  although it recomputes one line and subtracts. TLC agrees with the instance
  of `records` (81,720 states, refunds repeated and later discounts on).
* `CancellingNeverMakesDearer` and `PricedBillsAreLedger` rest on it: each submission
  makes the total of a bill no smaller unless it discounts the whole, a cancellation
  no larger, so each step is one of `Settlement`; `BillsAreBalanced` then takes
  `LedgerBalanced` over to priced bills, if refunds are not repeated.
* All but the allocation assume `MaxTotal > 0`. `MaxTotal` is the model's bound on
  money, not the code's: `PayBill` tries payments of one unit, which at 0 would be no
  amount of the model.

**Subscription** (`SubscriptionProofs`). That a subscription is active only by a
payment (`ActiveIsBought`) depends on every way to an activation, several steps
back: `BoughtInv` says that an undelivered webhook which activates is that of a
payment Razorpay has (`WebhooksAreTrue`), that so is every activation which has
been read but not written (`WorkIsBought`), and that what was bought stays bought
(`BoughtStays`). It needs no assumption on crashes, failures or leases. For the
claims, `ClaimsAreHeld` says that a worker's webhook is still `processing` and its
lease still runs; with it the next claim finds the webhook taken
(`ClaimsExclude`), and nobody is left to write a processed one
(`FinalEventsStay`). Both assume `Prompt`: without it two workers share a webhook.
Types need `WorkNamesPayment`, since a record in the history must name a payment.
`TrialIsGivenOnce` assumes that the restaurant has its document (`~Newborn`) and that
reads do not fail (`~Faults`), as the instance of `activates` does; without either the
trial is given again (`MCTrialReset`). Handlers still overlap and stop anywhere. Its
invariant `TrialIsKept` says that the document is there with the trial it began
with, that nobody is on the way to a fallback or a renewal, and that every
activation about to be written carries the trial's end it read. The trial has to
have a length (`TrialLength > 0`, the code's is seven days), for an end at 0 is what the
code takes for none.

**Checkout** (`OnlineCheckoutProofs`). Whatever the customer is told was placed
(`ToldOrdersArePlaced`), with slow servers and lost commits allowed: every request
past its commit, every completed record and the phone's thanks name an order that
exists (`CheckoutInv`). One order per key (`OneOrderForEachKey`) needs `~SlowServer`
and `~LostCommits`, and the invariant `OnceInv` that says what a lease is for:
whoever executes, before its commit or before it marks the record, has the record
pending and fresh and is alone with its key (`ClaimHeld`), and a record of a key
that placed an order is completed and names it, or its request is about to say so
(`RecordNamesOrder`). `CheckoutPlacesOnce` is the refinement of `OnceOnly`: the
commit decides, and delivering the answer tells what was decided.
`OrdersAreAnnouncedOnce` needs no assumption: what has rung exists, and a listener
that is live has indexed it (`BellInv`), whatever an earlier one forgot.

**Online orders** (`OnlineOrdersProofs`). `OneSlipOnly` needs one assumption, that
orders are accepted at one desk: there is no ticket while an acceptance is about
to write (`SlipInv`), and a pending order is pending no more once it has one. The
server may stop anywhere, tickets may be cancelled and items taken off by anyone.
`CompletedOnlineOrderIsDone`, `KitchenKnowsOrder` and `GuestSeesOnlyProgress` assume
`OneCounter`, the instance of `online_orders`: one desk accepts, rejects and collects,
the last for accepted orders only (else `MCRejectedCooked`, `MCPrepaid`), managers
neither mark stages nor stand in the kitchen, and no server stops between an
acceptance and its ticket (`MCNoTicket`). Any number of partial cancellations may
overlap, except for one half of `KitchenKnowsOrder`: that a rejected order is not
cooked needs that there is one at a time. The invariant `ServiceInv` says, as in
`DineIn`, what each desk and each handler of the kitchen relies on at its awaits
(`Relies`, `ChoreRelies`), and how order and ticket go together
(`OrderFollowsSlip`). `GuestInv` says that whatever answer is on its way is not older
than what is shown, unless a status has been put back; it needs that the first
fetch and the polls do not overtake each other (`~LateFirst`).

**Offline queue** (`OfflineQueueProofs`). `KeyedActsOnce`: payments and seatings act
once, with any number of tabs that overwrite each other's storage, crashes, and
lost answers. The argument is that their key is recorded in the transaction that
acts: nothing has acted while the record is empty, and nothing acts afterwards
(`KeyGuards`). `CompletedWasDone`: what the staff see as completed the server has
done. It needs that items in every memory, running loop and saved queue have a
status the code knows (`AllStatused`), that an answer of success follows the effect
(`SuccessHappened`), that only operations whose key is leased acquire it, and that
an item reported done was done (`ReportedHappened`); together, `DoneInv`. `NothingLost`:
with one tab, what was queued and not reported stays on the shelf. An open tab has
the array of the shelf (`OnShelf`), a closed one nothing (`ShutIsEmpty`), and what
a memory shows as completed was reported (`AllTold`), so that clearing drops only
that. TLC agrees on one tab and two items (217,892 states). What clearing leaves of
an array is a recursion over it; `OnlyKeeps` proves by its least wrong step, which
exists because `<` on `Nat` is well-founded (`LeastNumber`), that it is the array's
unfinished members. `QueueTyped` rests on the same lemmas.

`FirstTriesAreInOrder` holds for any number of tabs. The loop runs over an array that
grows under it, is replaced when finished items are cleared, and is loaded anew
in another tab; its iterator is a suffix of an array that may no longer be the
queue. `OrderInv` says how they still agree: an array holds each item once
(`Distinct`); in the rest of the loop, whatever has not been tried precedes what was
queued after it (`InOrder`); a loop over the array in use has all untried items still
ahead of it (`Covered`); and the item that is being sent is marked (`Marked`), so that
it is not taken for untried. An item put back by hand counts as tried
(`Untried`). `SyncingItemsAreSent`, with one tab: what is shown as syncing is being
sent or was when the tab was closed on it. Nothing takes up an item in that state
again, so the loop must not leave one behind; that the stored queue marks
nothing else (`Synced`) is what a new tab relies on. TLC agrees on two items
(50,186 states).

Theorems whose property is in no run, because a stronger one or the proof itself
covers it: type correctness (`TSTypeOK`, `SettleTypeOK`, `SubTypeOK`,
`CheckoutTypeOK`, `OQTypeOK`), `LockMatchesSession`, `ClosedIsFinal`, `PaymentsAreRecords`,
`DueIsRemainder`, `KeyPaysOnce`, `ToldIsPlaced`, `RejectedIsNotCooked`,
`AcceptedHasSlip`, `SyncingIsSent`, the lines of a bill
(`LinesStayPriced`, `LinesAlwaysAddUp`, `CancelledLinesNeverDearer`), the shares of a
discount for any lines (`SharesAreExact`) and the inductive invariants themselves.

Model-checked only is what is beyond the prover: all liveness (`SettledBillCompletes`,
`SettledTableCloses`, `PaidIsActivated`, `PressedIsPlaced`, `QueuedSettles`,
`GuestLearnsTheEnd`), which needs fairness and `ENABLED`. Every invariant and every
action property of the passing runs is a theorem, under the assumptions named
above where there are any. The library's induction theorems take an operator as a
parameter and could not be used; where a proof needs induction over data
(sums, filtered arrays) it goes by a least counterexample instead.

## 5. Not modelled

* **Stock consumption, most inventory movements, recipes**: the program cannot take
  the steps. The Firestore client library rejects documents with undefined fields
  (`utils/sanitize.ts:2-4` says so; `config/firebase.ts:22-45` does not switch it
  off). `createRecipe` writes `categoryName: undefined` and every movement that is
  no reversal writes `reversalOfMovementId: undefined`, neither of them sanitised.
  No recipe is stored, so no order ever consumes stock, and a model of consumption
  and reversal would describe runs the program does not have.
* **Purchase orders**: creating one writes optional fields that are undefined, and
  receiving one is denied by the rules, which compare a field `id` the service
  does not write.
* **Staff and invitations**: `addStaffMember` writes `isActive: false` and
  `getInvitationByToken` takes that for a revoked invitation, and its query over
  all restaurants is not permitted by the rules; no invitation is ever claimed.
  What roles may do is in the guards.
* **Restaurants and customer accounts**: profiles, the choice of a restaurant and
  its deletion are single writes and short sequences by the one user they concern.
* **Menu**: single writes, of which the change of a price appears in `Bills`
  (`EditPrice`).
* **Printing**: jobs are put into a collection and nothing in the repository takes
  them out.
* **Parts of modelled components**: a `localStorage` that is full or holds what is no
  queue (`offlineSyncService.ts` swallows the errors of both, so that a save may be
  lost or the queue start empty: `NothingLost` supposes that saving works),
  `deleteOrder` (drafts only, and nothing creates one), `ensureKOTForOrder`, `retryOrderStockConsumption` and
  `partiallyCancelOrderItems` (called by no page; what the last makes of the lines
  is in `Bills`), taxes between states, the checkout of a subscription (its payment
  is external, its verification modelled), statistics and listings.
* **Device and file I/O** (storage, voice, devices, the Android shell), audit,
  analytics and the user interface: views and records of what happens, without a
  protocol between actors. The pages are read where their buttons decide what can
  be requested when. These parts are most of the repository's lines.

What could follow: the tickets of several printers, once jobs are taken out of
their collection; and stock, once movements are stored.
