# Verification of the Forever Hotel website

This directory holds TLA+ models of the hotel website, backend and browser, the
TLC configurations that check them on small instances, and proofs checked by TLAPS.
Paths below are relative to the repository root (`src/` in `PROJECT.json`).

## 1. The system

The backend (`backend/src`, NestJS over PostgreSQL) sells rooms; the frontend
(`frontend/src`, Next.js) calls it through server actions. The hotel's Front
Desk and its infrastructure are other services on the same database. Nothing
runs in the background: every state change is made by a request, so a request
that never comes (a hold nobody sweeps, a notification that is lost) is part of
the behaviour.

| Component | State | Operations | Talks to |
|---|---|---|---|
| Room inventory | `bookings`, `rooms`, `room_types` rows; row locks on `room_types` | count free rooms, insert or move a booking, sweep lapsed holds | every writer below, the Front Desk |
| Availability search | none (a REPEATABLE READ snapshot) | check, calendar | inventory |
| Quotes and reservations | signed tokens in the guest's hands; `bookings` rows with `checkout_key`, `price_snapshot`, `hold_expires_at` | createQuote, createReservation (replay, conflict, insert) | inventory, payments |
| PayHere payments | `payments` rows, `price_snapshot.payment` with its receipts | start, resume, status, cancel, notify | PayHere (form, notification, retrieval), inventory, email |
| Stripe payments (legacy) | `payments` rows, session in `price_snapshot.payment` | prepare, attach, settle, refund, webhook | Stripe, inventory, email |
| Confirmation email | `price_snapshot.confirmationEmail` | claim, deliver, finish | mail provider |
| Booking management | `price_snapshot.management` (revision, events), signed change quotes | options, quote, modify, cancel, change email | inventory, mail provider |
| Pricing | none | room charge, taxes and fees, deposit | |
| Guest bookings | none | list, detail, status | |
| Guest accounts | `guests` rows, session cookie | register, sign in, sign out, return | |
| Contact enquiries | an in-memory table per server, the form | rate limit, forward, answer | mail provider |
| Booking flow in the browser | the URL, the quote and its review in memory | edit, quote, review, pay | quotes |
| Checkout in the browser | the recovery cookie, pages | start, recover, resume, cancel | payments |
| Search and calendar in the browser | form, requests under way, counts | search, retry, choose a stay | availability search |
| Management in the browser | the review, the attempt and its key | preview, save, retry, refresh | booking management |
| Catalogue, promotions, health, configuration, pages | none of their own | reads | |

How they interact. A stay is sold in four transactions that do not share a lock:
the reservation (a hold of 20 minutes), the preparation of a payment (35 more
minutes for PayHere, once), the settlement, and later changes. Between them the
guest's browser, the payment provider's notifications, the clock and other
guests act. Inside a transaction the statements are READ COMMITTED: each sees
what is committed when it starts, so a count is only as good as the lock held
around it. Locks are taken in one order: advisory locks (key, then quote), then
`room_types` rows in the order of their ids, then the booking row, then its
payments.

What is hard, and what correct means:

- **Inventory**: two transactions count one room; a hold lapses between a
  decision and a write; a booking changes type while another transaction waits
  on the lock of its old type. Correct: every booking that withholds a room can
  be given one; what lapsed is never revived; unpaid holds end.
- **Search**: it counts without locks, from the bookings of one type, by stay or
  by night. Correct: it never shows less than the checkout would sell, nor a
  night of a stay it found as full.
- **Reservations**: the same checkout is sent twice, concurrently, or again
  after a lost answer or a crash. Correct: one booking per key and per quote, at
  the quoted price, and the same answer to every retry.
- **Payments**: charges are retrieved outside the transaction that settles them,
  so lists are applied late and out of order; a page of the provider can be paid
  twice or after the booking is gone; a refund can fail; the server stops
  between any two steps. Correct: each charge recorded once, money either buys
  the room or is owed back and under review, only a charge confirms, and late
  money is not lost.
- **Email**: claim, send and finish are three steps with crashes and an
  ambiguous answer between them. Correct: at most one confirmation, and none
  for a stay whose money goes back.
- **Management**: change quotes and keys meet concurrent changes, the cutoff and
  unsettled money. Correct: a change applies to exactly the booking that was
  quoted, once, and never while money is outstanding.
- **Views**: status page, My Bookings and the management panel reckon the same
  money by queries of their own, of two statements each. Correct: they agree,
  the website's parsers accept what the backend says, and what a guest was told
  is not silently taken back.
- **Browser**: answers arrive after newer ones, or never; a cookie, a key or a
  quote in memory outlives the page that made it. Correct: what is paid is what
  was reviewed, one unpaid hold, found again; no links or nights older than the
  question; no saved change unnoticed; no page that waits for ever.
- **Accounts, contact, token**: races on a unique email, a bounded in-memory
  table, one token shared by all retrievals.

`PROJECT.json` lists each hazard at its line with the properties that cover it.

## 2. Modules

| Module | Models | Role |
|---|---|---|
| `Stays` | the row of `bookings`, `BookingRepository.available`, `AvailabilityService.count` and `calendar` | vocabulary of inventory, no behaviour |
| `Inventory` | all inventory transactions, statement by statement | implements `HoldPromise` |
| `HoldPromise` | | abstract: what a booking is owed over its life |
| `InventoryProofs` | | theorems about `Inventory`, no overbooking first |
| `Checkout`, `CheckoutProofs` | `createQuote`, `createReservation` | implements `CheckoutOnce`, and proves it |
| `CheckoutOnce` | | abstract: what an Idempotency-Key promises |
| `Pricing`, `PricingProofs` | quote pricing, room charges, deposits | and theorems about them |
| `PayHereCheckout`, `PayHereProofs` | PayHere service and repository, confirmation email | implements `HoldPromise` for one booking, and proves it |
| `PayHereToken` | the token in `PayHereProvider.receipts` | its theorem is in `ServiceProofs` |
| `StripeCheckout`, `StripeProofs` | Stripe service, provider and repository | implements `PaymentPromise`, and proves it |
| `PaymentPromise` | | abstract: money buys the room or goes back |
| `BookingManagement`, `ManagementProofs` | management service, repository, policy, change email | implements `ChangePromise`, and proves it |
| `ChangePromise` | | abstract: what an offer, a revision and a key promise |
| `StatusPage` | `PaymentRepository.status`, the confirmation page, the dashboard's row | extends `PayHereCheckout`; its theorems are in `PayHereProofs` |
| `ManagementView` | what options, quotes and answers say, and the website's parsers | extends `BookingManagement`; its theorem is in `ManagementProofs` |
| `Dashboard` | My Bookings: list, counts, pages, links, details | |
| `BookingFlow` | `booking-flow.tsx` | |
| `BrowserCheckout` | payment step, payment actions with their 20 seconds, recovery, confirmation controls | its theorem is in `CheckoutProofs` |
| `RoomSearch`, `StayCalendar` | the two halves of `availability-search.tsx` | the theorem about the first is in `VisitorProofs` |
| `ManagementPanel` | `management-controls.tsx` and its actions | its theorems are in `VisitorProofs` |
| `GuestAccounts` | guest repository and service, the sign-in and sign-up pages | its theorem is in `VisitorProofs` |
| `ContactLimit`, `ContactForm`, `Enquiries` | the rate limit; the way of an enquiry and back; both | their theorem is in `ServiceProofs` |
| `VisitorProofs`, `ServiceProofs` | | the theorems about the panel, accounts and search; about the token and the enquiries |
| `MC*` | | instances for TLC |

The models look at one system from several sides. `Inventory` opens every
transaction up at its lock acquisitions, its decision and its commit, for many
bookings, and forgets money. `PayHereCheckout`, `StripeCheckout` and
`BookingManagement` take each settling transaction as one step, which is sound
because the row lock is held from the first read to the commit and because
`Inventory` shows that no other transaction can use the time in between, and
follow the money of one booking. `Checkout` follows the identity of requests. The
browser modules take the service they talk to as atomic requests, each of which
may be lost or answered late, and rest on the module of that service for what a
request does. A status and a hold deadline mean the same in all of them;
`HoldPromise` is the statement that `Inventory` and `PayHereCheckout` share.

Four suites put components side by side, one in each behaviour: `MCWebsite`,
`MCStatusPage`, `MCServices` and `MCProgress` have a constant variable `at` that
names the part. A part of a suite that is proved about is extended (`Checkout` by
`MCWebsite`; `StatusPage` and `BrowserCheckout` by `MCStatusPage`; `Pricing`, `StripeCheckout`, `PayHereToken`,
`GuestAccounts`, `ManagementPanel`, `RoomSearch` and `Enquiries` by `MCServices`)
and keeps its own variables, so that the run and the theorem speak of one
definition; the others share a set of variables whose meaning is the part's. A
suite is a sum, not a product: the parts do not interact there. Where components
interact, a module composes them (`StatusPage` over `PayHereCheckout`,
`ManagementView` over `BookingManagement`, the transactions of all services in
`Inventory`, the email in the payments).

### Correspondence

- *Stays.* `Available` is the SQL of `BookingRepository.available`: sellable
  rooms of the type without an overlapping live booking of any type, minus the
  overlapping live bookings of the type without a room, clamped at zero.
  `Lapsed` is the `NOT (...)` clause of that SQL; `web` stands for source
  WEBSITE with a checkout key. `Snapshot` and `AdvisoryCount` are the public
  search, which reads only the bookings of the searched type, and
  `CalendarCount` its count of a night.
- *Inventory.* `txn[p]` is the transaction of a connection: `lock` while it
  waits for `room_types` rows, `read` before it reads the booking row with FOR
  UPDATE and the clock, `commit` between its decision and its COMMIT. `ref` is
  the type read before the locks. `Rollback` stands for every exception, refusal
  and crash. `Reserve` includes the sweep of lapsed holds. A prepare of a hold
  that has its payment writes nothing and is a `Rollback` here.
  `CancelHold` also stands for `settle` of an expired or failed Stripe session
  and for `settleReceipts` of several charges, which cancel under the same locks.
- *Front Desk* (external). `WalkIn`, `CheckIn` and `CheckOut` write the same
  rows. They keep the inventory protocol `documents/api/booking-reservation-api.md`
  (117) asks of them: they take the type locks of the rooms they hand out and do
  not strand another booking.
- *PayHereCheckout.* A request is `settle` after it has retrieved the list it
  will settle, then `claim`, `deliver`, `finish` for the email, and `cancel` if
  that is what it came for. `recorded` and `rowOf` are `payment.receipts`, `rows`
  the `payments` table. `charges` is the provider's truth.
- *Checkout.* A request is `attempt` before the key's advisory lock, `preview`
  before the quote's, `rate` before the `room_types` row and `insert` after it.
  Each lock and the question asked right after it are one step: whoever could
  change the answer needs the lock. `told` is every successful answer, delivered
  or not.
- *BookingManagement.* `booking` has the columns a change quote is bound to,
  `events` is `price_snapshot.management.events` (`Revision` is its length, as in
  every row the code writes), `quotes` the signed tokens. What the guest paid is
  derived: recorded charges of the frozen order (`received`, `price`) and what
  staff took or returned (`desk`). `Record` is `record` with its save; `Modify`
  and `Cancel` give it the row to write. A quote may be offered at any of
  `Totals`, since rates change; whether a room is free may go either way. After
  its commit a request goes on to the email, also on a replay. `Settle`,
  `Reconcile`, `Assign`, `CheckInOut` and `NewPolicy` are the others who write
  the row, its payments or the policy.
- *StripeCheckout.* A request is `create`, `attach`, `retrieve`, `settle`,
  `refund` and so on through `resume` and `reconcile`. `session` and `refund`
  are Stripe's truth, `meta` and `row` the hotel's record, `owed` the events that
  were not answered with 200. A session id is made by the idempotency key of the
  payment; `Created` gives the same one to the same key. Of the two controllers
  only the webhook is registered (`payments.module.ts:32-36`); start, resume,
  status and cancel of `payments.controller.ts` are modelled from the code as it
  stands and cannot be reached as deployed. The model does more than the
  deployment, so what is shown of it (safety) holds there as well.
- *PayHereToken.* `token` is the provider's field. A retrieval is `oauth`,
  `granted` (the provider has issued, the answer travels), `search`. Tokens are
  distinct; the environment never changes at run time. `again` is set on a
  retrieval that starts with a token the server was told is refused.
- *Pricing.* One rule of the policy is one step; amounts are in cents, rates in
  basis points. The website's check of a quote is the same sum, and is part of
  `AddsUp`.
- *StatusPage.* `ReadRow` and `ReadMetadata` are the two statements; `Overlay` is
  how the second is laid over the first, `Accepts` the parser, `Heading` and
  `Payable` what is shown. CHECKED_IN and CHECKED_OUT are told like CONFIRMED.
- *ManagementView.* No behaviour of its own: `Summary` and `Preview` are computed
  from the state of `BookingManagement`, and the parsers are predicates on them.
  The answer to an operation, first or repeated, carries the summary of the
  booking as it is then (`result`), not the stored receipt.
- *Dashboard.* The transaction begins (its time is fixed), counts (its snapshot
  is fixed), lists. Stays are of one night; CHECKED_IN is classified like
  CONFIRMED. `view` is the page, whose links are the only way to a later page.
- *BookingFlow.* `url` is the stay and step that `useSearchParams` gives, `form`
  the date form under its React key, `preview` and `reviewed` the component's
  memory. A quote answered for another key or step is dropped (`Awaited`).
- *BrowserCheckout.* Server actions read the cookie when called and change it
  with their answer (the browser applies `Set-Cookie` with it), which may be lost,
  or overtaken by the answer to another tab. An action waits for the backend for 20
  seconds (`payments-api.ts:22`); the backend waits for its locks without a limit
  (`database.module.ts:16-31`). `Proceed` is a commit of the backend, of the
  reservation and then of the prepared payment; it needs a request that is at the
  backend (`InHand`), whether or not an action still waits for it. `Post` is the backend's answer,
  `GiveUp` the end of the 20 seconds, `Lost` an answer of the action that never
  comes: the last two leave the request `running`, where it may commit at any later
  time (`Proceed`, `CancelLate`) or end without (`Ends`). `doubt` marks the page
  that lost its answer. `left`, for the property, is what the guest went on from.
- *RoomSearch, StayCalendar.* Each request is a record that may be aborted; an
  answer of an aborted one is dropped. `had` and `seen` record, for the
  properties, what the hotel had since the guest last asked.
- *ManagementPanel.* A version counts every change of the row, a revision the
  guest's. `Learn` is the answer of a submission, `Lose` a request that never
  arrives. Requests of a page reach the backend in order or are lost.
- *GuestAccounts.* A registration is `lock`, `check`, `insert`; `Outside` are the
  other writers of the shared table, who spell emails as they like and take no
  lock. Emails of one hash are not told apart. The pages are sign-in, sign-up and
  everything else.
- *ContactLimit, ContactForm.* Addresses are what Express says they are. A guest
  is refused for her count (`TurnAway`) or for a full table (`NoSpace`), with the
  same answer; `refusals` keeps both, with what she and the others had. The form's fields stay open while an attempt is under way.

## 3. Runs

| Run | Checks | Bounds |
|---|---|---|
| `inventory_types` | `TypeOK`, `HoldBounded`, `Accommodated`, `StillFree`, `SoldUnderLock`, refinement `KeepsPromise` | 2 types with a room each, 2 bookings, 2 connections, holds of 1 and 2, clock to 1: one changes a type while the other waits; states in which a guest has left, or two are gone or have arrived, are checked but not followed (`FewArrived`) |
| `inventory_stays` | `Accommodated`, `SearchShowsRooms` | 3 bookings, 2 rooms, overlapping and adjacent stays, rooms assigned early, 1 connection; states in which a booking is over are checked but not followed (`FewEnded`) |
| `inventory_search` | `SearchExcludesAssigned` is violated | 2 types, 2 bookings |
| `payhere_safety` | `EachChargeOnce`, `UnearnedIsReviewed`, `OneEmail`, `ConfirmedByCharge`, refinement `KeepsPromise` | 2 charges, 2 overlapping requests |
| `payhere_refund_final` | `RefundIsFinal` is violated | 1 charge, 3 requests, each of which ends |
| `status_page` | `PageTells`, `SameStory`, `ConfirmedNotForgotten`; `CheckoutRecovers` | a booking's page: 2 charges, 1 request, deposits of 2 out of 3; the browser: 2 tabs, 2 quotes, answers lost, overtaken and late without a bound |
| `management` | `TypeOK`, `AcceptedInTime`, `OneChangeEmail`, `MoneySettled`, `ViewHolds`, refinement `KeepsChanges` | 2 requests, 2 keys, 1 quote, 2 events, an early and a late check-in, clock to 1, 1 charge |
| `website` | below | below |
| `services` | below | below |
| `progress` | below | below |
| `browser_resume` | `ResumeWorks` is violated | 1 tab, 3 quotes |
| `panel_session` | `NoNewAttempt` is violated | 2 keys, sessions that end |

`status_page` has two parts. Of the booking's page: a booking that is PENDING when
its row is read is exempt from being accepted (`PageLoads`): a lapsed hold keeps
that status, and nothing is claimed of the page of one whose only charge had already
been refunded when it was recorded; of every other booking the page accepts what it
reads. Of the browser
(`CheckoutRecovers`): of the checkouts the guest did not go on from, at most one
holds a room unpaid, and the cookie names it, or the answer that will is still to
come, or the page that lost the answer is open, where the same quote is tried under
the same key. She goes on from a checkout when she starts another before its end is
known, leaves the page that lost its answer, or has the cookie cleared by the
cancellation of a different booking; without any one of the three, TLC finds a
second hold or one that is lost ("Seen while modelling").

`website`, one part in each behaviour:

| Property | Part | Shows | Bounds |
|---|---|---|---|
| `BooksOnce`, `LocksHold`, refinement `KeysPromise` | `Checkout` | one booking per key and quote, at its price; locks in order, what was asked under them stays so; the same answer to every retry | 2 requests, keys, quotes, remarks, prices, bookings |
| `PaysAsAgreed` | `BookingFlow` | what is paid is what was reviewed; a late quote moves nobody | 2 stays, 2 quotes, 2 texts |
| `PicksOpenNights` | `StayCalendar` | a stay spans only nights seen free since its check-in was chosen; no request of more nights than the server counts | 3 months of 2 days, limits scaled down; and a year with the code's 58 and 90 days |

`services`, one part in each behaviour:

| Property | Part | Shows | Bounds |
|---|---|---|---|
| `PriceIsRight` | `Pricing` | quotes add up, charges are the nearest cents, amounts fit, a deposit is a part | up to 2 charges, rates at the boundaries of rounding, a column that holds 2000 |
| `StripeSafe`, refinement `KeepsPromise` | `StripeCheckout` | one session; refunds recorded only when real; no email for money that goes back | 2 sessions, 2 requests, 2 failures |
| `TokenSafe` | `PayHereToken` | no refused token is presented again, one that is taken lasts its search | 2 retrievals, 3 tokens, lives of 1 and 3, clock to 3 |
| `ContactSafe` | `Enquiries` | refused for cause (her count, or a full table), never twice the limit in a minute; a minute after a refusal only a full table refuses; only a delivered enquiry is called accepted, twice only in doubt | 2 addresses, a table of 1; 2 texts, 3 attempts |
| `AccountsSafe` | `GuestAccounts` | no second account of an email, own sessions, return destinations kept | 2 browsers, 3 registrations, no unique constraint, 1 outside account |
| `PanelKnows` | `ManagementPanel` | a conflict saved nothing, nothing saved goes unnoticed | 2 keys, 4 versions, 3 sends |
| `SearchHonest` | `RoomSearch` | booking links are of the last press | 1 type and 2 presses |
| `DashboardComplete` | `Dashboard` | counts and cards agree, Next reaches all, nothing vanishes, own bookings only | 2 bookings, pages of 1, 3 days; 2 guests in a browser |

`progress` checks liveness (`MoneyEnds`: `PayHereCheckout`, `StripeCheckout`;
`PagesSettle`: `RoomSearch`, `StayCalendar`, `ManagementPanel`, `PayHereToken`,
`GuestAccounts`), with one charge or session, two requests, and bounded failures.

Why the bounds are enough to be interesting: every protocol here is between
pairs (a waiter and a holder, a stale list and a fresh one, a first request and
its repeat), and each property has a mutant of the code that TLC must catch
within the same bounds. The proofs remove the bounds where it matters most.
Deadlock is checked except in `services`, `progress` and `panel_session`, where a
finished form, retrieval or panel really stops.

Bounds named in the models: `MaxTime` (clock), `Ids` (rows ever written),
`Requests`/`Procs` (concurrency), `Charges`, `MaxCharges`, `Quotes`, `Keys`,
`MaxEvents` (fifty in the code), `MaxFailures`, `MaxTroubles`, `MaxLost`,
`MaxOutside`, `MaxVersion`, `MaxSends`, `MaxPresses`, `MaxRetries`, `MaxTexts`,
`MaxAttempts`, `MaxRequests`, `LastMonth`, `Unsure`, `MaxEnded` (bookings that
are over or arrived). Symmetry is used only over sets of model values that no
`CHOOSE` or order depends on; runs with liveness use none.

### Findings

Four runs end in a violation of what a document says; none contradicts the
safety properties above.

1. `inventory_search`: the search counts a room as free although a booking of
   another type is assigned to it (`availability.repository.ts:39` against
   `documents/api/availability.md:29-30`). The binding count excludes it, so the
   guest is refused at the reservation.
2. `payhere_refund_final`: `settleReceipts` protects REFUNDED from RECEIVED but
   not from REFUND PROCESSING, so two stale lists in the wrong order turn a
   refund back into a received charge (`payhere.repository.ts:146-152` against
   `documents/api/payhere-checkout.md:121-122`). In the same way a stale RECEIVED
   clears a refund that was requested, after which the confirmation email is sent
   (against lines 118-120).
3. `browser_resume`: a reservation whose payment preparation failed has no
   billing details, and every resume of it is refused, while the page offers
   "Resume existing checkout" (`payhere.repository.ts:59` against
   `documents/api/payhere-checkout.md:70`).
4. `panel_session`: a retry that is refused (the session ended) drops the attempt
   whose result is unknown; the next one is made under a new key
   (`management-controls.tsx:182` against
   `documents/api/booking-management-ui.md:49-51`).

Seen while modelling, none of it against a document:

- A checkout that takes more than 20 seconds: the action answers that it "may still
  be preparing" and sets the cookie; a reload finds nothing yet; the guest pays for
  another quote, which takes the cookie; then the first one commits. She holds two
  rooms, and nothing leads to the first but My Bookings and its 20 minutes
  (`payment-actions.ts:105-109`).
- The answer of `startPayment` is lost, and the cookie with it: the page says
  "Reload to recover your attempt" (`payment-step.tsx:148`), but a reload finds
  nothing. Trying again on the same page does, under the same key.
- Cancelling a checkout clears the recovery cookie of another one started in a
  second tab (`payment-actions.ts:130`).

These are the three exceptions of `CheckoutRecovers`. Others: after `navigate`, edited dates can stand beside a quote
for the dates before the edit (`booking-flow.tsx:86`); a sign-in that was asked
for by a booking's page returns to My Bookings, since `safeReturn` does not list
that page.

### Fairness

Only `MCProgress` assumes fairness to prove that something happens, and says of
what: requests end (`WF`), since every provider call has a timeout and each
database step an error path; what PayHere, Stripe or a guest can repeat for ever
succeeds if tried for ever (`SF` of retrieval, settlement and webhooks: a
notification is repeated until it is answered 200, the guest can always ask
again, outages end); a refund Stripe has started ends; every request of a browser
is answered, fails or times out. Nothing makes a guest pay, a provider refund, or
a mail provider answer. `payhere_refund_final` lets each request end, so that its
counterexample is not one of a system that stopped.

## 4. Proofs

`TypeCorrect` (`InventoryProofs`): `Spec => []TypeOK`, from `InventoryAssumption`
and `TransactionAssumption`.

`HoldsEnd` (`InventoryProofs`): `Spec => []HoldBounded`. `HoldBounded` is
inductive together with `TypeOK` and the fact that a decision's clock `seen` is
never ahead of the clock.

`NoOverbooking` (`InventoryProofs`): `Spec => []Accommodated`, for any finite
set of bookings and rooms, any types, stays, connections and hold lengths.
`Accommodated` says rooms can be assigned to the live bookings, and is not
inductive: a transaction that has counted a free room and not yet inserted its
row would find the room gone. The strengthening `IInv` has two parts:

- `Protocol`: who is where holds the locks it took (`LocksHeld`), a payment that
  found a pending booking locked the type the booking has (`RefFresh`), what was
  decided still holds (`Decided`), and no unpaid website hold has a room.
- `Planned`: there is an assignment `f` of rooms to bookings and `g` of rooms to
  transactions between check and commit, disjoint where stays overlap. A room is
  spoken for from its count to its row. A lapsed hold whose payment is being
  committed still counts (`InFlight`).

The step that needs counting is a check that passes: `RoomLeft` shows that if
the free rooms of the type outnumber its unassigned overlapping bookings, the
image of the latter under `f` cannot cover the former, so one room is left for
`g`. It rests on `FreeRooms` leaving out every room that a live booking of any
type is assigned to. Commits move a room from `g` to `f`; everything else only
shrinks what must be housed (`PlanShrinks`). The type lock is what keeps two
entries of `g` from being the same room.

From the same invariant:

- `CountsStayTrue`: `Spec => []StillFree`, inductive with `Protocol`. Another
  connection cannot take the counted room, since what it may write while the
  type's lock is held here is of other types (`OthersTakeNone`), and the Front
  Desk's locks keep it out; the clock only ends holds (`CountKept`).
- `SalesAreLocked`: `Spec => SoldUnderLock`. A payment locks the type it read
  before it waited, so the proof needs `RefFresh`: it finds a pending booking only
  if the type is still that one, since only confirmed bookings change type.
- `InventoryKeepsPromise`: `Spec => KeepsPromise`, the refinement of
  `HoldPromise`. Each transaction is shown to move each booking along `Moves` or
  not at all (`WebsiteMoves`, `DeskMoves`). It needs `PrepareFresh`: between the
  check of a preparation and its commit nobody else renews that hold, so the
  second renewal, and with it a second deadline, is impossible.
- `SearchesShowRooms`: `Spec => []SearchShowsRooms`, by counting: the rooms the
  search takes away are among those the binding count takes away, night by night
  and for the stay as a whole.

`CheckoutProofs`, from `CheckoutAssumption`: `KeysBookOnce`, `LocksInOrder` and
`ReservationsKeepPromise`, for any number of requests, keys, quotes and bookings.
`CInv` adds to the properties who owns which lock (`Locked`), that every row was
made from a signed quote at its price (`RowMade`), and that every answer was about
a row that is there (`Told`). `StillUnused` is what makes an insert the first one
of its key and its quote; the refinement maps a key to the row inserted under it.

`PayHereProofs`, from `CheckoutAssumption` of `PayHereCheckout`: `ChargesAreRows`,
`UnearnedIsShown`, `AtMostOneEmail`, `ChargesConfirm` and
`PaidBookingKeepsPromise`, for any number of charges and requests. `PInv` adds
`MoneyIsReal` (what is recorded, or listed in a request's hands, was charged),
`OwnRows` (a row of `payments` belongs to one recorded charge), `PendingIsUnpaid`,
and `OneClaim` (one request at a time is between claim and finish of the email,
and nothing was accepted while a claim is still possible).

`ManagementProofs`, from `ManagementAssumption` and `NoneAssumption`:
`ManagementTypes`, `ChangesAreInTime`, `ChangesMailedOnce`, `ChangesAreSettled` and
`ManagementKeepsChanges`, for any totals, dates, keys, quotes, requests and limit
of events. `MInv` adds `LogInOrder` (one event per key; the event at position i
was accepted at revision i - 1, which is why a quote cannot be taken up twice),
`KeysCount` (as many used keys as events, so that a withdrawal is of the revision
the promise counts) and `EmailInv` (a claim per event). Every step either leaves
the operations of the log as they are (`LogKept`) or appends one (`Recorded`);
the receipts follow from that and from `SumsAre`. `NoneAssumption` says only that
the value for "nothing yet" is none of the values it stands beside.

`ShownAsItIs`, in the same module, is about what the guest is then shown:
`Spec => []ViewHolds` of `ManagementView`. The page of options and the previews
are computed from the present state, and each is accepted because the sums of the
hotel are the positive parts of one difference (`SumsAreAbove`), which is what the
website's parsers recompute. The answer to an operation is made of the same
`Summary`, so nothing has to be known of the stored receipts.

`PricesAreRight` (`PricingProofs`), from `PricingAssumption`: for every request,
catalogue and policy, `PriceSpec` keeps `AddsUp`, `NearestCent`, `Fits` and
`DepositIsPart`. The invariant `PInv` adds that no base and no amount exceeds the
running total (`BelowTotal`), since only the total is compared with the column's
limit at the end. The step that needs arithmetic is `NearestShare`, about `\div`.

About `StatusPage`, in `PayHereProofs`, from `CheckoutAssumption` and
`AmountAssumption`: `PageNeverMisleads`, `ConfirmationStands` and
`StoriesAgree`, for any amounts and any finite number of charges, with
settlements between the two reads of the page. `SInv` adds to `PInv` that
recorded and listed statuses are earlier ones of the charge (`History`) and that
the metadata is what `Flags` makes of the receipts (`MoneyTells`). `PageInv`
says what the first read can still be relied on for when the second comes: a
charge it found is known for good, and money it leaves out was charged back. A
chargeback is never undone and stays up for review (`ChargedBack`), so the
second read always shows it; that is why a page made of two reads neither
forgets money nor offers to pay twice.

`StripeProofs`, from `StripeAssumption` (a refund ends done or failed, failures are
bounded by some number): `StripeTypes`, `OneSessionEver`, `RefundsAreReal`,
`MailsAreOfKept`, together `StripeIsSafe`, and `StripeKeepsPromise`. `RInv` adds
that every request and event names a session Stripe made (`Named`), that what a
request saw of Stripe and is yet to act on is still so (`StillSo`: a paid session
stays paid, a refund that succeeded stays succeeded, while the guest and Stripe
go on), and that booking, row and metadata agree (`Agreed`). With it every step
is one of `PaymentPromise` or leaves money and room alone (`StripeMoves`).

`TokenIsSafe` (`ServiceProofs`), from `TokenAssumption`: `TokenSpec => []TokenSafe`,
for any retrievals, tokens and lifetimes, with no bound on delays. The assumption
that matters is `2 * Timeout <= Margin`: the code keeps a token thirty seconds
less than it lives, and each of the two requests gives up after eight. One
time-out is lost while the token travels to the server, another while the search
that carries it travels back. `TInv` splits the margin accordingly: what is in the
field has a time-out left beyond the instant it is kept until (`FieldLasts`), so a
search that took it from there has one left from its start (`Outlasts`).
A refused token cannot come back because a token that is still on its way belongs
to one retrieval and was presented by nobody (`GrantsAreOwn`), and an answer of 401
empties the field whatever is in it.

`PanelKnowsItsSaves` and `ConflictsAreUnsaved` (`VisitorProofs`), from
`PanelAssumption`: what the panel says of a save is so, for any number of keys and
sends. `PanelInv` says that everything on its way is the one request the page holds
(`OwnRequest`), that each saved operation was shown or is still held
(`SavesTraced`), and that a conflict is only told of a request that was not saved
and no longer travels (`ConflictsTrue`). `PanelKnowsItsSaves` has `~SessionEnds` as
its hypothesis, and needs it: the run `panel_session` is the counterexample without
it. `ConflictsAreUnsaved` holds either way.

`AccountsAreSafe` (`VisitorProofs`), from `AccountsAssumption`: `AccountsSafe`, for
any visitors and registrations, with or without the unique constraint, whatever
other writers of the table do. `AccountsInv` has a part about the table and one
about the pages. In the table (`TableInv`), the lock of an email has one holder
(`Holder`), and between a registration's check and its insert nobody else makes a
website account of that email: what others write comes after what the check saw
(`CheckHolds`). On the pages (`PagesInv`), the account of a session exists and is
the visitor's, and each page of the way through sign-in and sign-up still carries
the destination the visitor came with; `SafeTwice` is why it may be cleaned at
every hop.

`SearchIsHonest` (`VisitorProofs`), from `SearchAssumption`: `SearchHonest`, for any
types, dates, parties and presses. `SearchInv` says that the requests of an earlier
press are aborted and those of a later one do not exist, so that a request that is
not aborted is of the last press and asks what is wanted (`LoadsInv`); that the
counts under way and the counts shown under the present key are unknown, zero or
what the server had since that press (`Honest`, `ResultInv`); and that the history
has what the server says now (`HadInv`). A late answer may therefore be right for
an old press, and is then never a link.

`HoldsAreFound` (`CheckoutProofs`), from `BrowserAssumption` (no quote is no quote):
`BrowserSpec => []CheckoutRecovers`, without hypotheses, for any number of tabs and
quotes, answers that are lost or overtaken, and requests the backend finishes after
nobody waits for them. `CheckoutRecovers` speaks of live bookings and is not
inductive: a quote whose checkout is being made counts too (`Held`), since the
backend may reserve it in any later step. `BInv` says that of the quotes she did
not go on from at most one is held and that it is found (`HoldsApart`); that each
checkout under way agrees with it (`HoldFits`): one being checked is of that quote
or was called with the cookie that names it, one that posted is of that quote;
that of two checkouts under way both are among `left` (`Apart`), so that an answer
which overtakes another moves the cookie of no hold that counts; and what a tab's
page and answer say of each other (`PageFits`). A step of one tab has only to keep
the last two for that tab and the holds the others rely on (`TabKeeps`).

`EnquiriesAreSafe` (`ServiceProofs`), from `LimitAssumption` and `FormAssumption`:
`LimitSpec /\ FormSpec => []ContactSafe`. For the rate limit, `LimitInv` keeps for
each address what a record cannot show, its past admissions: while a record counts,
it began with the first request it counts, and what lies `Limit` requests before
that one is a window older (`Opened`); without a record, what lies `Limit` back is a
window ago (`Quiet`). So the new request and the one `2 * Limit - 1` before it are a
window apart (`Apart`), and a set of indices that close together is small
(`SpanBounds`). The same record gives a refused guest her minute: refusals by her count since the
last admission fall in its window (`Row`). A full table has as many other addresses
as it may hold, each admitted within the minute (`BusyEnough`): that is the cause of
the other refusals, and the only one left to a guest who waited. For the form, `FormInv` counts
attempts: each copy has an attempt that may have been taken (`Taken`), and of the
attempts that may be copies all but the pending one were told to be in doubt, or
accepted (`Told`); a text that was accepted is neither in the form nor on its way
(`Cleared`), so that the one exception is not used twice.

Only model-checked, in the bounds given above, and why:

- Liveness (`MoneyEnds`, `PagesSettle`): the prover has no rules for what needs
  fairness.
- `DashboardComplete`, `PicksOpenNights` and `PaysAsAgreed`: pages of one guest.
  The first counts and orders lists, which the prover would have to do by induction
  over data; the others have two or three things in flight, the size the runs have.
- `SearchExcludesAssigned`, `RefundIsFinal`, `ResumeWorks` and `NoNewAttempt` are
  false (section 3).

Induction over data and recursive operators are out of the prover's reach; no
definition uses them.

## 5. Not modelled

- Signatures, hashes and tokens: a token is a value only the hotel can make, a
  hash is the thing hashed.
- Validation of shapes, configuration, logging, formatting, rendering; parsers
  only as far as they compare amounts and states.
- A serialisation failure or deadlock abort of PostgreSQL is a `Rollback`; so is
  a lost connection. A COMMIT whose acknowledgement is lost is a commit.
- Room status changes by housekeeping: `Sellable` is constant. Maintenance that
  takes a sold room away is the hotel's decision and cannot be prevented here.
- Password hashing and the signing of session tokens (`GuestAccounts`); the
  detailed claim of the email in `StripeCheckout`, where it is one step, since
  `PayHereCheckout` opens it up.
- Components marked `not_modelled` in `PROJECT.json`: reads without state of their
  own, start-up, load tests, rendering.

## 6. State of the plan

Done: the models of every component that keeps state, their runs, and the proofs
of section 4. Every invariant of the passing runs is a theorem for all values of the
constants, apart from `DashboardComplete`. What is left: the
action properties `PaysAsAgreed` and `PicksOpenNights`, which are the next ones worth
a proof, and liveness, which stays with TLC.
