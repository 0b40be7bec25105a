# HospitalityOS: a TLA+ verification project

HospitalityOS is a property-management system for hotels: a NestJS API over
PostgreSQL (`apps/api`), a React PWA that works offline (`apps/web`) and shared
types (`packages/shared`). This directory holds TLA+ models of the parts whose
correctness depends on *when* things happen: handlers that read, await and write,
crons beside requests, totals stored beside their rows, webhooks that are delivered
again, an offline queue that is replayed. TLC checks them on small instances; TLAPS
proves every invariant and every action property that a passing run checks for every value of the
constants, under the few further assumptions that section 5 lists. What stays with TLC alone is liveness.

Paths below are relative to the repository root.

## 1. Inventory

### How the system runs

One Node process serves requests. A handler is a chain of `await`s, so any other
handler runs between two of its database calls. The database is at its default
isolation level (READ COMMITTED); nothing in the code asks for another, and nothing
takes an explicit lock. `$transaction` makes its statements atomic and an `UPDATE` in it
holds its row's lock until the commit, but what a handler read *before* the transaction is
not checked again by it. Two things back the code up: unique indexes, and the exclusion
constraint on reservations. Cron jobs (the hold sweep every 3 minutes, the night
audit, the billing sweep, preventive maintenance, escalation, repricing) are handlers too.
Domain events are dispatched in memory after the transaction. The process may die between any two
`await`s; nothing resumes a handler.

### Components

| component | state | operations | talks to | hard part | correct when | module |
|---|---|---|---|---|---|---|
| reservations (`reservations.service.ts`) | `Reservation` rows: status, stay, room, `holdExpiresAt`, `quotedPrice` | create, modify, cancel, `releaseExpiredHolds`, availability | rooms, folios, event bus | read-then-commit by id; sweep beside payments | no room instant is booked twice; holds are released; only legal moves | `Booking`, `Ledger` |
| exclusion constraint (`prisma/sql/booking_exclusion.sql`) | - | refuses overlapping blocking rows | every reservation write | boundaries of `[)` ranges | agrees with the availability check | `Booking`, `RoomCalendar` |
| front desk | reservation and room status | check-in, check-out | payments, event bus | status check before the transaction | one stay, one check-in | `Booking`, `Turnover` |
| night audit | `Hotel.businessDate`, no-shows | run | reservations | beside the desk, twice | the closed day has no open arrival | `Booking` |
| rooms | `Room.status` | set status, create, remove | housekeeping, maintenance | guard reads a status others leave behind | an occupied room stays in use | `Booking`, `Turnover` |
| payments, folios | `Payment`, `Folio` totals | record payment (any sign) | cash drawer, idempotency | totals computed from a stale read | totals trace to rows; balance = charges - paid | `Ledger` |
| cash drawer | `CashDrawerShift` | open, accrue, close, reconcile | payments | accrual beside close | variance is counted - collected | `Ledger` |
| gateway, virtual accounts | payment references, `VirtualAccount` | webhook, open an account, reconcile a transfer | payments, reservations | late, repeated and half-failed webhooks; keys that coincide | a payment is recorded once and its hold confirmed | `Gateway`, `Booking` |
| promotions, gift cards | `usedCount`, card balance | apply, redeem | folios | limit checked before the transaction | never beyond the limit | `Ledger` |
| restaurant, kitchen | `Order`, lines | create, void, send to kitchen, set status, pay | folios, inventory | two statements; any status may follow any | charged once, depleted once | `Ledger`, `Stock` |
| public site, guest portal | - | book, room service, upsell | reservations, folios | two statements | totals trace to rows | `Ledger` |
| idempotency | `IdempotencyKey` | run | payments, sync, webhooks | key stored after the effect | one effect per key | `OfflineSync`, `Gateway`, `Inbox` |
| offline sync (`sync.service.ts`) | - | replay, dispatch | the services above | replays at once, crashes | nothing lost, nothing twice | `OfflineSync` |
| web queue (`lib/api.ts`, `db.ts`, `hooks.ts`) | IndexedDB outbox | write, enqueue, flush | `POST /sync` | lost answers, two flushes | a row is deleted only when its write took effect | `OfflineSync` |
| kiosk (`pages/Kiosk.tsx`) | one page for guest after guest | search, check-in, walk-in, camera, reset | reservations, front desk, queue | answers that come after the reset | a key is given to the guest it is for | `Kiosk` |
| event bus | `OutboxEvent` rows, in-memory listeners | emit | housekeeping, loyalty, notifications | death between commit and dispatch | every check-out gets a cleaning task | `Turnover`, `Loyalty` |
| housekeeping | tasks, room status | create, assign, start, complete, inspect | rooms | no status guards | a room that is not ready has work that makes it ready | `Turnover` |
| maintenance | tickets, room status | register, update | rooms | several tickets on one room | a room with work to do is not forgotten | `Turnover` |
| preventive maintenance | schedules | run, escalate | maintenance | ticket first, schedule second | no interval without its ticket | `Preventive` |
| inventory, loss, bar pours | `currentQty`, movements, counts | move, wastage, count, pour | orders, procurement | read, await, write back | quantity equals the movements and the counts | `Stock` |
| procurement | purchase orders | draft, submit, approve, send, receive | inventory | item by item, status last | received once | `Stock` |
| platform, subscription | `Hotel.status`, invoices | approve, invoice, pay, webhook, sweep, suspend | tenant gate | paid before reinstated; references overwritten | a paid tenant is active, a debtor is not | `Subscription` |
| tenant gate | per-process cache | judge a request | platform | several fills at once, edits in between | terms no older than the cache's life | `TenantGate` |
| login, sessions, users | `User`, `Session` | login, refresh, logout, reset, deactivate, update | - | insert some awaits after the check | a revoked login does not come back; an owner remains | `Accounts` |
| billing, city ledger | `Invoice`, `CompanyAccount.balance` | generate, pay | folios | number = count + 1, retried | no gap, balance traces | `CityLedger` |
| channel manager | `ChannelReservation` | ingest, sync a feed | reservations | two deliveries at once | booked once | `Distribution` |
| rates, revenue, pricing | `DailyRate`, `PriceSuggestion` | set calendar, suggest, decide, apply, autopilot, quote | - | price first, status second | a price traces to its suggestion | `Pricing` |
| guests, loyalty | totals, points, tier | listen to payments, redeem, adjust | payments | events lost; points read before the transaction | points and tier trace to rows | `Loyalty` |
| staff | shifts, attendance, payroll | plan, clock in and out, pay | - | check and insert; double clicks | no overlap; an hour is paid once | `Staffing`, `Attendance` |
| messaging, WhatsApp, AI concierge | guests, conversations, messages | webhook, handle, reply | idempotency | answered first, handled later | recorded and answered once | `Inbox` |
| marketing, gdpr | campaigns, consent | approve, send, opt out, erase | messaging | status last | one message per approval | `Campaigns` |
| dining tables, waitlist, reviews, complaints, surveys, staff reports, email, locks, security desk, reports, fx, audit, other pages | records | - | - | section 6 | - | - |

`PROJECT.json` lists every component with its files and status, and 40 hazards, each
at the line where it bites, with the properties that would catch it and what those
properties leave open.

## 2. Plan

1. **`Booking`** with the abstract **`RoomCalendar`**.
2. **`Ledger`**, **`Postings`**: folios, payments, cards, promos, orders, drawer.
3. **`OfflineSync`**: device queue, `POST /sync`, idempotency keys.
4. **`Subscription`**: platform invoices, sweep, webhook.
5. **`Turnover`**, **`Preventive`**: the room's day and the work on it.
6. **`Gateway`**, **`TenantGate`**, **`Accounts`**: what stands between a hotel and the
   outside.
7. **`Stock`**, **`Distribution`**, **`Inbox`**, **`CityLedger`**, **`Loyalty`**, **`Staffing`**,
   **`Attendance`**, **`Pricing`**, **`Campaigns`**: the back office.
8. **`Kiosk`**: one page and its late answers.

All of these are checked, and the safety properties of the runs are proved. Left: the refinement of more than the calendar, above
all an abstract tenant account (open, overdue, suspended) that `Subscription` implements while handlers keep apart,
for which `ApartInv` is the invariant, and an abstract "one effect a key" that `OfflineSync`, `Gateway` and `Inbox`
share; `Booking` and `Turnover` composed over the room status; reviews and dining tables
(section 6).

## 3. The modules

| module | what it is |
|---|---|
| `Booking` | reservations, front desk, night audit, hold confirmation, room status, hold sweep |
| `RoomCalendar` | abstract specification: every instant of a room belongs to at most one booking |
| `Ledger` | folios and everything posted to them, the drawer |
| `OfflineSync` | device queue, sync endpoint, idempotency keys |
| `Kiosk` | the self-service page and the answers it awaits |
| `Gateway` | checkouts and bank transfers reported again and again |
| `TenantGate`, `Accounts`, `Subscription` | the cached gate; logins and their rotation; a hotel's account on the platform, its invoices and the billing sweep |
| `Turnover`, `Preventive` | room status, cleaning tasks, tickets, the check-out event; scheduled maintenance and escalation |
| `Stock` | inventory, deliveries, kitchen orders, pours, counts |
| `Distribution`, `Inbox` | agency reservations; guests' messages |
| `CityLedger`, `Loyalty` | invoices and company balances; spending, points and tiers |
| `Staffing`, `Attendance` | shifts; clock-ins and payroll |
| `Pricing`, `Campaigns` | calendar, suggestions and quotes; campaigns and consent |
| `Postings`, `WebApp`, `Platform`, `BackOffice` | modules side by side, for any constants: two offers of the ledger; queue and kiosk; the four parts of the platform; the eleven of the back office |
| `MCBooking`, `MCSettled`, `MCLedger`, `MCOfflineSync`, `MCWebApp`, `MCPlatform`, `MCSubscription`, `MCBackOffice` | the instances: values a configuration cannot spell, and symmetry |
| `BookingProofs`, `LedgerProofs`, `SyncProofs`, `KioskProofs`, `PlatformProofs`, `OfficeProofs`, `MoneyProofs` | the theorems |
| `SumTheorems` | what the sum of a finite set is, proved from the definition of the community modules |

Conventions. A handler is a record with a program counter and the locals it
read. `XStart` / `XRead` is the code up to the `await` before the transaction with its guards;
`XCommit` / `XWrite` is the transaction (a `Lock` step in between where a statement of the transaction
locks a row before a later one reads). Handlers whose reads follow each other are one step: the
first read's staleness is what the later write depends on. Where the code has no transaction, each
statement is an action. `Die`, `Crash` and `Fail` actions end a handler at any await. `MaxBusy` bounds the handlers
in flight; `MaxBusy = 1` is a serial system. Definitions
commented *Fault* are plausible bugs of one definition; they are not used by any
specification and only serve to show that each property would notice the bug.

**History variables.** Much of what the code promises it promises only while two requests do
not meet on the same row, and nothing in it keeps them apart. A property that simply assumed one
request at a time would say nothing of the interleavings that *are* harmless, and one without a condition would be
false. So most modules carry a history variable that records, per row, the encounter the code does not
guard against (`exposed`, `torn`, `crossed`, `blind`, `raced`, `slipped`, `muddled`, `late`, ...), and the
property is stated for every other row and behaviour. What a history variable records is written beside its
declaration; it guards nothing and changes no other variable.

**Side by side.** TLC explores several modules in one run: `BackOffice`, `Platform`, `MCSettled` and
`WebApp` instantiate modules that share no table and no state, and a variable `part` says, from the initial
state on, which of them moves. The state graph is that of each module, one beside another. `Postings` does the
same with two instances of `Ledger`. These modules are generic: their constants are those of their parts, under assumptions of their
own, so that what is proved about them holds for every instance; the values are in the configurations.

### Booking

`res[i]` is a reservation row (status, room, stay, and whether its hold is absent, live
or lapsed), `roomStatus`, `day` (the business date) and `sess`. The stay is a pair of instants
`0 .. Horizon`; `Clash` is the interval test of `findAvailableRooms`, `Excludes` the
range constraint of the database, and `Admits` decides every write as the constraint does.
The constraint is always evaluated on the *stored* row, the handler's guard on what it
read: exactly the gap the code has. `create` tries its candidate rooms in room-number order,
one insert at a time, dropping a room whose insert is refused. `modify` writes the stay and the
room from its request or its read (the two give the same set of values, so the model takes
any). `confirm` is the hosted-payment webhook and the transfer reconciliation, which read the
status and then update by id. The sweep lists the lapsed holds and runs `cancel` on each.

Abstracted: prices (in `Ledger`), guests, history and audit rows, room types (every room
is of the type asked for), and the rate limit and validation of requests.

### Ledger

`folio[f]` holds the three stored totals; `lines`, `payments` the sums of the rows they
repeat (kept beside the totals so that drift can be seen); `quoted` the reservation's price;
`order`, `used`, `card`, `shift` the rest. `Paid` and `Charged` are what the statements write,
given the totals that were *read*. Two forms occur in the code and both are modelled: absolute
writes from a snapshot (payments, promos, orders, price adjustments) and increments in place
(guest portal, gift card, `usedCount`). `Unlocked` is the row lock of an open transaction.
A crash rolls back the open transaction and drops the statements not yet reached.

Abstracted: a row is its amount; one currency; the opening float is on both sides of a
variance and left out; a restaurant order costs 1 and so does a portal purchase.

### OfflineSync

`outbox[o]` is what the device knows of write `o` (and whether its IndexedDB row exists),
`queue` the order of enqueueing, `req[r]` a request: its batch, the results so far, whether its
client still waits, and where it is between lookup, transaction and stored response.
`applied[o]` counts commits. Answers and requests may be lost, flushes may overlap, the server
may crash between any two awaits. `exposed` records the writes that were carried
by two requests at once or were running when the server crashed.

### Kiosk

`screen`, `active` (whom `activeBooking` is for and the status it was found in), the flags of the page and
`call[c]`, an answer that is awaited with what its closure captured. The boolean flags `idCaptured`, `hasSignature` and
`agreedToTerms` are kept as *who was on the page when they were set*, of which the code only asks whether they are set. `resetToIdle`
clears the page and leaves calls alone; their answers write to whatever page there is. A check-in whose
request fails is queued by `apiWrite` and counts as made, so the key appears before the server knows of it (`promised`);
a walk-in's booking has no key, so one whose answer was lost is booked again (`lost`). `late` records
that, in this session, an answer came to a page that had moved on.

### Gateway

`handler[h]` walks through a webhook or a reconciliation: look up the key, record the payment, store the response, confirm
the hold, mark the account, answer. Each step may fail, and the provider then delivers again. `KeyOf` is the
idempotency key the code derives: the reference of a checkout; the session id of a transfer or, without one,
account and amount. The double-payment, lost-confirmation and key-collision cases are all in the model.

### TenantGate, Accounts

`TenantGate`: `cache` with its expiry, `req[q]` between the look-up, the read and the fill; `was[t]` is the set of terms the
row had in instant `t`, against which a judgement is held. The expiry counts from when the row was *asked for*
(`tenant.guard.ts:104` computes it from the time noted before the await).
`Accounts`: a login or a refresh verifies, and inserts its session some awaits later. Each session carries the login it descends
from and the revocation count at that login (history), so that "one live session per login" and "a revoked
login does not return" can be said through any number of rotations.

### Subscription

`hotel[h]` is the account (status, approval, why it is suspended, plan, paid-through date),
`inv[n]` an invoice, `charged` what the payment provider has charged and not yet seen
answered, `sess` the locals of the operators' requests, of the sweep and of the webhook handler.
None of these handlers opens a transaction, so each of its statements is an action and a crash
leaves the first of two without the second; suspend and cancel are one statement whose
`findUnique` only checks that the hotel exists. `issueInvoice` is shared by approve, setPlan, the sweep
and an operator: the `left` of a session is what its caller still has to do. `apart` is a
history variable: no two handlers have overlapped and none has died. `MCSubscription`'s `ServedNext` is `Next` less the
operator's actions that its `Ops` rules out anyway.

Abstracted: time is in steps of the grace period; amounts, currencies, invoice numbers (a count
retried on its index), features, the end of a trial. An operator's
reason for a suspension is one that does not name the subscription; the code takes one
that does for a debt.

### Turnover, Preventive

`Turnover`: `room[r]` is written by check-in, check-out, tasks, tickets and `setStatus`; each transition of a
task or a ticket is one transaction and looks at no status. A check-out's event is `committed`, `dispatched`, `tasked` or
`lost`. `by` records who wrote the room last and `alone` whether only `setStatus` did since the check-in.
`Preventive`: `runDue` lists the due schedules, opens a ticket, notifies, moves the schedule on: each a step, each may fail.

### Stock, Distribution, Inbox

`Stock`: `qty` against `moved` (sum of the movement rows) and `counted`; a clerk works through a list of items, reading, then
writing back; the order's status comes last. Deliveries may be partial, orders voided line by line, handlers die.
`Distribution`: look up the external id, book, insert the link; the agency delivers again until it is answered, a feed is read again as a whole.
`Inbox`: webhooks carry batches; the provider repeats one whose answer it did not see; two first messages of a guest can create two
guests, and a conversation that exists ends the batch of the other.

### CityLedger, Loyalty, Staffing, Attendance, Pricing, Campaigns

Each is a few tables and the requests on them: see the head of the module for what is read before what is written. `Total`
in `CityLedger` and `Total`, `Percent` in `Pricing` are the pure arithmetic of `computeTaxes` and `quote`, with their rounding.

## 4. The runs

| run | instance | distinct states | shows |
|---|---|---|---|
| `booking_races` | 1 room, 2 reservations, 2 requests + cron, 2 in flight, 3 instants | 1.4 M | with any two handlers overlapping: no double booking, availability exact, every commit a calendar step |
| `booking_serial` | 2 rooms, 2 reservations, one handler at a time | 2.0 M | legal moves only; the audit closes its day; stays that move between rooms |
| `holds_settled` | 1 room, 2 reservations, 1 request + cron; 1 checkout, 1 transfer, 2 handlers, 1 fault | 56 k | liveness: a lapsed hold is released; a paid checkout is recorded, confirmed and answered |
| `booking_sweep_race` | 1 room, 1 reservation | violation | the sweep cancels a paid reservation |
| `ledger_postings` | 1 folio; every operation one at a time; payments, redemptions and drawer racing with crashes | 0.8 M | totals, charges, variance, limits when serial; balance = charges - paid in the race |
| `folio_race` | 1 folio, 2 payments | violation | a payment missing from the folio's total |
| `sync_replays` | a booking, a payment, a check-in, 2 requests, 1 crash; a kiosk with 2 sessions, 2 bookings, 2 answers awaited | 3.9 M | nothing lost, booked once, once unless exposed, failures truthful; a key goes to its guest |
| `sync_twice` | a payment, 2 requests, no crash | violation | two flushes at once record a payment twice |
| `platform_races` | gate: TTL 2, 2 requests, 1 restart; subscription: 1 hotel, 2 invoices, an operator, 1 crash, 4 instants; accounts: 2 users, 3 sessions; gateway: 1 checkout, 2 keyless transfers, 2 accounts, 1 fault | 3.2 M | fresh terms; logins, revocations and owners; a key recorded once; suspensions |
| `subscription_served` | 1 hotel, links and webhooks, paid plans, 1 crash | 0.23 M | liveness: debtors are suspended, charges settle, ended periods are billed |
| `subscription_unbilled` | 1 hotel, no crash, no sweep | violation | a plan changed during a suspension is never billed |
| `back_office` | eleven modules, two handlers each, below | 1.7 M | one property or more per module |

**Bounds.** Two reservations are enough for a conflict, which is between two rows; one room
makes every pair of stays compete, and the serial run adds a second room for moves. `Horizon = 2`
has three instants: stays that overlap, that touch at a boundary, and that contain one another.
Two handlers in flight are enough for every read / commit pair; a third cannot change what a
commit sees except through the rows, which any earlier step may already have changed. For the
theorems none of these bounds exists. In `Ledger` amounts of 1 and -1 and prices 1 and 2 give
every sign of a posting and of a price change; `MaxMoney` only stops new postings once a sum reaches it. In
`OfflineSync` three writes of three kinds cover the three ways a kind is protected (key and unique index,
key only, guard only), and `MaxApplied = 2` is one more than any property allows. In `Subscription` four instants with
a grace of one reach an invoice issued, due, overdue and past grace, and two invoices a rolled period; with one
link per invoice a replaced link does not occur in the runs. In `Kiosk` two sessions are a guest and the next, two searches or forms are a repetition
or an overlap, and a booking each makes them tell apart.

The constants of `back_office` are in `BackOffice.cfg` and, where a configuration cannot spell them, in `MCBackOffice`: a room with two stays, two tasks, two tickets and a lost event
(a second stay finds what the first left); two schedules over an interval of two periods and three periods (a schedule falls due
twice); two items, an order of both, two requests and a death (half an order); two agency reservations, one without an id, three deliveries;
three messages of two senders, of which one opts out, three deliveries; three invoices of two amounts with one retry (a collision that
succeeds and one that gives up), an exclusive and an inclusive tax; three payments, one a refund, that cross two tiers;
three shifts in four hours (overlap, touch, contain); three attendance records, two periods; two days, four suggestions, three calls (a generation
over an earlier one while one is applied), plans of each kind; two guests and two approvals. In `platform_races` a time-to-live of two in three
instants lets an entry outlive an edit and expire; three sessions are a login, a rotation and a race; two transfers of one amount without an id
have one key. Where the bound stops
the system (no row, no amount, no crash left), deadlock is not an error, and the configurations say so.

**Symmetry** is over handlers and requests (and the staff and the terms of `platform_races`), which are interchangeable, and is used in no run with a liveness property.

**Fairness.** `Fairness` of `Booking` assumes that a handler that started runs on (the event
loop and the database answer) and that the sweep runs again and again (the 3 minute cron). It
does not assume that any request is ever made. `Fairness` of `Gateway` assumes that handlers run on (weakly) and
that the provider delivers a checkout's webhook again until it is answered (strongly: a handler must be free), which is what the providers
do; nobody is assumed to pay. `MCSettled` asks each of the part that moves.
`Fairness` of `Subscription` assumes that handlers run on, that the nightly cron fires, and that
the provider delivers a webhook again until it finds nothing to settle; it does not assume that anybody pays.

**What needs one handler at a time.** `Lifecycle` and `AuditClosesDay` hold when handlers do not
overlap and fail when they do, by the same gap as the sweep: cancel and check-in pass the same
status check, an audit marks a guest who has just arrived, two audits roll one day.
`VarianceIsExact`, `PromoWithinLimit`, `CardCovered` and `TotalsTraceToRows` likewise: each check
is before the transaction it protects. `OrderPostedOnce` also needs the kitchen display
not to touch a paid order and the server not to die between posting and `PAID`. `SuspendedForDebt`
and `OperatorSuspensionStands` carry the condition in their statement (`apart`): after a crash
between paying and reinstating, `markPaid` returns early and the hotel stays suspended for nothing; and
the sweep overwrites the reason of a suspension made while it runs, so that a payment lifts
it. The properties of the other modules carry theirs in a history variable.

**Disagreements with the documentation** (`findings`, one run each): the sweep cancels confirmed reservations
although its comment says HELD ones; folio totals do not trace to payments after
concurrent ones although the reports say they do; a hotel moved to a paid plan while suspended is
never invoiced although the platform is said to invoice every plan period; a queued write may take effect twice although
`sync.service.ts` and the repository's `README.md` say once.

**Seen while modelling, in no run of its own.** What the models keep as behaviour, and a property excuses by its condition, or what
lies beside the models:

- Money. Two transfers of one amount into one account without a session id share a key, and the second is answered and never
  recorded (`dynamic-accounts.service.ts:174`); two requests can open two accounts for one reservation (`:51`); a payment that arrives after its hold was released is booked on a
  cancelled reservation (`payments-gateway.service.ts:105`); the portal writes a line and the totals in two statements (`public.controller.ts:355`); refunds do not undo points or
  `totalSpent`; the daily journal forces its balance.
- Stock. `inventory.service.ts:139` says "atomically" and reads before it writes; a partial delivery is received in full and then again; a submit that read DRAFT can undo an approval;
  `loss.service.ts:104` counts pours twice.
- Rooms. Resolving one of two tickets returns the room; cancelling a ticket leaves the room in MAINTENANCE.
- Staff. Clock-in looks for no open record; payroll leaves out records that span the boundary of a period (`staff.service.ts:280`) and applies 40 hours to a month;
  `users.service.ts:137` takes the last owner away, which `:195` refuses.
- Tenants. `tenant.guard.ts:97`, said to be called after edits, has no caller.
- Guests. The WhatsApp webhook answers before it handles, and an error ends the batch; a phone may have two `Guest` rows, of which a STOP reaches one.
- Prices. `setCalendar` without a price resets a day to the base price; `decide` looks at no status; dates of suggestions shift a day when the server's clock is ahead of UTC (`revenue.service.ts:330`).
- Marketing. `approve` opens a SENT campaign again. `batchAutoRespond` posts replies nobody approved.
- Web app. Only the browser's `online` event or a click on the pending badge starts a flush (`hooks.ts:10`). The kiosk's timer is said to measure inactivity and measures time on
  a screen (`Kiosk.tsx:140`); an answer after a reset shows a key to whoever stands there; a walk-in is given a key for a booking that is only HELD and without a room; a search takes the
  oldest stay that matches; the camera cannot become active, since the element it needs is drawn only once it is; add-ons are posted to an endpoint that does not exist, and the failure is
  swallowed; the checkout screen checks nobody out.

## 5. What is proved

Each `*Proofs` module proves its theorems from the named assumptions of the module it extends, for any number of rows, handlers and steps
and for every bound. A theorem with an assumption of its own names it. Every property of a passing run that is
not about liveness has its theorem; the table gives them, and the rest of the section the argument.

| theorem | property of a run | assumes besides |
|---|---|---|
| `BookingProofs!TypeCorrect`, `NeverDoubleBooked`, `AvailabilityIsExact`, `BookingImplementsCalendar` | `TypeOK`, `NoDoubleBooking`, `AvailabilityExact`, `ImplementsCalendar` | - |
| `BookingProofs!SerialLifecycle`, `SerialAuditClosesDay` | `Lifecycle`, `AuditClosesDay` | `MaxBusy = 1` |
| `LedgerProofs!BalanceStaysDue` | `BalanceIsDue` | `OneSided` |
| `LedgerProofs!SerialTotals`, `SerialCharges`, `SerialLimits` | `SerialTotalsTrace`, `SerialChargesQuoted`, `SerialWithinLimits` | `OneAtATime`, no crash; no kitchen display for the last |
| `SyncProofs!AppliesOnce`, `OutcomesAreTruthful`, `KioskServesGuests` | `AppliedOnce`, `OutcomeIsTruthful`, `KioskServesItsGuest` | - |
| `PlatformProofs!TermsAreFresh`, `LoginsAlwaysHold`, `AnsweredAlwaysSettled`, `PaymentsRecordedOnce`, `PaidStaysPaid`, `RowsStayTyped` | `JudgedByFreshTerms`, `LoginsHold`, `AnsweredIsSettled`, `RecordedOncePerKey`, `PaidIsFinal`, `RowsTyped` | - |
| `PlatformProofs!SuspensionsAlwaysHold` | `SuspensionsHold` | operators do not give `"subscription"` as a reason |
| `OfficeProofs!OccupiedWhileInHouse`, `WorklistIsKept`, `IngestsOnce`, `ApprovalSendsOnce`, `MaintenanceIsNeverSkipped`, `ShiftsStayDisjoint`, `MessagesAreHandledOnce`, `RowsStayTyped` | `InHouseIsOccupied`, `RoomOnWorklist`, `IngestedOnce`, `OnePerApproval`, `MaintenanceNeverSkipped`, `ShiftsDisjoint`, `HandledOnce`, `RowsTyped` | - |
| `MoneyProofs!InvoicesAlwaysTrace`, `LoyaltyAlwaysTraces`, `HoursArePaidOnce`, `PricesAlwaysHold`, `BooksAlwaysAgree`, `LowStockIsSignalled`, `OrdersPostOnce` | `InvoicesTrace`, `LoyaltyTraces`, `HoursPaidOnce`, `PricesHold`, `BooksAgree`, `LowStockSignalled`, `PostedOnce` | - |

Every assumption is one the run of the property satisfies. `MaxBusy = 1` and `OneAtATime` are the serial systems of `booking_serial` and of the serial offer of
`ledger_postings`; the races that break these properties are in section 4. The reason of a suspension is free text in the code
and one that names the subscription is taken for a debt (`platform-billing.service.ts:138`), which is why operators are assumed to give others. An assumption that
is part of a model (`0 \notin Companies`, rows numbered from 1, thresholds in order) is stated where the constant is declared.

**How the proofs go.** The properties say what survives although a handler writes from what it read long before, so none of them is
inductive: what is missing is what a handler in flight still knows when it writes. Every invariant below therefore has the same
three parts: the types; for every statement a handler may be at, what is left of the guard it passed; and the property, restated for the
middle of a transaction that is several statements. Where a property excuses rows by a history variable, the strengthening is stated for all
other rows, and the action that makes two handlers meet puts the row among the excused.
The parts of `BackOffice`, `Platform`, `WebApp` and `Postings` are proved one by one: a step of the composition is a step of the part or leaves
its variables alone (`CityLedgerMoves` and its like).

**`BookingProofs`.** `NoDoubleBooking` is not inductive by itself: a commit writes row `i` from
locals, so one must know that row `i` exists, that its dates form a stay and its room is a room
when the transaction runs. That is `LocalsOK`: what survives of a guard
that was evaluated long before. `TypeInv` is `TypeOK` with `LocalsOK` for every handler and is
inductive (`TypeStep`: one lemma for starting a handler, one for its commits, one for the sweep, one
for time). `NoOverlap` is the exclusion constraint over every pair of rows. Every step either writes
one row that the constraint admits (a row let go of always is) or no row (`NextWrites`); a write the constraint admits keeps `NoOverlap`
(`WriteKeepsNoOverlap`), and two spans of a room share an instant exactly when the stays
overlap (`SpansMeet`), so `NoOverlap` gives `NoDoubleBooking`. The refinement reuses `NextWrites`: an admitted
write is `Take`, a release is `Release`. `HoldsExpire` needs only that a row becomes HELD with an expiry and that a write which clears one also
leaves HELD; no run checks it, since the theorem covers every instance.
The result says where safety comes from: no guard of any handler is used, only the
constraint. `Lifecycle` and `AuditClosesDay` are the other way round: they come from the guards alone, and from `SerialInv`, which says that at most one handler
is in flight and that the status, the date and the list of arrivals it read are still so.

**`LedgerProofs`.** `BalanceStaysDue`: the stored balance is charges less payments in every race with crashes, as long as the postings are
`OneSided` (only payments, only charges, or one request at a time). The strengthening is that the snapshot of every payment in flight agrees with the folio in its *charges* (and
of every charge in its payments): no posting of one side moves what the other's snapshot is used for, so an absolute write that loses an update still writes a
consistent pair. `SerialContract` and `SerialOrder` are about `Ledger` alone, with one request at a time: `SerialInv` says that what
the one handler in flight read is still true when it writes, and that a folio traces to its rows except between the two statements of a portal
purchase. `SerialTotals`, `SerialCharges` and `SerialLimits` say it of the serial offer of `Postings`, which no step of the racing one touches (`OfferInv`).

**`SyncProofs`.** From `SyncInv`: `Shape` (a write is queued once, is once in a batch, and a write still
`sent` has one request), `Effects` (an answer of success, a stored response and a deleted row stand for a commit) and `Unexposed` (a write
never exposed is in one live request at most, and where that is between look-up and stored response decides whether it has taken effect). `Unexposed` is the argument
for the idempotency key: the key protects exactly the replays that follow each other.

**`KioskProofs`.** `KioskInv` says of a page no late answer came to that a call of this session finds it as it left it, or one screen
on (`CallFits`), that the booking on it is the one searched for with its own document and signature (`PageFits`), and that two searches that are both not superseded are
one (`OneSearch`). That a form books one room holds of late answers too, so it stands outside of that condition (`OneForm`, `RoomOf`): the button waits for the answer, and
once it came only the next guest can get back to the form. `SyncProofs` carries it over to `WebApp` by instantiating `KioskProofs` with
the same substitution.

**`PlatformProofs`.** *Gate* (`GateInv`): an entry expires TTL after it was asked for and was read at that instant or later, so one that is still good was the truth less than TTL
ago, whichever request wrote it last. *Subscription* (`SubTyped`, `ApartInv`): `Fits` is what the locals know at each statement, above all that a handler between an
invoice and its hotel has that hotel's invoice. `PaidIsFinal` needs that no statement but the creation of an invoice and the sweep writes an unpaid status, and that
those never meet a paid row (`InvoicesKept`), in every race. `SuspensionsHold` needs that while handlers kept apart, whoever is suspended for debt owes or is about to be
lifted by the one handler in flight, whoever the sweep has listed owes, and a payment about to lift found the suspension to be for debt.
*Logins* (`AccountInv`): the sessions of a login and the refreshes under way form a line: one live session or one refresh, or a refresh with the session it is about to revoke (`LineIsOne`);
while deactivations keep apart, an owner other than the one in question remains (`OwnersKept`). *Payments* (`SettledInv`, `OnceInv`): a handler at its answer has settled its payment, and
nothing takes that back (`SettledStands`); a key that two never carried has no row while its one handler is before the insert, and one
that is stored or will be after it (`OneRow`). The rows of a key are a sum over the payments that have it.

**`OfficeProofs`.** *Turnover*: `RoomOnWorklist` is inductive beside the types, because whoever moves a room moves its task or ticket in the same transaction;
`InHouseIsOccupied` also needs what the `setStatus` in flight read. *Distribution* (`IngestInv`): while the deliveries of a reservation keep apart there is one, past its
lookup there is no row yet, and bookings exceed rows by the delivery that is between the two. *Campaigns* (`CampaignInv`): a guest who is still to get a message has an approval left for
it. *Preventive* (`MaintenanceInv`): the tickets of a schedule are as many as its moves, its broken runs and the one in between; what a run has left
was due and still is; the tickets of an unbroken schedule lie an interval apart. *Staffing* (`ShiftInv`): what is left of a check when the insert runs is that the new shift overlaps only those
inserted since, which are its `blind` ones. *Inbox* (`CountInv`, `SenderInv`): a message never in two webhooks is in the hands of the one whose
batch it is in, and how far that one has come is what was recorded of it; the first message of a sender finds the phone unknown and is alone with
it until it has made the row.

**`MoneyProofs`.** *City ledger* (`InvoiceInv`): the numbers are 1 to how many there are, and a number that was counted, however long ago, is at most one beyond: if it is not taken it is the next.
*Loyalty* (`LoyaltyInv`): the points the redemption in flight will take are there. *Attendance* (`AttendanceInv`): a record made while none was open and no clock-out held one finds those
before it closed for good. *Pricing* (`PricingInv`): a source nobody disturbed is applied or about to be marked; a generation
that met no other has, of the pending rows, only its own, for days it is through with; and a quote adds up over the nights of its parts. *Stock* (`StockInv`): of an item held by one request, the quantity
lacks the movement that request has inserted and not yet written, and a count in flight expects what the item was less what has moved since (`ItemAgrees`); an
order one request has at a time is posted for the items behind it and not for those ahead (`OrderPosted`, `MealServed`).

**`SumTheorems`.** Balances, points, hours, quotes and the rows of a key are sums of a function over a finite set, `SumFunctionOnSet` of the community modules, which is a
recursive function on subsets in which every step chooses an element. That such a function exists, that it is unique and that the order does not matter is proved here, by induction on the subsets of a finite set:
`SubsetInduction` follows from the library's well-foundedness of the strict subset ordering and speaks of the *set* of subsets that have a property, so that it takes no operator as a parameter. `SumAdd`,
`SumRemove`, `SumSame`, `SumUnion`, `SumZero` and `SumNat` are what the other modules cite.

**Only model-checked.** Liveness: `LapsedHoldIsReleased`, `PaidIsSettled`, `DebtorIsSuspended`, `ChargeSettles`, `EndedPeriodIsBilled`. They rest on fairness and `ENABLED`, which the prover
does not reach. The disagreements of the violation runs are counterexamples, of which there is nothing to prove.

## 6. Not modelled

- Most pages of the web app, the reports, dashboards, exports and the audit trail: they read, format and append. They are the larger part of the code's lines, so that the definitions here
  stand for about a tenth of it.
- Dining tables, the waitlist, complaints, surveys, staff reports, the security desk: single-row updates of a status without a rule between two of them (a table stays OCCUPIED after its
  order is paid). Reviews: an approval may meet a draft that was replaced meanwhile.
- Email, printers, smart locks, exchange rates, the sending of queued messages: outside services.
- Room creation and removal, rate plans, suppliers, menu items, quotations, leave requests: records, taken as constants.
- In `OfflineSync`: a tab closed while a write is being sent, and a session that expires during a flush. In `Kiosk`: the WhatsApp message, which takes its number and
  code from the page. That a write queued by a failed request is ever replayed is not claimed: no scheduling of the code makes it happen.
- `Booking` sees the room status as an input, and `Turnover` the stays: each keeps the other's side free to move at any time, and the two are not composed.
