# A verification of the Smart Parking Management System

TLA+ modules, TLC runs and TLAPS proofs about the Smart Parking Management System:
its backend (`src/backend`, NestJS, Prisma and PostgreSQL) and its web client
(`src/frontend`, Next.js and React Query). Backend paths below are relative to
`src/backend/src/modules`, client paths to `src/frontend/src`, unless they say otherwise.

## 1. The system

| Part | State | Operations | Interacts with |
|---|---|---|---|
| Reservations (`reservation/reservation.service.ts`) | `Reservation` rows, check-in codes | `create`, `cancel`; two unused payment handlers | slots (lock, cached status), lots, codes |
| Checkpoint (`checkpoint/checkpoint.service.ts`) | `QrCode`, `Payment` rows | `checkIn`, `checkOut` | reservations, slots, billing, cards |
| Monitoring (`reservation/reservation-monitoring.service.ts`) | `Challan` rows, `isRunning` | `monitor` every minute: `cancelNoShows`, `processActiveBookings`, `resolveGraceExpiry`, `markOvertime`, `extendBooking` | everything above, from lists it read earlier |
| Billing (`reservation/billing.service.ts`) | none | `calculateFinalCharge` | challans |
| Users, authentication (`users/`, `auth/`) | `User`, `PaymentMethod`; stateless tokens | `register`, `login`, profiles, staff accounts and roles, `block`, `removeSelf`, `savePaymentMethod` | tokens outlive the role they carry; `block` cancels reservations, `removeSelf` cascades to them |
| Slots (`parking-slot/`) | `ParkingSlot.status`, `restrictedReason` | `updateStatus`, `bulkUpdateStatus`, `search` | slots that reservations also write |
| Lots and floors (`parking-lot/`) | `ParkingLot`, `ParkingFloor`, slot grids | create, change, resize, remove | managers, bookings (foreign keys, `isActive`) |
| Policies (`policy/`) | documents with their chunks | upload, removal, search | uploader; the assistant |
| Assistant (`assistant/`) | conversation threads in memory | chat, resume after a question | its tools call the services above |
| Notifications, realtime gateway, audit log | `Notification` rows; socket rooms; append-only rows | `notify`, `markAllRead`; `emitToUser`; `log` | inside or after the transactions of the others |
| Web client (`src/frontend`) | session cookie, query cache, pages, the booking form, the assistant's panel | 22 pages, 13 queries, 31 mutations | every route; events pushed over a socket |
| Maps, occupancy log | none; a table nobody writes | distances, geocoding | leaves |

All backend parts share one PostgreSQL database. There is no message queue; concurrency
comes from HTTP requests and the cron, whose statements interleave at READ COMMITTED, the
isolation level Prisma leaves in place. In the client, it comes from answers, timers,
events and the user, between any two of which a tab may render.

**What is hard here.**

- Handlers check in one statement and write in a later one, protected, if at all, by a
  `SELECT ... FOR UPDATE` on one row. The sweep, the overtime decision and `block` write
  rows by id from lists read earlier, with no condition on what the row has become. One
  status column of a slot serves several reservations. The cron's guard is a field of
  one process.
- Staff operations check keys, roles and grids long before they write, some of them
  with parsing or hashing in between; only the schema's keys exclude what overlaps.
- A conversation with the assistant is one thread per user, whatever the tab. The answer
  to a question is a bare value that goes to whatever question is open when it arrives.
- The client's data is a cache that every mutation has to invalidate by hand; access rules
  are written down five times (routes, tools, middleware, navigation, conditions in pages).

Sections 4 and 6 say which of these are harmless and why, section 5 what they break.
`PROJECT.json` lists each hazard at its line.

**What makes each part correct.**
- Reservations: no slot double-booked, whatever reads are stale.
- Checkpoint: a code is used once; row and code change together; a completed stay
  was paid, once.
- Monitoring: no-shows are released and overstays resolved, each cycle once; every
  extension is billed; nobody is billed early; no valid booking is swept.
- Users: deletion leaves nothing behind, creation leaves no orphan; nobody but its owner
  changes what a customer's account is.
- Slots and lots: a RESERVED slot is backed by a reservation; a floor is a full grid.
- Assistant: nothing changes unless its own question was answered with yes.
- Client: what a page offers is permitted; what a tab wrote it shows; what is sent is
  what was shown; an ended session is noticed.

## 2. Modules

**The reservation system**

| Module | Models |
|---|---|
| `ParkingState` | constants with their assumptions, the tables as variables, in-flight requests (`tx`), ticks (`job`), row locks, the writes that three handlers share, `TypeOK`, `Init` |
| `ReservationService`, `CheckpointService` | `create`, `cancel`; `checkIn`, `checkOut`, `loadValidQrCode` |
| `ReservationMonitoring` | the cron, one action per transaction or query |
| `UsersService`, `ParkingSlotService` | `block`, `removeSelf`, `savePaymentMethod`; `updateStatus`, `bulkUpdateStatus`, the `isActive` switch |
| `Parking` | composes them: `Next`, `Spec`, fairness, properties, `ParkingInv` (of `BookingInv`, `ChargeInv`, `AccountInv`, `MonitoringInv`), the mapping to the ledger |
| `BookingLedger` | the abstract specification: what the customers are promised |
| `MCParking`, `ParkingClaims` | symmetry for TLC; what documents and comments say |
| `ParkingProofs`, `BookingProofs`, `LedgerProofs`, `AccountProofs`, `CodeProofs` | the theorems |

**Administration**

| Module | Models |
|---|---|
| `AdminState` | users with their roles and emails, tokens, lots, floors, grids, booked slots, documents, requests in flight |
| `ParkingLotService`, `AccountService`, `PolicyService` | every writing handler of lots and floors; login, registration, profiles, staff, roles, blocking, deletion; documents |
| `Administration`, `MCAdministration` | the composition with bookings, properties, `AdminInv`; inputs for TLC |
| `AdministrationProofs` | the theorems |

**The assistant**

| Module | Models |
|---|---|
| `AssistantState` | the thread, the runs, the streams, and what each tab shows |
| `AssistantService` | the two endpoints and the graph: checkpoints, interrupts, tools, the step limit, timeouts, a restart |
| `AssistantChat` | the panel (`use-assistant-chat.ts`, `api.ts`): sending, answering, location, events, timeouts, reloads |
| `Assistant`, `AssistantClaims`, `MCAssistant` | the composition, its fairness, properties and `TurnInv` |
| `AssistantProofs` | the theorems |

**The web client**

| Module | Models |
|---|---|
| `Endpoints` | every route with who passes its guards and the kinds of data it reads or writes |
| `AssistantTools` | every tool with its roles and the route that wraps the same service |
| `Queries` | every query and mutation hook with its route, cache key and what success does to the cache |
| `Pages` | the middleware and, for every page and role, its queries, mutations and links |
| `QueryCache` | one entry of the query cache |
| `Client` | a tab: its page, the account it shows, an entry, a mutation, events; the cookie it shares with other tabs, the accounts behind it, other clients |
| `BookingWizard` | one visit of the booking page |
| `WebClient`, `MCClient` | both as one specification, `WebInv`; values for TLC |
| `ClientProofs` | the theorems |

How state and actions correspond to the code:

- **Two steps per transaction.** `XBegin` takes the lock the code takes and does the
  reads and checks under it; `XCommit` does the writes. A check that the code makes earlier is
  a step of its own: `create` is `CreateArrive` (the clock is read and the arrival checked,
  `reservation/reservation.service.ts:67`), `CreateRead` (slot and lot, unlocked),
  `CreateBegin` (the slot's lock, waited for, and the overlap check) and `CreateCommit`; time
  and other requests pass between any two of them, so that a booking may begin before the
  moment it is inserted. What the handler keeps across its
  awaits is the record in `tx[p]` (`req[p]` in Administration). An update by id, or an
  `updateMany` with a condition on the row, is evaluated when it runs, so at the commit
  step, against the rows of that moment. A write that meets a row locked by another
  request waits: the lock is a guard of the commit. Reads take no lock.
- **Locks are not variables.** Who holds a lock follows from the requests in flight
  (`RowLocked`, `QrLocked`, `SlotLocked`, `HoldsRowOf`).
- **Deadlock, timeout, crash, a violated key** end a transaction without a trace:
  `Abort`, in Administration `Fail`. For the cron, `MonitorFail` ends the tick and resets
  `isRunning`, as its `finally` does. A process that crashes is several such steps.
- **Rows are model values** that may exist: `NONE` before the insert, `DELETED` after it
  was removed. Both mean that there is no row.
- **Time** is an integer of hours in `Parking`, since an automatic extension is one hour;
  the other periods are constants. A request sees the clock move at most once while it is
  in flight (Prisma's interactive transactions time out after five seconds), a tick any
  number of times.
- **`totalPrice`** is the number of reserved hours. An amount is kept as what it is the sum
  of: the base charge plus the set of challans that were read (`Payment.billed`).
- **A scan that finds its code expired** writes EXPIRED and then throws inside the same
  transaction, so the write is rolled back and nothing happens: no action.
- **A tick's list and its clock** are two steps, `ListActive` (`findMany`) and `ReadClock`
  (`new Date()` after it, `reservation/reservation-monitoring.service.ts:124-129`): what
  commits in between is not on the list, and yet may have begun before the clock is read.
- **Tokens** are what they carry, the account and the role at login; `Expire` removes one.
  Blocking is checked at login only, so a blocked account's token goes on working.
- **A grid** is the set of its positions. `updateFloor` removes and adds the positions it
  computed from the rows it read, at the size it read or was given. The duplicate check
  of `createLot` is at the begin step, so that two creations may both pass it.
- **The model** (the language model) is free: it may answer, call any tool its user may
  use, or fail. Tokens and tool notices only show text and are left out. One message of it
  may carry several calls (`assistant/assistant.service.ts:216-222` loops over them), and those
  that ask (`ModelAsks(q, C, c)`) wait in one node of LangGraph's. The checkpoint is `thread`:
  the call that waits for the next answer, those of its message that were `granted`, and those
  that come `later`. The tab is told of one question at a time (`interrupts[0]`, `:199-202`). An
  answer runs the node from its start: interrupts answered before return what they were
  answered with, so every approved call is *started again* (`Starts`), and the next one
  interrupts (`ResumeAsksNext`) or, after the last, the turn goes on (`ResumeChat`). This is
  taken from LangGraph's documented semantics of `interrupt` in the version that
  `src/backend/package.json` asks for, whose prebuilt agent runs the calls of a message in
  one node, at once.
- **A cache entry** remembers, instead of values, which writes its data does not show
  yet, by author (`lacks`), and the same of an answer in flight. So "stale" is a fact
  about the model's state. A behaviour of `Client` follows one query, any of them, since
  entries do not touch each other; a mutation's write and its request are one step, its
  answer another, and the answer may be lost.
- **A session** is four things that may disagree. `cookie` is the token the tabs of a
  browser share, with its owner and the role it was signed for, which is all that middleware
  and guards go by (`middleware.ts:27`, `auth/strategies/jwt.strategy.ts:39`). `account` holds
  the accounts' rows: a role and a card, which other tabs and administrators change without
  touching any token (`AccountChanges`). `user` is the row as the tab last heard of it
  (`/users/me`, read from the database), for the account it was signed in as when it heard;
  the interface shows this role. `served` is the role the middleware answered the page for.
  Another tab may sign in or register anybody (`SessionChanges`); `crossed` records that this
  tab has since acted for another account than it shows. `PaymentStep` is the second step of the
  registration page, which has no address.
- **The booking page**: an event handler and the effects of the render it causes are one
  step. The clock alone renders nothing, which is why `deps` (what was rendered last) and
  the form may disagree until the next step.
- **`WebClient`** runs either a session or a visit of the booking page, since they share
  nothing but the page they are on; what is not followed stays in an initial state.
- **Not state:** audit rows, message texts, ownership checks that refuse without a trace.
- **Inputs** are constants, so that a run turns off what it does not ask about.

Code outside `src/` is modelled from how the code uses it and marked external: Prisma
transactions (`Begin`, `End`, `Abort`), cascades (`HoldsRowOf`), the clock, LangGraph's
interrupts, the connection, and React Query's cache.

## 3. The runs

| Run | Asks | Instance |
|---|---|---|
| `Booking` | do slots, codes, payments and challans stay consistent, is `ParkingInv` true, and is the ledger implemented? | 1 slot, 2 reservations, 2 requests, good and bad cards, a customer who may leave, a lot that may close, clock to 3 |
| `Staff` | do backed slots, final codes and complete deletions survive blocking and restrictions? | 1 slot, 2 reservations, 2 requests, clock to 2 |
| `Liveness` | are no-shows released, overstays resolved, the guard reset? | 1 slot, 2 reservations, 1 request, clock to 2, no symmetry |
| `Administration` | do keys, references, grids, roles and `AdminInv` survive overlapping staff requests? | 2 accounts and emails, 2 lots, 2 floors of at most 2 slots, 1 document, 2 requests at once, 3 in all |
| `Assistant` | is nothing run unapproved, is `TurnInv` true, and does the panel recover? | 1 tab, 2 requests at once, 2 mutations and 1 location question, one step per turn |
| `Client` | does a tab offer what is permitted, book for accounts with cards, show its own writes; does the booking page send what it showed, once; is `WebInv` true? | every page, role and query; 1 account and 1 write, but 2 writes for the query of a reservation, 2 accounts and 2 changes elsewhere for the card's, 1 change for the bell; a visit with 2 floors of 1 slot, durations 1 and 2, clock to 2 |
| `Polling` | do ended sessions get noticed and polled data catch up? | the polled queries, otherwise as `Client`, no symmetry |
| `Claim*` | what a document says and the code does not do, one each | as `Booking`, `ClaimParked` with blocking, `ClaimOverlap` with a buffer of 2, `ClaimIdempotent` with 2 instances; `ClaimApproved` as `Assistant` |

**Bounds.** `Horizon` stops the clock of `Parking`; `RowsLeft` lets a booking begin only if
a row is left for it. Every property relates at most two reservations, and every race in
it is between two actors; a slot interacts with no other slot. A clock of 3 lets a booking
be made, checked in, run over its end and its buffer, be extended once and be followed by a
second booking; a day of two hours (`DayLength`) puts midnight inside the run.
`MaxOps` bounds the requests of Administration: three are two that overlap and one that
prepares or follows; `MaxDim` 2 with `MaxSlots` 2 makes two rows of two too large. In
Administration a behaviour may come to its end, so that run does not check for deadlock.
`StepLimit` is the model's turns between two answers of the user. `MaxWrites` bounds the
writes of a session to one per query, as an entry either shows a write or does not, and to
two for the one of a reservation, which is polled: the second write happens while the first
one is being fetched, and a card may be saved and then a booking made. `MaxAccounts` and
`MaxChanges` bound, for each query followed, the accounts that appear in the browser and what
happens to cookie and accounts elsewhere. Two of each are given to the card's query: one
account takes over from another and is changed or asked for again. What this does to pages and
accounts does not depend on the query that is followed, and few pages show this one. `MaxTime` lets an arrival pass while the form is open.
The whole inductive invariant of every proof is an invariant of a run: `ParkingInv`,
`AdminInv`, `TurnInv`, `WebInv`. Each property is known to be breakable within its run: `PROJECT.json` pairs it with a
mutant of the code that TLC refutes, e.g. `SlotNeverLocked` or `NoShowsAtCutoff`.

**Symmetry** over interchangeable identities is used for safety only.

**Fairness.** Nothing is assumed of people: nobody has to check in, check out, cancel,
answer or click.

- `Parking!LiveSpec`: weak fairness of the clock and of `Finish(p)`, since a request commits
  or aborts when its transaction times out; of `Monitoring(i)`, since `@Cron(EVERY_MINUTE)`
  fires for good. Strong fairness of the commits of `create` and `cancel`, of `ListActive`, of
  `ReadClock`, of `MarkOvertime \/ ExtendBooking`, and for every row of `CancelNoShow \/
  ResolveGraceExpiry`: failures are passing, so a step that is possible again and again is
  not aborted every time. Without it a database that fails every tick is a counterexample,
  and rightly so. With it a *row* that fails every tick is assumed away as well: such a row,
  if it comes first in its list, would keep all that come after it waiting (section 5), and
  `NoShowsAreReleased` and `OverstaysAreResolved` say nothing about that.
- `Assistant!LiveSpec`: the server takes up what arrives and its idle timer runs; a tab
  handles what arrives, and its timer runs once the response has begun. The model need
  not answer.
- `Client!Fairness`: a mounted polled query is asked for again (`refetchInterval`) and
  effects run (weak). The interval pauses while a tab is hidden, and the query is asked for
  when it is shown again, so this is about tabs that are, or are again, visible. A backend
  that keeps being asked answers, and an answer arrives, in the end (strong).

## 4. What holds

Reservations:

- `NoDoubleBooking`: reservations that hold one slot (CONFIRMED or CHECKED_IN) were booked
  for intervals at least the buffer apart, although the arrival of a booking was checked
  before it waited for the slot. It concerns booked intervals; extensions do run into the
  next booking by design, which is what OVERTIME is for. OVERTIME rows are not among them:
  a stale tick turns a paid stay back into one, possibly right before a booking that was
  accepted when the stay was COMPLETED. `ClaimOverlap` shows it.
- `ImplementsLedger`: with requests, codes, locks and ticks left out, the system is a
  ledger. A booking takes effect at one moment and apart from all that hold the slot, an
  interval is never rewritten, entries close, a stay is settled once and closed by it, and
  what the cron finds overstayed, perhaps from an old list and after it was closed, never
  holds the slot again.
- `CodesMatchStatus`, `CodesAreFinal`: CONFIRMED and an ACTIVE check-in code go together;
  used and expired codes stay so. This is not obvious for `cancel`, `block` and the
  sweep, which do not look at the code before they write; it holds because a scan keeps its
  code locked until it commits, so their update of the code waits and then finds it USED.
- `CompletedIsPaid`, `ChargedOnce`: a COMPLETED stay was charged, its check-out code is
  used exactly then, and a second scan changes nothing.
- `ReservedIsBacked`: a RESERVED slot has a CONFIRMED reservation, except after an
  account was deleted. Two bookings of a slot share one RESERVED mark: cancelling one
  makes the slot AVAILABLE though the other still holds, so the converse is false
  and is not claimed.
- `EveryExtensionIsBilled`, `BilledAfterGrace`: an end time moves by one hour per challan,
  and no challan is about an end time whose grace period is not over.
- `CycleResolvedOneWay`: with one instance, no cycle is both extended and fined.
- `SweepSparesValidCodes`: the sweep only takes bookings whose code has expired.
- `NoOrphans`, `NothingLeftBehind`: deletion is complete.
- `NoShowsAreReleased`, `OverstaysAreResolved`, `TicksEnd`: see fairness.

Administration:

- `KeysUnique`, `ReferencesResolve`: three handlers check an email and write it later, and
  rows are removed while others are about to refer to them; the schema's keys make
  the loser fail whole.
- `SlotsFormGrid`: a floor is always a full grid within the limit, although overlapping
  resizes each remove and add slots computed from what they read. The *number* of rows and
  columns stored with the floor may disagree with the slots after such an overlap
  (`parking-lot.service.ts:229`): it is written back from the earlier read.
- `StaffTokensAreStaff`, `CustomersDecideForThemselves`: role changes and removals act on a
  role read earlier; a registration that overlaps them makes no customer a manager and
  loses no customer's account.

Assistant:

- `ApprovedUnlessOverlapped`: in a conversation whose turns do not overlap and whose questions
  are not passed over, a mutation runs only after its own card was approved, and at most
  once for every call of the message it is in (so once, if it is alone there), through lost connections, timeouts, reloads, restarts and failing tools.
- `PanelRecovers`: the panel does not stay busy, except when the connection dies before the
  first byte (`features/assistant/api.ts:100-114` starts its timer after that).

Client:

- `OfferedIsPermitted`: on a page that the middleware answered for the role the tab shows,
  five descriptions of who may do what agree, but for the four exceptions listed above the
  property. When the token's role is another one than the account's, they do not
  (section 5).
- `BookersHaveCards`: as long as a tab has acted for the account it shows, no order of
  registering, reloading, signing in and out, here and in other tabs, lets a customer book
  before there is a card to charge. Without that condition it fails (section 5).
- `OwnWritesShow`: a mutation's effects are shown by the queries of its feature, but for
  the hooks in `LeavesAlone` and for an answer read before the mutation that is not called
  off. Only the same feature is claimed: a booking, for instance, does not make cached lots
  stale, whose free slots are up to 30 seconds old anyway (`staleTime`).
- `SignedOutTabsLeave`: a visible tab whose session has ended, here or elsewhere, leaves by
  itself, because the bell keeps asking.
- `PolledDataCatchesUp`: polled data on the screen comes up to date, whatever answers,
  events and mutations crossed each other.
- `SentAsShown`, `BooksOnce`: the booking page sends a slot that was shown as free for just the
  floor, time and duration it sends, and a visit books once unless an answer was lost.

## 5. What does not hold

Each `Claim*` run shows a behaviour of the code that breaks a sentence of a document, a
schema comment or a code comment:

- `ClaimFinalCharge`: a challan issued between the summing of the bill and the end of
  the checkout is not charged.
- `ClaimIdempotent`: two instances resolve the same cycle both ways, since a challan's
  unique key contains its type and `isRunning` is a field of one process.
- `ClaimOverlap`: a tick lists a parked car; the stay is paid, the slot booked again for an
  arrival less than a buffer after the old end, and the tick marks the paid stay OVERTIME, with
  a penalty that nobody collects. Two reservations that claim the slot are too close. (That
  COMPLETED, the end of a stay by `src/README.md:109`, can be left again is the first half of this.)
- `ClaimParked`: `block` lists the CONFIRMED reservations of a customer and cancels them by id.
  One that is checked in before its update ends CANCELLED with its car parked and its check-out
  code useless, though `users/users.controller.ts:242` says that CHECKED_IN reservations are left
  untouched. The sweep does the same with a row it listed as a no-show (`src/README.md:105`).
- `ClaimApproved`: an approval given on an old card, in another tab or after a turn timed
  out, runs the mutation that waits now.

Known in the same way, without a run of their own:
- The status column of a slot serves several reservations. If the next customer checks in
  early, the previous one's check-out makes the slot AVAILABLE under the newcomer's car
  (`checkpoint/checkpoint.service.ts:286`; `src/backend/prisma/schema.prisma:29` says OCCUPIED).
- If one message of the model carries two mutating calls, the answer to the second starts the
  first, approved one again (`ResumeAsksNext`, `Starts`), whatever that answer is. This is why
  `ApprovedUnlessOverlapped` counts the calls of the message and not one.
- If another tab registers, or signs in, a customer without a card, this tab still shows its own
  account, with a card, and its booking is made for the other (`SessionChanges`, then `Mutate`):
  the case that `crossed` takes out of `BookersHaveCards`.
- A manager who is made an administrator while signed in is shown the administrator's buttons as
  soon as the tab hears of the new role, and the token is refused there until the next login:
  the case of two roles that `OfferedIsPermitted` leaves out.

The same causes have smaller effects, which the model takes and no run singles out: one row
whose transaction always fails ends every tick where it stands, as the loops have no `try`
(`reservation/reservation-monitoring.service.ts:70`); an account that is deleted leaves the slots
of its reservations RESERVED or OCCUPIED, and nothing frees them (`users/users.service.ts:336`);
the sweep cancels and notifies again what its customer just cancelled; a booking committed
between the queue query and `extendBooking` is overrun by the extension; a slot reserved
between check and write of `updateStatus` goes to MAINTENANCE; a slot that was booked and
then restricted is AVAILABLE after the stay with its reason kept; `create` never reads the
slot's status, so a restricted slot can be booked; two creations of one lot both pass the
duplicate check (`parking-lot/parking-lot.service.ts:411`); the documented PENDING_PAYMENT
stage (`src/README.md:94`) does not exist; `src/README.md:210` lets managers do everything a
customer can, but `createReservation` is for customers only.

Met in the client while modelling, without a property of their own:
- A check-out whose answer is lost is told on the retry that its code is used, though the
  stay was paid.
- Changes made through the assistant invalidate no page's cached data.
- The result of the booking page shows the slot selected *now*, not the one in the answer
  (`app/(app)/parking-lots/[id]/book/page.tsx:250-255`). If the selected floor goes away and
  one is left, the tabs disappear and the page cannot go on.
- The form of the lot's edit page saves every field as loaded (`edit/page.tsx:430-443`), and a
  refetch resets unsaved edits (`416-428`); its skeleton stays after a failed first load
  (`445-454`). In the two lot forms a late geocoding answer may overwrite a newer one.
- A late 401 of an old token removes the cookie of a new session (`lib/api-client.ts:16-24`). The
  answers of a saved card and of a changed profile are written to whatever account the tab shows
  by then (`features/users/hooks.ts`). A failed `/users/me` leaves the skeleton until a reload (`auth-provider.tsx:33`, `retry: false`).
- `findAllForFloor` reads lot and slots in two requests that may disagree
  (`features/parking-slots/api.ts:21-32`).
- Managers' lot forms ask for all users and get 403; the middleware lets managers open
  `/admin/managers` and `/admin/policies`; breadcrumbs link to `/admin` and
  `/admin/parking-lots`, which have no page.

## 6. What is proved

By TLAPS: every safety invariant and every action property that the passing runs check is a
theorem of its specification.

| Module | Theorems |
|---|---|
| `ParkingProofs` | `TypeCorrect`: `Spec => []TypeOK` |
| `BookingProofs` | `BookingInvariant`: `Spec => []BookingInv`; `NoSlotDoubleBooked`: `Spec => []NoDoubleBooking` |
| `LedgerProofs` | `ChargeInvariant`: `Spec => []ChargeInv`; `StaysArePaid`: `Spec => []CompletedIsPaid`; `NeverChargedAgain`: `Spec => ChargedOnce`; `LedgerImplemented`: `Spec => ImplementsLedger` |
| `AccountProofs` | `AccountInvariant`: `Spec => []AccountInv`; `BookingsHaveOwners`: `Spec => []NoOrphans`; `DeletionIsComplete`: `Spec => []NothingLeftBehind` |
| `CodeProofs` | `CodesAgree`: `Spec => []CodesMatchStatus`; `CodesUsedOnce`: `Spec => CodesAreFinal`; `SlotsAreBacked`: `Spec => []ReservedIsBacked`; `BillsAreDue`: `Spec => []BilledAfterGrace`; `MonitoringInvariant`: `Spec => []MonitoringInv`; `ParkingInvariant`: `Spec => []ParkingInv`; `SweepIsLate`: `Spec => SweepSparesValidCodes`; `ExtensionsAreBilled`: `Spec => []EveryExtensionIsBilled`; `LoneTickResolvesOneWay`: `Spec => []CycleResolvedOneWay`, of one instance |
| `AdministrationProofs` | `TablesStayWhole`: `Spec => [](TypeOK /\ AdminInv)`; `AdminTypeCorrect`, `KeysStayUnique`, `ReferencesStayResolved`, `GridsStayFull`, `StaffTokensStayWithStaff`: the run's invariants; `CustomersDecide`: `Spec => CustomersDecideForThemselves` |
| `AssistantProofs` | `TurnsStayApart`: `Spec => [](TypeOK /\ TurnInv)`; `AssistantTypeCorrect`: `Spec => []TypeOK`; `OnlyApprovedRun`: `Spec => []ApprovedUnlessOverlapped` |
| `ClientProofs` | `WebInvariant`: `WebSpec => []WebInv`; `WebTypeCorrect`, `WhatIsSentWasShown`, `VisitsBookOnce`, `BookersAlwaysHaveCards`, `OwnWritesAlwaysShow`, `OfferedStaysPermitted`: the run's invariants |

The assumptions are of two kinds.

- *About parameters*, for every value of which the theorems hold: `ConfigAssumption` (periods
  are natural numbers, an extension and a day are positive), `InputAssumption` (inputs are of
  the right kind) and `NoneAssumption` (an absent value is none of the identities) of
  `ParkingState`; their counterparts in `AdminState`, `AssistantState`, `Client` and
  `WebClient`. `LoneTickResolvesOneWay` also assumes `OneInstance`, a deployment that the code
  does not enforce; `ClaimIdempotent` shows that the property is false without it.
- *About the client's tables* of pages, hooks and routes: `PagesAssumption`,
  `ScreensAssumption`, `HooksAssumption`. No parameter occurs in them; they are statements
  about constant tables that TLC evaluates, completely, at the start of the `Client` run. They
  are assumed and not proved because the tables are written with `:>` and `@@`, which the
  prover does not know. What is proved is the part that no table shows: that whatever
  happens to the session, the cache and the page, a tab stays where the tables apply.

### Reservations

`NoDoubleBooking` is not inductive: a booking commits long after it checked, and the
overlap check reads *current* end times and statuses, which the cron writes from lists it read
earlier. `BookingInv` adds what is needed. A row is *Held* while it is CONFIRMED or CHECKED_IN.

1. `BookingsInFlightApart`, `OneBookingPerSlot`: what a booking has checked under the slot's
   lock still holds of all Held rows, and nobody else has checked for that slot.
2. `ScansInFlight`: a check-in in flight has its row CONFIRMED and its code to itself, so it
   makes no row Held that was not.
3. `PendingRows`: a row on a tick's list was parked, so it is not CONFIRMED and a tick that
   revives it as OVERTIME makes it Held no more than it was; the end time it was listed with is
   not before the booked one, and once the clock has been read, that end and the buffer are over.
4. `EndsCoverBookings`: end times never move before the booked end, so an overlap check
   that passes on current ends passes on booked ones.

No step but `create`'s commit makes a row Held that was not. The proof takes the actions one by
one; those that only take rows away share a lemma, and the others are the two last steps of
`create`, the scans, and the steps of a tick. The proof uses neither when an arrival was checked
nor any order between a tick's list and its clock. A stronger property, of all rows that *claim* the slot, would
need that order, and is false (`ClaimOverlap`).

`CompletedIsPaid` is not inductive either: a check-out commits without reading again what
it read. `ChargeInv` says what it may rely on.

1. `CheckOutsInFlight`: its check-out code is ACTIVE, hence unpaid, and no other check-out
   has the row. The code's lock gives this; that no other write takes it away has to be shown
   of each (the cascade of `removeSelf` waits, `checkIn` overwrites codes but only of rows
   that are CONFIRMED, by `ScansInFlight`).
2. `CheckOutCodesComeLater`: no check-out code before a check-in.
3. `CancellationsInFlight`: the rows that `cancel` and `block` are about to write are there,
   so they bring nothing back; of a block, they are its customer's.
4. `NothingBeforeBooking`: a row before its insert has no owner, so a deletion takes none.

`LedgerImplemented` maps a row to an entry (`Entries`, `Paid` in `Parking`). With
both invariants, `create`'s commit is `Book`, where `Alone` afterwards comes from
`BookingsInFlightApart`; every cancellation is `Close`; a paid check-out is `Settle`, allowed once by
`CheckOutsInFlight`; `removeSelf` is `Forget`; `markOvertime` is nothing, or
`Overstay` of an entry that was held or closed, by `PendingRows`; all other steps leave
the ledger as it is. TLC checked the invariants and the refinement first (`Booking`).

`NoOrphans` and `NothingLeftBehind` speak of accounts that are gone, and hold because of what
holds of those that are not. `AccountInv`: every row that is there has its owner
(`OwnersExist`, kept by the foreign key of the insert), and a row that is not has no
code, payment or challan (`AbsentRowsAreBare`). The second needs `ScansInFlight` and
`CheckOutsInFlight`, by which a scan in flight has a row that is there, and
`CancellationsInFlight`; a tick that finds its row gone ends. The proof sorts the steps into
seven kinds (`KindOfStep`), of which only six write what a customer owns.

The theorems of `CodeProofs` reuse those kinds. Their properties are inductive by themselves
once the invariants above are there. `CodesAgree` holds although `cancel`, `block` and
the sweep never look at the code: their conditional update expires it exactly if it is ACTIVE, and
a check-in that commits had its row CONFIRMED. A row marked OVERTIME was not CONFIRMED
(`PendingRows`), so it has no ACTIVE code to lose. `CodesUsedOnce` needs that a new row's
code was never used (`AbsentRowsAreBare`); `BillsAreDue` needs the end time of `PendingRows`.

`MonitoringInv` is about ticks, which work through a list that anybody may make stale.

1. `ListedNoShowsAreLate`: a listed row was booked and is late, as no row's start changes. It gives `SweepSparesValidCodes`.
2. `ListedEndsAreCurrentOrBilled`: a listed end time is the row's, or an extension of it was
   billed: only `extendBooking` moves an end, and it bills what it moves.
3. `DecidedCyclesAreOver`: a cycle that was fined has no parked car any more, one that was
   extended has a later end. So no decided cycle is listed again.
4. `LoneTickDecidesFirst`: of what one instance's tick has still to decide, nothing is decided.

`EveryExtensionIsBilled` counts: an end time is the booked one plus an hour per extension. If a
stale tick extends a row again, the end it was listed with was billed by (2), and the challan's
unique key stops it; so every extension adds one challan and one hour. With several
instances, one may still fine what another extended, which is the exception that
`OneInstance` takes out of `LoneTickResolvesOneWay`.

### Administration

Handlers check, then parse, hash or wait, then write. `AdminInv` adds to the run's
invariants what a check may still be relied on for at the write. What the schema's keys
guard (emails, floor numbers, references) needs nothing: the loser fails whole. What no key
guards has to stay true by itself, and `ChecksStillHold` says that it does: the target of a
role change or removal is still staff or gone, since nothing turns a customer into staff or
staff into a customer; the claims of a token about to be signed are still rightful; a layout
that was within the limits is, as it does not depend on any row; the floors of a new lot's plan
have different numbers. `LayoutsWithinLimits` is needed by `updateFloor`, which takes what
the request leaves out from the row: that the *slots* are a full grid does not say that the
stored rows and columns, which may be another grid's, are within the limit.

### The assistant

A resume is a bare value. `TurnInv` says why it still means the call it was given for while
turns do not overlap, of all the calls of its message: one turn at most is under way
(`OneAtATime`), counting a question that is still on its way in a stream; a question that
arrives or is shown, and an answer that was sent, belong to the call the thread waits in, or the
thread waits for nothing (`AnswersReachTheirCall`); every call that ran or waits was made by
the model, together with the others of its message (`CallsAreMade`); and a call of the message that
waits has been started at most once for each call answered so far, one less while an answer may
still come (`RunsFollowAnswers`, `AnswerMayCome`). The last two bound the runs although every
answer starts again what was approved before. `overlapped` is raised by the step that begins the second turn, so each part is
guarded by it. The theorem is for any number of tabs, requests, calls and steps per turn.

### The web client

`WebInv` has four parts, for as many floors, slots, times and writes as there may be.

1. `VisitInv` (`BookingWizard`): what was rendered last is what the form holds, without the
   arrival if it had passed by then; a chosen slot was chosen under what was rendered last; a visit has made at most one reservation for the answer it heard and one for a lost one.
   The counting is by cardinality of the set of a visit's bookings.
2. `SessionInv`: only a tab that knows an account has a mutation; what `/users/me` and a profile's
   answer tell of a card is true of their account (`TrueOf`), for an account never loses its
   card; and while the tab has not `crossed`, the same holds of what it shows, and its
   mutation is the shown account's, which has a card if it books. Every way in which cookie,
   accounts and the shown account come apart, the registration in this tab and a late answer
   included, has to keep it.
3. `RouteInv`: a page inside the shell is one that the middleware lets the role see that it was
   answered for. Not trivial: links, effects and mutations move the page by different ways,
   some as a visitor, and the session may change without the page. With `ScreensAssumption` it
   gives `OfferedIsPermitted` where the tab shows that role.
4. `CacheInv`: of this tab's writes, an answer in flight can lack only the one
   under way, and data that lacks another is marked or may linger. A success marks, patches or
   lets linger (`HooksAssumption`); an answer read before the write is not expected to show it
   any more (`Excused`).

### What is only model-checked

Liveness (`NoShowsAreReleased`, `OverstaysAreResolved`, `TicksEnd`, `PanelRecovers`,
`SignedOutTabsLeave`, `PolledDataCatchesUp`), since fairness and ENABLED are beyond the
prover; the tables of the client, evaluated as said above; and the `Claim*` runs, which are
counterexamples. Nothing here needs induction over data.

## 7. What is left

Proofs next, in this order:
1. An abstract specification of the assistant, in which an answer starts the approved calls of
   its message and nothing else does, and `Assistant` shown to implement it while turns do not overlap (from `TurnInv`).
2. Of a floor in Administration: an abstract grid that is created, resized and removed at one
   moment, implemented by the handlers' two steps (from `AdminInv`).
3. Of the reservation system: that the deadline of a check-in code is never moved, and other
   action properties that follow from `ParkingInv`.

Not modelled:
- reminders (`common/notification`): a check, then an insert that a key guards; all that may
  follow is a reminder not sent, or a tick that repeats itself;
- amounts and rounding in billing: sums of cents that no other state depends on;
- `confirmCheckoutPayment`, `failCheckoutPayment`: no code creates a PENDING_PAYMENT row;
- `changePassword` and hashing, the audit log, the occupancy log: written, but read by
  nothing that is modelled;
- maps, distances, geocoding, similarity search: no state;
- in the client: Next's own cache of visited and prefetched pages, which may show a page that
  the middleware would not answer any more; a deleted account whose token lives on (the foreign
  keys refuse what it writes); entries that are kept under another user's key (a behaviour
  that comes back to such a key starts with an empty entry);
- what the language model says, the streaming of its tokens, fields of the client's other
  forms, the QR camera and layout.
