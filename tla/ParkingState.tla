---------------------------- MODULE ParkingState ----------------------------
(***************************************************************************)
(* The database rows and in-flight work shared by the reservation          *)
(* services.  Every service module EXTENDS this one and adds its actions.  *)
(*                                                                         *)
(* Time is counted in hours: the arrival window, the grace periods and the *)
(* checkout buffer are configuration, an automatic extension is one hour.  *)
(*                                                                         *)
(* A Prisma interactive transaction is two steps.  Its Begin step takes    *)
(* the row locks the code asks for and does the reads and checks; its      *)
(* Commit step does the writes.  Postgres runs at READ COMMITTED, so other *)
(* transactions may commit between the two unless a row lock forbids it.   *)
(***************************************************************************)
EXTENDS Integers, FiniteSets

CONSTANTS
  User,           \* customer accounts
  Slot,           \* parking slots, all of one lot
  Resv,           \* identities that reservation rows may take
  Request,        \* HTTP requests that may be in flight at once
  Instance,       \* backend processes, each with its own monitoring cron
  None,           \* a column without a value
  Horizon,        \* bound: the clock stops here
  Grace,          \* RESERVATION_CHECKIN_GRACE_MINUTES
  Early,          \* RESERVATION_CHECKIN_EARLY_MINUTES
  Buffer,         \* CHECKOUT_GRACE_BUFFER_MINUTES
  Extension,      \* EXTENSION_HOURS
  DayLength,      \* hours of a calendar day
  AdvanceDays,    \* RESERVATION_MAX_ADVANCE_DAYS
  Durations,      \* inputs: requested parking times
  SavedCards,     \* inputs: cards a customer may save
  LotSwitch,      \* inputs: values staff may give to ParkingLot.isActive
  Restrictable,   \* inputs: slots staff may put into or out of maintenance
  Blockable,      \* inputs: customers an administrator may block
  Leavers         \* inputs: customers who may delete their own account

ASSUME ConfigAssumption ==
  /\ Grace \in Nat
  /\ Early \in Nat
  /\ Buffer \in Nat
  /\ Horizon \in Nat
  /\ Extension \in Nat \ {0}
  /\ DayLength \in Nat \ {0}
  /\ AdvanceDays \in Nat

ASSUME InputAssumption ==
  /\ Durations \subseteq Nat \ {0}
  /\ SavedCards \subseteq {"accepted", "declined"}
  /\ LotSwitch \subseteq BOOLEAN
  /\ Restrictable \subseteq Slot
  /\ Blockable \subseteq User
  /\ Leavers \subseteq User

ASSUME NoneAssumption == None \notin User \cup Slot \cup Request

VARIABLES
  now,        \* the clock
  res,        \* Reservation rows
  qr,         \* QrCode rows: the check-in and the check-out code of a reservation
  slot,       \* ParkingSlot rows
  payment,    \* Payment row of a reservation
  challan,    \* Challan rows
  card,       \* PaymentMethod row of a customer
  account,    \* User rows that exist
  lotActive,  \* ParkingLot.isActive
  tx,         \* in-flight request of each handler
  job         \* progress of each instance's monitoring tick

vars == <<now, res, qr, slot, payment, challan, card, account, lotActive, tx, job>>

-----------------------------------------------------------------------------
(* Rows *)

\* Reservation.status.  "NONE": no such row yet; "DELETED": the row went away
\* with its owner's account.  Both stand for an absent row.  The enum's
\* PENDING_PAYMENT is assigned by no code.
ReservationStatus ==
  {"NONE", "CONFIRMED", "CHECKED_IN", "OVERTIME", "COMPLETED", "CANCELLED", "DELETED"}

\* hours stands for totalPrice: the reserved hours, billed at the slot's rate.
Reservation ==
  [status: ReservationStatus, user: User \cup {None}, slot: Slot \cup {None},
   start: Nat, end: Nat, hours: Nat]

NoReservation ==
  [status |-> "NONE", user |-> None, slot |-> None, start |-> 0, end |-> 0, hours |-> 0]

SlotStatus == {"AVAILABLE", "RESERVED", "OCCUPIED", "MAINTENANCE"}
ParkingSlot == [status: SlotStatus, reason: BOOLEAN]

QrCodeStatus == {"NONE", "ACTIVE", "USED", "EXPIRED"}
QrCode == [in: QrCodeStatus, out: QrCodeStatus]

ChallanType == {"EXTENSION", "OVERTIME"}
Challan == [resv: Resv, type: ChallanType, forCheckoutAt: Nat]

\* A payment's amount is the base charge plus the challans in billed.
Payment == [status: {"NONE", "FAILED", "SUCCESSFUL"}, billed: SUBSET Challan]
NoPayment == [status |-> "NONE", billed |-> {}]

PaymentMethod == {"none", "accepted", "declined"}

-----------------------------------------------------------------------------
(* Work in flight: what a handler keeps across its awaits *)

IdleTx     == [op: {"idle"}]
\* A booking has been let in, then waits for its slot, then holds it.
CreateTx   == [op: {"arrived", "waiting", "create"},
               user: User, slot: Slot, start: Nat, hours: Nat, at: Nat]
CancelTx   == [op: {"cancel"}, resv: Resv, at: Nat]
CheckInTx  == [op: {"checkIn"}, resv: Resv, at: Nat]
CheckOutTx == [op: {"checkOut"}, resv: Resv, bill: SUBSET Challan,
               declined: BOOLEAN, at: Nat]
BlockTx    == [op: {"block"}, user: User, rows: SUBSET Resv, at: Nat]
RestrictTx == [op: {"restrict"}, slots: SUBSET Slot,
               to: {"AVAILABLE", "MAINTENANCE"}, at: Nat]

Transaction ==
  IdleTx \cup CreateTx \cup CancelTx \cup CheckInTx \cup CheckOutTx \cup BlockTx \cup RestrictTx

Idle == [op |-> "idle"]

Tick ==
  [pc: {"idle"}]
    \cup [pc: {"noShows"}, todo: SUBSET Resv]
    \cup [pc: {"listed", "active"}, todo: SUBSET Resv, ends: [Resv -> Nat]]
    \cup [pc: {"resolve"}, todo: SUBSET Resv, ends: [Resv -> Nat],
          cur: Resv, queued: BOOLEAN]

NotRunning == [pc |-> "idle"]

-----------------------------------------------------------------------------
(* Queries *)

\* A reservation row that still claims its slot in the overlap check.
Claims(r) == res[r].status \in {"CONFIRMED", "CHECKED_IN", "OVERTIME"}

\* A reservation row that holds its slot: booked, or booked and parked.
Held(r) == res[r].status \in {"CONFIRMED", "CHECKED_IN"}

Exists(r) == res[r].status \notin {"NONE", "DELETED"}

\* Mutant: the buffer is forgotten on one side.
OverlapsNoBufferAfter(r, start, end) ==
  /\ res[r].start < end + Buffer
  /\ res[r].end > start

\* The buffer-inclusive interval test of the booking and of the slot search.
Overlaps(r, start, end) ==
  /\ res[r].start < end + Buffer
  /\ res[r].end > start - Buffer

ChallansOf(r) == {c \in challan : c.resv = r}

-----------------------------------------------------------------------------
(* Row locks.  A row is locked for everybody but the request that asked for *)
(* it; a statement that writes a locked row waits.                          *)

\* SELECT ... FOR UPDATE on the Reservation row, taken by cancel.
RowLocked(r, p) ==
  \E q \in Request \ {p} : tx[q].op = "cancel" /\ tx[q].resv = r

\* SELECT ... FOR UPDATE on the QrCode row, taken by a scan.
QrLocked(kind, r, p) ==
  \E q \in Request \ {p} : tx[q].op = kind /\ tx[q].resv = r

\* Mutant: bookings do not lock the slot.
SlotNeverLocked(s, p) == FALSE

\* SELECT ... FOR UPDATE on the ParkingSlot row, taken by a booking.
SlotLocked(s, p) ==
  \E q \in Request \ {p} : tx[q].op = "create" /\ tx[q].slot = s

-----------------------------------------------------------------------------
(* Writes shared by the services *)

\* Cancelling r has to wait for the scan of its check-in code, for another
\* cancellation of it, and for a booking that has its RESERVED slot locked.
CanCancel(r, p) ==
  /\ ~RowLocked(r, p)
  /\ qr[r].in = "ACTIVE" => ~QrLocked("checkIn", r, p)
  /\ slot[res[r].slot].status = "RESERVED" => ~SlotLocked(res[r].slot, p)

\* Mutant: the slot is not released.
CancelRowsKeepSlot(R) ==
  /\ res' = [r \in Resv |-> IF r \in R THEN [res[r] EXCEPT !.status = "CANCELLED"]
                                       ELSE res[r]]
  /\ qr' = [r \in Resv |-> IF r \in R /\ qr[r].in = "ACTIVE"
                             THEN [qr[r] EXCEPT !.in = "EXPIRED"] ELSE qr[r]]
  /\ UNCHANGED slot

\* Mutant: the check-in code stays ACTIVE.
CancelRowsKeepCode(R) ==
  /\ res' = [r \in Resv |-> IF r \in R THEN [res[r] EXCEPT !.status = "CANCELLED"]
                                       ELSE res[r]]
  /\ UNCHANGED <<slot, qr>>

\* Mutant: the code gets the reservation's status, which no code has.
CancelRowsWrongEnum(R) ==
  /\ res' = [r \in Resv |-> IF r \in R THEN [res[r] EXCEPT !.status = "CANCELLED"]
                                       ELSE res[r]]
  /\ qr' = [r \in Resv |-> IF r \in R THEN [qr[r] EXCEPT !.in = "CANCELLED"] ELSE qr[r]]
  /\ UNCHANGED slot

\* Reservation -> CANCELLED, its slot RESERVED -> AVAILABLE, its check-in code
\* ACTIVE -> EXPIRED, for every reservation in R.  The status the row has by
\* now is not looked at.
CancelRows(R) ==
  /\ res' = [r \in Resv |-> IF r \in R THEN [res[r] EXCEPT !.status = "CANCELLED"]
                                       ELSE res[r]]
  /\ slot' = [s \in Slot |->
       IF slot[s].status = "RESERVED" /\ \E r \in R : res[r].slot = s
         THEN [slot[s] EXCEPT !.status = "AVAILABLE"] ELSE slot[s]]
  /\ qr' = [r \in Resv |-> IF r \in R /\ qr[r].in = "ACTIVE"
                             THEN [qr[r] EXCEPT !.in = "EXPIRED"] ELSE qr[r]]

Begin(p, t) == tx[p] = Idle /\ tx' = [tx EXCEPT ![p] = t]
End(p) == tx' = [tx EXCEPT ![p] = Idle]

-----------------------------------------------------------------------------

TypeOK ==
  /\ now \in Nat
  /\ res \in [Resv -> Reservation]
  /\ qr \in [Resv -> QrCode]
  /\ slot \in [Slot -> ParkingSlot]
  /\ payment \in [Resv -> Payment]
  /\ challan \in SUBSET Challan
  /\ card \in [User -> PaymentMethod]
  /\ account \in SUBSET User
  /\ lotActive \in BOOLEAN
  /\ tx \in [Request -> Transaction]
  /\ job \in [Instance -> Tick]

Init ==
  /\ now = 0
  /\ res = [r \in Resv |-> NoReservation]
  /\ qr = [r \in Resv |-> [in |-> "NONE", out |-> "NONE"]]
  /\ slot = [s \in Slot |-> [status |-> "AVAILABLE", reason |-> FALSE]]
  /\ payment = [r \in Resv |-> NoPayment]
  /\ challan = {}
  /\ card = [u \in User |-> "none"]
  /\ account = User
  /\ lotActive = TRUE
  /\ tx = [p \in Request |-> Idle]
  /\ job = [i \in Instance |-> NotRunning]

=============================================================================
