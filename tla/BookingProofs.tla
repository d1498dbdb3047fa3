---------------------------- MODULE BookingProofs ----------------------------
(***************************************************************************)
(* No slot is double-booked, for every value of the constants.             *)
(*                                                                         *)
(* NoDoubleBooking alone is not inductive: a booking in flight has checked *)
(* end times that the cron moves.  BookingInv adds what it has checked,    *)
(* that end times cover the booked intervals (and so do those a tick has   *)
(* listed), and what keeps a scan in flight on a CONFIRMED row.            *)
(***************************************************************************)
EXTENDS ParkingProofs

(* Arithmetic on the rows is over numbers. *)
LEMMA RowTypes ==
  ASSUME TypeOK, NEW r \in Resv
  PROVE  /\ res[r].start \in Nat /\ res[r].end \in Nat /\ res[r].hours \in Nat
         /\ BookedEnd(r) \in Nat
         /\ res[r].status \in ReservationStatus
BY DEF TypeOK, Reservation, BookedEnd

(* The end time a row was listed with is a number. *)
LEMMA PendingEnds ==
  ASSUME TypeOK, NEW i \in Instance, NEW r \in Resv, r \in Pending(i)
  PROVE  job[i].ends[r] \in Nat
BY StageOfTick DEF Pending

-----------------------------------------------------------------------------
(* Most steps book nothing and list nothing: rows only cease to hold their slot,  *)
(* no booking gets its slot, no end time is shortened.  They keep all of          *)
(* BookingInv that is not about scans.                                            *)

FixedColumns ==
  \A r \in Resv : /\ res'[r].slot = res[r].slot
                  /\ res'[r].start = res[r].start
                  /\ res'[r].hours = res[r].hours

NoNewBooking == \A p \in Request : tx'[p].op = "create" => tx'[p] = tx[p]

NoNewPending ==
  \A i \in Instance : \A r \in Resv :
    r \in Pending(i)' => /\ r \in Pending(i) /\ job'[i].ends[r] = job[i].ends[r]
                         /\ job[i].pc = "listed" => job'[i].pc = "listed"

StatusMovesOn ==
  \A r \in Resv : res'[r].status \in {"NONE", "CONFIRMED"} => res'[r].status = res[r].status

NoNewHolder ==
  \A r \in Resv : Held(r)' => Held(r)

LEMMA HeldShrinks ==
  ASSUME TypeOK, TypeOK', BookingInv, FixedColumns, NoNewBooking, NoNewPending,
         StatusMovesOn, NoNewHolder, EndsCoverBookings', now' >= now
  PROVE  /\ NoDoubleBooking'
         /\ BookingsInFlightApart'
         /\ OneBookingPerSlot'
         /\ PendingRows'
         /\ EndsCoverBookings'
<1>2. \A r \in Resv : BookedEnd(r)' = BookedEnd(r)
  BY DEF FixedColumns, BookedEnd
<1>3. NoDoubleBooking'
  BY <1>2 DEF BookingInv, NoDoubleBooking, BuffersApart, FixedColumns, NoNewHolder
<1>4. BookingsInFlightApart'
  BY <1>2 DEF BookingInv, BookingsInFlightApart, FixedColumns, NoNewBooking, NoNewHolder
<1>5. OneBookingPerSlot'
  BY DEF BookingInv, OneBookingPerSlot, NoNewBooking
<1>6. PendingRows'
  <2> SUFFICES ASSUME NEW i \in Instance, NEW r \in Resv, r \in Pending(i)'
               PROVE  /\ res'[r].status \notin {"NONE", "CONFIRMED"}
                      /\ job'[i].ends[r] >= BookedEnd(r)'
                      /\ job'[i].pc # "listed" => now' >= job'[i].ends[r] + Buffer
    BY DEF PendingRows
  <2>2. /\ r \in Pending(i) /\ job'[i].ends[r] = job[i].ends[r]
        /\ job[i].pc = "listed" => job'[i].pc = "listed"
    BY DEF NoNewPending
  <2>3. /\ res[r].status \notin {"NONE", "CONFIRMED"}
        /\ job[i].ends[r] >= BookedEnd(r)
        /\ job[i].pc # "listed" => now >= job[i].ends[r] + Buffer
    BY <2>2 DEF BookingInv, PendingRows
  <2>4. res'[r].status \notin {"NONE", "CONFIRMED"}
    BY <2>3 DEF StatusMovesOn
  <2>5. job'[i].pc # "listed" => now' >= job'[i].ends[r] + Buffer
    BY <2>2, <2>3, PendingEnds, ConfigAssumption DEF TypeOK
  <2> QED BY <1>2, <2>2, <2>3, <2>4, <2>5
<1> QED BY <1>3, <1>4, <1>5, <1>6

(* A scan in flight keeps its hold on a CONFIRMED row and an ACTIVE code if the    *)
(* step begins no scan and leaves that row alone.                                  *)
NoNewScan ==
  \A p \in Request : tx'[p].op \in {"checkIn", "checkOut"} => tx'[p] = tx[p]

ScannedRowsKept ==
  \A p \in Request :
    /\ tx'[p].op = "checkIn" => /\ res'[tx[p].resv].status = "CONFIRMED"
                                /\ qr'[tx[p].resv].in = "ACTIVE"
    /\ tx'[p].op = "checkOut" => res'[tx[p].resv].status \notin {"NONE", "CONFIRMED"}

LEMMA ScansKept ==
  ASSUME BookingInv, NoNewScan, ScannedRowsKept
  PROVE  ScansInFlight'
BY DEF BookingInv, ScansInFlight, NoNewScan, ScannedRowsKept

-----------------------------------------------------------------------------
(* The steps that keep the invariant because nothing new claims a slot *)

(* Steps of requests and staff that write neither reservations nor codes. *)
LEMMA QuietStep ==
  ASSUME TypeOK, TypeOK', BookingInv, NoNewBooking, NoNewScan,
         UNCHANGED <<res, qr, job>>, now' >= now
  PROVE  BookingInv'
<1>1. FixedColumns /\ NoNewPending /\ StatusMovesOn /\ NoNewHolder
  BY DEF FixedColumns, NoNewPending, Pending, StatusMovesOn, NoNewHolder, Held
<1>2. EndsCoverBookings'
  BY DEF BookingInv, EndsCoverBookings, BookedEnd
<1>3. ScannedRowsKept
  BY DEF BookingInv, ScansInFlight, ScannedRowsKept, NoNewScan
<1> QED BY <1>1, <1>2, <1>3, HeldShrinks, ScansKept DEF BookingInv

(* A handler that ends starts nothing. *)
LEMMA EndStartsNothing ==
  ASSUME TypeOK, NEW p \in Request, End(p)
  PROVE  NoNewBooking /\ NoNewScan
BY DEF End, NoNewBooking, NoNewScan, Idle, TypeOK

(* A handler that begins anything but a booking or a scan does not either. *)
LEMMA BeginStartsOther ==
  ASSUME TypeOK, NEW p \in Request, NEW t, Begin(p, t),
         t.op \notin {"create", "checkIn", "checkOut"}
  PROVE  NoNewBooking /\ NoNewScan
BY DEF Begin, NoNewBooking, NoNewScan, TypeOK

(* Cancelling rows whose scans are waited for. *)
LEMMA CancelStep ==
  ASSUME TypeOK, TypeOK', BookingInv, NEW R \in SUBSET Resv, CancelRows(R),
         NoNewBooking, NoNewScan, NoNewPending, now' = now,
         \A p \in Request : tx'[p].op = "checkIn" => tx[p].resv \notin R
  PROVE  BookingInv'
<1>1. \A r \in Resv : res'[r] = IF r \in R THEN [res[r] EXCEPT !.status = "CANCELLED"]
                                           ELSE res[r]
  BY DEF CancelRows
<1>2. FixedColumns /\ StatusMovesOn /\ NoNewHolder
  BY <1>1 DEF FixedColumns, StatusMovesOn, NoNewHolder, Held, TypeOK, Reservation
<1>3. EndsCoverBookings'
  BY <1>1 DEF BookingInv, EndsCoverBookings, BookedEnd, TypeOK, Reservation
<1>4. ScannedRowsKept
  <2>1. \A p \in Request : tx'[p].op = "checkIn" =>
          res'[tx[p].resv].status = "CONFIRMED" /\ qr'[tx[p].resv].in = "ACTIVE"
    <3> SUFFICES ASSUME NEW p \in Request, tx'[p].op = "checkIn"
                 PROVE  res'[tx[p].resv].status = "CONFIRMED" /\ qr'[tx[p].resv].in = "ACTIVE"
      OBVIOUS
    <3>1. tx[p].op = "checkIn" /\ tx[p].resv \in Resv
      BY KindOfTx DEF NoNewScan, CheckInTx
    <3> QED BY <3>1 DEF CancelRows, BookingInv, ScansInFlight
  <2>2. \A p \in Request : tx'[p].op = "checkOut" =>
          res'[tx[p].resv].status \notin {"NONE", "CONFIRMED"}
    <3> SUFFICES ASSUME NEW p \in Request, tx'[p].op = "checkOut"
                 PROVE  res'[tx[p].resv].status \notin {"NONE", "CONFIRMED"}
      OBVIOUS
    <3>1. tx[p].op = "checkOut" /\ tx[p].resv \in Resv
      BY KindOfTx DEF NoNewScan, CheckOutTx
    <3> QED BY <1>1, <3>1 DEF BookingInv, ScansInFlight, TypeOK, Reservation
  <2> QED BY <2>1, <2>2 DEF ScannedRowsKept
<1> QED BY <1>2, <1>3, <1>4, HeldShrinks, ScansKept DEF BookingInv, TypeOK

(* A cancellation that may go ahead meets no scan of its row's code. *)
LEMMA NoScanDuringCancel ==
  ASSUME TypeOK, BookingInv, NEW p, NEW r \in Resv, CanCancel(r, p),
         p \in Request => tx[p].op # "checkIn"
  PROVE  \A q \in Request : tx[q].op = "checkIn" => tx[q].resv # r
BY DEF CanCancel, QrLocked, BookingInv, ScansInFlight

(* A scan begins on a row that is the scan's own from then on. *)
LEMMA ScanBegins ==
  ASSUME TypeOK, TypeOK', BookingInv, NEW p \in Request, NEW r \in Resv,
         CheckInBegin(p, r) \/ CheckOutBegin(p, r)
  PROVE  BookingInv'
<1>1. /\ UNCHANGED <<now, res, qr, job>>
      /\ \A q \in Request \ {p} : tx'[q] = tx[q]
  BY DEF CheckInBegin, CheckOutBegin, Begin, TypeOK
<1>2. tx'[p].op \in {"checkIn", "checkOut"} /\ tx'[p].resv = r
  BY DEF CheckInBegin, CheckOutBegin, Begin, TypeOK
<1>3. FixedColumns /\ NoNewBooking /\ NoNewPending /\ StatusMovesOn /\ NoNewHolder
  BY <1>1, <1>2 DEF FixedColumns, NoNewBooking, NoNewPending, Pending, StatusMovesOn,
                    NoNewHolder, Held
<1>4. EndsCoverBookings' /\ now' >= now
  BY <1>1 DEF BookingInv, EndsCoverBookings, BookedEnd, TypeOK
<1>5. ScansInFlight'
  <2>1. CASE CheckInBegin(p, r)
    <3>1. tx'[p].op = "checkIn"
      BY <2>1 DEF CheckInBegin, Begin, TypeOK
    <3>2. /\ res[r].status = "CONFIRMED" /\ qr[r].in = "ACTIVE"
          /\ \A q \in Request \ {p} : tx[q].op = "checkIn" => tx[q].resv # r
      BY <2>1 DEF CheckInBegin, CheckInCodeValid, QrLocked
    <3> QED BY <1>1, <1>2, <3>1, <3>2 DEF BookingInv, ScansInFlight
  <2>2. CASE CheckOutBegin(p, r)
    <3>1. tx'[p].op = "checkOut"
      BY <2>2 DEF CheckOutBegin, Begin, TypeOK
    <3>2. res[r].status \notin {"NONE", "CONFIRMED"}
      BY <2>2 DEF CheckOutBegin
    <3> QED BY <1>1, <1>2, <3>1, <3>2 DEF BookingInv, ScansInFlight
  <2> QED BY <2>1, <2>2
<1> QED BY <1>3, <1>4, <1>5, HeldShrinks DEF BookingInv

(* A scan that commits moves one row on: the check-in its CONFIRMED row, the      *)
(* check-out its parked one.                                                      *)
LEMMA ScanCommits ==
  ASSUME TypeOK, TypeOK', BookingInv, NEW p \in Request,
         CheckInCommit(p) \/ CheckOutPaid(p)
  PROVE  BookingInv'
<1>0. PICK r \in Resv : r = tx[p].resv
  BY KindOfTx DEF CheckInCommit, CheckOutPaid, CheckInTx, CheckOutTx
<1>1. UNCHANGED <<now, job>> /\ End(p)
  BY DEF CheckInCommit, CheckOutPaid
<1>2. NoNewBooking /\ NoNewScan /\ NoNewPending
  BY <1>1, EndStartsNothing DEF NoNewPending, Pending
<1>3. \A q \in Resv \ {r} : res'[q] = res[q] /\ qr'[q] = qr[q]
  BY <1>0 DEF CheckInCommit, CheckOutPaid, TypeOK
<1>4. /\ res'[r].slot = res[r].slot /\ res'[r].start = res[r].start
      /\ res'[r].hours = res[r].hours /\ res'[r].end = res[r].end
      /\ res'[r].status \in {"CHECKED_IN", "COMPLETED"}
  BY <1>0 DEF CheckInCommit, CheckOutPaid, TypeOK, Reservation
<1>5. Held(r)' => Held(r)
  <2>1. CASE CheckInCommit(p)
    BY <1>0, <2>1 DEF CheckInCommit, BookingInv, ScansInFlight, Held
  <2>2. CASE CheckOutPaid(p)
    <3>1. res'[r].status = "COMPLETED"
      BY <1>0, <2>2 DEF CheckOutPaid, TypeOK, Reservation
    <3> QED BY <3>1 DEF Held
  <2> QED BY <2>1, <2>2
<1>6. FixedColumns /\ StatusMovesOn /\ NoNewHolder
  BY <1>0, <1>3, <1>4, <1>5 DEF FixedColumns, StatusMovesOn, NoNewHolder, Held
<1>7. EndsCoverBookings'
  BY <1>0, <1>3, <1>4 DEF BookingInv, EndsCoverBookings, BookedEnd
<1>8. tx'[p].op = "idle" /\ \A q \in Request \ {p} : tx'[q] = tx[q]
  BY <1>1 DEF End, TypeOK, Idle
<1>9. ScannedRowsKept
  <2> SUFFICES ASSUME NEW q \in Request, tx'[q].op \in {"checkIn", "checkOut"}
               PROVE  /\ tx'[q].op = "checkIn" => /\ res'[tx[q].resv].status = "CONFIRMED"
                                                  /\ qr'[tx[q].resv].in = "ACTIVE"
                      /\ tx'[q].op = "checkOut" =>
                           res'[tx[q].resv].status \notin {"NONE", "CONFIRMED"}
    BY DEF ScannedRowsKept
  <2>1. q # p /\ tx'[q] = tx[q]
    BY <1>8
  <2>2. tx[q].resv \in Resv
    BY <2>1, KindOfTx DEF CheckInTx, CheckOutTx
  <2>3. tx'[q].op = "checkIn" => tx[q].resv # r
    BY <1>0, <2>1 DEF CheckInCommit, CheckOutPaid, BookingInv, ScansInFlight
  <2> QED BY <1>3, <1>4, <2>1, <2>2, <2>3 DEF BookingInv, ScansInFlight
<1> QED BY <1>1, <1>2, <1>6, <1>7, <1>9, HeldShrinks, ScansKept DEF BookingInv, TypeOK

LEMMA CheckpointBooks ==
  ASSUME TypeOK, TypeOK', BookingInv, NEW p \in Request, Checkpoint(p)
  PROVE  BookingInv'
<1>1. CASE CheckOutDeclined(p)
  <2>1. End(p) /\ UNCHANGED <<now, res, qr, job>>
    BY <1>1 DEF CheckOutDeclined
  <2> QED BY <2>1, EndStartsNothing, QuietStep DEF TypeOK
<1> QED BY <1>1, ScanBegins, ScanCommits DEF Checkpoint

LEMMA AdministrationBooks ==
  ASSUME TypeOK, TypeOK', BookingInv, NEW p \in Request, Administration(p)
  PROVE  BookingInv'
<1>1. ASSUME NEW t, Begin(p, t), t.op \in {"block", "restrict"},
             UNCHANGED <<now, res, qr, job>>
      PROVE  BookingInv'
  BY <1>1, BeginStartsOther, QuietStep DEF TypeOK
<1>2. ASSUME NEW u \in User, BlockBegin(p, u)
      PROVE  BookingInv'
  BY <1>1, <1>2 DEF BlockBegin
<1>3. CASE BlockCommit(p)
  <2> DEFINE R == tx[p].rows
  <2>1. R \in SUBSET Resv
    BY <1>3, KindOfTx DEF BlockCommit, BlockTx
  <2>2. CancelRows(R) /\ End(p) /\ UNCHANGED <<now, job>>
    BY <1>3 DEF BlockCommit
  <2>3. NoNewBooking /\ NoNewScan /\ NoNewPending
    BY <2>2, EndStartsNothing DEF NoNewPending, Pending
  <2>4. ASSUME NEW q \in Request, tx'[q].op = "checkIn"
        PROVE  tx[q].resv \notin R
    <3>1. tx[q].op = "checkIn"
      BY <2>3, <2>4 DEF NoNewScan
    <3>2. ASSUME NEW r \in R PROVE tx[q].resv # r
      BY <1>3, <2>1, <3>1, <3>2, NoScanDuringCancel DEF BlockCommit
    <3> QED BY <3>2
  <2> HIDE DEF R
  <2> QED BY <2>1, <2>2, <2>3, <2>4, CancelStep
<1>4. ASSUME NEW S, NEW to, RestrictRead(p, S, to)
      PROVE  BookingInv'
  BY <1>1, <1>4 DEF RestrictRead
<1>5. ASSUME NEW reason, RestrictWrite(p, reason)
      PROVE  BookingInv'
  <2>1. End(p) /\ UNCHANGED <<now, res, qr, job>>
    BY <1>5 DEF RestrictWrite
  <2> QED BY <2>1, EndStartsNothing, QuietStep DEF TypeOK
<1> QED
  BY <1>2, <1>3, <1>4, <1>5, InputAssumption
  DEF Administration, UpdateStatusRead, BulkUpdateStatusRead

(* Deleting an account takes rows away, none of them held by a scan. *)
LEMMA RemoveSelfBooks ==
  ASSUME TypeOK, TypeOK', BookingInv, NEW u \in User, RemoveSelf(u)
  PROVE  BookingInv'
<1> DEFINE own(r) == res[r].user = u
<1>1. UNCHANGED <<now, tx, job>>
  BY DEF RemoveSelf
<1>2. \A r \in Resv : res'[r] = IF own(r) THEN [res[r] EXCEPT !.status = "DELETED"]
                                          ELSE res[r]
  BY DEF RemoveSelf
<1>3. \A r \in Resv : ~own(r) => qr'[r] = qr[r]
  BY DEF RemoveSelf
<1>4. \A q \in Request : tx[q].op \in {"checkIn", "checkOut"} => ~own(tx[q].resv)
  BY DEF RemoveSelf, HoldsRowOf
<1>5. NoNewBooking /\ NoNewScan /\ NoNewPending
  BY <1>1 DEF NoNewBooking, NoNewScan, NoNewPending, Pending
<1> HIDE DEF own
<1>6. FixedColumns /\ StatusMovesOn /\ NoNewHolder
  BY <1>2 DEF FixedColumns, StatusMovesOn, NoNewHolder, Held, TypeOK, Reservation
<1>7. EndsCoverBookings'
  BY <1>2 DEF BookingInv, EndsCoverBookings, BookedEnd, TypeOK, Reservation
<1>8. ScannedRowsKept
  <2> SUFFICES ASSUME NEW q \in Request, tx[q].op \in {"checkIn", "checkOut"}
               PROVE  res'[tx[q].resv] = res[tx[q].resv] /\ qr'[tx[q].resv] = qr[tx[q].resv]
    BY <1>1 DEF ScannedRowsKept, BookingInv, ScansInFlight
  <2>1. tx[q].resv \in Resv
    BY KindOfTx DEF CheckInTx, CheckOutTx
  <2> QED BY <1>2, <1>3, <1>4, <2>1
<1> QED BY <1>1, <1>5, <1>6, <1>7, <1>8, HeldShrinks, ScansKept DEF BookingInv, TypeOK

LEMMA AccountBooks ==
  ASSUME TypeOK, TypeOK', BookingInv, Account
  PROVE  BookingInv'
<1>1. ASSUME UNCHANGED <<now, res, qr, tx, job>>
      PROVE  BookingInv'
  BY <1>1, QuietStep DEF NoNewBooking, NoNewScan, TypeOK
<1>2. ASSUME NEW u \in Leavers, RemoveSelf(u)
      PROVE  BookingInv'
  BY <1>2, RemoveSelfBooks, InputAssumption
<1>3. ASSUME NEW u \in User, NEW c \in SavedCards, SavePaymentMethod(u, c)
      PROVE  BookingInv'
  BY <1>1, <1>3 DEF SavePaymentMethod
<1>4. ASSUME NEW b \in LotSwitch, SetLotActive(b)
      PROVE  BookingInv'
  BY <1>1, <1>4 DEF SetLotActive
<1> QED BY <1>2, <1>3, <1>4 DEF Account

-----------------------------------------------------------------------------
(* Booking a slot *)

(* A booking that only waits holds nothing yet. *)
LEMMA CreateWaits ==
  ASSUME TypeOK, TypeOK', BookingInv, NEW p \in Request, NEW u \in User, NEW s \in Slot,
         NEW start, NEW hours, CreateArrive(p, u, s, start, hours) \/ CreateRead(p)
  PROVE  BookingInv'
<1>1. UNCHANGED <<now, res, qr, job>>
  BY DEF CreateArrive, CreateRead
<1>2. tx'[p].op \in {"arrived", "waiting"} /\ \A q \in Request \ {p} : tx'[q] = tx[q]
  <2>1. CASE CreateArrive(p, u, s, start, hours)
    BY <2>1 DEF CreateArrive, Begin, TypeOK
  <2>2. CASE CreateRead(p)
    <3>1. tx[p] \in CreateTx
      BY <2>2, KindOfTx DEF CreateRead
    <3> QED BY <2>2, <3>1 DEF CreateRead, CreateTx, TypeOK
  <2> QED BY <2>1, <2>2
<1>3. NoNewBooking /\ NoNewScan /\ now' >= now
  BY <1>1, <1>2 DEF NoNewBooking, NoNewScan, TypeOK
<1> QED BY <1>1, <1>3, QuietStep

(* The overlap check keeps a booking apart from the rows that claim the slot, and  *)
(* so from those that hold it, although their end times may be later than booked.  *)
LEMMA CreateBeginBooks ==
  ASSUME TypeOK, TypeOK', BookingInv, NEW p \in Request, CreateBegin(p)
  PROVE  BookingInv'
<1> DEFINE t == tx[p]
<1>0. t \in CreateTx
  BY KindOfTx DEF CreateBegin
<1>1. UNCHANGED <<now, res, qr, job>>
  BY DEF CreateBegin
<1>2. /\ tx'[p].op = "create" /\ tx'[p].slot = t.slot
      /\ tx'[p].start = t.start /\ tx'[p].hours = t.hours
      /\ \A q \in Request \ {p} : tx'[q] = tx[q]
  BY <1>0 DEF CreateBegin, CreateTx, TypeOK
<1>3. NoDoubleBooking' /\ PendingRows' /\ EndsCoverBookings'
  BY <1>1 DEF BookingInv, NoDoubleBooking, PendingRows, EndsCoverBookings, Held,
              Pending, BuffersApart, BookedEnd
<1>4. OneBookingPerSlot'
  <2>1. \A q \in Request \ {p} : tx[q].op = "create" => tx[q].slot # t.slot
    BY DEF CreateBegin, SlotLocked
  <2> QED BY <1>2, <2>1 DEF BookingInv, OneBookingPerSlot
<1>5. ASSUME NEW r \in Resv, Held(r), res[r].slot = t.slot
      PROVE  res[r].start >= t.start + t.hours + Buffer \/ t.start >= BookedEnd(r) + Buffer
  <2>1. t.start \in Nat /\ t.hours \in Nat
    BY <1>0 DEF CreateTx
  <2>2. Claims(r)
    BY <1>5 DEF Held, Claims
  <2>3. ~Overlaps(r, t.start, t.start + t.hours)
    BY <1>5, <2>2 DEF CreateBegin
  <2>4. res[r].start >= t.start + t.hours + Buffer \/ res[r].end <= t.start - Buffer
    BY <2>1, <2>3, RowTypes, ConfigAssumption DEF Overlaps
  <2>5. res[r].end >= BookedEnd(r)
    BY DEF BookingInv, EndsCoverBookings
  <2> QED BY <2>1, <2>4, <2>5, RowTypes, ConfigAssumption
<1> HIDE DEF t
<1>6. BookingsInFlightApart'
  <2> SUFFICES ASSUME NEW q \in Request, NEW r \in Resv,
                      tx'[q].op = "create", Held(r), res[r].slot = tx'[q].slot
               PROVE  \/ res[r].start >= tx'[q].start + tx'[q].hours + Buffer
                      \/ tx'[q].start >= BookedEnd(r) + Buffer
    BY <1>1 DEF BookingsInFlightApart, Held, BookedEnd
  <2>1. CASE q = p
    BY <1>2, <1>5, <2>1
  <2>2. CASE q # p
    BY <1>2, <2>2 DEF BookingInv, BookingsInFlightApart
  <2> QED BY <2>1, <2>2
<1>7. NoNewScan /\ ScannedRowsKept
  BY <1>1, <1>2 DEF NoNewScan, ScannedRowsKept, BookingInv, ScansInFlight
<1> QED BY <1>3, <1>4, <1>6, <1>7, ScansKept DEF BookingInv

(* The row a booking inserts is apart from every row that holds the slot, as the   *)
(* booking was, and other bookings in flight are on other slots.                   *)
LEMMA CreateCommitBooks ==
  ASSUME TypeOK, TypeOK', BookingInv, NEW p \in Request, CreateCommit(p)
  PROVE  BookingInv'
<1> DEFINE t == tx[p]
<1>0. t \in CreateTx /\ t.op = "create"
  BY KindOfTx DEF CreateCommit
<1>1. PICK r \in Resv : /\ res[r].status = "NONE"
                        /\ res' = [res EXCEPT ![r] = NewRow(t)]
                        /\ qr' = [qr EXCEPT ![r].in = "ACTIVE"]
  BY DEF CreateCommit
<1>2. UNCHANGED <<now, job>> /\ End(p)
  BY DEF CreateCommit
<1>3. tx'[p].op = "idle" /\ \A q \in Request \ {p} : tx'[q] = tx[q]
  BY <1>2 DEF End, TypeOK, Idle
<1>4. /\ res'[r].slot = t.slot /\ res'[r].start = t.start /\ res'[r].hours = t.hours
      /\ res'[r].end = t.start + t.hours
      /\ \A x \in Resv \ {r} : res'[x] = res[x] /\ qr'[x] = qr[x]
  BY <1>1 DEF NewRow, TypeOK
<1>5. ~Held(r) /\ \A i \in Instance : r \notin Pending(i)
  BY <1>1 DEF Held, BookingInv, PendingRows
<1>6. \A i \in Instance : Pending(i)' = Pending(i)
  BY <1>2 DEF Pending
<1>7. \A x \in Resv \ {r} : Held(x)' <=> Held(x)
  BY <1>4, <1>6 DEF Held
<1>8. BookedEnd(r)' = t.start + t.hours /\ \A x \in Resv \ {r} : BookedEnd(x)' = BookedEnd(x)
  BY <1>4 DEF BookedEnd
<1>9. ASSUME NEW x \in Resv \ {r}, Held(x), res[x].slot = t.slot
      PROVE  \/ res[x].start >= t.start + t.hours + Buffer
             \/ t.start >= BookedEnd(x) + Buffer
  BY <1>0, <1>9 DEF BookingInv, BookingsInFlightApart
<1> HIDE DEF t
<1>10. NoDoubleBooking'
  <2> SUFFICES ASSUME NEW x \in Resv, NEW y \in Resv, x # y, Held(x)', Held(y)',
                      res'[x].slot = res'[y].slot
               PROVE  \/ res'[x].start >= BookedEnd(y)' + Buffer
                      \/ res'[y].start >= BookedEnd(x)' + Buffer
    BY DEF NoDoubleBooking, BuffersApart
  <2>1. CASE x = r
    BY <1>4, <1>7, <1>8, <1>9, <2>1
  <2>2. CASE y = r
    BY <1>4, <1>7, <1>8, <1>9, <2>2
  <2>3. CASE x # r /\ y # r
    BY <1>4, <1>7, <1>8, <2>3 DEF BookingInv, NoDoubleBooking, BuffersApart
  <2> QED BY <2>1, <2>2, <2>3
<1>11. OneBookingPerSlot'
  BY <1>3 DEF BookingInv, OneBookingPerSlot
<1>12. BookingsInFlightApart'
  <2> SUFFICES ASSUME NEW q \in Request, NEW x \in Resv, tx'[q].op = "create",
                      Held(x)', res'[x].slot = tx'[q].slot
               PROVE  \/ res'[x].start >= tx'[q].start + tx'[q].hours + Buffer
                      \/ tx'[q].start >= BookedEnd(x)' + Buffer
    BY DEF BookingsInFlightApart
  <2>1. q # p /\ tx'[q] = tx[q]
    BY <1>3
  <2>2. x # r
    BY <1>0, <1>4, <2>1 DEF BookingInv, OneBookingPerSlot, t
  <2> QED BY <1>4, <1>7, <1>8, <2>1, <2>2 DEF BookingInv, BookingsInFlightApart
<1>13. PendingRows'
  BY <1>2, <1>4, <1>5, <1>6, <1>8 DEF BookingInv, PendingRows
<1>14. EndsCoverBookings'
  <2>1. t.start + t.hours >= t.start + t.hours
    BY <1>0 DEF CreateTx
  <2> QED BY <1>4, <1>8, <2>1 DEF BookingInv, EndsCoverBookings
<1>15. NoNewScan
  BY <1>2, EndStartsNothing
<1>16. ScannedRowsKept
  <2> SUFFICES ASSUME NEW q \in Request, tx'[q].op \in {"checkIn", "checkOut"}
               PROVE  res'[tx[q].resv] = res[tx[q].resv] /\ qr'[tx[q].resv] = qr[tx[q].resv]
    BY <1>15 DEF NoNewScan, ScannedRowsKept, BookingInv, ScansInFlight
  <2>1. tx'[q] = tx[q]
    BY <1>15 DEF NoNewScan
  <2>2. tx[q].resv \in Resv
    BY <2>1, KindOfTx DEF CheckInTx, CheckOutTx
  <2>3. tx[q].resv # r
    BY <1>1, <2>1 DEF BookingInv, ScansInFlight
  <2> QED BY <1>4, <2>2, <2>3
<1> QED
  BY <1>10, <1>11, <1>12, <1>13, <1>14, <1>15, <1>16, ScansKept DEF BookingInv

LEMMA BookingBooks ==
  ASSUME TypeOK, TypeOK', BookingInv, NEW p \in Request, Booking(p)
  PROVE  BookingInv'
<1>1. CASE \/ \E u \in User, s \in Slot, start \in now..Horizon, hours \in Durations :
                CreateArrive(p, u, s, start, hours)
           \/ CreateRead(p)
  <2>1. ASSUME NEW u \in User, NEW s \in Slot, NEW start, NEW hours,
               CreateArrive(p, u, s, start, hours)
        PROVE  BookingInv'
    BY <2>1, CreateWaits
  <2>2. ASSUME CreateRead(p)
        PROVE  BookingInv'
    <3>1. tx[p] \in CreateTx
      BY <2>2, KindOfTx DEF CreateRead
    <3>2. tx[p].user \in User /\ tx[p].slot \in Slot
      BY <3>1 DEF CreateTx
    <3> QED BY <2>2, <3>2, CreateWaits
  <2> QED BY <1>1, <2>1, <2>2
<1>2. ASSUME NEW r \in Resv, CancelBegin(p, r)
      PROVE  BookingInv'
  BY <1>2, BeginStartsOther, QuietStep DEF CancelBegin, TypeOK
<1>3. CASE CancelCommit(p)
  <2>1. PICK r \in Resv : r = tx[p].resv
    BY <1>3, KindOfTx DEF CancelCommit, CancelTx
  <2>2. CancelRows({r}) /\ End(p) /\ UNCHANGED <<now, job>>
    BY <1>3, <2>1 DEF CancelCommit
  <2>3. NoNewBooking /\ NoNewScan /\ NoNewPending
    BY <2>2, EndStartsNothing DEF NoNewPending, Pending
  <2>4. \A q \in Request : tx'[q].op = "checkIn" => tx[q].resv \notin {r}
    BY <1>3, <2>1, <2>3, NoScanDuringCancel DEF CancelCommit, NoNewScan
  <2> QED BY <2>2, <2>3, <2>4, CancelStep
<1> QED BY <1>1, <1>2, <1>3, CreateBeginBooks, CreateCommitBooks DEF Booking

-----------------------------------------------------------------------------
(* The monitoring tick *)

(* Steps of a tick that only drop work. *)
LEMMA DropPending ==
  ASSUME TypeOK, TypeOK', BookingInv, UNCHANGED <<now, res, qr, tx>>, NoNewPending
  PROVE  BookingInv'
<1>1. FixedColumns /\ NoNewBooking /\ NoNewScan /\ StatusMovesOn /\ NoNewHolder
  BY DEF FixedColumns, NoNewBooking, NoNewScan, StatusMovesOn, NoNewHolder, Held
<1>2. EndsCoverBookings' /\ ScannedRowsKept /\ now' >= now
  BY DEF BookingInv, EndsCoverBookings, BookedEnd, ScansInFlight, ScannedRowsKept, TypeOK
<1> QED BY <1>1, <1>2, HeldShrinks, ScansKept DEF BookingInv

(* The list of parked cars, with end times that cover their bookings. *)
LEMMA ListActiveBooks ==
  ASSUME TypeOK, TypeOK', BookingInv, NEW i \in Instance, ListActive(i)
  PROVE  BookingInv'
<1>1. UNCHANGED <<now, res, qr, tx>>
  BY DEF ListActive
<1>2. /\ \A j \in Instance \ {i} : job'[j] = job[j]
      /\ job'[i].pc = "listed"
      /\ Pending(i)' = {r \in Resv : res[r].status = "CHECKED_IN"}
      /\ \A r \in Resv : res[r].status = "CHECKED_IN" => job'[i].ends[r] = res[r].end
  BY DEF ListActive, EndsOf, TypeOK, Pending
<1>3. \A j \in Instance \ {i} : Pending(j)' = Pending(j)
  BY <1>2 DEF Pending
<1>4. NoDoubleBooking' /\ BookingsInFlightApart'
  BY <1>1 DEF BookingInv, NoDoubleBooking, BookingsInFlightApart, Held, BuffersApart,
              BookedEnd
<1>5. OneBookingPerSlot' /\ ScansInFlight' /\ EndsCoverBookings'
  BY <1>1 DEF BookingInv, OneBookingPerSlot, ScansInFlight, EndsCoverBookings, BookedEnd
<1>6. PendingRows'
  <2> SUFFICES ASSUME NEW j \in Instance, NEW r \in Resv, r \in Pending(j)'
               PROVE  /\ res[r].status \notin {"NONE", "CONFIRMED"}
                      /\ job'[j].ends[r] >= BookedEnd(r)
                      /\ job'[j].pc # "listed" => now >= job'[j].ends[r] + Buffer
    BY <1>1 DEF PendingRows, BookedEnd
  <2>1. CASE j = i
    BY <1>2, <2>1 DEF BookingInv, EndsCoverBookings
  <2>2. CASE j # i
    BY <1>2, <1>3, <2>2 DEF BookingInv, PendingRows
  <2> QED BY <2>1, <2>2
<1> QED BY <1>4, <1>5, <1>6 DEF BookingInv

(* The clock is read: of the listed rows those are left whose grace period is over. *)
LEMMA ReadClockBooks ==
  ASSUME TypeOK, TypeOK', BookingInv, NEW i \in Instance, ReadClock(i)
  PROVE  BookingInv'
<1>1. UNCHANGED <<now, res, qr, tx>> /\ job[i].pc = "listed"
  BY DEF ReadClock
<1>2. /\ \A j \in Instance \ {i} : job'[j] = job[j]
      /\ Pending(i)' = GraceOver(i)
      /\ GraceOver(i) \subseteq Pending(i)
      /\ \A r \in Resv : r \in GraceOver(i) => job'[i].ends[r] = job[i].ends[r]
  BY DEF ReadClock, EndsOf, TypeOK, Pending, GraceOver
<1>3. \A j \in Instance \ {i} : Pending(j)' = Pending(j)
  BY <1>2 DEF Pending
<1>4. NoDoubleBooking' /\ BookingsInFlightApart'
  BY <1>1 DEF BookingInv, NoDoubleBooking, BookingsInFlightApart, Held, BuffersApart,
              BookedEnd
<1>5. OneBookingPerSlot' /\ ScansInFlight' /\ EndsCoverBookings'
  BY <1>1 DEF BookingInv, OneBookingPerSlot, ScansInFlight, EndsCoverBookings, BookedEnd
<1>6. PendingRows'
  <2> SUFFICES ASSUME NEW j \in Instance, NEW r \in Resv, r \in Pending(j)'
               PROVE  /\ res[r].status \notin {"NONE", "CONFIRMED"}
                      /\ job'[j].ends[r] >= BookedEnd(r)
                      /\ job'[j].pc # "listed" => now >= job'[j].ends[r] + Buffer
    BY <1>1 DEF PendingRows, BookedEnd
  <2>1. CASE j = i
    <3>1. r \in GraceOver(i) /\ r \in Pending(i) /\ job'[i].ends[r] = job[i].ends[r]
      BY <1>2, <2>1
    <3>2. now >= job[i].ends[r] + Buffer
      BY <3>1 DEF GraceOver
    <3> QED BY <2>1, <3>1, <3>2 DEF BookingInv, PendingRows
  <2>2. CASE j # i
    BY <1>2, <1>3, <2>2 DEF BookingInv, PendingRows
  <2> QED BY <2>1, <2>2
<1> QED BY <1>4, <1>5, <1>6 DEF BookingInv

(* What the two decisions write about the row they decide on: the row is OVERTIME, *)
(* and holds nothing, or its end time becomes one that still covers its booking.   *)
LEMMA DecisionStep ==
  ASSUME TypeOK, TypeOK', BookingInv, NEW i \in Instance, MarkOvertime(i) \/ ExtendBooking(i)
  PROVE  BookingInv'
<1>0. PICK r \in Resv : r = job[i].cur /\ r \in Pending(i)
  BY StageOfTick DEF MarkOvertime, ExtendBooking, Pending
<1>1. UNCHANGED <<now, qr, tx>> /\ job[i].pc = "resolve" /\ NextRow(i)
  BY DEF MarkOvertime, ExtendBooking
<1>2. NoNewPending
  BY <1>1 DEF NextRow, NoNewPending, Pending, TypeOK
<1>3. \A x \in Resv \ {r} : res'[x] = res[x]
  BY <1>0 DEF MarkOvertime, ExtendBooking, TypeOK
<1>4. /\ res[r].status \notin {"NONE", "CONFIRMED"}
      /\ job[i].ends[r] >= BookedEnd(r)
  BY <1>0 DEF BookingInv, PendingRows
<1>5. /\ res'[r].slot = res[r].slot /\ res'[r].start = res[r].start
      /\ res'[r].hours = res[r].hours
      /\ res'[r].status \in {res[r].status, "OVERTIME"}
      /\ res'[r].end >= BookedEnd(r)
  <2>1. res[r].end >= BookedEnd(r)
    BY DEF BookingInv, EndsCoverBookings
  <2>2. CASE MarkOvertime(i)
    BY <1>0, <2>1, <2>2 DEF MarkOvertime, TypeOK, Reservation
  <2>3. CASE ExtendBooking(i)
    <3>1. job[i].ends[r] \in Nat
      BY <1>1, StageOfTick
    <3>2. ExtendedEnd(i) >= BookedEnd(r)
      BY <1>0, <1>4, <3>1, RowTypes, ConfigAssumption DEF ExtendedEnd
    <3> QED BY <1>0, <2>1, <2>3, <3>2 DEF ExtendBooking, TypeOK, Reservation
  <2> QED BY <2>2, <2>3
<1>6. FixedColumns /\ StatusMovesOn /\ NoNewBooking /\ NoNewScan
  BY <1>1, <1>3, <1>4, <1>5 DEF FixedColumns, StatusMovesOn, NoNewBooking, NoNewScan
<1>7. NoNewHolder
  BY <1>3, <1>5 DEF NoNewHolder, Held
<1>8. EndsCoverBookings'
  BY <1>3, <1>5 DEF BookingInv, EndsCoverBookings, BookedEnd
<1>9. ScannedRowsKept
  <2>1. \A q \in Request : tx[q].op \in {"checkIn", "checkOut"} => tx[q].resv \in Resv
    BY KindOfTx DEF CheckInTx, CheckOutTx
  <2>2. \A q \in Request : tx[q].op = "checkIn" => tx[q].resv # r
    BY <1>4 DEF BookingInv, ScansInFlight
  <2> QED BY <1>1, <1>3, <1>4, <1>5, <2>1, <2>2 DEF ScannedRowsKept, BookingInv, ScansInFlight
<1> QED BY <1>1, <1>2, <1>6, <1>7, <1>8, <1>9, HeldShrinks, ScansKept DEF BookingInv, TypeOK

LEMMA MonitoringBooks ==
  ASSUME TypeOK, TypeOK', BookingInv, NEW i \in Instance, Monitoring(i)
  PROVE  BookingInv'
<1>1. CASE MonitorStart(i) \/ MonitorDone(i) \/ MonitorFail(i)
  <2>1. UNCHANGED <<now, res, qr, tx>>
    BY <1>1 DEF MonitorStart, MonitorDone, MonitorFail
  <2>2. NoNewPending
    BY <1>1 DEF MonitorStart, MonitorDone, MonitorFail, NotRunning, NoNewPending, Pending,
                TypeOK
  <2> QED BY <2>1, <2>2, DropPending
<1>2. ASSUME NEW r \in Resv, CancelNoShow(i, r)
      PROVE  BookingInv'
  <2>1. UNCHANGED <<now, tx>> /\ NoNewPending
    BY <1>2 DEF CancelNoShow, NotRunning, NoNewPending, Pending, TypeOK
  <2>2. NoNewBooking /\ NoNewScan
    BY <2>1 DEF NoNewBooking, NoNewScan
  <2>3. CASE Exists(r)
    <3>1. CanCancel(r, None) /\ CancelRows({r})
      BY <1>2, <2>3 DEF CancelNoShow
    <3>2. \A q \in Request : tx'[q].op = "checkIn" => tx[q].resv \notin {r}
      BY <2>1, <3>1, NoScanDuringCancel, NoneAssumption
    <3> QED BY <2>1, <2>2, <3>1, <3>2, CancelStep
  <2>4. CASE ~Exists(r)
    BY <1>2, <2>1, <2>4, DropPending DEF CancelNoShow
  <2> QED BY <2>3, <2>4
<1>3. ASSUME NEW r \in Resv, ResolveGraceExpiry(i, r)
      PROVE  BookingInv'
  <2>1. UNCHANGED <<now, res, qr, tx>>
    BY <1>3 DEF ResolveGraceExpiry
  <2>2. NoNewPending
    <3>1. /\ job[i].pc = "active" /\ r \in job[i].todo
          /\ job'[i].pc = "resolve" /\ job'[i].todo = job[i].todo \ {r}
          /\ job'[i].cur = r /\ job'[i].ends = job[i].ends
          /\ \A j \in Instance \ {i} : job'[j] = job[j]
      BY <1>3 DEF ResolveGraceExpiry, TypeOK
    <3> QED BY <3>1 DEF NoNewPending, Pending
  <2> QED BY <2>1, <2>2, DropPending
<1> QED BY <1>1, <1>2, <1>3, ListActiveBooks, ReadClockBooks, DecisionStep
     DEF Monitoring

-----------------------------------------------------------------------------

LEMMA NothingBookedAtFirst == Init => BookingInv
BY ConfigAssumption
DEF Init, BookingInv, NoDoubleBooking, BookingsInFlightApart, OneBookingPerSlot,
    ScansInFlight, PendingRows, EndsCoverBookings, Held, Pending, BuffersApart, BookedEnd,
    NoReservation, Idle, NotRunning

(* Every step keeps BookingInv: the rows that hold a slot lie apart, and apart     *)
(* from what bookings in flight have checked, although a booking waits for its     *)
(* slot with an arrival checked before and ticks write end times from old lists.   *)
THEOREM BookingInvariant == Spec => []BookingInv
<1>1. TypeOK /\ TypeOK' /\ BookingInv /\ [Next]_vars => BookingInv'
  <2> SUFFICES ASSUME TypeOK, TypeOK', BookingInv, [Next]_vars
               PROVE  BookingInv'
    OBVIOUS
  <2>1. ASSUME NEW p \in Request, Abort(p)
        PROVE  BookingInv'
    <3>1. End(p) /\ UNCHANGED <<now, res, qr, job>>
      BY <2>1 DEF Abort
    <3> QED BY <3>1, EndStartsNothing, QuietStep DEF TypeOK
  <2>2. CASE Clock
    <3>1. UNCHANGED <<res, qr, tx, job>> /\ now' >= now
      BY <2>2 DEF Clock, TypeOK
    <3> QED BY <3>1, QuietStep DEF NoNewBooking, NoNewScan
  <2>3. CASE UNCHANGED vars
    <3>1. UNCHANGED <<res, qr, tx, job>> /\ now' >= now
      BY <2>3 DEF vars, TypeOK
    <3> QED BY <3>1, QuietStep DEF NoNewBooking, NoNewScan
  <2> QED
    BY <2>1, <2>2, <2>3, BookingBooks, CheckpointBooks, AdministrationBooks, AccountBooks,
       MonitoringBooks DEF Next
<1> QED
  BY <1>1, NothingBookedAtFirst, TypeCorrect, PTL DEF Spec

(* No slot is double-booked: reservations that hold the same slot were booked for  *)
(* intervals at least the checkout buffer apart, whatever requests, ticks, stale   *)
(* writes, failures and deletions are interleaved.                                 *)
THEOREM NoSlotDoubleBooked == Spec => []NoDoubleBooking
<1>1. BookingInv => NoDoubleBooking
  BY DEF BookingInv
<1> QED BY <1>1, BookingInvariant, PTL

=============================================================================
