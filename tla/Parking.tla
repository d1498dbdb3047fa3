------------------------------- MODULE Parking -------------------------------
(***************************************************************************)
(* The reservation system: the request handlers, the monitoring cron and   *)
(* the clock, run against one database.                                    *)
(***************************************************************************)
EXTENDS ReservationService, CheckpointService, ReservationMonitoring,
        UsersService, ParkingSlotService

\* A request that does not commit: a check that throws, a deadlock victim, the 5-second
\* timeout, a foreign key, a lost connection or a restart of the process.
Abort(p) ==
  /\ tx[p].op # "idle"
  /\ End(p)
  /\ UNCHANGED <<now, res, qr, slot, payment, challan, card, account, lotActive, job>>

\* An hour passes.  A request outlives at most one such step, because its
\* transaction times out within seconds; a monitoring tick may take any time.
Clock ==
  /\ now < Horizon
  /\ \A p \in Request : tx[p].op # "idle" => tx[p].at = now
  /\ now' = now + 1
  /\ UNCHANGED <<res, qr, slot, payment, challan, card, account, lotActive, tx, job>>

\* Bound: a booking only starts when there is a row left for it and for those in flight.
RowsLeft ==
  Cardinality({p \in Request : tx[p].op \in {"arrived", "waiting", "create"}})
    < Cardinality({r \in Resv : res[r].status = "NONE"})

Booking(p) ==
  \/ /\ RowsLeft
     /\ \E u \in User, s \in Slot, start \in now..Horizon, hours \in Durations :
          CreateArrive(p, u, s, start, hours)
  \/ CreateRead(p)
  \/ CreateBegin(p)
  \/ CreateCommit(p)
  \/ \E r \in Resv : CancelBegin(p, r)
  \/ CancelCommit(p)

Checkpoint(p) ==
  \/ \E r \in Resv : CheckInBegin(p, r)
  \/ CheckInCommit(p)
  \/ \E r \in Resv : CheckOutBegin(p, r)
  \/ CheckOutDeclined(p)
  \/ CheckOutPaid(p)

Administration(p) ==
  \/ \E u \in Blockable : BlockBegin(p, u)
  \/ BlockCommit(p)
  \/ \E s \in Restrictable, to \in {"AVAILABLE", "MAINTENANCE"} : UpdateStatusRead(p, s, to)
  \/ \E S \in SUBSET Restrictable, to \in {"AVAILABLE", "MAINTENANCE"} :
       BulkUpdateStatusRead(p, S, to)
  \/ \E reason \in BOOLEAN : RestrictWrite(p, reason)

Account ==
  \/ \E u \in Leavers : RemoveSelf(u)
  \/ \E u \in User, c \in SavedCards : SavePaymentMethod(u, c)
  \/ \E b \in LotSwitch : SetLotActive(b)

Monitoring(i) ==
  \/ MonitorStart(i)
  \/ \E r \in Resv : CancelNoShow(i, r)
  \/ ListActive(i)
  \/ ReadClock(i)
  \/ \E r \in Resv : ResolveGraceExpiry(i, r)
  \/ MarkOvertime(i)
  \/ ExtendBooking(i)
  \/ MonitorDone(i)
  \/ MonitorFail(i)

Next ==
  \/ \E p \in Request : Booking(p) \/ Checkpoint(p) \/ Administration(p) \/ Abort(p)
  \/ Account
  \/ \E i \in Instance : Monitoring(i)
  \/ Clock

Spec == Init /\ [][Next]_vars

-----------------------------------------------------------------------------
(* Safety *)

\* The interval a reservation was booked for, extensions left out.
BookedEnd(r) == res[r].start + res[r].hours

BuffersApart(r, q) ==
  \/ res[r].start >= BookedEnd(q) + Buffer
  \/ res[q].start >= BookedEnd(r) + Buffer

\* No double booking: the intervals booked on a slot by reservations that hold it lie
\* at least the checkout buffer apart, although bookings race each other and wait for
\* the lock with an arrival checked long before, and the overlap check reads end times
\* that the cron moves (reservation.service.ts, the slot lock).  OVERTIME rows are not
\* among them: a stale tick may bring one back from COMPLETED into the way of a newer
\* booking (ParkingClaims, SlotClaimedOnce).
NoDoubleBooking ==
  \A r, q \in Resv :
    r # q /\ Held(r) /\ Held(q) /\ res[r].slot = res[q].slot => BuffersApart(r, q)

\* A check-in code can be scanned exactly while its reservation is CONFIRMED, and a
\* parked car always has a check-out code that works: whoever cancels or scans
\* first, row and code change together (cancel, cancelNoShows, block, checkIn).
CodesMatchStatus ==
  \A r \in Resv :
    /\ qr[r].in = "ACTIVE" <=> res[r].status = "CONFIRMED"
    /\ res[r].status = "CHECKED_IN" => qr[r].out = "ACTIVE"

\* A COMPLETED stay was charged, and a check-out code is used up exactly when the
\* charge went through: a declined card leaves the code for the retry (checkOut).
CompletedIsPaid ==
  \A r \in Resv :
    /\ res[r].status = "COMPLETED" => payment[r].status = "SUCCESSFUL"
    /\ qr[r].out = "USED" <=> payment[r].status = "SUCCESSFUL"

\* A RESERVED slot is never left behind: some CONFIRMED reservation will free it or
\* take it.  The one exception is a customer who deleted the account meanwhile,
\* which leaves the slot as it was (create, cancel, cancelNoShows, block, checkIn).
ReservedIsBacked ==
  \A s \in Slot : slot[s].status = "RESERVED" =>
    \E r \in Resv : res[r].slot = s /\ res[r].status \in {"CONFIRMED", "DELETED"}

Extensions(r) == {c \in ChallansOf(r) : c.type = "EXTENSION"}

\* The end time has moved by one hour for every extension that is billed, no more
\* and no less: no tick extends without a challan or bills without an extension
\* (extendBooking, whose new end time is computed from a list read earlier).
EveryExtensionIsBilled ==
  \A r \in Resv : Exists(r) =>
    res[r].end = BookedEnd(r) + Extension * Cardinality(Extensions(r))

\* Nobody is billed inside the grace period: a challan is about an end time, at or
\* after the booked one, that lies at least the buffer in the past
\* (processActiveBookings decides from rows and a clock read earlier).
BilledAfterGrace ==
  \A c \in challan :
    /\ now >= c.forCheckoutAt + Buffer
    /\ c.forCheckoutAt >= BookedEnd(c.resv)

\* A checkout cycle is resolved one way: the same end time is never both extended
\* and fined (the challans' unique key contains the type, so the database does not
\* rule this out; that one instance runs the cron does).
CycleResolvedOneWay ==
  \A c, d \in challan :
    c.resv = d.resv /\ c.forCheckoutAt = d.forCheckoutAt => c.type = d.type

\* No reservation that still claims a slot belongs to an account that is gone: a
\* booking in flight while its customer deletes the account does not leave a row
\* behind, and the deletion misses none (create, removeSelf).
NoOrphans ==
  \A r \in Resv : Claims(r) => res[r].user \in account

\* A deleted account leaves no code, payment or challan behind: nothing that was in
\* flight writes to its rows afterwards (removeSelf against checkIn, checkOut, the
\* cron).
NothingLeftBehind ==
  \A r \in Resv : res[r].user \notin account /\ res[r].status # "NONE" =>
    /\ qr[r] = [in |-> "NONE", out |-> "NONE"]
    /\ payment[r] = NoPayment
    /\ ChallansOf(r) = {}

-----------------------------------------------------------------------------
(* Why no slot is double-booked: an inductive invariant *)

\* The rows a tick may still decide about, from the list it read.
Pending(i) ==
  IF job[i].pc \in {"listed", "active"} THEN job[i].todo
  ELSE IF job[i].pc = "resolve" THEN job[i].todo \cup {job[i].cur}
  ELSE {}

\* What a booking in flight has checked stays true until it commits.
BookingsInFlightApart ==
  \A p \in Request, r \in Resv :
    tx[p].op = "create" /\ Held(r) /\ res[r].slot = tx[p].slot =>
      \/ res[r].start >= tx[p].start + tx[p].hours + Buffer
      \/ tx[p].start >= BookedEnd(r) + Buffer

OneBookingPerSlot ==
  \A p, q \in Request :
    p # q /\ tx[p].op = "create" /\ tx[q].op = "create" => tx[p].slot # tx[q].slot

ScansInFlight ==
  \A p \in Request :
    /\ tx[p].op = "checkIn" =>
         /\ res[tx[p].resv].status = "CONFIRMED"
         /\ qr[tx[p].resv].in = "ACTIVE"
         /\ \A q \in Request \ {p} : tx[q].op = "checkIn" => tx[q].resv # tx[p].resv
    /\ tx[p].op = "checkOut" => res[tx[p].resv].status \notin {"NONE", "CONFIRMED"}

PendingRows ==
  \A i \in Instance, r \in Resv : r \in Pending(i) =>
    /\ res[r].status \notin {"NONE", "CONFIRMED"}
    /\ job[i].ends[r] >= BookedEnd(r)
    /\ job[i].pc # "listed" => now >= job[i].ends[r] + Buffer

EndsCoverBookings == \A r \in Resv : res[r].end >= BookedEnd(r)

\* Why NoDoubleBooking holds although the cron writes end times and statuses from old
\* lists: no end time is ever moved before the booked one, which is what the overlap
\* check reads; a row listed as parked is never CONFIRMED again, and the only way to
\* CHECKED_IN is a scan that has its CONFIRMED row to itself.
BookingInv ==
  /\ NoDoubleBooking
  /\ BookingsInFlightApart
  /\ OneBookingPerSlot
  /\ ScansInFlight
  /\ PendingRows
  /\ EndsCoverBookings

-----------------------------------------------------------------------------
(* Why a stay is charged once: another inductive invariant *)

NothingBeforeBooking == \A r \in Resv : res[r].status = "NONE" => res[r] = NoReservation

CheckOutCodesComeLater ==
  \A r \in Resv : res[r].status \in {"NONE", "CONFIRMED", "DELETED"} => qr[r].out = "NONE"

\* A check-out in flight has a code of its own that is still ACTIVE.
CheckOutsInFlight ==
  \A p \in Request : tx[p].op = "checkOut" =>
    /\ qr[tx[p].resv].out = "ACTIVE"
    /\ \A q \in Request \ {p} : tx[q].op = "checkOut" => tx[q].resv # tx[p].resv

\* The rows a cancellation or a block in flight will write are there.
CancellationsInFlight ==
  \A p \in Request :
    /\ tx[p].op = "cancel" => Exists(tx[p].resv)
    /\ tx[p].op = "block" => \A r \in tx[p].rows : Exists(r) /\ res[r].user = tx[p].user

\* Why ChargedOnce and CompletedIsPaid hold, and no cancellation brings back a row
\* whose owner is gone: what a handler in flight has locked stays as it was read,
\* through scans, deletions of accounts and the cron's stale writes.
ChargeInv ==
  /\ CompletedIsPaid
  /\ NothingBeforeBooking
  /\ CheckOutCodesComeLater
  /\ CheckOutsInFlight
  /\ CancellationsInFlight

-----------------------------------------------------------------------------
(* Why a deletion is complete: another inductive invariant *)

OwnersExist == \A r \in Resv : Exists(r) => res[r].user \in account

AbsentRowsAreBare ==
  \A r \in Resv : ~Exists(r) =>
    /\ qr[r] = [in |-> "NONE", out |-> "NONE"]
    /\ payment[r] = NoPayment
    /\ ChallansOf(r) = {}

\* Why NoOrphans and NothingLeftBehind hold: whoever deletes an account, every row
\* that is there has its owner, and no scan, bill or tick in flight writes to a row
\* that is not (removeSelf, the foreign keys, the update's error on a missing row).
AccountInv == OwnersExist /\ AbsentRowsAreBare

-----------------------------------------------------------------------------
(* Why a tick decides right from an old list: another inductive invariant *)

ListedNoShowsAreLate ==
  \A i \in Instance, r \in Resv : job[i].pc = "noShows" /\ r \in job[i].todo =>
    res[r].status # "NONE" /\ now > res[r].start + Grace

\* The end time a row was listed with is its end time still, or was extended since.
ListedEndsAreCurrentOrBilled ==
  \A i \in Instance, r \in Resv : r \in Pending(i) /\ Exists(r) =>
    \/ job[i].ends[r] = res[r].end
    \/ [resv |-> r, type |-> "EXTENSION", forCheckoutAt |-> job[i].ends[r]] \in challan

\* No row is listed again for a cycle that is decided.
DecidedCyclesAreOver ==
  \A c \in challan :
    /\ c.type = "OVERTIME" =>
         res[c.resv].status \notin {"NONE", "CONFIRMED", "CHECKED_IN"}
    /\ c.type = "EXTENSION" => c.forCheckoutAt < res[c.resv].end

OneInstance == \A i, j \in Instance : i = j

\* What the only tick has still to decide, nobody has decided.
LoneTickDecidesFirst ==
  OneInstance =>
    \A i \in Instance :
      /\ job[i].pc = "resolve" => job[i].cur \notin job[i].todo
      /\ \A c \in challan : c.resv \in Pending(i) => c.forCheckoutAt # job[i].ends[c.resv]

\* Why SweepSparesValidCodes, EveryExtensionIsBilled and CycleResolvedOneWay hold
\* although a tick works through lists that scans, cancellations, deletions and
\* failed ticks make stale: the challan of a decision stops every other tick that
\* read the same end time (cancelNoShows, extendBooking, markOvertime).
MonitoringInv ==
  /\ ListedNoShowsAreLate
  /\ ListedEndsAreCurrentOrBilled
  /\ DecidedCyclesAreOver
  /\ LoneTickDecidesFirst

\* All that the safety properties rest on: what bookings, scans, bills, deletions and
\* ticks in flight may rely on, each part needed to keep the others.
ParkingInv == BookingInv /\ ChargeInv /\ AccountInv /\ MonitoringInv

-----------------------------------------------------------------------------
(* What a step may never do *)

Gone(r) == res'[r].status = "DELETED"

\* A code that was scanned or invalidated stays so: two scans of one code, or a scan
\* racing a cancellation, cannot both succeed (loadValidQrCode, the QrCode lock).
CodesAreFinal ==
  [][\A r \in Resv :
       /\ qr[r].in \in {"USED", "EXPIRED"} => qr'[r].in = qr[r].in \/ Gone(r)
       /\ qr[r].out = "USED" => qr'[r].out = "USED" \/ Gone(r)]_vars

\* A successful charge is never repeated, changed or turned into a decline by a
\* second scan that read another card or another bill (checkOut's upsert).
ChargedOnce ==
  [][\A r \in Resv :
       payment[r].status = "SUCCESSFUL" => payment'[r] = payment[r] \/ Gone(r)]_vars

\* The sweep never cancels a booking whose check-in code still opens the gate: a
\* CONFIRMED row cancelled by anything but a request is past the code's expiry
\* (the sweep's cutoff and the code's expiresAt are computed apart).
SweepSparesValidCodes ==
  [][\A r \in Resv :
       res[r].status = "CONFIRMED" /\ res'[r].status = "CANCELLED" /\ tx' = tx
         => now > res[r].start + Grace]_vars

-----------------------------------------------------------------------------
(* What all of it amounts to *)

EntryState(r) ==
  CASE Held(r) -> "held"
    [] res[r].status = "OVERTIME" -> "overstayed"
    [] res[r].status = "NONE" -> "free"
    [] res[r].status = "DELETED" -> "gone"
    [] OTHER -> "closed"

Entries ==
  [r \in Resv |-> [state |-> EntryState(r), slot |-> res[r].slot,
                   start |-> res[r].start, until |-> BookedEnd(r)]]
Paid == {r \in Resv : payment[r].status = "SUCCESSFUL"}

Ledger == INSTANCE BookingLedger WITH Entry <- Resv, entry <- Entries, paid <- Paid

\* To its customers the system is a ledger of intervals: whatever requests, ticks
\* and aborts interleave, every step books, closes, settles, forgets entries or finds
\* one overstayed as the ledger allows, or is none of the customers' concern.
ImplementsLedger == Ledger!Spec

-----------------------------------------------------------------------------
(* Liveness *)

\* A request ends, one way or the other, within its transaction's timeout.
Finish(p) ==
  \/ CreateRead(p) \/ CreateBegin(p) \/ CreateCommit(p)
  \/ CancelCommit(p) \/ CheckInCommit(p) \/ CheckOutDeclined(p)
  \/ CheckOutPaid(p) \/ BlockCommit(p) \/ Abort(p)
  \/ \E reason \in BOOLEAN : RestrictWrite(p, reason)

\* The clock runs, requests end, and the cron keeps firing.  Failures are passing:
\* a commit, or a step of a tick, that is possible again and again is not aborted every
\* time.
Fairness ==
  /\ WF_vars(Clock)
  /\ \A p \in Request :
       WF_vars(Finish(p)) /\ SF_vars(CreateCommit(p)) /\ SF_vars(CancelCommit(p))
  /\ \A i \in Instance :
       /\ WF_vars(Monitoring(i))
       /\ SF_vars(ListActive(i))
       /\ SF_vars(ReadClock(i))
       /\ SF_vars(MarkOvertime(i) \/ ExtendBooking(i))
       /\ \A r \in Resv : SF_vars(CancelNoShow(i, r) \/ ResolveGraceExpiry(i, r))

LiveSpec == Spec /\ Fairness

\* A customer who never came does not keep the slot: past the grace window a
\* CONFIRMED reservation is eventually cancelled (cancelNoShows).
NoShowsAreReleased ==
  \A r \in Resv :
    res[r].status = "CONFIRMED" /\ now > res[r].start + Grace ~> res[r].status # "CONFIRMED"

\* An overstay is dealt with: once its grace period is over, a parked car is
\* extended, fined, or gone (processActiveBookings).  The end times are those whose
\* grace period is over before the clock stops.
OverstaysAreResolved ==
  \A r \in Resv : \A e \in 1..(Horizon - Buffer) :
    res[r].status = "CHECKED_IN" /\ res[r].end = e /\ now >= e + Buffer
      ~> res[r].status # "CHECKED_IN" \/ res[r].end # e

\* The reentrancy guard never stays set: a tick that failed anywhere does not keep
\* all later ticks from running (monitor, its finally block).
TicksEnd ==
  \A i \in Instance : job[i].pc # "idle" ~> job[i].pc = "idle"

=============================================================================
