------------------------------ MODULE CodeProofs ------------------------------
(***************************************************************************)
(* Codes, slots and bills agree with the reservations, for every value of  *)
(* the constants.  The invariants here are inductive by themselves, given  *)
(* those of the modules before.                                            *)
(***************************************************************************)
EXTENDS AccountProofs, FiniteSetTheorems

-----------------------------------------------------------------------------
(* What each kind of step does to a row and its codes *)

LEMMA CreateRow ==
  ASSUME TypeOK, NEW p \in Request, CreateCommit(p)
  PROVE  \E r \in Resv :
           /\ res[r].status = "NONE" /\ res'[r].status = "CONFIRMED"
           /\ tx[p].slot \in Slot /\ res'[r].slot = tx[p].slot
           /\ qr'[r].in = "ACTIVE" /\ qr'[r].out = qr[r].out
           /\ \A x \in Resv \ {r} : res'[x] = res[x] /\ qr'[x] = qr[x]
<1>1. PICK r \in Resv : /\ res[r].status = "NONE"
                        /\ res' = [res EXCEPT ![r] = NewRow(tx[p])]
                        /\ qr' = [qr EXCEPT ![r].in = "ACTIVE"]
  BY DEF CreateCommit
<1>2. tx[p].slot \in Slot
  BY KindOfTx DEF CreateCommit, CreateTx
<1> QED BY <1>1, <1>2 DEF NewRow, TypeOK, QrCode

LEMMA CheckInRow ==
  ASSUME TypeOK, BookingInv, NEW p \in Request, CheckInCommit(p)
  PROVE  \E r \in Resv :
           /\ res[r].status = "CONFIRMED" /\ res'[r].status = "CHECKED_IN"
           /\ res'[r].slot = res[r].slot
           /\ slot' = [slot EXCEPT ![res[r].slot].status = "OCCUPIED"]
           /\ qr[r].in = "ACTIVE" /\ qr'[r].in = "USED" /\ qr'[r].out = "ACTIVE"
           /\ \A x \in Resv \ {r} : res'[x] = res[x] /\ qr'[x] = qr[x]
<1>1. PICK r \in Resv : /\ r = tx[p].resv
                        /\ res[r].status = "CONFIRMED" /\ qr[r].in = "ACTIVE"
  BY KindOfTx DEF CheckInCommit, CheckInTx, BookingInv, ScansInFlight
<1>2. /\ res'[r].status = "CHECKED_IN" /\ res'[r].slot = res[r].slot
      /\ qr'[r].in = "USED" /\ qr'[r].out = "ACTIVE"
      /\ slot' = [slot EXCEPT ![res[r].slot].status = "OCCUPIED"]
      /\ \A x \in Resv \ {r} : res'[x] = res[x] /\ qr'[x] = qr[x]
  BY <1>1 DEF CheckInCommit, TypeOK, Reservation
<1> QED BY <1>1, <1>2

LEMMA PaidRow ==
  ASSUME TypeOK, BookingInv, ChargeInv, NEW p \in Request, CheckOutPaid(p)
  PROVE  \E r \in Resv :
           /\ res[r].status \notin {"NONE", "CONFIRMED", "DELETED"}
           /\ res'[r].status = "COMPLETED" /\ res'[r].slot = res[r].slot
           /\ slot' = [slot EXCEPT ![res[r].slot].status = "AVAILABLE"]
           /\ qr[r].out = "ACTIVE" /\ qr'[r].in = qr[r].in /\ qr'[r].out = "USED"
           /\ \A x \in Resv \ {r} : res'[x] = res[x] /\ qr'[x] = qr[x]
<1>1. PICK r \in Resv : /\ r = tx[p].resv /\ qr[r].out = "ACTIVE"
                        /\ res[r].status \notin {"NONE", "CONFIRMED", "DELETED"}
  BY RowOfCheckOut DEF CheckOutPaid
<1>2. /\ res'[r].status = "COMPLETED" /\ res'[r].slot = res[r].slot
      /\ slot' = [slot EXCEPT ![res[r].slot].status = "AVAILABLE"]
      /\ qr'[r].in = qr[r].in /\ qr'[r].out = "USED"
      /\ \A x \in Resv \ {r} : res'[x] = res[x] /\ qr'[x] = qr[x]
  BY <1>1 DEF CheckOutPaid, TypeOK, Reservation, QrCode
<1> QED BY <1>1, <1>2

LEMMA CancelledRows ==
  ASSUME TypeOK, Cancels
  PROVE  \E R \in SUBSET Resv :
           /\ \A r \in R : /\ Exists(r)
                           /\ res'[r].status = "CANCELLED" /\ res'[r].slot = res[r].slot
                           /\ qr'[r].in = IF qr[r].in = "ACTIVE" THEN "EXPIRED" ELSE qr[r].in
                           /\ qr'[r].out = qr[r].out
           /\ \A r \in Resv \ R : res'[r] = res[r] /\ qr'[r] = qr[r]
           /\ \A s \in Slot : slot'[s].status = "RESERVED" =>
                slot[s].status = "RESERVED" /\ \A r \in R : res[r].slot # s
<1>1. PICK R \in SUBSET Resv : CancelRows(R) /\ \A r \in R : Exists(r)
  BY DEF Cancels
<1>2. \A r \in R : /\ res'[r].status = "CANCELLED" /\ res'[r].slot = res[r].slot
                   /\ qr'[r].in = IF qr[r].in = "ACTIVE" THEN "EXPIRED" ELSE qr[r].in
                   /\ qr'[r].out = qr[r].out
  BY <1>1 DEF CancelRows, TypeOK, Reservation, QrCode
<1>3. \A r \in Resv \ R : res'[r] = res[r] /\ qr'[r] = qr[r]
  BY <1>1 DEF CancelRows
<1>4. \A s \in Slot : slot'[s].status = "RESERVED" =>
        slot[s].status = "RESERVED" /\ \A r \in R : res[r].slot # s
  BY <1>1 DEF CancelRows, TypeOK, ParkingSlot
<1> QED BY <1>1, <1>2, <1>3, <1>4

LEMMA RemovedRows ==
  ASSUME TypeOK, NEW u \in User, RemoveSelf(u)
  PROVE  /\ \A r \in Resv : res'[r].slot = res[r].slot
         /\ \A r \in Resv : \/ res'[r].status = "DELETED"
                               /\ qr'[r] = [in |-> "NONE", out |-> "NONE"]
                            \/ res'[r] = res[r] /\ qr'[r] = qr[r]
         /\ UNCHANGED slot
BY DEF RemoveSelf, TypeOK, Reservation

LEMMA DecidedRow ==
  ASSUME TypeOK, BookingInv, NEW i \in Instance, MarkOvertime(i) \/ ExtendBooking(i)
  PROVE  \E r \in Resv :
           /\ r = job[i].cur /\ r \in Pending(i) /\ Exists(r)
           /\ res[r].status \notin {"NONE", "CONFIRMED"}
           /\ res'[r].status \in {res[r].status, "OVERTIME"}
           /\ res'[r].slot = res[r].slot
           /\ \A x \in Resv \ {r} : res'[x] = res[x]
           /\ UNCHANGED <<now, qr, slot>>
<1>1. PICK r \in Resv : r = job[i].cur /\ r \in Pending(i) /\ Exists(r)
  BY StageOfTick DEF MarkOvertime, ExtendBooking, Pending
<1>2. res[r].status \notin {"NONE", "CONFIRMED"}
  BY <1>1 DEF BookingInv, PendingRows
<1>3. /\ res'[r].status \in {res[r].status, "OVERTIME"}
      /\ res'[r].slot = res[r].slot
      /\ \A x \in Resv \ {r} : res'[x] = res[x]
  BY <1>1 DEF MarkOvertime, ExtendBooking, TypeOK, Reservation
<1>4. UNCHANGED <<now, qr, slot>>
  BY DEF MarkOvertime, ExtendBooking
<1> QED BY <1>1, <1>2, <1>3, <1>4

-----------------------------------------------------------------------------
(* Rows and codes *)

LEMMA CodesKeepMatching ==
  ASSUME TypeOK, BookingInv, ChargeInv, CodesMatchStatus, [Next]_vars
  PROVE  CodesMatchStatus'
<1>1. CASE UNCHANGED <<res, qr>>
  BY <1>1 DEF CodesMatchStatus
<1>2. ASSUME NEW p \in Request, CreateCommit(p)
      PROVE  CodesMatchStatus'
  <2>1. PICK n \in Resv : /\ res'[n].status = "CONFIRMED"
                          /\ qr'[n].in = "ACTIVE" /\ qr'[n].out = qr[n].out
                          /\ \A x \in Resv \ {n} : res'[x] = res[x] /\ qr'[x] = qr[x]
    BY <1>2, CreateRow
  <2> QED BY <2>1 DEF CodesMatchStatus
<1>3. ASSUME NEW p \in Request, CheckInCommit(p)
      PROVE  CodesMatchStatus'
  <2>1. PICK n \in Resv : /\ res'[n].status = "CHECKED_IN"
                          /\ qr'[n].in = "USED" /\ qr'[n].out = "ACTIVE"
                          /\ \A x \in Resv \ {n} : res'[x] = res[x] /\ qr'[x] = qr[x]
    BY <1>3, CheckInRow
  <2> QED BY <2>1 DEF CodesMatchStatus
<1>4. ASSUME NEW p \in Request, CheckOutPaid(p)
      PROVE  CodesMatchStatus'
  <2>1. PICK n \in Resv : /\ res[n].status # "CONFIRMED"
                          /\ res'[n].status = "COMPLETED" /\ qr'[n].in = qr[n].in
                          /\ \A x \in Resv \ {n} : res'[x] = res[x] /\ qr'[x] = qr[x]
    BY <1>4, PaidRow
  <2> QED BY <2>1 DEF CodesMatchStatus
<1>5. CASE Cancels
  BY <1>5, CancelledRows DEF CodesMatchStatus
<1>6. ASSUME NEW u \in User, RemoveSelf(u)
      PROVE  CodesMatchStatus'
  BY <1>6, RemovedRows DEF CodesMatchStatus
<1>7. CASE Decides
  BY <1>7, DecidedRow DEF Decides, CodesMatchStatus
<1>8. Keeps \/ (\E p \in Request : CheckOutDeclined(p)) => UNCHANGED <<res, qr>>
  BY DEF Keeps, CheckOutDeclined
<1> QED BY <1>1, <1>2, <1>3, <1>4, <1>5, <1>6, <1>7, <1>8, KindOfStep DEF StepKind

(* A check-in code opens the gate exactly while its reservation is CONFIRMED, and a *)
(* parked car has a check-out code that works, although cancel, block and the sweep *)
(* write without looking at the code.                                               *)
THEOREM CodesAgree == Spec => []CodesMatchStatus
<1>1. Init => CodesMatchStatus
  BY DEF Init, CodesMatchStatus, NoReservation
<1> QED BY <1>1, CodesKeepMatching, TypeCorrect, BookingInvariant, ChargeInvariant, PTL DEF Spec

CodesStayFinal ==
  \A r \in Resv :
    /\ qr[r].in \in {"USED", "EXPIRED"} => qr'[r].in = qr[r].in \/ Gone(r)
    /\ qr[r].out = "USED" => qr'[r].out = "USED" \/ Gone(r)

LEMMA FinalCodesKept ==
  ASSUME TypeOK, BookingInv, ChargeInv, AccountInv, [Next]_vars
  PROVE  CodesStayFinal
<1>1. CASE UNCHANGED <<res, qr>>
  BY <1>1 DEF CodesStayFinal
<1>2. ASSUME NEW p \in Request, CreateCommit(p)
      PROVE  CodesStayFinal
  <2>1. PICK n \in Resv : /\ res[n].status = "NONE" /\ qr'[n].out = qr[n].out
                          /\ \A x \in Resv \ {n} : qr'[x] = qr[x]
    BY <1>2, CreateRow
  <2>2. qr[n].in = "NONE"
    BY <2>1 DEF AccountInv, AbsentRowsAreBare, Exists
  <2> QED BY <2>1, <2>2 DEF CodesStayFinal
<1>3. ASSUME NEW p \in Request, CheckInCommit(p)
      PROVE  CodesStayFinal
  BY <1>3, CheckInRow DEF CodesStayFinal, ChargeInv, CheckOutCodesComeLater
<1>4. ASSUME NEW p \in Request, CheckOutPaid(p)
      PROVE  CodesStayFinal
  BY <1>4, PaidRow DEF CodesStayFinal
<1>5. CASE Cancels
  BY <1>5, CancelledRows DEF CodesStayFinal
<1>6. ASSUME NEW u \in User, RemoveSelf(u)
      PROVE  CodesStayFinal
  BY <1>6, RemovedRows DEF CodesStayFinal, Gone
<1>7. CASE Decides
  BY <1>7, DecidedRow DEF Decides, CodesStayFinal
<1>8. Keeps \/ (\E p \in Request : CheckOutDeclined(p)) => UNCHANGED <<res, qr>>
  BY DEF Keeps, CheckOutDeclined
<1> QED BY <1>1, <1>2, <1>3, <1>4, <1>5, <1>6, <1>7, <1>8, KindOfStep DEF StepKind

(* A code that was scanned or invalidated stays so (loadValidQrCode): two scans of  *)
(* one code, or a scan and a cancellation, never both succeed.                      *)
THEOREM CodesUsedOnce == Spec => CodesAreFinal
<1>1. TypeOK /\ BookingInv /\ ChargeInv /\ AccountInv /\ [Next]_vars
      => [\A r \in Resv :
            /\ qr[r].in \in {"USED", "EXPIRED"} => qr'[r].in = qr[r].in \/ Gone(r)
            /\ qr[r].out = "USED" => qr'[r].out = "USED" \/ Gone(r)]_vars
  BY FinalCodesKept DEF CodesStayFinal
<1> QED BY <1>1, TypeCorrect, BookingInvariant, ChargeInvariant, AccountInvariant, PTL
        DEF Spec, CodesAreFinal

-----------------------------------------------------------------------------
(* Slots *)

LEMMA SlotsStayBacked ==
  ASSUME TypeOK, BookingInv, ChargeInv, ReservedIsBacked, [Next]_vars
  PROVE  ReservedIsBacked'
<1> DEFINE Backs(r, s) == res[r].slot = s /\ res[r].status \in {"CONFIRMED", "DELETED"}
<1> SUFFICES ASSUME NEW s \in Slot, slot'[s].status = "RESERVED"
             PROVE  \E r \in Resv : Backs(r, s)'
  BY DEF ReservedIsBacked
<1>0. slot[s].status = "RESERVED" => \E r \in Resv : Backs(r, s)
  BY DEF ReservedIsBacked
<1>1. CASE Keeps
  BY <1>0, <1>1 DEF Keeps
<1>2. ASSUME NEW p \in Request, CreateCommit(p)
      PROVE  \E r \in Resv : Backs(r, s)'
  <2>1. PICK n \in Resv :
          /\ res[n].status = "NONE" /\ res'[n].status = "CONFIRMED"
          /\ res'[n].slot = tx[p].slot
          /\ \A x \in Resv \ {n} : res'[x] = res[x]
    BY <1>2, CreateRow
  <2>2. s = tx[p].slot \/ slot[s].status = "RESERVED"
    BY <1>2 DEF CreateCommit, TypeOK
  <2> QED BY <1>0, <2>1, <2>2
<1>3. ASSUME NEW p \in Request, CheckInCommit(p) \/ CheckOutPaid(p)
      PROVE  \E r \in Resv : Backs(r, s)'
  <2>1. PICK n \in Resv, to \in {"OCCUPIED", "AVAILABLE"} :
          /\ res[n].status # "DELETED"
          /\ slot' = [slot EXCEPT ![res[n].slot].status = to]
          /\ \A x \in Resv \ {n} : res'[x] = res[x]
    BY <1>3, CheckInRow, PaidRow
  <2>2. s # res[n].slot /\ slot[s].status = "RESERVED"
    BY <2>1 DEF TypeOK, ParkingSlot
  <2> QED BY <1>0, <2>1, <2>2
<1>4. CASE \E p \in Request : CheckOutDeclined(p)
  BY <1>0, <1>4 DEF CheckOutDeclined
<1>5. CASE Cancels
  BY <1>0, <1>5, CancelledRows
<1>6. ASSUME NEW u \in User, RemoveSelf(u)
      PROVE  \E r \in Resv : Backs(r, s)'
  BY <1>0, <1>6, RemovedRows
<1>7. CASE Decides
  BY <1>0, <1>7, DecidedRow DEF Decides, Exists
<1> QED BY <1>1, <1>2, <1>3, <1>4, <1>5, <1>6, <1>7, KindOfStep DEF StepKind

(* A RESERVED slot is never left behind: some CONFIRMED reservation will free it or *)
(* take it, unless its customer deleted the account.                                *)
THEOREM SlotsAreBacked == Spec => []ReservedIsBacked
<1>1. Init => ReservedIsBacked
  BY DEF Init, ReservedIsBacked
<1> QED BY <1>1, SlotsStayBacked, TypeCorrect, BookingInvariant, ChargeInvariant, PTL DEF Spec

-----------------------------------------------------------------------------
(* Bills *)

LEMMA ClockForward ==
  ASSUME TypeOK, [Next]_vars
  PROVE  now' >= now
<1>1. CASE Clock
  BY <1>1 DEF Clock, TypeOK
<1>2. CASE UNCHANGED now
  BY <1>2 DEF TypeOK
<1>3. ASSUME NEW p \in Request, Booking(p) \/ Checkpoint(p)
      PROVE  UNCHANGED now
  BY <1>3 DEF Booking, CreateArrive, CreateRead, CreateBegin, CreateCommit, CancelBegin, CancelCommit,
              Checkpoint, CheckInBegin, CheckInCommit, CheckOutBegin, CheckOutDeclined, CheckOutPaid
<1>4. ASSUME NEW p \in Request, Administration(p) \/ Abort(p)
      PROVE  UNCHANGED now
  BY <1>4 DEF Administration, BlockBegin, BlockCommit, UpdateStatusRead, BulkUpdateStatusRead,
              RestrictRead, RestrictWrite, Abort
<1>5. Account => UNCHANGED now
  BY DEF Account, RemoveSelf, SavePaymentMethod, SetLotActive
<1>6. ASSUME NEW i \in Instance, Monitoring(i)
      PROVE  UNCHANGED now
  BY <1>6 DEF Monitoring, MonitorStart, CancelNoShow, ListActive, ReadClock, ResolveGraceExpiry,
              MarkOvertime, ExtendBooking, MonitorDone, MonitorFail
<1> QED BY <1>1, <1>2, <1>3, <1>4, <1>5, <1>6 DEF Next, vars

(* A bill is about a row that is there; a step that keeps the bills keeps the row's  *)
(* booked interval.                                                                  *)
LEMMA BillsKept ==
  ASSUME TypeOK, AccountInv, BilledAfterGrace, now' \in Nat, now' >= now, challan' \subseteq challan,
         \A r \in Resv : Exists(r) => BookedEnd(r)' = BookedEnd(r)
  PROVE  BilledAfterGrace'
<1> SUFFICES ASSUME NEW c \in challan'
             PROVE  /\ now' >= c.forCheckoutAt + Buffer
                    /\ c.forCheckoutAt >= BookedEnd(c.resv)'
  BY DEF BilledAfterGrace
<1>1. c \in challan /\ c.resv \in Resv /\ c.forCheckoutAt \in Nat
  BY DEF TypeOK, Challan
<1>2. Exists(c.resv)
  BY <1>1 DEF AccountInv, AbsentRowsAreBare, ChallansOf
<1>3. BookedEnd(c.resv)' = BookedEnd(c.resv)
  BY <1>1, <1>2
<1>4. now >= c.forCheckoutAt + Buffer /\ c.forCheckoutAt >= BookedEnd(c.resv)
  BY <1>1 DEF BilledAfterGrace
<1> QED BY <1>1, <1>3, <1>4, ConfigAssumption DEF TypeOK

LEMMA BillsStayDue ==
  ASSUME TypeOK, TypeOK', BookingInv, ChargeInv, AccountInv, BilledAfterGrace, [Next]_vars
  PROVE  BilledAfterGrace'
<1>0. now' \in Nat /\ now' >= now
  BY ClockForward DEF TypeOK
<1>1. CASE Keeps
  <2>1. UNCHANGED <<res, challan>>
    BY <1>1 DEF Keeps
  <2> QED BY <1>0, <2>1, BillsKept DEF BookedEnd
<1>2. ASSUME NEW p \in Request, CreateCommit(p)
      PROVE  BilledAfterGrace'
  <2>1. PICK n \in Resv : /\ res[n].status = "NONE"
                          /\ \A x \in Resv \ {n} : res'[x] = res[x]
    BY <1>2, CreateRow
  <2>2. \A r \in Resv : Exists(r) => BookedEnd(r)' = BookedEnd(r)
    BY <2>1 DEF Exists, BookedEnd
  <2>3. UNCHANGED challan
    BY <1>2 DEF CreateCommit
  <2> QED BY <1>0, <2>2, <2>3, BillsKept
<1>3. ASSUME NEW p \in Request, CheckInCommit(p) \/ CheckOutDeclined(p) \/ CheckOutPaid(p)
      PROVE  BilledAfterGrace'
  <2>0. PICK n \in Resv : n = tx[p].resv
    BY <1>3, KindOfTx
    DEF CheckInCommit, CheckOutDeclined, CheckOutPaid, CheckInTx, CheckOutTx
  <2>1. \A r \in Resv : res'[r].start = res[r].start /\ res'[r].hours = res[r].hours
    <3>1. CASE CheckInCommit(p)
      BY <2>0, <3>1 DEF CheckInCommit, TypeOK, Reservation
    <3>2. CASE CheckOutDeclined(p)
      BY <3>2 DEF CheckOutDeclined
    <3>3. CASE CheckOutPaid(p)
      BY <2>0, <3>3 DEF CheckOutPaid, TypeOK, Reservation
    <3> QED BY <1>3, <3>1, <3>2, <3>3
  <2>2. UNCHANGED challan
    BY <1>3 DEF CheckInCommit, CheckOutDeclined, CheckOutPaid
  <2> QED BY <1>0, <2>1, <2>2, BillsKept DEF BookedEnd
<1>4. CASE Cancels
  <2>1. \A r \in Resv : res'[r].start = res[r].start /\ res'[r].hours = res[r].hours
    BY <1>4 DEF Cancels, CancelRows, TypeOK, Reservation
  <2>2. UNCHANGED challan
    BY <1>4 DEF Cancels
  <2> QED BY <1>0, <2>1, <2>2, BillsKept DEF BookedEnd
<1>5. ASSUME NEW u \in User, RemoveSelf(u)
      PROVE  BilledAfterGrace'
  <2>1. \A r \in Resv : res'[r].start = res[r].start /\ res'[r].hours = res[r].hours
    BY <1>5 DEF RemoveSelf, TypeOK, Reservation
  <2>2. challan' \subseteq challan
    BY <1>5 DEF RemoveSelf
  <2> QED BY <1>0, <2>1, <2>2, BillsKept DEF BookedEnd
<1>6. ASSUME NEW i \in Instance, MarkOvertime(i) \/ ExtendBooking(i)
      PROVE  BilledAfterGrace'
  <2>1. PICK r \in Resv : r = job[i].cur /\ r \in Pending(i)
    BY <1>6, DecidedRow
  <2>2. \A x \in Resv : res'[x].start = res[x].start /\ res'[x].hours = res[x].hours
    BY <1>6, <2>1 DEF MarkOvertime, ExtendBooking, TypeOK, Reservation
  <2>3. /\ job[i].ends[r] \in Nat
        /\ now >= job[i].ends[r] + Buffer /\ job[i].ends[r] >= BookedEnd(r)
    BY <1>6, <2>1, PendingEnds DEF BookingInv, PendingRows, MarkOvertime, ExtendBooking
  <2>4. \A c \in challan' : c \in challan \/ (c.resv = r /\ c.forCheckoutAt = job[i].ends[r])
    BY <1>6, <2>1 DEF MarkOvertime, ExtendBooking, CycleChallan
  <2>5. UNCHANGED now
    BY <1>6 DEF MarkOvertime, ExtendBooking
  <2>6. \A c \in challan : c.resv \in Resv
    BY DEF TypeOK, Challan
  <2> SUFFICES ASSUME NEW c \in challan'
               PROVE  /\ now' >= c.forCheckoutAt + Buffer
                      /\ c.forCheckoutAt >= BookedEnd(c.resv)'
    BY DEF BilledAfterGrace
  <2>7. CASE c \in challan
    BY <2>2, <2>5, <2>6, <2>7 DEF BilledAfterGrace, BookedEnd
  <2>8. CASE c.resv = r /\ c.forCheckoutAt = job[i].ends[r]
    BY <2>2, <2>3, <2>5, <2>8 DEF BookedEnd
  <2> QED BY <2>4, <2>7, <2>8
<1> QED BY <1>1, <1>2, <1>3, <1>4, <1>5, <1>6, KindOfStep DEF StepKind, Decides

(* Nobody is billed inside the grace period, however stale the list a tick works    *)
(* through and whatever happened to the row since it was read.                      *)
THEOREM BillsAreDue == Spec => []BilledAfterGrace
<1>1. Init => BilledAfterGrace
  BY DEF Init, BilledAfterGrace
<1> QED BY <1>1, BillsStayDue, TypeCorrect, BookingInvariant, ChargeInvariant, AccountInvariant,
           PTL DEF Spec

-----------------------------------------------------------------------------
(* Ticks: what a step does to the rows a tick has listed *)

\* All that a step other than a tick's decision does to a row.
RowQuiet(r) ==
  /\ res[r].status = "NONE" =>
       \/ res'[r] = res[r]
       \/ res'[r].status = "CONFIRMED" /\ res'[r].end = BookedEnd(r)'
  /\ res[r].status # "NONE" =>
       /\ res'[r].status # "NONE"
       /\ res'[r].status = "CONFIRMED" => res[r].status = "CONFIRMED"
       /\ res'[r].status = "CHECKED_IN" => res[r].status \in {"CONFIRMED", "CHECKED_IN"}
       /\ res'[r].start = res[r].start /\ res'[r].hours = res[r].hours
       /\ res'[r].end = res[r].end
       /\ Exists(r)' => Exists(r)

BillsQuiet ==
  /\ challan' \subseteq challan
  /\ \A c \in challan : Exists(c.resv)' => c \in challan'

LEMMA RowsQuiet ==
  ASSUME TypeOK, BookingInv, ChargeInv, AccountInv, [Next]_vars, ~Decides
  PROVE  BillsQuiet /\ \A r \in Resv : RowQuiet(r)
<1> USE DEF RowQuiet, BillsQuiet
<1>1. CASE Keeps
  <2>1. UNCHANGED <<res, challan>>
    BY <1>1 DEF Keeps
  <2> QED BY <2>1 DEF Exists
<1>2. ASSUME NEW p \in Request, CreateCommit(p)
      PROVE  BillsQuiet /\ \A r \in Resv : RowQuiet(r)
  <2>1. PICK n \in Resv : res[n].status = "NONE" /\ res' = [res EXCEPT ![n] = NewRow(tx[p])]
    BY <1>2 DEF CreateCommit
  <2>2. RowQuiet(n)
    BY <2>1 DEF NewRow, TypeOK, BookedEnd
  <2>3. \A r \in Resv \ {n} : res'[r] = res[r]
    BY <2>1
  <2> QED BY <1>2, <2>2, <2>3 DEF CreateCommit, Exists
<1>3. ASSUME NEW p \in Request, CheckInCommit(p)
      PROVE  BillsQuiet /\ \A r \in Resv : RowQuiet(r)
  <2>1. PICK n \in Resv : n = tx[p].resv /\ res[n].status = "CONFIRMED"
    BY <1>3, KindOfTx DEF CheckInCommit, CheckInTx, BookingInv, ScansInFlight
  <2>2. RowQuiet(n)
    BY <1>3, <2>1 DEF CheckInCommit, TypeOK, Reservation, Exists
  <2>3. \A r \in Resv \ {n} : res'[r] = res[r]
    BY <1>3, <2>1 DEF CheckInCommit
  <2> QED BY <1>3, <2>2, <2>3 DEF CheckInCommit, Exists
<1>4. ASSUME NEW p \in Request, CheckOutPaid(p)
      PROVE  BillsQuiet /\ \A r \in Resv : RowQuiet(r)
  <2>1. PICK n \in Resv : n = tx[p].resv /\ Exists(n)
    BY <1>4, RowOfCheckOut DEF CheckOutPaid, Exists
  <2>2. RowQuiet(n)
    BY <1>4, <2>1 DEF CheckOutPaid, TypeOK, Reservation, Exists
  <2>3. \A r \in Resv \ {n} : res'[r] = res[r]
    BY <1>4, <2>1 DEF CheckOutPaid
  <2> QED BY <1>4, <2>2, <2>3 DEF CheckOutPaid, Exists
<1>5. ASSUME NEW p \in Request, CheckOutDeclined(p)
      PROVE  BillsQuiet /\ \A r \in Resv : RowQuiet(r)
  <2>1. UNCHANGED <<res, challan>>
    BY <1>5 DEF CheckOutDeclined
  <2> QED BY <2>1 DEF Exists
<1>6. CASE Cancels
  <2>1. PICK R \in SUBSET Resv : CancelRows(R) /\ \A r \in R : Exists(r)
    BY <1>6 DEF Cancels
  <2>2. \A r \in R : RowQuiet(r)
    BY <2>1 DEF CancelRows, TypeOK, Reservation, Exists
  <2>3. \A r \in Resv \ R : res'[r] = res[r]
    BY <2>1 DEF CancelRows
  <2> QED BY <1>6, <2>2, <2>3 DEF Cancels, Exists
<1>7. ASSUME NEW u \in User, RemoveSelf(u)
      PROVE  BillsQuiet /\ \A r \in Resv : RowQuiet(r)
  <2>1. \A r \in Resv : \/ res'[r] = res[r] /\ res[r].user # u
                        \/ /\ res[r].status # "NONE" /\ res'[r].status = "DELETED"
                           /\ res'[r].start = res[r].start /\ res'[r].hours = res[r].hours
                           /\ res'[r].end = res[r].end
    <3>1. \A r \in Resv : res[r].status = "NONE" => res[r].user # u
      BY NoneAssumption DEF ChargeInv, NothingBeforeBooking, NoReservation
    <3> QED BY <1>7, <3>1 DEF RemoveSelf, TypeOK, Reservation
  <2>2. \A r \in Resv : RowQuiet(r)
    BY <2>1 DEF Exists
  <2>3. BillsQuiet
    <3>1. \A c \in challan : c.resv \in Resv
      BY DEF TypeOK, Challan
    <3> QED BY <1>7, <2>1, <3>1 DEF RemoveSelf, Exists
  <2> QED BY <2>2, <2>3
<1> QED BY <1>1, <1>2, <1>3, <1>4, <1>5, <1>6, <1>7, KindOfStep DEF StepKind

LEMMA RowsOfDecision ==
  ASSUME TypeOK, BookingInv, NEW i \in Instance, MarkOvertime(i) \/ ExtendBooking(i)
  PROVE  \E r \in Resv, c \in Challan :
           /\ r = job[i].cur /\ r \in Pending(i) /\ Exists(r)
           /\ c.resv = r /\ c.forCheckoutAt = job[i].ends[r]
           /\ challan' = challan \cup {c}
           /\ \A x \in Resv \ {r} : res'[x] = res[x]
           /\ c \in challan => res' = res
           /\ c \notin challan =>
                /\ res'[r].status = IF c.type = "OVERTIME" THEN "OVERTIME" ELSE res[r].status
                /\ res'[r].end = IF c.type = "OVERTIME" THEN res[r].end
                                 ELSE job[i].ends[r] + Extension
           /\ res'[r].start = res[r].start /\ res'[r].hours = res[r].hours
           /\ res[r].status \notin {"NONE", "CONFIRMED"}
           /\ UNCHANGED now
<1>1. PICK r \in Resv : r = job[i].cur /\ r \in Pending(i) /\ Exists(r)
  BY StageOfTick DEF MarkOvertime, ExtendBooking, Pending
<1>2. res[r].status \notin {"NONE", "CONFIRMED"}
  BY <1>1 DEF BookingInv, PendingRows
<1>3. job[i].ends[r] \in Nat
  BY <1>1, PendingEnds
<1>4. CASE MarkOvertime(i)
  <2> DEFINE c == [resv |-> r, type |-> "OVERTIME", forCheckoutAt |-> job[i].ends[r]]
  <2>1. c \in Challan
    BY <1>3 DEF Challan, ChallanType
  <2>2. challan' = challan \cup {c} /\ UNCHANGED now
    BY <1>1, <1>4 DEF MarkOvertime, CycleChallan
  <2>3. res' = IF c \in challan THEN res ELSE [res EXCEPT ![r].status = "OVERTIME"]
    BY <1>1, <1>4 DEF MarkOvertime, CycleChallan
  <2>4. /\ \A x \in Resv \ {r} : res'[x] = res[x]
        /\ c \notin challan => res'[r].status = "OVERTIME" /\ res'[r].end = res[r].end
        /\ res'[r].start = res[r].start /\ res'[r].hours = res[r].hours
    BY <2>3 DEF TypeOK, Reservation
  <2>5. c.resv = r /\ c.type = "OVERTIME" /\ c.forCheckoutAt = job[i].ends[r]
    OBVIOUS
  <2> HIDE DEF c
  <2> QED BY <1>1, <1>2, <2>1, <2>2, <2>3, <2>4, <2>5
<1>5. CASE ExtendBooking(i)
  <2> DEFINE c == [resv |-> r, type |-> "EXTENSION", forCheckoutAt |-> job[i].ends[r]]
  <2>1. c \in Challan
    BY <1>3 DEF Challan, ChallanType
  <2>2. challan' = challan \cup {c} /\ UNCHANGED now
    BY <1>1, <1>5 DEF ExtendBooking, CycleChallan
  <2>3. res' = IF c \in challan THEN res
               ELSE [res EXCEPT ![r].end = job[i].ends[r] + Extension]
    BY <1>1, <1>5 DEF ExtendBooking, CycleChallan, ExtendedEnd
  <2>4. /\ \A x \in Resv \ {r} : res'[x] = res[x]
        /\ c \notin challan => /\ res'[r].status = res[r].status
                               /\ res'[r].end = job[i].ends[r] + Extension
        /\ res'[r].start = res[r].start /\ res'[r].hours = res[r].hours
    BY <2>3 DEF TypeOK, Reservation
  <2>5. c.resv = r /\ c.type = "EXTENSION" /\ c.forCheckoutAt = job[i].ends[r]
    OBVIOUS
  <2> HIDE DEF c
  <2> QED BY <1>1, <1>2, <2>1, <2>2, <2>3, <2>4, <2>5
<1> QED BY <1>4, <1>5

(* Only ticks write their progress. *)
LEMMA JobsOfTicks ==
  ASSUME [Next]_vars, ~\E i \in Instance : Monitoring(i)
  PROVE  UNCHANGED job
<1>1. Clock \/ UNCHANGED vars => UNCHANGED job
  BY DEF Clock, vars
<1>2. ASSUME NEW p \in Request, Booking(p) \/ Checkpoint(p)
      PROVE  UNCHANGED job
  BY <1>2 DEF Booking, CreateArrive, CreateRead, CreateBegin, CreateCommit, CancelBegin, CancelCommit,
              Checkpoint, CheckInBegin, CheckInCommit, CheckOutBegin, CheckOutDeclined, CheckOutPaid
<1>3. ASSUME NEW p \in Request, Administration(p) \/ Abort(p)
      PROVE  UNCHANGED job
  BY <1>3 DEF Administration, BlockBegin, BlockCommit, UpdateStatusRead, BulkUpdateStatusRead,
              RestrictRead, RestrictWrite, Abort
<1>4. Account => UNCHANGED job
  BY DEF Account, RemoveSelf, SavePaymentMethod, SetLotActive
<1> QED BY <1>1, <1>2, <1>3, <1>4 DEF Next

(* A row is on a list of no-shows only because MonitorStart put it there. *)
LEMMA NoShowLists ==
  ASSUME TypeOK, [Next]_vars, NEW i \in Instance, NEW r \in Resv,
         job'[i].pc = "noShows", r \in job'[i].todo
  PROVE  \/ job[i].pc = "noShows" /\ r \in job[i].todo
         \/ r \in NoShows /\ UNCHANGED <<now, res>>
<1>1. CASE UNCHANGED job
  BY <1>1
<1>2. ASSUME NEW j \in Instance, Monitoring(j)
      PROVE  \/ job[i].pc = "noShows" /\ r \in job[i].todo
             \/ r \in NoShows /\ UNCHANGED <<now, res>>
  <2>1. CASE MonitorStart(j)
    BY <2>1 DEF MonitorStart, TypeOK
  <2>2. ASSUME NEW x \in Resv, CancelNoShow(j, x)
        PROVE  job[i].pc = "noShows" /\ r \in job[i].todo
    BY <2>2 DEF CancelNoShow, NotRunning, TypeOK
  <2>3. CASE ListActive(j) \/ ReadClock(j)
    BY <2>3 DEF ListActive, ReadClock, TypeOK
  <2>4. ASSUME NEW x \in Resv, ResolveGraceExpiry(j, x)
        PROVE  job[i].pc = "noShows" /\ r \in job[i].todo
    BY <2>4 DEF ResolveGraceExpiry, TypeOK
  <2>5. CASE MarkOvertime(j) \/ ExtendBooking(j)
    BY <2>5 DEF MarkOvertime, ExtendBooking, NextRow, TypeOK
  <2>6. CASE MonitorDone(j) \/ MonitorFail(j)
    BY <2>6 DEF MonitorDone, MonitorFail, NotRunning, TypeOK
  <2> QED BY <1>2, <2>1, <2>2, <2>3, <2>4, <2>5, <2>6 DEF Monitoring
<1> QED BY <1>1, <1>2, JobsOfTicks

(* A row is pending because it was, or because it is parked and was just listed. *)
LEMMA PendingLists ==
  ASSUME TypeOK, [Next]_vars, NEW i \in Instance, NEW r \in Resv, r \in Pending(i)'
  PROVE  \/ r \in Pending(i) /\ job'[i].ends[r] = job[i].ends[r]
         \/ /\ res[r].status = "CHECKED_IN" /\ job'[i].ends[r] = res[r].end
            /\ UNCHANGED <<now, res, challan>>
<1>1. CASE UNCHANGED job
  BY <1>1 DEF Pending
<1>2. ASSUME NEW j \in Instance, Monitoring(j)
      PROVE  \/ r \in Pending(i) /\ job'[i].ends[r] = job[i].ends[r]
             \/ /\ res[r].status = "CHECKED_IN" /\ job'[i].ends[r] = res[r].end
                /\ UNCHANGED <<now, res, challan>>
  <2>1. CASE MonitorStart(j) \/ MonitorDone(j) \/ MonitorFail(j)
    BY <2>1 DEF MonitorStart, MonitorDone, MonitorFail, NotRunning, Pending, TypeOK
  <2>2. ASSUME NEW x \in Resv, CancelNoShow(j, x)
        PROVE  r \in Pending(i) /\ job'[i].ends[r] = job[i].ends[r]
    BY <2>2 DEF CancelNoShow, NotRunning, Pending, TypeOK
  <2>3. CASE ListActive(j)
    <3>1. /\ UNCHANGED <<now, res, challan>>
          /\ job'[j].pc = "listed"
          /\ job'[j].todo = {x \in Resv : res[x].status = "CHECKED_IN"}
          /\ \A x \in Resv : res[x].status = "CHECKED_IN" => job'[j].ends[x] = res[x].end
          /\ \A k \in Instance \ {j} : job'[k] = job[k]
      BY <2>3 DEF ListActive, EndsOf, TypeOK
    <3>2. CASE i = j
      BY <3>1, <3>2 DEF Pending
    <3>3. CASE i # j
      BY <3>1, <3>3 DEF Pending
    <3> QED BY <3>2, <3>3
  <2>6. CASE ReadClock(j)
    <3>1. /\ job[j].pc = "listed" /\ job'[j].pc = "active"
          /\ job'[j].todo = GraceOver(j) /\ GraceOver(j) \subseteq job[j].todo
          /\ \A x \in Resv : x \in GraceOver(j) => job'[j].ends[x] = job[j].ends[x]
          /\ \A k \in Instance \ {j} : job'[k] = job[k]
      BY <2>6 DEF ReadClock, EndsOf, GraceOver, TypeOK
    <3> QED BY <3>1 DEF Pending
  <2>4. ASSUME NEW x \in Resv, ResolveGraceExpiry(j, x)
        PROVE  r \in Pending(i) /\ job'[i].ends[r] = job[i].ends[r]
    <3>1. /\ job[j].pc = "active" /\ x \in job[j].todo
          /\ job'[j].pc = "resolve" /\ job'[j].todo = job[j].todo \ {x}
          /\ job'[j].cur = x /\ job'[j].ends = job[j].ends
          /\ \A k \in Instance \ {j} : job'[k] = job[k]
      BY <2>4 DEF ResolveGraceExpiry, TypeOK
    <3> QED BY <3>1 DEF Pending
  <2>5. CASE MarkOvertime(j) \/ ExtendBooking(j)
    <3>1. /\ job[j].pc = "resolve"
          /\ job'[j].pc = "active" /\ job'[j].todo = job[j].todo
          /\ job'[j].ends = job[j].ends
          /\ \A k \in Instance \ {j} : job'[k] = job[k]
      BY <2>5 DEF MarkOvertime, ExtendBooking, NextRow, TypeOK
    <3> QED BY <3>1 DEF Pending
  <2> QED BY <1>2, <2>1, <2>2, <2>3, <2>4, <2>5, <2>6 DEF Monitoring
<1> QED BY <1>1, <1>2, JobsOfTicks

-----------------------------------------------------------------------------
(* Ticks: what holds of the lists *)

LEMMA NoShowsStayLate ==
  ASSUME TypeOK, TypeOK', BookingInv, ChargeInv, AccountInv, MonitoringInv, [Next]_vars
  PROVE  ListedNoShowsAreLate'
<1> SUFFICES ASSUME NEW i \in Instance, NEW r \in Resv,
                    job'[i].pc = "noShows", r \in job'[i].todo
             PROVE  res'[r].status # "NONE" /\ now' > res'[r].start + Grace
  BY DEF ListedNoShowsAreLate
<1>1. CASE r \in NoShows /\ UNCHANGED <<now, res>>
  BY <1>1, RowTypes, ConfigAssumption DEF NoShows, TypeOK
<1>2. CASE job[i].pc = "noShows" /\ r \in job[i].todo
  <2>1. res[r].status # "NONE" /\ now > res[r].start + Grace
    BY <1>2 DEF MonitoringInv, ListedNoShowsAreLate
  <2>2. res'[r].status # "NONE" /\ res'[r].start = res[r].start
    <3>1. CASE Decides
      <4>1. PICK j \in Instance : MarkOvertime(j) \/ ExtendBooking(j)
        BY <3>1 DEF Decides
      <4>2. PICK x \in Resv, c \in Challan :
              /\ \A y \in Resv \ {x} : res'[y] = res[y]
              /\ c \in challan => res' = res
              /\ c \notin challan => res'[x].status \in {"OVERTIME", res[x].status}
              /\ res'[x].start = res[x].start
        BY <4>1, RowsOfDecision
      <4> QED BY <2>1, <4>2
    <3>2. CASE ~Decides
      BY <2>1, <3>2, RowsQuiet DEF RowQuiet
    <3> QED BY <3>1, <3>2
  <2>3. now' >= now /\ now \in Nat /\ now' \in Nat /\ res[r].start \in Nat
    BY ClockForward, RowTypes DEF TypeOK
  <2> QED BY <2>1, <2>2, <2>3, ConfigAssumption
<1> QED BY <1>1, <1>2, NoShowLists

LEMMA ListedEndsKept ==
  ASSUME TypeOK, TypeOK', BookingInv, ChargeInv, AccountInv, MonitoringInv, [Next]_vars
  PROVE  ListedEndsAreCurrentOrBilled'
<1> DEFINE bill(r, e) == [resv |-> r, type |-> "EXTENSION", forCheckoutAt |-> e]
<1> SUFFICES ASSUME NEW i \in Instance, NEW r \in Resv, r \in Pending(i)', Exists(r)'
             PROVE  \/ job'[i].ends[r] = res'[r].end
                    \/ bill(r, job'[i].ends[r]) \in challan'
  BY DEF ListedEndsAreCurrentOrBilled
<1>1. CASE job'[i].ends[r] = res[r].end /\ UNCHANGED <<now, res, challan>>
  BY <1>1
<1>2. CASE r \in Pending(i) /\ job'[i].ends[r] = job[i].ends[r]
  <2>0. res[r].status # "NONE"
    BY <1>2 DEF BookingInv, PendingRows
  <2>1. CASE ~Decides
    <3>1. Exists(r) /\ res'[r].end = res[r].end
      BY <2>0, <2>1, RowsQuiet DEF RowQuiet
    <3>2. \/ job[i].ends[r] = res[r].end
          \/ bill(r, job[i].ends[r]) \in challan
      BY <1>2, <3>1 DEF MonitoringInv, ListedEndsAreCurrentOrBilled
    <3>3. \A c \in challan : c.resv = r => c \in challan'
      BY <2>1, RowsQuiet DEF BillsQuiet
    <3> QED BY <1>2, <3>1, <3>2, <3>3
  <2>2. CASE Decides
    <3>1. PICK j \in Instance : MarkOvertime(j) \/ ExtendBooking(j)
      BY <2>2 DEF Decides
    <3>2. PICK x \in Resv, c \in Challan :
            /\ Exists(x) /\ x \in Pending(j)
            /\ c.resv = x /\ c.forCheckoutAt = job[j].ends[x]
            /\ challan' = challan \cup {c}
            /\ \A y \in Resv \ {x} : res'[y] = res[y]
            /\ c \in challan => res' = res
            /\ c \notin challan => res'[x].end = IF c.type = "OVERTIME" THEN res[x].end
                                                 ELSE job[j].ends[x] + Extension
      BY <3>1, RowsOfDecision
    <3>3. Exists(r)
      BY <3>2 DEF Exists
    <3>4. \/ job[i].ends[r] = res[r].end
          \/ bill(r, job[i].ends[r]) \in challan
      BY <1>2, <3>3 DEF MonitoringInv, ListedEndsAreCurrentOrBilled
    <3>5. CASE r = x /\ c \notin challan /\ c.type # "OVERTIME"
      <4>1. c = bill(x, job[j].ends[x])
        BY <3>2, <3>5 DEF Challan, ChallanType
      <4>2. job[j].ends[x] = res[x].end
        BY <3>2, <3>5, <4>1 DEF MonitoringInv, ListedEndsAreCurrentOrBilled
      <4> HIDE DEF bill
      <4> QED BY <1>2, <3>2, <3>4, <3>5, <4>1, <4>2
    <3>6. CASE ~(r = x /\ c \notin challan /\ c.type # "OVERTIME")
      <4>1. res'[r].end = res[r].end
        BY <3>2, <3>6
      <4> QED BY <1>2, <3>2, <3>4, <4>1
    <3> QED BY <3>5, <3>6
  <2> QED BY <2>1, <2>2
<1> QED BY <1>1, <1>2, PendingLists

LEMMA DecidedCyclesKept ==
  ASSUME TypeOK, TypeOK', BookingInv, ChargeInv, AccountInv, MonitoringInv, [Next]_vars
  PROVE  DecidedCyclesAreOver'
<1> SUFFICES ASSUME NEW c \in challan'
             PROVE  /\ c.type = "OVERTIME" =>
                         res'[c.resv].status \notin {"NONE", "CONFIRMED", "CHECKED_IN"}
                    /\ c.type = "EXTENSION" => c.forCheckoutAt < res'[c.resv].end
  BY DEF DecidedCyclesAreOver
<1>1. \A d \in challan :
        /\ d.resv \in Resv /\ Exists(d.resv)
        /\ d.type = "OVERTIME" => res[d.resv].status \notin {"NONE", "CONFIRMED", "CHECKED_IN"}
        /\ d.type = "EXTENSION" => d.forCheckoutAt < res[d.resv].end
  BY DEF TypeOK, Challan, AccountInv, AbsentRowsAreBare, ChallansOf, MonitoringInv,
         DecidedCyclesAreOver
<1>2. CASE ~Decides
  <2>1. c \in challan
    BY <1>2, RowsQuiet DEF BillsQuiet
  <2>2. /\ res[c.resv].status # "NONE" /\ RowQuiet(c.resv)
    BY <1>1, <1>2, <2>1, RowsQuiet DEF Exists
  <2> QED BY <1>1, <2>1, <2>2 DEF RowQuiet
<1>3. CASE Decides
  <2>1. PICK j \in Instance : MarkOvertime(j) \/ ExtendBooking(j)
    BY <1>3 DEF Decides
  <2>2. PICK x \in Resv, d \in Challan :
          /\ Exists(x) /\ x \in Pending(j)
          /\ d.resv = x /\ d.forCheckoutAt = job[j].ends[x]
          /\ challan' = challan \cup {d}
          /\ \A y \in Resv \ {x} : res'[y] = res[y]
          /\ d \in challan => res' = res
          /\ d \notin challan =>
               /\ res'[x].status = IF d.type = "OVERTIME" THEN "OVERTIME" ELSE res[x].status
               /\ res'[x].end = IF d.type = "OVERTIME" THEN res[x].end
                                ELSE job[j].ends[x] + Extension
    BY <2>1, RowsOfDecision
  <2>3. CASE d \in challan
    BY <1>1, <2>2, <2>3
  <2>4. CASE d \notin challan /\ d.type = "OVERTIME"
    BY <1>1, <2>2, <2>4
  <2>5. CASE d \notin challan /\ d.type = "EXTENSION"
    <3>1. d = [resv |-> x, type |-> "EXTENSION", forCheckoutAt |-> job[j].ends[x]]
      BY <2>2, <2>5 DEF Challan
    <3>2. job[j].ends[x] = res[x].end
      BY <2>2, <2>5, <3>1 DEF MonitoringInv, ListedEndsAreCurrentOrBilled
    <3>3. /\ res'[x].end = res[x].end + Extension /\ res'[x].status = res[x].status
          /\ d.forCheckoutAt = res[x].end
      BY <2>2, <2>5, <3>2
    <3>4. res[x].end \in Nat /\ Extension \in Nat \ {0}
      BY RowTypes, ConfigAssumption
    <3>5. CASE c = d
      BY <2>2, <2>5, <3>3, <3>4, <3>5
    <3>6. CASE c \in challan /\ c.resv = x
      <4>1. c.forCheckoutAt \in Nat
        BY <3>6 DEF TypeOK, Challan
      <4> QED BY <1>1, <3>3, <3>4, <3>6, <4>1
    <3>7. CASE c \in challan /\ c.resv # x
      BY <1>1, <2>2, <3>7
    <3> QED BY <2>2, <3>5, <3>6, <3>7
  <2> QED BY <2>3, <2>4, <2>5 DEF Challan, ChallanType
<1> QED BY <1>2, <1>3

LEMMA LoneTickKept ==
  ASSUME TypeOK, TypeOK', BookingInv, ChargeInv, AccountInv, MonitoringInv, [Next]_vars
  PROVE  LoneTickDecidesFirst'
<1> SUFFICES ASSUME OneInstance, NEW i \in Instance
             PROVE  /\ job'[i].pc = "resolve" => job'[i].cur \notin job'[i].todo
                    /\ \A c \in challan' : c.resv \in Pending(i)' =>
                         c.forCheckoutAt # job'[i].ends[c.resv]
  BY DEF LoneTickDecidesFirst, OneInstance
<1>0. \A j \in Instance : j = i
  BY DEF OneInstance
<1>1. /\ job[i].pc = "resolve" => job[i].cur \notin job[i].todo
      /\ \A c \in challan : c.resv \in Pending(i) => c.forCheckoutAt # job[i].ends[c.resv]
  BY DEF MonitoringInv, LoneTickDecidesFirst
<1>2. job'[i].pc = "resolve" => job'[i].cur \notin job'[i].todo
  <2>1. CASE UNCHANGED job
    BY <1>1, <2>1
  <2>2. CASE Monitoring(i)
    <3>1. CASE \/ MonitorStart(i) \/ MonitorDone(i) \/ MonitorFail(i)
               \/ ListActive(i) \/ ReadClock(i)
      BY <3>1 DEF MonitorStart, MonitorDone, MonitorFail, ListActive, ReadClock, NotRunning,
                  TypeOK
    <3>2. ASSUME NEW x \in Resv, CancelNoShow(i, x)
          PROVE  job'[i].pc # "resolve"
      BY <3>2 DEF CancelNoShow, NotRunning, TypeOK
    <3>3. ASSUME NEW x \in Resv, ResolveGraceExpiry(i, x)
          PROVE  job'[i].cur \notin job'[i].todo
      BY <3>3 DEF ResolveGraceExpiry, TypeOK
    <3>4. MarkOvertime(i) \/ ExtendBooking(i) => job'[i].pc = "active"
      BY DEF MarkOvertime, ExtendBooking, NextRow, TypeOK
    <3> QED BY <2>2, <3>1, <3>2, <3>3, <3>4 DEF Monitoring
  <2> QED BY <1>0, <2>1, <2>2, JobsOfTicks
<1>3. ASSUME NEW c \in challan', c.resv \in Pending(i)'
      PROVE  c.forCheckoutAt # job'[i].ends[c.resv]
  <2>0. c.resv \in Resv /\ c.forCheckoutAt \in Nat /\ c.type \in ChallanType
    BY <1>3 DEF TypeOK, Challan
  <2>1. CASE c.resv \in Pending(i) /\ job'[i].ends[c.resv] = job[i].ends[c.resv]
    <3>1. CASE c \in challan
      BY <1>1, <2>1, <3>1
    <3>2. CASE c \notin challan
      <4>1. Decides
        BY <3>2, RowsQuiet DEF BillsQuiet
      <4>2. MarkOvertime(i) \/ ExtendBooking(i)
        BY <1>0, <4>1 DEF Decides
      <4>3. c.resv = job[i].cur
        BY <3>2, <4>2 DEF MarkOvertime, ExtendBooking, CycleChallan
      <4>4. /\ job[i].pc = "resolve"
            /\ job'[i].pc = "active" /\ job'[i].todo = job[i].todo
        BY <4>2 DEF MarkOvertime, ExtendBooking, NextRow, TypeOK
      <4> QED BY <1>1, <1>3, <4>3, <4>4 DEF Pending
    <3> QED BY <3>1, <3>2
  <2>2. CASE /\ res[c.resv].status = "CHECKED_IN"
             /\ job'[i].ends[c.resv] = res[c.resv].end
             /\ UNCHANGED <<now, res, challan>>
    <3>1. c.type = "EXTENSION" /\ c.forCheckoutAt < res[c.resv].end
      BY <2>0, <2>2 DEF MonitoringInv, DecidedCyclesAreOver, ChallanType
    <3>2. res[c.resv].end \in Nat
      BY <2>0, RowTypes
    <3> QED BY <2>0, <2>2, <3>1, <3>2
  <2> QED BY <1>3, <2>0, <2>1, <2>2, PendingLists
<1> QED BY <1>2, <1>3

(* Whatever scans, cancellations, deletions and failed ticks do to the rows on a     *)
(* tick's list after it was read, the tick and every other one decide from it as     *)
(* the code means to: the challan of a decision is what stops the next.              *)
THEOREM MonitoringInvariant == Spec => []MonitoringInv
<1>1. Init => MonitoringInv
  BY DEF Init, MonitoringInv, ListedNoShowsAreLate, ListedEndsAreCurrentOrBilled,
         DecidedCyclesAreOver, LoneTickDecidesFirst, Pending, NotRunning
<1>2. TypeOK /\ TypeOK' /\ BookingInv /\ ChargeInv /\ AccountInv /\ MonitoringInv /\ [Next]_vars
      => MonitoringInv'
  BY NoShowsStayLate, ListedEndsKept, DecidedCyclesKept, LoneTickKept DEF MonitoringInv
<1> QED BY <1>1, <1>2, TypeCorrect, BookingInvariant, ChargeInvariant, AccountInvariant,
           PTL DEF Spec

\* What every handler in flight read and still relies on when it writes stays true, in
\* every interleaving of scans, bookings, blocks, deletions and ticks.
THEOREM ParkingInvariant == Spec => []ParkingInv
<1>1. BookingInv /\ ChargeInv /\ AccountInv /\ MonitoringInv => ParkingInv
  BY DEF ParkingInv
<1> QED BY <1>1, BookingInvariant, ChargeInvariant, AccountInvariant, MonitoringInvariant, PTL

-----------------------------------------------------------------------------
(* Ticks: what follows *)

LEMMA OnlyTheSweepIsSilent ==
  ASSUME TypeOK, ChargeInv, [Next]_vars, NEW r \in Resv,
         res[r].status = "CONFIRMED", res'[r].status = "CANCELLED", tx' = tx
  PROVE  \E i \in Instance : job[i].pc = "noShows" /\ r \in job[i].todo
<1>1. ASSUME NEW p \in Request, Booking(p) \/ Administration(p) \/ Abort(p)
      PROVE  FALSE
  <2>1. \/ UNCHANGED res
        \/ CreateCommit(p)
        \/ CancelCommit(p) \/ BlockCommit(p)
    BY <1>1 DEF Booking, CreateArrive, CreateRead, CreateBegin, CancelBegin,
                Administration, BlockBegin, UpdateStatusRead, BulkUpdateStatusRead, RestrictRead, RestrictWrite, Abort
  <2>2. CreateCommit(p) => res'[r].status \in {res[r].status, "CONFIRMED"}
    BY CreateRow
  <2>3. CancelCommit(p) \/ BlockCommit(p) => tx'[p].op = "idle" /\ tx[p].op # "idle"
    BY DEF CancelCommit, BlockCommit, End, Idle, TypeOK
  <2> QED BY <2>1, <2>2, <2>3
<1>2. ASSUME NEW p \in Request, Checkpoint(p)
      PROVE  FALSE
  <2>1. \/ UNCHANGED res
        \/ CheckInCommit(p) \/ CheckOutPaid(p)
    BY <1>2 DEF Checkpoint, CheckInBegin, CheckOutBegin, CheckOutDeclined
  <2>2. tx[p].op \in {"checkIn", "checkOut"} => tx[p].resv \in Resv
    BY KindOfTx DEF CheckInTx, CheckOutTx
  <2>3. CheckInCommit(p) => res'[r].status \in {res[r].status, "CHECKED_IN"}
    BY <2>2 DEF CheckInCommit, TypeOK, Reservation
  <2>4. CheckOutPaid(p) => res'[r].status \in {res[r].status, "COMPLETED"}
    BY <2>2 DEF CheckOutPaid, TypeOK, Reservation
  <2> QED BY <2>1, <2>3, <2>4
<1>3. Account => res'[r].status \in {res[r].status, "DELETED"}
  BY RemovedRows, InputAssumption DEF Account, SavePaymentMethod, SetLotActive
<1>4. Clock \/ UNCHANGED vars => UNCHANGED res
  BY DEF Clock, vars
<1>5. ASSUME NEW i \in Instance, Monitoring(i)
      PROVE  job[i].pc = "noShows" /\ r \in job[i].todo
  <2>1. \/ UNCHANGED res
        \/ \E x \in Resv : CancelNoShow(i, x)
        \/ MarkOvertime(i) \/ ExtendBooking(i)
    BY <1>5 DEF Monitoring, MonitorStart, ListActive, ReadClock, ResolveGraceExpiry,
                MonitorDone, MonitorFail
  <2>2. ASSUME NEW x \in Resv, CancelNoShow(i, x)
        PROVE  job[i].pc = "noShows" /\ r \in job[i].todo
    BY <2>2 DEF CancelNoShow, CancelRows, TypeOK
  <2>3. MarkOvertime(i) \/ ExtendBooking(i) => res'[r].status \in {res[r].status, "OVERTIME"}
    BY StageOfTick DEF MarkOvertime, ExtendBooking, TypeOK, Reservation
  <2> QED BY <2>1, <2>2, <2>3
<1> QED BY <1>1, <1>2, <1>3, <1>4, <1>5 DEF Next

(* The sweep never cancels a booking whose check-in code still opens the gate: its   *)
(* cutoff and the code's expiry are computed apart, from clocks read apart.          *)
THEOREM SweepIsLate == Spec => SweepSparesValidCodes
<1>1. TypeOK /\ ChargeInv /\ MonitoringInv /\ [Next]_vars
      => [\A r \in Resv :
            res[r].status = "CONFIRMED" /\ res'[r].status = "CANCELLED" /\ tx' = tx
              => now > res[r].start + Grace]_vars
  BY OnlyTheSweepIsSilent DEF MonitoringInv, ListedNoShowsAreLate
<1> QED BY <1>1, TypeCorrect, ChargeInvariant, MonitoringInvariant, PTL
        DEF Spec, SweepSparesValidCodes

\* A bill is written by a tick's decision only, and a tick adds at most one.
ChallansAreFinite == IsFiniteSet(challan)

LEMMA FinitelyManyChallans == Spec => []ChallansAreFinite
<1>1. Init => ChallansAreFinite
  BY FS_EmptySet DEF Init, ChallansAreFinite
<1>2. TypeOK /\ BookingInv /\ ChargeInv /\ AccountInv /\ ChallansAreFinite /\ [Next]_vars
      => ChallansAreFinite'
  <2> SUFFICES ASSUME TypeOK, BookingInv, ChargeInv, AccountInv, IsFiniteSet(challan), [Next]_vars
               PROVE  IsFiniteSet(challan')
    BY DEF ChallansAreFinite
  <2>1. CASE ~Decides
    BY <2>1, RowsQuiet, FS_Subset DEF BillsQuiet
  <2>2. CASE Decides
    <3>1. PICK c \in Challan : challan' = challan \cup {c}
      BY <2>2, RowsOfDecision DEF Decides
    <3> QED BY <3>1, FS_AddElement
  <2> QED BY <2>1, <2>2
<1> QED BY <1>1, <1>2, TypeCorrect, BookingInvariant, ChargeInvariant, AccountInvariant,
           PTL DEF Spec

LEMMA ExtensionsStayBilled ==
  ASSUME TypeOK, TypeOK', BookingInv, ChargeInv, AccountInv, MonitoringInv, ChallansAreFinite,
         EveryExtensionIsBilled, [Next]_vars
  PROVE  EveryExtensionIsBilled'
<1> DEFINE Ext(r)  == {c \in challan : c.resv = r /\ c.type = "EXTENSION"}
           ExtNext(r) == {c \in challan' : c.resv = r /\ c.type = "EXTENSION"}
<1>0. \A r \in Resv : /\ Extensions(r) = Ext(r) /\ Extensions(r)' = ExtNext(r)
                      /\ IsFiniteSet(Ext(r))
  <2>1. \A r \in Resv : Ext(r) \subseteq challan
    OBVIOUS
  <2> QED BY <2>1, FS_Subset DEF Extensions, ChallansOf, ChallansAreFinite
<1> SUFFICES ASSUME NEW r \in Resv, Exists(r)'
             PROVE  res'[r].end
                      = res'[r].start + res'[r].hours + Extension * Cardinality(ExtNext(r))
  BY <1>0 DEF EveryExtensionIsBilled, BookedEnd
<1>1. Exists(r) => res[r].end = res[r].start + res[r].hours + Extension * Cardinality(Ext(r))
  BY <1>0 DEF EveryExtensionIsBilled, BookedEnd
<1>2. ASSUME res'[r].start = res[r].start, res'[r].hours = res[r].hours, res'[r].end = res[r].end,
             Exists(r), ExtNext(r) = Ext(r)
      PROVE  res'[r].end
               = res'[r].start + res'[r].hours + Extension * Cardinality(ExtNext(r))
  BY <1>1, <1>2
<1>3. CASE ~Decides
  <2>0. BillsQuiet /\ RowQuiet(r)
    BY <1>3, RowsQuiet
  <2>1. CASE res[r].status = "NONE"
    <3>1. res'[r].end = res'[r].start + res'[r].hours
      BY <2>0, <2>1 DEF RowQuiet, BookedEnd, Exists
    <3>2. ExtNext(r) = {}
      BY <2>0, <2>1 DEF BillsQuiet, AccountInv, AbsentRowsAreBare, ChallansOf, Exists
    <3>3. Cardinality(ExtNext(r)) = 0
      BY <3>2, FS_EmptySet
    <3>4. res'[r].start \in Nat /\ res'[r].hours \in Nat /\ Extension \in Nat
      BY ConfigAssumption DEF TypeOK, Reservation
    <3> HIDE DEF ExtNext
    <3> QED BY <3>1, <3>3, <3>4
  <2>2. CASE res[r].status # "NONE"
    <3>1. Exists(r) /\ ExtNext(r) = Ext(r)
      BY <2>0, <2>2 DEF RowQuiet, BillsQuiet
    <3> HIDE DEF Ext, ExtNext
    <3> QED BY <1>2, <2>0, <2>2, <3>1 DEF RowQuiet
  <2> QED BY <2>1, <2>2
<1>4. CASE Decides
  <2>1. PICK j \in Instance : MarkOvertime(j) \/ ExtendBooking(j)
    BY <1>4 DEF Decides
  <2>2. PICK x \in Resv, d \in Challan :
          /\ Exists(x) /\ x \in Pending(j)
          /\ d.resv = x /\ d.forCheckoutAt = job[j].ends[x]
          /\ challan' = challan \cup {d}
          /\ \A y \in Resv \ {x} : res'[y] = res[y]
          /\ d \in challan => res' = res
          /\ d \notin challan => res'[x].end = IF d.type = "OVERTIME" THEN res[x].end
                                               ELSE job[j].ends[x] + Extension
          /\ res'[x].start = res[x].start /\ res'[x].hours = res[x].hours
    BY <2>1, RowsOfDecision
  <2>3. Exists(r)
    BY <2>2 DEF Exists
  <2>4. CASE r = x /\ d \notin challan /\ d.type = "EXTENSION"
    <3>1. d = [resv |-> x, type |-> "EXTENSION", forCheckoutAt |-> job[j].ends[x]]
      BY <2>2, <2>4 DEF Challan
    <3>2. job[j].ends[x] = res[x].end
      BY <2>2, <2>4, <3>1 DEF MonitoringInv, ListedEndsAreCurrentOrBilled
    <3>3. ExtNext(r) = Ext(r) \cup {d} /\ d \notin Ext(r)
      BY <2>2, <2>4
    <3> HIDE DEF Ext, ExtNext
    <3>4. Cardinality(ExtNext(r)) = Cardinality(Ext(r)) + 1
      BY <1>0, <3>3, FS_AddElement
    <3>5. res'[r].end = res[r].end + Extension
      BY <2>2, <2>4, <3>2
    <3>6. /\ Cardinality(Ext(r)) \in Nat /\ Extension \in Nat
          /\ res[r].start \in Nat /\ res[r].hours \in Nat
      BY <1>0, FS_CardinalityType, ConfigAssumption DEF TypeOK, Reservation
    <3>7. \A n \in Nat : Extension * (n + 1) = Extension * n + Extension
      BY <3>6
    <3> QED BY <1>1, <2>2, <2>3, <2>4, <3>4, <3>5, <3>6, <3>7
  <2>5. CASE ~(r = x /\ d \notin challan /\ d.type = "EXTENSION")
    <3>1. ExtNext(r) = Ext(r)
      BY <2>2, <2>5
    <3>2. d.type \in {"EXTENSION", "OVERTIME"}
      BY DEF Challan, ChallanType
    <3>3. res'[r].start = res[r].start /\ res'[r].hours = res[r].hours /\ res'[r].end = res[r].end
      BY <2>2, <2>5, <3>2
    <3> HIDE DEF Ext, ExtNext
    <3> QED BY <1>2, <2>3, <3>1, <3>3
  <2> QED BY <2>4, <2>5
<1> QED BY <1>3, <1>4

(* The end time of a reservation has moved by one hour for every extension billed,   *)
(* no more and no less, although extendBooking computes it from a list read earlier. *)
THEOREM ExtensionsAreBilled == Spec => []EveryExtensionIsBilled
<1>1. Init => EveryExtensionIsBilled
  BY DEF Init, EveryExtensionIsBilled, Exists, NoReservation
<1> QED BY <1>1, ExtensionsStayBilled, TypeCorrect, BookingInvariant, ChargeInvariant,
           AccountInvariant, MonitoringInvariant, FinitelyManyChallans, PTL DEF Spec

(* While one instance runs the cron, no end time is both extended and fined; the     *)
(* challans' unique key, which contains the type, does not rule it out for two.      *)
THEOREM LoneTickResolvesOneWay ==
  ASSUME OneInstance
  PROVE  Spec => []CycleResolvedOneWay
<1>1. Init => CycleResolvedOneWay
  BY DEF Init, CycleResolvedOneWay
<1>2. TypeOK /\ BookingInv /\ ChargeInv /\ AccountInv /\ MonitoringInv /\ CycleResolvedOneWay
      /\ [Next]_vars => CycleResolvedOneWay'
  <2> SUFFICES ASSUME TypeOK, BookingInv, ChargeInv, AccountInv, MonitoringInv,
                      CycleResolvedOneWay, [Next]_vars
               PROVE  CycleResolvedOneWay'
    OBVIOUS
  <2>1. CASE ~Decides
    BY <2>1, RowsQuiet DEF BillsQuiet, CycleResolvedOneWay
  <2>2. CASE Decides
    <3>1. PICK i \in Instance : MarkOvertime(i) \/ ExtendBooking(i)
      BY <2>2 DEF Decides
    <3>2. PICK r \in Resv, c \in Challan :
            /\ r \in Pending(i) /\ challan' = challan \cup {c}
            /\ c.resv = r /\ c.forCheckoutAt = job[i].ends[r]
      BY <3>1, RowsOfDecision
    <3>3. \A d \in challan : ~(d.resv = r /\ d.forCheckoutAt = job[i].ends[r])
      BY <3>2 DEF MonitoringInv, LoneTickDecidesFirst
    <3> QED BY <3>2, <3>3 DEF CycleResolvedOneWay
  <2> QED BY <2>1, <2>2
<1> QED BY <1>1, <1>2, TypeCorrect, BookingInvariant, ChargeInvariant, AccountInvariant,
           MonitoringInvariant, PTL DEF Spec

=============================================================================
