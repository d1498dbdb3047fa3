------------------------- MODULE ReservationService -------------------------
(***************************************************************************)
(* reservation.service.ts: a customer books a slot or cancels a booking.   *)
(***************************************************************************)
EXTENDS ParkingState

\* The first arrival time that is too far ahead: midnight after the allowed days.
LatestArrival == (now \div DayLength) * DayLength + AdvanceDays * DayLength

\* create, before its transaction: the arrival lies in the bookable window of the
\* clock as it is now.
CreateArrive(p, u, s, start, hours) ==
  /\ start >= now
  /\ start < LatestArrival
  /\ Begin(p, [op |-> "arrived", user |-> u, slot |-> s,
               start |-> start, hours |-> hours, at |-> now])
  /\ UNCHANGED <<now, res, qr, slot, payment, challan, card, account, lotActive, job>>

\* create, its plain reads: the lot takes reservations.  The slot's own status is not
\* looked at.
CreateRead(p) ==
  /\ tx[p].op = "arrived"
  /\ lotActive
  /\ tx' = [tx EXCEPT ![p].op = "waiting"]
  /\ UNCHANGED <<now, res, qr, slot, payment, challan, card, account, lotActive, job>>

\* create, once the slot is locked: nothing that claims the slot overlaps.  Neither
\* the clock nor the lot is read again.
CreateBegin(p) ==
  LET t == tx[p] IN
  /\ t.op = "waiting"
  /\ ~SlotLocked(t.slot, p)
  /\ \A r \in Resv :
       Claims(r) /\ res[r].slot = t.slot => ~Overlaps(r, t.start, t.start + t.hours)
  /\ tx' = [tx EXCEPT ![p].op = "create"]
  /\ UNCHANGED <<now, res, qr, slot, payment, challan, card, account, lotActive, job>>

\* Mutant: no foreign key from Reservation to User.
AnyCustomer(u) == TRUE

\* Reservation.user, the foreign key: no row for a customer who has gone.
CustomerExists(u) == u \in account

\* The row a booking inserts.
NewRow(t) ==
  [status |-> "CONFIRMED", user |-> t.user, slot |-> t.slot,
   start |-> t.start, end |-> t.start + t.hours, hours |-> t.hours]

\* create, its writes: a CONFIRMED row, the slot's cached status, a check-in code.
CreateCommit(p) ==
  LET t == tx[p] IN
  /\ t.op = "create"
  /\ CustomerExists(t.user)
  /\ \E r \in Resv :
       /\ res[r].status = "NONE"
       /\ res' = [res EXCEPT ![r] = NewRow(t)]
       /\ qr' = [qr EXCEPT ![r].in = "ACTIVE"]
  /\ slot' = IF slot[t.slot].status = "AVAILABLE"
               THEN [slot EXCEPT ![t.slot].status = "RESERVED"] ELSE slot
  /\ End(p)
  /\ UNCHANGED <<now, payment, challan, card, account, lotActive, job>>

\* cancel, up to its check: the Reservation row is locked and still CONFIRMED.
CancelBegin(p, r) ==
  /\ ~RowLocked(r, p)
  /\ res[r].status = "CONFIRMED"
  /\ Begin(p, [op |-> "cancel", resv |-> r, at |-> now])
  /\ UNCHANGED <<now, res, qr, slot, payment, challan, card, account, lotActive, job>>

\* cancel, its writes.
CancelCommit(p) ==
  LET t == tx[p] IN
  /\ t.op = "cancel"
  /\ CanCancel(t.resv, p)
  /\ CancelRows({t.resv})
  /\ End(p)
  /\ UNCHANGED <<now, payment, challan, card, account, lotActive, job>>

=============================================================================
