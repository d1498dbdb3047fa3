----------------------------- MODULE LedgerProofs -----------------------------
(***************************************************************************)
(* A stay is charged once, and the reservation system implements the       *)
(* ledger its customers see, for every value of the constants.             *)
(*                                                                         *)
(* ChargeInv says what the handlers in flight rely on; with BookingInv it  *)
(* is enough to map every step to a step of BookingLedger or to none.      *)
(***************************************************************************)
EXTENDS BookingProofs

-----------------------------------------------------------------------------
(* What most steps leave alone *)

(* A check-out or a cancellation in flight was in flight before. *)
NoNewHold ==
  \A p \in Request : tx'[p].op \in {"checkOut", "cancel", "block"} => tx'[p] = tx[p]

(* The code a check-out in flight holds, and the rows a cancellation in flight will  *)
(* write, are left alone or only move on.                                            *)
HeldRowsKept ==
  \A p \in Request :
    /\ tx'[p].op = "checkOut" => qr'[tx[p].resv].out = qr[tx[p].resv].out
    /\ tx'[p].op = "cancel" => Exists(tx[p].resv)'
    /\ tx'[p].op = "block" =>
         \A r \in tx[p].rows : Exists(r)' /\ res'[r].user = res[r].user

LEMMA HoldsKept ==
  ASSUME ChargeInv, NoNewHold, HeldRowsKept
  PROVE  CheckOutsInFlight' /\ CancellationsInFlight'
<1>1. CheckOutsInFlight'
  BY DEF ChargeInv, CheckOutsInFlight, NoNewHold, HeldRowsKept
<1>2. CancellationsInFlight'
  BY DEF ChargeInv, CancellationsInFlight, NoNewHold, HeldRowsKept
<1> QED BY <1>1, <1>2

(* Nothing is charged, no check-out code changes, and rows stay or end. *)
RowsMoveOn ==
  \A r \in Resv :
    /\ payment'[r].status = payment[r].status
    /\ qr'[r].out = qr[r].out
    /\ res'[r].status \in {res[r].status, "CANCELLED", "OVERTIME"}
    /\ res'[r].user = res[r].user
    /\ res'[r].status = "NONE" => res'[r] = res[r]
    /\ Exists(r) => Exists(r)'

LEMMA RowsMoveOnCharges ==
  ASSUME RowsMoveOn, ChargeInv
  PROVE  CompletedIsPaid' /\ NothingBeforeBooking' /\ CheckOutCodesComeLater'
<1>1. CompletedIsPaid'
  BY DEF RowsMoveOn, ChargeInv, CompletedIsPaid
<1>2. NothingBeforeBooking'
  BY DEF RowsMoveOn, ChargeInv, NothingBeforeBooking, NoReservation
<1>3. CheckOutCodesComeLater'
  BY DEF RowsMoveOn, ChargeInv, CheckOutCodesComeLater
<1> QED BY <1>1, <1>2, <1>3

LEMMA RowsMoveOnHolds ==
  ASSUME TypeOK, RowsMoveOn, ChargeInv, NoNewHold
  PROVE  HeldRowsKept
<1> SUFFICES ASSUME NEW p \in Request, tx'[p].op \in {"checkOut", "cancel", "block"}
             PROVE  /\ tx'[p].op = "checkOut" => qr'[tx[p].resv].out = qr[tx[p].resv].out
                    /\ tx'[p].op = "cancel" => Exists(tx[p].resv)'
                    /\ tx'[p].op = "block" =>
                         \A r \in tx[p].rows : Exists(r)' /\ res'[r].user = res[r].user
  BY DEF HeldRowsKept
<1>1. tx'[p] = tx[p]
  BY DEF NoNewHold
<1>2. /\ tx[p].op \in {"checkOut", "cancel"} => tx[p].resv \in Resv
      /\ tx[p].op = "block" => tx[p].rows \in SUBSET Resv
  BY KindOfTx DEF CheckOutTx, CancelTx, BlockTx
<1> QED BY <1>1, <1>2 DEF RowsMoveOn, ChargeInv, CancellationsInFlight

LEMMA SoftStep ==
  ASSUME TypeOK, ChargeInv, RowsMoveOn, NoNewHold
  PROVE  ChargeInv'
BY RowsMoveOnCharges, RowsMoveOnHolds, HoldsKept DEF ChargeInv

(* Steps that leave rows, codes and payments alone. *)
LEMMA NothingMoves ==
  ASSUME UNCHANGED <<res, qr, payment>>
  PROVE  RowsMoveOn
BY DEF RowsMoveOn, Exists

LEMMA EndHoldsNothing ==
  ASSUME TypeOK, NEW p \in Request, End(p)
  PROVE  NoNewHold
BY DEF End, NoNewHold, Idle, TypeOK

LEMMA BeginHoldsNothing ==
  ASSUME TypeOK, NEW p \in Request, NEW t, Begin(p, t),
         t.op \notin {"checkOut", "cancel", "block"}
  PROVE  NoNewHold
BY DEF Begin, NoNewHold, TypeOK

LEMMA CancelRowsMoveOn ==
  ASSUME TypeOK, NEW R \in SUBSET Resv, CancelRows(R), UNCHANGED payment,
         \A r \in R : Exists(r)
  PROVE  RowsMoveOn
<1> SUFFICES ASSUME NEW r \in Resv
             PROVE  /\ qr'[r].out = qr[r].out
                    /\ res'[r].status \in {res[r].status, "CANCELLED"}
                    /\ res'[r].user = res[r].user
                    /\ res'[r].status = "NONE" => res'[r] = res[r]
                    /\ Exists(r) => Exists(r)'
  BY DEF RowsMoveOn
<1>1. qr'[r].out = qr[r].out
  BY DEF CancelRows, TypeOK, QrCode
<1>2. res'[r] = IF r \in R THEN [res[r] EXCEPT !.status = "CANCELLED"] ELSE res[r]
  BY DEF CancelRows
<1> QED BY <1>1, <1>2 DEF TypeOK, Reservation, Exists

-----------------------------------------------------------------------------
(* The steps that begin to hold something *)

LEMMA HoldBegins ==
  ASSUME TypeOK, ChargeInv, NEW p \in Request,
         \/ \E r \in Resv : CheckOutBegin(p, r) \/ CancelBegin(p, r)
         \/ \E u \in Blockable : BlockBegin(p, u)
  PROVE  ChargeInv'
<1>1. UNCHANGED <<res, qr, payment>> /\ \A q \in Request \ {p} : tx'[q] = tx[q]
  BY DEF CheckOutBegin, CancelBegin, BlockBegin, Begin, TypeOK
<1>2. CompletedIsPaid' /\ NothingBeforeBooking' /\ CheckOutCodesComeLater'
  BY <1>1, NothingMoves, RowsMoveOnCharges
<1>3. ASSUME NEW r \in Resv, CheckOutBegin(p, r)
      PROVE  CheckOutsInFlight' /\ CancellationsInFlight'
  <2>1. tx'[p].op = "checkOut" /\ tx'[p].resv = r
    BY <1>3 DEF CheckOutBegin, Begin, TypeOK
  <2>2. qr[r].out = "ACTIVE" /\ \A q \in Request \ {p} : tx[q].op = "checkOut" => tx[q].resv # r
    BY <1>3 DEF CheckOutBegin, CheckOutCodeValid, QrLocked
  <2>3. CheckOutsInFlight'
    BY <1>1, <2>1, <2>2 DEF ChargeInv, CheckOutsInFlight
  <2>4. CancellationsInFlight'
    BY <1>1, <2>1 DEF ChargeInv, CancellationsInFlight, Exists
  <2> QED BY <2>3, <2>4
<1>4. ASSUME NEW r \in Resv, CancelBegin(p, r)
      PROVE  CheckOutsInFlight' /\ CancellationsInFlight'
  <2>1. tx'[p].op = "cancel" /\ tx'[p].resv = r /\ res[r].status = "CONFIRMED"
    BY <1>4 DEF CancelBegin, Begin, TypeOK
  <2>2. CheckOutsInFlight'
    BY <1>1, <2>1 DEF ChargeInv, CheckOutsInFlight
  <2>3. CancellationsInFlight'
    BY <1>1, <2>1 DEF ChargeInv, CancellationsInFlight, Exists
  <2> QED BY <2>2, <2>3
<1>5. ASSUME NEW u \in User, BlockBegin(p, u)
      PROVE  CheckOutsInFlight' /\ CancellationsInFlight'
  <2>1. /\ tx'[p].op = "block" /\ tx'[p].user = u
        /\ \A r \in tx'[p].rows : res[r].user = u /\ res[r].status = "CONFIRMED"
    BY <1>5 DEF BlockBegin, Begin, TypeOK
  <2>2. CheckOutsInFlight'
    BY <1>1, <2>1 DEF ChargeInv, CheckOutsInFlight
  <2>3. CancellationsInFlight'
    BY <1>1, <2>1 DEF ChargeInv, CancellationsInFlight, Exists
  <2> QED BY <2>2, <2>3
<1> QED BY <1>2, <1>3, <1>4, <1>5, InputAssumption DEF ChargeInv

-----------------------------------------------------------------------------
(* The steps that move a row on *)

(* A booking takes a row that nothing in flight holds. *)
LEMMA CreateCharges ==
  ASSUME TypeOK, ChargeInv, NEW p \in Request, CreateCommit(p)
  PROVE  ChargeInv'
<1>1. PICK r \in Resv : /\ res[r].status = "NONE"
                        /\ res' = [res EXCEPT ![r] = NewRow(tx[p])]
                        /\ qr' = [qr EXCEPT ![r].in = "ACTIVE"]
  BY DEF CreateCommit
<1>2. End(p) /\ UNCHANGED payment
  BY DEF CreateCommit
<1>3. res'[r].status = "CONFIRMED" /\ \A x \in Resv \ {r} : res'[x] = res[x]
  BY <1>1 DEF NewRow, TypeOK
<1>4. \A x \in Resv : qr'[x].out = qr[x].out
  BY <1>1 DEF TypeOK, QrCode
<1>5. CompletedIsPaid' /\ NothingBeforeBooking' /\ CheckOutCodesComeLater'
  BY <1>1, <1>2, <1>3, <1>4
  DEF ChargeInv, CompletedIsPaid, NothingBeforeBooking, CheckOutCodesComeLater, NoReservation
<1>6. NoNewHold
  BY <1>2, EndHoldsNothing
<1>7. HeldRowsKept
  <2> SUFFICES ASSUME NEW q \in Request, tx'[q].op \in {"checkOut", "cancel", "block"}
               PROVE  /\ tx'[q].op = "checkOut" => qr'[tx[q].resv].out = qr[tx[q].resv].out
                      /\ tx'[q].op = "cancel" => Exists(tx[q].resv)'
                      /\ tx'[q].op = "block" =>
                           \A x \in tx[q].rows : Exists(x)' /\ res'[x].user = res[x].user
    BY DEF HeldRowsKept
  <2>1. tx'[q] = tx[q]
    BY <1>6 DEF NoNewHold
  <2>2. /\ tx[q].op \in {"checkOut", "cancel"} => tx[q].resv \in Resv
        /\ tx[q].op = "block" => tx[q].rows \in SUBSET Resv
    BY KindOfTx DEF CheckOutTx, CancelTx, BlockTx
  <2> QED BY <1>1, <1>3, <1>4, <2>1, <2>2 DEF ChargeInv, CancellationsInFlight, Exists
<1> QED BY <1>5, <1>6, <1>7, HoldsKept DEF ChargeInv

(* A check-in issues the first check-out code of a row that nobody charges yet. *)
LEMMA CheckInCharges ==
  ASSUME TypeOK, BookingInv, ChargeInv, NEW p \in Request, CheckInCommit(p)
  PROVE  ChargeInv'
<1>1. PICK r \in Resv : r = tx[p].resv
  BY KindOfTx DEF CheckInCommit, CheckInTx
<1>2. End(p) /\ UNCHANGED payment
  BY DEF CheckInCommit
<1>3. res[r].status = "CONFIRMED" /\ qr[r].out = "NONE"
  BY <1>1 DEF CheckInCommit, BookingInv, ScansInFlight, ChargeInv, CheckOutCodesComeLater
<1>4. /\ res'[r].status = "CHECKED_IN" /\ res'[r].user = res[r].user
      /\ qr'[r].out = "ACTIVE"
      /\ \A x \in Resv \ {r} : res'[x] = res[x] /\ qr'[x] = qr[x]
  BY <1>1 DEF CheckInCommit, TypeOK, Reservation, QrCode
<1>5. CompletedIsPaid' /\ NothingBeforeBooking' /\ CheckOutCodesComeLater'
  BY <1>2, <1>3, <1>4
  DEF ChargeInv, CompletedIsPaid, NothingBeforeBooking, CheckOutCodesComeLater, NoReservation
<1>6. NoNewHold
  BY <1>2, EndHoldsNothing
<1>7. HeldRowsKept
  <2> SUFFICES ASSUME NEW q \in Request, tx'[q].op \in {"checkOut", "cancel", "block"}
               PROVE  /\ tx'[q].op = "checkOut" => qr'[tx[q].resv].out = qr[tx[q].resv].out
                      /\ tx'[q].op = "cancel" => Exists(tx[q].resv)'
                      /\ tx'[q].op = "block" =>
                           \A x \in tx[q].rows : Exists(x)' /\ res'[x].user = res[x].user
    BY DEF HeldRowsKept
  <2>1. tx'[q] = tx[q]
    BY <1>6 DEF NoNewHold
  <2>2. /\ tx[q].op \in {"checkOut", "cancel"} => tx[q].resv \in Resv
        /\ tx[q].op = "block" => tx[q].rows \in SUBSET Resv
    BY KindOfTx DEF CheckOutTx, CancelTx, BlockTx
  <2>3. tx[q].op = "checkOut" => tx[q].resv # r
    BY <1>3 DEF ChargeInv, CheckOutsInFlight
  <2> QED BY <1>4, <2>1, <2>2, <2>3 DEF ChargeInv, CancellationsInFlight, Exists
<1> QED BY <1>5, <1>6, <1>7, HoldsKept DEF ChargeInv

(* A check-out that ends, declined or paid, is the only one of its row, whose charge *)
(* has not gone through before.                                                      *)
LEMMA RowOfCheckOut ==
  ASSUME TypeOK, BookingInv, ChargeInv, NEW p \in Request, tx[p].op = "checkOut"
  PROVE  /\ tx[p].resv \in Resv
         /\ qr[tx[p].resv].out = "ACTIVE"
         /\ payment[tx[p].resv].status # "SUCCESSFUL"
         /\ res[tx[p].resv].status \notin {"NONE", "CONFIRMED", "DELETED", "COMPLETED"}
         /\ \A q \in Request \ {p} : tx[q].op = "checkOut" => tx[q].resv # tx[p].resv
<1>1. tx[p].resv \in Resv
  BY KindOfTx DEF CheckOutTx
<1>2. /\ qr[tx[p].resv].out = "ACTIVE"
      /\ \A q \in Request \ {p} : tx[q].op = "checkOut" => tx[q].resv # tx[p].resv
  BY DEF ChargeInv, CheckOutsInFlight
<1> QED BY <1>1, <1>2 DEF ChargeInv, CompletedIsPaid, CheckOutCodesComeLater

LEMMA DeclineCharges ==
  ASSUME TypeOK, BookingInv, ChargeInv, NEW p \in Request, CheckOutDeclined(p)
  PROVE  ChargeInv'
<1>1. PICK r \in Resv : r = tx[p].resv /\ qr[r].out = "ACTIVE" /\ res[r].status # "COMPLETED"
  BY RowOfCheckOut DEF CheckOutDeclined
<1>2. End(p) /\ UNCHANGED <<res, qr>>
  BY DEF CheckOutDeclined
<1>3. payment'[r].status = "FAILED" /\ \A x \in Resv \ {r} : payment'[x] = payment[x]
  BY <1>1 DEF CheckOutDeclined, TypeOK
<1>4. CompletedIsPaid' /\ NothingBeforeBooking' /\ CheckOutCodesComeLater'
  BY <1>1, <1>2, <1>3
  DEF ChargeInv, CompletedIsPaid, NothingBeforeBooking, CheckOutCodesComeLater
<1>5. NoNewHold
  BY <1>2, EndHoldsNothing
<1>6. HeldRowsKept
  BY <1>2, <1>5 DEF HeldRowsKept, NoNewHold, ChargeInv, CancellationsInFlight, Exists
<1> QED BY <1>4, <1>5, <1>6, HoldsKept DEF ChargeInv

LEMMA PaymentCharges ==
  ASSUME TypeOK, BookingInv, ChargeInv, NEW p \in Request, CheckOutPaid(p)
  PROVE  ChargeInv'
<1>1. PICK r \in Resv :
        /\ r = tx[p].resv /\ qr[r].out = "ACTIVE"
        /\ \A q \in Request \ {p} : tx[q].op = "checkOut" => tx[q].resv # r
  BY RowOfCheckOut DEF CheckOutPaid
<1>2. End(p)
  BY DEF CheckOutPaid
<1>3. /\ res'[r].status = "COMPLETED" /\ res'[r].user = res[r].user
      /\ qr'[r].out = "USED" /\ payment'[r].status = "SUCCESSFUL"
      /\ \A x \in Resv \ {r} : res'[x] = res[x] /\ qr'[x] = qr[x] /\ payment'[x] = payment[x]
  BY <1>1 DEF CheckOutPaid, TypeOK, Reservation, QrCode
<1>4. CompletedIsPaid' /\ NothingBeforeBooking' /\ CheckOutCodesComeLater'
  BY <1>3 DEF ChargeInv, CompletedIsPaid, NothingBeforeBooking, CheckOutCodesComeLater,
              NoReservation
<1>5. NoNewHold
  BY <1>2, EndHoldsNothing
<1>6. HeldRowsKept
  <2> SUFFICES ASSUME NEW q \in Request, tx'[q].op \in {"checkOut", "cancel", "block"}
               PROVE  /\ tx'[q].op = "checkOut" => qr'[tx[q].resv].out = qr[tx[q].resv].out
                      /\ tx'[q].op = "cancel" => Exists(tx[q].resv)'
                      /\ tx'[q].op = "block" =>
                           \A x \in tx[q].rows : Exists(x)' /\ res'[x].user = res[x].user
    BY DEF HeldRowsKept
  <2>1. tx'[q] = tx[q] /\ q # p
    BY <1>2, <1>5 DEF NoNewHold, End, TypeOK, Idle
  <2>2. /\ tx[q].op \in {"checkOut", "cancel"} => tx[q].resv \in Resv
        /\ tx[q].op = "block" => tx[q].rows \in SUBSET Resv
    BY KindOfTx DEF CheckOutTx, CancelTx, BlockTx
  <2> QED BY <1>1, <1>3, <2>1, <2>2 DEF ChargeInv, CancellationsInFlight, Exists
<1> QED BY <1>4, <1>5, <1>6, HoldsKept DEF ChargeInv

(* A deleted account takes no row away that a request in flight holds. *)
LEMMA RemoveSelfCharges ==
  ASSUME TypeOK, ChargeInv, NEW u \in User, RemoveSelf(u)
  PROVE  ChargeInv'
<1>1. UNCHANGED tx
  BY DEF RemoveSelf
<1>2. \A r \in Resv :
        IF res[r].user = u
        THEN /\ res'[r].status = "DELETED" /\ res'[r].user = u
             /\ qr'[r].out = "NONE" /\ payment'[r].status = "NONE"
        ELSE res'[r] = res[r] /\ qr'[r] = qr[r] /\ payment'[r] = payment[r]
  BY DEF RemoveSelf, NoPayment, TypeOK, Reservation
<1>3. CompletedIsPaid' /\ NothingBeforeBooking' /\ CheckOutCodesComeLater'
  BY <1>2 DEF ChargeInv, CompletedIsPaid, NothingBeforeBooking, CheckOutCodesComeLater,
              NoReservation
<1>4. NoNewHold
  BY <1>1 DEF NoNewHold
<1>5. HeldRowsKept
  <2> SUFFICES ASSUME NEW q \in Request
               PROVE  /\ tx[q].op = "checkOut" => qr'[tx[q].resv].out = qr[tx[q].resv].out
                      /\ tx[q].op = "cancel" => Exists(tx[q].resv)'
                      /\ tx[q].op = "block" =>
                           \A x \in tx[q].rows : Exists(x)' /\ res'[x].user = res[x].user
    BY <1>1 DEF HeldRowsKept
  <2>1. CASE tx[q].op \in {"checkOut", "cancel"}
    <3>1. tx[q].resv \in Resv
      BY <2>1, KindOfTx DEF CheckOutTx, CancelTx
    <3>2. res[tx[q].resv].user # u
      BY <2>1 DEF RemoveSelf, HoldsRowOf
    <3>3. res'[tx[q].resv] = res[tx[q].resv] /\ qr'[tx[q].resv] = qr[tx[q].resv]
      BY <1>2, <3>1, <3>2
    <3>4. tx[q].op = "cancel" => Exists(tx[q].resv)
      BY DEF ChargeInv, CancellationsInFlight
    <3>5. Exists(tx[q].resv)' <=> Exists(tx[q].resv)
      BY <1>1, <3>3 DEF Exists
    <3> QED BY <2>1, <3>3, <3>4, <3>5
  <2>2. CASE tx[q].op = "block"
    <3>1. tx[q].rows \in SUBSET Resv
      BY <2>2, KindOfTx DEF BlockTx
    <3>2. tx[q].user # u
      BY <2>2 DEF RemoveSelf, HoldsRowOf
    <3>3. \A x \in tx[q].rows : Exists(x) /\ res[x].user = tx[q].user
      BY <2>2 DEF ChargeInv, CancellationsInFlight
    <3>4. \A x \in tx[q].rows : res'[x] = res[x]
      BY <1>2, <3>1, <3>2, <3>3
    <3> QED BY <2>2, <3>3, <3>4 DEF Exists
  <2> QED BY <2>1, <2>2
<1> QED BY <1>3, <1>4, <1>5, HoldsKept DEF ChargeInv

(* The two decisions of the cron about a row that is there. *)
LEMMA DecisionMovesOn ==
  ASSUME TypeOK, BookingInv, NEW i \in Instance, MarkOvertime(i) \/ ExtendBooking(i)
  PROVE  RowsMoveOn
<1>1. PICK r \in Resv : r = job[i].cur /\ Exists(r)
  BY StageOfTick DEF MarkOvertime, ExtendBooking
<1>2. UNCHANGED <<qr, payment>>
  BY DEF MarkOvertime, ExtendBooking
<1>3. /\ \A x \in Resv \ {r} : res'[x] = res[x]
      /\ res'[r].status \in {res[r].status, "OVERTIME"} /\ res'[r].user = res[r].user
  BY <1>1 DEF MarkOvertime, ExtendBooking, TypeOK, Reservation
<1> QED BY <1>1, <1>2, <1>3 DEF RowsMoveOn, Exists

LEMMA BookingCharges ==
  ASSUME TypeOK, ChargeInv, NEW p \in Request, Booking(p)
  PROVE  ChargeInv'
<1>1. ASSUME NEW u \in User, NEW s \in Slot, NEW start \in now..Horizon,
             NEW hours \in Durations, CreateArrive(p, u, s, start, hours)
      PROVE  ChargeInv'
  <2>1. UNCHANGED <<res, qr, payment>>
    BY <1>1 DEF CreateArrive
  <2>2. NoNewHold
    BY <1>1, BeginHoldsNothing DEF CreateArrive
  <2> QED BY <2>1, <2>2, NothingMoves, SoftStep
<1>5. CASE CreateRead(p) \/ CreateBegin(p)
  <2>1. UNCHANGED <<res, qr, payment>> /\ tx[p] \in CreateTx
    BY <1>5, KindOfTx DEF CreateRead, CreateBegin
  <2>2. /\ tx'[p].op \in {"waiting", "create"}
        /\ \A q \in Request \ {p} : tx'[q] = tx[q]
    BY <1>5, <2>1 DEF CreateRead, CreateBegin, CreateTx, TypeOK
  <2> QED BY <2>1, <2>2, NothingMoves, SoftStep DEF NoNewHold
<1>2. CASE CreateCommit(p)
  BY <1>2, CreateCharges
<1>3. ASSUME NEW r \in Resv, CancelBegin(p, r)
      PROVE  ChargeInv'
  BY <1>3, HoldBegins
<1>4. CASE CancelCommit(p)
  <2>1. {tx[p].resv} \in SUBSET Resv /\ Exists(tx[p].resv)
    BY <1>4, KindOfTx DEF CancelCommit, CancelTx, ChargeInv, CancellationsInFlight
  <2>2. RowsMoveOn
    BY <1>4, <2>1, CancelRowsMoveOn DEF CancelCommit
  <2>3. NoNewHold
    BY <1>4, EndHoldsNothing DEF CancelCommit
  <2> QED BY <2>2, <2>3, SoftStep
<1> QED BY <1>1, <1>2, <1>3, <1>4, <1>5 DEF Booking

LEMMA CheckpointCharges ==
  ASSUME TypeOK, BookingInv, ChargeInv, NEW p \in Request, Checkpoint(p)
  PROVE  ChargeInv'
<1>1. ASSUME NEW r \in Resv, CheckInBegin(p, r)
      PROVE  ChargeInv'
  <2>1. UNCHANGED <<res, qr, payment>>
    BY <1>1 DEF CheckInBegin
  <2>2. NoNewHold
    BY <1>1, BeginHoldsNothing DEF CheckInBegin
  <2> QED BY <2>1, <2>2, NothingMoves, SoftStep
<1>2. ASSUME NEW r \in Resv, CheckOutBegin(p, r)
      PROVE  ChargeInv'
  BY <1>2, HoldBegins
<1> QED BY <1>1, <1>2, CheckInCharges, DeclineCharges, PaymentCharges DEF Checkpoint

LEMMA AdministrationCharges ==
  ASSUME TypeOK, ChargeInv, NEW p \in Request, Administration(p)
  PROVE  ChargeInv'
<1>1. ASSUME NEW u \in Blockable, BlockBegin(p, u)
      PROVE  ChargeInv'
  BY <1>1, HoldBegins
<1>2. CASE BlockCommit(p)
  <2>1. tx[p].rows \in SUBSET Resv /\ \A r \in tx[p].rows : Exists(r)
    BY <1>2, KindOfTx DEF BlockCommit, BlockTx, ChargeInv, CancellationsInFlight
  <2>2. RowsMoveOn
    BY <1>2, <2>1, CancelRowsMoveOn DEF BlockCommit
  <2>3. NoNewHold
    BY <1>2, EndHoldsNothing DEF BlockCommit
  <2> QED BY <2>2, <2>3, SoftStep
<1>3. ASSUME NEW S, NEW to, RestrictRead(p, S, to)
      PROVE  ChargeInv'
  <2>1. UNCHANGED <<res, qr, payment>>
    BY <1>3 DEF RestrictRead
  <2>2. NoNewHold
    BY <1>3, BeginHoldsNothing DEF RestrictRead
  <2> QED BY <2>1, <2>2, NothingMoves, SoftStep
<1>4. ASSUME NEW reason \in BOOLEAN, RestrictWrite(p, reason)
      PROVE  ChargeInv'
  <2>1. UNCHANGED <<res, qr, payment>> /\ End(p)
    BY <1>4 DEF RestrictWrite
  <2> QED BY <2>1, EndHoldsNothing, NothingMoves, SoftStep
<1> QED BY <1>1, <1>2, <1>3, <1>4 DEF Administration, UpdateStatusRead, BulkUpdateStatusRead

LEMMA AccountCharges ==
  ASSUME TypeOK, ChargeInv, Account
  PROVE  ChargeInv'
<1>1. ASSUME UNCHANGED <<res, qr, payment, tx>>
      PROVE  ChargeInv'
  BY <1>1, NothingMoves, SoftStep DEF NoNewHold
<1>2. ASSUME NEW u \in Leavers, RemoveSelf(u)
      PROVE  ChargeInv'
  BY <1>2, RemoveSelfCharges, InputAssumption
<1>3. ASSUME NEW u \in User, NEW c \in SavedCards, SavePaymentMethod(u, c)
      PROVE  ChargeInv'
  BY <1>1, <1>3 DEF SavePaymentMethod
<1>4. ASSUME NEW b \in LotSwitch, SetLotActive(b)
      PROVE  ChargeInv'
  BY <1>1, <1>4 DEF SetLotActive
<1> QED BY <1>2, <1>3, <1>4 DEF Account

LEMMA MonitoringCharges ==
  ASSUME TypeOK, BookingInv, ChargeInv, NEW i \in Instance, Monitoring(i)
  PROVE  ChargeInv'
<1>1. UNCHANGED <<payment, tx>>
  BY DEF Monitoring, MonitorStart, CancelNoShow, ListActive, ReadClock, ResolveGraceExpiry,
         MarkOvertime, ExtendBooking, MonitorDone, MonitorFail
<1>2. RowsMoveOn
  <2>1. ASSUME NEW r \in Resv, CancelNoShow(i, r)
        PROVE  RowsMoveOn
    <3>1. CASE Exists(r)
      BY <1>1, <2>1, <3>1, CancelRowsMoveOn DEF CancelNoShow
    <3>2. CASE ~Exists(r)
      BY <1>1, <2>1, <3>2, NothingMoves DEF CancelNoShow
    <3> QED BY <3>1, <3>2
  <2>2. ASSUME UNCHANGED <<res, qr, payment>>
        PROVE  RowsMoveOn
    BY <2>2, NothingMoves
  <2>3. CASE \/ MonitorStart(i) \/ ListActive(i) \/ ReadClock(i)
             \/ MonitorDone(i) \/ MonitorFail(i)
    BY <2>2, <2>3 DEF MonitorStart, ListActive, ReadClock, MonitorDone, MonitorFail
  <2>4. ASSUME NEW r \in Resv, ResolveGraceExpiry(i, r)
        PROVE  RowsMoveOn
    BY <2>2, <2>4 DEF ResolveGraceExpiry
  <2> QED BY <2>1, <2>3, <2>4, DecisionMovesOn DEF Monitoring
<1> QED BY <1>1, <1>2, SoftStep DEF NoNewHold

-----------------------------------------------------------------------------

(* What a handler in flight has locked stays as it was read, and every stay that    *)
(* ended at the gate was paid for.                                                  *)
THEOREM ChargeInvariant == Spec => []ChargeInv
<1>1. Init => ChargeInv
  BY DEF Init, ChargeInv, CompletedIsPaid, NothingBeforeBooking, CheckOutCodesComeLater,
         CheckOutsInFlight, CancellationsInFlight, NoReservation, NoPayment, Idle
<1>2. TypeOK /\ BookingInv /\ ChargeInv /\ [Next]_vars => ChargeInv'
  <2> SUFFICES ASSUME TypeOK, BookingInv, ChargeInv, [Next]_vars
               PROVE  ChargeInv'
    OBVIOUS
  <2>1. ASSUME NEW p \in Request, Abort(p)
        PROVE  ChargeInv'
    <3>1. UNCHANGED <<res, qr, payment>> /\ End(p)
      BY <2>1 DEF Abort
    <3> QED BY <3>1, EndHoldsNothing, NothingMoves, SoftStep
  <2>2. ASSUME UNCHANGED <<res, qr, payment, tx>>
        PROVE  ChargeInv'
    BY <2>2, NothingMoves, SoftStep DEF NoNewHold
  <2>3. CASE Clock
    BY <2>2, <2>3 DEF Clock
  <2>4. CASE UNCHANGED vars
    BY <2>2, <2>4 DEF vars
  <2> QED BY <2>1, <2>3, <2>4, BookingCharges, CheckpointCharges, AdministrationCharges,
             AccountCharges, MonitoringCharges DEF Next
<1> QED BY <1>1, <1>2, TypeCorrect, BookingInvariant, PTL DEF Spec

(* A COMPLETED stay was charged, and a check-out code is used up exactly when the    *)
(* charge went through (checkOut), whatever the cron writes from its old lists.      *)
THEOREM StaysArePaid == Spec => []CompletedIsPaid
<1>1. ChargeInv => CompletedIsPaid
  BY DEF ChargeInv
<1> QED BY <1>1, ChargeInvariant, PTL

-----------------------------------------------------------------------------
(* From steps of the system to steps of the ledger *)

ChargesKept ==
  \A r \in Resv :
    payment[r].status = "SUCCESSFUL" => payment'[r] = payment[r] \/ Gone(r)

LedgerStep == Ledger!Next \/ UNCHANGED Ledger!vars

LEMMA StatesOfEntries ==
  ASSUME NEW r \in Resv
  PROVE  /\ Held(r) => EntryState(r) = "held"
         /\ res[r].status = "OVERTIME" => EntryState(r) = "overstayed"
         /\ res[r].status = "NONE" => EntryState(r) = "free"
         /\ res[r].status = "DELETED" => EntryState(r) = "gone"
         /\ Exists(r) => EntryState(r) \in {"held", "overstayed", "closed"}
         /\ Exists(r) /\ ~Claims(r) => EntryState(r) = "closed"
BY DEF EntryState, Held, Claims, Exists

LEMMA StatesOfEntriesNext ==
  ASSUME NEW r \in Resv
  PROVE  /\ Held(r)' => EntryState(r)' = "held"
         /\ res'[r].status = "OVERTIME" => EntryState(r)' = "overstayed"
BY DEF EntryState, Held

LEMMA EntriesMove ==
  ASSUME FixedColumns, NEW E \in SUBSET Resv, NEW to,
         \A r \in Resv : EntryState(r)' = IF r \in E THEN to ELSE EntryState(r)
  PROVE  Ledger!Moved(E, to)
BY DEF FixedColumns, Entries, BookedEnd, Ledger!Moved

LEMMA NothingToCustomers ==
  ASSUME FixedColumns,
         \A r \in Resv : /\ EntryState(r)' = EntryState(r)
                         /\ payment'[r].status = "SUCCESSFUL" <=> payment[r].status = "SUCCESSFUL"
  PROVE  LedgerStep
<1>1. Entries' = Entries
  BY DEF FixedColumns, Entries, BookedEnd
<1>2. Paid' = Paid
  BY DEF Paid
<1> QED BY <1>1, <1>2 DEF LedgerStep, Ledger!vars

LEMMA RowsUntouched ==
  ASSUME UNCHANGED <<res, payment>>
  PROVE  LedgerStep /\ ChargesKept
<1>1. FixedColumns /\ \A r \in Resv : EntryState(r)' = EntryState(r)
  BY DEF FixedColumns, EntryState, Held
<1> QED BY <1>1, NothingToCustomers DEF ChargesKept

(* An entry that is held has no other one in its way. *)
LEMMA HeldAlone ==
  ASSUME NoDoubleBooking', NEW r \in Resv, Held(r)'
  PROVE  Ledger!Alone(r)'
<1> SUFFICES ASSUME NEW f \in Resv \ {r}, Entries'[f].state = "held",
                    Entries'[f].slot = Entries'[r].slot
             PROVE  \/ Entries'[r].start >= Entries'[f].until + Buffer
                    \/ Entries'[f].start >= Entries'[r].until + Buffer
  BY DEF Ledger!Alone, Ledger!Apart
<1>1. Held(f)' /\ res'[f].slot = res'[r].slot
  BY DEF Entries, EntryState
<1>2. BuffersApart(r, f)'
  BY <1>1 DEF NoDoubleBooking
<1> QED BY <1>2 DEF BuffersApart, Entries

LEMMA CreateIsBook ==
  ASSUME TypeOK, TypeOK', BookingInv', NEW p \in Request, CreateCommit(p)
  PROVE  LedgerStep /\ ChargesKept
<1>1. PICK r \in Resv : res[r].status = "NONE" /\ res' = [res EXCEPT ![r] = NewRow(tx[p])]
  BY DEF CreateCommit
<1>2. tx[p] \in CreateTx /\ UNCHANGED payment
  BY KindOfTx DEF CreateCommit
<1>3. res'[r] = NewRow(tx[p]) /\ \A x \in Resv \ {r} : res'[x] = res[x]
  BY <1>1 DEF TypeOK
<1>4. Held(r)'
  BY <1>3 DEF Held, NewRow
<1>5. Entries[r].state = "free" /\ Entries'[r].state = "held"
  BY <1>1, <1>4, StatesOfEntries, StatesOfEntriesNext DEF Entries
<1>6. Entries'[r] \in Ledger!Held
  <2>1. res'[r].slot \in Slot /\ res'[r].start \in Nat /\ BookedEnd(r)' \in Nat
    BY <1>2, <1>3 DEF NewRow, BookedEnd, CreateTx
  <2> QED BY <1>5, <2>1 DEF Entries, Ledger!Held
<1>7. \A x \in Resv \ {r} : Entries'[x] = Entries[x]
  BY <1>3 DEF Entries, EntryState, Held, BookedEnd
<1>8. Paid' = Paid
  BY <1>2 DEF Paid
<1>9. Ledger!Alone(r)'
  BY <1>4, HeldAlone DEF BookingInv
<1>10. Ledger!Book(r)
  BY <1>5, <1>6, <1>7, <1>8, <1>9 DEF Ledger!Book
<1> QED BY <1>2, <1>10 DEF LedgerStep, Ledger!Next, ChargesKept

LEMMA CancelIsClose ==
  ASSUME TypeOK, NEW R \in SUBSET Resv, CancelRows(R), UNCHANGED payment,
         \A r \in R : Exists(r)
  PROVE  LedgerStep /\ ChargesKept
<1>1. \A r \in Resv :
        res'[r] = IF r \in R THEN [res[r] EXCEPT !.status = "CANCELLED"] ELSE res[r]
  BY DEF CancelRows
<1>2. FixedColumns /\ \A r \in R : res'[r].status = "CANCELLED"
  BY <1>1 DEF FixedColumns, TypeOK, Reservation
<1>3. \A r \in Resv : EntryState(r)' = IF r \in R THEN "closed" ELSE EntryState(r)
  BY <1>1, <1>2 DEF EntryState, Held
<1>4. Ledger!Moved(R, "closed")
  BY <1>2, <1>3, EntriesMove
<1>5. \A r \in R : Entries[r].state \in {"held", "overstayed", "closed"}
  BY StatesOfEntries DEF Entries
<1>6. Paid' = Paid
  BY DEF Paid
<1>7. Ledger!Close(R)
  BY <1>4, <1>5, <1>6 DEF Ledger!Close
<1> QED BY <1>7 DEF LedgerStep, Ledger!Next, ChargesKept

LEMMA CheckInIsNothing ==
  ASSUME TypeOK, BookingInv, NEW p \in Request, CheckInCommit(p)
  PROVE  LedgerStep /\ ChargesKept
<1>1. PICK r \in Resv : r = tx[p].resv /\ res[r].status = "CONFIRMED"
  BY KindOfTx DEF CheckInCommit, CheckInTx, BookingInv, ScansInFlight
<1>2. /\ res'[r].status = "CHECKED_IN" /\ \A x \in Resv \ {r} : res'[x] = res[x]
      /\ FixedColumns /\ UNCHANGED payment
  BY <1>1 DEF CheckInCommit, TypeOK, Reservation, FixedColumns
<1>3. \A x \in Resv : EntryState(x)' = EntryState(x)
  BY <1>1, <1>2 DEF EntryState, Held
<1> QED BY <1>2, <1>3, NothingToCustomers DEF ChargesKept

LEMMA DeclineIsNothing ==
  ASSUME TypeOK, BookingInv, ChargeInv, NEW p \in Request, CheckOutDeclined(p)
  PROVE  LedgerStep /\ ChargesKept
<1>1. PICK r \in Resv : r = tx[p].resv /\ payment[r].status # "SUCCESSFUL"
  BY RowOfCheckOut DEF CheckOutDeclined
<1>2. /\ payment'[r].status = "FAILED" /\ \A x \in Resv \ {r} : payment'[x] = payment[x]
      /\ UNCHANGED res
  BY <1>1 DEF CheckOutDeclined, TypeOK
<1>3. FixedColumns /\ \A x \in Resv : EntryState(x)' = EntryState(x)
  BY <1>2 DEF FixedColumns, EntryState, Held
<1>4. LedgerStep
  BY <1>1, <1>2, <1>3, NothingToCustomers
<1> QED BY <1>1, <1>2, <1>4 DEF ChargesKept

LEMMA PaymentIsSettle ==
  ASSUME TypeOK, BookingInv, ChargeInv, NEW p \in Request, CheckOutPaid(p)
  PROVE  LedgerStep /\ ChargesKept
<1>1. PICK r \in Resv : /\ r = tx[p].resv /\ payment[r].status # "SUCCESSFUL"
                        /\ res[r].status \notin {"NONE", "DELETED"}
  BY RowOfCheckOut DEF CheckOutPaid
<1>2. /\ res'[r].status = "COMPLETED" /\ payment'[r].status = "SUCCESSFUL"
      /\ \A x \in Resv \ {r} : res'[x] = res[x] /\ payment'[x] = payment[x]
      /\ FixedColumns
  BY <1>1 DEF CheckOutPaid, TypeOK, Reservation, FixedColumns
<1>3. \A x \in Resv : EntryState(x)' = IF x \in {r} THEN "closed" ELSE EntryState(x)
  BY <1>2 DEF EntryState, Held
<1>4. Ledger!Moved({r}, "closed")
  BY <1>2, <1>3, EntriesMove
<1>5. Entries[r].state \in {"held", "overstayed", "closed"}
  BY <1>1, StatesOfEntries DEF Entries, Exists
<1>6. r \notin Paid /\ Paid' = Paid \cup {r}
  BY <1>1, <1>2 DEF Paid
<1>7. Ledger!Settle(r)
  BY <1>4, <1>5, <1>6 DEF Ledger!Settle
<1>8. ChargesKept
  BY <1>1, <1>2 DEF ChargesKept
<1> QED BY <1>7, <1>8 DEF LedgerStep, Ledger!Next

LEMMA RemoveSelfIsForget ==
  ASSUME TypeOK, ChargeInv, NEW u \in User, RemoveSelf(u)
  PROVE  LedgerStep /\ ChargesKept
<1> DEFINE Own == {r \in Resv : res[r].user = u}
<1>1. /\ \A r \in Own : payment'[r].status = "NONE"
      /\ \A r \in Resv \ Own : res'[r] = res[r] /\ payment'[r] = payment[r]
  BY DEF RemoveSelf, NoPayment
<1>2. FixedColumns /\ \A r \in Own : res'[r].status = "DELETED"
  BY DEF RemoveSelf, FixedColumns, TypeOK, Reservation
<1>3. \A r \in Own : res[r].status # "NONE"
  BY NoneAssumption DEF ChargeInv, NothingBeforeBooking, NoReservation
<1> HIDE DEF Own
<1>4. Own \in SUBSET Resv
  BY DEF Own
<1>5. \A r \in Resv : EntryState(r)' = IF r \in Own THEN "gone" ELSE EntryState(r)
  BY <1>1, <1>2, <1>4 DEF EntryState, Held
<1>6. Ledger!Moved(Own, "gone")
  BY <1>2, <1>4, <1>5, EntriesMove
<1>7. \A r \in Own : Entries[r].state # "free"
  BY <1>3, <1>4 DEF Entries, EntryState
<1>8. Paid' = Paid \ Own
  BY <1>1, <1>4 DEF Paid
<1>9. Ledger!Forget(Own)
  BY <1>6, <1>7, <1>8 DEF Ledger!Forget
<1>10. ChargesKept
  BY <1>1, <1>2, <1>4 DEF ChargesKept, Gone
<1> QED BY <1>4, <1>9, <1>10 DEF LedgerStep, Ledger!Next

LEMMA DecisionIsOverstay ==
  ASSUME TypeOK, BookingInv, NEW i \in Instance, MarkOvertime(i) \/ ExtendBooking(i)
  PROVE  LedgerStep /\ ChargesKept
<1>1. PICK r \in Resv : r = job[i].cur /\ Exists(r)
  BY StageOfTick DEF MarkOvertime, ExtendBooking
<1>2. /\ \A x \in Resv \ {r} : res'[x] = res[x]
      /\ res'[r].status \in {res[r].status, "OVERTIME"}
      /\ FixedColumns /\ UNCHANGED payment
  BY <1>1 DEF MarkOvertime, ExtendBooking, TypeOK, Reservation, FixedColumns
<1>3. CASE res'[r].status = res[r].status
  <2>1. \A x \in Resv : EntryState(x)' = EntryState(x)
    BY <1>2, <1>3 DEF EntryState, Held
  <2> QED BY <1>2, <2>1, NothingToCustomers DEF ChargesKept
<1>4. CASE res'[r].status = "OVERTIME" /\ res[r].status # "OVERTIME"
  <2>1. Entries[r].state \in {"held", "closed"}
    BY <1>1, <1>4 DEF Entries, EntryState, Exists
  <2>2. \A x \in Resv : EntryState(x)' = IF x \in {r} THEN "overstayed" ELSE EntryState(x)
    BY <1>2, <1>4, StatesOfEntriesNext DEF EntryState, Held
  <2>3. Ledger!Moved({r}, "overstayed")
    BY <1>2, <2>2, EntriesMove
  <2>4. Paid' = Paid
    BY <1>2 DEF Paid
  <2>5. Ledger!Overstay(r)
    BY <2>1, <2>3, <2>4 DEF Ledger!Overstay
  <2> QED BY <1>2, <2>5 DEF LedgerStep, Ledger!Next, ChargesKept
<1> QED BY <1>2, <1>3, <1>4

LEMMA StepOfRequest ==
  ASSUME TypeOK, TypeOK', BookingInv, BookingInv', ChargeInv, NEW p \in Request,
         Booking(p) \/ Checkpoint(p) \/ Administration(p) \/ Abort(p)
  PROVE  LedgerStep /\ ChargesKept
<1>1. CASE UNCHANGED <<res, payment>>
  BY <1>1, RowsUntouched
<1>2. CASE CancelCommit(p)
  <2>1. {tx[p].resv} \in SUBSET Resv /\ Exists(tx[p].resv)
    BY <1>2, KindOfTx DEF CancelCommit, CancelTx, ChargeInv, CancellationsInFlight
  <2> QED BY <1>2, <2>1, CancelIsClose DEF CancelCommit
<1>3. CASE BlockCommit(p)
  <2>1. tx[p].rows \in SUBSET Resv /\ \A r \in tx[p].rows : Exists(r)
    BY <1>3, KindOfTx DEF BlockCommit, BlockTx, ChargeInv, CancellationsInFlight
  <2> QED BY <1>3, <2>1, CancelIsClose DEF BlockCommit
<1>4. \/ UNCHANGED <<res, payment>>
      \/ CreateCommit(p) \/ CancelCommit(p) \/ CheckInCommit(p)
      \/ CheckOutDeclined(p) \/ CheckOutPaid(p) \/ BlockCommit(p)
  BY DEF Booking, Checkpoint, Administration, Abort, CreateArrive, CreateRead, CreateBegin,
         CancelBegin, CheckInBegin, CheckOutBegin, BlockBegin, UpdateStatusRead,
         BulkUpdateStatusRead, RestrictRead, RestrictWrite
<1> QED BY <1>1, <1>2, <1>3, <1>4, CreateIsBook, CheckInIsNothing, DeclineIsNothing,
           PaymentIsSettle

LEMMA StepOfTick ==
  ASSUME TypeOK, BookingInv, BookingInv', NEW i \in Instance, Monitoring(i)
  PROVE  LedgerStep /\ ChargesKept
<1>1. CASE UNCHANGED <<res, payment>>
  BY <1>1, RowsUntouched
<1>2. ASSUME NEW r \in Resv, CancelNoShow(i, r)
      PROVE  LedgerStep /\ ChargesKept
  <2>1. CASE Exists(r)
    BY <1>2, <2>1, CancelIsClose DEF CancelNoShow
  <2>2. CASE ~Exists(r)
    BY <1>2, <2>2, RowsUntouched DEF CancelNoShow
  <2> QED BY <2>1, <2>2
<1>3. \/ UNCHANGED <<res, payment>>
      \/ \E r \in Resv : CancelNoShow(i, r)
      \/ MarkOvertime(i) \/ ExtendBooking(i)
  BY DEF Monitoring, MonitorStart, ListActive, ReadClock, ResolveGraceExpiry, MonitorDone,
         MonitorFail
<1> QED BY <1>1, <1>2, <1>3, DecisionIsOverstay

LEMMA StepOfLedger ==
  ASSUME TypeOK, TypeOK', BookingInv, BookingInv', ChargeInv, [Next]_vars
  PROVE  LedgerStep /\ ChargesKept
<1>1. ASSUME NEW u \in Leavers, RemoveSelf(u)
      PROVE  LedgerStep /\ ChargesKept
  BY <1>1, RemoveSelfIsForget, InputAssumption
<1>2. CASE Account
  BY <1>1, <1>2, RowsUntouched DEF Account, SavePaymentMethod, SetLotActive
<1>3. CASE Clock \/ UNCHANGED vars
  BY <1>3, RowsUntouched DEF Clock, vars
<1> QED BY <1>2, <1>3, StepOfRequest, StepOfTick DEF Next

-----------------------------------------------------------------------------

(* A charge that went through is never repeated, changed or turned into a decline   *)
(* (checkOut's upsert): the row's check-out code is used up with it.                *)
THEOREM NeverChargedAgain == Spec => ChargedOnce
<1>1. /\ TypeOK /\ TypeOK' /\ BookingInv /\ BookingInv' /\ ChargeInv /\ [Next]_vars
      => [\A r \in Resv :
            payment[r].status = "SUCCESSFUL" => payment'[r] = payment[r] \/ Gone(r)]_vars
  BY StepOfLedger DEF ChargesKept
<1> QED BY <1>1, TypeCorrect, BookingInvariant, ChargeInvariant, PTL DEF Spec, ChargedOnce

(* The reservation system implements the ledger: bookings take effect at one moment *)
(* and apart from each other, intervals are never rewritten, a stay is settled once, *)
(* and an entry that a stale tick finds overstayed is not held again by that.       *)
THEOREM LedgerImplemented == Spec => ImplementsLedger
<1>1. Init => Ledger!Init
  BY DEF Init, Ledger!Init, Entries, EntryState, Held, Paid, NoReservation, NoPayment
<1>2. /\ TypeOK /\ TypeOK' /\ BookingInv /\ BookingInv' /\ ChargeInv /\ [Next]_vars
      => [Ledger!Next]_Ledger!vars
  BY StepOfLedger DEF LedgerStep
<1> QED BY <1>1, <1>2, TypeCorrect, BookingInvariant, ChargeInvariant, PTL
        DEF Spec, ImplementsLedger, Ledger!Spec

=============================================================================
