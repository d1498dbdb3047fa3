---------------------------- MODULE ParkingProofs ----------------------------
(***************************************************************************)
(* Type correctness of the reservation system, for every value of the      *)
(* constants: any number of customers, slots, requests and instances, any  *)
(* configuration of the windows and buffers.                               *)
(***************************************************************************)
EXTENDS Parking, TLAPS

(* Writing one column of a row keeps its table well-typed. *)
LEMMA SetSlotStatus ==
  ASSUME NEW table \in [Slot -> ParkingSlot], NEW s, NEW v \in SlotStatus
  PROVE  [table EXCEPT ![s].status = v] \in [Slot -> ParkingSlot]
<1> DEFINE new == [table EXCEPT ![s].status = v]
<1>1. ASSUME NEW x \in Slot
      PROVE  new[x] \in ParkingSlot
  <2>1. CASE x = s
    BY <2>1 DEF ParkingSlot
  <2>2. CASE x # s
    BY <2>2
  <2> QED BY <2>1, <2>2
<1> QED BY <1>1

LEMMA SetReservationStatus ==
  ASSUME NEW table \in [Resv -> Reservation], NEW r, NEW v \in ReservationStatus
  PROVE  [table EXCEPT ![r].status = v] \in [Resv -> Reservation]
<1> DEFINE new == [table EXCEPT ![r].status = v]
<1>1. ASSUME NEW x \in Resv
      PROVE  new[x] \in Reservation
  <2>1. CASE x = r
    BY <2>1 DEF Reservation
  <2>2. CASE x # r
    BY <2>2
  <2> QED BY <2>1, <2>2
<1> QED BY <1>1

LEMMA SetReservationEnd ==
  ASSUME NEW table \in [Resv -> Reservation], NEW r, NEW v \in Nat
  PROVE  [table EXCEPT ![r].end = v] \in [Resv -> Reservation]
<1> DEFINE new == [table EXCEPT ![r].end = v]
<1>1. ASSUME NEW x \in Resv
      PROVE  new[x] \in Reservation
  <2>1. CASE x = r
    BY <2>1 DEF Reservation
  <2>2. CASE x # r
    BY <2>2
  <2> QED BY <2>1, <2>2
<1> QED BY <1>1

(* A request that ends leaves its handler idle. *)
LEMMA EndType ==
  ASSUME TypeOK, NEW p \in Request, End(p)
  PROVE  tx' \in [Request -> Transaction]
BY DEF End, TypeOK, Transaction, IdleTx, Idle

(* A request that begins keeps a record of its kind. *)
LEMMA BeginType ==
  ASSUME TypeOK, NEW p \in Request, NEW t \in Transaction, Begin(p, t)
  PROVE  tx' \in [Request -> Transaction]
BY DEF Begin, TypeOK

(* The record of a request in flight, read back by its kind. *)
LEMMA KindOfTx ==
  ASSUME TypeOK, NEW p \in Request
  PROVE  /\ tx[p].op \in {"arrived", "waiting", "create"} => tx[p] \in CreateTx
         /\ tx[p].op = "cancel" => tx[p] \in CancelTx
         /\ tx[p].op = "checkIn" => tx[p] \in CheckInTx
         /\ tx[p].op = "checkOut" => tx[p] \in CheckOutTx
         /\ tx[p].op = "block" => tx[p] \in BlockTx
         /\ tx[p].op = "restrict" => tx[p] \in RestrictTx
BY DEF TypeOK, Transaction, IdleTx, CreateTx, CancelTx, CheckInTx, CheckOutTx, BlockTx,
       RestrictTx

(* The progress of a tick, read back by its stage. *)
LEMMA StageOfTick ==
  ASSUME TypeOK, NEW i \in Instance
  PROVE  /\ job[i].pc = "noShows" => job[i].todo \in SUBSET Resv
         /\ job[i].pc \in {"listed", "active", "resolve"} =>
              job[i].todo \in SUBSET Resv /\ job[i].ends \in [Resv -> Nat]
         /\ job[i].pc = "resolve" => job[i].cur \in Resv /\ job[i].queued \in BOOLEAN
BY DEF TypeOK, Tick

(* Cancelling rows keeps the three tables it writes well-typed. *)
LEMMA CancelRowsType ==
  ASSUME TypeOK, NEW R \in SUBSET Resv, CancelRows(R)
  PROVE  /\ res' \in [Resv -> Reservation]
         /\ slot' \in [Slot -> ParkingSlot]
         /\ qr' \in [Resv -> QrCode]
<1>1. res' \in [Resv -> Reservation]
  BY DEF CancelRows, TypeOK, Reservation, ReservationStatus
<1>2. slot' \in [Slot -> ParkingSlot]
  BY DEF CancelRows, TypeOK, ParkingSlot, SlotStatus
<1>3. qr' \in [Resv -> QrCode]
  BY DEF CancelRows, TypeOK, QrCode, QrCodeStatus
<1> QED BY <1>1, <1>2, <1>3

-----------------------------------------------------------------------------

LEMMA BookingTypes ==
  ASSUME TypeOK, NEW p \in Request, Booking(p)
  PROVE  TypeOK'
<1>1. ASSUME NEW u \in User, NEW s \in Slot, NEW start \in now..Horizon,
             NEW hours \in Durations, CreateArrive(p, u, s, start, hours)
      PROVE  TypeOK'
  <2>1. start \in Nat /\ hours \in Nat /\ now \in Nat
    BY ConfigAssumption, InputAssumption DEF TypeOK
  <2>2. [op |-> "arrived", user |-> u, slot |-> s,
         start |-> start, hours |-> hours, at |-> now] \in Transaction
    BY <2>1 DEF Transaction, CreateTx
  <2>3. tx' \in [Request -> Transaction]
    BY <1>1, <2>2, BeginType DEF CreateArrive
  <2> QED BY <1>1, <2>3 DEF CreateArrive, TypeOK
<1>2. CASE CreateCommit(p)
  <2>1. tx[p] \in CreateTx
    BY <1>2, KindOfTx DEF CreateCommit
  <2>2. PICK r \in Resv : /\ res' = [res EXCEPT ![r] = NewRow(tx[p])]
                          /\ qr' = [qr EXCEPT ![r].in = "ACTIVE"]
    BY <1>2 DEF CreateCommit
  <2>3. res' \in [Resv -> Reservation]
    BY <2>1, <2>2 DEF CreateTx, NewRow, TypeOK, Reservation, ReservationStatus
  <2>4. qr' \in [Resv -> QrCode]
    BY <2>2 DEF TypeOK, QrCode, QrCodeStatus
  <2>5. slot' \in [Slot -> ParkingSlot]
    BY <1>2, SetSlotStatus DEF CreateCommit, TypeOK, SlotStatus
  <2>6. tx' \in [Request -> Transaction]
    BY <1>2, EndType DEF CreateCommit
  <2> QED BY <1>2, <2>3, <2>4, <2>5, <2>6 DEF CreateCommit, TypeOK
<1>3. ASSUME NEW r \in Resv, CancelBegin(p, r)
      PROVE  TypeOK'
  <2>1. [op |-> "cancel", resv |-> r, at |-> now] \in Transaction
    BY DEF Transaction, CancelTx, TypeOK
  <2>2. tx' \in [Request -> Transaction]
    BY <1>3, <2>1, BeginType DEF CancelBegin
  <2> QED BY <1>3, <2>2 DEF CancelBegin, TypeOK
<1>4. CASE CancelCommit(p)
  <2>1. tx[p].resv \in Resv
    BY <1>4, KindOfTx DEF CancelCommit, CancelTx
  <2>2. CancelRows({tx[p].resv}) /\ End(p)
    BY <1>4 DEF CancelCommit
  <2> QED BY <1>4, <2>1, <2>2, CancelRowsType, EndType DEF CancelCommit, TypeOK
<1>5. CASE CreateRead(p) \/ CreateBegin(p)
  <2>1. tx[p] \in CreateTx
    BY <1>5, KindOfTx DEF CreateRead, CreateBegin
  <2>2. PICK op \in {"waiting", "create"} : tx' = [tx EXCEPT ![p].op = op]
    BY <1>5 DEF CreateRead, CreateBegin
  <2>3. [tx[p] EXCEPT !.op = op] \in CreateTx
    BY <2>1 DEF CreateTx
  <2>4. tx' \in [Request -> Transaction]
    BY <2>2, <2>3 DEF TypeOK, Transaction
  <2> QED BY <1>5, <2>4 DEF CreateRead, CreateBegin, TypeOK
<1> QED
  BY <1>1, <1>2, <1>3, <1>4, <1>5 DEF Booking

LEMMA CheckpointTypes ==
  ASSUME TypeOK, NEW p \in Request, Checkpoint(p)
  PROVE  TypeOK'
<1>1. ASSUME NEW r \in Resv, CheckInBegin(p, r)
      PROVE  TypeOK'
  <2>1. [op |-> "checkIn", resv |-> r, at |-> now] \in Transaction
    BY DEF Transaction, CheckInTx, TypeOK
  <2>2. tx' \in [Request -> Transaction]
    BY <1>1, <2>1, BeginType DEF CheckInBegin
  <2> QED BY <1>1, <2>2 DEF CheckInBegin, TypeOK
<1>2. CASE CheckInCommit(p)
  <2>1. tx[p].resv \in Resv
    BY <1>2, KindOfTx DEF CheckInCommit, CheckInTx
  <2>2. res' \in [Resv -> Reservation]
    BY <1>2, SetReservationStatus DEF CheckInCommit, TypeOK, ReservationStatus
  <2>3. qr' \in [Resv -> QrCode]
    BY <1>2, <2>1 DEF CheckInCommit, TypeOK, QrCode, QrCodeStatus
  <2>4. slot' \in [Slot -> ParkingSlot]
    BY <1>2, SetSlotStatus DEF CheckInCommit, TypeOK, SlotStatus
  <2>5. tx' \in [Request -> Transaction]
    BY <1>2, EndType DEF CheckInCommit
  <2> QED BY <1>2, <2>2, <2>3, <2>4, <2>5 DEF CheckInCommit, TypeOK
<1>3. ASSUME NEW r \in Resv, CheckOutBegin(p, r)
      PROVE  TypeOK'
  <2>1. ChallansOf(r) \in SUBSET Challan
    BY DEF ChallansOf, TypeOK
  <2>2. [op |-> "checkOut", resv |-> r, bill |-> ChallansOf(r),
         declined |-> card[res[r].user] # "accepted", at |-> now] \in Transaction
    BY <2>1 DEF Transaction, CheckOutTx, TypeOK
  <2>3. tx' \in [Request -> Transaction]
    BY <1>3, <2>2, BeginType DEF CheckOutBegin
  <2> QED BY <1>3, <2>3 DEF CheckOutBegin, TypeOK
<1>4. CASE CheckOutDeclined(p)
  <2>1. tx[p].resv \in Resv /\ tx[p].bill \in SUBSET Challan
    BY <1>4, KindOfTx DEF CheckOutDeclined, CheckOutTx
  <2>2. payment' \in [Resv -> Payment]
    BY <1>4, <2>1 DEF CheckOutDeclined, TypeOK, Payment
  <2>3. tx' \in [Request -> Transaction]
    BY <1>4, EndType DEF CheckOutDeclined
  <2> QED BY <1>4, <2>2, <2>3 DEF CheckOutDeclined, TypeOK
<1>5. CASE CheckOutPaid(p)
  <2>1. tx[p].resv \in Resv /\ tx[p].bill \in SUBSET Challan
    BY <1>5, KindOfTx DEF CheckOutPaid, CheckOutTx
  <2>2. payment' \in [Resv -> Payment]
    BY <1>5, <2>1 DEF CheckOutPaid, TypeOK, Payment
  <2>3. res' \in [Resv -> Reservation]
    BY <1>5, SetReservationStatus DEF CheckOutPaid, TypeOK, ReservationStatus
  <2>4. qr' \in [Resv -> QrCode]
    BY <1>5, <2>1 DEF CheckOutPaid, TypeOK, QrCode, QrCodeStatus
  <2>5. slot' \in [Slot -> ParkingSlot]
    BY <1>5, SetSlotStatus DEF CheckOutPaid, TypeOK, SlotStatus
  <2>6. tx' \in [Request -> Transaction]
    BY <1>5, EndType DEF CheckOutPaid
  <2> QED BY <1>5, <2>2, <2>3, <2>4, <2>5, <2>6 DEF CheckOutPaid, TypeOK
<1> QED
  BY <1>1, <1>2, <1>3, <1>4, <1>5 DEF Checkpoint

LEMMA AdministrationTypes ==
  ASSUME TypeOK, NEW p \in Request, Administration(p)
  PROVE  TypeOK'
<1>1. ASSUME NEW u \in Blockable, BlockBegin(p, u)
      PROVE  TypeOK'
  <2>1. [op |-> "block", user |-> u, at |-> now,
         rows |-> {r \in Resv : res[r].user = u /\ res[r].status = "CONFIRMED"}] \in Transaction
    BY InputAssumption DEF Transaction, BlockTx, TypeOK
  <2>2. tx' \in [Request -> Transaction]
    BY <1>1, <2>1, BeginType DEF BlockBegin
  <2> QED BY <1>1, <2>2 DEF BlockBegin, TypeOK
<1>2. CASE BlockCommit(p)
  <2>1. tx[p].rows \in SUBSET Resv
    BY <1>2, KindOfTx DEF BlockCommit, BlockTx
  <2> QED BY <1>2, <2>1, CancelRowsType, EndType DEF BlockCommit, TypeOK
<1>3. ASSUME NEW S \in SUBSET Restrictable, NEW to \in {"AVAILABLE", "MAINTENANCE"},
             RestrictRead(p, S, to)
      PROVE  TypeOK'
  <2>1. [op |-> "restrict", slots |-> S, to |-> to, at |-> now] \in Transaction
    BY InputAssumption DEF Transaction, RestrictTx, TypeOK
  <2>2. tx' \in [Request -> Transaction]
    BY <1>3, <2>1, BeginType DEF RestrictRead
  <2> QED BY <1>3, <2>2 DEF RestrictRead, TypeOK
<1>4. ASSUME NEW reason \in BOOLEAN, RestrictWrite(p, reason)
      PROVE  TypeOK'
  <2>1. tx[p].to \in SlotStatus
    BY <1>4, KindOfTx DEF RestrictWrite, RestrictTx, SlotStatus
  <2>2. slot' \in [Slot -> ParkingSlot]
    <3> DEFINE given == reason /\ tx[p].to = "MAINTENANCE"
    <3>1. slot' = [s \in Slot |-> IF s \in tx[p].slots
                                    THEN [status |-> tx[p].to, reason |-> given] ELSE slot[s]]
      BY <1>4 DEF RestrictWrite
    <3>2. given \in BOOLEAN
      OBVIOUS
    <3> HIDE DEF given
    <3> QED BY <2>1, <3>1, <3>2 DEF TypeOK, ParkingSlot
  <2>3. tx' \in [Request -> Transaction]
    BY <1>4, EndType DEF RestrictWrite
  <2> QED BY <1>4, <2>2, <2>3 DEF RestrictWrite, TypeOK
<1>5. ASSUME NEW s \in Restrictable, NEW to \in {"AVAILABLE", "MAINTENANCE"},
             UpdateStatusRead(p, s, to)
      PROVE  TypeOK'
  BY <1>3, <1>5 DEF UpdateStatusRead
<1>6. ASSUME NEW S \in SUBSET Restrictable, NEW to \in {"AVAILABLE", "MAINTENANCE"},
             BulkUpdateStatusRead(p, S, to)
      PROVE  TypeOK'
  BY <1>3, <1>6 DEF BulkUpdateStatusRead
<1> QED
  BY <1>1, <1>2, <1>4, <1>5, <1>6 DEF Administration

LEMMA AccountTypes ==
  ASSUME TypeOK, Account
  PROVE  TypeOK'
<1>1. ASSUME NEW u \in Leavers, RemoveSelf(u)
      PROVE  TypeOK'
  <2> DEFINE Own == {r \in Resv : res[r].user = u}
  <2>1. res' \in [Resv -> Reservation]
    <3>1. \A r \in Resv : [res[r] EXCEPT !.status = "DELETED"] \in Reservation
      BY DEF TypeOK, Reservation, ReservationStatus
    <3>2. res' = [r \in Resv |-> IF r \in Own THEN [res[r] EXCEPT !.status = "DELETED"]
                                              ELSE res[r]]
      BY <1>1 DEF RemoveSelf
    <3> QED BY <3>1, <3>2 DEF TypeOK
  <2>2. qr' \in [Resv -> QrCode]
    BY <1>1 DEF RemoveSelf, TypeOK, QrCode, QrCodeStatus
  <2>3. payment' \in [Resv -> Payment]
    BY <1>1 DEF RemoveSelf, TypeOK, Payment, NoPayment
  <2>4. challan' \in SUBSET Challan /\ account' \in SUBSET User
    BY <1>1 DEF RemoveSelf, TypeOK
  <2>5. card' \in [User -> PaymentMethod]
    BY <1>1 DEF RemoveSelf, TypeOK, PaymentMethod
  <2> QED BY <1>1, <2>1, <2>2, <2>3, <2>4, <2>5 DEF RemoveSelf, TypeOK
<1>2. ASSUME NEW u \in User, NEW c \in SavedCards, SavePaymentMethod(u, c)
      PROVE  TypeOK'
  BY <1>2, InputAssumption DEF SavePaymentMethod, TypeOK, PaymentMethod
<1>3. ASSUME NEW b \in LotSwitch, SetLotActive(b)
      PROVE  TypeOK'
  BY <1>3, InputAssumption DEF SetLotActive, TypeOK
<1> QED
  BY <1>1, <1>2, <1>3 DEF Account

(* The end times a tick keeps are those of rows. *)
LEMMA EndsOfType ==
  ASSUME NEW R \in SUBSET Resv, NEW ends \in [Resv -> Nat]
  PROVE  EndsOf(R, ends) \in [Resv -> Nat]
BY DEF EndsOf

LEMMA MonitoringTypes ==
  ASSUME TypeOK, NEW i \in Instance, Monitoring(i)
  PROVE  TypeOK'
<1>0. NotRunning \in Tick
  BY DEF NotRunning, Tick
<1>1. CASE MonitorStart(i)
  <2>1. [pc |-> "noShows", todo |-> NoShows] \in Tick
    BY DEF Tick, NoShows
  <2> QED BY <1>1, <2>1 DEF MonitorStart, TypeOK
<1>2. ASSUME NEW r \in Resv, CancelNoShow(i, r)
      PROVE  TypeOK'
  <2>1. CASE Exists(r)
    <3>1. [pc |-> "noShows", todo |-> job[i].todo \ {r}] \in Tick
      BY <1>2, StageOfTick DEF CancelNoShow, Tick
    <3>2. CancelRows({r})
      BY <1>2, <2>1 DEF CancelNoShow
    <3> QED BY <1>2, <2>1, <3>1, <3>2, CancelRowsType DEF CancelNoShow, TypeOK
  <2>2. CASE ~Exists(r)
    BY <1>0, <1>2, <2>2 DEF CancelNoShow, TypeOK
  <2> QED BY <2>1, <2>2
<1>3. CASE ListActive(i)
  <2> DEFINE active == {r \in Resv : res[r].status = "CHECKED_IN"}
  <2>1. EndsOf(active, [r \in Resv |-> res[r].end]) \in [Resv -> Nat]
    BY EndsOfType DEF TypeOK, Reservation
  <2>2. [pc |-> "listed", todo |-> active,
         ends |-> EndsOf(active, [r \in Resv |-> res[r].end])] \in Tick
    BY <2>1 DEF Tick
  <2> QED BY <1>3, <2>2 DEF ListActive, TypeOK
<1>4. ASSUME NEW r \in Resv, ResolveGraceExpiry(i, r)
      PROVE  TypeOK'
  <2> DEFINE queued == \E q \in Resv : /\ res[q].status = "CONFIRMED"
                                       /\ res[q].slot = res[r].slot
                                       /\ res[q].start > job[i].ends[r]
  <2>1. [pc |-> "resolve", todo |-> job[i].todo \ {r}, ends |-> job[i].ends, cur |-> r,
         queued |-> queued] \in Tick
    <3>1. job[i].todo \in SUBSET Resv /\ job[i].ends \in [Resv -> Nat]
      BY <1>4, StageOfTick DEF ResolveGraceExpiry
    <3>2. queued \in BOOLEAN
      OBVIOUS
    <3> HIDE DEF queued
    <3> QED BY <3>1, <3>2 DEF Tick
  <2> QED BY <1>4, <2>1 DEF ResolveGraceExpiry, TypeOK
<1>5. ASSUME NextRow(i), job[i].pc = "resolve"
      PROVE  job' \in [Instance -> Tick]
  <2>1. [pc |-> "active", todo |-> job[i].todo, ends |-> job[i].ends] \in Tick
    BY <1>5, StageOfTick DEF Tick
  <2> QED BY <1>5, <2>1 DEF NextRow, TypeOK
<1>6. ASSUME job[i].pc = "resolve", NEW type \in ChallanType
      PROVE  CycleChallan(i, type) \in Challan
  BY <1>6, StageOfTick DEF CycleChallan, Challan
<1>7. CASE MarkOvertime(i)
  <2>1. job' \in [Instance -> Tick]
    BY <1>5, <1>7 DEF MarkOvertime
  <2>2. challan' \in SUBSET Challan
    BY <1>6, <1>7 DEF MarkOvertime, TypeOK, ChallanType
  <2>3. res' \in [Resv -> Reservation]
    BY <1>7, SetReservationStatus DEF MarkOvertime, TypeOK, ReservationStatus
  <2> QED BY <1>7, <2>1, <2>2, <2>3 DEF MarkOvertime, TypeOK
<1>8. CASE ExtendBooking(i)
  <2>1. job' \in [Instance -> Tick]
    BY <1>5, <1>8 DEF ExtendBooking
  <2>2. challan' \in SUBSET Challan
    BY <1>6, <1>8 DEF ExtendBooking, TypeOK, ChallanType
  <2>3. ExtendedEnd(i) \in Nat
    BY <1>8, StageOfTick, ConfigAssumption DEF ExtendBooking, ExtendedEnd
  <2>4. res' \in [Resv -> Reservation]
    BY <1>8, <2>3, SetReservationEnd DEF ExtendBooking, TypeOK
  <2> QED BY <1>8, <2>1, <2>2, <2>4 DEF ExtendBooking, TypeOK
<1>9. CASE MonitorDone(i) \/ MonitorFail(i)
  BY <1>0, <1>9 DEF MonitorDone, MonitorFail, TypeOK
<1>10. CASE ReadClock(i)
  <2>1. job[i].todo \in SUBSET Resv /\ job[i].ends \in [Resv -> Nat]
    BY <1>10, StageOfTick DEF ReadClock
  <2>2. GraceOver(i) \in SUBSET Resv
    BY <2>1 DEF GraceOver
  <2>3. [pc |-> "active", todo |-> GraceOver(i),
         ends |-> EndsOf(GraceOver(i), job[i].ends)] \in Tick
    BY <2>1, <2>2, EndsOfType DEF Tick
  <2> QED BY <1>10, <2>3 DEF ReadClock, TypeOK
<1> QED
  BY <1>1, <1>2, <1>3, <1>4, <1>7, <1>8, <1>9, <1>10 DEF Monitoring

(* Every table keeps its columns and every handler and tick the record of its     *)
(* stage, whatever requests, ticks, failures and hours are interleaved.            *)
THEOREM TypeCorrect == Spec => []TypeOK
<1>1. Init => TypeOK
  BY DEF Init, TypeOK, NoReservation, Reservation, ReservationStatus, QrCode, QrCodeStatus,
         ParkingSlot, SlotStatus, Payment, NoPayment, PaymentMethod, Transaction, IdleTx,
         Idle, Tick, NotRunning
<1>2. TypeOK /\ [Next]_vars => TypeOK'
  <2> SUFFICES ASSUME TypeOK, [Next]_vars
               PROVE  TypeOK'
    OBVIOUS
  <2>1. ASSUME NEW p \in Request, Abort(p)
        PROVE  TypeOK'
    BY <2>1, EndType DEF Abort, TypeOK
  <2>2. CASE Clock
    BY <2>2 DEF Clock, TypeOK
  <2>3. CASE UNCHANGED vars
    BY <2>3 DEF vars, TypeOK
  <2> QED
    BY <2>1, <2>2, <2>3, BookingTypes, CheckpointTypes, AdministrationTypes, AccountTypes,
       MonitoringTypes DEF Next
<1> QED
  BY <1>1, <1>2, PTL DEF Spec

=============================================================================
