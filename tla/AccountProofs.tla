---------------------------- MODULE AccountProofs ----------------------------
(***************************************************************************)
(* A deleted account leaves nothing behind and no booking without an       *)
(* owner, for every value of the constants.                                *)
(***************************************************************************)
EXTENDS LedgerProofs

-----------------------------------------------------------------------------
(* What a step can be: one of seven kinds *)

\* Nothing that a customer owns is written, and no slot becomes RESERVED.
Keeps ==
  /\ UNCHANGED <<res, qr, payment, challan, account>>
  /\ \A s \in Slot : slot'[s].status = "RESERVED" => slot[s].status = "RESERVED"

\* cancel, block and the sweep.
Cancels ==
  \E R \in SUBSET Resv :
    /\ CancelRows(R)
    /\ \A r \in R : Exists(r)
    /\ UNCHANGED <<payment, challan, account>>

Decides == \E i \in Instance : MarkOvertime(i) \/ ExtendBooking(i)

StepKind ==
  \/ Keeps
  \/ \E p \in Request :
       CreateCommit(p) \/ CheckInCommit(p) \/ CheckOutDeclined(p) \/ CheckOutPaid(p)
  \/ Cancels
  \/ \E u \in User : RemoveSelf(u)
  \/ Decides

LEMMA KindOfRequest ==
  ASSUME TypeOK, ChargeInv, NEW p \in Request,
         Booking(p) \/ Checkpoint(p) \/ Administration(p) \/ Abort(p)
  PROVE  StepKind
<1>1. CASE CancelCommit(p)
  <2>1. {tx[p].resv} \in SUBSET Resv /\ Exists(tx[p].resv)
    BY <1>1, KindOfTx DEF CancelCommit, CancelTx, ChargeInv, CancellationsInFlight
  <2> QED BY <1>1, <2>1 DEF CancelCommit, Cancels, StepKind
<1>2. CASE BlockCommit(p)
  <2>1. tx[p].rows \in SUBSET Resv /\ \A r \in tx[p].rows : Exists(r)
    BY <1>2, KindOfTx DEF BlockCommit, BlockTx, ChargeInv, CancellationsInFlight
  <2> QED BY <1>2, <2>1 DEF BlockCommit, Cancels, StepKind
<1>3. ASSUME NEW reason \in BOOLEAN, RestrictWrite(p, reason)
      PROVE  Keeps
  <2>1. tx[p].to \in {"AVAILABLE", "MAINTENANCE"}
    BY <1>3, KindOfTx DEF RestrictWrite, RestrictTx
  <2> QED BY <1>3, <2>1 DEF RestrictWrite, Keeps
<1>4. \/ Keeps
      \/ CreateCommit(p) \/ CancelCommit(p) \/ CheckInCommit(p)
      \/ CheckOutDeclined(p) \/ CheckOutPaid(p) \/ BlockCommit(p)
  BY <1>3
  DEF Booking, Checkpoint, Administration, Abort, CreateArrive, CreateRead, CreateBegin,
      CancelBegin, CheckInBegin, CheckOutBegin, BlockBegin, UpdateStatusRead, BulkUpdateStatusRead,
      RestrictRead, Keeps
<1> QED BY <1>1, <1>2, <1>4 DEF StepKind

LEMMA KindOfStep ==
  ASSUME TypeOK, ChargeInv, [Next]_vars
  PROVE  StepKind
<1>1. CASE Clock \/ UNCHANGED vars
  BY <1>1 DEF Clock, vars, Keeps, StepKind
<1>2. CASE Account
  BY <1>2, InputAssumption
  DEF Account, SavePaymentMethod, SetLotActive, Keeps, StepKind
<1>3. ASSUME NEW i \in Instance, Monitoring(i)
      PROVE  StepKind
  <2>1. ASSUME NEW r \in Resv, CancelNoShow(i, r)
        PROVE  Keeps \/ Cancels
    BY <2>1 DEF CancelNoShow, Keeps, Cancels
  <2>2. CASE MarkOvertime(i) \/ ExtendBooking(i)
    BY <2>2 DEF Decides, StepKind
  <2>3. \/ Keeps
        \/ \E r \in Resv : CancelNoShow(i, r)
        \/ MarkOvertime(i) \/ ExtendBooking(i)
    BY <1>3
    DEF Monitoring, MonitorStart, ListActive, ReadClock, ResolveGraceExpiry, MonitorDone,
        MonitorFail, Keeps
  <2> QED BY <2>1, <2>2, <2>3 DEF StepKind
<1> QED BY <1>1, <1>2, <1>3, KindOfRequest DEF Next

-----------------------------------------------------------------------------
(* What a step may do without harm: rows that are there keep their owners, and a    *)
(* row that is not, or goes, is not written to.                                     *)

RowKept(r) ==
  /\ Exists(r)' <=> Exists(r)
  /\ res'[r].user = res[r].user
  /\ ~Exists(r) => /\ qr'[r] = qr[r]
                   /\ payment'[r] = payment[r]
                   /\ \A c \in challan' : c.resv = r => c \in challan

LEMMA RowsKeepAccounts ==
  ASSUME AccountInv, UNCHANGED account, \A r \in Resv : RowKept(r)
  PROVE  AccountInv'
<1>1. OwnersExist'
  BY DEF AccountInv, OwnersExist, RowKept
<1>2. AbsentRowsAreBare'
  BY DEF AccountInv, AbsentRowsAreBare, RowKept, ChallansOf
<1> QED BY <1>1, <1>2 DEF AccountInv

(* The insert's foreign key: the owner of a new row is there. *)
LEMMA CreateKeepsAccounts ==
  ASSUME TypeOK, AccountInv, NEW p \in Request, CreateCommit(p)
  PROVE  AccountInv'
<1>1. PICK r \in Resv : /\ res' = [res EXCEPT ![r] = NewRow(tx[p])]
                        /\ qr' = [qr EXCEPT ![r].in = "ACTIVE"]
  BY DEF CreateCommit
<1>2. tx[p].user \in account /\ UNCHANGED <<payment, challan, account>>
  BY DEF CreateCommit, CustomerExists
<1>3. /\ res'[r].user \in account /\ Exists(r)'
      /\ \A x \in Resv \ {r} : res'[x] = res[x] /\ qr'[x] = qr[x]
  BY <1>1, <1>2 DEF NewRow, Exists, TypeOK
<1>4. OwnersExist'
  BY <1>2, <1>3 DEF AccountInv, OwnersExist, Exists
<1>5. AbsentRowsAreBare'
  BY <1>2, <1>3 DEF AccountInv, AbsentRowsAreBare, Exists, ChallansOf
<1> QED BY <1>4, <1>5 DEF AccountInv

(* The cascade takes everything that belongs to the account. *)
LEMMA RemoveSelfKeepsAccounts ==
  ASSUME TypeOK, AccountInv, NEW u \in User, RemoveSelf(u)
  PROVE  AccountInv'
<1>1. account' = account \ {u}
  BY DEF RemoveSelf
<1>2. \A r \in Resv :
        IF res[r].user = u
        THEN /\ res'[r].status = "DELETED"
             /\ qr'[r] = [in |-> "NONE", out |-> "NONE"] /\ payment'[r] = NoPayment
        ELSE res'[r] = res[r] /\ qr'[r] = qr[r] /\ payment'[r] = payment[r]
  BY DEF RemoveSelf, TypeOK, Reservation
<1>3. \A c \in challan' : c \in challan /\ (c.resv \in Resv => res[c.resv].user # u)
  BY DEF RemoveSelf
<1>4. OwnersExist'
  BY <1>1, <1>2 DEF AccountInv, OwnersExist, Exists
<1>5. AbsentRowsAreBare'
  <2> SUFFICES ASSUME NEW r \in Resv, ~Exists(r)'
               PROVE  /\ qr'[r] = [in |-> "NONE", out |-> "NONE"]
                      /\ payment'[r] = NoPayment
                      /\ \A c \in challan' : c.resv # r
    BY DEF AbsentRowsAreBare, ChallansOf
  <2>1. CASE res[r].user = u
    BY <1>2, <1>3, <2>1
  <2>2. CASE res[r].user # u
    <3>1. ~Exists(r) /\ qr'[r] = qr[r] /\ payment'[r] = payment[r]
      BY <1>2, <2>2 DEF Exists
    <3>2. \A c \in challan : c.resv # r
      BY <3>1 DEF AccountInv, AbsentRowsAreBare, ChallansOf
    <3> QED BY <1>3, <3>1, <3>2 DEF AccountInv, AbsentRowsAreBare
  <2> QED BY <2>1, <2>2
<1> QED BY <1>4, <1>5 DEF AccountInv

LEMMA ScanKeepsRows ==
  ASSUME TypeOK, BookingInv, ChargeInv, NEW p \in Request,
         CheckInCommit(p) \/ CheckOutDeclined(p) \/ CheckOutPaid(p)
  PROVE  UNCHANGED account /\ \A r \in Resv : RowKept(r)
<1>1. PICK r \in Resv : r = tx[p].resv /\ Exists(r)
  <2>1. CASE CheckInCommit(p)
    BY <2>1, KindOfTx DEF CheckInCommit, CheckInTx, BookingInv, ScansInFlight, Exists
  <2>2. CASE CheckOutDeclined(p) \/ CheckOutPaid(p)
    BY <2>2, RowOfCheckOut DEF CheckOutDeclined, CheckOutPaid, Exists
  <2> QED BY <2>1, <2>2
<1>2. UNCHANGED <<challan, account>>
  BY DEF CheckInCommit, CheckOutDeclined, CheckOutPaid
<1>3. \A x \in Resv \ {r} : res'[x] = res[x] /\ qr'[x] = qr[x] /\ payment'[x] = payment[x]
  BY <1>1 DEF CheckInCommit, CheckOutDeclined, CheckOutPaid, TypeOK
<1>4. /\ res'[r].status \in {res[r].status, "CHECKED_IN", "COMPLETED"}
      /\ res'[r].user = res[r].user
  BY <1>1 DEF CheckInCommit, CheckOutDeclined, CheckOutPaid, TypeOK, Reservation
<1>5. Exists(r)'
  BY <1>1, <1>4 DEF Exists
<1>6. RowKept(r)
  BY <1>1, <1>4, <1>5 DEF RowKept
<1>7. \A x \in Resv \ {r} : RowKept(x)
  BY <1>2, <1>3 DEF RowKept, Exists
<1> QED BY <1>2, <1>6, <1>7

LEMMA CancelKeepsRows ==
  ASSUME TypeOK, Cancels
  PROVE  UNCHANGED account /\ \A r \in Resv : RowKept(r)
<1>1. PICK R \in SUBSET Resv : /\ CancelRows(R)
                               /\ \A r \in R : Exists(r)
                               /\ UNCHANGED <<payment, challan, account>>
  BY DEF Cancels
<1>2. ASSUME NEW r \in Resv
      PROVE  RowKept(r)
  <2>1. CASE r \in R
    <3>1. res'[r].status = "CANCELLED" /\ res'[r].user = res[r].user
      BY <1>1, <2>1 DEF CancelRows, TypeOK, Reservation
    <3> QED BY <1>1, <2>1, <3>1 DEF RowKept, Exists
  <2>2. CASE r \notin R
    <3>1. res'[r] = res[r] /\ qr'[r] = qr[r]
      BY <1>1, <2>2 DEF CancelRows
    <3> QED BY <1>1, <3>1 DEF RowKept, Exists
  <2> QED BY <2>1, <2>2
<1> QED BY <1>1, <1>2

LEMMA DecisionKeepsRows ==
  ASSUME TypeOK, Decides
  PROVE  UNCHANGED account /\ \A r \in Resv : RowKept(r)
<1>1. PICK i \in Instance : MarkOvertime(i) \/ ExtendBooking(i)
  BY DEF Decides
<1>2. PICK r \in Resv : r = job[i].cur /\ Exists(r)
  BY <1>1, StageOfTick DEF MarkOvertime, ExtendBooking
<1>3. /\ \A x \in Resv \ {r} : res'[x] = res[x]
      /\ res'[r].status \in {res[r].status, "OVERTIME"} /\ res'[r].user = res[r].user
  BY <1>1, <1>2 DEF MarkOvertime, ExtendBooking, TypeOK, Reservation
<1>4. /\ UNCHANGED <<qr, payment, account>>
      /\ \A c \in challan' : c \in challan \/ c.resv = r
  BY <1>1, <1>2 DEF MarkOvertime, ExtendBooking, CycleChallan
<1>5. RowKept(r)
  BY <1>2, <1>3 DEF RowKept, Exists
<1>6. \A x \in Resv \ {r} : RowKept(x)
  BY <1>3, <1>4 DEF RowKept, Exists
<1> QED BY <1>4, <1>5, <1>6

-----------------------------------------------------------------------------

(* Every row that is there has its owner, and a row that is not there has no code,  *)
(* payment or challan.                                                              *)
THEOREM AccountInvariant == Spec => []AccountInv
<1>1. Init => AccountInv
  BY DEF Init, AccountInv, OwnersExist, AbsentRowsAreBare, Exists, NoReservation, ChallansOf
<1>2. TypeOK /\ BookingInv /\ ChargeInv /\ AccountInv /\ [Next]_vars => AccountInv'
  <2> SUFFICES ASSUME TypeOK, BookingInv, ChargeInv, AccountInv, [Next]_vars
               PROVE  AccountInv'
    OBVIOUS
  <2>1. CASE Keeps
    BY <2>1 DEF Keeps, AccountInv, OwnersExist, AbsentRowsAreBare, Exists, ChallansOf
  <2>2. CASE Cancels
    BY <2>2, CancelKeepsRows, RowsKeepAccounts
  <2>3. CASE Decides
    BY <2>3, DecisionKeepsRows, RowsKeepAccounts
  <2>4. ASSUME NEW p \in Request,
               CheckInCommit(p) \/ CheckOutDeclined(p) \/ CheckOutPaid(p)
        PROVE  AccountInv'
    BY <2>4, ScanKeepsRows, RowsKeepAccounts
  <2>5. StepKind
    BY KindOfStep
  <2> QED BY <2>1, <2>2, <2>3, <2>4, <2>5, CreateKeepsAccounts, RemoveSelfKeepsAccounts
          DEF StepKind
<1> QED BY <1>1, <1>2, TypeCorrect, BookingInvariant, ChargeInvariant, PTL DEF Spec

(* No reservation that claims a slot belongs to an account that is gone: a booking  *)
(* in flight while its customer deletes the account fails on its foreign key, and   *)
(* the cascade misses none.                                                         *)
THEOREM BookingsHaveOwners == Spec => []NoOrphans
<1>1. AccountInv => NoOrphans
  BY DEF AccountInv, OwnersExist, NoOrphans, Claims, Exists
<1> QED BY <1>1, AccountInvariant, PTL

(* A deleted account leaves no code, payment or challan behind: scans in flight     *)
(* make the cascade wait, and a tick's insert for a missing row fails.              *)
THEOREM DeletionIsComplete == Spec => []NothingLeftBehind
<1>1. AccountInv => NothingLeftBehind
  BY DEF AccountInv, OwnersExist, AbsentRowsAreBare, NothingLeftBehind, Exists
<1> QED BY <1>1, AccountInvariant, PTL

=============================================================================
