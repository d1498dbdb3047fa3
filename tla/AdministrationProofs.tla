------------------------- MODULE AdministrationProofs -------------------------
(***************************************************************************)
(* The tables that staff administer stay whole under overlapping requests, *)
(* for every value of the constants.  Every lemma about a handler shows    *)
(* the same three things of its step: types, the inductive invariant, and  *)
(* what the step may do to a customer's account.                           *)
(***************************************************************************)
EXTENDS Administration, TLAPS

CustomersStay ==
  \A x \in Account :
    user[x].role = "CUSTOMER" /\ user'[x].role # "CUSTOMER" =>
      /\ user'[x].role = "DELETED"
      /\ req' = req
      /\ \E t \in token : t.sub = x

StepIsSound == TypeOK' /\ AdminInv' /\ CustomersStay

-----------------------------------------------------------------------------
(* Types *)

\* What a handler keeps, read back by its operation.
LEMMA KindOfWork ==
  ASSUME TypeOK, NEW p \in Request
  PROVE  /\ req[p].op = "login" => req[p].token \in Token
         /\ req[p].op = "register" => req[p].email \in Email
         /\ req[p].op = "createStaff" => req[p].email \in Email /\ req[p].role \in Staff
         /\ req[p].op = "updateProfile" => req[p].target \in Account /\ req[p].email \in Email
         /\ req[p].op = "updateRole" => req[p].target \in Account /\ req[p].role \in Staff
         /\ req[p].op = "removeManager" => req[p].target \in Account
         /\ req[p].op = "upload" => req[p].by \in Account
BY DEF TypeOK, Work

LEMMA KindOfLotWork ==
  ASSUME TypeOK, NEW p \in Request
  PROVE  /\ req[p].op = "createLot" =>
              /\ req[p].name \in LotName /\ req[p].place \in Place
              /\ req[p].manager \in Account /\ req[p].plan \in Plans
         /\ req[p].op = "createFloor" => req[p].lot \in Lot /\ req[p].number \in FloorNumber
         /\ req[p].op = "updateFloor" =>
              /\ req[p].floor \in Floor /\ req[p].number \in FloorNumber \cup {None}
              /\ req[p].resizing \in BOOLEAN
         /\ req[p].op = "removeFloor" => req[p].floor \in Floor
         /\ req[p].op = "updateLot" => req[p].lot \in Lot /\ req[p].edit \in LotEdit
         /\ req[p].op = "removeLot" => req[p].lot \in Lot
BY DEF TypeOK, Work

LEMMA EndType ==
  ASSUME TypeOK, NEW p \in Request, End(p)
  PROVE  /\ req' \in [Request -> Work] /\ UNCHANGED ops
         /\ \A q \in Request : req'[q] \in {req[q], Idle}
BY DEF End, TypeOK, Work, Idle

LEMMA GridType ==
  ASSUME NEW r, NEW c, WithinLimits(r, c)
  PROVE  Grid(r, c) \in SUBSET (Dim \X Dim) /\ r \in Nat /\ c \in Nat
BY AdminAssumption DEF WithinLimits, Grid, Dim

-----------------------------------------------------------------------------
(* Handlers that begin: only what they have checked is new *)

LEMMA StartIsSound ==
  ASSUME TypeOK, AdminInv, NEW p \in Request, NEW w \in Work, CheckedBefore(w),
         req' = [req EXCEPT ![p] = w], ops' \in 0..MaxOps,
         UNCHANGED <<user, token, lot, floor, slots, booked, doc>>
  PROVE  StepIsSound
<1>1. TypeOK'
  BY DEF TypeOK
<1>2. ChecksStillHold'
  BY DEF AdminInv, ChecksStillHold, CheckedBefore, Rightful, TypeOK
<1>3. KeysUnique' /\ ReferencesResolve'
  BY DEF AdminInv, KeysUnique, EmailsUnique, NumbersUnique, ReferencesResolve, ManagersExist,
         UploadersExist, FloorsHaveLots, SlotsHaveFloors, BookedSlotsExist, LiveUser, LiveLot,
         LiveFloor
<1>4. SlotsFormGrid' /\ StaffTokensAreStaff' /\ LayoutsWithinLimits'
  BY DEF AdminInv, SlotsFormGrid, StaffTokensAreStaff, LayoutsWithinLimits, LiveFloor, Rightful
<1>5. CustomersStay
  BY DEF CustomersStay
<1> QED BY <1>1, <1>2, <1>3, <1>4, <1>5 DEF StepIsSound, AdminInv

LEMMA BeginIsSound ==
  ASSUME TypeOK, AdminInv, NEW p \in Request, NEW w \in Work, CheckedBefore(w), Begin(p, w),
         UNCHANGED <<user, token, lot, floor, slots, booked, doc>>
  PROVE  StepIsSound
<1>1. req' = [req EXCEPT ![p] = w] /\ ops' \in 0..MaxOps
  BY AdminAssumption DEF Begin, TypeOK
<1> QED BY <1>1, StartIsSound

LEMMA NothingIsSound == TypeOK /\ AdminInv /\ UNCHANGED vars => StepIsSound
<1> SUFFICES ASSUME TypeOK, AdminInv, UNCHANGED vars
             PROVE  StepIsSound
  OBVIOUS
<1> USE DEF vars
<1>1. TypeOK'
  BY DEF TypeOK
<1>2. ChecksStillHold'
  BY DEF AdminInv, ChecksStillHold, CheckedBefore, Rightful
<1>3. KeysUnique' /\ ReferencesResolve'
  BY DEF AdminInv, KeysUnique, EmailsUnique, NumbersUnique, ReferencesResolve, ManagersExist,
         UploadersExist, FloorsHaveLots, SlotsHaveFloors, BookedSlotsExist, LiveUser, LiveLot,
         LiveFloor
<1>4. SlotsFormGrid' /\ StaffTokensAreStaff' /\ LayoutsWithinLimits'
  BY DEF AdminInv, SlotsFormGrid, StaffTokensAreStaff, LayoutsWithinLimits, LiveFloor, Rightful
<1>5. CustomersStay
  BY DEF CustomersStay
<1> QED BY <1>1, <1>2, <1>3, <1>4, <1>5 DEF StepIsSound, AdminInv

LEMMA FailIsSound ==
  ASSUME TypeOK, AdminInv, NEW p \in Request, Fail(p)
  PROVE  StepIsSound
<1>1. Idle \in Work /\ CheckedBefore(Idle)
  BY DEF Work, Idle, CheckedBefore
<1>2. /\ req' = [req EXCEPT ![p] = Idle] /\ ops' \in 0..MaxOps
      /\ UNCHANGED <<user, token, lot, floor, slots, booked, doc>>
  BY DEF Fail, End, TypeOK
<1> QED BY <1>1, <1>2, StartIsSound

LEMMA CreateLotBeginIsSound ==
  ASSUME TypeOK, AdminInv, NEW p \in Request, NEW t \in token,
         NEW name \in LotName, NEW place \in Place, NEW m \in Account \cup {None},
         NEW plan \in Plans, CreateLotBegin(p, t, name, place, m, plan)
  PROVE  StepIsSound
<1>0. t \in Token /\ t.sub \in Account
  BY DEF TypeOK, Token
<1> DEFINE w == [op |-> "createLot", name |-> name, place |-> place, plan |-> plan,
                 manager |-> IF m = None THEN t.sub ELSE m]
<1>1. w \in Work
  BY <1>0 DEF Work
<1>2. CheckedBefore(w)
  <2>1. \A a \in plan : a.rows \in Dim /\ a.cols \in Dim
    BY AdminInputs DEF FloorPlan
  <2> QED BY <2>1 DEF CreateLotBegin, CheckedBefore, WithinLimits
<1>3. Begin(p, w) /\ UNCHANGED <<user, token, lot, floor, slots, booked, doc>>
  BY DEF CreateLotBegin
<1> HIDE DEF w
<1> QED BY <1>1, <1>2, <1>3, BeginIsSound

LEMMA LotBeginIsSound ==
  ASSUME TypeOK, AdminInv, NEW p \in Request, NEW t \in token, NEW l \in Lot,
         \/ \E n \in FloorNumber, r, c \in Dim : CreateFloorBegin(p, t, l, n, r, c)
         \/ \E e \in LotEdits : UpdateLotBegin(p, t, l, e)
         \/ RemoveLotBegin(p, t, l)
  PROVE  StepIsSound
<1>1. ASSUME NEW n \in FloorNumber, NEW r \in Dim, NEW c \in Dim, CreateFloorBegin(p, t, l, n, r, c)
      PROVE  StepIsSound
  <2> DEFINE w == [op |-> "createFloor", lot |-> l, number |-> n, rows |-> r, cols |-> c]
  <2>1. w \in Work
    BY DEF Work
  <2>2. CheckedBefore(w)
    BY <1>1 DEF CreateFloorBegin, CheckedBefore, WithinLimits
  <2>3. Begin(p, w) /\ UNCHANGED <<user, token, lot, floor, slots, booked, doc>>
    BY <1>1 DEF CreateFloorBegin
  <2> HIDE DEF w
  <2> QED BY <2>1, <2>2, <2>3, BeginIsSound
<1>2. ASSUME NEW e \in LotEdits, UpdateLotBegin(p, t, l, e)
      PROVE  StepIsSound
  <2> DEFINE w == [op |-> "updateLot", lot |-> l,
                   edit |-> IF t.role = "MANAGER" THEN [e EXCEPT !.manager = None] ELSE e]
  <2>0. w.edit \in LotEdit
    BY AdminInputs DEF LotEdit
  <2>1. w \in Work
    BY <2>0 DEF Work
  <2>2. CheckedBefore(w)
    BY DEF CheckedBefore
  <2>3. Begin(p, w) /\ UNCHANGED <<user, token, lot, floor, slots, booked, doc>>
    BY <1>2 DEF UpdateLotBegin
  <2> HIDE DEF w
  <2> QED BY <2>1, <2>2, <2>3, BeginIsSound
<1>3. CASE RemoveLotBegin(p, t, l)
  <2> DEFINE w == [op |-> "removeLot", lot |-> l]
  <2>1. w \in Work /\ CheckedBefore(w)
    BY DEF Work, CheckedBefore
  <2>3. Begin(p, w) /\ UNCHANGED <<user, token, lot, floor, slots, booked, doc>>
    BY <1>3 DEF RemoveLotBegin
  <2> HIDE DEF w
  <2> QED BY <2>1, <2>3, BeginIsSound
<1> QED BY <1>1, <1>2, <1>3

LEMMA FloorBeginIsSound ==
  ASSUME TypeOK, AdminInv, NEW p \in Request, NEW t \in token, NEW f \in Floor,
         \/ \E n \in FloorNumber \cup {None}, r, c \in Dim \cup {None}, priced \in BOOLEAN :
              UpdateFloorBegin(p, t, f, n, r, c, priced)
         \/ RemoveFloorBegin(p, t, f)
  PROVE  StepIsSound
<1>1. ASSUME NEW n \in FloorNumber \cup {None}, NEW r \in Dim \cup {None},
             NEW c \in Dim \cup {None}, NEW priced \in BOOLEAN,
             UpdateFloorBegin(p, t, f, n, r, c, priced)
      PROVE  StepIsSound
  <2> DEFINE rows == IF r = None THEN floor[f].rows ELSE r
             cols == IF c = None THEN floor[f].cols ELSE c
             resizing == rows # floor[f].rows \/ cols # floor[f].cols
             w == [op |-> "updateFloor", floor |-> f, number |-> n, rows |-> rows,
                   cols |-> cols, resizing |-> resizing, priced |-> priced]
  <2>1. /\ LiveFloor(f) /\ (resizing => rows * cols <= MaxSlots)
        /\ Begin(p, w) /\ UNCHANGED <<user, token, lot, floor, slots, booked, doc>>
    BY <1>1 DEF UpdateFloorBegin
  <2>2. WithinLimits(floor[f].rows, floor[f].cols)
    BY <2>1 DEF AdminInv, LayoutsWithinLimits
  <2>3. WithinLimits(rows, cols)
    BY <2>1, <2>2 DEF WithinLimits
  <2>4. rows \in Nat /\ cols \in Nat /\ resizing \in BOOLEAN
    BY <2>3, GridType
  <2> HIDE DEF rows, cols, resizing
  <2>5. w \in Work
    BY <2>4 DEF Work
  <2>6. CheckedBefore(w)
    BY <2>3 DEF CheckedBefore
  <2> HIDE DEF w
  <2> QED BY <2>1, <2>5, <2>6, BeginIsSound
<1>2. CASE RemoveFloorBegin(p, t, f)
  <2> DEFINE w == [op |-> "removeFloor", floor |-> f]
  <2>1. w \in Work /\ CheckedBefore(w)
    BY DEF Work, CheckedBefore
  <2>3. Begin(p, w) /\ UNCHANGED <<user, token, lot, floor, slots, booked, doc>>
    BY <1>2 DEF RemoveFloorBegin
  <2> HIDE DEF w
  <2> QED BY <2>1, <2>3, BeginIsSound
<1> QED BY <1>1, <1>2

LEMMA LoginBeginIsSound ==
  ASSUME TypeOK, AdminInv, NEW p \in Request, NEW x \in Account, LoginBegin(p, x)
  PROVE  StepIsSound
<1> DEFINE w == [op |-> "login", token |-> [sub |-> x, role |-> user[x].role]]
<1>1. user[x].role \in Role
  BY DEF LoginBegin, LiveUser, TypeOK, User
<1>2. w \in Work
  BY <1>1 DEF Work, Token
<1>3. CheckedBefore(w)
  BY <1>1 DEF CheckedBefore, Rightful, Role
<1>4. /\ req' = [req EXCEPT ![p] = w] /\ ops' \in 0..MaxOps
      /\ UNCHANGED <<user, token, lot, floor, slots, booked, doc>>
  BY DEF LoginBegin, TypeOK
<1> HIDE DEF w
<1> QED BY <1>2, <1>3, <1>4, StartIsSound

LEMMA RegisterBeginIsSound ==
  ASSUME TypeOK, AdminInv, NEW p \in Request, NEW e \in Email, RegisterBegin(p, e)
  PROVE  StepIsSound
<1>1. [op |-> "register", email |-> e] \in Work
  BY DEF Work
<1>2. CheckedBefore([op |-> "register", email |-> e])
  BY DEF CheckedBefore
<1> QED BY <1>1, <1>2, BeginIsSound DEF RegisterBegin

LEMMA AccountBeginIsSound ==
  ASSUME TypeOK, AdminInv, NEW p \in Request, NEW t \in token, NEW x \in Account,
         \/ \E e \in Email : \/ \E role \in Staff : CreateStaffBegin(p, t, e, role)
                             \/ UpdateProfileBegin(p, t, e)
                             \/ AdminUpdateProfileBegin(p, t, x, e)
         \/ \E role \in Staff : UpdateRoleBegin(p, t, x, role)
         \/ RemoveManagerBegin(p, t, x)
         \/ UploadBegin(p, t)
  PROVE  StepIsSound
<1>0. t \in Token /\ t.sub \in Account
  BY DEF TypeOK, Token
<1>1. ASSUME NEW w \in Work, w.op \in {"createStaff", "updateProfile", "upload"},
             Begin(p, w), UNCHANGED <<user, token, lot, floor, slots, booked, doc>>
      PROVE  StepIsSound
  BY <1>1, BeginIsSound DEF CheckedBefore
<1>2. ASSUME NEW e \in Email, NEW role \in Staff, CreateStaffBegin(p, t, e, role)
      PROVE  StepIsSound
  <2>1. [op |-> "createStaff", email |-> e, role |-> role] \in Work
    BY DEF Work
  <2> QED BY <1>1, <1>2, <2>1 DEF CreateStaffBegin
<1>3. ASSUME NEW e \in Email, UpdateProfileBegin(p, t, e) \/ AdminUpdateProfileBegin(p, t, x, e)
      PROVE  StepIsSound
  <2>1. \A y \in Account : [op |-> "updateProfile", target |-> y, email |-> e] \in Work
    BY DEF Work
  <2> QED BY <1>0, <1>1, <1>3, <2>1 DEF UpdateProfileBegin, AdminUpdateProfileBegin
<1>4. ASSUME NEW role \in Staff, UpdateRoleBegin(p, t, x, role)
      PROVE  StepIsSound
  <2> DEFINE w == [op |-> "updateRole", by |-> t.sub, target |-> x, role |-> role]
  <2>1. w \in Work
    BY <1>0 DEF Work
  <2>2. CheckedBefore(w)
    BY <1>4 DEF UpdateRoleBegin, CheckedBefore
  <2>3. Begin(p, w) /\ UNCHANGED <<user, token, lot, floor, slots, booked, doc>>
    BY <1>4 DEF UpdateRoleBegin
  <2> HIDE DEF w
  <2> QED BY <2>1, <2>2, <2>3, BeginIsSound
<1>5. CASE RemoveManagerBegin(p, t, x)
  <2> DEFINE w == [op |-> "removeManager", target |-> x]
  <2>1. w \in Work
    BY DEF Work
  <2>2. CheckedBefore(w)
    BY <1>5 DEF RemoveManagerBegin, CheckedBefore, Staff
  <2>3. Begin(p, w) /\ UNCHANGED <<user, token, lot, floor, slots, booked, doc>>
    BY <1>5 DEF RemoveManagerBegin
  <2> HIDE DEF w
  <2> QED BY <2>1, <2>2, <2>3, BeginIsSound
<1>6. CASE UploadBegin(p, t)
  <2>1. [op |-> "upload", by |-> t.sub] \in Work
    BY <1>0 DEF Work
  <2> QED BY <1>1, <1>6, <2>1 DEF UploadBegin
<1> QED BY <1>2, <1>3, <1>4, <1>5, <1>6

-----------------------------------------------------------------------------
(* Accounts *)

\* Staff stay staff until they are gone, and a customer stays a customer until gone.
RolesMoveOn ==
  \A x \in Account :
    \/ user'[x].role = user[x].role
    \/ user[x].role = "NONE"
    \/ user'[x].role = "DELETED"
    \/ user[x].role \in Staff /\ user'[x].role \in Staff

LEMMA TokenStaysRightful ==
  ASSUME RolesMoveOn, NEW t \in Token, Rightful(t)
  PROVE  Rightful(t)'
BY DEF RolesMoveOn, Rightful, Token, Staff

LEMMA ChecksKept ==
  ASSUME TypeOK, AdminInv, RolesMoveOn, \A p \in Request : req'[p] \in {req[p], Idle}
  PROVE  ChecksStillHold'
<1> SUFFICES ASSUME NEW p \in Request
             PROVE  CheckedBefore(req[p])' 
  BY DEF ChecksStillHold
<1>1. CASE req'[p] = Idle
  BY <1>1 DEF CheckedBefore, Idle
<1>2. CASE req'[p] = req[p]
  <2>1. CheckedBefore(req[p])
    BY DEF AdminInv, ChecksStillHold
  <2>2. \A t \in Token : Rightful(t) => Rightful(t)'
    BY TokenStaysRightful
  <2>3. req[p].op = "login" => Rightful(req[p].token)'
    BY <1>2, <2>1, <2>2, KindOfWork DEF CheckedBefore, Rightful
  <2>4. req[p].op \in {"updateRole", "removeManager"}
          => user'[req[p].target].role \in Staff \cup {"DELETED"}
    BY <2>1, KindOfWork DEF CheckedBefore, RolesMoveOn, Staff
  <2> QED BY <1>2, <2>1, <2>3, <2>4 DEF CheckedBefore, WithinLimits
<1> QED BY <1>1, <1>2

\* What a step that writes accounts, and at most drops reservations, has to show.
LEMMA AccountStep ==
  ASSUME TypeOK, AdminInv, RolesMoveOn, CustomersStay,
         UNCHANGED <<lot, floor, slots, doc, ops>>,
         user' \in [Account -> User], token' \in SUBSET Token, req' \in [Request -> Work],
         booked' \subseteq booked,
         \A p \in Request : req'[p] \in {req[p], Idle},
         \A x \in Account : LiveUser(x) => LiveUser(x)' \/ Unreferenced(x),
         \A t \in token' : t \in token \/ Rightful(t)',
         EmailsUnique'
  PROVE  StepIsSound
<1>1. TypeOK'
  BY DEF TypeOK
<1>2. StaffTokensAreStaff'
  <2>1. \A t \in token : t \in Token /\ Rightful(t)
    BY DEF TypeOK, AdminInv, StaffTokensAreStaff
  <2>2. \A t \in token' : Rightful(t)'
    BY <2>1, TokenStaysRightful
  <2> QED BY <2>2 DEF StaffTokensAreStaff, Rightful
<1>3. KeysUnique'
  BY DEF AdminInv, KeysUnique, NumbersUnique, LiveFloor
<1>4. ManagersExist' /\ UploadersExist'
  BY DEF AdminInv, ReferencesResolve, ManagersExist, UploadersExist, LiveLot, Unreferenced, LiveUser
<1>5. FloorsHaveLots' /\ SlotsHaveFloors' /\ BookedSlotsExist'
  BY DEF AdminInv, ReferencesResolve, FloorsHaveLots, SlotsHaveFloors, BookedSlotsExist,
         LiveLot, LiveFloor
<1>6. SlotsFormGrid' /\ LayoutsWithinLimits'
  BY DEF AdminInv, SlotsFormGrid, LayoutsWithinLimits, LiveFloor
<1> QED BY <1>1, <1>2, <1>3, <1>4, <1>5, <1>6, ChecksKept DEF StepIsSound, AdminInv, ReferencesResolve

LEMMA TokenStepIsSound ==
  ASSUME TypeOK, AdminInv,
         (\E p \in Request : LoginEnd(p)) \/ (\E t \in token : Expire(t))
  PROVE  StepIsSound
<1>1. UNCHANGED <<user, lot, floor, slots, booked, doc, ops>>
  BY DEF LoginEnd, Expire, End
<1>2. req' \in [Request -> Work] /\ \A p \in Request : req'[p] \in {req[p], Idle}
  BY EndType DEF LoginEnd, Expire, TypeOK
<1>3. \A t \in token' : t \in Token /\ Rightful(t)
  <2>1. \A t \in token : t \in Token /\ Rightful(t)
    BY DEF TypeOK, AdminInv, StaffTokensAreStaff
  <2>2. ASSUME NEW p \in Request, LoginEnd(p)
        PROVE  \A t \in token' : t \in Token /\ Rightful(t)
    <3>1. req[p].token \in Token /\ Rightful(req[p].token)
      BY <2>2, KindOfWork DEF LoginEnd, AdminInv, ChecksStillHold, CheckedBefore
    <3> QED BY <2>1, <2>2, <3>1 DEF LoginEnd
  <2> QED BY <2>1, <2>2 DEF Expire
<1>4. RolesMoveOn /\ CustomersStay
  BY <1>1 DEF RolesMoveOn, CustomersStay
<1>5. \A t \in token' : Rightful(t)'
  BY <1>3, <1>4, TokenStaysRightful
<1>6. EmailsUnique' /\ \A x \in Account : LiveUser(x) => LiveUser(x)'
  BY <1>1 DEF AdminInv, KeysUnique, EmailsUnique, LiveUser
<1> QED BY <1>1, <1>2, <1>3, <1>4, <1>5, <1>6, AccountStep DEF TypeOK

LEMMA NewAccountIsSound ==
  ASSUME TypeOK, AdminInv, NEW p \in Request, NEW x \in Account,
         RegisterCommit(p, x) \/ CreateStaffCommit(p, x)
  PROVE  StepIsSound
<1>1. PICK role \in Role, e \in Email :
        /\ user[x] = NoUser /\ EmailFree(e, x)
        /\ user' = [user EXCEPT ![x] = [role |-> role, email |-> e, blocked |-> FALSE]]
        /\ \/ role \in Staff /\ token' = token
           \/ role = "CUSTOMER" /\ token' = token \cup {[sub |-> x, role |-> "CUSTOMER"]}
  BY KindOfWork DEF RegisterCommit, CreateStaffCommit, Role
<1>2. End(p) /\ UNCHANGED <<lot, floor, slots, booked, doc>>
  BY DEF RegisterCommit, CreateStaffCommit
<1>3. user' \in [Account -> User] /\ user'[x].role = role /\ user'[x].email = e
  BY <1>1 DEF TypeOK, User
<1>4. \A y \in Account \ {x} : user'[y] = user[y]
  BY <1>1
<1>5. user[x].role = "NONE"
  BY <1>1 DEF NoUser
<1>6. RolesMoveOn /\ CustomersStay
  BY <1>4, <1>5 DEF RolesMoveOn, CustomersStay
<1>7. EmailsUnique'
  <2>1. \A y \in Account \ {x} : LiveUser(y) => user[y].email # e
    BY <1>1 DEF EmailFree
  <2> QED BY <1>3, <1>4, <2>1 DEF AdminInv, KeysUnique, EmailsUnique, LiveUser
<1>8. \A y \in Account : LiveUser(y) => LiveUser(y)'
  BY <1>4, <1>5 DEF LiveUser, Absent
<1>9. token' \in SUBSET Token /\ \A t \in token' : t \in token \/ Rightful(t)'
  BY <1>1, <1>3 DEF TypeOK, Token, Rightful, Role, Staff
<1> QED BY <1>2, <1>3, <1>6, <1>7, <1>8, <1>9, EndType, AccountStep DEF TypeOK

LEMMA ProfileIsSound ==
  ASSUME TypeOK, AdminInv, NEW p \in Request, UpdateProfileCommit(p)
  PROVE  StepIsSound
<1>1. PICK x \in Account, e \in Email :
        /\ LiveUser(x) /\ EmailFree(e, x) /\ user' = [user EXCEPT ![x].email = e]
  BY KindOfWork DEF UpdateProfileCommit
<1>2. End(p) /\ UNCHANGED <<token, lot, floor, slots, booked, doc>>
  BY DEF UpdateProfileCommit
<1>3. user' \in [Account -> User] /\ user'[x].role = user[x].role /\ user'[x].email = e
  BY <1>1 DEF TypeOK, User
<1>4. \A y \in Account \ {x} : user'[y] = user[y]
  BY <1>1
<1>5. RolesMoveOn /\ CustomersStay /\ \A y \in Account : LiveUser(y) => LiveUser(y)'
  BY <1>3, <1>4 DEF RolesMoveOn, CustomersStay, LiveUser
<1>6. EmailsUnique'
  <2>1. \A y \in Account \ {x} : LiveUser(y) => user[y].email # e
    BY <1>1 DEF EmailFree
  <2> QED BY <1>3, <1>4, <2>1 DEF AdminInv, KeysUnique, EmailsUnique, LiveUser
<1> QED BY <1>2, <1>3, <1>5, <1>6, EndType, AccountStep DEF TypeOK

LEMMA BlockIsSound ==
  ASSUME TypeOK, AdminInv, NEW t \in token, NEW x \in Account, NEW b \in BOOLEAN,
         SetBlocked(t, x, b)
  PROVE  StepIsSound
<1>1. UNCHANGED <<token, lot, floor, slots, booked, doc, req, ops>>
  BY DEF SetBlocked
<1>2. /\ user' \in [Account -> User]
      /\ \A y \in Account : user'[y].role = user[y].role /\ user'[y].email = user[y].email
  BY DEF SetBlocked, TypeOK, User
<1>3. RolesMoveOn /\ CustomersStay /\ \A y \in Account : LiveUser(y) => LiveUser(y)'
  BY <1>2 DEF RolesMoveOn, CustomersStay, LiveUser
<1>4. EmailsUnique'
  BY <1>2 DEF AdminInv, KeysUnique, EmailsUnique, LiveUser
<1> QED BY <1>1, <1>2, <1>3, <1>4, AccountStep DEF TypeOK

LEMMA RoleIsSound ==
  ASSUME TypeOK, AdminInv, NEW p \in Request, UpdateRoleCommit(p)
  PROVE  StepIsSound
<1>1. PICK x \in Account, role \in Staff :
        /\ LiveUser(x) /\ user[x].role \in Staff \cup {"DELETED"}
        /\ user' = [user EXCEPT ![x].role = role]
  BY KindOfWork DEF UpdateRoleCommit, AdminInv, ChecksStillHold, CheckedBefore
<1>2. End(p) /\ UNCHANGED <<token, lot, floor, slots, booked, doc>>
  BY DEF UpdateRoleCommit
<1>3. user[x].role \in Staff
  BY <1>1 DEF LiveUser, Absent
<1>4. /\ user' \in [Account -> User] /\ user'[x].role = role
      /\ \A y \in Account : user'[y].email = user[y].email
      /\ \A y \in Account \ {x} : user'[y] = user[y]
  BY <1>1 DEF TypeOK, User, Role
<1>5. RolesMoveOn
  BY <1>3, <1>4 DEF RolesMoveOn
<1>6. CustomersStay /\ \A y \in Account : LiveUser(y)' = LiveUser(y)
  BY <1>3, <1>4 DEF CustomersStay, LiveUser, Staff, Absent
<1>7. EmailsUnique'
  BY <1>4, <1>6 DEF AdminInv, KeysUnique, EmailsUnique
<1> QED BY <1>2, <1>4, <1>5, <1>6, <1>7, EndType, AccountStep DEF TypeOK

LEMMA DeletionIsSound ==
  ASSUME TypeOK, AdminInv, NEW x \in Account, NEW freed, DeleteUser(x, freed),
         UNCHANGED <<token, lot, floor, slots, doc, ops>>,
         req' \in [Request -> Work], \A p \in Request : req'[p] \in {req[p], Idle},
         user[x].role = "CUSTOMER" => req' = req /\ \E t \in token : t.sub = x
  PROVE  StepIsSound
<1>1. /\ user' \in [Account -> User] /\ user'[x].role = "DELETED"
      /\ \A y \in Account \ {x} : user'[y] = user[y]
  BY DEF DeleteUser, NoUser, TypeOK, User, Absent
<1>2. RolesMoveOn /\ CustomersStay
  BY <1>1 DEF RolesMoveOn, CustomersStay
<1>3. EmailsUnique'
  BY <1>1 DEF AdminInv, KeysUnique, EmailsUnique, LiveUser, Absent
<1>4. \A y \in Account : LiveUser(y) => LiveUser(y)' \/ Unreferenced(y)
  BY <1>1 DEF DeleteUser, LiveUser
<1>5. booked' \subseteq booked
  BY DEF DeleteUser
<1> QED BY <1>1, <1>2, <1>3, <1>4, <1>5, AccountStep DEF TypeOK

LEMMA RemovalIsSound ==
  ASSUME TypeOK, AdminInv,
         \/ \E p \in Request : RemoveManagerCommit(p)
         \/ \E t \in token, freed \in SUBSET booked : RemoveSelf(t, freed)
  PROVE  StepIsSound
<1>1. ASSUME NEW p \in Request, RemoveManagerCommit(p)
      PROVE  StepIsSound
  <2>1. /\ req[p].target \in Account /\ user[req[p].target].role # "CUSTOMER"
        /\ DeleteUser(req[p].target, {}) /\ End(p)
        /\ UNCHANGED <<token, lot, floor, slots, doc>>
    BY <1>1, KindOfWork
    DEF RemoveManagerCommit, AdminInv, ChecksStillHold, CheckedBefore, Staff
  <2> QED BY <2>1, EndType, DeletionIsSound
<1>2. ASSUME NEW t \in token, NEW freed \in SUBSET booked, RemoveSelf(t, freed)
      PROVE  StepIsSound
  <2>1. t.sub \in Account /\ DeleteUser(t.sub, freed)
        /\ UNCHANGED <<token, lot, floor, slots, doc, req, ops>>
    BY <1>2 DEF RemoveSelf, TypeOK, Token
  <2> QED BY <2>1, DeletionIsSound DEF TypeOK
<1> QED BY <1>1, <1>2

-----------------------------------------------------------------------------
(* Documents, lots and floors *)

\* What a step that writes no account has to show.
LEMMA TableStep ==
  ASSUME TypeOK, AdminInv, UNCHANGED <<user, token, ops>>,
         lot' \in [Lot -> ParkingLot], floor' \in [Floor -> ParkingFloor],
         slots' \in [Floor -> SUBSET (Dim \X Dim)], booked' \in SUBSET SlotRow,
         doc' \in [Document -> Doc], req' \in [Request -> Work],
         \A p \in Request : req'[p] \in {req[p], Idle},
         NumbersUnique', ReferencesResolve', SlotsFormGrid', LayoutsWithinLimits'
  PROVE  StepIsSound
<1>1. TypeOK'
  BY DEF TypeOK
<1>2. StaffTokensAreStaff' /\ EmailsUnique'
  BY DEF AdminInv, StaffTokensAreStaff, Rightful, KeysUnique, EmailsUnique, LiveUser
<1>3. ChecksStillHold' /\ CustomersStay
  BY ChecksKept DEF RolesMoveOn, CustomersStay
<1> QED BY <1>1, <1>2, <1>3 DEF StepIsSound, AdminInv, KeysUnique

\* What a step that writes neither accounts nor lots and floors has to show.
LEMMA LotsUntouched ==
  ASSUME TypeOK, AdminInv, UNCHANGED <<user, token, lot, floor, slots, ops>>,
         booked' \in SUBSET SlotRow, doc' \in [Document -> Doc], req' \in [Request -> Work],
         \A p \in Request : req'[p] \in {req[p], Idle},
         UploadersExist', BookedSlotsExist'
  PROVE  StepIsSound
<1>1. NumbersUnique' /\ SlotsFormGrid' /\ LayoutsWithinLimits'
  BY DEF AdminInv, KeysUnique, NumbersUnique, SlotsFormGrid, LayoutsWithinLimits, LiveFloor
<1>2. ManagersExist' /\ FloorsHaveLots' /\ SlotsHaveFloors'
  BY DEF AdminInv, ReferencesResolve, ManagersExist, FloorsHaveLots, SlotsHaveFloors,
         LiveLot, LiveFloor, LiveUser
<1> QED BY <1>1, <1>2, TableStep DEF TypeOK, ReferencesResolve

LEMMA DocumentIsSound ==
  ASSUME TypeOK, AdminInv, NEW d \in Document,
         (\E p \in Request : UploadCommit(p, d)) \/ (\E t \in token : RemoveDocument(t, d))
  PROVE  StepIsSound
<1>1. UNCHANGED <<user, token, lot, floor, slots, booked, ops>>
  BY DEF UploadCommit, RemoveDocument, End
<1>2. req' \in [Request -> Work] /\ \A p \in Request : req'[p] \in {req[p], Idle}
  BY EndType DEF UploadCommit, RemoveDocument, TypeOK
<1>3. /\ \A e \in Document \ {d} : doc'[e] = doc[e]
      /\ doc' \in [Document -> Doc]
      /\ doc'[d].state = "LIVE" => doc'[d].uploader \in Account /\ LiveUser(doc'[d].uploader)
  <2>1. ASSUME NEW p \in Request, UploadCommit(p, d)
        PROVE  <1>3!:
    BY <2>1, KindOfWork DEF UploadCommit, TypeOK, Doc
  <2>2. ASSUME NEW t \in token, RemoveDocument(t, d)
        PROVE  <1>3!:
    BY <2>2 DEF RemoveDocument, TypeOK, Doc, NoDoc, Absent
  <2> QED BY <2>1, <2>2
<1>4. UploadersExist'
  BY <1>1, <1>3 DEF AdminInv, ReferencesResolve, UploadersExist, LiveUser
<1>5. BookedSlotsExist'
  BY <1>1 DEF AdminInv, ReferencesResolve, BookedSlotsExist, LiveFloor
<1> QED BY <1>1, <1>2, <1>3, <1>4, <1>5, LotsUntouched DEF TypeOK

LEMMA BookIsSound ==
  ASSUME TypeOK, AdminInv, NEW f \in Floor, NEW s \in Dim \X Dim, Book(f, s)
  PROVE  StepIsSound
<1>1. UNCHANGED <<user, token, lot, floor, slots, doc, req, ops>>
  BY DEF Book
<1>2. booked' \in SUBSET SlotRow
  BY DEF Book, TypeOK, SlotRow
<1>3. UploadersExist' /\ BookedSlotsExist'
  BY <1>1 DEF Book, AdminInv, ReferencesResolve, UploadersExist, BookedSlotsExist, LiveUser, LiveFloor
<1> QED BY <1>1, <1>2, <1>3, LotsUntouched DEF TypeOK

LEMMA UpdateLotIsSound ==
  ASSUME TypeOK, AdminInv, NEW p \in Request, UpdateLotCommit(p)
  PROVE  StepIsSound
<1>1. PICK l \in Lot, e \in LotEdit :
        /\ l = req[p].lot /\ e = req[p].edit /\ LiveLot(l)
        /\ e.manager # None => LiveUser(e.manager)
  BY KindOfLotWork DEF UpdateLotCommit
<1>2. End(p) /\ UNCHANGED <<user, token, floor, slots, booked, doc>>
  BY DEF UpdateLotCommit
<1> DEFINE row == [state |-> "LIVE",
                   name |-> IF e.name = None THEN lot[l].name ELSE e.name,
                   place |-> IF e.place = None THEN lot[l].place ELSE e.place,
                   manager |-> IF e.manager = None THEN lot[l].manager ELSE e.manager,
                   active |-> IF e.active = "keep" THEN lot[l].active ELSE e.active = "yes"]
<1>3. /\ lot' \in [Lot -> ParkingLot] /\ LiveLot(l)'
      /\ lot'[l].manager = IF e.manager = None THEN lot[l].manager ELSE e.manager
      /\ \A k \in Lot \ {l} : lot'[k] = lot[k]
  <2>1. lot' = [lot EXCEPT ![l] = row]
    BY <1>1 DEF UpdateLotCommit
  <2>2. lot[l] \in ParkingLot
    BY DEF TypeOK
  <2>3. row.active \in BOOLEAN
    BY <2>2, ZenonT(30) DEF ParkingLot
  <2>4. row \in ParkingLot
    BY <2>2, <2>3 DEF ParkingLot, LotEdit
  <2> HIDE DEF row
  <2>5. lot' \in [Lot -> ParkingLot] /\ lot'[l] = row
    BY <2>1, <2>4 DEF TypeOK
  <2>6. row.state = "LIVE" /\ row.manager = IF e.manager = None THEN lot[l].manager ELSE e.manager
    BY DEF row
  <2> QED BY <2>1, <2>5, <2>6 DEF LiveLot
<1>4. ManagersExist'
  <2>1. lot'[l].manager \in Account /\ LiveUser(lot'[l].manager)
    BY <1>1, <1>3 DEF LotEdit, AdminInv, ReferencesResolve, ManagersExist
  <2> QED BY <1>2, <1>3, <2>1 DEF AdminInv, ReferencesResolve, ManagersExist, LiveLot, LiveUser
<1>5. FloorsHaveLots' /\ UploadersExist' /\ SlotsHaveFloors' /\ BookedSlotsExist'
  BY <1>2, <1>3 DEF AdminInv, ReferencesResolve, FloorsHaveLots, UploadersExist, SlotsHaveFloors,
                    BookedSlotsExist, LiveLot, LiveFloor, LiveUser
<1>6. NumbersUnique' /\ SlotsFormGrid' /\ LayoutsWithinLimits'
  BY <1>2 DEF AdminInv, KeysUnique, NumbersUnique, SlotsFormGrid, LayoutsWithinLimits, LiveFloor
<1> QED BY <1>2, <1>3, <1>4, <1>5, <1>6, EndType, TableStep DEF TypeOK, ReferencesResolve

\* A floor the step does not write; its lot stays.
FloorKept(f) ==
  /\ floor'[f] = floor[f] /\ slots'[f] = slots[f]
  /\ LiveFloor(f) => LiveLot(floor[f].lot)'

\* A floor the step writes, and the slots with it.
FloorWritten(f) ==
  /\ LiveFloor(f)' => /\ floor'[f].lot \in Lot /\ LiveLot(floor[f].lot)'
                      /\ WithinLimits(floor'[f].rows, floor'[f].cols)
                      /\ \E r, c \in Dim : slots'[f] = Grid(r, c) /\ r * c <= MaxSlots
  /\ ~LiveFloor(f)' => slots'[f] = {}
  /\ \A s \in slots[f] : <<f, s>> \in booked => LiveFloor(f)' /\ s \in slots'[f]

\* What a step has to show that writes the floors in F.
LEMMA FloorStep ==
  ASSUME TypeOK, AdminInv, NEW p \in Request, End(p), UNCHANGED <<user, token, booked, doc>>,
         NEW F \in SUBSET Floor,
         lot' \in [Lot -> ParkingLot], floor' \in [Floor -> ParkingFloor],
         slots' \in [Floor -> SUBSET (Dim \X Dim)],
         ManagersExist', NumbersUnique',
         \A f \in Floor \ F : FloorKept(f), \A f \in F : FloorWritten(f)
  PROVE  StepIsSound
<1> USE DEF FloorKept, FloorWritten
<1>1. FloorsHaveLots' /\ SlotsHaveFloors'
  BY DEF AdminInv, ReferencesResolve, FloorsHaveLots, SlotsHaveFloors, LiveFloor
<1>2. BookedSlotsExist'
  <2> SUFFICES ASSUME NEW b \in booked
               PROVE  LiveFloor(b[1])' /\ b[2] \in slots'[b[1]]
    BY DEF BookedSlotsExist
  <2>1. b[1] \in Floor /\ b = <<b[1], b[2]>>
    BY DEF TypeOK, SlotRow
  <2>2. LiveFloor(b[1]) /\ b[2] \in slots[b[1]]
    BY DEF AdminInv, ReferencesResolve, BookedSlotsExist
  <2> QED BY <2>1, <2>2 DEF LiveFloor
<1>3. UploadersExist'
  BY DEF AdminInv, ReferencesResolve, UploadersExist, LiveUser
<1>4. SlotsFormGrid' /\ LayoutsWithinLimits'
  BY DEF AdminInv, SlotsFormGrid, LayoutsWithinLimits, LiveFloor
<1> QED BY <1>1, <1>2, <1>3, <1>4, EndType, TableStep DEF TypeOK, ReferencesResolve

LEMMA RemoveFloorIsSound ==
  ASSUME TypeOK, AdminInv, NEW p \in Request, RemoveFloorCommit(p)
  PROVE  StepIsSound
<1>1. PICK f \in Floor : /\ f = req[p].floor /\ LiveFloor(f) /\ SlotsOf(f) \cap booked = {}
                         /\ floor' = [floor EXCEPT ![f] = [NoFloor EXCEPT !.state = "DELETED"]]
                         /\ slots' = [slots EXCEPT ![f] = {}]
  BY KindOfLotWork DEF RemoveFloorCommit
<1>2. End(p) /\ UNCHANGED <<user, token, lot, booked, doc>>
  BY DEF RemoveFloorCommit
<1>3. /\ floor' \in [Floor -> ParkingFloor] /\ ~LiveFloor(f)'
      /\ slots' \in [Floor -> SUBSET (Dim \X Dim)] /\ slots'[f] = {}
      /\ \A g \in Floor \ {f} : floor'[g] = floor[g] /\ slots'[g] = slots[g]
  BY <1>1 DEF TypeOK, ParkingFloor, NoFloor, Absent, LiveFloor
<1>4. ManagersExist'
  BY <1>2 DEF AdminInv, ReferencesResolve, ManagersExist, LiveLot, LiveUser
<1>5. NumbersUnique'
  BY <1>3 DEF AdminInv, KeysUnique, NumbersUnique, LiveFloor
<1>6. \A g \in Floor \ {f} : FloorKept(g)
  BY <1>2, <1>3 DEF FloorKept, AdminInv, ReferencesResolve, FloorsHaveLots, LiveLot
<1>7. \A g \in {f} : FloorWritten(g)
  BY <1>1, <1>3 DEF FloorWritten, SlotsOf
<1>8. {f} \in SUBSET Floor /\ lot' \in [Lot -> ParkingLot]
  BY <1>2 DEF TypeOK
<1> QED BY <1>2, <1>3, <1>4, <1>5, <1>6, <1>7, <1>8, FloorStep

LEMMA RemoveLotIsSound ==
  ASSUME TypeOK, AdminInv, NEW p \in Request, RemoveLotCommit(p)
  PROVE  StepIsSound
<1>1. PICK l \in Lot : /\ l = req[p].lot
                       /\ \A f \in FloorsOf(l) : SlotsOf(f) \cap booked = {}
                       /\ lot' = [lot EXCEPT ![l] = [NoLot EXCEPT !.state = "DELETED"]]
  BY KindOfLotWork DEF RemoveLotCommit
<1>2. /\ floor' = [f \in Floor |-> IF f \in FloorsOf(l) THEN [NoFloor EXCEPT !.state = "DELETED"]
                                   ELSE floor[f]]
      /\ slots' = [f \in Floor |-> IF f \in FloorsOf(l) THEN {} ELSE slots[f]]
  BY <1>1 DEF RemoveLotCommit
<1>3. End(p) /\ UNCHANGED <<user, token, booked, doc>>
  BY DEF RemoveLotCommit
<1>4. /\ lot' \in [Lot -> ParkingLot] /\ ~LiveLot(l)'
      /\ \A k \in Lot \ {l} : lot'[k] = lot[k]
  BY <1>1 DEF TypeOK, ParkingLot, NoLot, Absent, LiveLot
<1>5. FloorsOf(l) \in SUBSET Floor
  BY DEF FloorsOf
<1>6. /\ floor' \in [Floor -> ParkingFloor] /\ slots' \in [Floor -> SUBSET (Dim \X Dim)]
      /\ \A f \in Floor \ FloorsOf(l) : floor'[f] = floor[f] /\ slots'[f] = slots[f]
      /\ \A f \in FloorsOf(l) : ~LiveFloor(f)' /\ slots'[f] = {}
  BY <1>2, <1>5 DEF TypeOK, ParkingFloor, NoFloor, Absent, LiveFloor
<1>7. ManagersExist'
  BY <1>3, <1>4 DEF AdminInv, ReferencesResolve, ManagersExist, LiveLot, LiveUser
<1>8. NumbersUnique'
  BY <1>5, <1>6 DEF AdminInv, KeysUnique, NumbersUnique, LiveFloor
<1>9. \A f \in Floor \ FloorsOf(l) : FloorKept(f)
  BY <1>4, <1>6 DEF FloorKept, AdminInv, ReferencesResolve, FloorsHaveLots, LiveLot, FloorsOf
<1>10. \A f \in FloorsOf(l) : FloorWritten(f)
  BY <1>1, <1>6 DEF FloorWritten, SlotsOf
<1> QED BY <1>3, <1>4, <1>5, <1>6, <1>7, <1>8, <1>9, <1>10, FloorStep

LEMMA UpdateFloorIsSound ==
  ASSUME TypeOK, AdminInv, NEW p \in Request, UpdateFloorCommit(p)
  PROVE  StepIsSound
<1>1. PICK f \in Floor, r \in Dim, c \in Dim, n \in FloorNumber \cup {None} :
        /\ f = req[p].floor /\ r = req[p].rows /\ c = req[p].cols /\ n = req[p].number
        /\ WithinLimits(r, c)
  BY KindOfLotWork
  DEF UpdateFloorCommit, AdminInv, ChecksStillHold, CheckedBefore, WithinLimits
<1> DEFINE target == IF req[p].resizing THEN Grid(r, c) ELSE slots[f]
<1>2. /\ LiveFloor(f)
      /\ n # None => NumberFree(floor[f].lot, n, f)
      /\ \A s \in slots[f] \ target : <<f, s>> \notin booked
      /\ floor' = [floor EXCEPT ![f].rows = r, ![f].cols = c, ![f].number = IF n = None THEN @ ELSE n]
      /\ slots' = [slots EXCEPT ![f] = target]
  BY <1>1 DEF UpdateFloorCommit
<1>3. End(p) /\ UNCHANGED <<user, token, lot, booked, doc>>
  BY DEF UpdateFloorCommit
<1>4. /\ floor' \in [Floor -> ParkingFloor] /\ LiveFloor(f)'
      /\ floor'[f].lot = floor[f].lot /\ floor'[f].rows = r /\ floor'[f].cols = c
      /\ floor'[f].number = IF n = None THEN floor[f].number ELSE n
      /\ \A g \in Floor \ {f} : floor'[g] = floor[g] /\ slots'[g] = slots[g]
  <2>1. r \in Nat /\ c \in Nat
    BY <1>1, GridType
  <2> HIDE DEF target
  <2> QED BY <1>1, <1>2, <2>1 DEF TypeOK, ParkingFloor, LiveFloor
<1>5. target \in SUBSET (Dim \X Dim) /\ \E a, b \in Dim : target = Grid(a, b) /\ a * b <= MaxSlots
  <2>1. Grid(r, c) \in SUBSET (Dim \X Dim) /\ r * c <= MaxSlots
    BY <1>1, GridType DEF WithinLimits
  <2>2. /\ slots[f] \in SUBSET (Dim \X Dim)
        /\ \E a, b \in Dim : slots[f] = Grid(a, b) /\ a * b <= MaxSlots
    BY <1>2 DEF TypeOK, AdminInv, SlotsFormGrid
  <2> QED BY <2>1, <2>2
<1> HIDE DEF target
<1>6. slots' \in [Floor -> SUBSET (Dim \X Dim)] /\ slots'[f] = target
  BY <1>2, <1>5 DEF TypeOK
<1>7. ManagersExist'
  BY <1>3 DEF AdminInv, ReferencesResolve, ManagersExist, LiveLot, LiveUser
<1>8. NumbersUnique'
  <2>1. n # None => \A g \in Floor \ {f} :
                      LiveFloor(g) /\ floor[g].lot = floor[f].lot => floor[g].number # n
    BY <1>2 DEF NumberFree, FloorsOf
  <2> QED BY <1>2, <1>4, <2>1 DEF AdminInv, KeysUnique, NumbersUnique, LiveFloor
<1>9. \A g \in Floor : LiveFloor(g) => floor[g].lot \in Lot /\ LiveLot(floor[g].lot)
  BY DEF AdminInv, ReferencesResolve, FloorsHaveLots
<1>10. \A g \in Floor \ {f} : FloorKept(g)
  BY <1>3, <1>4, <1>9 DEF FloorKept, LiveLot
<1>11. floor'[f].lot \in Lot /\ LiveLot(floor[f].lot)'
  BY <1>2, <1>3, <1>4, <1>9 DEF LiveLot
<1>12. FloorWritten(f)
  BY <1>1, <1>2, <1>4, <1>5, <1>6, <1>11 DEF FloorWritten
<1>13. {f} \in SUBSET Floor /\ lot' \in [Lot -> ParkingLot]
  BY <1>3 DEF TypeOK
<1>14. \A g \in {f} : FloorWritten(g)
  BY <1>12
<1> QED BY <1>3, <1>4, <1>6, <1>7, <1>8, <1>10, <1>13, <1>14, FloorStep

LEMMA CreateFloorIsSound ==
  ASSUME TypeOK, AdminInv, NEW p \in Request, NEW f \in Floor, CreateFloorCommit(p, f)
  PROVE  StepIsSound
<1>1. PICK l \in Lot, n \in FloorNumber, r \in Dim, c \in Dim :
        l = req[p].lot /\ n = req[p].number /\ r = req[p].rows /\ c = req[p].cols
        /\ WithinLimits(r, c)
  BY KindOfLotWork
  DEF CreateFloorCommit, AdminInv, ChecksStillHold, CheckedBefore, WithinLimits
<1>2. /\ floor[f] = NoFloor /\ LiveLot(l) /\ NumberFree(l, n, f)
      /\ floor' = [floor EXCEPT ![f] = [state |-> "LIVE", lot |-> l, number |-> n,
                                        rows |-> r, cols |-> c]]
      /\ slots' = [slots EXCEPT ![f] = Grid(r, c)]
  BY <1>1 DEF CreateFloorCommit
<1>3. End(p) /\ UNCHANGED <<user, token, lot, booked, doc>>
  BY DEF CreateFloorCommit
<1>4. Grid(r, c) \in SUBSET (Dim \X Dim) /\ r \in Nat /\ c \in Nat /\ r * c <= MaxSlots
  BY <1>1, GridType DEF WithinLimits
<1>5. /\ floor' \in [Floor -> ParkingFloor] /\ LiveFloor(f)'
      /\ floor'[f].lot = l /\ floor'[f].number = n /\ floor'[f].rows = r /\ floor'[f].cols = c
      /\ slots' \in [Floor -> SUBSET (Dim \X Dim)] /\ slots'[f] = Grid(r, c)
      /\ \A g \in Floor \ {f} : floor'[g] = floor[g] /\ slots'[g] = slots[g]
  BY <1>1, <1>2, <1>4 DEF TypeOK, ParkingFloor, LiveFloor
<1>6. ManagersExist'
  BY <1>3 DEF AdminInv, ReferencesResolve, ManagersExist, LiveLot, LiveUser
<1>7. NumbersUnique'
  <2>1. \A g \in Floor \ {f} : LiveFloor(g) /\ floor[g].lot = l => floor[g].number # n
    BY <1>2 DEF NumberFree, FloorsOf
  <2> QED BY <1>5, <2>1 DEF AdminInv, KeysUnique, NumbersUnique, LiveFloor
<1>8. \A g \in Floor \ {f} : FloorKept(g)
  BY <1>3, <1>5 DEF FloorKept, AdminInv, ReferencesResolve, FloorsHaveLots, LiveLot
<1>9. LiveLot(floor[f].lot)' /\ slots[f] = {}
  BY <1>2, <1>3, <1>5 DEF LiveLot, AdminInv, ReferencesResolve, SlotsHaveFloors, LiveFloor, NoFloor
<1>10. \A g \in {f} : FloorWritten(g)
  BY <1>1, <1>4, <1>5, <1>9 DEF FloorWritten
<1>11. {f} \in SUBSET Floor /\ lot' \in [Lot -> ParkingLot]
  BY <1>3 DEF TypeOK
<1> QED BY <1>3, <1>5, <1>6, <1>7, <1>8, <1>10, <1>11, FloorStep

LEMMA CreateLotIsSound ==
  ASSUME TypeOK, AdminInv, NEW p \in Request, NEW l \in Lot, NEW at \in [req[p].plan -> Floor],
         req[p].op = "createLot", CreateLotCommit(p, l, at)
  PROVE  StepIsSound
<1> DEFINE plan == req[p].plan
           F == {f \in Floor : \E a \in plan : at[a] = f}
<1>1. /\ plan \subseteq FloorPlan
      /\ \A a \in plan : WithinLimits(a.rows, a.cols)
      /\ \A a, b \in plan : a.number = b.number => a = b
  BY KindOfLotWork, AdminInputs DEF AdminInv, ChecksStillHold, CheckedBefore
<1>2. /\ lot[l] = NoLot /\ LiveUser(req[p].manager) /\ End(p)
      /\ lot' = [lot EXCEPT ![l] = [state |-> "LIVE", name |-> req[p].name, place |-> req[p].place,
                                    manager |-> req[p].manager, active |-> TRUE]]
      /\ UNCHANGED <<user, token, booked, doc>>
      /\ \A a \in plan : floor[at[a]] = NoFloor
  BY DEF CreateLotCommit
<1> DEFINE plotOf(f) == CHOOSE a \in plan : at[a] = f
<1>3. \A f \in F : plotOf(f) \in plan /\ at[plotOf(f)] = f
  OBVIOUS
<1>4. /\ floor' = [f \in Floor |->
           IF f \in F THEN [state |-> "LIVE", lot |-> l, number |-> plotOf(f).number,
                            rows |-> plotOf(f).rows, cols |-> plotOf(f).cols]
           ELSE floor[f]]
      /\ slots' = [f \in Floor |->
           IF f \in F THEN Grid(plotOf(f).rows, plotOf(f).cols) ELSE slots[f]]
  BY DEF CreateLotCommit
<1> HIDE DEF plotOf
<1>5. \A f \in F : /\ plotOf(f) \in FloorPlan /\ floor[f] = NoFloor
                   /\ WithinLimits(plotOf(f).rows, plotOf(f).cols)
                   /\ Grid(plotOf(f).rows, plotOf(f).cols) \in SUBSET (Dim \X Dim)
                   /\ plotOf(f).rows \in Nat /\ plotOf(f).cols \in Nat
  BY <1>1, <1>2, <1>3, GridType
<1> HIDE DEF F, plan
<1>6. \A f \in F : /\ LiveFloor(f)' /\ floor'[f].lot = l /\ floor'[f].number = plotOf(f).number
                   /\ floor'[f].rows = plotOf(f).rows /\ floor'[f].cols = plotOf(f).cols
                   /\ slots'[f] = Grid(plotOf(f).rows, plotOf(f).cols)
  BY <1>4 DEF LiveFloor, F
<1>7. \A f \in Floor \ F : floor'[f] = floor[f] /\ slots'[f] = slots[f]
  BY <1>4
<1>8. floor' \in [Floor -> ParkingFloor] /\ slots' \in [Floor -> SUBSET (Dim \X Dim)]
  BY <1>4, <1>5 DEF FloorPlan, ParkingFloor, TypeOK
<1>9. /\ lot' \in [Lot -> ParkingLot] /\ LiveLot(l)' /\ lot'[l].manager = req[p].manager
      /\ \A k \in Lot \ {l} : lot'[k] = lot[k]
  BY <1>2, KindOfLotWork DEF TypeOK, ParkingLot, LiveLot
<1>10. ManagersExist'
  BY <1>2, <1>9, KindOfLotWork DEF AdminInv, ReferencesResolve, ManagersExist, LiveLot, LiveUser
<1>11. \A f \in Floor : LiveFloor(f) => f \notin F /\ floor[f].lot # l /\ LiveLot(floor[f].lot)'
  <2>1. \A f \in Floor : LiveFloor(f) =>
          /\ f \notin F /\ floor[f].lot \in Lot /\ LiveLot(floor[f].lot) /\ floor[f].lot # l
    BY <1>2, <1>5 DEF AdminInv, ReferencesResolve, FloorsHaveLots, LiveLot, LiveFloor, NoFloor, NoLot
  <2> QED BY <1>7, <1>9, <2>1 DEF LiveLot
<1>12. NumbersUnique'
  <2> SUFFICES ASSUME NEW f \in Floor, NEW g \in Floor, LiveFloor(f)', LiveFloor(g)',
                      floor'[f].lot = floor'[g].lot, floor'[f].number = floor'[g].number
               PROVE  f = g
    BY DEF NumbersUnique
  <2>1. CASE f \in F /\ g \in F
    BY <1>1, <1>3, <1>6, <2>1
  <2>2. CASE f \notin F /\ g \notin F
    BY <1>7, <2>2 DEF AdminInv, KeysUnique, NumbersUnique, LiveFloor
  <2>3. CASE (f \in F) # (g \in F)
    BY <1>6, <1>7, <1>11, <2>3 DEF LiveFloor
  <2> QED BY <2>1, <2>2, <2>3
<1>13. \A f \in F : slots[f] = {}
  BY <1>5 DEF AdminInv, ReferencesResolve, SlotsHaveFloors, LiveFloor, NoFloor, F
<1>14. \A f \in F : /\ LiveLot(floor[f].lot)' /\ WithinLimits(floor'[f].rows, floor'[f].cols)
                    /\ \E r, c \in Dim : slots'[f] = Grid(r, c) /\ r * c <= MaxSlots
  BY <1>5, <1>6, <1>9 DEF WithinLimits, LiveLot
<1>15. F \in SUBSET Floor
  BY DEF F
<1>16. \A f \in F : FloorWritten(f)
  BY <1>6, <1>13, <1>14 DEF FloorWritten
<1>17. \A f \in Floor \ F : FloorKept(f)
  BY <1>7, <1>11 DEF FloorKept
<1> QED BY <1>2, <1>8, <1>9, <1>10, <1>12, <1>15, <1>16, <1>17, FloorStep

-----------------------------------------------------------------------------
(* Every step *)

LEMMA StepSound ==
  ASSUME TypeOK, AdminInv, [Next]_vars
  PROVE  StepIsSound
<1>1. ASSUME NEW p \in Request, LotNext(p)
      PROVE  StepIsSound
  <2>1. CASE \E t \in token, name \in LotName, place \in Place, m \in Account \cup {None},
               plan \in Plans : CreateLotBegin(p, t, name, place, m, plan)
    BY <2>1, CreateLotBeginIsSound
  <2>2. CASE /\ req[p].op = "createLot"
             /\ \E l \in Lot, at \in [req[p].plan -> Floor] : CreateLotCommit(p, l, at)
    BY <2>2, CreateLotIsSound
  <2>3. CASE \E t \in token, l \in Lot :
               \/ \E n \in FloorNumber, r, c \in Dim : CreateFloorBegin(p, t, l, n, r, c)
               \/ \E e \in LotEdits : UpdateLotBegin(p, t, l, e)
               \/ RemoveLotBegin(p, t, l)
    BY <2>3, LotBeginIsSound
  <2>4. CASE \E t \in token, f \in Floor :
               \/ \E n \in FloorNumber \cup {None}, r, c \in Dim \cup {None}, priced \in BOOLEAN :
                    UpdateFloorBegin(p, t, f, n, r, c, priced)
               \/ RemoveFloorBegin(p, t, f)
    BY <2>4, FloorBeginIsSound
  <2>5. CASE \/ \E f \in Floor : CreateFloorCommit(p, f)
             \/ UpdateFloorCommit(p) \/ RemoveFloorCommit(p)
             \/ UpdateLotCommit(p) \/ RemoveLotCommit(p)
    BY <2>5, CreateFloorIsSound, UpdateFloorIsSound, RemoveFloorIsSound, UpdateLotIsSound,
       RemoveLotIsSound
  <2> QED BY <1>1, <2>1, <2>2, <2>3, <2>4, <2>5 DEF LotNext
<1>2. ASSUME NEW p \in Request, AccountNext(p)
      PROVE  StepIsSound
  <2>1. CASE \/ \E x \in Account : LoginBegin(p, x)
             \/ LoginEnd(p)
             \/ \E e \in Email : RegisterBegin(p, e)
             \/ \E x \in Account : RegisterCommit(p, x) \/ CreateStaffCommit(p, x)
             \/ UpdateProfileCommit(p) \/ UpdateRoleCommit(p) \/ RemoveManagerCommit(p)
    BY <2>1, LoginBeginIsSound, TokenStepIsSound, RegisterBeginIsSound, NewAccountIsSound,
       ProfileIsSound, RoleIsSound, RemovalIsSound
  <2>2. CASE \E t \in token, x \in Account :
               \/ \E e \in Email : \/ \E role \in Staff : CreateStaffBegin(p, t, e, role)
                                   \/ UpdateProfileBegin(p, t, e)
                                   \/ AdminUpdateProfileBegin(p, t, x, e)
               \/ \E role \in Staff : UpdateRoleBegin(p, t, x, role)
               \/ RemoveManagerBegin(p, t, x)
    BY <2>2, AccountBeginIsSound
  <2>3. Root \in Account
    BY AdminAssumption
  <2> QED BY <1>2, <2>1, <2>2, <2>3 DEF AccountNext
<1>3. ASSUME NEW p \in Request, PolicyNext(p) \/ Fail(p)
      PROVE  StepIsSound
  <2>1. CASE \E t \in token : UploadBegin(p, t)
    BY <2>1, AdminAssumption, AccountBeginIsSound
  <2>2. CASE \E d \in Document : UploadCommit(p, d)
    BY <2>2, DocumentIsSound
  <2> QED BY <1>3, <2>1, <2>2, FailIsSound DEF PolicyNext
<1>4. CASE \/ \E t \in token : Expire(t)
           \/ \E t \in token, x \in Account, b \in BOOLEAN : SetBlocked(t, x, b)
           \/ \E t \in token, freed \in SUBSET booked : RemoveSelf(t, freed)
           \/ \E t \in token, d \in Document : RemoveDocument(t, d)
           \/ \E f \in Floor, s \in Dim \X Dim : Book(f, s)
  BY <1>4, TokenStepIsSound, BlockIsSound, RemovalIsSound, DocumentIsSound, BookIsSound
<1>5. CASE UNCHANGED vars
  BY <1>5, NothingIsSound
<1> QED BY <1>1, <1>2, <1>3, <1>4, <1>5 DEF Next

LEMMA SeededWhole == Init => TypeOK /\ AdminInv
<1> SUFFICES ASSUME Init
             PROVE  TypeOK /\ AdminInv
  OBVIOUS
<1>1. TypeOK
  BY AdminAssumption
  DEF Init, TypeOK, User, ParkingLot, ParkingFloor, Doc, Work, NoUser, NoLot, NoFloor, NoDoc,
      Idle, Role, Staff, Absent
<1>2. \A p \in Request : req[p].op = "idle"
  BY DEF Init, Idle
<1>3. ChecksStillHold
  BY <1>2 DEF ChecksStillHold, CheckedBefore
<1>4. KeysUnique /\ ReferencesResolve /\ SlotsFormGrid /\ StaffTokensAreStaff /\ LayoutsWithinLimits
  BY DEF Init, KeysUnique, EmailsUnique, NumbersUnique, ReferencesResolve, ManagersExist,
         UploadersExist, FloorsHaveLots, SlotsHaveFloors, BookedSlotsExist, SlotsFormGrid,
         StaffTokensAreStaff, LayoutsWithinLimits, LiveUser, LiveLot, LiveFloor, NoUser, NoLot,
         NoFloor, NoDoc, Absent
<1> QED BY <1>1, <1>3, <1>4 DEF AdminInv

(* The tables staff administer stay whole, and what an overlapping handler has        *)
(* checked is still true when it writes, for any number of requests in flight.       *)
THEOREM TablesStayWhole == Spec => [](TypeOK /\ AdminInv)
<1>1. TypeOK /\ AdminInv /\ [Next]_vars => TypeOK' /\ AdminInv'
  BY StepSound DEF StepIsSound
<1> QED BY <1>1, SeededWhole, PTL DEF Spec

(* Every variable of the administration model keeps its type: a grid never has a     *)
(* slot outside the largest layout, whichever resizes overlap (updateFloor).         *)
THEOREM AdminTypeCorrect == Spec => []TypeOK
BY TablesStayWhole, PTL

(* No two accounts share an email and no two floors of a lot a number, although the  *)
(* handlers check long before they write (register, createStaff, updateFloor).       *)
THEOREM KeysStayUnique == Spec => []KeysUnique
<1>1. AdminInv => KeysUnique
  BY DEF AdminInv
<1> QED BY <1>1, TablesStayWhole, PTL

(* Whatever is deleted while others create or resize, no row is left pointing at one *)
(* that is gone: the foreign keys and updateFloor's check of bookings suffice.       *)
THEOREM ReferencesStayResolved == Spec => []ReferencesResolve
<1>1. AdminInv => ReferencesResolve
  BY DEF AdminInv
<1> QED BY <1>1, TablesStayWhole, PTL

(* The slots of a floor are always a full grid of at most MAX_TOTAL_SLOTS.           *)
THEOREM GridsStayFull == Spec => []SlotsFormGrid
<1>1. AdminInv => SlotsFormGrid
  BY DEF AdminInv
<1> QED BY <1>1, TablesStayWhole, PTL

(* A token that opens staff endpoints belongs to an account that is or was staff,    *)
(* although a role may change between reading it and signing the token (login).      *)
THEOREM StaffTokensStayWithStaff == Spec => []StaffTokensAreStaff
<1>1. AdminInv => StaffTokensAreStaff
  BY DEF AdminInv
<1> QED BY <1>1, TablesStayWhole, PTL

(* No overlap of role changes and removals, which act on a role read earlier,        *)
(* promotes or deletes a customer (updateRole, removeManager, removeSelf).           *)
THEOREM CustomersDecide == Spec => CustomersDecideForThemselves
<1>1. TypeOK /\ AdminInv /\ [Next]_vars
      => [\A x \in Account :
            user[x].role = "CUSTOMER" /\ user'[x].role # "CUSTOMER" =>
              /\ user'[x].role = "DELETED"
              /\ req' = req
              /\ \E t \in token : t.sub = x]_vars
  BY StepSound DEF StepIsSound, CustomersStay
<1> QED BY <1>1, TablesStayWhole, PTL DEF Spec, CustomersDecideForThemselves

==============================================================================
