---------------------------- MODULE Administration ----------------------------
(***************************************************************************)
(* Staff at work: accounts, lots, floors, slot grids and documents under   *)
(* concurrent requests.                                                    *)
(***************************************************************************)
EXTENDS ParkingLotService, AccountService, PolicyService

\* ReservationService.create, seen from here: an active lot's slot gets a
\* reservation, which refers to it for good.
Book(f, s) ==
  /\ LiveFloor(f)
  /\ lot[floor[f].lot].active
  /\ s \in slots[f]
  /\ \E t \in token : t.role = "CUSTOMER" /\ LiveUser(t.sub)
  /\ booked' = booked \cup {<<f, s>>}
  /\ UNCHANGED <<user, token, lot, floor, slots, doc, req, ops>>

LotNext(p) ==
  \/ \E t \in token, name \in LotName, place \in Place, m \in Account \cup {None}, plan \in Plans :
       CreateLotBegin(p, t, name, place, m, plan)
  \/ /\ req[p].op = "createLot"
     /\ \E l \in Lot, at \in [req[p].plan -> Floor] : CreateLotCommit(p, l, at)
  \/ \E t \in token, l \in Lot, n \in FloorNumber, r, c \in Dim : CreateFloorBegin(p, t, l, n, r, c)
  \/ \E f \in Floor : CreateFloorCommit(p, f)
  \/ \E t \in token, f \in Floor, n \in FloorNumber \cup {None}, r, c \in Dim \cup {None},
       priced \in BOOLEAN : UpdateFloorBegin(p, t, f, n, r, c, priced)
  \/ UpdateFloorCommit(p)
  \/ \E t \in token, f \in Floor : RemoveFloorBegin(p, t, f)
  \/ RemoveFloorCommit(p)
  \/ \E t \in token, l \in Lot, e \in LotEdits : UpdateLotBegin(p, t, l, e)
  \/ UpdateLotCommit(p)
  \/ \E t \in token, l \in Lot : RemoveLotBegin(p, t, l)
  \/ RemoveLotCommit(p)

AccountNext(p) ==
  \/ \E x \in Account : LoginBegin(p, x)
  \/ LoginEnd(p)
  \/ \E e \in Email : RegisterBegin(p, e)
  \/ \E x \in Account : RegisterCommit(p, x)
  \/ \E t \in token, e \in Email, role \in Staff : CreateStaffBegin(p, t, e, role)
  \/ \E x \in Account : CreateStaffCommit(p, x)
  \/ \E t \in token, e \in Email : UpdateProfileBegin(p, t, e)
  \/ \E t \in token, x \in Account, e \in Email : AdminUpdateProfileBegin(p, t, x, e)
  \/ UpdateProfileCommit(p)
  \/ \E t \in token, x \in Account, role \in Staff : UpdateRoleBegin(p, t, x, role)
  \/ UpdateRoleCommit(p)
  \/ \E t \in token, x \in Account : RemoveManagerBegin(p, t, x)
  \/ RemoveManagerCommit(p)

PolicyNext(p) ==
  \/ \E t \in token : UploadBegin(p, t)
  \/ \E d \in Document : UploadCommit(p, d)

Next ==
  \/ \E p \in Request : LotNext(p) \/ AccountNext(p) \/ PolicyNext(p) \/ Fail(p)
  \/ \E t \in token : Expire(t)
  \/ \E t \in token, x \in Account, b \in BOOLEAN : SetBlocked(t, x, b)
  \/ \E t \in token, freed \in SUBSET booked : RemoveSelf(t, freed)
  \/ \E t \in token, d \in Document : RemoveDocument(t, d)
  \/ \E f \in Floor, s \in Dim \X Dim : Book(f, s)

Spec == Init /\ [][Next]_vars

-----------------------------------------------------------------------------
(* Properties *)

EmailsUnique ==
  \A x, y \in Account : LiveUser(x) /\ LiveUser(y) /\ user[x].email = user[y].email => x = y

NumbersUnique ==
  \A f, g \in Floor :
    LiveFloor(f) /\ LiveFloor(g) /\ floor[f].lot = floor[g].lot
      /\ floor[f].number = floor[g].number => f = g

\* The keys of the schema hold whatever requests overlap: no two accounts share
\* an email although three handlers check it long before they write, and no two
\* floors of a lot share a number.
KeysUnique == EmailsUnique /\ NumbersUnique

ManagersExist ==
  \A l \in Lot : LiveLot(l) => lot[l].manager \in Account /\ LiveUser(lot[l].manager)

UploadersExist ==
  \A d \in Document :
    doc[d].state = "LIVE" => doc[d].uploader \in Account /\ LiveUser(doc[d].uploader)

FloorsHaveLots ==
  \A f \in Floor : LiveFloor(f) => floor[f].lot \in Lot /\ LiveLot(floor[f].lot)

SlotsHaveFloors == \A f \in Floor : ~LiveFloor(f) => slots[f] = {}

BookedSlotsExist == \A b \in booked : LiveFloor(b[1]) /\ b[2] \in slots[b[1]]

\* Whatever is deleted while others create or resize, no row is left pointing
\* at one that is gone: a lot's manager, a document's uploader, a floor's lot,
\* a reservation's slot.
ReferencesResolve ==
  /\ ManagersExist
  /\ UploadersExist
  /\ FloorsHaveLots
  /\ SlotsHaveFloors
  /\ BookedSlotsExist

\* The slots of a floor are a full grid within the limit, also when resizes of
\* the floor overlap: no hole, no slot outside, never more than MAX_TOTAL_SLOTS.
SlotsFormGrid ==
  \A f \in Floor : LiveFloor(f) =>
    \E r, c \in Dim : slots[f] = Grid(r, c) /\ r * c <= MaxSlots

\* A token of staff or of a customer whose account is that, or was.
Rightful(t) ==
  user[t.sub].role \in (IF t.role \in Staff THEN Staff ELSE {"CUSTOMER"}) \cup {"DELETED"}

\* A token that opens staff endpoints belongs to an account that is or was
\* staff: no overlap of registration, provisioning and role changes makes one
\* for a customer.
StaffTokensAreStaff == \A t \in token : Rightful(t)

\* A customer's account is the customer's: no overlap of role changes and removals,
\* which act on a role read earlier, promotes or deletes it; it ends only by a
\* request with a token of its own.
CustomersDecideForThemselves ==
  [][\A x \in Account :
       user[x].role = "CUSTOMER" /\ user'[x].role # "CUSTOMER" =>
         /\ user'[x].role = "DELETED"
         /\ req' = req
         /\ \E t \in token : t.sub = x]_vars

-----------------------------------------------------------------------------
(* Why they hold: an inductive invariant *)

\* A layout the limits of the DTO and of assertSlotLimit let through.
WithinLimits(rows, cols) == rows \in Dim /\ cols \in Dim /\ rows * cols <= MaxSlots

LayoutsWithinLimits ==
  \A f \in Floor : LiveFloor(f) => WithinLimits(floor[f].rows, floor[f].cols)

\* What a handler has checked and nobody checks again when it writes.
CheckedBefore(w) ==
  /\ w.op = "login" => Rightful(w.token)
  /\ w.op \in {"updateRole", "removeManager"} => user[w.target].role \in Staff \cup {"DELETED"}
  /\ w.op = "createLot" =>
       /\ \A a \in w.plan : WithinLimits(a.rows, a.cols)
       /\ \A a, b \in w.plan : a.number = b.number => a = b
  /\ w.op \in {"createFloor", "updateFloor"} => WithinLimits(w.rows, w.cols)

ChecksStillHold == \A p \in Request : CheckedBefore(req[p])

\* Why overlapping requests leave the tables whole: what no key of the schema stands
\* behind - a target's role, a layout's size, the claims of a token about to be
\* signed - is still true when the handler that read it writes.
AdminInv ==
  /\ KeysUnique
  /\ ReferencesResolve
  /\ SlotsFormGrid
  /\ StaffTokensAreStaff
  /\ LayoutsWithinLimits
  /\ ChecksStillHold
===============================================================================
