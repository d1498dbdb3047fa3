------------------------------ MODULE AdminState ------------------------------
(***************************************************************************)
(* The rows that staff administer - users, lots, floors and their slot     *)
(* grids, policy documents - and the requests in flight that change them.  *)
(*                                                                         *)
(* A handler is two steps.  Its Begin step is everything it reads and      *)
(* checks before its last await; its Commit step is the transaction that   *)
(* writes, with the keys that PostgreSQL enforces as guards.  A request    *)
(* whose write breaks a key, or whose process dies, ends in Fail.          *)
(***************************************************************************)
EXTENDS Integers, FiniteSets

CONSTANTS
  Account,      \* identities of User rows
  Email,        \* values of User.email
  Lot,          \* identities of ParkingLot rows
  LotName,      \* values of ParkingLot.name, up to letter case
  Place,        \* map positions; two positions are within 50 m iff they are equal
  Floor,        \* identities of ParkingFloor rows
  FloorNumber,  \* values of ParkingFloor.floorNumber
  Document,     \* identities of PolicyDocument rows
  Request,      \* requests that may be in flight at once
  None,         \* an absent value, an optional input left out
  MaxDim,       \* MAX_ROWS and MAX_COLUMNS
  MaxSlots,     \* MAX_TOTAL_SLOTS
  Root,         \* the administrator the database is seeded with
  Plans,        \* inputs: the floors a lot is created with
  LotEdits,     \* inputs: bodies of PATCH /parking-lots/:id
  MaxOps        \* bound: requests that begin in a behaviour

Dim == 1..MaxDim

ASSUME AdminAssumption ==
  /\ MaxDim \in Nat /\ MaxSlots \in Nat /\ MaxOps \in Nat
  /\ Root \in Account
  /\ Email # {}
  /\ None \notin Account \cup Email \cup Lot \cup LotName \cup Place \cup FloorNumber \cup Dim

\* CreateFloorInputDto: one entry of the floors of a new lot.
FloorPlan == [number: FloorNumber, rows: Dim, cols: Dim]

\* UpdateParkingLotDto: every field may be left out.
LotEdit == [name: LotName \cup {None}, place: Place \cup {None},
            manager: Account \cup {None}, active: {"yes", "no", "keep"}]

ASSUME AdminInputs ==
  /\ \A plan \in Plans : plan \subseteq FloorPlan /\ plan # {} /\ IsFiniteSet(plan)
  /\ LotEdits \subseteq LotEdit

VARIABLES
  user,     \* User rows
  token,    \* access tokens that have been issued and have not expired
  lot,      \* ParkingLot rows
  floor,    \* ParkingFloor rows
  slots,    \* the ParkingSlot rows of a floor, by row and column
  booked,   \* the slots that some reservation refers to
  doc,      \* PolicyDocument rows, with all their chunks
  req,      \* requests in flight
  ops       \* how many requests have begun

vars == <<user, token, lot, floor, slots, booked, doc, req, ops>>

-----------------------------------------------------------------------------
(* Rows.  "NONE": not yet a row; "DELETED": no longer one. *)

Staff == {"ADMIN", "MANAGER"}
Role == Staff \cup {"CUSTOMER"}
Absent == {"NONE", "DELETED"}

User == [role: Role \cup Absent, email: Email \cup {None}, blocked: BOOLEAN]
ParkingLot == [state: {"LIVE"} \cup Absent, name: LotName \cup {None}, place: Place \cup {None},
               manager: Account \cup {None}, active: BOOLEAN]
ParkingFloor == [state: {"LIVE"} \cup Absent, lot: Lot \cup {None},
                 number: FloorNumber \cup {None}, rows: Nat, cols: Nat]
Token == [sub: Account, role: Role]

NoUser == [role |-> "NONE", email |-> None, blocked |-> FALSE]
NoLot == [state |-> "NONE", name |-> None, place |-> None, manager |-> None, active |-> FALSE]
NoFloor == [state |-> "NONE", lot |-> None, number |-> None, rows |-> 0, cols |-> 0]
NoDoc == [state |-> "NONE", uploader |-> None]
Doc == [state: {"LIVE"} \cup Absent, uploader: Account \cup {None}]

LiveUser(x) == user[x].role \notin Absent
LiveLot(l) == lot[l].state = "LIVE"
LiveFloor(f) == floor[f].state = "LIVE"

\* Mutant: rows are counted from 0.
GridFromZero(r, c) == (0..r) \X (1..c)

\* buildSlotGrid: the slots of a floor of r rows and c columns.
Grid(r, c) == (1..r) \X (1..c)

SlotRow == Floor \X (Dim \X Dim)
SlotsOf(f) == {<<f, s>> : s \in slots[f]}
FloorsOf(l) == {f \in Floor : LiveFloor(f) /\ floor[f].lot = l}

-----------------------------------------------------------------------------
(* Keys *)

\* User.email @unique, for a row x that takes e.
EmailFree(e, x) == \A y \in Account \ {x} : LiveUser(y) => user[y].email # e

\* ParkingFloor @@unique([lotId, floorNumber]), for a row f that takes n.
NumberFree(l, n, f) == \A g \in FloorsOf(l) \ {f} : floor[g].number # n

\* Mutant: what the error message thinks of, a managed lot and nothing else.
ManagesNoLot(x) == \A l \in Lot : LiveLot(l) => lot[l].manager # x

\* Nothing that restricts the deletion of a User row refers to it.
Unreferenced(x) ==
  /\ \A l \in Lot : LiveLot(l) => lot[l].manager # x
  /\ \A d \in Document : doc[d].state = "LIVE" => doc[d].uploader # x

-----------------------------------------------------------------------------
(* Requests *)

\* What a handler keeps across its awaits: the token's claims and its inputs,
\* and for updateFloor the layout it will write.
Idle == [op |-> "idle"]

Work ==
  [op: {"idle"}]
  \cup [op: {"login"}, token: Token]
  \cup [op: {"register"}, email: Email]
  \cup [op: {"createStaff"}, email: Email, role: Staff]
  \cup [op: {"updateProfile"}, target: Account, email: Email]
  \cup [op: {"updateRole"}, by: Account, target: Account, role: Staff]
  \cup [op: {"removeManager"}, target: Account]
  \cup [op: {"createLot"}, name: LotName, place: Place, manager: Account, plan: Plans]
  \cup [op: {"createFloor"}, lot: Lot, number: FloorNumber, rows: Dim, cols: Dim]
  \cup [op: {"updateFloor"}, floor: Floor, number: FloorNumber \cup {None}, rows: Nat,
        cols: Nat, resizing: BOOLEAN, priced: BOOLEAN]
  \cup [op: {"removeFloor"}, floor: Floor]
  \cup [op: {"updateLot"}, lot: Lot, edit: LotEdit]
  \cup [op: {"removeLot"}, lot: Lot]
  \cup [op: {"upload"}, by: Account]

Begin(p, work) ==
  /\ req[p] = Idle
  /\ ops < MaxOps
  /\ ops' = ops + 1
  /\ req' = [req EXCEPT ![p] = work]

End(p) == req' = [req EXCEPT ![p] = Idle] /\ UNCHANGED ops

\* A request that dies, or whose write breaks a key, leaves no trace.
Fail(p) ==
  /\ req[p] # Idle
  /\ End(p)
  /\ UNCHANGED <<user, token, lot, floor, slots, booked, doc>>

-----------------------------------------------------------------------------
TypeOK ==
  /\ user \in [Account -> User]
  /\ token \in SUBSET Token
  /\ lot \in [Lot -> ParkingLot]
  /\ floor \in [Floor -> ParkingFloor]
  /\ slots \in [Floor -> SUBSET (Dim \X Dim)]
  /\ booked \in SUBSET SlotRow
  /\ doc \in [Document -> Doc]
  /\ req \in [Request -> Work]
  /\ ops \in 0..MaxOps

\* A database with one administrator (prisma/seed is not part of the backend).
Init ==
  /\ \E e \in Email :
       user = [x \in Account |->
                 IF x = Root THEN [role |-> "ADMIN", email |-> e, blocked |-> FALSE]
                 ELSE NoUser]
  /\ token = {}
  /\ lot = [l \in Lot |-> NoLot]
  /\ floor = [f \in Floor |-> NoFloor]
  /\ slots = [f \in Floor |-> {}]
  /\ booked = {}
  /\ doc = [d \in Document |-> NoDoc]
  /\ req = [p \in Request |-> Idle]
  /\ ops = 0
===============================================================================
