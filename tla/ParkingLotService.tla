--------------------------- MODULE ParkingLotService ---------------------------
(***************************************************************************)
(* parking-lot.service.ts: lots, floors and the slot grids generated from  *)
(* their layout.  t is the caller's access token.                          *)
(***************************************************************************)
EXTENDS AdminState

\* assertManagerOwnsLot, behind @Roles(ADMIN, MANAGER): the role is the token's.
MayManage(t, l) ==
  /\ t \in token
  /\ t.role \in Staff
  /\ LiveLot(l)
  /\ t.role = "MANAGER" => lot[l].manager = t.sub

\* assertNoDuplicateLot
NoDuplicateLot(name, place) ==
  \A l \in Lot : LiveLot(l) => lot[l].name # name /\ lot[l].place # place

\* create, up to its transaction.  The address is verified with an outside
\* service in between, whose answer only changes a log line.
CreateLotBegin(p, t, name, place, manager, plan) ==
  /\ t \in token /\ t.role \in Staff
  /\ \A a, b \in plan : a.number = b.number => a = b
  /\ \A a \in plan : a.rows * a.cols <= MaxSlots
  /\ NoDuplicateLot(name, place)
  /\ Begin(p, [op |-> "createLot", name |-> name, place |-> place, plan |-> plan,
               manager |-> IF manager = None THEN t.sub ELSE manager])
  /\ UNCHANGED <<user, token, lot, floor, slots, booked, doc>>

\* create, its transaction: the lot, its floors and their grids.
CreateLotCommit(p, l, at) ==
  LET w == req[p] IN
  /\ w.op = "createLot"
  /\ lot[l] = NoLot
  /\ at \in [w.plan -> {f \in Floor : floor[f] = NoFloor}]
  /\ \A a, b \in w.plan : at[a] = at[b] => a = b
  /\ LiveUser(w.manager)
  /\ lot' = [lot EXCEPT ![l] = [state |-> "LIVE", name |-> w.name, place |-> w.place,
                                manager |-> w.manager, active |-> TRUE]]
  /\ floor' = [f \in Floor |->
       IF \E a \in w.plan : at[a] = f
       THEN LET a == CHOOSE a \in w.plan : at[a] = f
            IN  [state |-> "LIVE", lot |-> l, number |-> a.number, rows |-> a.rows, cols |-> a.cols]
       ELSE floor[f]]
  /\ slots' = [f \in Floor |->
       IF \E a \in w.plan : at[a] = f
       THEN LET a == CHOOSE a \in w.plan : at[a] = f IN Grid(a.rows, a.cols)
       ELSE slots[f]]
  /\ End(p)
  /\ UNCHANGED <<user, token, booked, doc>>

CreateFloorBegin(p, t, l, n, r, c) ==
  /\ MayManage(t, l)
  /\ r * c <= MaxSlots
  /\ Begin(p, [op |-> "createFloor", lot |-> l, number |-> n, rows |-> r, cols |-> c])
  /\ UNCHANGED <<user, token, lot, floor, slots, booked, doc>>

CreateFloorCommit(p, f) ==
  LET w == req[p] IN
  /\ w.op = "createFloor"
  /\ floor[f] = NoFloor
  /\ LiveLot(w.lot)
  /\ NumberFree(w.lot, w.number, f)
  /\ floor' = [floor EXCEPT ![f] = [state |-> "LIVE", lot |-> w.lot, number |-> w.number,
                                    rows |-> w.rows, cols |-> w.cols]]
  /\ slots' = [slots EXCEPT ![f] = Grid(w.rows, w.cols)]
  /\ End(p)
  /\ UNCHANGED <<user, token, lot, booked, doc>>

\* Mutant: the limit is only checked on what the body names.
UpdateFloorLimitsBody(p, t, f, n, r, c, priced) ==
  LET rows == IF r = None THEN floor[f].rows ELSE r
      cols == IF c = None THEN floor[f].cols ELSE c
  IN
  /\ LiveFloor(f)
  /\ MayManage(t, floor[f].lot)
  /\ r # None /\ c # None => r * c <= MaxSlots
  /\ Begin(p, [op |-> "updateFloor", floor |-> f, number |-> n, rows |-> rows, cols |-> cols,
               resizing |-> rows # floor[f].rows \/ cols # floor[f].cols, priced |-> priced])
  /\ UNCHANGED <<user, token, lot, floor, slots, booked, doc>>

\* updateFloor, before its transaction: the layout to write, and whether the
\* grid has to change, are decided from the row as it is now.
UpdateFloorBegin(p, t, f, n, r, c, priced) ==
  LET rows == IF r = None THEN floor[f].rows ELSE r
      cols == IF c = None THEN floor[f].cols ELSE c
      resizing == rows # floor[f].rows \/ cols # floor[f].cols
  IN
  /\ LiveFloor(f)
  /\ MayManage(t, floor[f].lot)
  /\ resizing => rows * cols <= MaxSlots
  /\ Begin(p, [op |-> "updateFloor", floor |-> f, number |-> n, rows |-> rows, cols |-> cols,
               resizing |-> resizing, priced |-> priced])
  /\ UNCHANGED <<user, token, lot, floor, slots, booked, doc>>

\* updateFloor, its transaction.  Its first statement locks the floor's row, so
\* the slots it lists are not changed by others until it commits.
UpdateFloorCommit(p) ==
  LET w == req[p]
      f == w.floor
      target == IF w.resizing THEN Grid(w.rows, w.cols) ELSE slots[f]
  IN
  /\ w.op = "updateFloor"
  /\ LiveFloor(f)
  /\ w.number # None => NumberFree(floor[f].lot, w.number, f)
  /\ target \subseteq slots[f] \/ w.priced
  /\ \A s \in slots[f] \ target : <<f, s>> \notin booked
  /\ floor' = [floor EXCEPT ![f].rows = w.rows, ![f].cols = w.cols,
                            ![f].number = IF w.number = None THEN @ ELSE w.number]
  /\ slots' = [slots EXCEPT ![f] = target]
  /\ End(p)
  /\ UNCHANGED <<user, token, lot, booked, doc>>

RemoveFloorBegin(p, t, f) ==
  /\ LiveFloor(f)
  /\ MayManage(t, floor[f].lot)
  /\ Begin(p, [op |-> "removeFloor", floor |-> f])
  /\ UNCHANGED <<user, token, lot, floor, slots, booked, doc>>

\* The slots go with the floor; a reservation of one of them forbids it.
RemoveFloorCommit(p) ==
  LET f == req[p].floor IN
  /\ req[p].op = "removeFloor"
  /\ LiveFloor(f)
  /\ SlotsOf(f) \cap booked = {}
  /\ floor' = [floor EXCEPT ![f] = [NoFloor EXCEPT !.state = "DELETED"]]
  /\ slots' = [slots EXCEPT ![f] = {}]
  /\ End(p)
  /\ UNCHANGED <<user, token, lot, booked, doc>>

\* update: only an administrator may hand a lot to another manager.
UpdateLotBegin(p, t, l, edit) ==
  /\ MayManage(t, l)
  /\ Begin(p, [op |-> "updateLot", lot |-> l,
               edit |-> IF t.role = "MANAGER" THEN [edit EXCEPT !.manager = None] ELSE edit])
  /\ UNCHANGED <<user, token, lot, floor, slots, booked, doc>>

UpdateLotCommit(p) ==
  LET l == req[p].lot
      e == req[p].edit
  IN
  /\ req[p].op = "updateLot"
  /\ LiveLot(l)
  /\ e.manager # None => LiveUser(e.manager)
  /\ lot' = [lot EXCEPT ![l] =
       [state |-> "LIVE",
        name |-> IF e.name = None THEN @.name ELSE e.name,
        place |-> IF e.place = None THEN @.place ELSE e.place,
        manager |-> IF e.manager = None THEN @.manager ELSE e.manager,
        active |-> IF e.active = "keep" THEN @.active ELSE e.active = "yes"]]
  /\ End(p)
  /\ UNCHANGED <<user, token, floor, slots, booked, doc>>

RemoveLotBegin(p, t, l) ==
  /\ MayManage(t, l)
  /\ Begin(p, [op |-> "removeLot", lot |-> l])
  /\ UNCHANGED <<user, token, lot, floor, slots, booked, doc>>

\* The floors and slots go with the lot; any reservation of it forbids it.
RemoveLotCommit(p) ==
  LET l == req[p].lot IN
  /\ req[p].op = "removeLot"
  /\ LiveLot(l)
  /\ \A f \in FloorsOf(l) : SlotsOf(f) \cap booked = {}
  /\ lot' = [lot EXCEPT ![l] = [NoLot EXCEPT !.state = "DELETED"]]
  /\ floor' = [f \in Floor |-> IF f \in FloorsOf(l) THEN [NoFloor EXCEPT !.state = "DELETED"]
                               ELSE floor[f]]
  /\ slots' = [f \in Floor |-> IF f \in FloorsOf(l) THEN {} ELSE slots[f]]
  /\ End(p)
  /\ UNCHANGED <<user, token, booked, doc>>

-----------------------------------------------------------------------------
\* findFloors, getTotalSlotsMap: capacity is computed from the layout, while
\* availability is counted from the slot rows.
TotalSlots(f) == floor[f].rows * floor[f].cols
================================================================================
