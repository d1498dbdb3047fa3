------------------------- MODULE ParkingSlotService -------------------------
(***************************************************************************)
(* parking-slot.service.ts and the switch of a lot: staff restrict slots   *)
(* and open or close the lot for booking.                                  *)
(***************************************************************************)
EXTENDS ParkingState

\* The check both paths make before they write: none of the slots is in use.
RestrictRead(p, S, to) ==
  /\ \A s \in S : slot[s].status \notin {"RESERVED", "OCCUPIED"}
  /\ Begin(p, [op |-> "restrict", slots |-> S, to |-> to, at |-> now])
  /\ UNCHANGED <<now, res, qr, slot, payment, challan, card, account, lotActive, job>>

\* updateStatus: one slot.
UpdateStatusRead(p, s, to) == RestrictRead(p, {s}, to)

\* bulkUpdateStatus: a selection, all or nothing.
BulkUpdateStatusRead(p, S, to) == S # {} /\ RestrictRead(p, S, to)

\* The write of both: a statement of its own, not conditional on the status read.
\* Staff may give a reason for a restriction.
RestrictWrite(p, reason) ==
  LET t == tx[p] IN
  /\ t.op = "restrict"
  /\ \A s \in t.slots : ~SlotLocked(s, p)
  /\ slot' = [s \in Slot |->
       IF s \in t.slots THEN [status |-> t.to, reason |-> reason /\ t.to = "MAINTENANCE"]
                        ELSE slot[s]]
  /\ End(p)
  /\ UNCHANGED <<now, res, qr, payment, challan, card, account, lotActive, job>>

\* Staff open or close the lot.
SetLotActive(b) ==
  /\ lotActive # b
  /\ lotActive' = b
  /\ UNCHANGED <<now, res, qr, slot, payment, challan, card, account, tx, job>>

=============================================================================
