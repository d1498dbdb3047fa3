---------------------------- MODULE ParkingClaims ----------------------------
(***************************************************************************)
(* What the documentation, the schema and the comments say of the          *)
(* reservation system and the code does not do.  Each is checked on its    *)
(* own, and TLC shows a behaviour of the code that breaks it.              *)
(***************************************************************************)
EXTENDS MCParking

\* billing.service.ts:6: the final charge contains every challan.
FinalChargeIsComplete ==
  \A r \in Resv :
    payment[r].status = "SUCCESSFUL" => payment[r].billed = ChallansOf(r)

\* reservation.controller.ts:48: a slot is only given to an interval that overlaps no
\* other active reservation for it, the buffer included.
SlotClaimedOnce ==
  \A r, q \in Resv :
    r # q /\ Claims(r) /\ Claims(q) /\ res[r].slot = res[q].slot => BuffersApart(r, q)

\* users.controller.ts:242: blocking a customer leaves CHECKED_IN reservations untouched;
\* README.md:105: the cron cancels reservations that never checked in.  So nobody cancels
\* the reservation of a parked car.
ParkedNeverCancelled ==
  [][\A r \in Resv : res[r].status = "CHECKED_IN" => res'[r].status # "CANCELLED"]_vars

=============================================================================
