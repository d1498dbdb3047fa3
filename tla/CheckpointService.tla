-------------------------- MODULE CheckpointService --------------------------
(***************************************************************************)
(* checkpoint.service.ts: staff scan a check-in or a check-out code.       *)
(***************************************************************************)
EXTENDS ParkingState

\* Mutant: the check-in code is read without locking its row.
CheckInCodeValidNoLock(r, p) == qr[r].in = "ACTIVE" /\ res[r].start + Grace >= now

\* loadValidQrCode: the code's row is locked, then read; it must be ACTIVE and,
\* for a check-in code, not past its expiry.  (A scan that finds it expired
\* writes EXPIRED and throws, which rolls the write back: no step.)
CheckInCodeValid(r, p) ==
  /\ ~QrLocked("checkIn", r, p)
  /\ qr[r].in = "ACTIVE"
  /\ res[r].start + Grace >= now

\* Mutant: the check-out code is read without locking its row.
CheckOutCodeValidNoLock(r, p) == qr[r].out = "ACTIVE"

CheckOutCodeValid(r, p) ==
  /\ ~QrLocked("checkOut", r, p)
  /\ qr[r].out = "ACTIVE"

\* checkIn, up to its checks.
CheckInBegin(p, r) ==
  /\ CheckInCodeValid(r, p)
  /\ res[r].status = "CONFIRMED"
  /\ now >= res[r].start - Early
  /\ Begin(p, [op |-> "checkIn", resv |-> r, at |-> now])
  /\ UNCHANGED <<now, res, qr, slot, payment, challan, card, account, lotActive, job>>

\* Mutant: the booking is rewritten to begin when the car arrives.
CheckInRewritesArrival(p) ==
  LET r == tx[p].resv IN
  /\ tx[p].op = "checkIn" /\ ~RowLocked(r, p) /\ ~SlotLocked(res[r].slot, p)
  /\ res' = [res EXCEPT ![r].status = "CHECKED_IN", ![r].start = now, ![r].hours = res[r].end - now]
  /\ qr' = [qr EXCEPT ![r] = [in |-> "USED", out |-> "ACTIVE"]]
  /\ slot' = [slot EXCEPT ![res[r].slot].status = "OCCUPIED"]
  /\ End(p)
  /\ UNCHANGED <<now, payment, challan, card, account, lotActive, job>>

\* checkIn, its writes: the code is used up, the slot becomes OCCUPIED whatever
\* it was, and a check-out code is issued.
CheckInCommit(p) ==
  LET t == tx[p]
      r == t.resv
  IN
  /\ t.op = "checkIn"
  /\ ~RowLocked(r, p)
  /\ ~SlotLocked(res[r].slot, p)
  /\ res' = [res EXCEPT ![r].status = "CHECKED_IN"]
  /\ qr' = [qr EXCEPT ![r] = [in |-> "USED", out |-> "ACTIVE"]]
  /\ slot' = [slot EXCEPT ![res[r].slot].status = "OCCUPIED"]
  /\ End(p)
  /\ UNCHANGED <<now, payment, challan, card, account, lotActive, job>>

\* checkOut, its reads: the final charge and the customer's card.
CheckOutBegin(p, r) ==
  /\ CheckOutCodeValid(r, p)
  /\ res[r].status \in {"CHECKED_IN", "OVERTIME"}
  /\ Begin(p, [op |-> "checkOut", resv |-> r, bill |-> ChallansOf(r),
               declined |-> card[res[r].user] # "accepted", at |-> now])
  /\ UNCHANGED <<now, res, qr, slot, payment, challan, card, account, lotActive, job>>

\* Mutant: the declined branch does not return before the stay is completed.
CheckOutDeclinedFallsThrough(p) ==
  LET r == tx[p].resv IN
  /\ tx[p].op = "checkOut" /\ tx[p].declined /\ ~RowLocked(r, p)
  /\ payment' = [payment EXCEPT ![r] = [status |-> "FAILED", billed |-> tx[p].bill]]
  /\ res' = [res EXCEPT ![r].status = "COMPLETED"]
  /\ End(p)
  /\ UNCHANGED <<now, qr, slot, challan, card, account, lotActive, job>>

\* checkOut, a declined card: only the Payment row is written.
CheckOutDeclined(p) ==
  LET t == tx[p] IN
  /\ t.op = "checkOut"
  /\ t.declined
  /\ ~RowLocked(t.resv, p)
  /\ payment' = [payment EXCEPT ![t.resv] = [status |-> "FAILED", billed |-> t.bill]]
  /\ End(p)
  /\ UNCHANGED <<now, res, qr, slot, challan, card, account, lotActive, job>>

\* checkOut, a successful charge: the stay is COMPLETED and the slot released.
CheckOutPaid(p) ==
  LET t == tx[p]
      r == t.resv
  IN
  /\ t.op = "checkOut"
  /\ ~t.declined
  /\ ~RowLocked(r, p)
  /\ ~SlotLocked(res[r].slot, p)
  /\ payment' = [payment EXCEPT ![r] = [status |-> "SUCCESSFUL", billed |-> t.bill]]
  /\ res' = [res EXCEPT ![r].status = "COMPLETED"]
  /\ qr' = [qr EXCEPT ![r].out = "USED"]
  /\ slot' = [slot EXCEPT ![res[r].slot].status = "AVAILABLE"]
  /\ End(p)
  /\ UNCHANGED <<now, challan, card, account, lotActive, job>>

=============================================================================
