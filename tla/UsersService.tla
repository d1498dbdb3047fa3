---------------------------- MODULE UsersService ----------------------------
(***************************************************************************)
(* users.service.ts: the operations on an account that reach its           *)
(* reservations.  User.isBlocked is read at login only and is not state    *)
(* here.                                                                   *)
(***************************************************************************)
EXTENDS ParkingState

\* block, up to its list of CONFIRMED reservations.  The update of the User row
\* makes a second block of the same customer wait.
BlockBegin(p, u) ==
  /\ u \in account
  /\ \A q \in Request \ {p} : tx[q].op = "block" => tx[q].user # u
  /\ Begin(p, [op |-> "block", user |-> u, at |-> now,
               rows |-> {r \in Resv : res[r].user = u /\ res[r].status = "CONFIRMED"}])
  /\ UNCHANGED <<now, res, qr, slot, payment, challan, card, account, lotActive, job>>

\* Mutant: the writes do not wait for the rows that others have locked.
BlockCommitNoWait(p) ==
  /\ tx[p].op = "block"
  /\ CancelRows(tx[p].rows)
  /\ End(p)
  /\ UNCHANGED <<now, payment, challan, card, account, lotActive, job>>

\* block, its writes: every listed row, whatever its status has become.
BlockCommit(p) ==
  LET t == tx[p] IN
  /\ t.op = "block"
  /\ \A r \in t.rows : CanCancel(r, p)
  /\ CancelRows(t.rows)
  /\ End(p)
  /\ UNCHANGED <<now, payment, challan, card, account, lotActive, job>>

\* Mutant: the cascade does not wait for a scan in flight.
HoldsNoCode(q, u) == tx[q].op = "block" /\ tx[q].user = u

\* A request in flight that has a row of this customer locked.
HoldsRowOf(q, u) ==
  \/ tx[q].op \in {"cancel", "checkIn", "checkOut"} /\ res[tx[q].resv].user = u
  \/ tx[q].op = "block" /\ tx[q].user = u

\* removeSelf: one DELETE, which cascades to the customer's reservations, their
\* codes, payments and challans, and the card.  The slots stay as they are.
RemoveSelf(u) ==
  LET Own == {r \in Resv : res[r].user = u} IN
  /\ u \in account
  /\ \A q \in Request : ~HoldsRowOf(q, u)
  /\ account' = account \ {u}
  /\ res' = [r \in Resv |-> IF r \in Own THEN [res[r] EXCEPT !.status = "DELETED"]
                                         ELSE res[r]]
  /\ qr' = [r \in Resv |-> IF r \in Own THEN [in |-> "NONE", out |-> "NONE"] ELSE qr[r]]
  /\ payment' = [r \in Resv |-> IF r \in Own THEN NoPayment ELSE payment[r]]
  /\ challan' = {c \in challan : c.resv \notin Own}
  /\ card' = [card EXCEPT ![u] = "none"]
  /\ UNCHANGED <<now, slot, lotActive, tx, job>>

\* savePaymentMethod: an upsert, so the card may be replaced at any time.
SavePaymentMethod(u, c) ==
  /\ u \in account
  /\ card' = [card EXCEPT ![u] = c]
  /\ UNCHANGED <<now, res, qr, slot, payment, challan, account, lotActive, tx, job>>

=============================================================================
