---------------------------- MODULE BookingLedger ----------------------------
(***************************************************************************)
(* What the reservation system promises, without requests, codes, locks    *)
(* and a cron: a ledger in which a slot is held for an interval only while *)
(* nobody else holds it then, what was given up, overstayed or settled is  *)
(* never held again, an interval is never rewritten, and a stay is settled *)
(* once.                                                                   *)
(***************************************************************************)
EXTENDS Integers

CONSTANTS Entry,   \* the lines of the ledger
          Slot,
          Buffer   \* what has to lie between two intervals on one slot

VARIABLES entry, paid
vars == <<entry, paid>>

\* An entry is free, held, overstayed, closed or gone.
Held == [state: {"held"}, slot: Slot, start: Nat, until: Nat]

Apart(e, f) ==
  \/ entry[e].start >= entry[f].until + Buffer
  \/ entry[f].start >= entry[e].until + Buffer

\* Nobody else holds the slot of e too close to its interval.
Alone(e) ==
  \A f \in Entry \ {e} :
    entry[f].state = "held" /\ entry[f].slot = entry[e].slot => Apart(e, f)

Moved(E, to) ==
  entry' = [e \in Entry |-> IF e \in E THEN [entry[e] EXCEPT !.state = to] ELSE entry[e]]

Init ==
  /\ \A e \in Entry : entry[e].state = "free"
  /\ paid = {}

\* A booking takes effect at one moment.
Book(e) ==
  /\ entry[e].state = "free"
  /\ entry'[e] \in Held
  /\ Alone(e)'
  /\ \A f \in Entry \ {e} : entry'[f] = entry[f]
  /\ UNCHANGED paid

\* Cancelled by the customer or staff, or given up by the cron.
Close(E) ==
  /\ \A e \in E : entry[e].state \in {"held", "overstayed", "closed"}
  /\ Moved(E, "closed")
  /\ UNCHANGED paid

\* The car leaves and the charge goes through, in one step.
Settle(e) ==
  /\ entry[e].state \in {"held", "overstayed", "closed"} /\ e \notin paid
  /\ Moved({e}, "closed")
  /\ paid' = paid \cup {e}

\* The cron finds an interval overstayed, be it from an old list, which can bring back
\* an entry that is closed; it is not held again by that.
Overstay(e) ==
  /\ entry[e].state \in {"held", "closed"}
  /\ Moved({e}, "overstayed")
  /\ UNCHANGED paid

\* The owner's account is deleted.
Forget(E) ==
  /\ \A e \in E : entry[e].state # "free"
  /\ Moved(E, "gone")
  /\ paid' = paid \ E

Next ==
  \/ \E e \in Entry : Book(e) \/ Settle(e) \/ Overstay(e)
  \/ \E E \in SUBSET Entry : Close(E) \/ Forget(E)

Spec == Init /\ [][Next]_vars
=============================================================================
