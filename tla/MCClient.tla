------------------------------ MODULE MCClient -------------------------------
EXTENDS WebClient

\* Every query is followed past one write; the one of a reservation, which is polled,
\* past two, so that the second may come while the first is being fetched.
MCMaxWrites ==
  [q \in DOMAIN QueryHook \ {Me} |-> IF q = "useReservation" THEN 2 ELSE 1]

\* What a second account and its changes do to a session, they do to the session that
\* follows the query of the card, which few pages show.  The bell's session may end
\* elsewhere.
MCMaxAccounts ==
  [q \in DOMAIN MCMaxWrites |-> IF q = "usePaymentMethod" THEN 2 ELSE 1]
MCMaxChanges ==
  [q \in DOMAIN MCMaxWrites |->
     CASE q = "usePaymentMethod" -> 2
       [] q = Bell -> 1
       [] OTHER -> 0]

\* The queries that are asked for again and again.
PolledWrites == [q \in {p \in DOMAIN MCMaxWrites : QueryHook[p].polled} |-> MCMaxWrites[q]]

CONSTANTS a1, a2, f1, f2, s1, s2
MCFloorOf == s1 :> f1 @@ s2 :> f2
Symmetry == Permutations({a1, a2})
=============================================================================
