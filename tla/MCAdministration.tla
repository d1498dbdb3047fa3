--------------------------- MODULE MCAdministration ---------------------------
(* Inputs and symmetry for the runs of Administration. *)
EXTENDS Administration, TLC

CONSTANTS a0, a1

MCPlans == {{[number |-> 0, rows |-> 1, cols |-> 2]}}

Same == [name |-> None, place |-> None, manager |-> None, active |-> "keep"]
MCLotEdits == {[Same EXCEPT !.active = "no"], [Same EXCEPT !.manager = a1]}

Symmetry == Permutations(Request) \cup Permutations(Floor) \cup Permutations(Lot) \cup Permutations(Email)
===============================================================================
