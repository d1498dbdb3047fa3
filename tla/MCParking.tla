------------------------------ MODULE MCParking ------------------------------
(* Small instances of Parking for TLC: the identities are interchangeable. *)
EXTENDS Parking, TLC

Symmetry == Permutations(Resv) \cup Permutations(Request) \cup Permutations(User)

=============================================================================
