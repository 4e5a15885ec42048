----------------------------- MODULE MCCargoTrip -----------------------------
(* TLC instances of CargoTrip. *)
EXTENDS CargoTrip, TLC

SessionSymmetry == Permutations(Sessions)
=============================================================================
