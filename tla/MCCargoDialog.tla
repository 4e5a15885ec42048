----------------------------- MODULE MCCargoDialog -----------------------------
(* TLC instances of CargoDialog. *)
EXTENDS CargoDialog, TLC

CONSTANTS n1, l1, l2, d1, d2

\* The message of the suggestion does not say where the load goes to.
Partly == n1 :> {"origin"}
Asked == l1 :> <<d1>> @@ l2 :> <<d2, d1>>

\* Forms that one user goes through in turn.
Turns == {{"create", "suggestions"}, {"excel", "filters"}, {"mine"}}
HandlerSymmetry == Permutations(Handlers)
=============================================================================
