-------------------------- MODULE MCSubscriptionOrder --------------------------
(* TLC instances of SubscriptionOrder. *)
EXTENDS SubscriptionOrder, TLC

OrderSymmetry == Permutations(Orders)
=============================================================================
