----------------------------- MODULE MCBotPurchase -----------------------------
(* TLC instances of BotPurchase. *)
EXTENDS BotPurchase, TLC

CONSTANTS driver, company, planD, planC

\* One plan for drivers and one for companies.
TypeOfPlan == planD :> driver @@ planC :> company
HandlerOrderSymmetry == Permutations(Handlers) \cup Permutations(Orders)
=============================================================================
