------------------------------ MODULE MCAssistant ------------------------------
(* TLC instances of Assistant. *)
EXTENDS Assistant, TLC

CONSTANTS h1, h2

HandlerSymmetry == Permutations(Handlers)
=============================================================================
