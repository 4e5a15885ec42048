----------------------------- MODULE OrderDecision -----------------------------
(***************************************************************************)
(* What a purchase of a subscription promises its buyer and the operator    *)
(* (AccountProvisioningService: "already been approved", "Approved          *)
(* subscription order cannot be rejected"): a submitted order is decided at *)
(* most once, the decision stands, and an approval gives exactly one period.*)
(***************************************************************************)
EXTENDS Naturals

CONSTANT Orders

VARIABLES
    decision,   \* "none": not submitted, "open", "approved" or "rejected"
    given       \* subscription periods given for an order

vars == <<decision, given>>

Init ==
    /\ decision = [o \in Orders |-> "none"]
    /\ given = [o \in Orders |-> 0]

Submit(o) ==
    /\ decision[o] = "none"
    /\ decision' = [decision EXCEPT ![o] = "open"]
    /\ UNCHANGED given

Approve(o) ==
    /\ decision[o] = "open" /\ given[o] = 0
    /\ decision' = [decision EXCEPT ![o] = "approved"]
    /\ given' = [given EXCEPT ![o] = 1]

Reject(o) ==
    /\ decision[o] = "open"
    /\ decision' = [decision EXCEPT ![o] = "rejected"]
    /\ UNCHANGED given

Next == \E o \in Orders : Submit(o) \/ Approve(o) \/ Reject(o)

Spec == Init /\ [][Next]_vars
=============================================================================
