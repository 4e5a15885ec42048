------------------------------ MODULE LoadTrips ------------------------------
(***************************************************************************)
(* What a load promises about its trips, whatever the handlers around it do *)
(* (migration CargoRequestOneTrip, "One trip per load"): a trip starts only *)
(* on a load that has none, and a load changes hands only by giving up its  *)
(* trip first.                                                              *)
(***************************************************************************)
CONSTANT Drivers

VARIABLE trips      \* the drivers whose request of the load is ACCEPTED or DELIVERED

Init == trips = {}

Start(d) == trips = {} /\ trips' = {d}
GiveUp(d) == trips = {d} /\ trips' = {}

Next == \E d \in Drivers : Start(d) \/ GiveUp(d)

Spec == Init /\ [][Next]_trips
=============================================================================
