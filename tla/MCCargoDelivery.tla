--------------------------- MODULE MCCargoDelivery ---------------------------
(* TLC instances of CargoDelivery. *)
EXTENDS CargoDelivery

\* The queue alone, the retry worker alone with a load announced again, the queue with
\* summaries of two loads.
Apart ==
    {[on |-> {"queue"}, digest |-> 0, routes |-> {1, 2}, loads |-> 1, announces |-> 1],
     [on |-> {"worker"}, digest |-> 0, routes |-> {1, 2}, loads |-> 1, announces |-> 2],
     [on |-> {"queue"}, digest |-> 2, routes |-> {1}, loads |-> 2, announces |-> 1]}

\* The queue and the worker together.
Together == {[on |-> {"queue", "worker"}, digest |-> 1, routes |-> {1}, loads |-> 1, announces |-> 1]}

NoticeConsumerSymmetry == Permutations(Notices) \cup Permutations(Consumers)
=============================================================================
