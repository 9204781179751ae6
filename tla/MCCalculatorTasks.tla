------------------------- MODULE MCCalculatorTasks -------------------------
(***************************************************************************)
(* A pool of two calculators, an executor of two workers, three sites of   *)
(* which two share a vibration cache.                                      *)
(***************************************************************************)
EXTENDS CalculatorTasks

MCThreads == {Main} \cup Workers \cup Helpers
MCThread == [t \in MCThreads |-> t]
MCOuter == [t \in MCThreads |-> NoBlock]
MCNeed == [t \in MCThreads |-> 1]
MCCacheOf == [s \in Sites |-> IF s \in {"s1", "s2"} THEN "v" ELSE "w"]
=============================================================================
