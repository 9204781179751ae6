-------------------------- MODULE MCCalculatorPool --------------------------
(***************************************************************************)
(* Three threads and a pool of two calculators: two threads nest a single  *)
(* lease in a single lease, the third asks for both calculators at once.   *)
(***************************************************************************)
EXTENDS CalculatorPool

MCThread == [b \in Blocks |-> CASE b \in {"p", "q"} -> "t1" [] b = "r" -> "t2"
                               [] b \in {"s", "u"} -> "t3"]
MCOuter == [b \in Blocks |-> CASE b = "q" -> "p" [] b = "u" -> "s" [] OTHER -> NoBlock]
MCNeed == [b \in Blocks |-> IF b = "r" THEN 2 ELSE 1]
=============================================================================
