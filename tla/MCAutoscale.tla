---------------------------- MODULE MCAutoscale ----------------------------
(* What nodes can give, report and take; the policies that may be set.       *)
EXTENDS PoolScaling, Naturals

R(c, m) == [r \in Resources |-> IF r = "cpu" THEN c ELSE m]
Gives == R(4, 4)
Takes == R(1, 1)
TakesMore == R(2, 1)
Reported == {[cpu |-> 1, memory |-> 9], [cpu |-> 1, memory |-> 1],
             [cpu |-> 2, memory |-> 1]}
Settable == {[min |-> 1, max |-> 2], [min |-> 2, max |-> 3]}
OneToTwo == [min |-> 1, max |-> 2]
TwoToThree == [min |-> 2, max |-> 3]
=============================================================================
