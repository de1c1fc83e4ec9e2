----------------------------- MODULE MCCostLedger -----------------------------
(* Small instances of CostLedger.                                          *)
EXTENDS CostLedger, TLC

CONSTANTS c1, c2, c3, p1, p2, low, mid, high

MCUsageCost == [u \in Usages |-> CASE u = low -> 1 [] u = mid -> 2 [] u = high -> 3]

Symmetry == Permutations(Calls) \cup Permutations(Procs)
===============================================================================
