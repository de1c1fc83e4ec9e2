--------------------------- MODULE MCWindowedScout ---------------------------
(* Instances of WindowedScout: prices and usages. *)
EXTENDS WindowedScout, TLC

CONSTANTS exact, over   \* usages: as reserved, and an overrun

MCPrice == [r \in Requests |-> 1]
MCUsageCost == [u \in Usages |-> IF u = over THEN 2 ELSE 1]
Symmetry == Permutations(Workers)
===============================================================================
