----------------------------- MODULE MCPaidScout -----------------------------
(* Instances of PaidScout: prices and usages. *)
EXTENDS PaidScout

CONSTANTS exact, over   \* usages: as reserved, and an overrun

MCPrice == [k \in Configs |-> 1]
MCUsageCost == [u \in Usages |-> IF u = over THEN 2 ELSE 1]
===============================================================================
