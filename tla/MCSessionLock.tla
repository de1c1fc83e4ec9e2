---------------------------- MODULE MCSessionLock ----------------------------
(* Three processes: all on one host, or one of them on another.             *)
EXTENDS SessionLock, TLC

CONSTANTS p1, p2, p3, here, there

OneHost == [p \in Procs |-> here]
TwoHosts == [p \in Procs |-> IF p = p3 THEN there ELSE here]
===============================================================================
