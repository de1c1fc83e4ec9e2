--------------------------- MODULE MCSessionPipeline ---------------------------
(* Values for the model checker: two configurations that differ in the sound  *)
(* of the proxy, and in nothing else.                                          *)
EXTENDS SessionPipeline, TLC

CONSTANTS c1, c2

Symmetry == Permutations(Workers)

MCSetting ==
    c1 :> [source |-> "p", video |-> "v", audio |-> "a1", activity |-> "s1", scout |-> "k1"] @@
    c2 :> [source |-> "p", video |-> "v", audio |-> "a2", activity |-> "s1", scout |-> "k1"]
===============================================================================
