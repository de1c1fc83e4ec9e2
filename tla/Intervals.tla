------------------------------ MODULE Intervals ------------------------------
(***************************************************************************)
(* Half-open intervals of source time, and the optional timestamps of a    *)
(* moment.  Time is counted in units of which a second has Second (1000 in *)
(* the code).                                                              *)
(***************************************************************************)
EXTENDS Integers

CONSTANTS
    Second,     \* units of time in a second
    None        \* an optional value that is absent

ASSUME IntervalsAssumption == Second \in Nat \ {0} /\ None \notin Int

Least(a, b) == IF a =< b THEN a ELSE b
Greatest(a, b) == IF a >= b THEN a ELSE b

\* max(0, min(a.end, b.end) - max(a.start, b.start))
Overlap(a, b) == Greatest(0, Least(a.end, b.end) - Greatest(a.start, b.start))

\* _iou, as the comparison with a threshold n/d: intersection over union of
\* two intervals, where the union is measured over the gap between them too.
IoUAtLeast(a, b, n, d) ==
    LET union == Greatest(a.end, b.end) - Least(a.start, b.start)
    IN  d * Overlap(a, b) >= n * union

\* Python's "x or y" on an optional timestamp: zero counts as absent.
OrElse(x, y) == IF x \in {None, 0} THEN y ELSE x

\* _effective_interval: the event with its setup and its payoff.
EffectiveStart(c) == IF c.setup = None THEN c.start ELSE Least(c.start, c.setup)
EffectiveEnd(c) == IF c.payoff = None THEN c.end ELSE Greatest(c.end, c.payoff)
Effective(c) == [start |-> EffectiveStart(c), end |-> EffectiveEnd(c)]

\* The interval as match assignment and clip derivation read it.
ContextStart(c) == Least(c.start, OrElse(c.setup, c.start))
ContextEnd(c) == Greatest(c.end, OrElse(c.payoff, c.end))

Within(start, end, interval) == interval.start =< start /\ end =< interval.end
===============================================================================
