------------------------------ MODULE ClipBounds ------------------------------
(***************************************************************************)
(* The bounds of the clip of one candidate: the body of the loop of        *)
(* derive_clip_boundaries (domain/reconcile.py), over the policy of        *)
(* ExtractionConfig.  A candidate has an event [start, end), an optional   *)
(* setup and an optional payoff; match is the interval of its match, or    *)
(* None.                                                                   *)
(***************************************************************************)
EXTENDS Intervals

\* ExtractionConfig: seconds at the boundary, units of time here.
IsPolicy(p) ==
    /\ p.pre \in 0..(60 * Second) /\ p.post \in 0..(60 * Second)
    /\ p.minimum \in Second..(900 * Second)
    /\ p.maximum \in p.minimum..(900 * Second)

Clip(s, e) == [start |-> s, end |-> e]

\* Mutant of Bounded: the end of the match is forgotten.
BoundedBelow(clip, match) ==
    IF match = None THEN clip ELSE Clip(Greatest(clip.start, match.start), clip.end)

Bounded(clip, match) ==
    IF match = None THEN clip
    ELSE Clip(Greatest(clip.start, match.start), Least(clip.end, match.end))

\* A clip of a given length from a given start, moved into the source.
Placed(start, length, duration) ==
    LET s == Greatest(0, start)
        e == Least(duration, s + length)
    IN  Clip(Greatest(0, e - length), e)

WithRolls(c, match, p, duration) ==
    Bounded(Clip(Greatest(0, ContextStart(c) - p.pre),
                 Least(duration, ContextEnd(c) + p.post)), match)

\* "expanded clip to minimum duration": around the middle of the context.
Expanded(clip, c, match, p, duration) ==
    IF clip.end - clip.start < p.minimum
    THEN Bounded(Placed((ContextStart(c) + ContextEnd(c)) \div 2 - p.minimum \div 2,
                        p.minimum, duration), match)
    ELSE clip

\* Mutant of Clamped: the clip is cut without a look at its length.
ClampedByRolls(clip, c, match, p, duration) == clip

\* "clamped clip to maximum duration": around the start of the context.
Clamped(clip, c, match, p, duration) ==
    IF clip.end - clip.start > p.maximum
    THEN Bounded(Placed(ContextStart(c) - p.maximum \div 2, p.maximum, duration), match)
    ELSE clip

BeforeFallback(c, match, p, duration) ==
    Clamped(Expanded(WithRolls(c, match, p, duration), c, match, p, duration),
            c, match, p, duration)

\* The clip: "fallback event interval used" when nothing is left of it.
DerivedClip(c, match, p, duration) ==
    LET clip == BeforeFallback(c, match, p, duration)
        usable == IF clip.end =< clip.start THEN Clip(c.start, c.end) ELSE clip
    IN  Clip(Greatest(0, usable.start), Least(duration, usable.end))

\* A candidate the maps hold: in the source, and with its setup and its payoff
\* in its match (references_are_consistent).  The setup of one that was merged
\* may follow its start, and the payoff precede its end.
IsMoment(c, match, duration) ==
    /\ c.start \in Nat /\ c.end \in Nat /\ c.start < c.end /\ c.end =< duration
    /\ c.setup # None => c.setup \in Nat
    /\ c.payoff # None => c.payoff \in Nat /\ c.payoff =< duration
    /\ match # None =>
        /\ match.start \in Nat /\ match.end \in Nat
        /\ Within(EffectiveStart(c), EffectiveEnd(c), match)

\* What a clip owes to its moment: it is not empty, lies in the source and in
\* the match, is no longer than the policy allows, and holds the beginning of
\* the moment; and it holds the whole moment when that is short enough.
ClipIsSound(clip, c, match, p, duration) ==
    /\ 0 =< clip.start /\ clip.start < clip.end /\ clip.end =< duration
    /\ match # None => Within(clip.start, clip.end, match)
    /\ clip.end - clip.start =< p.maximum
    /\ clip.start =< ContextStart(c) /\ ContextStart(c) < clip.end
    /\ (ContextEnd(c) - ContextStart(c)) + p.pre + p.post =< p.maximum
            => ContextEnd(c) =< clip.end
===============================================================================
