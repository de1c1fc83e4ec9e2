------------------------------ MODULE MCScoutMaps ------------------------------
(* Instances of ScoutMaps: a second has four units of time; every small plan, *)
(* and one plan of two overlapping windows whose answers vary.               *)
EXTENDS ScoutMaps

MCAsked == {[duration |-> 12, max |-> 8, overlap |-> 4, limit |-> 4]}
MCInputs ==
    [duration : 0..9, max : 0..5, overlap : -1..3, limit : 0..3]
        \cup [duration : 10..26, max : {9, 12}, overlap : {0, 3, 8}, limit : {4}]
        \cup MCAsked

Seconds(p) == [pre |-> p[1] * Second, post |-> p[2] * Second,
               minimum |-> p[3] * Second, maximum |-> p[4] * Second]
MCPolicies == {Seconds(<<0, 0, 1, 1>>), Seconds(<<1, 1, 1, 2>>), Seconds(<<1, 0, 2, 3>>)}

\* Matches: none, the whole window, one that names no ordinal, a later and an
\* earlier part of the window, two parts, two parts that overlap.
MCMatches == {
    <<>>,
    <<MatchFragment(0, 8, 0, None, 50, <<>>)>>,
    <<MatchFragment(0, 8, None, 100, 60, <<>>)>>,
    <<MatchFragment(2, 8, 2, 100, 60, <<>>)>>,
    <<[MatchFragment(0, 5, 3, 101, 40, <<>>) EXCEPT !.provider = 7]>>,
    <<MatchFragment(0, 4, 0, 100, 50, <<Fragment(0, 2, 1)>>),
      MatchFragment(4, 8, 1, 101, 70, <<>>)>>,
    <<MatchFragment(0, 5, 0, 100, 50, <<>>), MatchFragment(4, 8, 1, 101, 50, <<>>)>> }

\* Moments: events early and late in the window, some with a setup or a
\* payoff, one that leaves the window, two that refer to a match.
MCMoments == {
    Fragment(0, 2, 1), Fragment(4, 6, 1), Fragment(5, 7, 1), Fragment(6, 8, 2),
    Fragment(1, 3, 1), Fragment(7, 9, 1),
    [Fragment(4, 6, 1) EXCEPT !.setup = 0],
    [Fragment(4, 6, 1) EXCEPT !.setup = 2, !.payoff = 8],
    [Fragment(0, 2, 1) EXCEPT !.payoff = 3],
    [Fragment(0, 2, 1) EXCEPT !.index = 0],
    [Fragment(1, 4, 1) EXCEPT !.match = 7],
    [Fragment(5, 8, 1) EXCEPT !.payoff = 8, !.provider = 9],
    [Fragment(5, 7, 1) EXCEPT !.setup = 5],
    Fragment(3, 6, 1), Fragment(2, 4, 1) }

MCCandidates ==
    {<<>>} \cup {<<f>> : f \in MCMoments}
    \cup {<<f, g>> : f \in {Fragment(0, 2, 1), Fragment(4, 6, 1), [Fragment(5, 7, 1) EXCEPT !.setup = 3]}, g \in MCMoments}

MCAnswers(window, duration) ==
    {Answer("window_relative", window, duration, m, c) : m \in MCMatches, c \in MCCandidates}
    \cup {Answer("source_relative", None, duration, m, <<f>>) :
            m \in {<<>>, <<MatchFragment(0, 10, 4, 100, 60, <<>>)>>},
            f \in {Fragment(5, 7, 1), Fragment(10, 14, 1), Fragment(10, 15, 1)}}
    \cup {[Answer("window_relative", window, duration, <<>>, <<>>) EXCEPT !.windowEnd = @ + 1]}
===============================================================================
