------------------------------- MODULE ScoutMaps -------------------------------
(***************************************************************************)
(* From the plan of windows to the map of a session: the planner of        *)
(* WindowPlan.tla, an answer for every window, its canonicalization        *)
(* (Canonical.tla), the reconciliation of the windows (Reconcile.tla) and  *)
(* the clips (ClipBounds.tla), in the order of analyze_m6_source           *)
(* (pipeline/runner.py).  The offline scouts answer with their built-in    *)
(* fixtures; a paid one with anything Answers allows.                      *)
(***************************************************************************)
EXTENDS WindowPlan, Canonical, Reconcile, ClipBounds

CONSTANTS
    Answers(_, _),  \* the answers of a provider for a window of a source
    Asked,          \* bound: the plans whose windows a provider is asked about
    Policies        \* extraction policies

ASSUME MapsAssumption == Asked \subseteq Inputs /\ \A p \in Policies : IsPolicy(p)

VARIABLES
    maps,       \* the canonical maps, one for each window answered
    rest,       \* what the loop of the reconciliation has not taken yet
    joined,     \* the matches of its first loop
    kept,       \* those of its second loop
    events,     \* the candidates of its third loop
    sessionMap, \* the map of the session
    policy,     \* the policy its clips were derived with
    stage       \* what has become of the session

loopVars == <<rest, joined, kept, events>>
vars == <<planVars, maps, loopVars, sessionMap, policy, stage>>

Loops == {"matching", "separating", "deduplicating"}
Stages == Loops \cup
    {"scouting", "refused", "unreadable_fixture", "reconciled", "failed", "written"}

Init ==
    /\ PlanInit
    /\ maps = <<>> /\ sessionMap = None /\ policy = None
    /\ rest = {} /\ joined = <<>> /\ kept = <<>> /\ events = <<>>
    /\ stage = "scouting"

Plan ==
    /\ PlanNext
    /\ UNCHANGED <<maps, loopVars, sessionMap, policy, stage>>

-------------------------------------------------------------------------------
Fragment(start, end, category) ==
    [start |-> start, end |-> end, category |-> category, setup |-> None, payoff |-> None,
     index |-> None, match |-> None, provider |-> None]
MatchFragment(start, end, ordinal, label, confidence, candidates) ==
    [start |-> start, end |-> end, ordinal |-> ordinal, label |-> label,
     confidence |-> confidence, provider |-> None, candidates |-> candidates]
Answer(basis, window, duration, matches, candidates) ==
    [duration |-> duration, basis |-> basis, matches |-> matches, candidates |-> candidates,
     windowStart |-> IF basis = "window_relative" THEN window.start ELSE 0,
     windowEnd |-> IF basis = "window_relative" THEN window.end ELSE None]

\* FakeWindowScout.generate: one match over the window, and a second in the
\* middle of it when it is two seconds long.
WindowFixture(window, duration) ==
    LET length == window.end - window.start
        start == Greatest(0, length \div 2 - Second \div 2)
        moment == [Fragment(start, Least(length, start + Second), 1) EXCEPT !.index = 0]
    IN  Answer("window_relative", window, duration,
               <<MatchFragment(0, length, window.ordinal, window.ordinal, 55, <<>>)>>,
               IF length >= 2 * Second THEN <<moment>> ELSE <<>>)

\* build_builtin_response: an opening, a match with one or two moments.
SessionFixture(duration) ==
    LET opening == Greatest(1, duration \div 3)
        length == Greatest(1, duration - opening)
        first == IF length = 1 THEN opening ELSE opening + length \div 4
        firstEnd == IF length = 1 THEN duration
                    ELSE Least(duration, first + Greatest(1, length \div 3))
        second == Least(duration - 1, first + Greatest(1, length \div 5))
        secondEnd == Least(duration, second + Greatest(1, length \div 3))
        moments == <<Fragment(first, Greatest(first + 1, firstEnd), 1)>> \o
                   IF length = 1 \/ secondEnd =< second THEN <<>>
                   ELSE <<Fragment(second, secondEnd, 2)>>
    IN  Answer("source_relative", None, duration,
               IF duration = 1 THEN <<MatchFragment(0, 1, 0, 0, 50, <<>>)>>
               ELSE <<MatchFragment(0, opening, 0, 0, 62, <<>>),
                      MatchFragment(opening, duration, 1, 1, 78, moments)>>, <<>>)

-------------------------------------------------------------------------------
Unanswered == phase = "planned" /\ stage = "scouting" /\ Len(maps) < Len(windows)
NextWindow == windows[Len(maps) + 1]

\* One window: its answer is canonicalized, or refused and the run stops.
TakeAnswer(r, refusal) ==
    IF IsAccepted(r, NextWindow, NextWindow.ordinal, input.duration)
    THEN /\ maps' = Append(maps, CanonicalMap(r, NextWindow.ordinal, input.duration))
         /\ UNCHANGED stage
    ELSE stage' = refusal /\ UNCHANGED maps

AskProvider ==
    /\ Unanswered /\ input \in Asked
    /\ \E r \in Answers(NextWindow, input.duration) : TakeAnswer(r, "refused")
    /\ UNCHANGED <<planVars, loopVars, sessionMap, policy>>

AskFixture ==
    /\ Unanswered
    /\ TakeAnswer(WindowFixture(NextWindow, input.duration), "unreadable_fixture")
    /\ UNCHANGED <<planVars, loopVars, sessionMap, policy>>

\* generate_scout: the offline scout of the whole source, without windows.
AskSessionFixture ==
    /\ phase = "planning" /\ windows = <<>> /\ stage = "scouting"
    /\ LET r == SessionFixture(input.duration)
       IN  IF IsAccepted(r, None, 0, input.duration)
           THEN stage' = "reconciled" /\ sessionMap' = CanonicalMap(r, 0, input.duration)
           ELSE stage' = "unreadable_fixture" /\ UNCHANGED sessionMap
    /\ UNCHANGED <<planVars, maps, loopVars, policy>>

-------------------------------------------------------------------------------
\* reconcile_session_maps: its three loops, in the order of their sorts, which
\* are stable.  A place is a map and an index in it; maps of another duration
\* are left out.
Ranges == [w \in 0..(Len(windows) - 1) |-> windows[w + 1]]
Usable == {w \in DOMAIN maps : maps[w].duration = input.duration}
MatchPlaces == UNION {{w} \X DOMAIN maps[w].matches : w \in Usable}
CandidatePlaces == UNION {{w} \X DOMAIN maps[w].candidates : w \in Usable}

Places ==
    CASE stage = "matching" -> MatchPlaces
      [] stage = "separating" -> DOMAIN joined
      [] stage = "deduplicating" -> CandidatePlaces
      [] OTHER -> {}

Key(p) ==
    CASE stage = "matching" -> FragmentKey(maps[p[1]].matches[p[2]]) \o p
      [] stage = "separating" -> MatchKey(joined[p]) \o <<p>>
      [] stage = "deduplicating" -> CandidateKey(maps[p[1]].candidates[p[2]]) \o p

\* The next turn of a loop takes p.
IsNext(p) == p \in rest /\ \A q \in rest \ {p} : Before(Key(p), Key(q))

StartReconciliation ==
    /\ phase = "planned" /\ stage = "scouting" /\ Len(maps) = Len(windows)
    /\ stage' = "matching" /\ rest' = MatchPlaces
    /\ UNCHANGED <<planVars, maps, joined, kept, events, sessionMap, policy>>

JoinMatch ==
    /\ stage = "matching"
    /\ \E p \in rest : /\ IsNext(p)
                       /\ joined' = AddMatch(joined, maps[p[1]].matches[p[2]])
                       /\ rest' = rest \ {p}
    /\ UNCHANGED <<planVars, maps, kept, events, sessionMap, policy, stage>>

SeparateMatches ==
    /\ stage = "matching" /\ rest = {}
    /\ stage' = "separating" /\ rest' = DOMAIN joined
    /\ UNCHANGED <<planVars, maps, joined, kept, events, sessionMap, policy>>

KeepMatch ==
    /\ stage = "separating"
    /\ \E p \in rest : /\ IsNext(p)
                       /\ kept' = KeepDisjoint(kept, joined[p])
                       /\ rest' = rest \ {p}
    /\ UNCHANGED <<planVars, maps, joined, events, sessionMap, policy, stage>>

NameMatches ==
    /\ stage = "separating" /\ rest = {}
    /\ stage' = "deduplicating" /\ rest' = CandidatePlaces
    /\ kept' = WithMatchIds(kept)
    /\ UNCHANGED <<planVars, maps, joined, events, sessionMap, policy>>

TakeCandidate ==
    /\ stage = "deduplicating"
    /\ \E p \in rest :
        /\ IsNext(p)
        /\ events' = AddCandidate(events, maps[p[1]].candidates[p[2]], kept, Ranges)
        /\ rest' = rest \ {p}
    /\ UNCHANGED <<planVars, maps, joined, kept, sessionMap, policy, stage>>

\* The map of the session is made and validated.
EndReconciliation ==
    /\ stage = "deduplicating" /\ rest = {}
    /\ LET map == ReconciledMap(events, kept, input.duration)
       IN  /\ stage' = IF ReferencesAreConsistent(map) THEN "reconciled" ELSE "failed"
           /\ sessionMap' = map
    /\ UNCHANGED <<planVars, maps, loopVars, policy>>

Reconcile ==
    \/ StartReconciliation \/ JoinMatch \/ SeparateMatches \/ KeepMatch
    \/ NameMatches \/ TakeCandidate \/ EndReconciliation

-------------------------------------------------------------------------------
\* derive_clip_boundaries
WithClips(map, p) ==
    LET Clipped(c) == [c EXCEPT !.clip = DerivedClip(c, MatchOf(map, c), p, map.duration)]
    IN  [map EXCEPT !.candidates = [i \in DOMAIN @ |-> Clipped(@[i])]]

\* By the runner, and again by the extraction, which may have another policy;
\* the map is written without a look by the validator.
DeriveClips ==
    /\ stage \in {"reconciled", "written"}
    /\ \E p \in Policies : policy' = p /\ sessionMap' = WithClips(sessionMap, p)
    /\ stage' = "written"
    /\ UNCHANGED <<planVars, maps, loopVars>>

Next == Plan \/ AskProvider \/ AskFixture \/ AskSessionFixture \/ Reconcile \/ DeriveClips
Spec == Init /\ [][Next]_vars

-------------------------------------------------------------------------------
\* Types of the variables; every map of a window passed the validator, and what
\* a loop has not taken is a fragment of what it goes through.
TypeOK ==
    /\ PlanTypeOK
    /\ stage \in Stages
    /\ policy \in Policies \cup {None}
    /\ Len(maps) =< Len(windows)
    /\ \A i \in DOMAIN maps : IsSessionMap(maps[i])
    /\ rest \subseteq Places

\* A candidate reaches over a moment of its category, with the setup and the
\* payoff, and names the moment's window.
Holds(c, seen) ==
    /\ c.category = seen.category
    /\ seen.windows \subseteq c.windows
    /\ Within(seen.start, seen.end, c)
    /\ Within(EffectiveStart(seen), EffectiveEnd(seen), Effective(c))

\* A moment the scouts reported is in the map of the session, whatever it was
\* merged with, and its window is among those of the event (up to the 32 that an
\* event may name).
NothingReportedIsLost ==
    stage \in {"reconciled", "written"} =>
        \A i \in DOMAIN maps : \A k \in DOMAIN maps[i].candidates :
            \E n \in DOMAIN sessionMap.candidates :
                Holds(sessionMap.candidates[n], maps[i].candidates[k])

\* The clips that are put into a map by model_copy, past its validator, leave
\* it one that the validator would have accepted.
WrittenMapIsConsistent == stage = "written" => ReferencesAreConsistent(sessionMap)

\* The clips of a written map are sound under the policy they were derived
\* with (ClipIsSound of ClipBounds.tla).
ClipsHoldTheirMoments ==
    stage = "written" =>
        \A i \in DOMAIN sessionMap.candidates :
            LET c == sessionMap.candidates[i]
            IN  ClipIsSound(c.clip, c, MatchOf(sessionMap, c), policy, input.duration)

\* The session map of accepted windows is refused for a candidate only: two
\* that were not merged are one event under one id, or the setup or payoff that
\* one got from another view leaves its match.  Its matches never are a reason.
RefusedForCandidates ==
    stage = "failed" =>
        \/ ~IsInjective(Ids(sessionMap.candidates))
        \/ \E i \in DOMAIN sessionMap.candidates :
            LET c == sessionMap.candidates[i]
            IN  /\ c.match # None
                /\ ~Within(EffectiveStart(c), EffectiveEnd(c), MatchOf(sessionMap, c))

\* The map that is written can be loaded again by the report command and the
\* benchmark: through the validators of its records too.
WrittenMapLoads == stage = "written" => IsSessionMap(sessionMap)
===============================================================================
