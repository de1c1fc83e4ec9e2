------------------------------- MODULE Reconcile -------------------------------
(***************************************************************************)
(* reconcile_session_maps of domain/reconcile.py: the maps of overlapping  *)
(* windows become one map of the session.  Matches that continue or repeat *)
(* each other are merged, what still overlaps is dropped; candidates that  *)
(* two windows saw of one event are merged; ids are assigned anew.  Here   *)
(* are the bodies of its loops; ScoutMaps.tla takes their turns.           *)
(***************************************************************************)
EXTENDS SessionMap

Adjacent == Second          \* between two fragments of one labelled match
Jitter == Second \div 2     \* between two views of one candidate

\* The order of sort keys, sequences of integers of one length.
Before(k1, k2) == \E n \in DOMAIN k1 : k1[n] < k2[n] /\ \A m \in 1..(n - 1) : k1[m] = k2[m]

-------------------------------------------------------------------------------
SameLabel(a, b) == a.label # None /\ a.label = b.label

\* _compatible_match
MatchesAreCompatible(a, b) ==
    IF Overlap(a, b) = 0
    THEN /\ SameLabel(a, b)
         /\ -Adjacent =< a.end - b.start /\ a.end - b.start =< Adjacent
    ELSE \/ SameLabel(a, b)
         \/ a.ordinal # None /\ a.ordinal = b.ordinal
         \/ IoUAtLeast(a, b, 1, 4)

OneOf(x, y) == IF x = None THEN y ELSE x
LeastOf(x, y) == IF x # None /\ y # None THEN Least(x, y) ELSE OneOf(x, y)
GreatestOf(x, y) == IF x # None /\ y # None THEN Greatest(x, y) ELSE OneOf(x, y)

\* _merge_match
MergedMatch(a, b) ==
    Match(a.id, LeastOf(a.ordinal, b.ordinal), Least(a.start, b.start),
          Greatest(a.end, b.end), OneOf(a.label, b.label),
          Greatest(a.confidence, b.confidence), a.windows \cup b.windows, {})

\* The sort keys of matches: for the first loop, and for the second.
FragmentKey(m) == <<m.start, m.end, IF m.ordinal = None THEN 0 ELSE m.ordinal>>
MatchKey(m) == <<m.start, m.end>>

\* A fragment is merged into the last match, replaces it, is dropped, or
\* follows it.
AddMatch(merged, fragment) ==
    IF merged = <<>> THEN <<fragment>>
    ELSE LET previous == Last(merged)
             WithLast(m) == [merged EXCEPT ![Len(merged)] = m]
         IN  IF MatchesAreCompatible(previous, fragment)
             THEN WithLast(MergedMatch(previous, fragment))
             ELSE IF Overlap(previous, fragment) = 0 THEN Append(merged, fragment)
             ELSE IF fragment.confidence > previous.confidence THEN WithLast(fragment)
             ELSE merged

\* A match that still overlaps the one before it is dropped.
KeepDisjoint(kept, fragment) ==
    IF kept # <<>> /\ fragment.start < Last(kept).end THEN kept ELSE Append(kept, fragment)

WithMatchIds(matches) ==
    [i \in DOMAIN matches |->
        [matches[i] EXCEPT !.id = MatchId(matches[i].start, matches[i].end, matches[i].ordinal)]]

-------------------------------------------------------------------------------
\* The sort key of the candidates.
CandidateKey(c) == <<c.start, c.end, c.category>>

\* The first match that holds the context of a candidate.
AssignMatch(c, matches) ==
    LET match == FirstOf(matches, {i \in DOMAIN matches :
                                    Within(ContextStart(c), ContextEnd(c), matches[i])})
    IN  [c EXCEPT !.match = IF match = None THEN None ELSE match.id]

\* Two candidates come from windows that overlap in the source; ranges gives
\* the window of each ordinal.
OverlappingLineage(a, b, ranges) ==
    \E i \in a.windows, j \in b.windows : Overlap(ranges[i], ranges[j]) > 0

WithinJitter(x, y) == -Jitter =< x - y /\ x - y =< Jitter

\* _candidate_compatible: one event, seen twice.
IsSameEvent(a, b, ranges) ==
    /\ a.category = b.category
    /\ a.windows \cap b.windows # {} \/ OverlappingLineage(a, b, ranges)
    /\ \/ IoUAtLeast(Effective(a), Effective(b), 1, 2)
       \/ /\ WithinJitter(EffectiveStart(a), EffectiveStart(b))
          /\ WithinJitter(EffectiveEnd(a), EffectiveEnd(b))

\* Mutant of MergedCandidate: the later end is lost.
MergedByStart(a, b) ==
    [a EXCEPT !.start = Least(a.start, b.start),
              !.setup = LeastOf(a.setup, b.setup), !.payoff = GreatestOf(a.payoff, b.payoff),
              !.windows = a.windows \cup b.windows]

\* _merge_candidate: the match and the clip of the first one stay.  (The code
\* keeps the first 32 windows.)
MergedCandidate(a, b) ==
    [a EXCEPT !.start = Least(a.start, b.start), !.end = Greatest(a.end, b.end),
              !.setup = LeastOf(a.setup, b.setup), !.payoff = GreatestOf(a.payoff, b.payoff),
              !.windows = a.windows \cup b.windows]

\* A fragment is merged into the first candidate that is the same event, or
\* follows the candidates.
AddCandidate(moments, fragment, matches, ranges) ==
    LET c == AssignMatch(fragment, matches)
        same == {i \in DOMAIN moments : IsSameEvent(moments[i], c, ranges)}
    IN  IF same = {} THEN Append(moments, c)
        ELSE [moments EXCEPT ![Min(same)] = MergedCandidate(@, c)]

\* A merged event that outgrew its match is left without one; the id is made
\* of the event and the match, and not of the context.
FinalCandidate(c, matches) ==
    LET match == MatchWithId(matches, c.match)
        id == IF match = None \/ ~Within(c.start, c.end, match) THEN None ELSE match.id
    IN  [c EXCEPT !.match = id, !.id = CandidateId(id, c.start, c.end, c.category)]

\* Mutant of ReconciledMap: the matches list their candidates too early.
ReconciledWithOldIds(moments, matches, duration) ==
    [duration |-> duration, matches |-> WithCandidateIds(matches, moments),
     candidates |-> [i \in DOMAIN moments |-> FinalCandidate(moments[i], matches)]]

\* The map handed to the validator of SessionMap: its records are copies that
\* no validator has seen since they were merged.
ReconciledMap(moments, matches, duration) ==
    LET candidates == [i \in DOMAIN moments |-> FinalCandidate(moments[i], matches)]
    IN  [duration |-> duration, matches |-> WithCandidateIds(matches, candidates),
         candidates |-> candidates]
===============================================================================
