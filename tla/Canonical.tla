------------------------------- MODULE Canonical -------------------------------
(***************************************************************************)
(* The trust boundary of the scouts, domain/canonical.py: an answer of a   *)
(* provider is either refused as a whole or turned into a canonical map in *)
(* source time.                                                            *)
(*                                                                         *)
(* An answer has a time basis, the bounds of the window it speaks of,      *)
(* match fragments and candidate fragments, nested in a match or not.  A   *)
(* window is the authoritative one of the request, or None when the whole  *)
(* source was sent.  Left out: the JSON syntax, the sizes of collections   *)
(* and the evidence, which is checked like the timestamps here.            *)
(***************************************************************************)
EXTENDS SessionMap

\* MAX_BOUNDARY_CLAMP_MS, MAX_CANDIDATE_DURATION_MS
EndSlack == Second \div 2
LongestMoment == 900 * Second

WindowRelative(r) == r.basis = "window_relative"
Offset(r) == IF WindowRelative(r) THEN r.windowStart ELSE 0
WindowLength(r) ==
    IF WindowRelative(r) /\ r.windowEnd # None THEN r.windowEnd - r.windowStart ELSE None

\* The answer speaks of the window that was sent (validate_time_basis, and the
\* authoritative bounds); an answer in source time is compared with no window.
BoundsAgree(r, window, duration) ==
    IF WindowRelative(r)
    THEN /\ window # None => r.windowStart = window.start /\ r.windowEnd = window.end
         /\ r.windowEnd # None => r.windowStart < r.windowEnd /\ r.windowEnd =< duration
    ELSE r.windowStart = 0 /\ r.windowEnd = None

\* normalize_timestamp_ms: which timestamps are refused, and the source time
\* of the others; only an end may lie a little behind the source.
InTime(t, r, duration, slack) ==
    /\ 0 =< t
    /\ WindowLength(r) # None => t =< WindowLength(r)
    /\ t + Offset(r) =< duration + slack

Normal(t, r, duration) == Least(t + Offset(r), duration)
NormalOrNone(t, r, duration) == IF t = None THEN None ELSE Normal(t, r, duration)

\* normalize_interval
IntervalIsAccepted(f, r, duration) ==
    /\ InTime(f.start, r, duration, 0) /\ InTime(f.end, r, duration, EndSlack)
    /\ Normal(f.start, r, duration) < Normal(f.end, r, duration)

-------------------------------------------------------------------------------
\* The matches.
FragmentMatchId(r, i, duration) ==
    LET f == r.matches[i]
    IN  MatchId(Normal(f.start, r, duration), Normal(f.end, r, duration),
                IF f.ordinal = None THEN i - 1 ELSE f.ordinal)

CanonicalMatch(r, i, source, duration) ==
    LET f == r.matches[i]
    IN  Match(FragmentMatchId(r, i, duration), f.ordinal, Normal(f.start, r, duration),
              Normal(f.end, r, duration), f.label, f.confidence, {source}, {})

Providers(s) == SelectSeq([i \in DOMAIN s |-> s[i].provider], LAMBDA p : p # None)

MatchesAreAccepted(r, duration) ==
    /\ \A i \in DOMAIN r.matches : IntervalIsAccepted(r.matches[i], r, duration)
    /\ IsInjective(Providers(r.matches))
    /\ IsInjective([i \in DOMAIN r.matches |-> FragmentMatchId(r, i, duration)])

-------------------------------------------------------------------------------
\* The candidate fragments, each with the match that contains it: those of the
\* matches first, then the free ones.
Fragments(r) ==
    LET With(s, i) == [k \in DOMAIN s |-> [fragment |-> s[k], containing |-> i]]
    IN  FlattenSeq([i \in DOMAIN r.matches |-> With(r.matches[i].candidates, i)])
        \o With(r.candidates, None)

\* _candidate_match_id: by the containing match, by index, by provider id.
References(x, r) ==
    {i \in DOMAIN r.matches :
        \/ i = x.containing
        \/ i - 1 = x.fragment.index
        \/ x.fragment.match # None /\ r.matches[i].provider = x.fragment.match}

ReferenceIsAccepted(x, r) ==
    /\ x.fragment.index # None => x.fragment.index + 1 \in DOMAIN r.matches
    /\ x.fragment.match # None =>
        \E i \in DOMAIN r.matches : r.matches[i].provider = x.fragment.match
    /\ \A i, j \in References(x, r) : i = j

ReferredMatch(x, r, duration) ==
    IF References(x, r) = {} THEN None
    ELSE FragmentMatchId(r, CHOOSE i \in References(x, r) : TRUE, duration)

\* _candidate_has_timestamp_outside_window: such a candidate is dropped.
OutOfWindow(f, r) ==
    /\ WindowLength(r) # None
    /\ \E t \in {f.start, f.end, f.setup, f.payoff} \ {None} : t > WindowLength(r)

Kept(r) == SelectSeq(Fragments(r), LAMBDA x : ~OutOfWindow(x.fragment, r))

\* Exact duplicates are dropped: the first one counts.
Meaning(x, r, duration) ==
    CandidateId(ReferredMatch(x, r, duration), Normal(x.fragment.start, r, duration),
                Normal(x.fragment.end, r, duration), x.fragment.category)

Distinct(r, duration) ==
    FoldLeft(LAMBDA seen, x :
                IF \E i \in DOMAIN seen : Meaning(seen[i], r, duration) = Meaning(x, r, duration)
                THEN seen ELSE Append(seen, x),
             <<>>, Kept(r))

\* _optional_timestamp of the setup and of the payoff, in order with the event
ContextIsAccepted(f, r, duration) ==
    /\ f.setup # None => InTime(f.setup, r, duration, 0) /\ f.setup =< f.start
    /\ f.payoff # None =>
        /\ InTime(f.payoff, r, duration, EndSlack)
        /\ Normal(f.end, r, duration) =< Normal(f.payoff, r, duration)

CandidatesAreAccepted(r, duration) ==
    /\ \A i \in DOMAIN Fragments(r) : ReferenceIsAccepted(Fragments(r)[i], r)
    /\ IsInjective(Providers([i \in DOMAIN Kept(r) |-> Kept(r)[i].fragment]))
    /\ \A i \in DOMAIN Kept(r) :
        LET f == Kept(r)[i].fragment
        IN  /\ IntervalIsAccepted(f, r, duration)
            /\ Normal(f.end, r, duration) - Normal(f.start, r, duration) =< LongestMoment
    /\ LET distinct == Distinct(r, duration)
       IN  \A i \in DOMAIN distinct : ContextIsAccepted(distinct[i].fragment, r, duration)

CanonicalCandidate(x, r, source, duration) ==
    LET f == x.fragment
        id == Meaning(x, r, duration)
        setup == NormalOrNone(f.setup, r, duration)
        payoff == NormalOrNone(f.payoff, r, duration)
    IN  [id |-> id, match |-> id[1], start |-> id[2], end |-> id[3], category |-> id[4],
         setup |-> setup, payoff |-> payoff, windows |-> {source},
         clip |-> [start |-> IF setup = None THEN id[2] ELSE setup,
                   end |-> IF payoff = None THEN id[3] ELSE payoff]]

-------------------------------------------------------------------------------
CanonicalMap(r, source, duration) ==
    LET distinct == Distinct(r, duration)
        candidates == [i \in DOMAIN distinct |->
                          CanonicalCandidate(distinct[i], r, source, duration)]
        matches == [i \in DOMAIN r.matches |-> CanonicalMatch(r, i, source, duration)]
    IN  [duration |-> duration, matches |-> WithCandidateIds(matches, candidates),
         candidates |-> candidates]

\* Mutant of IsAccepted: the canonical map is not validated.
IsAcceptedUnvalidated(r, window, source, duration) ==
    /\ r.duration = duration
    /\ BoundsAgree(r, window, duration)
    /\ MatchesAreAccepted(r, duration)
    /\ CandidatesAreAccepted(r, duration)

\* canonicalize_scout_response returns CanonicalMap, or raises.
IsAccepted(r, window, source, duration) ==
    /\ r.duration = duration
    /\ BoundsAgree(r, window, duration)
    /\ MatchesAreAccepted(r, duration)
    /\ CandidatesAreAccepted(r, duration)
    /\ IsSessionMap(CanonicalMap(r, source, duration))
===============================================================================
