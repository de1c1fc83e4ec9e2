------------------------------ MODULE SessionMap ------------------------------
(***************************************************************************)
(* The canonical map of a session, domain/models.py: its records, the ids  *)
(* that are hashes of what they name, and its validators: those of the     *)
(* records run when a record is made or loaded, and neither when it is     *)
(* copied with model_copy nor when it is put into a map.                   *)
(*                                                                         *)
(* Abstractions: an id is the tuple it is the hash of; a category is its   *)
(* rank in alphabetical order; a source window is its ordinal; the         *)
(* candidate ids of a match are a set (one listed twice is refused with    *)
(* its duplicate); evidence, reasons, scores and warnings are left out.    *)
(***************************************************************************)
EXTENDS Intervals, Sequences, SequencesExt

\* deterministic_match_id, deterministic_candidate_id
MatchId(start, end, ordinal) == <<start, end, ordinal>>
CandidateId(matchId, start, end, category) == <<matchId, start, end, category>>

Match(id, ordinal, start, end, label, confidence, sources, candidates) ==
    [id |-> id, ordinal |-> ordinal, start |-> start, end |-> end, label |-> label,
     confidence |-> confidence, windows |-> sources, candidates |-> candidates]

Ids(s) == [i \in DOMAIN s |-> s[i].id]

\* The first of the elements found, or None: next((...), None).
FirstOf(s, found) == IF found = {} THEN None ELSE s[Min(found)]

MatchWithId(matches, id) ==
    IF id = None THEN None ELSE FirstOf(matches, {i \in DOMAIN matches : matches[i].id = id})

MatchOf(map, c) == MatchWithId(map.matches, c.match)

\* strict_match_integer and match_interval_is_ordered of Match: the field ordinal
\* is optional, and its validator refuses it absent.
MatchIsValid(m) ==
    /\ m.ordinal # None
    /\ m.start \in Nat /\ m.end \in Nat /\ m.start < m.end

\* strict_candidate_integer and candidate_intervals_are_ordered of Candidate
CandidateIsValid(c) ==
    /\ {c.start, c.end, c.clip.start, c.clip.end} \subseteq Nat
    /\ {c.setup, c.payoff} \subseteq Nat \cup {None}
    /\ c.start < c.end
    /\ c.setup # None => c.setup =< c.start
    /\ c.payoff # None => c.end =< c.payoff
    /\ c.clip.start < c.clip.end

\* references_are_consistent of SessionMap, the matches: no two overlap.
MatchesAreDisjoint(map) ==
    \A i, j \in DOMAIN map.matches :
        i # j => Overlap(map.matches[i], map.matches[j]) = 0

MatchesAreConsistent(map) ==
    /\ IsInjective(Ids(map.matches))
    /\ MatchesAreDisjoint(map)
    /\ \A i \in DOMAIN map.matches :
        /\ Within(map.matches[i].start, map.matches[i].end, [start |-> 0, end |-> map.duration])
        /\ map.matches[i].candidates \subseteq Range(Ids(map.candidates))

\* The same, a candidate with its context and its clip.
CandidateIsConsistent(map, c) ==
    /\ \A t \in {c.end, c.setup, c.payoff, c.clip.start, c.clip.end} \ {None} :
        t =< map.duration
    /\ c.match # None => \E i \in DOMAIN map.matches : map.matches[i].id = c.match
    /\ MatchOf(map, c) # None =>
        /\ c.id \in MatchOf(map, c).candidates
        /\ Within(Least(EffectiveStart(c), c.clip.start),
                  Greatest(EffectiveEnd(c), c.clip.end), MatchOf(map, c))

\* The validator of SessionMap itself: all that runs when a map is built of
\* matches and candidates that are objects already.
ReferencesAreConsistent(map) ==
    /\ MatchesAreConsistent(map)
    /\ IsInjective(Ids(map.candidates))
    /\ \A i \in DOMAIN map.candidates : CandidateIsConsistent(map, map.candidates[i])

\* A map whose matches and candidates are validated too: made of new ones by
\* canonicalization, or loaded from its file.
IsSessionMap(map) ==
    /\ \A i \in DOMAIN map.matches : MatchIsValid(map.matches[i])
    /\ \A i \in DOMAIN map.candidates : CandidateIsValid(map.candidates[i])
    /\ ReferencesAreConsistent(map)

\* The candidates of a map listed by their matches.
WithCandidateIds(matches, candidates) ==
    [i \in DOMAIN matches |->
        [matches[i] EXCEPT !.candidates =
            {candidates[k].id : k \in {n \in DOMAIN candidates :
                                            candidates[n].match = matches[i].id}}]]
===============================================================================
