---------------------------- MODULE ScoutMapsProofs ----------------------------
(***************************************************************************)
(* Proofs about the way from the plan of windows to the map of a session:  *)
(* the planner, the clips, and the reconciliation between them, for every  *)
(* source, policy and answer of a provider.                                *)
(***************************************************************************)
EXTENDS ScoutMaps, WellFoundedInduction, TLAPS

\* The planner.
Running == {"planning", "cut", "planned"}

\* Every window cut so far: its place in the sequence, its bounds, and where
\* it starts.
Shape ==
    \A i \in 1..Len(windows) :
        /\ windows[i].ordinal = i - 1
        /\ windows[i].start < windows[i].end
        /\ windows[i].end =< input.duration
        /\ windows[i].end - windows[i].start =< input.max
        /\ windows[i].start = IF i = 1 THEN 0 ELSE windows[i - 1].end - input.overlap

\* Moments no longer than the overlap that end before the last cut.
Covered ==
    \A a, b \in Nat :
        (/\ a < b /\ b - a =< Greatest(1, input.overlap)
         /\ windows # <<>> /\ b =< LastWindow.end)
        => \E i \in 1..Len(windows) : Within(a, b, windows[i])

\* The inductive invariant: while the planner runs, its windows have their
\* shape and cover what lies before the last cut.
PlanInv ==
    /\ PlanTypeOK
    /\ phase \notin {"rejected", "stuck"}
    /\ phase \in Running => IsLegal(input) /\ Shape /\ Covered
    /\ phase = "planning" => (windows # <<>> => LastWindow.end < input.duration)
    /\ phase \in {"cut", "planned"} => windows # <<>> /\ LastWindow.end = input.duration

\* The planner starts without windows.
LEMMA PlanInitInv == PlanInit => PlanInv
  <1> SUFFICES ASSUME PlanInit PROVE PlanInv
    OBVIOUS
  <1>1. windows = <<>> /\ Len(windows) = 0
    BY DEF PlanInit
  <1>2. input \in [duration : Int, max : Int, overlap : Int, limit : Int]
    BY InputsAssumption DEF PlanInit
  <1>3. PlanTypeOK
    BY <1>1, <1>2 DEF PlanInit, PlanTypeOK, Phases
  <1>4. Shape /\ Covered
    BY <1>1 DEF Shape, Covered
  <1> QED
    BY <1>1, <1>3, <1>4 DEF PlanInit, PlanInv, Running

\* One turn of the loop keeps the invariant.
LEMMA CutInv == PlanInv /\ Cut => PlanInv'
  <1> SUFFICES ASSUME PlanInv, Cut PROVE PlanInv'
    OBVIOUS
  <1> DEFINE start == NextStart
             end == Least(input.duration, start + input.max)
             next == IF end = input.duration THEN end ELSE end - input.overlap
             before == IF windows = <<>> THEN 0 ELSE Greatest(0, LastWindow.end - start)
             after == IF end = input.duration THEN 0 ELSE Greatest(0, end - next)
             w == [ordinal |-> Len(windows), start |-> start, end |-> end,
                   before |-> before, after |-> after]
             n == Len(windows)
  <1>1. /\ input \in [duration : Int, max : Int, overlap : Int, limit : Int]
        /\ windows \in Seq(Windows) /\ n \in Nat
        /\ IsLegal(input) /\ Shape /\ Covered
        /\ windows # <<>> => LastWindow.end < input.duration
    BY DEF PlanInv, PlanTypeOK, Cut, Running
  <1>2. /\ input.duration \in Nat /\ input.max \in Nat /\ input.overlap \in Nat
        /\ input.limit \in Nat
        /\ 0 < input.duration /\ 0 < input.max /\ input.overlap < input.max
    BY <1>1 DEF IsLegal
  <1>3. windows # <<>> => n \in 1..n /\ LastWindow = windows[n] /\ LastWindow \in Windows
    BY <1>1 DEF LastWindow
  <1>4. /\ start \in Int /\ start < input.duration
        /\ windows = <<>> => start = 0
        /\ windows # <<>> => start = LastWindow.end - input.overlap
    <2>1. CASE windows = <<>>
      BY <2>1, <1>2 DEF NextStart
    <2>2. CASE windows # <<>>
      BY <2>2, <1>1, <1>2, <1>3, SMTT(30) DEF NextStart, Windows
    <2> QED BY <2>1, <2>2
  <1>5. /\ end \in Int /\ start < end /\ end =< input.duration
        /\ end - start =< input.max
        /\ end # input.duration => end = start + input.max
    BY <1>2, <1>4 DEF Least
  <1>6. end # input.duration => next > start /\ next = end - input.overlap /\ next \in Int
    BY <1>2, <1>4, <1>5
  <1>7. before \in Nat /\ before =< end - start
    <2>1. CASE windows = <<>>
      BY <2>1, <1>4, <1>5
    <2>2. CASE windows # <<>>
      <3>1. LastWindow.end \in Int /\ LastWindow.end - start = input.overlap
        BY <2>2, <1>2, <1>3, <1>4 DEF Windows
      <3>2. before = input.overlap
        BY <2>2, <3>1, <1>2 DEF Greatest
      <3>3. input.overlap =< end - start
        BY <2>2, <3>1, <1>1, <1>2, <1>4, <1>5
      <3> QED BY <3>2, <3>3, <1>2
    <2> QED BY <2>1, <2>2
  <1>8. after \in Nat /\ after =< end - start
    BY <1>2, <1>4, <1>5, <1>6 DEF Greatest
  <1>9. /\ windows' = Append(windows, w)
        /\ phase' = IF ~IntervalIsValid(w) THEN "rejected"
                    ELSE IF end = input.duration THEN "cut"
                    ELSE IF Len(windows) + 1 >= input.limit THEN "refused"
                    ELSE IF next =< start THEN "stuck"
                    ELSE "planning"
        /\ input' = input
    BY Zenon DEF Cut
  <1>10. IntervalIsValid(w)
    BY <1>4, <1>5, <1>7, <1>8 DEF IntervalIsValid
  <1>11. /\ phase' \in {"planning", "cut", "refused"}
         /\ phase' = "planning" => end < input.duration
         /\ phase' = "cut" => end = input.duration
    <2>1. phase' = IF end = input.duration THEN "cut"
                   ELSE IF Len(windows) + 1 >= input.limit THEN "refused"
                   ELSE IF next =< start THEN "stuck"
                   ELSE "planning"
      BY <1>9, <1>10, Zenon
    <2>2. CASE end = input.duration
      BY <2>1, <2>2
    <2>3. CASE end # input.duration
      <3>1. end < input.duration /\ ~(next =< start)
        BY <2>3, <1>2, <1>4, <1>5, <1>6
      <3> HIDE DEF next, start, end
      <3> QED BY <2>1, <2>3, <3>1
    <2> QED BY <2>2, <2>3
  <1>12. w \in Windows /\ w.start = start /\ w.end = end /\ w.ordinal = n
    BY <1>1, <1>4, <1>5, <1>7, <1>8 DEF Windows
  <1> HIDE DEF w, start, end, next, before, after
  <1>13. /\ windows' \in Seq(Windows) /\ Len(windows') = n + 1
         /\ windows' # <<>> /\ windows'[n + 1] = w /\ LastWindow' = w
         /\ \A i \in 1..n : windows'[i] = windows[i]
    BY <1>1, <1>9, <1>12 DEF LastWindow
  <1>14. Shape'
    <2> SUFFICES ASSUME NEW i \in 1..(n + 1)
                 PROVE /\ windows'[i].ordinal = i - 1
                       /\ windows'[i].start < windows'[i].end
                       /\ windows'[i].end =< input.duration
                       /\ windows'[i].end - windows'[i].start =< input.max
                       /\ windows'[i].start = IF i = 1 THEN 0
                                              ELSE windows'[i - 1].end - input.overlap
      BY <1>9, <1>13 DEF Shape
    <2>1. CASE i \in 1..n
      <3>1. windows'[i] = windows[i] /\ (i # 1 => windows'[i - 1] = windows[i - 1])
        BY <2>1, <1>1, <1>13
      <3> QED BY <2>1, <3>1, <1>1 DEF Shape
    <2>2. CASE i = n + 1
      <3>1. windows'[i] = w
        BY <2>2, <1>13
      <3>2. w.start = IF i = 1 THEN 0 ELSE windows'[i - 1].end - input.overlap
        <4>1. CASE windows = <<>>
          <5>1. i = 1
            BY <4>1, <2>2, <1>1
          <5> QED BY <4>1, <5>1, <1>4, <1>12
        <4>2. CASE windows # <<>>
          <5>1. i # 1 /\ windows'[i - 1] = LastWindow
            BY <4>2, <2>2, <1>1, <1>3, <1>13
          <5> QED BY <4>2, <5>1, <1>4, <1>12
        <4> QED BY <4>1, <4>2
      <3>3. w.ordinal = i - 1
        BY <2>2, <1>1, <1>12
      <3> QED BY <3>1, <3>2, <3>3, <1>5, <1>12
    <2> QED BY <2>1, <2>2, <1>1
  <1>15. Covered'
    <2> SUFFICES ASSUME NEW a \in Nat, NEW b \in Nat,
                        a < b, b - a =< Greatest(1, input.overlap), b =< end
                 PROVE \E i \in 1..(n + 1) : Within(a, b, windows'[i])
      BY <1>9, <1>12, <1>13 DEF Covered
    <2>1. CASE windows # <<>> /\ b =< LastWindow.end
      <3>1. PICK i \in 1..n : Within(a, b, windows[i])
        BY <2>1, <1>1 DEF Covered
      <3>2. i \in 1..(n + 1) /\ windows'[i] = windows[i]
        BY <1>1, <1>13
      <3> QED BY <3>1, <3>2
    <2>2. CASE windows = <<>> \/ b > LastWindow.end
      <3>1. start =< a
        <4>1. CASE windows = <<>>
          BY <4>1, <1>4
        <4>2. CASE windows # <<>> /\ b > LastWindow.end
          BY <4>2, <1>2, <1>3, <1>4 DEF Greatest, Windows
        <4> QED BY <2>2, <4>1, <4>2
      <3>2. Within(a, b, windows'[n + 1])
        BY <3>1, <1>12, <1>13 DEF Within
      <3> QED BY <3>2, <1>1
    <2>3. windows # <<>> => LastWindow.end \in Int
      BY <1>3 DEF Windows
    <2> QED BY <2>1, <2>2, <2>3
  <1>16. PlanTypeOK'
    BY <1>1, <1>9, <1>11, <1>13 DEF PlanTypeOK, Phases
  <1>17. IsLegal(input)'
    BY <1>1, <1>9 DEF IsLegal
  <1> QED
    BY <1>9, <1>11, <1>12, <1>13, <1>14, <1>15, <1>16, <1>17 DEF PlanInv, Running

\* The plan's validator accepts what the loop cut.
LEMMA CheckInv == PlanInv /\ Check => PlanInv'
  <1> SUFFICES ASSUME PlanInv, Check PROVE PlanInv'
    OBVIOUS
  <1>1. /\ input \in [duration : Int, max : Int, overlap : Int, limit : Int]
        /\ windows \in Seq(Windows) /\ Len(windows) \in Nat /\ windows # <<>>
        /\ IsLegal(input) /\ Shape /\ Covered
        /\ LastWindow.end = input.duration
    BY DEF PlanInv, PlanTypeOK, Check, Running
  <1>2. 1 \in 1..Len(windows)
    BY <1>1
  <1>3. ASSUME NEW i \in 1..Len(windows)
        PROVE /\ windows[i].ordinal = i - 1
              /\ windows[i].start =< IF i = 1 THEN 0 ELSE windows[i - 1].end
              /\ i > 1 => windows[i].start = windows[i - 1].end - input.overlap
              /\ windows[i].end - windows[i].start =< input.max
    <2>1. i # 1 => i - 1 \in 1..Len(windows) /\ windows[i - 1] \in Windows
      BY <1>1
    <2>2. windows[i].start = IF i = 1 THEN 0 ELSE windows[i - 1].end - input.overlap
      BY <1>1 DEF Shape
    <2>3. windows[i].start =< IF i = 1 THEN 0 ELSE windows[i - 1].end
      <3>1. CASE i = 1
        BY <3>1, <2>2
      <3>2. CASE i # 1
        <4>1. windows[i - 1].end \in Int /\ input.overlap \in Int /\ input.overlap >= 0
          BY <3>2, <2>1, <1>1 DEF Windows, IsLegal
        <4> QED BY <3>2, <2>2, <4>1
      <3> QED BY <3>1, <3>2
    <2> QED BY <2>2, <2>3, <1>1 DEF Shape
  <1>4. PlanIsContiguous
    BY <1>1, <1>2, <1>3 DEF PlanIsContiguous, Shape, IsLegal
  <1>5. phase' = "planned" /\ UNCHANGED <<input, windows>>
    BY <1>4 DEF Check
  <1>6. IsLegal(input)' /\ Shape' /\ Covered' /\ (LastWindow.end = input.duration)'
    BY <1>1, <1>5 DEF IsLegal, Shape, Covered, LastWindow
  <1> QED
    BY <1>1, <1>5, <1>6 DEF PlanInv, PlanTypeOK, Phases, Running

\* Every step of the planner keeps the invariant.
LEMMA PlanStepInv == PlanInv /\ [PlanNext]_planVars => PlanInv'
  <1> SUFFICES ASSUME PlanInv, [PlanNext]_planVars PROVE PlanInv'
    OBVIOUS
  <1>1. CASE Cut
    BY <1>1, CutInv
  <1>2. CASE Check
    BY <1>2, CheckInv
  <1>3. CASE UNCHANGED planVars
    BY <1>3 DEF planVars, PlanInv, PlanTypeOK, IsLegal, Shape, Covered, LastWindow
  <1> QED
    BY <1>1, <1>2, <1>3 DEF PlanNext

\* A moment no longer than the overlap is seen whole by one of the windows.
LEMMA PlanSeesMoments == PlanInv => ShortMomentsSeenWhole
  <1> SUFFICES ASSUME PlanInv PROVE ShortMomentsSeenWhole
    OBVIOUS
  <1> SUFFICES ASSUME phase \in {"cut", "planned"},
                      NEW a \in 0..(input.duration - 1),
                      NEW b \in (a + 1)..Least(input.duration, a + Greatest(1, input.overlap))
               PROVE \E i \in 1..Len(windows) : Within(a, b, windows[i])
    BY DEF ShortMomentsSeenWhole
  <1>1. /\ input.duration \in Int /\ input.overlap \in Int
        /\ Covered /\ windows # <<>> /\ LastWindow.end = input.duration
    BY DEF PlanInv, PlanTypeOK, Running
  <1>2. /\ a \in Nat /\ b \in Nat /\ a < b
        /\ b - a =< Greatest(1, input.overlap) /\ b =< input.duration
    BY <1>1 DEF Least, Greatest
  <1> QED BY <1>1, <1>2 DEF Covered

-------------------------------------------------------------------------------
\* The clip of one candidate.
Clips == [start : Int, end : Int]

\* Halving rounds down, by less than one.
LEMMA Halves ==
    ASSUME NEW n \in Int
    PROVE  /\ n \div 2 \in Int
           /\ 2 * (n \div 2) =< n /\ n =< 2 * (n \div 2) + 1
  OBVIOUS

\* A clip placed around an instant x of the source still holds it when it has
\* been moved into the source, and holds every y it held before.
LEMMA PlacedHolds ==
    ASSUME NEW s \in Int, NEW length \in Nat, NEW duration \in Nat,
           NEW x \in Nat, s =< x, x < s + length, x < duration,
           NEW y \in Nat, y =< s + length, y =< duration
    PROVE  LET k == Placed(s, length, duration)
           IN  /\ k \in Clips
               /\ 0 =< k.start /\ k.start =< x /\ x < k.end /\ k.end =< duration
               /\ k.end - k.start =< length
               /\ y =< k.end
  <1> DEFINE b == Greatest(0, s)
             e == Least(duration, b + length)
             a == Greatest(0, e - length)
  <1>1. b \in Nat /\ b >= s /\ (b = s \/ b = 0)
    BY DEF Greatest
  <1>2. e \in Nat /\ e =< duration /\ e =< b + length /\ (e = duration \/ e = b + length)
    BY <1>1 DEF Least
  <1>3. a \in Nat /\ e - a =< length /\ (a = 0 \/ a = e - length)
    BY <1>2 DEF Greatest
  <1>4. x < e /\ y =< e /\ a =< x
    <2>1. b =< x /\ x < b + length /\ y =< b + length
      BY <1>1
    <2>2. x < e /\ y =< e
      BY <2>1, <1>2
    <2>3. a =< x
      BY <2>1, <1>1, <1>2, <1>3
    <2> QED BY <2>2, <2>3
  <1>5. Placed(s, length, duration) = [start |-> a, end |-> e]
    BY DEF Placed, Clip
  <1> HIDE DEF a, b, e
  <1> QED
    BY <1>2, <1>3, <1>4, <1>5 DEF Clips

\* Bounding a clip by the match keeps the instants of the match it held.
LEMMA BoundedHolds ==
    ASSUME NEW k \in Clips, NEW match,
           match # None => match.start \in Nat /\ match.end \in Nat,
           NEW x \in Nat, k.start =< x, x < k.end,
           match # None => match.start =< x /\ x < match.end,
           NEW y \in Nat, match # None => y =< match.end
    PROVE  LET r == Bounded(k, match)
           IN  /\ r \in Clips
               /\ k.start =< r.start /\ r.start =< x /\ x < r.end /\ r.end =< k.end
               /\ match # None => Within(r.start, r.end, match)
               /\ y =< k.end => y =< r.end
  <1>1. CASE match = None
    BY <1>1 DEF Bounded, Clips
  <1>2. CASE match # None
    <2> DEFINE a == Greatest(k.start, match.start)
               e == Least(k.end, match.end)
    <2>1. match.start \in Nat /\ match.end \in Nat
      BY <1>2
    <2>2. /\ a \in Int /\ k.start =< a /\ match.start =< a /\ a =< x
          /\ e \in Int /\ e =< k.end /\ e =< match.end /\ x < e
          /\ y =< k.end => y =< e
      BY <1>2, <2>1 DEF Greatest, Least, Clips
    <2>3. Bounded(k, match) = [start |-> a, end |-> e]
      BY <1>2 DEF Bounded, Clip
    <2> HIDE DEF a, e
    <2> QED
      BY <2>2, <2>3 DEF Clips, Within
  <1> QED
    BY <1>1, <1>2

\* The clip before the fallback is sound: the fallback is never needed.
THEOREM ClipSoundBeforeFallback ==
    ASSUME NEW c, NEW match, NEW p, NEW duration \in Nat,
           IsPolicy(p), IsMoment(c, match, duration)
    PROVE  /\ BeforeFallback(c, match, p, duration) \in Clips
           /\ ClipIsSound(BeforeFallback(c, match, p, duration), c, match, p, duration)
  <1> DEFINE x == ContextStart(c)
             y == ContextEnd(c)
             k0 == Clip(Greatest(0, x - p.pre), Least(duration, y + p.post))
             k1 == Bounded(k0, match)
             k2 == Expanded(k1, c, match, p, duration)
             k3 == Clamped(k2, c, match, p, duration)
             short == (y - x) + p.pre + p.post =< p.maximum
  <1>1. /\ p.pre \in Nat /\ p.post \in Nat /\ p.minimum \in Nat /\ p.maximum \in Nat
        /\ 1 =< p.minimum /\ p.minimum =< p.maximum
    BY IntervalsAssumption DEF IsPolicy
  <1>2. c.start \in Nat /\ c.end \in Nat /\ c.setup \in Nat \cup {None}
        /\ c.payoff \in Nat \cup {None} /\ duration \in Nat
    BY DEF IsMoment
  <1>3. /\ x \in Nat /\ x =< c.start /\ EffectiveStart(c) =< x
    <2>1. CASE c.setup = None
      BY <2>1, <1>2 DEF ContextStart, EffectiveStart, OrElse, Least, IsMoment
    <2>2. CASE c.setup # None
      BY <2>2, <1>2 DEF ContextStart, EffectiveStart, OrElse, Least, IsMoment
    <2> QED BY <2>1, <2>2
  <1>4. /\ y \in Nat /\ c.end =< y /\ y =< EffectiveEnd(c) /\ y =< duration
    <2>1. CASE c.payoff = None
      BY <2>1, <1>2 DEF ContextEnd, EffectiveEnd, OrElse, Greatest, IsMoment
    <2>2. CASE c.payoff # None
      BY <2>2, <1>2 DEF ContextEnd, EffectiveEnd, OrElse, Greatest, IsMoment
    <2> QED BY <2>1, <2>2
  <1>5. x < y /\ x < duration
    BY <1>2, <1>3, <1>4 DEF IsMoment
  <1>6. match # None => /\ match.start \in Nat /\ match.end \in Nat
                        /\ match.start =< x /\ x < match.end /\ y =< match.end
    <2> SUFFICES ASSUME match # None
                 PROVE /\ match.start \in Nat /\ match.end \in Nat
                       /\ match.start =< x /\ x < match.end /\ y =< match.end
      OBVIOUS
    <2>1. match.start \in Nat /\ match.end \in Nat
      BY DEF IsMoment
    <2>2. EffectiveStart(c) \in Int /\ EffectiveEnd(c) \in Int
      BY <1>2 DEF EffectiveStart, EffectiveEnd, Least, Greatest
    <2>3. match.start =< EffectiveStart(c) /\ EffectiveEnd(c) =< match.end
      BY DEF IsMoment, Within
    <2> QED BY <2>1, <2>2, <2>3, <1>3, <1>4, <1>5
  <1>7. match # None => match.start \in Nat /\ match.end \in Nat
    BY <1>6
  <1> HIDE DEF x, y
  <1>8. /\ k0 \in Clips /\ 0 =< k0.start /\ k0.start =< x /\ x < k0.end
        /\ k0.end =< duration /\ y =< k0.end
    <2>1. /\ Greatest(0, x - p.pre) \in Nat /\ Greatest(0, x - p.pre) =< x
          /\ Least(duration, y + p.post) \in Nat /\ Least(duration, y + p.post) =< duration
          /\ y =< Least(duration, y + p.post)
      BY <1>1, <1>2, <1>3, <1>4 DEF Greatest, Least
    <2> QED BY <2>1, <1>3, <1>4, <1>5 DEF Clip, Clips
  <1> HIDE DEF k0
  <1>9. /\ k1 \in Clips /\ 0 =< k1.start /\ k1.start =< x /\ x < k1.end
        /\ k1.end =< duration /\ y =< k1.end
        /\ match # None => Within(k1.start, k1.end, match)
    BY <1>3, <1>4, <1>6, <1>7, <1>8, <1>2, BoundedHolds DEF Clips
  <1> HIDE DEF k1
  <1>10. /\ k2 \in Clips /\ 0 =< k2.start /\ k2.start =< x /\ x < k2.end
         /\ k2.end =< duration /\ y =< k2.end
         /\ match # None => Within(k2.start, k2.end, match)
    <2>1. CASE ~(k1.end - k1.start < p.minimum)
      BY <2>1, <1>9 DEF Expanded
    <2>2. CASE k1.end - k1.start < p.minimum
      <3> DEFINE s == (x + y) \div 2 - p.minimum \div 2
                 q == Placed(s, p.minimum, duration)
      <3>1. y - x < p.minimum
        BY <2>2, <1>1, <1>3, <1>4, <1>9 DEF Clips
      <3>2. s \in Int /\ s =< x /\ y =< s + p.minimum
        BY <3>1, <1>1, <1>3, <1>4, Halves
      <3>3. x < s + p.minimum
        BY <3>2, <1>1, <1>3, <1>4, <1>5
      <3> HIDE DEF s
      <3>4. /\ q \in Clips /\ 0 =< q.start /\ q.start =< x /\ x < q.end
            /\ q.end =< duration /\ y =< q.end
        BY <3>2, <3>3, <1>1, <1>2, <1>3, <1>4, <1>5, PlacedHolds
      <3>5. k2 = Bounded(q, match)
        BY <2>2 DEF Expanded, s, x, y
      <3> HIDE DEF q, k2
      <3>6. /\ Bounded(q, match) \in Clips
            /\ q.start =< Bounded(q, match).start /\ Bounded(q, match).start =< x
            /\ x < Bounded(q, match).end /\ Bounded(q, match).end =< q.end
            /\ match # None => Within(Bounded(q, match).start, Bounded(q, match).end, match)
            /\ y =< q.end => y =< Bounded(q, match).end
        BY <3>4, <1>3, <1>4, <1>6, <1>7, BoundedHolds
      <3> QED BY <3>4, <3>5, <3>6, <1>2, <1>3, <1>4 DEF Clips
    <2> QED BY <2>1, <2>2
  <1>11. k2.end - k2.start > p.maximum => ~short
    <2> SUFFICES ASSUME k2.end - k2.start > p.maximum, short PROVE FALSE
      OBVIOUS
    <2>1. CASE k1.end - k1.start < p.minimum
      <3> DEFINE s == (x + y) \div 2 - p.minimum \div 2
                 q == Placed(s, p.minimum, duration)
      <3>1. y - x < p.minimum
        BY <2>1, <1>1, <1>3, <1>4, <1>9 DEF Clips
      <3>2. s \in Int /\ s =< x /\ x < s + p.minimum /\ y =< s + p.minimum
        BY <3>1, <1>1, <1>3, <1>4, <1>5, Halves
      <3> HIDE DEF s
      <3>3. q \in Clips /\ q.end - q.start =< p.minimum /\ q.start =< x /\ x < q.end
        BY <3>2, <1>1, <1>2, <1>3, <1>4, <1>5, PlacedHolds
      <3>4. k2 = Bounded(q, match)
        BY <2>1 DEF Expanded, s, x, y
      <3> HIDE DEF q, k2
      <3>5. Bounded(q, match) \in Clips /\ q.start =< Bounded(q, match).start
            /\ Bounded(q, match).end =< q.end
        BY <3>3, <1>3, <1>4, <1>6, <1>7, BoundedHolds
      <3> QED BY <3>3, <3>4, <3>5, <1>1 DEF Clips
    <2>2. CASE ~(k1.end - k1.start < p.minimum)
      <3>1. k2 = k1
        BY <2>2 DEF Expanded
      <3>2. k0.start =< k1.start /\ k1.end =< k0.end
        BY <1>3, <1>4, <1>6, <1>7, <1>8, BoundedHolds DEF k1
      <3>3. k0.end - k0.start =< (y - x) + p.pre + p.post
        <4>1. k0.start = Greatest(0, x - p.pre) /\ k0.end = Least(duration, y + p.post)
          BY DEF k0, Clip
        <4> QED BY <4>1, <1>1, <1>2, <1>3, <1>4 DEF Greatest, Least
      <3>4. /\ k0.start \in Int /\ k0.end \in Int /\ k1.start \in Int /\ k1.end \in Int
        BY <1>8, <1>9 DEF Clips
      <3> HIDE DEF k2
      <3> QED BY <3>1, <3>2, <3>3, <3>4, <1>1, <1>3, <1>4
    <2> QED BY <2>1, <2>2
  <1> HIDE DEF k2
  <1>12. /\ k3 \in Clips /\ 0 =< k3.start /\ k3.start =< x /\ x < k3.end
         /\ k3.end =< duration /\ k3.end - k3.start =< p.maximum
         /\ match # None => Within(k3.start, k3.end, match)
         /\ short => y =< k3.end
    <2>1. CASE ~(k2.end - k2.start > p.maximum)
      <3>1. k3 = k2
        BY <2>1 DEF Clamped
      <3>2. k2.end - k2.start =< p.maximum
        BY <2>1, <1>1, <1>10 DEF Clips
      <3> QED BY <3>1, <3>2, <1>10
    <2>2. CASE k2.end - k2.start > p.maximum
      <3> DEFINE s == x - p.maximum \div 2
                 q == Placed(s, p.maximum, duration)
      <3>1. s \in Int /\ s =< x /\ x < s + p.maximum /\ 0 \in Nat
        BY <1>1, <1>3, Halves
      <3>2. 0 =< s + p.maximum
        BY <3>1, <1>1, <1>3
      <3> HIDE DEF s
      <3>3. /\ q \in Clips /\ 0 =< q.start /\ q.start =< x /\ x < q.end
            /\ q.end =< duration /\ q.end - q.start =< p.maximum
        BY <3>1, <3>2, <1>1, <1>2, <1>3, <1>5, PlacedHolds
      <3>4. k3 = Bounded(q, match)
        BY <2>2 DEF Clamped, s, x
      <3> HIDE DEF q, k3
      <3>5. /\ Bounded(q, match) \in Clips
            /\ q.start =< Bounded(q, match).start /\ Bounded(q, match).start =< x
            /\ x < Bounded(q, match).end /\ Bounded(q, match).end =< q.end
            /\ match # None => Within(Bounded(q, match).start, Bounded(q, match).end, match)
        BY <3>3, <1>3, <1>4, <1>6, <1>7, BoundedHolds
      <3> QED BY <3>3, <3>4, <3>5, <2>2, <1>11, <1>1, <1>2, <1>3 DEF Clips
    <2> QED BY <2>1, <2>2
  <1>13. k3 = BeforeFallback(c, match, p, duration)
    BY DEF k3, k2, k1, k0, x, y, BeforeFallback, WithRolls
  <1>14. x = ContextStart(c) /\ y = ContextEnd(c)
    BY DEF x, y
  <1>15. ClipIsSound(k3, c, match, p, duration)
    <2> HIDE DEF k3
    <2>1. k3.start =< ContextStart(c) /\ ContextStart(c) < k3.end
      BY <1>12, <1>14
    <2>2. (ContextEnd(c) - ContextStart(c)) + p.pre + p.post =< p.maximum
            => ContextEnd(c) =< k3.end
      BY <1>12, <1>14
    <2>3. 0 =< k3.start /\ k3.start < k3.end /\ k3.end =< duration
      BY <1>3, <1>12 DEF Clips
    <2>4. match # None => Within(k3.start, k3.end, match)
      BY <1>12
    <2>5. k3.end - k3.start =< p.maximum
      BY <1>12
    <2> QED BY <2>1, <2>2, <2>3, <2>4, <2>5 DEF ClipIsSound
  <1> HIDE DEF k3
  <1> QED
    BY <1>12, <1>13, <1>15

\* derive_clip_boundaries gives every candidate a clip that is not empty, lies
\* in the source and in its match, keeps the longest length and holds the
\* beginning of the moment, or all of it when it is short enough.
THEOREM ClipsAreSound ==
    ASSUME NEW c, NEW match, NEW p, NEW duration \in Nat,
           IsPolicy(p), IsMoment(c, match, duration)
    PROVE  /\ DerivedClip(c, match, p, duration) \in Clips
           /\ ClipIsSound(DerivedClip(c, match, p, duration), c, match, p, duration)
  <1> DEFINE k == BeforeFallback(c, match, p, duration)
  <1>1. k \in Clips /\ ClipIsSound(k, c, match, p, duration)
    BY ClipSoundBeforeFallback
  <1> HIDE DEF k
  <1>2. k.start \in Int /\ k.end \in Int /\ 0 =< k.start /\ k.start < k.end
        /\ k.end =< duration /\ duration \in Nat
    BY <1>1 DEF ClipIsSound, Clips
  <1>3. /\ ~(k.end =< k.start)
        /\ Greatest(0, k.start) = k.start /\ Least(duration, k.end) = k.end
    BY <1>2 DEF Greatest, Least
  <1>4. DerivedClip(c, match, p, duration) = [start |-> k.start, end |-> k.end]
    BY <1>3 DEF DerivedClip, Clip, k
  <1> QED
    BY <1>1, <1>2, <1>4 DEF ClipIsSound, Clips
-------------------------------------------------------------------------------
\* The operators of the reconciliation.  A non-empty set of naturals has a
\* least one.
LEMMA LeastExists ==
    ASSUME NEW T, T \subseteq Nat, T # {}
    PROVE  Min(T) \in T
  <1> DEFINE R == OpToRel(<, Nat)
  <1>1. IsWellFoundedOn(R, Nat)
    BY NatLessThanWellFounded
  <1>2. ASSUME NEW x \in Nat, NEW y \in Nat, x < y PROVE <<x, y>> \in R
    BY <1>2 DEF OpToRel
  <1> HIDE DEF R
  <1>3. \E x \in T : \A y \in T : ~(<<y, x>> \in R)
    BY <1>1, WFMin, Zenon
  <1>4. PICK x \in T : \A y \in T : ~(<<y, x>> \in R)
    BY <1>3
  <1>5. ASSUME NEW y \in T PROVE x =< y
    <2>1. x \in Nat /\ y \in Nat /\ ~(<<y, x>> \in R)
      BY <1>4
    <2>2. ~(y < x)
      BY <2>1, <1>2
    <2> QED BY <2>1, <2>2
  <1> QED
    BY <1>5 DEF Min

IsSequence(s) == \E S : s \in Seq(S)

\* What Append does to a sequence of whatever elements.
LEMMA AppendIs ==
    ASSUME NEW s, IsSequence(s), NEW e
    PROVE  /\ Len(s) \in Nat /\ DOMAIN s = 1..Len(s)
           /\ IsSequence(Append(s, e)) /\ Len(Append(s, e)) = Len(s) + 1
           /\ DOMAIN Append(s, e) = 1..(Len(s) + 1)
           /\ \A i \in DOMAIN s : Append(s, e)[i] = s[i]
           /\ Append(s, e)[Len(s) + 1] = e
  <1>1. PICK S : s \in Seq(S)
    BY DEF IsSequence
  <1>2. s \in Seq(S \cup {e}) /\ e \in S \cup {e}
    BY <1>1
  <1>3. Append(s, e) \in Seq(S \cup {e})
    BY <1>2
  <1> QED
    BY <1>2, <1>3 DEF IsSequence

\* The same of an element that is replaced.
LEMMA ReplacedIs ==
    ASSUME NEW s, IsSequence(s), NEW i \in DOMAIN s, NEW e
    PROVE  LET t == [s EXCEPT ![i] = e]
           IN  /\ Len(s) \in Nat /\ DOMAIN s = 1..Len(s)
               /\ IsSequence(t) /\ Len(t) = Len(s) /\ DOMAIN t = DOMAIN s
               /\ t[i] = e /\ \A j \in DOMAIN s : j # i => t[j] = s[j]
  <1>1. PICK S : s \in Seq(S)
    BY DEF IsSequence
  <1>2. s \in Seq(S \cup {e}) /\ e \in S \cup {e}
    BY <1>1
  <1>3. [s EXCEPT ![i] = e] \in Seq(S \cup {e})
    BY <1>2
  <1>4. Len([s EXCEPT ![i] = e]) = Len(s)
    BY <1>2, <1>3
  <1> QED
    BY <1>2, <1>3, <1>4 DEF IsSequence

\* The empty sequence is one, and the last element of another is its own.
LEMMA LastIs ==
    ASSUME NEW s, IsSequence(s)
    PROVE  /\ IsSequence(<<>>)
           /\ s # <<>> => Len(s) \in DOMAIN s /\ Last(s) = s[Len(s)]
  <1>1. PICK S : s \in Seq(S)
    BY DEF IsSequence
  <1>2. <<>> \in Seq(S)
    OBVIOUS
  <1> QED
    BY <1>1, <1>2 DEF IsSequence, Last
\* What a match of any map or loop is made of, in a source of a duration.
MatchFields ==
    {"id", "ordinal", "start", "end", "label", "confidence", "windows", "candidates"}
AMatch(m, duration) ==
    /\ DOMAIN m = MatchFields
    /\ m.start \in Nat /\ m.end \in Nat /\ m.start < m.end /\ m.end =< duration

\* Two matches that are merged are one.
LEMMA MergedMatchIs ==
    ASSUME NEW d \in Int, NEW a, AMatch(a, d), NEW b, AMatch(b, d)
    PROVE  AMatch(MergedMatch(a, b), d)
  <1> DEFINE m == MergedMatch(a, b)
  <1>1. /\ DOMAIN m = MatchFields
        /\ m.start = Least(a.start, b.start) /\ m.end = Greatest(a.end, b.end)
    BY DEF MergedMatch, Match, MatchFields
  <1> HIDE DEF m
  <1>2. /\ Least(a.start, b.start) \in Nat /\ Greatest(a.end, b.end) \in Nat
        /\ Least(a.start, b.start) < Greatest(a.end, b.end)
        /\ Greatest(a.end, b.end) =< d
    BY DEF AMatch, Least, Greatest
  <1> QED
    BY <1>1, <1>2 DEF AMatch, m

\* A turn of the first loop makes matches of matches.
LEMMA AddMatchIs ==
    ASSUME NEW d \in Int, NEW s, IsSequence(s), \A i \in DOMAIN s : AMatch(s[i], d),
           NEW f, AMatch(f, d)
    PROVE  /\ IsSequence(AddMatch(s, f))
           /\ \A i \in DOMAIN AddMatch(s, f) : AMatch(AddMatch(s, f)[i], d)
  <1>1. CASE s = <<>>
    <2>1. AddMatch(s, f) = Append(s, f)
      BY <1>1 DEF AddMatch
    <2> QED BY <2>1, AppendIs
  <1>2. CASE s # <<>>
    <2>1. Len(s) \in DOMAIN s /\ Last(s) = s[Len(s)] /\ AMatch(Last(s), d)
      BY <1>2, LastIs
    <2>2. AMatch(MergedMatch(Last(s), f), d)
      BY <2>1, MergedMatchIs
    <2>3. ASSUME NEW m, AMatch(m, d)
          PROVE  /\ IsSequence([s EXCEPT ![Len(s)] = m])
                 /\ \A i \in DOMAIN [s EXCEPT ![Len(s)] = m] :
                        AMatch([s EXCEPT ![Len(s)] = m][i], d)
      BY <2>1, <2>3, ReplacedIs
    <2>4. /\ IsSequence(Append(s, f))
          /\ \A i \in DOMAIN Append(s, f) : AMatch(Append(s, f)[i], d)
      BY AppendIs
    <2>5. \/ AddMatch(s, f) = [s EXCEPT ![Len(s)] = MergedMatch(Last(s), f)]
          \/ AddMatch(s, f) = Append(s, f)
          \/ AddMatch(s, f) = [s EXCEPT ![Len(s)] = f]
          \/ AddMatch(s, f) = s
      BY <1>2 DEF AddMatch
    <2> QED BY <2>2, <2>3, <2>4, <2>5
  <1> QED
    BY <1>1, <1>2

\* Matches that follow one another.
Follow(s) == \A i, j \in DOMAIN s : i < j => s[i].end =< s[j].start

\* A turn of the second loop keeps them so.
LEMMA KeepDisjointIs ==
    ASSUME NEW d \in Int, NEW s, IsSequence(s), \A i \in DOMAIN s : AMatch(s[i], d),
           Follow(s), NEW f, AMatch(f, d)
    PROVE  /\ IsSequence(KeepDisjoint(s, f))
           /\ \A i \in DOMAIN KeepDisjoint(s, f) : AMatch(KeepDisjoint(s, f)[i], d)
           /\ Follow(KeepDisjoint(s, f))
  <1>1. CASE s # <<>> /\ f.start < Last(s).end
    BY <1>1 DEF KeepDisjoint
  <1>2. CASE ~(s # <<>> /\ f.start < Last(s).end)
    <2> DEFINE t == Append(s, f)
    <2>1. KeepDisjoint(s, f) = t
      BY <1>2 DEF KeepDisjoint
    <2>2. /\ Len(s) \in Nat /\ DOMAIN s = 1..Len(s)
          /\ IsSequence(t) /\ Len(t) = Len(s) + 1
          /\ DOMAIN t = 1..(Len(s) + 1)
          /\ \A i \in DOMAIN s : t[i] = s[i]
          /\ t[Len(s) + 1] = f
      BY AppendIs
    <2> HIDE DEF t
    <2>3. \A i \in DOMAIN t : AMatch(t[i], d)
      BY <2>2
    <2>4. ASSUME NEW i \in DOMAIN s PROVE s[i].end =< f.start
      <3>1. s # <<>> /\ Len(s) \in DOMAIN s /\ Last(s) = s[Len(s)]
        BY LastIs
      <3>2. /\ s[i].end \in Nat /\ s[Len(s)].end \in Nat /\ s[Len(s)].start \in Nat
            /\ f.start \in Nat /\ s[Len(s)].start < s[Len(s)].end
        BY <3>1 DEF AMatch
      <3>3. s[Len(s)].end =< f.start
        BY <1>2, <3>1, <3>2
      <3>4. i = Len(s) \/ i < Len(s)
        BY <2>2
      <3> QED BY <3>1, <3>2, <3>3, <3>4 DEF Follow
    <2>5. Follow(t)
      <3> SUFFICES ASSUME NEW i \in DOMAIN t, NEW j \in DOMAIN t, i < j
                   PROVE t[i].end =< t[j].start
        BY DEF Follow
      <3>1. i \in DOMAIN s /\ t[i] = s[i]
        BY <2>2
      <3>2. CASE j \in DOMAIN s
        BY <3>1, <3>2, <2>2 DEF Follow
      <3>3. CASE j = Len(s) + 1
        BY <3>1, <3>3, <2>2, <2>4
      <3> QED BY <3>2, <3>3, <2>2
    <2> QED BY <2>1, <2>2, <2>3, <2>5
  <1> QED
    BY <1>1, <1>2

\* The matches with their ids: these are as different as the matches.
LEMMA WithMatchIdsIs ==
    ASSUME NEW d \in Int, NEW s, IsSequence(s), \A i \in DOMAIN s : AMatch(s[i], d), Follow(s)
    PROVE  LET t == WithMatchIds(s)
           IN  /\ IsSequence(t) /\ DOMAIN t = DOMAIN s
               /\ \A i \in DOMAIN t : AMatch(t[i], d)
               /\ Follow(t) /\ IsInjective(Ids(t))
  <1> DEFINE t == WithMatchIds(s)
  <1>1. DOMAIN t = DOMAIN s
    BY Zenon DEF WithMatchIds
  <1>2. ASSUME NEW i \in DOMAIN s
        PROVE  /\ DOMAIN t[i] = MatchFields
               /\ t[i].start = s[i].start /\ t[i].end = s[i].end
               /\ t[i].id = <<s[i].start, s[i].end, s[i].ordinal>>
    BY DEF WithMatchIds, AMatch, MatchFields, MatchId
  <1>3. IsSequence(t)
    <2>1. PICK S : s \in Seq(S)
      BY DEF IsSequence
    <2>2. Len(s) \in Nat /\ DOMAIN s = 1..Len(s)
      BY <2>1
    <2>3. t = [i \in 1..Len(s) |-> t[i]]
      BY <2>2 DEF WithMatchIds
    <2> HIDE DEF t
    <2>4. \A i \in 1..Len(s) : t[i] \in {t[k] : k \in 1..Len(s)}
      OBVIOUS
    <2>5. t \in Seq({t[k] : k \in 1..Len(s)})
      BY <2>2, <2>3, <2>4
    <2> QED BY <2>5 DEF IsSequence
  <1> HIDE DEF t
  <1>4. \A i \in DOMAIN t : AMatch(t[i], d)
    BY <1>1, <1>2 DEF AMatch
  <1>5. Follow(t)
    BY <1>1, <1>2 DEF Follow
  <1>6. IsInjective(Ids(t))
    <2> SUFFICES ASSUME NEW i \in DOMAIN t, NEW j \in DOMAIN t, t[i].id = t[j].id
                 PROVE i = j
      BY DEF IsInjective, Ids
    <2>1. s[i].start = s[j].start
      BY <1>1, <1>2
    <2>2. i \in Nat /\ j \in Nat
      BY <1>1, AppendIs
    <2>3. /\ s[i].start \in Nat /\ s[i].end \in Nat /\ s[i].start < s[i].end
          /\ s[j].start \in Nat /\ s[j].end \in Nat /\ s[j].start < s[j].end
      BY <1>1 DEF AMatch
    <2>4. ~(i < j) /\ ~(j < i)
      BY <1>1, <2>1, <2>3 DEF Follow
    <2> QED BY <2>2, <2>4
  <1> QED
    BY <1>1, <1>3, <1>4, <1>5, <1>6 DEF t
\* What a moment of any map or loop is made of; match is the one it lies in.
MomentFields ==
    {"id", "match", "start", "end", "category", "setup", "payoff", "windows", "clip"}
AMoment(c, match, duration) ==
    /\ DOMAIN c = MomentFields
    /\ IsMoment(c, match, duration)
    /\ c.setup # None => c.setup =< duration

\* One no clip was derived for: its clip is not beyond its context.
Unclipped(c, duration) ==
    /\ AMoment(c, None, duration)
    /\ c.clip.start \in Nat /\ c.clip.end \in Nat /\ c.clip.start < c.clip.end
    /\ EffectiveStart(c) =< c.clip.start /\ c.clip.end =< EffectiveEnd(c)

\* The context of a moment lies in the source and around the event.
LEMMA EffectiveIs ==
    ASSUME NEW d \in Int, NEW c, NEW match, AMoment(c, match, d)
    PROVE  /\ c.start \in Nat /\ c.end \in Nat
           /\ EffectiveStart(c) \in Nat /\ EffectiveEnd(c) \in Nat
           /\ EffectiveStart(c) =< c.start /\ c.end =< EffectiveEnd(c)
           /\ EffectiveEnd(c) =< d
           /\ c.setup # None => c.setup \in Nat /\ EffectiveStart(c) =< c.setup
           /\ c.payoff # None => c.payoff \in Nat /\ c.payoff =< EffectiveEnd(c)
  BY DEF AMoment, IsMoment, EffectiveStart, EffectiveEnd, Least, Greatest

\* A moment that is given a match keeps the rest.
LEMMA AssignMatchIs ==
    ASSUME NEW d \in Int, NEW c, Unclipped(c, d), NEW s
    PROVE  LET a == AssignMatch(c, s)
           IN  /\ Unclipped(a, d)
               /\ \A x : Holds(c, x) => Holds(a, x)
  <1> DEFINE a == AssignMatch(c, s)
  <1>1. DOMAIN c = MomentFields
    BY DEF Unclipped, AMoment
  <1>2. /\ DOMAIN a = MomentFields
        /\ a.start = c.start /\ a.end = c.end /\ a.category = c.category
        /\ a.setup = c.setup /\ a.payoff = c.payoff /\ a.windows = c.windows
        /\ a.clip = c.clip
    BY <1>1 DEF AssignMatch, MomentFields
  <1> HIDE DEF a
  <1>3. EffectiveStart(a) = EffectiveStart(c) /\ EffectiveEnd(a) = EffectiveEnd(c)
    BY <1>2 DEF EffectiveStart, EffectiveEnd
  <1>4. Unclipped(a, d)
    BY <1>2, <1>3 DEF Unclipped, AMoment, IsMoment
  <1>5. ASSUME NEW x, Holds(c, x) PROVE Holds(a, x)
    BY <1>2, <1>3, <1>5 DEF Holds, Within, Effective
  <1> QED
    BY <1>4, <1>5 DEF a

\* The setup and the payoff of a merged candidate.
LEMMA MergedContextIs ==
    ASSUME NEW x \in Nat \cup {None}, NEW y \in Nat \cup {None}
    PROVE  /\ LeastOf(x, y) \in Nat \cup {None} /\ GreatestOf(x, y) \in Nat \cup {None}
           /\ LeastOf(x, y) \in {x, y} /\ GreatestOf(x, y) \in {x, y}
           /\ x # None => LeastOf(x, y) # None /\ LeastOf(x, y) =< x
           /\ y # None => LeastOf(x, y) # None /\ LeastOf(x, y) =< y
           /\ x # None => GreatestOf(x, y) # None /\ x =< GreatestOf(x, y)
           /\ y # None => GreatestOf(x, y) # None /\ y =< GreatestOf(x, y)
  <1>1. None \notin Int
    BY IntervalsAssumption
  <1> QED
    BY <1>1 DEF LeastOf, GreatestOf, OneOf, Least, Greatest

\* A merged candidate holds what either of the two held.
LEMMA MergedCandidateIs ==
    ASSUME NEW d \in Int, NEW a, Unclipped(a, d), NEW b, Unclipped(b, d),
           a.category = b.category
    PROVE  LET m == MergedCandidate(a, b)
           IN  /\ Unclipped(m, d)
               /\ \A x : AMoment(x, None, d) /\ (Holds(a, x) \/ Holds(b, x)) => Holds(m, x)
  <1> DEFINE m == MergedCandidate(a, b)
  <1>1. DOMAIN a = MomentFields
    BY DEF Unclipped, AMoment
  <1>2. /\ DOMAIN m = MomentFields
        /\ m.start = Least(a.start, b.start) /\ m.end = Greatest(a.end, b.end)
        /\ m.category = a.category /\ m.windows = a.windows \cup b.windows
        /\ m.setup = LeastOf(a.setup, b.setup) /\ m.payoff = GreatestOf(a.payoff, b.payoff)
        /\ m.clip = a.clip
    BY <1>1 DEF MergedCandidate, MomentFields
  <1> HIDE DEF m
  <1>3. /\ a.start \in Nat /\ a.end \in Nat /\ a.start < a.end /\ a.end =< d
        /\ a.setup \in Nat \cup {None} /\ a.payoff \in Nat \cup {None}
        /\ a.setup # None => a.setup =< d
        /\ a.payoff # None => a.payoff =< d
    BY DEF Unclipped, AMoment, IsMoment
  <1>4. /\ b.start \in Nat /\ b.end \in Nat /\ b.start < b.end /\ b.end =< d
        /\ b.setup \in Nat \cup {None} /\ b.payoff \in Nat \cup {None}
        /\ b.setup # None => b.setup =< d
        /\ b.payoff # None => b.payoff =< d
    BY DEF Unclipped, AMoment, IsMoment
  <1>5. /\ m.start \in Nat /\ m.end \in Nat /\ m.start < m.end /\ m.end =< d
        /\ m.start =< a.start /\ m.start =< b.start
        /\ a.end =< m.end /\ b.end =< m.end
    BY <1>2, <1>3, <1>4 DEF Least, Greatest
  <1>6. /\ m.setup \in Nat \cup {None} /\ m.setup \in {a.setup, b.setup}
        /\ a.setup # None => m.setup # None /\ m.setup =< a.setup
        /\ b.setup # None => m.setup # None /\ m.setup =< b.setup
    <2>1. /\ LeastOf(a.setup, b.setup) \in Nat \cup {None}
          /\ LeastOf(a.setup, b.setup) \in {a.setup, b.setup}
          /\ a.setup # None => LeastOf(a.setup, b.setup) # None /\ LeastOf(a.setup, b.setup) =< a.setup
          /\ b.setup # None => LeastOf(a.setup, b.setup) # None /\ LeastOf(a.setup, b.setup) =< b.setup
      BY <1>3, <1>4, MergedContextIs
    <2>2. m.setup = LeastOf(a.setup, b.setup)
      BY <1>2
    <2> QED BY <2>1, <2>2
  <1>7. /\ m.payoff \in Nat \cup {None} /\ m.payoff \in {a.payoff, b.payoff}
        /\ a.payoff # None => m.payoff # None /\ a.payoff =< m.payoff
        /\ b.payoff # None => m.payoff # None /\ b.payoff =< m.payoff
    <2>1. /\ GreatestOf(a.payoff, b.payoff) \in Nat \cup {None}
          /\ GreatestOf(a.payoff, b.payoff) \in {a.payoff, b.payoff}
          /\ a.payoff # None => GreatestOf(a.payoff, b.payoff) # None /\ a.payoff =< GreatestOf(a.payoff, b.payoff)
          /\ b.payoff # None => GreatestOf(a.payoff, b.payoff) # None /\ b.payoff =< GreatestOf(a.payoff, b.payoff)
      BY <1>3, <1>4, MergedContextIs
    <2>2. m.payoff = GreatestOf(a.payoff, b.payoff)
      BY <1>2
    <2> QED BY <2>1, <2>2
  <1>8. AMoment(m, None, d)
    <2>1. m.setup # None => m.setup \in Nat /\ m.setup =< d
      BY <1>3, <1>4, <1>6
    <2>2. m.payoff # None => m.payoff \in Nat /\ m.payoff =< d
      BY <1>3, <1>4, <1>7
    <2> QED BY <1>2, <1>5, <2>1, <2>2 DEF AMoment, IsMoment
  <1>9. /\ AMoment(a, None, d) /\ AMoment(b, None, d)
        /\ a.clip.start \in Nat /\ a.clip.end \in Nat /\ a.clip.start < a.clip.end
        /\ EffectiveStart(a) =< a.clip.start /\ a.clip.end =< EffectiveEnd(a)
    BY DEF Unclipped
  <1>10. /\ EffectiveStart(m) \in Nat /\ EffectiveEnd(m) \in Nat
         /\ EffectiveStart(m) =< EffectiveStart(a) /\ EffectiveEnd(a) =< EffectiveEnd(m)
         /\ EffectiveStart(m) =< EffectiveStart(b) /\ EffectiveEnd(b) =< EffectiveEnd(m)
    <2>1. /\ EffectiveStart(m) \in Nat /\ EffectiveEnd(m) \in Nat
          /\ EffectiveStart(m) =< m.start /\ m.end =< EffectiveEnd(m)
          /\ m.setup # None => EffectiveStart(m) =< m.setup
          /\ m.payoff # None => m.payoff =< EffectiveEnd(m)
      BY <1>8, EffectiveIs
    <2>2. EffectiveStart(m) =< EffectiveStart(a) /\ EffectiveStart(m) =< EffectiveStart(b)
      BY <2>1, <1>3, <1>4, <1>5, <1>6 DEF EffectiveStart, Least
    <2>3. EffectiveEnd(a) =< EffectiveEnd(m) /\ EffectiveEnd(b) =< EffectiveEnd(m)
      BY <2>1, <1>3, <1>4, <1>5, <1>7 DEF EffectiveEnd, Greatest
    <2> QED BY <2>1, <2>2, <2>3
  <1>11. /\ EffectiveStart(a) \in Nat /\ EffectiveEnd(a) \in Nat
         /\ EffectiveStart(b) \in Nat /\ EffectiveEnd(b) \in Nat
    BY <1>9, EffectiveIs
  <1>12. Unclipped(m, d)
    BY <1>2, <1>8, <1>9, <1>10, <1>11 DEF Unclipped
  <1>13. ASSUME NEW x, AMoment(x, None, d), Holds(a, x) \/ Holds(b, x)
         PROVE  Holds(m, x)
    <2>1. /\ x.start \in Nat /\ x.end \in Nat
          /\ EffectiveStart(x) \in Nat /\ EffectiveEnd(x) \in Nat
      BY <1>13, EffectiveIs
    <2>2. x.category = m.category /\ x.windows \subseteq m.windows
      BY <1>2, <1>13 DEF Holds
    <2>3. m.start =< x.start /\ x.end =< m.end
      BY <1>3, <1>4, <1>5, <1>13, <2>1 DEF Holds, Within
    <2>4. \/ EffectiveStart(a) =< EffectiveStart(x) /\ EffectiveEnd(x) =< EffectiveEnd(a)
          \/ EffectiveStart(b) =< EffectiveStart(x) /\ EffectiveEnd(x) =< EffectiveEnd(b)
      BY <1>13 DEF Holds, Within, Effective
    <2>5. EffectiveStart(m) =< EffectiveStart(x) /\ EffectiveEnd(x) =< EffectiveEnd(m)
      BY <2>1, <2>4, <1>10, <1>11
    <2> QED BY <2>2, <2>3, <2>5 DEF Holds, Within, Effective
  <1> QED
    BY <1>12, <1>13 DEF m

\* A turn of the third loop: what was held stays held, and the fragment is.
LEMMA AddCandidateIs ==
    ASSUME NEW d \in Int, NEW s, IsSequence(s), \A i \in DOMAIN s : Unclipped(s[i], d),
           NEW f, Unclipped(f, d), NEW ms, NEW ranges
    PROVE  LET t == AddCandidate(s, f, ms, ranges)
           IN  /\ IsSequence(t)
               /\ \A i \in DOMAIN t : Unclipped(t[i], d)
               /\ \A x : AMoment(x, None, d) /\ (\E n \in DOMAIN s : Holds(s[n], x))
                            => \E n \in DOMAIN t : Holds(t[n], x)
               /\ \E n \in DOMAIN t : Holds(t[n], f)
  <1> DEFINE c == AssignMatch(f, ms)
             same == {i \in DOMAIN s : IsSameEvent(s[i], c, ranges)}
             t == AddCandidate(s, f, ms, ranges)
             k == Min(same)
             m == MergedCandidate(s[k], c)
  <1>1. Unclipped(c, d) /\ \A x : Holds(f, x) => Holds(c, x)
    BY AssignMatchIs
  <1>2. AMoment(f, None, d) /\ Holds(f, f)
    <2>1. AMoment(f, None, d)
      BY DEF Unclipped
    <2>2. /\ f.start \in Nat /\ f.end \in Nat
          /\ EffectiveStart(f) \in Nat /\ EffectiveEnd(f) \in Nat
      BY <2>1, EffectiveIs
    <2> QED BY <2>1, <2>2 DEF Holds, Within, Effective
  <1>3. Holds(c, f)
    BY <1>1, <1>2
  <1>4. CASE same = {}
    <2>1. t = Append(s, c)
      BY <1>4 DEF AddCandidate
    <2> HIDE DEF t, c
    <2>2. /\ Len(s) \in Nat /\ DOMAIN s = 1..Len(s)
          /\ IsSequence(t) /\ DOMAIN t = 1..(Len(s) + 1)
          /\ \A i \in DOMAIN s : t[i] = s[i]
          /\ t[Len(s) + 1] = c
      BY <2>1, AppendIs
    <2>3. \A i \in DOMAIN t : Unclipped(t[i], d)
      BY <2>2, <1>1
    <2>4. Len(s) + 1 \in DOMAIN t /\ \A i \in DOMAIN s : i \in DOMAIN t
      BY <2>2
    <2>5. ASSUME NEW x, NEW n \in DOMAIN s, Holds(s[n], x)
          PROVE  n \in DOMAIN t /\ Holds(t[n], x)
      BY <2>2, <2>4, <2>5
    <2>6. Holds(t[Len(s) + 1], f)
      BY <2>2, <1>3
    <2> QED BY <2>2, <2>3, <2>4, <2>5, <2>6 DEF t
  <1>5. CASE same # {}
    <2>1. same \subseteq Nat
      BY AppendIs
    <2>2. k \in same
      BY <1>5, <2>1, LeastExists
    <2>3. k \in DOMAIN s /\ s[k].category = c.category
      BY <2>2 DEF IsSameEvent
    <2>4. t = [s EXCEPT ![k] = m]
      BY <1>5, <2>3 DEF AddCandidate
    <2>5. Unclipped(s[k], d)
      BY <2>3
    <2> HIDE DEF t, c, k, same
    <2>6. /\ Unclipped(m, d)
          /\ \A x : AMoment(x, None, d) /\ (Holds(s[k], x) \/ Holds(c, x)) => Holds(m, x)
      BY <2>3, <2>5, <1>1, MergedCandidateIs
    <2> HIDE DEF m
    <2>7. /\ IsSequence(t) /\ DOMAIN t = DOMAIN s
          /\ t[k] = m /\ \A j \in DOMAIN s : j # k => t[j] = s[j]
      BY <2>3, <2>4, ReplacedIs
    <2>8. \A i \in DOMAIN t : Unclipped(t[i], d)
      BY <2>6, <2>7
    <2>9. Holds(t[k], f)
      BY <1>2, <1>3, <2>6, <2>7
    <2>10. ASSUME NEW x, AMoment(x, None, d), NEW n \in DOMAIN s, Holds(s[n], x)
           PROVE  Holds(t[n], x)
      <3>1. CASE n = k
        BY <3>1, <2>6, <2>7, <2>10
      <3>2. CASE n # k
        BY <3>2, <2>7, <2>10
      <3> QED BY <3>1, <3>2
    <2> QED BY <2>3, <2>7, <2>8, <2>9, <2>10 DEF t
  <1> QED
    BY <1>4, <1>5
\* Looking a match up by its id.
LEMMA MatchWithIdIs ==
    ASSUME NEW s, DOMAIN s \subseteq Nat, NEW id
    PROVE  /\ \/ MatchWithId(s, id) = None
              \/ \E i \in DOMAIN s : MatchWithId(s, id) = s[i] /\ s[i].id = id
           /\ id # None /\ (\E i \in DOMAIN s : s[i].id = id) =>
                \E i \in DOMAIN s : MatchWithId(s, id) = s[i] /\ s[i].id = id
  <1> DEFINE found == {i \in DOMAIN s : s[i].id = id}
  <1>1. CASE id = None
    BY <1>1 DEF MatchWithId
  <1>2. CASE id # None /\ found = {}
    BY <1>2 DEF MatchWithId, FirstOf
  <1>3. CASE id # None /\ found # {}
    <2>1. Min(found) \in found
      BY <1>3, LeastExists
    <2>2. MatchWithId(s, id) = s[Min(found)]
      BY <1>3 DEF MatchWithId, FirstOf
    <2> QED BY <2>1, <2>2
  <1> QED
    BY <1>1, <1>2, <1>3

\* A map as the code leaves one: shaped, of the source, with its references
\* consistent and its moments inside their matches.
ASoundMap(map, duration) ==
    /\ DOMAIN map = {"duration", "matches", "candidates"}
    /\ DOMAIN map.matches \subseteq Nat
    /\ map.duration = duration
    /\ ReferencesAreConsistent(map)
    /\ \A i \in DOMAIN map.matches : AMatch(map.matches[i], duration)
    /\ \A i \in DOMAIN map.candidates :
        AMoment(map.candidates[i], MatchOf(map, map.candidates[i]), duration)

\* A moment whose references are consistent lies in its match.
LEMMA ConsistentMomentIs ==
    ASSUME NEW d \in Int, NEW map, DOMAIN map.matches \subseteq Nat,
           \A i \in DOMAIN map.matches : AMatch(map.matches[i], d),
           NEW c, Unclipped(c, d), CandidateIsConsistent(map, c)
    PROVE  AMoment(c, MatchOf(map, c), d)
  <1> DEFINE match == MatchOf(map, c)
  <1>1. match = None \/ (c.match # None /\ \E i \in DOMAIN map.matches : match = map.matches[i])
    BY MatchWithIdIs DEF MatchOf, MatchWithId
  <1> HIDE DEF match
  <1>2. AMoment(c, None, d)
    BY DEF Unclipped
  <1>3. ASSUME match # None
        PROVE  /\ match.start \in Nat /\ match.end \in Nat
               /\ Within(EffectiveStart(c), EffectiveEnd(c), match)
    <2>1. match.start \in Nat /\ match.end \in Nat
      BY <1>1, <1>3 DEF AMatch
    <2>3. Within(Least(EffectiveStart(c), c.clip.start),
                 Greatest(EffectiveEnd(c), c.clip.end), match)
      BY <1>3 DEF CandidateIsConsistent, match
    <2>4. /\ EffectiveStart(c) \in Nat /\ EffectiveEnd(c) \in Nat
          /\ c.clip.start \in Nat /\ c.clip.end \in Nat
          /\ EffectiveStart(c) =< c.clip.start /\ c.clip.end =< EffectiveEnd(c)
      BY <1>2, EffectiveIs DEF Unclipped
    <2>5. /\ Least(EffectiveStart(c), c.clip.start) = EffectiveStart(c)
          /\ Greatest(EffectiveEnd(c), c.clip.end) = EffectiveEnd(c)
      BY <2>4 DEF Least, Greatest
    <2> QED BY <2>1, <2>3, <2>5
  <1> QED
    BY <1>2, <1>3 DEF AMoment, IsMoment, match

\* A map that canonicalization returns: its records have been validated, and
\* a clip is the context.
LEMMA CanonicalMapIs ==
    ASSUME NEW d \in Int, NEW r, NEW source,
           IsSessionMap(CanonicalMap(r, source, d))
    PROVE  LET map == CanonicalMap(r, source, d)
           IN  /\ DOMAIN map = {"duration", "matches", "candidates"}
               /\ DOMAIN map.matches = DOMAIN r.matches
               /\ map.duration = d
               /\ \A i \in DOMAIN map.matches : AMatch(map.matches[i], d)
               /\ \A i \in DOMAIN map.candidates : Unclipped(map.candidates[i], d)
  <1> DEFINE map == CanonicalMap(r, source, d)
             distinct == Distinct(r, d)
             C(i) == CanonicalCandidate(distinct[i], r, source, d)
             M(i) == CanonicalMatch(r, i, source, d)
  <1>1. /\ DOMAIN map = {"duration", "matches", "candidates"} /\ map.duration = d
        /\ map.candidates = [i \in DOMAIN distinct |-> C(i)]
        /\ map.matches = WithCandidateIds([i \in DOMAIN r.matches |-> M(i)], map.candidates)
    BY DEF CanonicalMap
  <1> HIDE DEF map, distinct
  <1>2. /\ \A i \in DOMAIN map.matches : MatchIsValid(map.matches[i])
        /\ \A i \in DOMAIN map.candidates : CandidateIsValid(map.candidates[i])
        /\ MatchesAreConsistent(map)
        /\ \A i \in DOMAIN map.candidates : CandidateIsConsistent(map, map.candidates[i])
    BY DEF IsSessionMap, ReferencesAreConsistent, map
  <1>3. /\ DOMAIN map.matches = DOMAIN r.matches
        /\ \A i \in DOMAIN r.matches : DOMAIN map.matches[i] = DOMAIN M(i)
    BY <1>1 DEF WithCandidateIds
  <1>4. \A i \in DOMAIN r.matches : DOMAIN M(i) = MatchFields
    BY DEF CanonicalMatch, Match, MatchFields
  <1>5. \A i \in DOMAIN map.matches : AMatch(map.matches[i], d)
    <2> SUFFICES ASSUME NEW i \in DOMAIN map.matches PROVE AMatch(map.matches[i], d)
      OBVIOUS
    <2>1. DOMAIN map.matches[i] = MatchFields
      BY <1>3, <1>4
    <2>2. map.matches[i].end =< d
      BY <1>1, <1>2 DEF MatchesAreConsistent, Within
    <2> QED BY <2>1, <2>2, <1>2 DEF AMatch, MatchIsValid
  <1>6. ASSUME NEW i \in DOMAIN map.candidates PROVE Unclipped(map.candidates[i], d)
    <2> DEFINE c == map.candidates[i]
    <2>1. c = C(i)
      BY <1>1
    <2>2. /\ DOMAIN c = MomentFields
          /\ c.clip.start = IF c.setup = None THEN c.start ELSE c.setup
          /\ c.clip.end = IF c.payoff = None THEN c.end ELSE c.payoff
      BY <2>1 DEF CanonicalCandidate, MomentFields
    <2> HIDE DEF c
    <2>3. CandidateIsValid(c) /\ CandidateIsConsistent(map, c)
      BY <1>2 DEF c
    <2>4. /\ c.start \in Nat /\ c.end \in Nat /\ c.start < c.end
          /\ c.setup # None => c.setup \in Nat /\ c.setup =< c.start
          /\ c.payoff # None => c.payoff \in Nat /\ c.end =< c.payoff
          /\ c.clip.start \in Nat /\ c.clip.end \in Nat /\ c.clip.start < c.clip.end
      BY <2>3 DEF CandidateIsValid
    <2>5. /\ c.end # None => c.end =< d
          /\ c.setup # None => c.setup =< d
          /\ c.payoff # None => c.payoff =< d
      BY <2>3, <1>1 DEF CandidateIsConsistent
    <2>6. c.end =< d
      BY <2>4, <2>5, IntervalsAssumption
    <2>7. AMoment(c, None, d)
      BY <2>2, <2>4, <2>5, <2>6 DEF AMoment, IsMoment
    <2>8. EffectiveStart(c) =< c.clip.start /\ c.clip.end =< EffectiveEnd(c)
      BY <2>2, <2>4 DEF EffectiveStart, EffectiveEnd, Least, Greatest
    <2> QED BY <2>4, <2>7, <2>8 DEF Unclipped, c
  <1> QED
    BY <1>1, <1>3, <1>5, <1>6 DEF map

\* A canonical map whose matches are a sequence is a sound map.
LEMMA CanonicalMapIsSound ==
    ASSUME NEW d \in Int, NEW r, DOMAIN r.matches \subseteq Nat, NEW source,
           IsSessionMap(CanonicalMap(r, source, d))
    PROVE  ASoundMap(CanonicalMap(r, source, d), d)
  <1> DEFINE map == CanonicalMap(r, source, d)
  <1>1. /\ DOMAIN map = {"duration", "matches", "candidates"}
        /\ DOMAIN map.matches \subseteq Nat
        /\ map.duration = d
        /\ \A i \in DOMAIN map.matches : AMatch(map.matches[i], d)
        /\ \A i \in DOMAIN map.candidates : Unclipped(map.candidates[i], d)
    BY CanonicalMapIs
  <1>2. ReferencesAreConsistent(map)
    BY DEF IsSessionMap
  <1> HIDE DEF map
  <1>3. \A i \in DOMAIN map.candidates : CandidateIsConsistent(map, map.candidates[i])
    BY <1>2 DEF ReferencesAreConsistent
  <1>4. \A i \in DOMAIN map.candidates :
            AMoment(map.candidates[i], MatchOf(map, map.candidates[i]), d)
    BY <1>1, <1>3, ConsistentMomentIs
  <1> QED
    BY <1>1, <1>2, <1>4 DEF ASoundMap, map
\* The matches of the map that the reconciliation makes are consistent.
LEMMA FinalMatchesAre ==
    ASSUME NEW d \in Int, NEW s, IsSequence(s), \A i \in DOMAIN s : AMatch(s[i], d),
           Follow(s), IsInjective(Ids(s)), NEW moments
    PROVE  LET map == ReconciledMap(moments, s, d)
           IN  /\ DOMAIN map = {"duration", "matches", "candidates"}
               /\ DOMAIN map.matches = DOMAIN s /\ DOMAIN s \subseteq Nat
               /\ map.duration = d
               /\ map.candidates = [i \in DOMAIN moments |-> FinalCandidate(moments[i], s)]
               /\ \A i \in DOMAIN s :
                    /\ AMatch(map.matches[i], d)
                    /\ map.matches[i].id = s[i].id
                    /\ map.matches[i].candidates =
                        {map.candidates[k].id : k \in {n \in DOMAIN map.candidates :
                                                map.candidates[n].match = s[i].id}}
               /\ MatchesAreConsistent(map)
  <1> DEFINE map == ReconciledMap(moments, s, d)
             Listed(id) == {map.candidates[k].id : k \in {n \in DOMAIN map.candidates :
                                                map.candidates[n].match = id}}
  <1>1. /\ DOMAIN map = {"duration", "matches", "candidates"} /\ map.duration = d
        /\ map.candidates = [i \in DOMAIN moments |-> FinalCandidate(moments[i], s)]
        /\ map.matches = WithCandidateIds(s, map.candidates)
    BY DEF ReconciledMap
  <1> HIDE DEF map
  <1>2. DOMAIN map.matches = DOMAIN s /\ DOMAIN s \subseteq Nat
    BY <1>1, AppendIs DEF WithCandidateIds
  <1>3. ASSUME NEW i \in DOMAIN s
        PROVE  /\ DOMAIN map.matches[i] = MatchFields
               /\ map.matches[i].id = s[i].id
               /\ map.matches[i].start = s[i].start /\ map.matches[i].end = s[i].end
               /\ map.matches[i].candidates = Listed(s[i].id)
    <2>1. map.matches[i] = [s[i] EXCEPT !.candidates = Listed(s[i].id)]
      BY <1>1, Zenon DEF WithCandidateIds
    <2>2. DOMAIN s[i] = MatchFields
      BY DEF AMatch
    <2> HIDE DEF Listed
    <2> QED BY <2>1, <2>2 DEF MatchFields
  <1>4. \A i \in DOMAIN s : AMatch(map.matches[i], d)
    BY <1>3 DEF AMatch
  <1>5. \A i \in DOMAIN s : map.matches[i].candidates \subseteq Range(Ids(map.candidates))
    BY <1>3 DEF Ids, Range
  <1>6. IsInjective(Ids(map.matches))
    BY <1>2, <1>3 DEF IsInjective, Ids
  <1>7. MatchesAreDisjoint(map)
    <2> SUFFICES ASSUME NEW i \in DOMAIN s, NEW j \in DOMAIN s, i # j
                 PROVE Overlap(map.matches[i], map.matches[j]) = 0
      BY <1>2 DEF MatchesAreDisjoint
    <2>1. /\ s[i].start \in Nat /\ s[i].end \in Nat /\ s[i].start < s[i].end
          /\ s[j].start \in Nat /\ s[j].end \in Nat /\ s[j].start < s[j].end
      BY DEF AMatch
    <2>2. i \in Nat /\ j \in Nat
      BY <1>2
    <2>3. s[i].end =< s[j].start \/ s[j].end =< s[i].start
      BY <2>2 DEF Follow
    <2> QED BY <2>1, <2>3, <1>3 DEF Overlap, Least, Greatest
  <1>8. \A i \in DOMAIN s : Within(map.matches[i].start, map.matches[i].end,
                                   [start |-> 0, end |-> map.duration])
    BY <1>1, <1>3 DEF AMatch, Within
  <1>9. MatchesAreConsistent(map)
    BY <1>2, <1>5, <1>6, <1>7, <1>8 DEF MatchesAreConsistent
  <1> QED
    BY <1>1, <1>2, <1>3, <1>4, <1>9 DEF map

\* The final candidate is the event with another match and id.
LEMMA FinalCandidateIs ==
    ASSUME NEW d \in Int, NEW s, DOMAIN s \subseteq Nat, NEW e, Unclipped(e, d)
    PROVE  LET c == FinalCandidate(e, s)
           IN  /\ Unclipped(c, d)
               /\ c.match # None => \E i \in DOMAIN s : s[i].id = c.match
               /\ \A x : Holds(e, x) => Holds(c, x)
  <1> DEFINE c == FinalCandidate(e, s)
             match == MatchWithId(s, e.match)
             id == IF match = None \/ ~Within(e.start, e.end, match) THEN None ELSE match.id
  <1>1. DOMAIN e = MomentFields
    BY DEF Unclipped, AMoment
  <1>2. /\ DOMAIN c = MomentFields /\ c.match = id
        /\ c.start = e.start /\ c.end = e.end /\ c.category = e.category
        /\ c.setup = e.setup /\ c.payoff = e.payoff /\ c.windows = e.windows
        /\ c.clip = e.clip
    <2> HIDE DEF id
    <2>1. c = [e EXCEPT !.match = id, !.id = CandidateId(id, e.start, e.end, e.category)]
      BY Zenon DEF FinalCandidate, id
    <2> HIDE DEF c
    <2> QED BY <1>1, <2>1 DEF MomentFields
  <1>3. id # None => \E i \in DOMAIN s : s[i].id = id
    BY MatchWithIdIs
  <1> HIDE DEF c, id
  <1>4. EffectiveStart(c) = EffectiveStart(e) /\ EffectiveEnd(c) = EffectiveEnd(e)
    BY <1>2 DEF EffectiveStart, EffectiveEnd
  <1>5. Unclipped(c, d)
    BY <1>2, <1>4 DEF Unclipped, AMoment, IsMoment
  <1>6. ASSUME NEW x, Holds(e, x) PROVE Holds(c, x)
    BY <1>2, <1>4, <1>6 DEF Holds, Within, Effective
  <1> QED
    BY <1>2, <1>3, <1>5, <1>6 DEF c

\* The reconciled map is refused for a candidate only, and is sound otherwise.
LEMMA ReconciledMapIs ==
    ASSUME NEW d \in Int, NEW s, IsSequence(s), \A i \in DOMAIN s : AMatch(s[i], d),
           Follow(s), IsInjective(Ids(s)),
           NEW moments, \A i \in DOMAIN moments : Unclipped(moments[i], d)
    PROVE  LET map == ReconciledMap(moments, s, d)
           IN  /\ ReferencesAreConsistent(map) => ASoundMap(map, d)
               /\ \/ ReferencesAreConsistent(map)
                  \/ ~IsInjective(Ids(map.candidates))
                  \/ \E i \in DOMAIN map.candidates :
                        LET c == map.candidates[i]
                        IN  /\ c.match # None
                            /\ ~Within(EffectiveStart(c), EffectiveEnd(c), MatchOf(map, c))
               /\ DOMAIN map.candidates = DOMAIN moments
               /\ \A i \in DOMAIN moments : \A x :
                    Holds(moments[i], x) => Holds(map.candidates[i], x)
  <1> DEFINE map == ReconciledMap(moments, s, d)
  <1>1. /\ DOMAIN map = {"duration", "matches", "candidates"}
        /\ DOMAIN map.matches = DOMAIN s /\ DOMAIN s \subseteq Nat
        /\ map.duration = d
        /\ map.candidates = [i \in DOMAIN moments |-> FinalCandidate(moments[i], s)]
        /\ MatchesAreConsistent(map)
        /\ \A i \in DOMAIN s :
            /\ AMatch(map.matches[i], d)
            /\ map.matches[i].id = s[i].id
            /\ map.matches[i].candidates =
                {map.candidates[k].id : k \in {n \in DOMAIN map.candidates :
                                        map.candidates[n].match = s[i].id}}
    BY FinalMatchesAre
  <1> HIDE DEF map
  <1>2. ASSUME NEW i \in DOMAIN moments
        PROVE  /\ Unclipped(map.candidates[i], d)
               /\ map.candidates[i].match # None =>
                    \E k \in DOMAIN s : s[k].id = map.candidates[i].match
               /\ \A x : Holds(moments[i], x) => Holds(map.candidates[i], x)
    <2>1. map.candidates[i] = FinalCandidate(moments[i], s)
      BY <1>1
    <2> QED BY <2>1, <1>1, FinalCandidateIs
  <1>3. DOMAIN map.candidates = DOMAIN moments
    BY <1>1
  <1>4. ReferencesAreConsistent(map) => ASoundMap(map, d)
    <2> SUFFICES ASSUME ReferencesAreConsistent(map) PROVE ASoundMap(map, d)
      OBVIOUS
    <2>1. \A i \in DOMAIN map.candidates : CandidateIsConsistent(map, map.candidates[i])
      BY DEF ReferencesAreConsistent
    <2>2. \A i \in DOMAIN map.matches : AMatch(map.matches[i], d)
      BY <1>1
    <2>3. ASSUME NEW i \in DOMAIN map.candidates
          PROVE AMoment(map.candidates[i], MatchOf(map, map.candidates[i]), d)
      BY <2>1, <2>2, <1>1, <1>2, <1>3, ConsistentMomentIs
    <2> QED BY <1>1, <2>2, <2>3 DEF ASoundMap
  <1>5. ASSUME NEW i \in DOMAIN map.candidates,
               map.candidates[i].match # None =>
                    Within(EffectiveStart(map.candidates[i]), EffectiveEnd(map.candidates[i]),
                           MatchOf(map, map.candidates[i]))
        PROVE  CandidateIsConsistent(map, map.candidates[i])
    <2> DEFINE c == map.candidates[i]
    <2>1. Unclipped(c, d) /\ (c.match # None => \E k \in DOMAIN s : s[k].id = c.match)
      BY <1>2, <1>3
    <2>2. /\ EffectiveStart(c) \in Nat /\ EffectiveEnd(c) \in Nat
          /\ c.end \in Nat /\ c.end =< EffectiveEnd(c) /\ EffectiveEnd(c) =< d
          /\ c.setup # None => c.setup =< d
          /\ c.payoff # None => c.payoff \in Nat /\ c.payoff =< EffectiveEnd(c)
          /\ c.clip.start \in Nat /\ c.clip.end \in Nat /\ c.clip.start < c.clip.end
          /\ EffectiveStart(c) =< c.clip.start /\ c.clip.end =< EffectiveEnd(c)
      BY <2>1, EffectiveIs DEF Unclipped, AMoment
    <2> HIDE DEF c
    <2>3. \A t \in {c.end, c.setup, c.payoff, c.clip.start, c.clip.end} \ {None} :
            t =< map.duration
      BY <2>2, <1>1
    <2>4. ASSUME c.match # None
          PROVE  /\ \E k \in DOMAIN map.matches : map.matches[k].id = c.match
                 /\ c.id \in MatchOf(map, c).candidates
      <3>1. PICK k \in DOMAIN s : s[k].id = c.match
        BY <2>1, <2>4
      <3>2. k \in DOMAIN map.matches /\ map.matches[k].id = c.match
        BY <3>1, <1>1
      <3>3. PICK n \in DOMAIN map.matches :
                MatchOf(map, c) = map.matches[n] /\ map.matches[n].id = c.match
        BY <3>2, <2>4, <1>1, MatchWithIdIs DEF MatchOf
      <3>4. /\ n \in DOMAIN s /\ s[n].id = c.match
            /\ map.matches[n].candidates =
                {map.candidates[q].id : q \in {m \in DOMAIN map.candidates :
                                        map.candidates[m].match = s[n].id}}
        BY <3>3, <1>1
      <3>5. c.id \in map.matches[n].candidates
        BY <3>4 DEF c
      <3> QED BY <3>2, <3>3, <3>5
    <2>5. /\ Least(EffectiveStart(c), c.clip.start) = EffectiveStart(c)
          /\ Greatest(EffectiveEnd(c), c.clip.end) = EffectiveEnd(c)
      BY <2>2 DEF Least, Greatest
    <2>6. c.match # None => Within(EffectiveStart(c), EffectiveEnd(c), MatchOf(map, c))
      BY <1>5 DEF c
    <2>7. MatchOf(map, c) # None => c.match # None
      BY DEF MatchOf, MatchWithId
    <2> QED BY <2>3, <2>4, <2>5, <2>6, <2>7 DEF CandidateIsConsistent, c
  <1>6. \/ ReferencesAreConsistent(map)
        \/ ~IsInjective(Ids(map.candidates))
        \/ \E i \in DOMAIN map.candidates :
              /\ map.candidates[i].match # None
              /\ ~Within(EffectiveStart(map.candidates[i]), EffectiveEnd(map.candidates[i]),
                         MatchOf(map, map.candidates[i]))
    BY <1>1, <1>5 DEF ReferencesAreConsistent
  <1> QED
    BY <1>2, <1>3, <1>4, <1>6 DEF map
\* Putting the clips into a sound map keeps it one, and every clip is sound.
LEMMA WithClipsIs ==
    ASSUME NEW d \in Int, NEW map, ASoundMap(map, d), NEW p, IsPolicy(p)
    PROVE  LET w == WithClips(map, p)
           IN  /\ ASoundMap(w, d)
               /\ DOMAIN w.candidates = DOMAIN map.candidates
               /\ \A i \in DOMAIN w.candidates :
                    LET c == w.candidates[i]
                    IN  ClipIsSound(c.clip, c, MatchOf(w, c), p, d)
               /\ \A i \in DOMAIN w.candidates : \A x :
                    Holds(map.candidates[i], x) => Holds(w.candidates[i], x)
  <1> DEFINE w == WithClips(map, p)
             Old(i) == map.candidates[i]
             New(i) == w.candidates[i]
             M(i) == MatchOf(map, map.candidates[i])
             K(i) == DerivedClip(Old(i), M(i), p, map.duration)
  <1>1. /\ DOMAIN map = {"duration", "matches", "candidates"} /\ map.duration = d
        /\ DOMAIN map.matches \subseteq Nat
        /\ ReferencesAreConsistent(map)
        /\ \A i \in DOMAIN map.matches : AMatch(map.matches[i], d)
        /\ \A i \in DOMAIN map.candidates : AMoment(Old(i), M(i), d)
    BY DEF ASoundMap
  <1>2. w = [map EXCEPT !.candidates =
                [i \in DOMAIN map.candidates |-> [Old(i) EXCEPT !.clip = K(i)]]]
    BY <1>1, Zenon DEF WithClips
  <1> HIDE DEF w, K
  <1>3. /\ DOMAIN w = {"duration", "matches", "candidates"}
        /\ w.duration = d /\ w.matches = map.matches
        /\ DOMAIN w.candidates = DOMAIN map.candidates
        /\ \A i \in DOMAIN map.candidates : New(i) = [Old(i) EXCEPT !.clip = K(i)]
    BY <1>1, <1>2
  <1>4. ASSUME NEW i \in DOMAIN map.candidates
        PROVE  /\ DOMAIN New(i) = MomentFields
               /\ New(i).clip = K(i)
               /\ New(i).id = Old(i).id /\ New(i).match = Old(i).match
               /\ New(i).start = Old(i).start /\ New(i).end = Old(i).end
               /\ New(i).setup = Old(i).setup /\ New(i).payoff = Old(i).payoff
               /\ New(i).category = Old(i).category /\ New(i).windows = Old(i).windows
    <2>1. DOMAIN Old(i) = MomentFields
      BY <1>1 DEF AMoment
    <2> QED BY <2>1, <1>3 DEF MomentFields
  <1> HIDE DEF Old, New
  <1>5. ASSUME NEW i \in DOMAIN map.candidates
        PROVE  /\ MatchOf(w, New(i)) = M(i)
               /\ EffectiveStart(New(i)) = EffectiveStart(Old(i))
               /\ EffectiveEnd(New(i)) = EffectiveEnd(Old(i))
               /\ ContextStart(New(i)) = ContextStart(Old(i))
               /\ ContextEnd(New(i)) = ContextEnd(Old(i))
    BY <1>3, <1>4 DEF MatchOf, EffectiveStart, EffectiveEnd, ContextStart, ContextEnd, Old
  <1>6. ASSUME NEW i \in DOMAIN map.candidates
        PROVE  K(i) \in Clips /\ ClipIsSound(K(i), Old(i), M(i), p, d)
    <2>1. IsMoment(Old(i), M(i), d)
      BY <1>1 DEF AMoment, Old
    <2>2. d \in Nat
      BY <2>1 DEF IsMoment
    <2> QED BY <2>1, <2>2, <1>1, ClipsAreSound DEF K
  <1> HIDE DEF M
  <1>7. ASSUME NEW i \in DOMAIN map.candidates
        PROVE  ClipIsSound(New(i).clip, New(i), MatchOf(w, New(i)), p, d)
    BY <1>4, <1>5, <1>6 DEF ClipIsSound
  <1>8. ASSUME NEW i \in DOMAIN map.candidates
        PROVE  AMoment(New(i), MatchOf(w, New(i)), d)
    BY <1>1, <1>4, <1>5 DEF AMoment, IsMoment, Old, M
  <1>9. ASSUME NEW i \in DOMAIN map.candidates, NEW x, Holds(Old(i), x)
        PROVE  Holds(New(i), x)
    BY <1>4, <1>5, <1>9 DEF Holds, Within, Effective
  <1>10. Ids(w.candidates) = Ids(map.candidates)
    <2>1. \A i \in DOMAIN map.candidates : w.candidates[i].id = map.candidates[i].id
      BY <1>4 DEF Old, New
    <2> QED BY <1>3, <2>1 DEF Ids
  <1>11. MatchesAreConsistent(w)
    <2>1. MatchesAreConsistent(map)
      BY <1>1 DEF ReferencesAreConsistent
    <2> QED BY <2>1, <1>1, <1>3, <1>10 DEF MatchesAreConsistent, MatchesAreDisjoint
  <1>12. ASSUME NEW i \in DOMAIN map.candidates
         PROVE  CandidateIsConsistent(w, New(i))
    <2>1. CandidateIsConsistent(map, Old(i)) /\ AMoment(Old(i), M(i), d)
      BY <1>1 DEF ReferencesAreConsistent, Old, M
    <2>2. /\ K(i).start \in Int /\ K(i).end \in Int
          /\ K(i).start < K(i).end /\ K(i).end =< d
          /\ M(i) # None => Within(K(i).start, K(i).end, M(i))
      BY <1>6 DEF Clips, ClipIsSound
    <2>3. /\ EffectiveStart(Old(i)) \in Nat /\ EffectiveEnd(Old(i)) \in Nat
      BY <2>1, EffectiveIs
    <2>4. \A t \in {New(i).end, New(i).setup, New(i).payoff, New(i).clip.start,
                    New(i).clip.end} \ {None} : t =< w.duration
      <3>1. \A t \in {Old(i).end, Old(i).setup, Old(i).payoff} \ {None} : t =< d
        BY <2>1, <1>1 DEF CandidateIsConsistent
      <3>2. K(i).start =< d /\ K(i).end =< d
        BY <2>2
      <3> QED BY <3>1, <3>2, <1>3, <1>4
    <2>5. ASSUME M(i) # None
          PROVE  Within(Least(EffectiveStart(Old(i)), K(i).start),
                        Greatest(EffectiveEnd(Old(i)), K(i).end), M(i))
      <3>1. M(i).start \in Nat /\ M(i).end \in Nat
        BY <2>1, <2>5 DEF AMoment, IsMoment
      <3>2. Within(EffectiveStart(Old(i)), EffectiveEnd(Old(i)), M(i))
        BY <2>1, <2>5 DEF AMoment, IsMoment
      <3> QED BY <3>1, <3>2, <2>5, <2>2, <2>3 DEF Within, Least, Greatest
    <2> QED BY <2>1, <2>4, <2>5, <1>3, <1>4, <1>5 DEF CandidateIsConsistent, M, Old
  <1>13. ReferencesAreConsistent(w)
    <2>1. IsInjective(Ids(w.candidates))
      BY <1>1, <1>10 DEF ReferencesAreConsistent
    <2> QED BY <2>1, <1>3, <1>11, <1>12 DEF ReferencesAreConsistent, New
  <1>14. ASoundMap(w, d)
    BY <1>1, <1>3, <1>8, <1>13 DEF ASoundMap, New
  <1> QED
    BY <1>3, <1>7, <1>9, <1>14 DEF w, New, Old

-------------------------------------------------------------------------------
\* The invariant.  The maps of the windows: accepted, and all of the source.
MapsAreSound ==
    /\ IsSequence(maps) /\ Len(maps) =< Len(windows)
    /\ maps # <<>> => phase = "planned"
    /\ \A w \in DOMAIN maps :
        /\ IsSessionMap(maps[w]) /\ maps[w].duration = input.duration
        /\ \A k \in DOMAIN maps[w].matches : AMatch(maps[w].matches[k], input.duration)
        /\ \A k \in DOMAIN maps[w].candidates :
            Unclipped(maps[w].candidates[k], input.duration)

\* The moment at a place, and whether one of the events holds it.
Seen(p) == maps[p[1]].candidates[p[2]]
IsHeld(x) == \E n \in DOMAIN events : Holds(events[n], x)

\* The loops of the reconciliation: what they go through, the matches they
\* have made, which follow one another once they are kept, and the events,
\* which hold every moment that has been taken.
MatchesAreSound ==
    /\ IsSequence(joined) /\ \A i \in DOMAIN joined : AMatch(joined[i], input.duration)
    /\ IsSequence(kept) /\ \A i \in DOMAIN kept : AMatch(kept[i], input.duration)
    /\ Follow(kept)
    /\ stage = "deduplicating" => IsInjective(Ids(kept))

EventsAreSound ==
    /\ IsSequence(events) /\ \A i \in DOMAIN events : Unclipped(events[i], input.duration)
    /\ stage = "deduplicating" => \A p \in CandidatePlaces \ rest : IsHeld(Seen(p))

LoopsAreSound ==
    /\ rest \subseteq Places
    /\ stage \in Loops => phase = "planned"
    /\ MatchesAreSound
    /\ EventsAreSound

\* The map of the session, once it has been accepted.
SessionIsSound == stage \in {"reconciled", "written"} => ASoundMap(sessionMap, input.duration)

SessionInv ==
    /\ SessionIsSound
    /\ NothingReportedIsLost /\ RefusedForCandidates /\ ClipsHoldTheirMoments

MapsInv ==
    /\ PlanInv
    /\ stage \in Stages /\ policy \in Policies \cup {None}
    /\ MapsAreSound /\ LoopsAreSound /\ SessionInv

\* What the places of the loops lead to.
LEMMA PlacesLead ==
    ASSUME MapsInv
    PROVE  /\ input.duration \in Int
           /\ \A p \in MatchPlaces : AMatch(maps[p[1]].matches[p[2]], input.duration)
           /\ \A p \in CandidatePlaces : Unclipped(Seen(p), input.duration)
           /\ \A w \in DOMAIN maps : \A k \in DOMAIN maps[w].candidates :
                <<w, k>> \in CandidatePlaces
  <1>1. input.duration \in Int
    BY DEF MapsInv, PlanInv, PlanTypeOK
  <1>2. ASSUME NEW p \in MatchPlaces
        PROVE  AMatch(maps[p[1]].matches[p[2]], input.duration)
    <2>1. PICK w \in Usable : p \in {w} \X DOMAIN maps[w].matches
      BY DEF MatchPlaces
    <2>2. w \in DOMAIN maps /\ p[1] = w /\ p[2] \in DOMAIN maps[w].matches
      BY <2>1 DEF Usable
    <2> QED BY <2>2 DEF MapsInv, MapsAreSound
  <1>3. ASSUME NEW p \in CandidatePlaces PROVE Unclipped(Seen(p), input.duration)
    <2>1. PICK w \in Usable : p \in {w} \X DOMAIN maps[w].candidates
      BY DEF CandidatePlaces
    <2>2. w \in DOMAIN maps /\ p[1] = w /\ p[2] \in DOMAIN maps[w].candidates
      BY <2>1 DEF Usable
    <2> QED BY <2>2 DEF MapsInv, MapsAreSound, Seen
  <1>4. ASSUME NEW w \in DOMAIN maps, NEW k \in DOMAIN maps[w].candidates
        PROVE  <<w, k>> \in CandidatePlaces
    <2>1. w \in Usable
      BY DEF MapsInv, MapsAreSound, Usable
    <2> QED BY <2>1 DEF CandidatePlaces
  <1> QED
    BY <1>1, <1>2, <1>3, <1>4

\* The loops begin with nothing made.
LEMMA MapsInit == Init => MapsInv
  <1> SUFFICES ASSUME Init PROVE MapsInv
    OBVIOUS
  <1>1. PlanInv
    BY PlanInitInv DEF Init
  <1>2. windows = <<>> /\ Len(windows) = 0
    BY DEF Init, PlanInit
  <1>3. stage = "scouting" /\ policy = None /\ maps = <<>> /\ rest = {}
        /\ joined = <<>> /\ kept = <<>> /\ events = <<>>
    BY DEF Init
  <1>4. IsSequence(<<>>) /\ DOMAIN <<>> = {} /\ Len(<<>>) = 0
    BY LastIs, SMT DEF IsSequence
  <1>5. MapsAreSound
    BY <1>2, <1>3, <1>4 DEF MapsAreSound
  <1>6. LoopsAreSound
    BY <1>3, <1>4 DEF LoopsAreSound, MatchesAreSound, EventsAreSound, Follow, Loops
  <1>7. SessionInv
    BY <1>3 DEF SessionInv, SessionIsSound, NothingReportedIsLost, RefusedForCandidates,
                ClipsHoldTheirMoments
  <1> QED
    BY <1>1, <1>3, <1>5, <1>6, <1>7 DEF MapsInv, Stages

\* The planner works before there is a map.
LEMMA PlanKeeps == MapsInv /\ Plan => MapsInv'
  <1> SUFFICES ASSUME MapsInv, Plan PROVE MapsInv'
    OBVIOUS
  <1>1. PlanInv' /\ input' = input
    BY PlanStepInv DEF MapsInv, Plan, PlanNext, Cut, Check
  <1>2. phase # "planned" /\ maps = <<>> /\ stage \notin Loops
    BY DEF Plan, PlanNext, Cut, Check, MapsInv, MapsAreSound, LoopsAreSound
  <1>3. Len(windows') \in Nat
    BY <1>1 DEF PlanInv, PlanTypeOK
  <1>4. IsSequence(<<>>) /\ DOMAIN <<>> = {} /\ Len(<<>>) = 0
    BY LastIs, SMT DEF IsSequence
  <1>5. /\ maps' = maps /\ rest' = rest /\ joined' = joined /\ kept' = kept
        /\ events' = events /\ sessionMap' = sessionMap /\ policy' = policy /\ stage' = stage
    BY DEF Plan, loopVars
  <1>6. MapsAreSound'
    BY <1>2, <1>3, <1>4, <1>5 DEF MapsAreSound
  <1>7. stage # "deduplicating" /\ rest = {}
    BY <1>2 DEF Loops, MapsInv, LoopsAreSound, Places
  <1>8. LoopsAreSound'
    BY <1>1, <1>2, <1>5, <1>7
       DEF MapsInv, LoopsAreSound, MatchesAreSound, EventsAreSound, Loops
  <1>9. SessionInv'
    BY <1>1, <1>5 DEF MapsInv, SessionInv, SessionIsSound, NothingReportedIsLost,
                      RefusedForCandidates, ClipsHoldTheirMoments
  <1> QED
    BY <1>1, <1>5, <1>6, <1>8, <1>9 DEF MapsInv

\* An answer of a window joins the maps as the map it is made into.
LEMMA TakeAnswerKeeps ==
    ASSUME MapsInv, Unanswered, NEW r, NEW refusal \in {"refused", "unreadable_fixture"},
           TakeAnswer(r, refusal), UNCHANGED <<planVars, loopVars, sessionMap, policy>>
    PROVE  MapsInv'
  <1> DEFINE d == input.duration
             map == CanonicalMap(r, NextWindow.ordinal, d)
  <1>1. /\ input' = input /\ windows' = windows /\ phase' = phase
        /\ rest' = rest /\ joined' = joined /\ kept' = kept /\ events' = events
        /\ sessionMap' = sessionMap /\ policy' = policy
    BY DEF planVars, loopVars
  <1>2. PlanInv'
    BY <1>1, PlanStepInv DEF MapsInv, planVars
  <1>3. d \in Int /\ IsSequence(maps) /\ Len(windows) \in Nat
    BY DEF MapsInv, PlanInv, PlanTypeOK, MapsAreSound
  <1>4. stage = "scouting" /\ phase = "planned" /\ Len(maps) < Len(windows) /\ rest = {}
    BY DEF Unanswered, MapsInv, LoopsAreSound, Places
  <1>5. stage' \in {"scouting", "refused", "unreadable_fixture"}
    BY <1>4, Zenon DEF TakeAnswer
  <1>6. MapsAreSound'
    <2>1. CASE IsAccepted(r, NextWindow, NextWindow.ordinal, d)
      <3>1. IsSessionMap(map)
        BY <2>1 DEF IsAccepted
      <3>2. maps' = Append(maps, map)
        BY <2>1 DEF TakeAnswer
      <3> HIDE DEF map
      <3>3. /\ IsSequence(maps') /\ Len(maps) \in Nat /\ Len(maps') = Len(maps) + 1
            /\ DOMAIN maps = 1..Len(maps) /\ DOMAIN maps' = 1..(Len(maps) + 1)
            /\ \A w \in DOMAIN maps : maps'[w] = maps[w]
            /\ maps'[Len(maps) + 1] = map
        BY <3>2, <1>3, AppendIs
      <3>4. /\ map.duration = d
            /\ \A k \in DOMAIN map.matches : AMatch(map.matches[k], d)
            /\ \A k \in DOMAIN map.candidates : Unclipped(map.candidates[k], d)
        BY <3>1, <1>3, CanonicalMapIs DEF map
      <3>5. ASSUME NEW w \in DOMAIN maps'
            PROVE  /\ IsSessionMap(maps'[w]) /\ maps'[w].duration = d
                   /\ \A k \in DOMAIN maps'[w].matches : AMatch(maps'[w].matches[k], d)
                   /\ \A k \in DOMAIN maps'[w].candidates : Unclipped(maps'[w].candidates[k], d)
        <4>1. CASE w \in DOMAIN maps
          BY <4>1, <3>3 DEF MapsInv, MapsAreSound
        <4>2. CASE w = Len(maps) + 1
          BY <4>2, <3>1, <3>3, <3>4
        <4> QED BY <4>1, <4>2, <3>3
      <3>6. Len(maps') =< Len(windows)
        BY <3>3, <1>3, <1>4
      <3> QED BY <3>3, <3>5, <3>6, <1>1, <1>4 DEF MapsAreSound
    <2>2. CASE ~IsAccepted(r, NextWindow, NextWindow.ordinal, d)
      <3>1. maps' = maps
        BY <2>2 DEF TakeAnswer
      <3> QED BY <3>1, <1>1 DEF MapsInv, MapsAreSound
    <2> QED BY <2>1, <2>2
  <1>7. LoopsAreSound'
    BY <1>1, <1>4, <1>5 DEF MapsInv, LoopsAreSound, MatchesAreSound, EventsAreSound, Loops
  <1>8. SessionInv'
    BY <1>5 DEF SessionInv, SessionIsSound, NothingReportedIsLost, RefusedForCandidates,
                ClipsHoldTheirMoments
  <1> QED
    BY <1>1, <1>2, <1>5, <1>6, <1>7, <1>8 DEF MapsInv, Stages

\* The scout of the whole source makes the map of the session at once.
LEMMA AskSessionKeeps == MapsInv /\ AskSessionFixture => MapsInv'
  <1> SUFFICES ASSUME MapsInv, AskSessionFixture PROVE MapsInv'
    OBVIOUS
  <1> DEFINE d == input.duration
             r == SessionFixture(d)
             map == CanonicalMap(r, 0, d)
  <1>1. /\ input' = input /\ windows' = windows /\ phase' = phase /\ maps' = maps
        /\ rest' = rest /\ joined' = joined /\ kept' = kept /\ events' = events
        /\ policy' = policy
    BY DEF AskSessionFixture, planVars, loopVars
  <1>2. stage = "scouting" /\ phase = "planning"
    BY DEF AskSessionFixture
  <1>3. d \in Int /\ maps = <<>> /\ rest = {}
    BY <1>2 DEF MapsInv, PlanInv, PlanTypeOK, MapsAreSound, LoopsAreSound, Places
  <1>4. \/ IsAccepted(r, None, 0, d) /\ stage' = "reconciled" /\ sessionMap' = map
        \/ stage' = "unreadable_fixture"
    BY DEF AskSessionFixture
  <1>5. ASSUME stage' = "reconciled" PROVE ASoundMap(sessionMap', d)
    <2>1. IsSessionMap(map) /\ sessionMap' = map
      BY <1>4, <1>5 DEF IsAccepted
    <2>2. DOMAIN r.matches \subseteq Nat
      <3>1. \E a, b : r.matches = <<a>> \/ r.matches = <<a, b>>
        BY Zenon DEF SessionFixture, Answer
      <3> QED BY <3>1
    <2> HIDE DEF r
    <2> QED BY <2>1, <2>2, <1>3, CanonicalMapIsSound
  <1> HIDE DEF map, r
  <1>6. PlanInv'
    BY <1>1, PlanStepInv DEF MapsInv, planVars
  <1>7. MapsAreSound'
    BY <1>1 DEF MapsInv, MapsAreSound
  <1>8. LoopsAreSound'
    BY <1>1, <1>3, <1>4 DEF MapsInv, LoopsAreSound, MatchesAreSound, EventsAreSound, Loops
  <1>9. SessionInv'
    <2>1. SessionIsSound'
      BY <1>1, <1>4, <1>5 DEF SessionIsSound
    <2>2. DOMAIN <<>> = {}
      OBVIOUS
    <2>3. NothingReportedIsLost'
      BY <2>2, <1>1, <1>3 DEF NothingReportedIsLost
    <2> QED BY <2>1, <2>3, <1>4 DEF SessionInv, RefusedForCandidates, ClipsHoldTheirMoments
  <1> QED
    BY <1>1, <1>4, <1>6, <1>7, <1>8, <1>9 DEF MapsInv, Stages

\* What a step of the loops leaves alone.
LEMMA ReconcileFrame ==
    ASSUME MapsInv, UNCHANGED <<planVars, maps, policy>>
    PROVE  /\ input' = input /\ PlanInv' /\ MapsAreSound' /\ policy' \in Policies \cup {None}
           /\ CandidatePlaces' = CandidatePlaces /\ MatchPlaces' = MatchPlaces
           /\ stage' \in Loops =>
                SessionInv' /\ (stage \in Loops \/ phase = "planned" => phase' = "planned")
  <1>1. input' = input /\ windows' = windows /\ phase' = phase /\ maps' = maps /\ policy' = policy
    BY DEF planVars
  <1>2. PlanInv'
    BY <1>1, PlanStepInv DEF MapsInv, planVars
  <1>3. MapsAreSound'
    BY <1>1 DEF MapsInv, MapsAreSound
  <1>4. stage' \in Loops => SessionInv'
    BY DEF Loops, SessionInv, SessionIsSound, NothingReportedIsLost, RefusedForCandidates,
           ClipsHoldTheirMoments
  <1>5. CandidatePlaces' = CandidatePlaces /\ MatchPlaces' = MatchPlaces
    BY <1>1 DEF CandidatePlaces, MatchPlaces, Usable
  <1> QED
    BY <1>1, <1>2, <1>3, <1>4, <1>5 DEF MapsInv, LoopsAreSound

\* The first loop starts: nothing is joined yet that was not.
LEMMA StartKeeps == MapsInv /\ StartReconciliation => MapsInv'
  <1> SUFFICES ASSUME MapsInv, StartReconciliation PROVE MapsInv'
    OBVIOUS
  <1>1. /\ phase = "planned" /\ stage' = "matching" /\ rest' = MatchPlaces
        /\ joined' = joined /\ kept' = kept /\ events' = events
    BY DEF StartReconciliation
  <1>2. UNCHANGED <<planVars, maps, policy>>
    BY DEF StartReconciliation
  <1>3. LoopsAreSound'
    <2>1. Places' = MatchPlaces
      BY <1>1, <1>2, ReconcileFrame DEF Places
    <2>2. MatchesAreSound' /\ EventsAreSound'
      BY <1>1, <1>2, ReconcileFrame DEF MapsInv, LoopsAreSound, MatchesAreSound, EventsAreSound
    <2> QED BY <2>1, <2>2, <1>1, <1>2, ReconcileFrame DEF LoopsAreSound, Loops
  <1> QED
    BY <1>1, <1>2, <1>3, ReconcileFrame DEF MapsInv, Loops, Stages

\* A turn of the first loop joins a match that is one of the maps'.
LEMMA JoinKeeps == MapsInv /\ JoinMatch => MapsInv'
  <1> SUFFICES ASSUME MapsInv, JoinMatch PROVE MapsInv'
    OBVIOUS
  <1>1. PICK p \in rest : /\ joined' = AddMatch(joined, maps[p[1]].matches[p[2]])
                          /\ rest' = rest \ {p}
    BY DEF JoinMatch
  <1>2. /\ stage = "matching" /\ stage' = "matching" /\ kept' = kept /\ events' = events
        /\ UNCHANGED <<planVars, maps, policy>>
    BY DEF JoinMatch
  <1>3. rest \subseteq MatchPlaces /\ phase = "planned" /\ input.duration \in Int
    BY <1>2, PlacesLead DEF MapsInv, LoopsAreSound, Places, Loops
  <1>4. IsSequence(joined') /\ \A i \in DOMAIN joined' : AMatch(joined'[i], input.duration)
    <2>1. AMatch(maps[p[1]].matches[p[2]], input.duration)
      BY <1>3, PlacesLead
    <2>2. IsSequence(joined) /\ \A i \in DOMAIN joined : AMatch(joined[i], input.duration)
      BY DEF MapsInv, LoopsAreSound, MatchesAreSound
    <2> QED BY <2>1, <2>2, <1>1, <1>3, AddMatchIs
  <1>5. LoopsAreSound'
    <2>1. rest' \subseteq Places'
      BY <1>1, <1>2, <1>3, ReconcileFrame DEF Places
    <2>2. MatchesAreSound' /\ EventsAreSound'
      BY <1>2, <1>4, ReconcileFrame
         DEF MapsInv, LoopsAreSound, MatchesAreSound, EventsAreSound
    <2> QED BY <2>1, <2>2, <1>2, <1>3, ReconcileFrame DEF LoopsAreSound, Loops
  <1> QED
    BY <1>2, <1>5, ReconcileFrame DEF MapsInv, Loops, Stages

\* The second loop goes through what the first has joined.
LEMMA SeparateKeeps == MapsInv /\ SeparateMatches => MapsInv'
  <1> SUFFICES ASSUME MapsInv, SeparateMatches PROVE MapsInv'
    OBVIOUS
  <1>1. /\ stage = "matching" /\ stage' = "separating" /\ rest' = DOMAIN joined
        /\ joined' = joined /\ kept' = kept /\ events' = events
        /\ UNCHANGED <<planVars, maps, policy>>
    BY DEF SeparateMatches
  <1>2. phase = "planned"
    BY <1>1 DEF MapsInv, LoopsAreSound, Loops
  <1>3. LoopsAreSound'
    <2>1. MatchesAreSound' /\ EventsAreSound'
      BY <1>1, ReconcileFrame DEF MapsInv, LoopsAreSound, MatchesAreSound, EventsAreSound
    <2> QED BY <2>1, <1>1, <1>2, ReconcileFrame DEF LoopsAreSound, Loops, Places
  <1> QED
    BY <1>1, <1>3, ReconcileFrame DEF MapsInv, Loops, Stages

\* A turn of the second loop keeps a match that follows the others, or drops it.
LEMMA KeepKeeps == MapsInv /\ KeepMatch => MapsInv'
  <1> SUFFICES ASSUME MapsInv, KeepMatch PROVE MapsInv'
    OBVIOUS
  <1>1. PICK p \in rest : kept' = KeepDisjoint(kept, joined[p]) /\ rest' = rest \ {p}
    BY DEF KeepMatch
  <1>2. /\ stage = "separating" /\ stage' = "separating" /\ joined' = joined
        /\ events' = events /\ UNCHANGED <<planVars, maps, policy>>
    BY DEF KeepMatch
  <1>3. rest \subseteq DOMAIN joined /\ phase = "planned" /\ input.duration \in Int
    BY <1>2, PlacesLead DEF MapsInv, LoopsAreSound, Places, Loops
  <1>4. /\ IsSequence(kept') /\ Follow(kept')
        /\ \A i \in DOMAIN kept' : AMatch(kept'[i], input.duration)
    <2>1. /\ IsSequence(kept) /\ \A i \in DOMAIN kept : AMatch(kept[i], input.duration)
          /\ Follow(kept) /\ AMatch(joined[p], input.duration)
      BY <1>3 DEF MapsInv, LoopsAreSound, MatchesAreSound
    <2> QED BY <2>1, <1>1, <1>3, KeepDisjointIs
  <1>5. LoopsAreSound'
    <2>1. rest' \subseteq Places'
      BY <1>1, <1>2, <1>3 DEF Places
    <2>2. MatchesAreSound' /\ EventsAreSound'
      BY <1>2, <1>4, ReconcileFrame
         DEF MapsInv, LoopsAreSound, MatchesAreSound, EventsAreSound
    <2> QED BY <2>1, <2>2, <1>2, <1>3, ReconcileFrame DEF LoopsAreSound, Loops
  <1> QED
    BY <1>2, <1>5, ReconcileFrame DEF MapsInv, Loops, Stages

\* The ids of the kept matches are made of their bounds, and differ.
LEMMA NameKeeps == MapsInv /\ NameMatches => MapsInv'
  <1> SUFFICES ASSUME MapsInv, NameMatches PROVE MapsInv'
    OBVIOUS
  <1>1. /\ stage = "separating" /\ stage' = "deduplicating" /\ rest' = CandidatePlaces
        /\ kept' = WithMatchIds(kept) /\ joined' = joined /\ events' = events
        /\ UNCHANGED <<planVars, maps, policy>>
    BY DEF NameMatches
  <1>2. phase = "planned" /\ input.duration \in Int
    BY <1>1, PlacesLead DEF MapsInv, LoopsAreSound, Loops
  <1>3. /\ IsSequence(kept') /\ Follow(kept') /\ IsInjective(Ids(kept'))
        /\ \A i \in DOMAIN kept' : AMatch(kept'[i], input.duration)
    <2>1. /\ IsSequence(kept) /\ \A i \in DOMAIN kept : AMatch(kept[i], input.duration)
          /\ Follow(kept)
      BY DEF MapsInv, LoopsAreSound, MatchesAreSound
    <2> QED BY <2>1, <1>1, <1>2, WithMatchIdsIs
  <1>4. LoopsAreSound'
    <2>1. rest' = CandidatePlaces' /\ Places' = CandidatePlaces'
      BY <1>1, ReconcileFrame DEF Places
    <2>2. MatchesAreSound' /\ EventsAreSound'
      BY <2>1, <1>1, <1>3, ReconcileFrame
         DEF MapsInv, LoopsAreSound, MatchesAreSound, EventsAreSound
    <2> QED BY <2>1, <2>2, <1>1, <1>2, ReconcileFrame DEF LoopsAreSound, Loops
  <1> QED
    BY <1>1, <1>4, ReconcileFrame DEF MapsInv, Loops, Stages

\* A turn of the third loop: the moment it takes is held by an event from then
\* on, and what was held stays held.
LEMMA TakeKeeps == MapsInv /\ TakeCandidate => MapsInv'
  <1> SUFFICES ASSUME MapsInv, TakeCandidate PROVE MapsInv'
    OBVIOUS
  <1>1. PICK p \in rest : events' = AddCandidate(events, Seen(p), kept, Ranges) /\ rest' = rest \ {p}
    BY DEF TakeCandidate, Seen
  <1>2. /\ stage = "deduplicating" /\ stage' = "deduplicating" /\ joined' = joined
        /\ kept' = kept /\ UNCHANGED <<planVars, maps, policy>>
    BY DEF TakeCandidate
  <1>3. rest \subseteq CandidatePlaces /\ phase = "planned" /\ input.duration \in Int
    BY <1>2, PlacesLead DEF MapsInv, LoopsAreSound, Places, Loops
  <1>4. /\ IsSequence(events)
        /\ \A i \in DOMAIN events : Unclipped(events[i], input.duration)
        /\ \A q \in CandidatePlaces \ rest : IsHeld(Seen(q))
    BY <1>2 DEF MapsInv, LoopsAreSound, EventsAreSound
  <1>5. /\ IsSequence(events')
        /\ \A i \in DOMAIN events' : Unclipped(events'[i], input.duration)
        /\ \A x : AMoment(x, None, input.duration) /\ IsHeld(x)
                    => \E n \in DOMAIN events' : Holds(events'[n], x)
        /\ \E n \in DOMAIN events' : Holds(events'[n], Seen(p))
    <2>1. Unclipped(Seen(p), input.duration)
      BY <1>3, PlacesLead
    <2> QED BY <2>1, <1>1, <1>3, <1>4, AddCandidateIs DEF IsHeld
  <1>6. ASSUME NEW q \in CandidatePlaces, q \notin rest'
        PROVE  \E n \in DOMAIN events' : Holds(events'[n], Seen(q))
    <2>1. CASE q = p
      BY <2>1, <1>5
    <2>2. CASE q # p
      <3>1. AMoment(Seen(q), None, input.duration)
        BY PlacesLead DEF Unclipped
      <3>2. IsHeld(Seen(q))
        BY <2>2, <1>1, <1>4, <1>6
      <3> QED BY <3>1, <3>2, <1>5
    <2> QED BY <2>1, <2>2
  <1>7. LoopsAreSound'
    <2>1. rest' \subseteq Places'
      BY <1>1, <1>2, <1>3, ReconcileFrame DEF Places
    <2>2. MatchesAreSound'
      BY <1>2, ReconcileFrame DEF MapsInv, LoopsAreSound, MatchesAreSound
    <2>3. EventsAreSound'
      BY <1>2, <1>5, <1>6, ReconcileFrame DEF EventsAreSound, IsHeld, Seen
    <2> QED BY <2>1, <2>2, <2>3, <1>2, <1>3, ReconcileFrame DEF LoopsAreSound, Loops
  <1> QED
    BY <1>2, <1>7, ReconcileFrame DEF MapsInv, Loops, Stages

\* The map of the session is sound when the validator accepts it, and holds
\* every moment of the windows.
LEMMA EndKeeps == MapsInv /\ EndReconciliation => MapsInv'
  <1> SUFFICES ASSUME MapsInv, EndReconciliation PROVE MapsInv'
    OBVIOUS
  <1> DEFINE d == input.duration
             map == ReconciledMap(events, kept, d)
  <1>1. /\ stage = "deduplicating" /\ rest = {}
        /\ stage' = IF ReferencesAreConsistent(map) THEN "reconciled" ELSE "failed"
        /\ sessionMap' = map
        /\ UNCHANGED <<planVars, maps, loopVars, policy>>
    BY DEF EndReconciliation
  <1>2. /\ rest' = rest /\ joined' = joined /\ kept' = kept /\ events' = events
        /\ UNCHANGED <<planVars, maps, policy>> /\ stage' \in {"reconciled", "failed"}
        /\ stage' = "reconciled" <=> ReferencesAreConsistent(map)
    BY <1>1 DEF loopVars
  <1>3. /\ d \in Int
        /\ IsSequence(kept) /\ \A i \in DOMAIN kept : AMatch(kept[i], d)
        /\ Follow(kept) /\ IsInjective(Ids(kept))
        /\ \A i \in DOMAIN events : Unclipped(events[i], d)
    BY <1>1, PlacesLead DEF MapsInv, LoopsAreSound, MatchesAreSound, EventsAreSound
  <1>4. /\ ReferencesAreConsistent(map) => ASoundMap(map, d)
        /\ \/ ReferencesAreConsistent(map)
           \/ ~IsInjective(Ids(map.candidates))
           \/ \E i \in DOMAIN map.candidates :
                /\ map.candidates[i].match # None
                /\ ~Within(EffectiveStart(map.candidates[i]), EffectiveEnd(map.candidates[i]),
                           MatchOf(map, map.candidates[i]))
        /\ DOMAIN map.candidates = DOMAIN events
        /\ \A i \in DOMAIN events : \A x :
            Holds(events[i], x) => Holds(map.candidates[i], x)
    BY <1>3, ReconciledMapIs
  <1> HIDE DEF map
  <1>5. input' = input /\ maps' = maps
    BY <1>2, ReconcileFrame
  <1>6. ASSUME NEW w \in DOMAIN maps, NEW k \in DOMAIN maps[w].candidates
        PROVE  \E n \in DOMAIN map.candidates : Holds(map.candidates[n], maps[w].candidates[k])
    <2>1. <<w, k>> \in CandidatePlaces /\ Seen(<<w, k>>) = maps[w].candidates[k]
      BY PlacesLead DEF Seen
    <2>2. PICK n \in DOMAIN events : Holds(events[n], maps[w].candidates[k])
      BY <2>1, <1>1 DEF MapsInv, LoopsAreSound, EventsAreSound, IsHeld
    <2> QED BY <2>2, <1>4
  <1>7. SessionInv'
    <2>1. SessionIsSound'
      BY <1>1, <1>2, <1>4, <1>5 DEF SessionIsSound
    <2>2. NothingReportedIsLost'
      BY <1>1, <1>5, <1>6 DEF NothingReportedIsLost
    <2>3. RefusedForCandidates'
      BY <1>1, <1>2, <1>4 DEF RefusedForCandidates
    <2>4. ClipsHoldTheirMoments'
      BY <1>2 DEF ClipsHoldTheirMoments
    <2> QED BY <2>1, <2>2, <2>3, <2>4 DEF SessionInv
  <1>8. LoopsAreSound'
    BY <1>1, <1>2, <1>5 DEF MapsInv, LoopsAreSound, MatchesAreSound, EventsAreSound, Loops
  <1> QED
    BY <1>2, <1>7, <1>8, ReconcileFrame DEF MapsInv, Stages

\* Clips put into the map leave it sound, under whatever policy and as often.
LEMMA DeriveKeeps == MapsInv /\ DeriveClips => MapsInv'
  <1> SUFFICES ASSUME MapsInv, DeriveClips PROVE MapsInv'
    OBVIOUS
  <1>1. PICK p \in Policies : policy' = p /\ sessionMap' = WithClips(sessionMap, p)
    BY DEF DeriveClips
  <1>2. /\ stage \in {"reconciled", "written"} /\ stage' = "written"
        /\ rest' = rest /\ joined' = joined /\ kept' = kept /\ events' = events
        /\ input' = input /\ windows' = windows /\ phase' = phase /\ maps' = maps
    BY DEF DeriveClips, planVars, loopVars
  <1>3. input.duration \in Int /\ IsPolicy(p) /\ ASoundMap(sessionMap, input.duration)
    BY <1>2, MapsAssumption DEF MapsInv, PlanInv, PlanTypeOK, SessionInv, SessionIsSound
  <1> DEFINE w == WithClips(sessionMap, p)
  <1>4. /\ ASoundMap(w, input.duration)
        /\ DOMAIN w.candidates = DOMAIN sessionMap.candidates
        /\ \A i \in DOMAIN w.candidates :
            ClipIsSound(w.candidates[i].clip, w.candidates[i], MatchOf(w, w.candidates[i]),
                        p, input.duration)
        /\ \A i \in DOMAIN w.candidates : \A x :
            Holds(sessionMap.candidates[i], x) => Holds(w.candidates[i], x)
    BY <1>3, WithClipsIs
  <1>5. sessionMap' = w
    BY <1>1
  <1> HIDE DEF w
  <1>6. NothingReportedIsLost'
    <2>1. ASSUME NEW i \in DOMAIN maps, NEW k \in DOMAIN maps[i].candidates
          PROVE  \E n \in DOMAIN w.candidates : Holds(w.candidates[n], maps[i].candidates[k])
      BY <1>2, <1>4 DEF MapsInv, SessionInv, NothingReportedIsLost
    <2> QED BY <2>1, <1>2, <1>5 DEF NothingReportedIsLost
  <1>7. SessionInv'
    BY <1>1, <1>2, <1>4, <1>5, <1>6
       DEF SessionInv, SessionIsSound, RefusedForCandidates, ClipsHoldTheirMoments
  <1>8. PlanInv'
    BY <1>2, PlanStepInv DEF MapsInv, planVars
  <1>9. MapsAreSound'
    BY <1>2 DEF MapsInv, MapsAreSound
  <1>10. LoopsAreSound'
    <2>1. rest = {}
      BY <1>2 DEF MapsInv, LoopsAreSound, Places
    <2> QED BY <2>1, <1>2 DEF MapsInv, LoopsAreSound, MatchesAreSound, EventsAreSound, Loops
  <1> QED
    BY <1>1, <1>2, <1>7, <1>8, <1>9, <1>10 DEF MapsInv, Stages

\* Every step keeps the invariant.
LEMMA MapsStep == MapsInv /\ [Next]_vars => MapsInv'
  <1> SUFFICES ASSUME MapsInv, [Next]_vars PROVE MapsInv'
    OBVIOUS
  <1>1. CASE Plan
    BY <1>1, PlanKeeps
  <1>2. CASE AskProvider
    <2>1. PICK r \in Answers(NextWindow, input.duration) : TakeAnswer(r, "refused")
      BY <1>2 DEF AskProvider
    <2>2. Unanswered /\ UNCHANGED <<planVars, loopVars, sessionMap, policy>>
      BY <1>2 DEF AskProvider
    <2> QED BY <2>1, <2>2, TakeAnswerKeeps
  <1>3. CASE AskFixture
    <2>1. /\ Unanswered /\ UNCHANGED <<planVars, loopVars, sessionMap, policy>>
          /\ TakeAnswer(WindowFixture(NextWindow, input.duration), "unreadable_fixture")
      BY <1>3 DEF AskFixture
    <2> QED BY <2>1, TakeAnswerKeeps
  <1>4. CASE AskSessionFixture
    BY <1>4, AskSessionKeeps
  <1>5. CASE Reconcile
    BY <1>5, StartKeeps, JoinKeeps, SeparateKeeps, KeepKeeps, NameKeeps, TakeKeeps, EndKeeps
       DEF Reconcile
  <1>6. CASE DeriveClips
    BY <1>6, DeriveKeeps
  <1>7. CASE UNCHANGED vars
    <2>1. UNCHANGED <<planVars, maps, policy>> /\ UNCHANGED <<loopVars, sessionMap, stage>>
      BY <1>7 DEF vars
    <2>2. UNCHANGED <<input, maps, rest, joined, kept, events, sessionMap, stage, policy, phase>>
      BY <2>1 DEF planVars, loopVars
    <2>3. Places' = Places
      BY <2>2, <2>1, ReconcileFrame DEF Places
    <2>4. LoopsAreSound'
      BY <2>1, <2>2, <2>3, ReconcileFrame
         DEF MapsInv, LoopsAreSound, MatchesAreSound, EventsAreSound, IsHeld, Seen
    <2>5. SessionInv'
      BY <2>2 DEF MapsInv, SessionInv, SessionIsSound, NothingReportedIsLost,
                  RefusedForCandidates, ClipsHoldTheirMoments
    <2> QED BY <2>1, <2>2, <2>4, <2>5, ReconcileFrame DEF MapsInv
  <1> QED
    BY <1>1, <1>2, <1>3, <1>4, <1>5, <1>6, <1>7 DEF Next

\* It holds in every state.
LEMMA MapsInvariant == Spec => []MapsInv
  BY MapsInit, MapsStep, PTL DEF Spec

-------------------------------------------------------------------------------
\* The variables have their types, every map of a window has passed the
\* validator, and the loops go through fragments of the maps.
THEOREM TypeCorrect == Spec => []TypeOK
  <1>1. MapsInv => TypeOK
    BY DEF MapsInv, PlanInv, MapsAreSound, LoopsAreSound, TypeOK
  <1> QED
    BY <1>1, MapsInvariant, PTL

\* Whatever legal arguments the planner is given, its own models accept what it
\* cut, and its check of forward progress never fires.
THEOREM PlannerAcceptsItsPlan == Spec => []PlanIsAccepted
  <1>1. MapsInv => PlanIsAccepted
    BY DEF MapsInv, PlanInv, PlanIsAccepted
  <1> QED
    BY <1>1, MapsInvariant, PTL

\* A moment no longer than the overlap lies whole in one of the windows.
THEOREM MomentsSeenWhole == Spec => []ShortMomentsSeenWhole
  <1>1. MapsInv => ShortMomentsSeenWhole
    BY PlanSeesMoments DEF MapsInv
  <1> QED
    BY <1>1, MapsInvariant, PTL

\* No moment of a window's map is lost on the way to the map of the session,
\* whatever it is merged with and in whatever order.
THEOREM NothingLost == Spec => []NothingReportedIsLost
  <1>1. MapsInv => NothingReportedIsLost
    BY DEF MapsInv, SessionInv
  <1> QED
    BY <1>1, MapsInvariant, PTL

\* The map of the session is refused for a candidate only, never for a match.
THEOREM RefusedOnlyForCandidates == Spec => []RefusedForCandidates
  <1>1. MapsInv => RefusedForCandidates
    BY DEF MapsInv, SessionInv
  <1> QED
    BY <1>1, MapsInvariant, PTL

\* The clips that are put into a map past its validator leave it one that the
\* validator would have accepted.
THEOREM WrittenConsistent == Spec => []WrittenMapIsConsistent
  <1>1. MapsInv => WrittenMapIsConsistent
    BY DEF MapsInv, SessionInv, SessionIsSound, ASoundMap, WrittenMapIsConsistent
  <1> QED
    BY <1>1, MapsInvariant, PTL

\* Every clip of a written map is sound under the policy it was derived with.
THEOREM ClipsHold == Spec => []ClipsHoldTheirMoments
  <1>1. MapsInv => ClipsHoldTheirMoments
    BY DEF MapsInv, SessionInv
  <1> QED
    BY <1>1, MapsInvariant, PTL
===============================================================================
