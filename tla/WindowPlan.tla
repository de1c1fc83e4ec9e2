------------------------------ MODULE WindowPlan ------------------------------
(***************************************************************************)
(* The planner of scout windows, domain/windows.py: plan_scout_windows     *)
(* cuts the source into overlapping windows one by one, ScoutWindow checks *)
(* each of them and WindowPlan the whole.                                  *)
(***************************************************************************)
EXTENDS Intervals, Sequences

CONSTANT Inputs     \* what the planner is called with

ASSUME InputsAssumption ==
    Inputs \subseteq [duration : Int, max : Int, overlap : Int, limit : Int]

VARIABLES
    input,      \* source duration, longest window, overlap, most windows
    windows,    \* the windows cut so far
    phase       \* of the planner

planVars == <<input, windows, phase>>

Phases == {"planning", "cut", "planned", "refused", "rejected", "stuck"}
Windows == [ordinal : Nat, start : Int, end : Int, before : Nat, after : Nat]

\* The checks of the arguments.
IsLegal(in) ==
    /\ in.duration > 0 /\ in.max > 0
    /\ in.overlap >= 0 /\ in.overlap < in.max
    /\ in.limit > 0

PlanInit ==
    /\ input \in Inputs
    /\ windows = <<>>
    /\ phase = IF IsLegal(input) THEN "planning" ELSE "refused"

LastWindow == windows[Len(windows)]

\* Mutant of NextStart: the next window starts where the last one ended.
NextStartAtEnd == IF windows = <<>> THEN 0 ELSE LastWindow.end

NextStart == IF windows = <<>> THEN 0 ELSE LastWindow.end - input.overlap

\* interval_is_valid of ScoutWindow
IntervalIsValid(w) ==
    /\ w.start < w.end /\ w.end =< input.duration
    /\ w.before =< w.end - w.start
    /\ w.after =< w.end - w.start

\* One turn of the loop.
Cut ==
    /\ phase = "planning"
    /\ LET start == NextStart
           end == Least(input.duration, start + input.max)
           next == IF end = input.duration THEN end ELSE end - input.overlap
           window == [ordinal |-> Len(windows), start |-> start, end |-> end,
                      before |-> IF windows = <<>> THEN 0
                                 ELSE Greatest(0, LastWindow.end - start),
                      after |-> IF end = input.duration THEN 0
                                ELSE Greatest(0, end - next)]
       IN  /\ windows' = Append(windows, window)
           /\ phase' = IF ~IntervalIsValid(window) THEN "rejected"
                       ELSE IF end = input.duration THEN "cut"
                       ELSE IF Len(windows) + 1 >= input.limit THEN "refused"
                       ELSE IF next =< start THEN "stuck"
                       ELSE "planning"
    /\ UNCHANGED input

\* plan_is_contiguous of WindowPlan
PlanIsContiguous ==
    /\ input.overlap < input.max
    /\ \A i \in 1..Len(windows) :
        LET w == windows[i]
        IN  /\ w.ordinal = i - 1
            /\ w.start =< IF i = 1 THEN 0 ELSE windows[i - 1].end
            /\ i > 1 => w.start = windows[i - 1].end - input.overlap
            /\ w.end - w.start =< input.max
    /\ windows[1].start = 0
    /\ LastWindow.end = input.duration

Check ==
    /\ phase = "cut"
    /\ phase' = IF PlanIsContiguous THEN "planned" ELSE "rejected"
    /\ UNCHANGED <<input, windows>>

PlanNext == Cut \/ Check

-------------------------------------------------------------------------------
\* Types of the variables.
PlanTypeOK ==
    /\ input \in [duration : Int, max : Int, overlap : Int, limit : Int]
    /\ windows \in Seq(Windows)
    /\ phase \in Phases

\* The planner's own models never reject what it cut, and its check of forward
\* progress never fires: legal arguments end in a plan or at the limit.
PlanIsAccepted == phase \notin {"rejected", "stuck"}

\* What the overlap is for: a moment that is no longer than the overlap, or
\* that lasts one unit of time, lies whole in one of the windows.
ShortMomentsSeenWhole ==
    phase \in {"cut", "planned"} =>
        \A a \in 0..(input.duration - 1) :
            \A b \in (a + 1)..Least(input.duration, a + Greatest(1, input.overlap)) :
                \E i \in 1..Len(windows) : Within(a, b, windows[i])
===============================================================================
