------------------------------ MODULE BudgetGate ------------------------------
(***************************************************************************)
(* What the cost gate promises its owner, with no ledger in sight: a       *)
(* monthly exposure that new paid calls may only raise within a budget and *)
(* only while the gate is open; exposure may go down when a call proves    *)
(* cheaper than was set aside for it; and the only way past what was set   *)
(* aside shuts the gate until the owner opens it again.                    *)
(***************************************************************************)
EXTENDS Naturals

CONSTANTS
    Periods,    \* the budget months
    Budgets     \* the monthly budgets the configuration may hold

VARIABLES
    exposure,   \* [Periods -> Nat]: micro-THB spent or set aside
    frozen      \* TRUE while the gate lets no new call through

vars == <<exposure, frozen>>

Init ==
    /\ exposure \in [Periods -> Nat]
    /\ frozen \in BOOLEAN

\* The month `m` is the only one whose exposure the step touches.
OnlyMonth(m) ==
    /\ exposure' \in [Periods -> Nat]
    /\ \A n \in Periods \ {m} : exposure'[n] = exposure[n]

\* A new call is let through: the month stays within a configured budget.
Commit(m) ==
    /\ ~frozen
    /\ OnlyMonth(m)
    /\ \E b \in Budgets : exposure'[m] <= b
    /\ UNCHANGED frozen

\* A call turned out to cost less than was set aside, or was never sent.
GiveBack(m) ==
    /\ OnlyMonth(m)
    /\ exposure'[m] <= exposure[m]
    /\ UNCHANGED frozen

\* A call cost more than was set aside: the gate shuts in the same step.
Overrun(m) ==
    /\ OnlyMonth(m)
    /\ exposure'[m] > exposure[m]
    /\ frozen' = TRUE

\* The owner opens the gate.
Reopen ==
    /\ frozen
    /\ frozen' = FALSE
    /\ UNCHANGED exposure

Next ==
    \/ \E m \in Periods : Commit(m) \/ GiveBack(m) \/ Overrun(m)
    \/ Reopen

Spec == Init /\ [][Next]_vars
===============================================================================
