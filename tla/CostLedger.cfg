\* Three calls that may fall in two months, two processes whose configured
\* budgets may differ.
CONSTANTS
    c1 = c1  c2 = c2  c3 = c3
    p1 = p1  p2 = p2
    low = low  mid = mid  high = high
    Calls = {c1, c2, c3}
    Procs = {p1, p2}
    Periods = {aug, sep}
    Fingerprints = {fp}
    Amounts = {2}
    Usages = {low, mid, high}
    UsageCost <- MCUsageCost
    Budgets = {3, 4}
    NoRow = NoRow  NoUsage = NoUsage  NoHold = NoHold  Closed = Closed  Idle = Idle
SPECIFICATION Spec
SYMMETRY Symmetry
INVARIANTS TypeOK WithinBudget UnackedOverrunHolds
PROPERTIES NoGrantUnderUnackedOverrun DispatchedMoneyStays FinalRowsStay ImplementsBudgetGate
