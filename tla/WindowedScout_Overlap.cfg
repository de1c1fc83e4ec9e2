\* Two overlapping runs of one window under two configurations.
CONSTANTS
    Workers = {p1, p2}
    Owner = owner
    WindowCount = 1
    Configs = {k1, k2}
    MaxRetries = 0
    MaxCharges = 2
    Price <- MCPrice
    Periods = {may}
    exact = exact  over = over
    Usages = {exact}
    UsageCost <- MCUsageCost
    Budgets = {3}
    NoRow = NoRow  NoUsage = NoUsage  NoHold = NoHold  Closed = Closed  Idle = Idle
    NoFile = NoFile
SPECIFICATION Spec
SYMMETRY Symmetry
INVARIANTS ChargedCallsCount ServedWindowsArePaid
PROPERTIES ImplementsLedger
