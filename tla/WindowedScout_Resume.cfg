\* Two windows, one run at a time under one configuration, two retries.
CONSTANTS
    Workers = {p}
    Owner = owner
    WindowCount = 2
    Configs = {k}
    MaxRetries = 2
    MaxCharges = 2
    Price <- MCPrice
    Periods = {may}
    exact = exact  over = over
    Usages = {exact, over}
    UsageCost <- MCUsageCost
    Budgets = {1, 3}
    NoRow = NoRow  NoUsage = NoUsage  NoHold = NoHold  Closed = Closed  Idle = Idle
    NoFile = NoFile
SPECIFICATION Spec
INVARIANTS TypeOK PaidOnce
