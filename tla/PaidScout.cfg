\* Two configurations in turn, two uploads of the proxy.
CONSTANTS
    Runner = runner  Owner = owner
    Configs = {k1, k2}
    MaxCharges = 2  MaxUploads = 2
    Price <- MCPrice
    Periods = {may}
    exact = exact  over = over
    Usages = {exact, over}
    UsageCost <- MCUsageCost
    Budgets = {2}
    NoRow = NoRow  NoUsage = NoUsage  NoHold = NoHold  Closed = Closed  Idle = Idle
    NoFile = NoFile
SPECIFICATION Spec
INVARIANTS TypeOK ChargedCallsCount BaseChargedOnce ReservationsGivenBack OnlyFaultsStrandACopy CleanupClaimIsTrue
