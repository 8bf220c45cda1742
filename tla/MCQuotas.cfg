SPECIFICATION QuotasSpec
CONSTANTS
    r1 = r1
    r2 = r2
    r3 = r3
    user = user
    p = p
    q = q
    Requests <- MCRequests
    Users <- MCUsers
    Owner <- MCOwner
    Window = 2
    Costs <- MCCosts
    Limits <- MCLimits
    Burst = 4
    Rate = 1
    Cost = 3
    Replicas <- MCReplicas
    Ahead <- MCAhead
    Lead = 1
    MaxDelay = 2
SYMMETRY MCSymmetry
INVARIANTS
    BudgetHeld
    LedgersAgree
    GrantsBounded
PROPERTIES
    ChargeCountsForWindow
    BillsOnce
    DeniedOnlyWhenSpent
