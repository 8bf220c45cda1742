SPECIFICATION Spec
CONSTANTS
    r1 = r1
    r2 = r2
    u1 = u1
    p1 = p1
    p2 = p2
    Requests <- MCRequests
    Users <- MCUsers
    Owner <- MCOwner
    Replicas <- MCReplicas
    Home <- MCHome
    Ahead <- MCAhead
    FailClosed <- MCFailClosed
    Window = 3
    Costs <- MCCosts
    Limits <- MCLimits
INVARIANTS
    BudgetHeld
    HoldsAreOwned
    RestartInvisible
PROPERTIES
    EntriesLastWindow
    BillsOnce
