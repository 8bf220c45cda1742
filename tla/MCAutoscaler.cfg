SPECIFICATION LoopSpec
CONSTANTS
    t1 = t1
    t2 = t2
    t3 = t3
    t4 = t4
    Tasks <- MCTasks
    Capacities <- MCCapacities
    InitialCapacity <- MCInitialCapacity
    RenotifyOnCancel = TRUE
    MinReplicas = 1
    MaxReplicas = 9
    TargetNum = 2
    TargetDen = 5
    RoundedUp <- MCRoundedUp
    RoundedDown <- MCRoundedDown
    UpCooldown = 1
    DownCooldown = 2
INVARIANTS
    GateInv
    NoLostWakeup
    CapacityFollowsReplicas
PROPERTIES
    NeverOverAdmits
    SlotsAreTaken
    ScaleDownFitsLoad
    Converges
