SPECIFICATION Spec
CONSTANTS
    r1 = r1
    r2 = r2
    r3 = r3
    small = small
    large = large
    Tasks <- MCTasks
    Capacities <- MCCapacities
    InitialCapacity = 1
    RenotifyOnCancel = FALSE
    Models <- MCModels
    Plan <- MCPlan
    Streams <- MCStreams
    Pinned <- MCPinned
    Fallback = TRUE
    AdmissionTimeout = TRUE
    Remote = FALSE
    TasksCancelled = TRUE
    Threshold = 1
    Recovery = 1
INVARIANTS
    CancelledSettles
