SPECIFICATION FairSpec
CONSTANTS
    t1 = t1
    t2 = t2
    t3 = t3
    t4 = t4
    Tasks <- MCTasks
    Capacities <- MCCapacities
    InitialCapacity = 0
    RenotifyOnCancel = FALSE
INVARIANTS
    QueueMeansFull
