SPECIFICATION FairSpec
CONSTANTS
    monitor = monitor
    main = main
    Threads = {monitor, main}
    Scripts <- RollbackOrConflict
    MaxFaults = 1
    MaxCrashes = 0
    MaxPending = 1
INVARIANTS TypeOK NothingMissed
PROPERTIES NeverGoesBack FinalIsShown
CHECK_DEADLOCK FALSE
