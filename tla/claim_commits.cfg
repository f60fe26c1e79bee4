SPECIFICATION Spec
CONSTANTS
    monitor = monitor
    main = main
    Threads = {monitor, main}
    Scripts <- MonitorAndMain
    MaxFaults = 1
    MaxCrashes = 0
INVARIANTS PublishedIsWritten
CHECK_DEADLOCK FALSE
