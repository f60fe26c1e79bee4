SPECIFICATION Spec
CONSTANTS
    monitor = monitor
    main = main
    Threads = {monitor, main}
    Scripts <- MonitorAndMain
    MaxFaults = 2
    MaxCrashes = 0
PROPERTIES ImplementsWriters
CHECK_DEADLOCK FALSE
