CONSTANTS
    f1 = f1
    f2 = f2
    f3 = f3
    n1 = n1
    n2 = n2
    daemon = daemon
    cli = cli
    main = main
    Files <- TwoFiles
    Nights <- OneNight
    NightOf <- AllN1
    Pollers <- OnePoller
    Daemon = daemon
    Main = main
    DuringCapture = TRUE
    Parallel = 2
    Signal = TRUE
    MaxCrashes = 1
    MaxOutages = 1
    MaxFails = 1
    MaxExcludes = 1
    MaxRemovals = 1
    MaxRebuilds = 1
    MaxUnplanned = 1
SPECIFICATION FairSpec
CONSTRAINT OneTrouble
INVARIANTS ManifestComplete LateFramesPlanned
PROPERTIES  FramesKept PlannedInTheEnd
CHECK_DEADLOCK FALSE
