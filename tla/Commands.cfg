CONSTANTS
    daemon = daemon
    cli = cli
    Pollers <- OnePoller
    MaxCommands = 3
    MaxCrashes = 2
    MaxLost = 2
    MaxRefused = 1
SPECIFICATION FairSpec
PROPERTIES AtMostOnceInOrder AcksArrive
CHECK_DEADLOCK FALSE
