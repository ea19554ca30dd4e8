CONSTANTS
    Ha = Ha
    OIII = OIII
    altaird = altaird
    cli = cli
    Filter <- TwoFilters
    MaxVersion = 1
    MaxBuild = 2
    Replicator <- TwoReplicators
    Daemon = altaird
    MaxFaults = 1
SPECIFICATION ZipSpec
INVARIANTS DownloadIsCurrent HubKnowsTheArchive SubsKept
CHECK_DEADLOCK FALSE
