CONSTANTS
    Channel <- OneChannel
    NasWatch <- TwoWatches
    Watched <- Six
    MaxChanges = 2
    MaxFailures = 1
    MaxCrashes = 1
    MaxWaives = 1
    MaxRuns = 1
    MaxChecks = 1
SPECIFICATION Spec
CONSTRAINT FewTroubles
PROPERTIES BlockingHeard EndsTold IssuesFollow

CHECK_DEADLOCK FALSE
