CONSTANTS
    None = None
    daemon = daemon
    cli = cli
    dark = dark
    night = night
    merge = merge
    later = later
    Job <- Four
    Plans <- PlanTwice
    Rank <- RankOf
    Deps <- DepsOf
    Stack <- StackOf
    Follow <- FollowOf
    Resolved <- SamePlan
    Merges <- OnlyMerge
    References <- Nothing
    Large <- OnlyLater
    Cold <- OnlyNight
    Executors <- OneExecutor
    Daemons <- OneExecutor
    MaxAttempts = 2
    MaxPlans = 2
    MaxRuns = 1
    MaxFaults = 1
    MaxEscapes = 1
    MaxCrashes = 1
    MaxReruns = 1
SPECIFICATION FairSpec
INVARIANTS ResultRecorded 
PROPERTIES NoSecondRun JobsEnd BlockedRuns
CONSTRAINT OneTrouble
CHECK_DEADLOCK FALSE
