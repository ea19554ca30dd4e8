CONSTANTS
    Night <- TwoNights
    Skies <- TwoSkies
    MinNights = 1
    MaxBuild = 2
    MaxVersion = 2
    MaxSpent = 2
SPECIFICATION Spec
INVARIANTS NightKeepsAMaster MergeOneReference EligibleWasMerged BlocksAreExplained
PROPERTIES RebuildLosesNoMaster
CHECK_DEADLOCK FALSE
