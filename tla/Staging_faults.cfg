CONSTANTS
    j1 = j1
    j2 = j2
    light = light
    sub1 = sub1
    sub2 = sub2
    lightObject = lightObject
    zip = zip
    Job <- TwoJobs
    Blob <- ThreeBlobs
    Object <- TwoObjects
    Needs <- TheirNeeds
    Holder <- TheirHolder
    Ages <- LightsAge
    MaxSpent = 2
SPECIFICATION Spec
INVARIANTS RequestsMatchReplicas
PROPERTIES StagedInTheEnd
CHECK_DEADLOCK FALSE
