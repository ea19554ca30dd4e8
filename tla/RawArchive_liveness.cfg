CONSTANTS
    f1 = f1
    f2 = f2
    c1 = c1
    c2 = c2
    Files <- TwoFiles
    Frames <- TwoFrames
    Lights <- TwoFrames
    Large <- OneFrame
    None = None
    Partial = Partial
    Garbled = Garbled
    FaultKinds <- ObjectFaults
    MaxFaults = 1
    MaxCrashes = 1
    MaxOutages = 1
    MaxDisturbs = 1
    MaxPlan = 1
SPECIFICATION FairSpec
CONSTRAINT OneOrTwo
PROPERTIES CollectedInTheEnd BackedUpInItsTurn LostReuploaded
