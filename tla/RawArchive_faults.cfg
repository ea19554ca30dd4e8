CONSTANTS
    f1 = f1
    f2 = f2
    c1 = c1
    c2 = c2
    Files <- TwoFiles
    Frames <- OneFrame
    Lights <- OneFrame
    Large <- NoFrames
    None = None
    Partial = Partial
    Garbled = Garbled
    FaultKinds <- DiskFaults
    MaxFaults = 1
    MaxCrashes = 1
    MaxOutages = 2
    MaxDisturbs = 1
    MaxPlan = 1
SPECIFICATION Spec
SYMMETRY Symmetry
CONSTRAINT TwoTroubles
INVARIANTS DurableCopy WholeFramesOnly
PROPERTIES DeletesOnlyBackedUp LossIsAlarmed
