CONSTANTS
    None = None  L1 = L1  L2 = L2  L3 = L3  L4 = L4  F1 = F1  F2 = F2  B1 = B1 T1 = T1  T2 = T2  S1 = S1  S2 = S2  S3 = S3
    Rules <- RulesSmall
    Rotator <- NoRotator
    FocalTolerance = 5
    Cooled = TRUE
    Frame = {L1, L2, F1}
    Info <- InfoLost
    Night <- JustOne
    Target = {T1}
    DayLength = 10
    Initially <- DarkBias
    Import <- OneFlat
    Event <- Between
    MinLights = 2
    Provisional = TRUE
    Parallel = FALSE
    MaxSpent = 1
SPECIFICATION Spec
CHECK_DEADLOCK FALSE
INVARIANTS HeldExplained  EventsCatchUp NoStackTwice
