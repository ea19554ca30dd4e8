CONSTANTS
    None = None  A = A  B = B
    Target <- Targets
    LastId = 3
    Plan <- Plans
    Owner <- OwnerOf
    Filter <- FilterOf
    Desired <- DesiredOne
    ProjectOf <- TwoProjects
    FirstPlans <- PlansFirst
    Layouts <- Upgrade
    FirstLayout <- Single
    MaxChanges = 2
    Renamed <- SecondOne
    MaxRenames = 1
    MaxFaults = 1
    MaxTorn = 1
    MaxSpent = 2
SPECIFICATION Spec
CHECK_DEADLOCK FALSE
INVARIANTS NoOrphans OnlyFramesTaken
PROPERTIES ScheduledAsAsked
