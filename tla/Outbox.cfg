CONSTANTS
    frame1 = frame1
    job1 = job1
    job2 = job2
    status = status
    quality = quality
    daemon = daemon
    cli = cli
    Frames <- OneFrame
    Jobs <- OneJob
    Fields <- OneField
    Drainers <- DaemonCli
    Max4xx = 2
    MaxItems = 3
    MaxVersion = 2
    MaxOutages = 1
    MaxRefusals = 1
    MaxCrashes = 1
    MaxOperator = 1
SPECIFICATION FairSpec
CONSTRAINT OneTrouble
INVARIANTS WholeReportsKept FrameKnownOrQueued
PROPERTIES ReportsArrive
CHECK_DEADLOCK FALSE
