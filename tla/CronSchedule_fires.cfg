\* One schedule, deployed, dropped and deployed again, with two faults; three services
\* on two nodes and one that deploys may add.
CONSTANTS
    Schedules <- OneSchedule
    NoService = NoService
    None = None
    Kinds <- BothKinds
    MaxNow = 4
    MaxDeploys = 3
    MaxFaults = 2
    FaultKinds <- Fault
    Resources <- Both
    Services <- Three
    Volumes = {"db"}
    Foreign = "other"
    Need <- Needs
    MaxSurge = 1
    Standing = {1, 2}
    Fresh <- Added
    External = {2}
    CpuOf1 = 6
    CpuOf2 = 5
    Capacity <- Gives
    Sizes <- Table
    Configs <- Scaled
    MaxReplicas = 2
    MaxStarts = 3
    MaxForeign = 2
    MaxPlanFaults = 1
SPECIFICATION SpecAll
INVARIANTS AtMostOnce PlansAreAdmitted MovesAreSafe CommandsSettle
PROPERTIES RunsAreDue BackupsAreTaken
