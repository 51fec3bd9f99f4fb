\* Two passes over a pool of two nodes, one of them external, and one to add.
CONSTANTS
    Resources = {"cpu", "memory"}
    Names = {1, 2, 3}
    Standing = {1, 2}
    External = {2}
    Protected = {}
    Capacity <- Gives
    Need <- Takes
    ForeignNeed <- TakesMore
    Replicas = 1
    MaxSurge = 1
    Samples <- Reported
    ScaleOutPercent = 8
    ScaleInPercent = 3
    Policies <- Settable
    FirstPolicy <- OneToTwo
    Cooldown = 1
    Passes = {p1, p2}
    MaxEvents = 1
SPECIFICATION ScalingSpec
PROPERTIES PolicyIsKept NothingGoesWithIt FloorRestored
