\* Two passes over a pool of one node that may grow to two; nothing fails.
CONSTANTS
    Resources = {"cpu", "memory"}
    Names = {1, 2, 3}
    Standing = {1}
    External = {}
    Protected = {}
    Capacity <- Gives
    Need <- Takes
    ForeignNeed <- TakesMore
    Replicas = 1
    MaxSurge = 1
    Samples <- Reported
    ScaleOutPercent = 8
    ScaleInPercent = 3
    Policies <- Settable
    FirstPolicy <- OneToTwo
    Cooldown = 1
    Passes = {p1, p2}
    MaxEvents = 0
SPECIFICATION ScalingSpec
PROPERTIES OneOfTwoActs
