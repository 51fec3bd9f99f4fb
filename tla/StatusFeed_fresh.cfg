\* The defaults of types.rs in units of 15 s: poll = stale = 60 s, a heartbeat of
\* half of it; two publications, three faults of any kind.
CONSTANTS
    Poll = 4
    Liveness = 2
    Stale = 4
    MaxTick = 1
    MaxGen = 2
    MaxFaults = 3
    FaultKinds <- Fault
SPECIFICATION FairSpec
INVARIANTS StaysInTouch ConvergedMeansRan
PROPERTIES StatusCatchesUp
