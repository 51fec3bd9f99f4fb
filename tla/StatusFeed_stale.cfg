\* The defaults of types.rs in units of 15 s, and no fault at all
CONSTANTS
    Poll = 4
    Liveness = 2
    Stale = 4
    MaxTick = 1
    MaxGen = 1
    MaxFaults = 0
    FaultKinds = {}
SPECIFICATION Spec
INVARIANTS FreshWhileAlive
