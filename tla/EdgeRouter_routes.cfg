\* An edge poll of 1, ticks of up to 1 and a drain floor of 4 > 1 + 2 * 1; two
\* faults of any kind.
CONSTANTS
    n1 = n1  n2 = n2  r1 = r1  r2 = r2
    Node = {n1, n2}
    Replica = {r1, r2}
    NodeOf <- MCNodeOf
    NoReplica = NoReplica
    Boot = Boot
    NoListing = NoListing
    Poll = 1
    MaxTick = 1
    Floor = 4
    MaxPuts = 3
    MaxFaults = 2
    FaultKinds <- Fault
SPECIFICATION FairSpec
INVARIANTS RoutedIsAlive RoutesInTime
PROPERTIES CaddyFollows
CHECK_DEADLOCK FALSE
