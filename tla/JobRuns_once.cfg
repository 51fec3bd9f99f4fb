\* Two runs, one deploy or other write, any two faults.
CONSTANTS
    r1 = r1  r2 = r2
    Runs = {r1, r2}
    NoRun = NoRun
    MAX_PUBLISH_RETRIES = 2
    MaxWrites = 1
    MaxFaults = 2
    FaultKinds <- Fault
SPECIFICATION FairSpec
INVARIANTS AtMostOnce VerdictIsTrue
PROPERTIES RequestsAreServed
