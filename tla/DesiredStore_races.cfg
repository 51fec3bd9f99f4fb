\* Two commands at a time on what earlier ones left, with one fault; the secrets of
\* one service in two environments; CI roles and nodes in two clusters.
CONSTANTS
    Nodes = {n1, n2}
    Projects = {p, q}
    Services = {a, b}
    First = p
    Shared = a
    Declared <- OneSibling
    MaxSpread = 1
    CLIs = {c1, c2}
    Kinds <- AllKinds
    Capacity = 3
    MAX_PUBLISH_RETRIES = 2
    MaxStarts = 2
    MaxFaults = 1
    SecretEnvs = {n1, n2}
    SecretKeys = {a, b}
    SecretCLIs = {c1, c2}
    NamesPerCall = 1
    MaxPuts = 3
    MaxCommands = 4
    MaxLost = 1
    Clusters = {n1, n2}
    Repositories = {"repo"}
    Roles = {"repo-deploy"}
    MaxSetups = 2
    MaxRuns = 2
    MaxCrashes = 1
SPECIFICATION SpecAll
SYMMETRY Symmetry
INVARIANTS PublishedAsPlanned SecretsArrive CallsAreAllowed
PROPERTIES WritesAreAtomic
CHECK_DEADLOCK FALSE
