\* Two deploys of four configurations and two faults of any kind, on a node that
\* hosts another web service and on one that does not; two web services that share
\* three ports.
SPECIFICATION SpecAll
CONSTANTS
  v1 = v1
  v2 = v2
  bad = bad
  c1 = c1
  c2 = c2
  NoService = NoService
  NoStamp = NoStamp
  Unknown = Unknown
  Stamp <- MCStamp
  GoodStamp <- MCGoodStamp
  Configs <- MCConfigs
  SiblingWeb = {TRUE, FALSE}
  MaxIndex = 5
  MaxDeploys = 2
  MaxFaults = 2
  FaultKinds <- Fault
  WebServices = {"api", "web"}
  MaxPortIndex = 1
  PortRange = 3
  HashOf <- LastPort
  MaxPortFaults = 2
  HostCLIs = {c1, c2}
  MaxKeys = 4
  MaxHostStarts = 3
  MaxHostFaults = 2
INVARIANTS BeliefsHold RolloutKeepsServing PortsAreTheirs CredentialsAreHeld
PROPERTIES GateHolds SurgeIsBounded Converges RotationKeepsTheNodeIn EnrolledComesUp
