SPECIFICATION ShippingSpec
CONSTANTS
  CLIs = {c1, c2}
  Services = {1, 2}
  Footprints = {"prod"}
  Base = "prod"
  Platform <- SamePlatform
  Touches <- TwoCommits
  Remote = {c2}
  MaxStarts = 2
  MaxEdits = 1
  MaxShipFaults = 1
INVARIANT ImagesAreSound
PROPERTIES DeploysArrive NothingLingers
CHECK_DEADLOCK FALSE
