CONSTANTS
  CLIs = {"c1", "c2"}
  Ids = {"i1", "i2", "i3", "i4", "i5"}
  MaxStarts = 2
  MaxFaults = 1
SPECIFICATION FairSpec
INVARIANT FleetIsAccountedFor
PROPERTIES DataIsKept NodesComeBack
CHECK_DEADLOCK FALSE
