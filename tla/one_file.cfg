CONSTANTS
  good = good
  twin = twin
  big = big
  None = None
  Contents = {good, twin, big}
  Size <- TwinSizes
  Faults = {"delete", "blob"}
SPECIFICATION Spec
CHECK_DEADLOCK FALSE
INVARIANTS TypeOK VerdictIsBacked ErrorIsTruthful
