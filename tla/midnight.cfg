CONSTANTS
  s1 = s1
  s2 = s2
  None = None
  Sessions = {s1, s2}
  Callers <- OneCaller
  NumSources = 2
  Ttl = 2
  DayLength = 3
  MaxTime = 4
  Faults = {}
SYMMETRY SessionSymmetry
SPECIFICATION Spec
CHECK_DEADLOCK FALSE
INVARIANT UploadedIsFound
