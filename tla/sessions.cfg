CONSTANTS
  s1 = s1
  s2 = s2
  None = None
  Sessions = {s1, s2}
  Callers <- MCCallers
  NumSources = 2
  Ttl = 2
  DayLength = 3
  MaxTime = 4
  Faults = {"crash", "cosmos", "blob"}
SYMMETRY SessionSymmetry
SPECIFICATION Spec
INVARIANTS TypeOK AnnouncedExpiryCoversSas CutOffIsShort FoundWhereUploaded Isolation BlobsHaveLogs
PROPERTY RefinesGrants
CHECK_DEADLOCK FALSE
