CONSTANTS
  s1 = s1
  s2 = s2
  r1 = r1
  r2 = r2
  good = good
  other = other
  None = None
  Sessions = {s1, s2}
  Callers <- OneCaller
  NumSources = 1
  Ttl = 1
  DayLength = 1
  MaxTime = 1
  Requests = {r1, r2}
  Contents = {good, other}
  Manifests <- OneFileManifests
  SessionFaults = {"cosmos"}
  WorkerStatuses = {"PROCESSING", "FAILED"}
  CompleteFaults = {"publish"}
SYMMETRY SystemSymmetry
SPECIFICATION Spec
INVARIANTS TypeOK AnnouncedContentStands AcknowledgedHasEvent LateRetryAddsNothing OneWinnerUntilMoved PublishingStands NoneStranded
PROPERTIES StepsOfComplete RefinesLifecycle
CHECK_DEADLOCK FALSE
