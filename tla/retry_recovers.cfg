CONSTANTS
  r1 = r1
  r2 = r2
  r3 = r3
  s1 = s1
  alice = alice
  bob = bob
  gps = gps
  imu = imu
  good = good
  other = other
  None = None
  Requests = {r1, r2}
  Sessions = {s1}
  Users = {alice}
  Sources = {gps, imu}
  Contents = {good, other}
  Manifests <- RetryManifests
  Faults = {"crash", "cosmos", "blob", "publish"}
SPECIFICATION FairSpec

CHECK_DEADLOCK FALSE
PROPERTIES Recoverable
