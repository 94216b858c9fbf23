CONSTANTS
  r1 = r1
  r2 = r2
  r3 = r3
  s1 = s1
  alice = alice
  bob = bob
  gps = gps
  imu = imu
  good = good
  other = other
  None = None
  Requests = {r1, r2}
  Sessions = {s1}
  Users = {alice, bob}
  Sources = {gps, imu}
  Contents = {good, other}
  Manifests <- RichManifests
  Faults = {"crash", "cosmos", "blob", "publish"}
SPECIFICATION Spec
SYMMETRY RequestSymmetry
INVARIANTS TypeOK CoherentTripLog EventsAreBacked OneWinner SoloNeverConflicts NeverStranded IInv
CHECK_DEADLOCK FALSE
PROPERTY RunsOut
