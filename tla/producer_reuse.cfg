CONSTANTS
  t1 = t1
  t2 = t2
  r1 = r1
  r2 = r2
  x = x
  alice = alice
  dev = dev
  None = None
  Threads = {t1, t2}
  Requests = {r1, r2}
  Names = {x}
  Users = {alice, dev}
  LocalUser = dev
  HttpRequests <- OneHttpRequest
  Deployments <- OneDeployment
SYMMETRY WorkerSymmetry
SPECIFICATION Spec
INVARIANT OneProducer
CHECK_DEADLOCK FALSE
