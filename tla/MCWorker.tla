------------------------------ MODULE MCWorker ------------------------------
(***************************************************************************)
(* Instances of Worker for TLC.                                            *)
(***************************************************************************)
EXTENDS Worker, TLC

CONSTANTS t1, t2, r1, r2, x, alice, dev

Call(endpoint, token, sub, body) ==
  [endpoint |-> endpoint, valid_body |-> body,
   authorization |-> [token |-> token, sub |-> sub]]

\* Every way through the handlers, and every way not to get far.
MCHttpRequests ==
  {Call("health", "none", None, TRUE), Call("session", "signed", alice, TRUE),
   Call("complete", "static", None, TRUE), Call("complete", "signed", alice, TRUE),
   Call("complete", "signed", None, TRUE), Call("session", "signed", alice, FALSE),
   Call("complete", "expired", alice, TRUE), Call("session", "none", None, TRUE)}

OneHttpRequest == {Call("complete", "signed", alice, TRUE)}

Deployment(environment, broker, stores) ==
  [environment |-> environment, secret |-> TRUE, local_token |-> TRUE, stores |-> stores,
   broker |-> broker, insights |-> "valid"]

Production == Deployment("production", TRUE, TRUE)

\* Complete and incomplete settings of both environments.
MCDeployments ==
  {Deployment("local", TRUE, TRUE), Production,
   Deployment("local", FALSE, TRUE), Deployment("production", FALSE, TRUE),
   Deployment("production", TRUE, FALSE),
   [Production EXCEPT !.secret = FALSE], [Production EXCEPT !.insights = "invalid"]}

OneDeployment == {Production}

WorkerSymmetry == Permutations(Threads)
=============================================================================
