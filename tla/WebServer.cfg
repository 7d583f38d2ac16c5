\* Requests racing with each other, with the workers and with Stop and Dispose.
SPECIFICATION FairSpec
CONSTANTS
  Request = {r1, r2, r3}
  Worker = {w1, w2}
  NoRequest = noRequest
INVARIANTS TypeOK ReadyWhileQueued DrainedAtStop ServedOnce DrainInv
PROPERTIES QueuedServed StopReturns
