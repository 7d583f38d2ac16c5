\* Every timeout and cut answer may happen: types and liveness, no symmetry.
SPECIFICATION FairSpec
CONSTANTS
  Main = main
  User = {}
  Worker = {w1}
  NoThread = noThread
  d1 = d1
  d2 = d2
  Device = {d1, d2}
  Links <- OneLink
  Known = {}
  NoDevice = noDevice
  MaxSends = 1
  MaxNews = 1
  MaxTimeouts = 9
INVARIANTS TypeOK
PROPERTIES StartupEnds DirectCallsEnd
