\* The claim of the comment on Startup.
SPECIFICATION Spec
CONSTANTS
  Main = main
  User = {}
  Worker = {w1}
  NoThread = noThread
  d1 = d1
  d2 = d2
  Device = {d1, d2}
  Links <- TwoLinks
  Known = {}
  NoDevice = noDevice
  MaxSends = 1
  MaxNews = 0
  MaxTimeouts = 1
INVARIANTS AllLinksStored
