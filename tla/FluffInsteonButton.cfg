\* The claim of the comment in port_ReceivedMessage.
SPECIFICATION Spec
CONSTANTS
  Main = main
  User = {}
  Worker = {w1}
  NoThread = noThread
  d1 = d1
  d2 = d2
  Device = {d1, d2}
  Links <- OneLink
  Known = {}
  NoDevice = noDevice
  MaxSends = 1
  MaxNews = 1
  MaxTimeouts = 0
INVARIANTS ButtonAddsDevice
