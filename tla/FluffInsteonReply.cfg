\* The claim of the comment on SendDirectInsteonPacket.
SPECIFICATION Spec
CONSTANTS
  Main = main
  User = {u1}
  Worker = {w1}
  NoThread = noThread
  d1 = d1
  d2 = d2
  Device = {d1, d2}
  Links <- OneLink
  Known = {}
  NoDevice = noDevice
  MaxSends = 3
  MaxNews = 1
  MaxTimeouts = 1
INVARIANTS ResponseFromDevice
