\* Startup, a user and two pool threads; nothing disturbs the link.
SPECIFICATION Spec
CONSTANTS
  Main = main
  User = {u1}
  Worker = {w1, w2}
  NoThread = noThread
  d1 = d1
  d2 = d2
  Device = {d1, d2}
  Links <- TwoLinks
  Known = {d1}
  NoDevice = noDevice
  MaxSends = 3
  MaxNews = 1
  MaxTimeouts = 0
SYMMETRY Symmetry
INVARIANTS TimelyReply LinksComplete NoSurprise OneUnderWay
