\* Liveness: no symmetry.
SPECIFICATION FairSpec
CONSTANTS
  Sender = {s1, s2}
  Reader = reader
  InsteonCommand = {send1, send2}
  BasicCommand = {getNext}
  NoThread = noThread
  NoCommand = noCommand
  MaxCalls = 1
  MaxEvents = 1
PROPERTIES CallsReturn MessagesDelivered
