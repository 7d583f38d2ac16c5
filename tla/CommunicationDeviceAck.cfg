\* The claim of the comment on SendCommand, which late answers break.
SPECIFICATION Spec
CONSTANTS
  Sender = {s1}
  Reader = reader
  InsteonCommand = {send1, send2}
  BasicCommand = {getNext}
  NoThread = noThread
  NoCommand = noCommand
  MaxCalls = 2
  MaxEvents = 0
INVARIANTS AckVerified
