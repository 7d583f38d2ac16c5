\* Two callers, late answers, and messages of the modem between the answers.
SPECIFICATION Spec
CONSTANTS
  Sender = {s1, s2}
  Reader = reader
  InsteonCommand = {send1}
  BasicCommand = {getNext}
  NoThread = noThread
  NoCommand = noCommand
  MaxCalls = 2
  MaxEvents = 2
SYMMETRY Symmetry
INVARIANTS TypeOK TimelyAnswer NoForgedAnswer AnswersEndOneWait EventsConserved
           LockInv ProvenanceInv TimelyInv
PROPERTIES ImplementsChannel
CONSTRAINT LittleTraffic
