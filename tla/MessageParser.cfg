\* A sender and the event thread share the port, byte by byte.
SPECIFICATION Spec
CONSTANTS
  Command <- MCCommand
  NoCommand = noCommand
  Message <- MCMessage
  MaxCalls = 2
  MaxEvents = 2
INVARIANTS TypeOK MessagesFound ResponseFound WaitsOnlyIfOverlap
CHECK_DEADLOCK FALSE
CONSTRAINTS OneDisturbance LittleTraffic
