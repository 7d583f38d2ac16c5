---------------------- MODULE CommunicationDevice_proofs ----------------------
(***************************************************************************)
(* Theorems about CommunicationDevice, for every set of senders and of     *)
(* commands and every bound.                                               *)
(***************************************************************************)
EXTENDS CommunicationDevice, TLAPS

-----------------------------------------------------------------------------
(***************************************************************************)
(* Frames and responses.                                                   *)
(***************************************************************************)
LEMMA FrameTypes ==
  /\ \A id \in CallId, c \in Command, st \in Status : Answer(id, c, st) \in Frame
  /\ \A e \in EventId : Message(e) \in Frame
  /\ \A f \in Frame : f.event \in Nat /\ (f.event # 0 => f.event \in EventId)
BY DEF Answer, Message, Frame, FrameStatus, EventId

\* A frame that matches the command being sent carries a status byte.
LEMMA ResponseTypes ==
  ASSUME NEW c \in Command, NEW f \in Frame \union {NullData, EmptyData}
  PROVE  VerifyResponse(c, f) \in MessageResponse
<1>1. f.cmd = c => f.status \in FrameStatus
  BY CommandAssumption DEF Frame, NullData, EmptyData
<1> QED
  BY <1>1 DEF VerifyResponse, ResponseTo, MessageResponse, FrameStatus, CutStatus, Status

\* What the sequence operators of the model do to typed sequences.
LEMMA SequenceTypes ==
  ASSUME NEW S, NEW q \in Seq(S)
  PROVE  /\ \A x \in S : Append(q, x) \in Seq(S)
         /\ q # <<>> => /\ Head(q) \in S
                        /\ Tail(q) \in Seq(S)
         /\ \A i \in DOMAIN q : q[i] \in S
OBVIOUS

\* The rest of what ReadInput leaves alone.
LEMMA ReadKeeps ==
  ASSUME NEW t \in Thread, ReadInput(t)
  PROVE  /\ pc[t] = "read" /\ pc' = [pc EXCEPT ![t] = AfterRead(t)] /\ ~crashed
         /\ UNCHANGED <<thisLock, portLock, callVars, protocolVars, batch, poolVars,
                        modemVars, written, endVars, faultVars>>
BY DEF ReadInput, ReadPort, ReadCutAnswer, ReadCutMessage, Goto

\* What Read returns are frames of the port, the last of them perhaps cut; the
\* frames it leaves are those behind them.
ReadInto(t, q) ==
  /\ chunk' = [chunk EXCEPT ![t] = q]
  /\ \A i \in DOMAIN q : \/ i \in DOMAIN input /\ q[i] = input[i]
                         \/ q[i].status \in CutStatus
  /\ input' \in Seq(Frame)
  /\ \A i \in DOMAIN input' : \E j \in DOMAIN input : input'[i] = input[j]
  /\ lost' \subseteq lost \union EventsIn(input)
  /\ count' = [count EXCEPT ![t] = 0]

\* The frames of the port with the answer at the end of them cut.
LEMMA CutFrames ==
  ASSUME NEW t \in Thread, NEW st \in CutStatus, input \in Seq(Frame), ReadCutAnswer(t, st)
  PROVE  LET q == [input EXCEPT ![Len(input)].status = st]
         IN  /\ q \in Seq(Frame) /\ DOMAIN q = DOMAIN input
             /\ \A i \in DOMAIN q : \/ q[i] = input[i]
                                   \/ /\ q[i].id = input[i].id /\ q[i].event = input[i].event
                                      /\ q[i].status = st
<1> DEFINE n == Len(input)
           q == [input EXCEPT ![n].status = st]
<1>1. n \in DOMAIN input /\ input[n].event = 0
  BY DEF ReadCutAnswer
<1> DEFINE f == [input[n] EXCEPT !.status = st]
<1>2. input[n] \in [event : {0}, id : CallId, cmd : Command, status : FrameStatus]
  <2>1. input[n] \in Frame
    BY <1>1
  <2> QED
    BY <1>1, <2>1 DEF Frame, EventId
<1>3. f \in Frame
  BY <1>2 DEF Frame, FrameStatus
<1>4. f.id = input[n].id /\ f.event = input[n].event /\ f.status = st
  BY <1>2
<1>5. q = [input EXCEPT ![n] = f]
  BY <1>2
<1> HIDE DEF f, q, n
<1>6. q \in Seq(Frame) /\ DOMAIN q = DOMAIN input
  BY <1>1, <1>3, <1>5
<1>7. \A i \in DOMAIN q : q[i] = IF i = n THEN f ELSE input[i]
  BY <1>1, <1>5
<1> QED
  BY <1>4, <1>6, <1>7 DEF q, n

\* Whatever Read returns are frames of the port, or one of them cut.
LEMMA ReadFrames ==
  ASSUME NEW t \in Thread, input \in Seq(Frame), count \in [Thread -> Nat], ReadInput(t)
  PROVE  \E q \in Seq(Frame) : ReadInto(t, q)
<1>1. CASE ReadPort(t)
  <2> DEFINE n == Readable(t)
  <2>1. n \in 0..Len(input)
    BY DEF Readable
  <2>2. /\ chunk' = [chunk EXCEPT ![t] = SubSeq(input, 1, n)]
        /\ input' = SubSeq(input, n + 1, Len(input))
        /\ lost' = lost /\ count' = [count EXCEPT ![t] = 0]
    BY <1>1 DEF ReadPort, InputLeft
  <2>3. /\ SubSeq(input, 1, n) \in Seq(Frame)
        /\ \A i \in DOMAIN SubSeq(input, 1, n) :
             i \in DOMAIN input /\ SubSeq(input, 1, n)[i] = input[i]
    BY <2>1
  <2>4. /\ SubSeq(input, n + 1, Len(input)) \in Seq(Frame)
        /\ \A i \in DOMAIN SubSeq(input, n + 1, Len(input)) :
             n + i \in DOMAIN input /\ SubSeq(input, n + 1, Len(input))[i] = input[n + i]
    BY <2>1
  <2> HIDE DEF n
  <2>5. ReadInto(t, SubSeq(input, 1, n))
    BY <2>2, <2>3, <2>4 DEF ReadInto
  <2> QED
    BY <2>3, <2>5
<1>2. ASSUME NEW st \in CutStatus, ReadCutAnswer(t, st)
      PROVE  \E q \in Seq(Frame) : ReadInto(t, q)
  <2> DEFINE n == Len(input)
             q == [input EXCEPT ![n].status = st]
  <2>1. /\ chunk' = [chunk EXCEPT ![t] = q] /\ n \in DOMAIN input /\ input[n].event = 0
        /\ input' = <<>> /\ lost' = lost /\ count' = [count EXCEPT ![t] = 0]
    BY <1>2 DEF ReadCutAnswer
  <2>2. /\ q \in Seq(Frame)
        /\ \A i \in DOMAIN q : i \in DOMAIN input /\ (q[i] = input[i] \/ q[i].status = st)
    BY <1>2, CutFrames
  <2> HIDE DEF q
  <2>5. ReadInto(t, q)
    BY <2>1, <2>2 DEF ReadInto
  <2> QED
    BY <2>2, <2>5
<1>3. CASE ReadCutMessage(t)
  <2> DEFINE q == SubSeq(input, 1, Len(input) - 1)
  <2>1. /\ chunk' = [chunk EXCEPT ![t] = q] /\ Len(input) \in DOMAIN input
        /\ input[Len(input)].event # 0
        /\ lost' = lost \union {input[Len(input)].event}
        /\ input' = <<>> /\ count' = [count EXCEPT ![t] = 0]
    BY <1>3 DEF ReadCutMessage
  <2>2. q \in Seq(Frame) /\ \A i \in DOMAIN q : i \in DOMAIN input /\ q[i] = input[i]
    BY <2>1
  <2>3. lost' \subseteq lost \union EventsIn(input)
    BY <2>1 DEF EventsIn
  <2> HIDE DEF q
  <2>4. ReadInto(t, q)
    BY <2>1, <2>2, <2>3 DEF ReadInto
  <2> QED
    BY <2>2, <2>4
<1> QED
  BY <1>1, <1>2, <1>3 DEF ReadInput

-----------------------------------------------------------------------------
(***************************************************************************)
(* Type correctness.                                                       *)
(***************************************************************************)
USE ThreadAssumption, CommandAssumption DEF Thread, Command, CallId, EventId

\* Every reachable state of the serial link has its type.
THEOREM TypeCorrect == Spec => []TypeOK
<1>1. Init => TypeOK
  <2> SUFFICES ASSUME Init PROVE TypeOK
    OBVIOUS
  <2>1. /\ count \in [Thread -> Nat]
        /\ chunk \in [Thread -> Seq(Frame)]
        /\ batch \in [Thread -> Seq(EventId)]
        /\ pool \subseteq Seq(EventId) \ {<<>>}
        /\ delivered \in Seq(EventId)
        /\ input \in Seq(Frame)
    BY DEF Init
  <2>2. /\ pc \in [Thread -> {"idle", "lockThis", "lockPort", "read", "reading", "queue",
                              "write", "waiting", "answered"}]
        /\ result \in [Sender -> Outcome]
        /\ \A s \in Sender : pc[s] = "idle"
    BY DEF Init, Outcome
  <2> QED
    BY <2>1, <2>2 DEF Init, TypeOK, MessageResponse
<1>2. TypeOK /\ [Next]_vars => TypeOK'
  <2> SUFFICES ASSUME TypeOK, [Next]_vars PROVE TypeOK'
    OBVIOUS
  <2> USE DEF TypeOK, Goto, callVars, protocolVars, readVars, poolVars, modemVars, endVars, faultVars
  <2>1. ASSUME NEW s \in Sender, NEW c \in Command, Call(s, c) PROVE TypeOK'
    BY <2>1, ZenonT(30) DEF Call, Outcome
  <2>2. ASSUME NEW s \in Sender, LockThis(s) PROVE TypeOK'
    BY <2>2 DEF LockThis
  <2>3. ASSUME NEW s \in Sender, ClearInput(s) PROVE TypeOK'
    <3>1. count' \in [Thread -> Nat] /\ overlap' \in BOOLEAN
      BY <2>3 DEF ClearInput, CountInput
    <3> QED
      BY <2>3, <3>1 DEF ClearInput
  <2>4. ASSUME NEW s \in Sender, WriteCommand(s) PROVE TypeOK'
    <3>1. command[s] \in Command /\ written + 1 \in CallId
      BY <2>4, SMTT(30) DEF WriteCommand
    <3>2. [id |-> written + 1, cmd |-> command[s]] \in Request
      BY <3>1 DEF Request
    <3>3. /\ modem' \subseteq Request /\ sending' \in Request
          /\ call' \in [Sender -> Nat] /\ portLock' = NoThread /\ written' \in Nat
      BY <2>4, <3>1, <3>2 DEF WriteCommand, PortAfterWriting
    <3> QED
      BY <2>4, <3>3 DEF WriteCommand
  <2>5. ASSUME NEW s \in Sender, WaitSignalled(s) PROVE TypeOK'
    <3>1. [call |-> call[s], answer |-> signal] \in [call : Nat, answer : Nat]
      OBVIOUS
    <3>2. ended' \subseteq [call : Nat, answer : Nat] /\ receivedAck' = FALSE
      BY <2>5, <3>1 DEF WaitSignalled, AutoReset
    <3> QED
      BY <2>5, <3>2 DEF WaitSignalled
  <2>6. ASSUME NEW s \in Sender, ReturnResponse(s) PROVE TypeOK'
    BY <2>6, SMTT(30) DEF ReturnResponse, Outcome
  <2>7. ASSUME NEW s \in Sender, WaitTimeout(s) PROVE TypeOK'
    BY <2>7 DEF WaitTimeout, TimeoutResponse, Outcome, MessageResponse
  <2>8. CASE DataReceived
    <3>1. count' \in [Thread -> Nat] /\ overlap' \in BOOLEAN
      BY <2>8 DEF DataReceived, CountInput
    <3> QED
      BY <2>8, <3>1 DEF DataReceived
  <2>9. CASE ReaderLockPort
    BY <2>9 DEF ReaderLockPort
  <2>r. ASSUME NEW t \in Thread, ReadInput(t) PROVE TypeOK'
    <3>1. PICK q \in Seq(Frame) : ReadInto(t, q)
      BY <2>r, ReadFrames
    <3>2. /\ chunk' \in [Thread -> Seq(Frame)] /\ count' \in [Thread -> Nat]
          /\ input' \in Seq(Frame)
      BY <3>1 DEF ReadInto
    <3>3. EventsIn(input) \subseteq EventId
      <4>1. \A i \in DOMAIN input : input[i] \in Frame
        BY SequenceTypes
      <4> QED
        BY <4>1, FrameTypes, SMTT(30) DEF EventsIn
    <3>4. lost' \subseteq EventId
      BY <3>1, <3>3 DEF ReadInto
    <3> QED
      BY <2>r, <3>2, <3>4, ReadKeeps DEF AfterRead
  <2>a. ASSUME NEW t \in Thread, ParsesWell(t), FrameConsumed(t)
        PROVE  /\ chunk' \in [Thread -> Seq(Frame)]
               /\ state' \in {"START", "MESSAGE_DATA"}
               /\ data' \in Frame \union {NullData, EmptyData}
               /\ lost' \subseteq EventId
               /\ Head(chunk[t]) \in Frame
    <3>1. chunk[t] \in Seq(Frame) /\ chunk[t] # <<>>
      BY <2>a DEF ParsesWell
    <3>2. Head(chunk[t]) \in Frame /\ Tail(chunk[t]) \in Seq(Frame)
      BY <3>1, SequenceTypes
    <3> QED
      BY <2>a, <3>2, FrameTypes DEF FrameConsumed
  <2>10. ASSUME NEW t \in Thread, ReadResponse(t) PROVE TypeOK'
    <3>0. Completed(Head(chunk[t])).id \in Nat
      BY <2>a, <2>10, SMTT(30) DEF ReadResponse, Completed, Frame, NullData, EmptyData
    <3>1. VerifyResponse(sending.cmd, Completed(Head(chunk[t]))) \in MessageResponse
      <4>1. sending.cmd \in Command
        BY <2>10 DEF ReadResponse, Responds, Request
      <4>2. Completed(Head(chunk[t])) \in Frame \union {NullData, EmptyData}
        BY <2>a, <2>10 DEF ReadResponse, Completed
      <4> QED
        BY <4>1, <4>2, ResponseTypes
    <3> QED
      BY <2>a, <2>10, <3>0, <3>1 DEF ReadResponse
  <2>11. ASSUME NEW t \in Thread, ReadMessage(t) PROVE TypeOK'
    <3>1. /\ Head(chunk[t]).event \in Nat
          /\ Head(chunk[t]).event # 0 => Head(chunk[t]).event \in EventId
      BY <2>a, <2>11, FrameTypes DEF ReadMessage
    <3>2. batch' \in [Thread -> Seq(EventId)]
      BY <2>11, <3>1, SequenceTypes DEF ReadMessage
    <3> QED
      BY <2>a, <2>11, <3>2 DEF ReadMessage
  <2>12. ASSUME NEW t \in Thread, ReadFails(t) PROVE TypeOK'
    <3>1. EventsIn(chunk[t]) \subseteq EventId
      <4>1. \A i \in DOMAIN chunk[t] : chunk[t][i] \in Frame
        BY SequenceTypes
      <4> QED
        BY <4>1, FrameTypes DEF EventsIn
    <3>2. Elements(batch[t]) \subseteq EventId
      BY SequenceTypes DEF Elements
    <3>3. lost' \subseteq EventId
      BY <2>12, <3>1, <3>2 DEF ReadFails
    <3>4. /\ chunk' \in [Thread -> Seq(Frame)]
          /\ batch' \in [Thread -> Seq(EventId)]
      BY <2>12 DEF ReadFails
    <3>5. /\ result' \in [Sender -> Outcome]
          /\ thisLock' \in Sender \union {NoThread}
          /\ crashed' \in BOOLEAN
      BY <2>12 DEF ReadFails, Outcome
    <3> QED
      BY <2>12, <3>3, <3>4, <3>5 DEF ReadFails, StateAfterThrow
  <2>13. ASSUME NEW t \in Thread, EndRead(t) PROVE TypeOK'
    BY <2>13 DEF EndRead
  <2>14. ASSUME NEW t \in Thread, QueueBatch(t) PROVE TypeOK'
    BY <2>14, SMTT(30) DEF QueueBatch, HasMessages
  <2>15. ASSUME NEW b \in pool, DeliverMessage(b) PROVE TypeOK'
    <3>1. b \in Seq(EventId) /\ b # <<>>
      OBVIOUS
    <3>2. Head(b) \in EventId /\ Tail(b) \in Seq(EventId)
      BY <3>1, SequenceTypes
    <3>3. Append(delivered, Head(b)) \in Seq(EventId)
      BY <3>2, SequenceTypes
    <3>4. Remaining(b) \subseteq Seq(EventId) \ {<<>>}
      BY <3>2 DEF Remaining
    <3> QED
      BY <2>15, <3>3, <3>4, SMTT(30) DEF DeliverMessage
  <2>16. ASSUME NEW st \in Status, ModemAnswer(st) PROVE TypeOK'
    <3>1. PICK r \in modem : ModemAnswer(st)!(r)
      BY <2>16 DEF ModemAnswer
    <3>2. r.id \in CallId /\ r.cmd \in Command
      BY DEF Request
    <3>3. Answer(r.id, r.cmd, st) \in Frame
      BY <3>2, FrameTypes
    <3>4. input' \in Seq(Frame)
      BY <3>1, <3>3, SequenceTypes
    <3>5. modem' \subseteq Request /\ verdict' \subseteq [id : CallId, status : Status]
      BY <3>1, <3>2
    <3> QED
      BY <3>1, <3>4, <3>5, SMTT(30)
  <2>17. CASE ModemLoses
    BY <2>17 DEF ModemLoses
  <2>18. CASE ModemSends
    BY <2>18, FrameTypes, SMTT(30) DEF ModemSends
  <2>19. CASE Quiescent
    BY <2>19, SMTT(30) DEF Quiescent, vars
  <2>20. CASE UNCHANGED vars
    BY <2>20, SMTT(30) DEF vars
  <2> QED
    BY <2>1, <2>2, <2>3, <2>4, <2>5, <2>6, <2>7, <2>8, <2>9, <2>r, <2>10, <2>11, <2>12,
       <2>13, <2>14, <2>15, <2>16, <2>17, <2>18, <2>19, <2>20
       DEF Next, SenderStep, ReaderStep, ReadStep, PoolStep, ModemStep
<1> QED
  BY <1>1, <1>2, PTL DEF Spec
-----------------------------------------------------------------------------
(***************************************************************************)
(* lock(this): between the first read of the port and the return there is  *)
(* one caller, and the last command written is its own.                    *)
(***************************************************************************)
USE DEF Goto, callVars, protocolVars, readVars, poolVars, modemVars, endVars, faultVars

\* Each step keeps lock(this) with the caller that is between its first read of the
\* port and its return (CommunicationDevice.cs:93-119).
LEMMA LockStep == TypeOK /\ LockInv /\ [Next]_vars => LockInv'
<1> SUFFICES ASSUME TypeOK, LockInv, [Next]_vars PROVE LockInv'
  OBVIOUS
<1> USE DEF LockInv
<1>t. /\ pc \in [Thread -> {"idle", "lockThis", "lockPort", "read", "reading", "queue",
                            "write", "waiting", "answered"}]
      /\ call \in [Sender -> Nat] /\ written \in Nat
      /\ thisLock \in Sender \union {NoThread}
  BY DEF TypeOK
<1>1. ASSUME NEW s \in Sender, NEW c \in Command, Call(s, c) PROVE LockInv'
  BY <1>1, <1>t DEF Call
<1>2. ASSUME NEW s \in Sender, LockThis(s) PROVE LockInv'
  BY <1>2, <1>t DEF LockThis, ThisLockFree
<1>3. ASSUME NEW s \in Sender, ClearInput(s) PROVE LockInv'
  BY <1>3, <1>t DEF ClearInput
<1>4. ASSUME NEW s \in Sender, WriteCommand(s) PROVE LockInv'
  BY <1>4, <1>t DEF WriteCommand
<1>5. ASSUME NEW s \in Sender, WaitSignalled(s) PROVE LockInv'
  BY <1>5, <1>t DEF WaitSignalled
<1>6. ASSUME NEW s \in Sender, ReturnResponse(s) PROVE LockInv'
  BY <1>6, <1>t DEF ReturnResponse
<1>7. ASSUME NEW s \in Sender, WaitTimeout(s) PROVE LockInv'
  BY <1>7, <1>t DEF WaitTimeout
<1>8. CASE ReaderStep
  BY <1>8, <1>t DEF ReaderStep, DataReceived, ReaderLockPort
<1>r. ASSUME NEW t \in Thread, ReadInput(t) PROVE LockInv'
  BY <1>r, <1>t, ReadKeeps DEF AfterRead
<1>9. ASSUME NEW t \in Thread, ReadResponse(t) \/ ReadMessage(t) PROVE LockInv'
  BY <1>9, <1>t DEF ReadResponse, ReadMessage
<1>10. ASSUME NEW t \in Thread, ReadFails(t) PROVE LockInv'
  BY <1>10, <1>t DEF ReadFails
<1>11. ASSUME NEW t \in Thread, EndRead(t) PROVE LockInv'
  BY <1>11, <1>t DEF EndRead
<1>12. ASSUME NEW t \in Thread, QueueBatch(t) PROVE LockInv'
  BY <1>12, <1>t DEF QueueBatch
<1>13. CASE PoolStep
  BY <1>13, <1>t DEF PoolStep, DeliverMessage
<1>14. CASE ModemStep
  BY <1>14, <1>t DEF ModemStep, ModemAnswer, ModemLoses, ModemSends
<1>15. CASE Quiescent \/ UNCHANGED vars
  BY <1>15, <1>t DEF Quiescent, vars
<1> QED
  BY <1>1, <1>2, <1>3, <1>4, <1>5, <1>6, <1>7, <1>8, <1>r, <1>9, <1>10, <1>11, <1>12,
     <1>13, <1>14, <1>15 DEF Next, SenderStep, ReadStep
-----------------------------------------------------------------------------
(***************************************************************************)
(* No answer is invented.                                                  *)
(***************************************************************************)
\* The elements of Append(q, x) and of Tail(q).
LEMMA SequenceElements ==
  ASSUME NEW S, NEW q \in Seq(S)
  PROVE  /\ \A x \in S : \A i \in DOMAIN Append(q, x) :
              \/ Append(q, x)[i] = x
              \/ i \in DOMAIN q /\ Append(q, x)[i] = q[i]
         /\ q # <<>> => /\ 1 \in DOMAIN q /\ Head(q) = q[1]
                        /\ \A i \in DOMAIN Tail(q) :
                             i + 1 \in DOMAIN q /\ Tail(q)[i] = q[i + 1]
OBVIOUS

\* What reading one frame leaves behind.
LEMMA ConsumedFrames ==
  ASSUME TypeOK, NEW t \in Thread, ParsesWell(t), FrameConsumed(t)
  PROVE  /\ chunk[t] \in Seq(Frame) /\ chunk[t] # <<>>
         /\ Head(chunk[t]) = chunk[t][1] /\ 1 \in DOMAIN chunk[t]
         /\ \A u \in Thread : \A i \in DOMAIN chunk'[u] :
              \E j \in DOMAIN chunk[u] : chunk'[u][i] = chunk[u][j]
<1>1. chunk[t] \in Seq(Frame) /\ chunk[t] # <<>> /\ chunk \in [Thread -> Seq(Frame)]
  BY DEF TypeOK, ParsesWell
<1>2. chunk' = [chunk EXCEPT ![t] = Tail(chunk[t])]
  BY DEF FrameConsumed
<1>3. ASSUME NEW u \in Thread, NEW i \in DOMAIN chunk'[u]
      PROVE  \E j \in DOMAIN chunk[u] : chunk'[u][i] = chunk[u][j]
  <2>1. CASE u = t
    BY <1>1, <1>2, <1>3, <2>1, SequenceElements
  <2>2. CASE u # t
    BY <1>1, <1>2, <1>3, <2>2
  <2> QED
    BY <2>1, <2>2
<1> QED
  BY <1>1, <1>3, SequenceElements

\* Each step keeps every answer one that the modem gave, wherever it is.
LEMMA ProvenanceStep ==
  TypeOK /\ ProvenanceInv /\ [Next]_vars => ProvenanceInv'
<1> SUFFICES ASSUME TypeOK, ProvenanceInv, [Next]_vars PROVE ProvenanceInv'
  OBVIOUS
<1> USE DEF ProvenanceInv
<1>t. /\ pc \in [Thread -> {"idle", "lockThis", "lockPort", "read", "reading", "queue",
                            "write", "waiting", "answered"}]
      /\ written \in Nat
      /\ chunk \in [Thread -> Seq(Frame)]
      /\ input \in Seq(Frame)
      /\ modem \subseteq Request
      /\ verdict \subseteq [id : CallId, status : Status]
  BY DEF TypeOK
<1>1. ASSUME NEW s \in Sender, NEW c \in Command, Call(s, c) PROVE ProvenanceInv'
  BY <1>1, <1>t DEF Call, IsGiven, IsResponse
<1>2. ASSUME NEW s \in Sender, LockThis(s) PROVE ProvenanceInv'
  BY <1>2, <1>t DEF LockThis, IsGiven, IsResponse
<1>3. ASSUME NEW s \in Sender, ClearInput(s) PROVE ProvenanceInv'
  BY <1>3, <1>t DEF ClearInput, IsGiven, IsResponse
<1>4. ASSUME NEW s \in Sender, WriteCommand(s) PROVE ProvenanceInv'
  <2>1. \A v \in verdict : v.id \in Nat /\ v.id <= written'
    BY <1>4, <1>t DEF WriteCommand
  <2>2. \A r \in modem' : r.id <= written'
    BY <1>4, <1>t DEF WriteCommand, Request
  <2>3. \A r : IsResponse(r, written) => IsResponse(r, written)'
    BY <1>4, <2>1 DEF WriteCommand, IsResponse
  <2> QED
    BY <1>4, <1>t, <2>1, <2>2, <2>3 DEF WriteCommand, IsGiven
<1>5. ASSUME NEW s \in Sender, WaitSignalled(s) PROVE ProvenanceInv'
  BY <1>5, <1>t DEF WaitSignalled, IsGiven, IsResponse
<1>6. ASSUME NEW s \in Sender, ReturnResponse(s) PROVE ProvenanceInv'
  BY <1>6, <1>t DEF ReturnResponse, IsGiven, IsResponse
<1>7. ASSUME NEW s \in Sender, WaitTimeout(s) PROVE ProvenanceInv'
  BY <1>7, <1>t DEF WaitTimeout, IsGiven, IsResponse
<1>8. CASE ReaderStep
  BY <1>8, <1>t DEF ReaderStep, DataReceived, ReaderLockPort, IsGiven, IsResponse
<1>r. ASSUME NEW t \in Thread, ReadInput(t) PROVE ProvenanceInv'
  <2>1. PICK q \in Seq(Frame) : ReadInto(t, q)
    BY <1>r, ReadFrames DEF TypeOK
  <2>2. \A i \in DOMAIN q : IsGiven(q[i])
    BY <2>1 DEF ReadInto, IsGiven, CutStatus, Status
  <2>3. \A u \in Thread : chunk'[u] = q \/ chunk'[u] = chunk[u]
    BY <1>t, <2>1 DEF ReadInto
  <2>4. \A u \in Thread : \A i \in DOMAIN chunk'[u] : IsGiven(chunk'[u][i])
    BY <2>2, <2>3
  <2>5. \A i \in DOMAIN input' : IsGiven(input'[i])
    BY <2>1 DEF ReadInto
  <2>6. \A s \in Sender : pc'[s] = "answered" => pc[s] = "answered"
    BY <1>r, <1>t, ReadKeeps DEF AfterRead
  <2> QED
    BY <1>r, <2>4, <2>5, <2>6, ReadKeeps DEF IsGiven, IsResponse
<1>9. ASSUME NEW t \in Thread, ParsesWell(t), FrameConsumed(t), UNCHANGED verdict
      PROVE  /\ (\A u \in Thread : \A i \in DOMAIN chunk[u] : IsGiven(chunk[u][i]))'
             /\ IsGiven(data)'
             /\ IsGiven(Completed(Head(chunk[t])))
  <2>1. (\A u \in Thread : \A i \in DOMAIN chunk[u] : IsGiven(chunk[u][i]))'
    <3> SUFFICES ASSUME NEW u \in Thread, NEW i \in DOMAIN chunk'[u]
                 PROVE  chunk'[u][i].status \in Status =>
                          [id |-> chunk'[u][i].id, status |-> chunk'[u][i].status] \in verdict
      BY <1>9 DEF IsGiven
    <3>1. PICK j \in DOMAIN chunk[u] : chunk'[u][i] = chunk[u][j]
      BY <1>9, ConsumedFrames
    <3> QED
      BY <3>1 DEF IsGiven
  <2>2. IsGiven(Head(chunk[t]))
    BY <1>9, ConsumedFrames
  <2>3. IsGiven(EmptyData)
    BY DEF IsGiven, EmptyData, Status
  <2>4. IsGiven(data)'
    BY <1>9, <2>2, <2>3 DEF FrameConsumed, IsGiven
  <2> QED
    BY <2>1, <2>2, <2>4 DEF Completed
<1>10. ASSUME NEW t \in Thread, ReadResponse(t) PROVE ProvenanceInv'
  <2>1. sending.cmd \in Command
    BY <1>10 DEF ReadResponse, Responds, TypeOK, Request
  <2> DEFINE f == Completed(Head(chunk[t]))
  <2>f. f \in Frame \union {NullData, EmptyData}
    BY <1>10, ConsumedFrames, SequenceTypes DEF ReadResponse, Completed, TypeOK
  <2>2. IsGiven(f)
    BY <1>9, <1>10 DEF ReadResponse
  <2>3. ASSUME VerifyResponse(sending.cmd, f) \in {"Ack", "Nack"}
        PROVE  IsResponse(VerifyResponse(sending.cmd, f), written)
    <3>0. f.status \in {"ACK", "NACK"}
      <4>1. f.cmd = sending.cmd /\ ResponseTo[f.status] \in {"Ack", "Nack"}
        BY <2>3 DEF VerifyResponse
      <4>2. f.status \in FrameStatus
        BY <1>10, <4>1, <2>1, <2>f DEF Frame, NullData, EmptyData
      <4> QED
        BY <4>1, <4>2 DEF ResponseTo, FrameStatus, CutStatus, Status
    <3>1. [id |-> f.id, status |-> f.status] \in verdict
      BY <2>2, <3>0 DEF IsGiven, Status
    <3>2. VerifyResponse(sending.cmd, f) = ResponseTo[f.status]
      BY <2>3 DEF VerifyResponse
    <3> QED
      BY <3>1, <3>2 DEF IsResponse
  <2>4. /\ sendingResponse' = VerifyResponse(sending.cmd, f)
        /\ UNCHANGED <<verdict, written, input, modem>>
    BY <1>10 DEF ReadResponse
  <2>5. sendingResponse' \in {"Ack", "Nack"} => IsResponse(sendingResponse, written)'
    BY <2>3, <2>4 DEF IsResponse
  <2>6. (\A i \in DOMAIN input : IsGiven(input[i]))'
    BY <2>4 DEF IsGiven
  <2> QED
    BY <1>9, <1>10, <2>4, <2>5, <2>6 DEF ReadResponse
<1>11. ASSUME NEW t \in Thread, ReadMessage(t) PROVE ProvenanceInv'
  <2>1. UNCHANGED <<verdict, written, input, modem, receivedAck, sendingResponse, pc>>
    BY <1>11 DEF ReadMessage
  <2>2. /\ (\A u \in Thread : \A i \in DOMAIN chunk[u] : IsGiven(chunk[u][i]))'
        /\ IsGiven(data)'
    BY <1>9, <1>11, <2>1 DEF ReadMessage
  <2>3. (\A i \in DOMAIN input : IsGiven(input[i]))'
    BY <2>1 DEF IsGiven
  <2> QED
    BY <2>1, <2>2, <2>3 DEF IsResponse
<1>12. ASSUME NEW t \in Thread, ReadFails(t) PROVE ProvenanceInv'
  BY <1>12, <1>t DEF ReadFails, IsGiven, IsResponse
<1>13. ASSUME NEW t \in Thread, EndRead(t) PROVE ProvenanceInv'
  BY <1>13, <1>t DEF EndRead, IsGiven, IsResponse
<1>14. ASSUME NEW t \in Thread, QueueBatch(t) PROVE ProvenanceInv'
  BY <1>14, <1>t DEF QueueBatch, IsGiven, IsResponse
<1>15. CASE PoolStep
  BY <1>15, <1>t DEF PoolStep, DeliverMessage, IsGiven, IsResponse
<1>16. ASSUME NEW st \in Status, ModemAnswer(st) PROVE ProvenanceInv'
  <2>1. PICK r \in modem : ModemAnswer(st)!(r)
    BY <1>16 DEF ModemAnswer
  <2>2. verdict' = verdict \union {[id |-> r.id, status |-> st]} /\ r.id <= written
    BY <2>1
  <2> DEFINE a == Answer(r.id, r.cmd, st)
  <2>3. a \in Frame
    BY <1>t, FrameTypes DEF Request
  <2>4. IsGiven(a)'
    BY <2>2 DEF IsGiven, Answer
  <2>5. \A f : IsGiven(f) => IsGiven(f)'
    BY <2>2 DEF IsGiven
  <2>6. (\A i \in DOMAIN input : IsGiven(input[i]))'
    <3> SUFFICES ASSUME NEW i \in DOMAIN input' PROVE IsGiven(input[i])'
      OBVIOUS
    <3>1. input' = Append(input, a)
      BY <2>1
    <3>2. input'[i] = a \/ (i \in DOMAIN input /\ input'[i] = input[i])
      BY <2>3, <3>1, <1>t, SequenceElements
    <3> QED
      BY <3>2, <2>4, <2>5 DEF IsGiven
  <2>7. \A x : IsResponse(x, written) => IsResponse(x, written)'
    BY <2>1, <2>2 DEF IsResponse
  <2>8. /\ UNCHANGED <<chunk, data, pc, written, receivedAck, sendingResponse>>
        /\ modem' \subseteq modem
    BY <2>1
  <2>9. /\ (\A t \in Thread : \A i \in DOMAIN chunk[t] : IsGiven(chunk[t][i]))'
        /\ IsGiven(data)'
    BY <2>5, <2>8 DEF IsGiven
  <2>10. \A v \in verdict' : v.id <= written'
    BY <2>2, <2>8
  <2>11. (receivedAck \/ (\E s \in Sender : pc[s] = "answered") =>
           (sendingResponse \in {"Ack", "Nack"} => IsResponse(sendingResponse, written)))'
    BY <2>7, <2>8 DEF IsResponse
  <2> QED
    BY <2>6, <2>8, <2>9, <2>10, <2>11
<1>17. CASE ModemLoses
  BY <1>17, <1>t DEF ModemLoses, IsGiven, IsResponse
<1>18. CASE ModemSends
  <2>1. Message(emitted + 1) \in Frame
    BY FrameTypes DEF TypeOK
  <2>2. IsGiven(Message(emitted + 1))
    BY DEF IsGiven, Message, Status
  <2>3. \A i \in DOMAIN input' : IsGiven(input'[i])
    BY <1>18, <1>t, <2>1, <2>2, SequenceElements DEF ModemSends
  <2> QED
    BY <1>18, <2>3 DEF ModemSends, IsGiven, IsResponse
<1>19. CASE Quiescent \/ UNCHANGED vars
  BY <1>19, <1>t DEF Quiescent, vars, IsGiven, IsResponse
<1> QED
  BY <1>1, <1>2, <1>3, <1>4, <1>5, <1>6, <1>7, <1>8, <1>r, <1>10, <1>11, <1>12, <1>13,
     <1>14, <1>15, <1>16, <1>17, <1>18, <1>19
     DEF Next, SenderStep, ReadStep, ModemStep

\* A returned Ack or Nack stays the modem's: one step of the system.
LEMMA NoForgedStep ==
  TypeOK /\ LockInv /\ ProvenanceInv /\ NoForgedAnswer /\ [Next]_vars => NoForgedAnswer'
<1> SUFFICES ASSUME TypeOK, LockInv, ProvenanceInv, NoForgedAnswer, [Next]_vars
             PROVE  NoForgedAnswer'
  OBVIOUS
<1> USE DEF NoForgedAnswer, Returned
<1>t. /\ pc \in [Thread -> {"idle", "lockThis", "lockPort", "read", "reading", "queue",
                            "write", "waiting", "answered"}]
      /\ call \in [Sender -> Nat]
      /\ result \in [Sender -> Outcome]
  BY DEF TypeOK
<1>1. ASSUME NEW s \in Sender, NEW c \in Command, Call(s, c) PROVE NoForgedAnswer'
  BY <1>1, <1>t DEF Call
<1>2. ASSUME NEW s \in Sender, LockThis(s) \/ ClearInput(s) \/ WaitSignalled(s)
      PROVE  NoForgedAnswer'
  BY <1>2, <1>t DEF LockThis, ClearInput, WaitSignalled
<1>3. ASSUME NEW s \in Sender, WriteCommand(s) PROVE NoForgedAnswer'
  BY <1>3, <1>t DEF WriteCommand
<1>4. ASSUME NEW s \in Sender, ReturnResponse(s) PROVE NoForgedAnswer'
  <2>1. call[s] = written
    BY <1>4 DEF ReturnResponse, LockInv
  <2>2. sendingResponse \in {"Ack", "Nack"} => IsResponse(sendingResponse, call[s])
    BY <1>4, <2>1 DEF ReturnResponse, ProvenanceInv
  <2> QED
    BY <1>4, <1>t, <2>2 DEF ReturnResponse, IsResponse
<1>5. ASSUME NEW s \in Sender, WaitTimeout(s) PROVE NoForgedAnswer'
  BY <1>5, <1>t DEF WaitTimeout, TimeoutResponse
<1>6. CASE ReaderStep
  BY <1>6, <1>t DEF ReaderStep, DataReceived, ReaderLockPort
<1>r. ASSUME NEW t \in Thread, ReadInput(t) PROVE NoForgedAnswer'
  BY <1>r, <1>t, ReadKeeps DEF AfterRead
<1>7. ASSUME NEW t \in Thread, ReadResponse(t) \/ ReadMessage(t) PROVE NoForgedAnswer'
  BY <1>7, <1>t DEF ReadResponse, ReadMessage
<1>8. ASSUME NEW t \in Thread, ReadFails(t) PROVE NoForgedAnswer'
  BY <1>8, <1>t DEF ReadFails
<1>9. ASSUME NEW t \in Thread, EndRead(t) PROVE NoForgedAnswer'
  BY <1>9, <1>t DEF EndRead
<1>10. ASSUME NEW t \in Thread, QueueBatch(t) PROVE NoForgedAnswer'
  <2>1. t \in Sender => pc'[t] = "write"
    BY <1>10, <1>t DEF QueueBatch
  <2> QED
    BY <1>10, <1>t, <2>1 DEF QueueBatch
<1>11. CASE PoolStep
  BY <1>11, <1>t DEF PoolStep, DeliverMessage
<1>12. CASE ModemStep
  BY <1>12, <1>t DEF ModemStep, ModemAnswer, ModemLoses, ModemSends
<1>13. CASE Quiescent \/ UNCHANGED vars
  BY <1>13, <1>t DEF Quiescent, vars
<1> QED
  BY <1>1, <1>2, <1>3, <1>4, <1>5, <1>6, <1>r, <1>7, <1>8, <1>9, <1>10, <1>11, <1>12, <1>13
     DEF Next, SenderStep, ReadStep

\* The three invariants hold of the open port.
LEMMA InitialInvariants == Init => LockInv /\ ProvenanceInv /\ NoForgedAnswer
<1> SUFFICES ASSUME Init PROVE LockInv /\ ProvenanceInv /\ NoForgedAnswer
  OBVIOUS
<1>1. LockInv /\ NoForgedAnswer
  BY DEF Init, LockInv, NoForgedAnswer, Returned
<1>2. IsGiven(NullData)
  BY DEF IsGiven, NullData, Status
<1>3. ProvenanceInv
  BY <1>2 DEF Init, ProvenanceInv
<1> QED
  BY <1>1, <1>3

\* Between its first read of the port and its return, a caller holds lock(this)
\* and wrote the last command.
THEOREM LockCorrect == Spec => []LockInv
<1>1. Init => LockInv
  BY InitialInvariants
<1> QED
  BY <1>1, LockStep, TypeCorrect, PTL DEF Spec

\* Every answer on the wire, in a chunk, in the parser's buffer or in
\* sendingResponse while a wait can end is one that the modem gave.
THEOREM ProvenanceCorrect == Spec => []ProvenanceInv
<1>1. Init => ProvenanceInv
  BY InitialInvariants
<1> QED
  BY <1>1, ProvenanceStep, LockCorrect, TypeCorrect, PTL DEF Spec

\* Whatever is late or lost, SendCommand returns Ack or Nack only if the modem
\* gave that answer, to this command or to an earlier one.
THEOREM NoAnswerForged == Spec => []NoForgedAnswer
<1>1. Init => ProvenanceInv /\ NoForgedAnswer
  BY InitialInvariants
<1> QED
  BY <1>1, ProvenanceStep, NoForgedStep, LockCorrect, TypeCorrect, PTL DEF Spec
-----------------------------------------------------------------------------
(***************************************************************************)
(* As long as no wait has timed out: answers in sequences of frames.       *)
(***************************************************************************)
\* Removing the first frame.
LEMMA TailAnswers ==
  ASSUME NEW q \in Seq(Frame), q # <<>>
  PROVE  /\ HasAnswer(Tail(q)) => HasAnswer(q)
         /\ OneAnswer(q) => OneAnswer(Tail(q))
         /\ AnswersSending(q) => AnswersSending(Tail(q))
         /\ OneAnswer(q) /\ Head(q).event = 0 => ~HasAnswer(Tail(q))
         /\ Head(q).event = 0 => HasAnswer(q)
<1>1. /\ 1 \in DOMAIN q /\ Head(q) = q[1]
      /\ \A i \in DOMAIN Tail(q) : i + 1 \in DOMAIN q /\ Tail(q)[i] = q[i + 1]
      /\ \A i \in DOMAIN Tail(q) : i \in Nat /\ i # 0
  BY SequenceElements
<1>2. \A i, j \in DOMAIN Tail(q) : i + 1 = j + 1 => i = j
  BY <1>1
<1>3. \A i \in DOMAIN Tail(q) : i + 1 # 1
  BY <1>1
<1> QED
  BY <1>1, <1>2, <1>3 DEF HasAnswer, OneAnswer, AnswersSending

\* Adding a frame at the end.
LEMMA AppendAnswers ==
  ASSUME NEW q \in Seq(Frame), NEW f \in Frame
  PROVE  /\ f.event # 0 => /\ HasAnswer(Append(q, f)) => HasAnswer(q)
                           /\ OneAnswer(q) => OneAnswer(Append(q, f))
                           /\ AnswersSending(q) => AnswersSending(Append(q, f))
         /\ ~HasAnswer(q) => /\ OneAnswer(Append(q, f))
                             /\ (f.id = sending.id /\ f.cmd = sending.cmd)
                                  => AnswersSending(Append(q, f))
<1>1. \A i \in DOMAIN Append(q, f) :
        \/ i = Len(q) + 1 /\ Append(q, f)[i] = f
        \/ i \in DOMAIN q /\ Append(q, f)[i] = q[i]
  OBVIOUS
<1> QED
  BY <1>1 DEF HasAnswer, OneAnswer, AnswersSending

\* Only an answer carries a command; its number is not 0.
LEMMA AnswerFrames ==
  \A f \in Frame : /\ f.event = 0 <=> f.cmd \in Command
                   /\ f.event = 0 => f.id # 0
BY DEF Frame

\* A null "sending" is no request, and has the number of none.
LEMMA NoRequestTypes == NoRequest \notin Request /\ \A r \in Request : r.id # NoRequest.id
BY DEF NoRequest, Request
-----------------------------------------------------------------------------
(***************************************************************************)
(* The two parts of Timely that a step can disturb.                        *)
(***************************************************************************)
\* A read of the port that returns what was counted moves frames, and with them an
\* answer; it makes none.
LEMMA ReadPortFrames ==
  ASSUME TypeOK, TimelyFrames, NEW t \in Thread, ReadPort(t), count[t] <= Len(input)
  PROVE  TimelyFrames'
<1> DEFINE n == count[t]
           front == SubSeq(input, 1, n)
           rest == SubSeq(input, n + 1, Len(input))
<1>1. n \in 0..Len(input) /\ input \in Seq(Frame) /\ chunk \in [Thread -> Seq(Frame)]
  BY DEF TypeOK
<1>2. /\ chunk' = [chunk EXCEPT ![t] = front] /\ input' = rest
      /\ UNCHANGED <<sending, modem>>
  BY DEF ReadPort, Readable, InputLeft
<1>3. /\ \A i \in DOMAIN front : i \in DOMAIN input /\ front[i] = input[i] /\ i \in 1..n
      /\ \A i \in DOMAIN rest : i \in Nat \ {0} /\ n + i \in DOMAIN input
                                 /\ rest[i] = input[n + i]
  <2> HIDE DEF n
  <2>1. DOMAIN front = 1..n /\ \A i \in 1..n : front[i] = input[i]
    BY <1>1
  <2>2. Len(rest) = Len(input) - n /\ DOMAIN rest = 1..(Len(input) - n)
    BY <1>1
  <2>3. \A i \in 1..(Len(input) - n) : rest[i] = input[n + i]
    BY <1>1
  <2>4. \A i \in 1..n : i \in 1..Len(input)
    BY <1>1
  <2>5. \A i \in 1..(Len(input) - n) : i \in Nat \ {0} /\ n + i \in 1..Len(input)
    BY <1>1
  <2> HIDE DEF front, rest
  <2> QED
    BY <1>1, <2>1, <2>2, <2>3, <2>4, <2>5
<1>4. /\ HasAnswer(front) \/ HasAnswer(rest) => HasAnswer(input)
      /\ AnswersSending(front) /\ AnswersSending(rest)
  <2> HIDE DEF n, front, rest
  <2>1. AnswersSending(input)
    BY DEF TimelyFrames
  <2> QED
    BY <1>3, <2>1 DEF AnswersSending, HasAnswer
<1>o. \A i, j \in DOMAIN input : input[i].event = 0 /\ input[j].event = 0 => i = j
  BY DEF TimelyFrames, OneAnswer
<1>i. /\ \A i, j \in DOMAIN rest : n + i = n + j => i = j
      /\ \A i \in DOMAIN front, j \in DOMAIN rest : i # n + j
  <2>1. \A i \in 1..n, j \in Nat \ {0} : i # n + j
    BY <1>1
  <2>2. \A i, j \in Nat : n + i = n + j => i = j
    BY <1>1
  <2> HIDE DEF n, front, rest
  <2> QED
    BY <1>3, <2>1, <2>2
<1> HIDE DEF front, rest, n
<1>5. OneAnswer(front) /\ OneAnswer(rest)
  BY <1>3, <1>o, <1>i DEF OneAnswer
<1>6. ~(HasAnswer(front) /\ HasAnswer(rest))
  BY <1>3, <1>o, <1>i DEF HasAnswer
<1>7. chunk'[t] = front /\ \A u \in Thread : u # t => chunk'[u] = chunk[u]
  BY <1>1, <1>2
<1> HIDE DEF front, rest, n
<1>8. (OneAnswer(input) /\ AnswersSending(input))'
  BY <1>2, <1>4, <1>5 DEF OneAnswer, AnswersSending
<1>9. \A u \in Thread : AnswersSending(chunk'[u]) /\ OneAnswer(chunk'[u])
  BY <1>4, <1>5, <1>7 DEF TimelyFrames
<1>10. \A u \in Thread : (AnswersSending(chunk[u]) /\ OneAnswer(chunk[u]))'
  BY <1>2, <1>9 DEF OneAnswer, AnswersSending
<1>11. \A u \in Thread : HasAnswer(chunk'[u]) => IF u = t THEN HasAnswer(front)
                                                         ELSE HasAnswer(chunk[u])
  BY <1>7
<1>12. HasAnswer(input') => modem' = {}
  BY <1>2, <1>4 DEF TimelyFrames
<1>13. \A u \in Thread : HasAnswer(chunk'[u]) =>
         /\ modem' = {} /\ ~HasAnswer(input')
         /\ \A v \in Thread : HasAnswer(chunk'[v]) => v = u
  BY <1>2, <1>4, <1>6, <1>11 DEF TimelyFrames
<1>14. \A u \in Thread : HasAnswer(chunk'[u]) <=> HasAnswer(chunk[u])'
  BY DEF HasAnswer
<1>15. HasAnswer(input') <=> HasAnswer(input)'
  BY DEF HasAnswer
<1>16. \A r \in modem' : r = sending'
  BY <1>2 DEF TimelyFrames
<1> QED
  BY <1>8, <1>10, <1>12, <1>13, <1>14, <1>15, <1>16 DEF TimelyFrames

\* Reading one frame leaves at most the answers there were; none, if it is one.
LEMMA ConsumedAnswers ==
  ASSUME TypeOK, TimelyFrames, NEW t \in Thread, ParsesWell(t), FrameConsumed(t),
         UNCHANGED <<input, modem>>
  PROVE  /\ UNCHANGED sending => TimelyFrames'
         /\ Head(chunk[t]).event = 0 => /\ TimelyFrames'
                                        /\ Head(chunk[t]).id = sending.id
                                        /\ Head(chunk[t]).cmd = sending.cmd
<1>1. /\ chunk[t] \in Seq(Frame) /\ chunk[t] # <<>> /\ chunk \in [Thread -> Seq(Frame)]
      /\ Head(chunk[t]) = chunk[t][1] /\ 1 \in DOMAIN chunk[t]
  BY ConsumedFrames DEF TypeOK
<1>2. chunk' = [chunk EXCEPT ![t] = Tail(chunk[t])]
  BY DEF FrameConsumed
<1>3. chunk'[t] = Tail(chunk[t]) /\ \A u \in Thread : u # t => chunk'[u] = chunk[u]
  BY <1>1, <1>2
<1>4. /\ HasAnswer(Tail(chunk[t])) => HasAnswer(chunk[t])
      /\ OneAnswer(Tail(chunk[t])) /\ AnswersSending(Tail(chunk[t]))
      /\ Head(chunk[t]).event = 0 => HasAnswer(chunk[t]) /\ ~HasAnswer(Tail(chunk[t]))
  BY <1>1, TailAnswers DEF TimelyFrames
<1>5. \A u \in Thread : HasAnswer(chunk[u])' => HasAnswer(chunk[u])
  BY <1>3, <1>4 DEF HasAnswer
<1>6. \A u \in Thread : OneAnswer(chunk[u])'
  BY <1>3, <1>4 DEF TimelyFrames, OneAnswer
<1>7. HasAnswer(input)' <=> HasAnswer(input)
  BY DEF HasAnswer
<1>8. ASSUME UNCHANGED sending PROVE TimelyFrames'
  <2>1. \A u \in Thread : AnswersSending(chunk'[u])
    BY <1>3, <1>4 DEF TimelyFrames
  <2>2. \A u \in Thread : AnswersSending(chunk[u])'
    BY <1>8, <2>1 DEF AnswersSending
  <2>3. AnswersSending(input)' /\ OneAnswer(input)'
    BY <1>8 DEF TimelyFrames, AnswersSending, OneAnswer
  <2> QED
    BY <1>5, <1>6, <1>7, <1>8, <2>2, <2>3 DEF TimelyFrames
<1>9. ASSUME Head(chunk[t]).event = 0
      PROVE  /\ TimelyFrames'
             /\ Head(chunk[t]).id = sending.id /\ Head(chunk[t]).cmd = sending.cmd
  <2>1. modem = {} /\ ~HasAnswer(input)
    BY <1>4, <1>9 DEF TimelyFrames
  <2>2. \A u \in Thread : ~HasAnswer(chunk[u])'
    BY <1>3, <1>4, <1>5, <1>9 DEF TimelyFrames, HasAnswer
  <2>3. (\A u \in Thread : AnswersSending(chunk[u]))'
    BY <2>2 DEF HasAnswer, AnswersSending
  <2>4. (AnswersSending(input) /\ OneAnswer(input))'
    BY <2>1 DEF HasAnswer, AnswersSending, OneAnswer
  <2>5. Head(chunk[t]).id = sending.id /\ Head(chunk[t]).cmd = sending.cmd
    BY <1>1, <1>9 DEF TimelyFrames, AnswersSending
  <2> QED
    BY <1>6, <1>7, <2>1, <2>2, <2>3, <2>4, <2>5 DEF TimelyFrames
<1> QED
  BY <1>8, <1>9

\* The parser in START, on a frame of a well-behaved link: it never throws, and
\* what it takes for the response is the response.
LEMMA TimelyRead ==
  ASSUME TypeOK, TimelyFrames, state = "START", NEW t \in Thread, pc[t] = "reading",
         chunk[t] # <<>>
  PROVE  /\ Head(chunk[t]) \in Frame
         /\ Head(chunk[t]).event = 0 => sending # NoRequest /\ Responds(Head(chunk[t]))
         /\ Responds(Head(chunk[t])) => Head(chunk[t]).event = 0
         /\ ~CastFails(Head(chunk[t]))
<1>1. /\ chunk[t] \in Seq(Frame) /\ Head(chunk[t]) \in Frame
      /\ Head(chunk[t]) = chunk[t][1] /\ 1 \in DOMAIN chunk[t]
  BY SequenceElements, SequenceTypes DEF TypeOK
<1>2. Head(chunk[t]).event = 0 =>
        Head(chunk[t]).id = sending.id /\ Head(chunk[t]).cmd = sending.cmd
  BY <1>1 DEF TimelyFrames, AnswersSending
<1>3. Head(chunk[t]).event = 0 => sending # NoRequest
  BY <1>1, <1>2, AnswerFrames DEF NoRequest
<1>4. Head(chunk[t]).cmd \in Command => Head(chunk[t]).event = 0
  BY <1>1, AnswerFrames
<1> QED
  BY <1>1, <1>2, <1>3, <1>4 DEF Responds, SameType, CastFails

\* A step that keeps sending, the event and the waits keeps what they promise;
\* the modem's verdicts only grow.
LEMMA SameWaits ==
  ASSUME TimelyWaits, UNCHANGED <<call, sending, sendingResponse, receivedAck>>,
         verdict \subseteq verdict',
         \A s \in Sender : /\ pc'[s] = "waiting" <=> pc[s] = "waiting"
                           /\ pc'[s] = "answered" => pc[s] = "answered"
  PROVE  TimelyWaits'
<1>1. \A s \in Sender : Genuine(s) => Genuine(s)'
  BY DEF Genuine
<1> QED
  BY <1>1 DEF TimelyWaits

\* A step that moves no frame keeps what is said of frames.
LEMMA SameFrames ==
  ASSUME TimelyFrames, UNCHANGED <<sending, modem, input, chunk>>
  PROVE  TimelyFrames'
BY DEF TimelyFrames, HasAnswer, OneAnswer, AnswersSending

-----------------------------------------------------------------------------
(***************************************************************************)
(* Without an overlap a thread reads the frames that it counted.           *)
(***************************************************************************)
PortInv ==
  ~overlap => \A t \in Thread :
    /\ count[t] <= Len(input)
    /\ \A u \in Thread : count[t] = 0 \/ count[u] = 0 \/ t = u

\* Each step without an overlap keeps what a thread counted in the port, and lets one
\* thread at a time be between its count and its Read (CommunicationDevice.cs:211-213).
LEMMA PortStep == TypeOK /\ PortInv /\ [Next]_vars => PortInv'
<1> SUFFICES ASSUME TypeOK, PortInv, [Next]_vars, ~overlap'
             PROVE  \A t \in Thread :
                      /\ count'[t] <= Len(input')
                      /\ \A u \in Thread : count'[t] = 0 \/ count'[u] = 0 \/ t = u
  BY DEF PortInv
<1>t. count \in [Thread -> Nat] /\ input \in Seq(Frame)
  BY DEF TypeOK
<1> DEFINE Goal == \A t \in Thread :
                     /\ count'[t] <= Len(input')
                     /\ \A u \in Thread : count'[t] = 0 \/ count'[u] = 0 \/ t = u
<1>a. ~overlap => \A t \in Thread :
        /\ count[t] <= Len(input)
        /\ \A u \in Thread : count[t] = 0 \/ count[u] = 0 \/ t = u
  BY DEF PortInv
<1>1. ASSUME NEW t \in Thread, CountInput(t), UNCHANGED input PROVE Goal
  <2>1. /\ ~overlap /\ count' = [count EXCEPT ![t] = Len(input)]
        /\ Len(input) > 0 => \A u \in Thread \ {t} : count[u] = 0
    <3>1. input # <<>> => \A u \in Thread \ {t} : ~Between(u)
      BY <1>1 DEF CountInput
    <3>2. \A u \in Thread : ~Between(u) => count[u] = 0
      BY <1>t DEF Between
    <3>3. Len(input) > 0 => input # <<>>
      BY <1>t
    <3> QED
      BY <1>1, <3>1, <3>2, <3>3 DEF CountInput
  <2> QED
    BY <1>1, <1>a, <1>t, <2>1
<1>2. ASSUME NEW t \in Thread, ReadInput(t) PROVE Goal
  <2>1. ~overlap
    BY <1>2, ReadKeeps
  <2>2. count[t] <= Len(input)
    BY <1>a, <2>1
  <2>3. ReadPort(t)
    BY <1>2, <1>t, <2>2 DEF ReadInput, ReadCutAnswer, ReadCutMessage
  <2>4. /\ count' = [count EXCEPT ![t] = 0]
        /\ input' = SubSeq(input, count[t] + 1, Len(input))
    BY <2>2, <2>3 DEF ReadPort, Readable, InputLeft
  <2>5. count[t] = 0 => input' = input
    BY <1>t, <2>4
  <2>6. count[t] # 0 => \A u \in Thread : count'[u] = 0
    BY <1>a, <1>t, <2>1, <2>4
  <2>7. input' \in Seq(Frame)
    BY <1>t, <2>2, <2>4
  <2>8. Len(input') \in Nat
    BY <2>7
  <2> QED
    BY <1>a, <1>t, <2>1, <2>4, <2>5, <2>6, <2>8
<1>3. ASSUME ~overlap, UNCHANGED count, Len(input') >= Len(input) PROVE Goal
  BY <1>3, <1>a, <1>t
<1>4. ASSUME UNCHANGED <<overlap, count, input>> PROVE Goal
  BY <1>4, <1>a
<1>5. ASSUME NEW s \in Sender, SenderStep(s) PROVE Goal
  <2>1. CASE ClearInput(s)
    BY <1>1, <2>1 DEF ClearInput
  <2>2. CASE ~ClearInput(s)
    <3>1. UNCHANGED <<overlap, count, input>>
      BY <1>5, <2>2 DEF SenderStep, LockThis, WriteCommand, WaitSignalled,
           ReturnResponse, WaitTimeout
    <3> QED
      BY <1>4, <3>1
  <2> QED
    BY <2>1, <2>2
<1>6. ASSUME DataReceived PROVE Goal
  BY <1>1, <1>6 DEF DataReceived
<1>7. ASSUME ReaderLockPort PROVE Goal
  BY <1>4, <1>7 DEF ReaderLockPort
<1>8. ASSUME NEW t \in Thread, ReadStep(t) PROVE Goal
  <2>1. CASE ReadInput(t)
    BY <1>2, <2>1
  <2>2. CASE ~ReadInput(t)
    <3>1. UNCHANGED <<overlap, count, input>>
      BY <1>8, <2>2 DEF ReadStep, ReadResponse, ReadMessage, ReadFails, EndRead, QueueBatch
    <3> QED
      BY <1>4, <3>1
  <2> QED
    BY <2>1, <2>2
<1>9. ASSUME PoolStep PROVE Goal
  BY <1>4, <1>9 DEF PoolStep, DeliverMessage
<1>10. ASSUME ModemStep PROVE Goal
  <2>1. UNCHANGED <<overlap, count>>
    BY <1>10 DEF ModemStep, ModemAnswer, ModemLoses, ModemSends
  <2>2. input' = input \/ \E f : input' = Append(input, f)
    BY <1>10 DEF ModemStep, ModemAnswer, ModemLoses, ModemSends
  <2>3. Len(input') >= Len(input)
    BY <1>t, <2>2
  <2> QED
    BY <1>3, <2>1, <2>3
<1>11. ASSUME NEW s \in Sender, NEW c \in Command, Call(s, c) PROVE Goal
  BY <1>4, <1>11 DEF Call
<1>12. ASSUME Quiescent \/ UNCHANGED vars PROVE Goal
  BY <1>4, <1>12 DEF Quiescent, vars
<1> HIDE DEF Goal
<1>13. Goal
  <2>1. ASSUME \E s \in Sender, c \in Command : Call(s, c) PROVE Goal
    BY <2>1, <1>11
  <2>2. ASSUME \E s \in Sender : SenderStep(s) PROVE Goal
    BY <2>2, <1>5
  <2>3. ASSUME \E t \in Thread : ReadStep(t) PROVE Goal
    BY <2>3, <1>8
  <2>4. ASSUME ReaderStep PROVE Goal
    BY <2>4, <1>6, <1>7 DEF ReaderStep
  <2> QED
    BY <2>1, <2>2, <2>3, <2>4, <1>9, <1>10, <1>12 DEF Next
<1> QED
  BY <1>13 DEF Goal

\* And no answer it has read is cut.
WholeInv ==
  /\ \A i \in DOMAIN input : input[i].status \notin CutStatus
  /\ ~overlap => \A t \in Thread : \A i \in DOMAIN chunk[t] :
                    chunk[t][i].status \notin CutStatus

\* Each step without an overlap cuts no frame.
LEMMA WholeStep == TypeOK /\ PortInv /\ WholeInv /\ [Next]_vars => WholeInv'
<1> SUFFICES ASSUME TypeOK, PortInv, WholeInv, [Next]_vars PROVE WholeInv'
  OBVIOUS
<1>t. /\ count \in [Thread -> Nat] /\ input \in Seq(Frame)
      /\ chunk \in [Thread -> Seq(Frame)]
  BY DEF TypeOK
<1>1. ASSUME UNCHANGED <<input, chunk>>, overlap => overlap' PROVE WholeInv'
  BY <1>1 DEF WholeInv
<1>2. ASSUME NEW t \in Thread, ReadInput(t) PROVE WholeInv'
  <2>1. PICK q \in Seq(Frame) : ReadInto(t, q)
    BY <1>2, <1>t, ReadFrames
  <2>2. \A i \in DOMAIN input' : input'[i].status \notin CutStatus
    BY <2>1 DEF ReadInto, WholeInv
  <2>3. ASSUME ~overlap'
        PROVE  \A u \in Thread : \A i \in DOMAIN chunk'[u] : chunk'[u][i].status \notin CutStatus
    <3>1. ~overlap
      BY <1>2, <2>3, ReadKeeps
    <3>2. count[t] <= Len(input)
      BY <3>1 DEF PortInv
    <3>3. ReadPort(t)
      BY <1>2, <1>t, <3>2 DEF ReadInput, ReadCutAnswer, ReadCutMessage
    <3>4. chunk' = [chunk EXCEPT ![t] = SubSeq(input, 1, count[t])]
      BY <3>2, <3>3 DEF ReadPort, Readable
    <3>5. \A i \in DOMAIN SubSeq(input, 1, count[t]) :
            i \in DOMAIN input /\ SubSeq(input, 1, count[t])[i] = input[i]
      BY <1>t, <3>2
    <3> QED
      BY <1>t, <3>1, <3>4, <3>5 DEF WholeInv
  <2> QED
    BY <2>2, <2>3 DEF WholeInv
<1>3. ASSUME NEW t \in Thread, ParsesWell(t), FrameConsumed(t), UNCHANGED <<input, overlap>>
      PROVE  WholeInv'
  <2>1. \A u \in Thread : \A i \in DOMAIN chunk'[u] :
          \E j \in DOMAIN chunk[u] : chunk'[u][i] = chunk[u][j]
    BY <1>3, ConsumedFrames
  <2> QED
    BY <1>3, <2>1 DEF WholeInv
<1>4. ASSUME NEW t \in Thread, ReadFails(t) PROVE WholeInv'
  <2>1. \A u \in Thread : chunk'[u] = chunk[u] \/ chunk'[u] = <<>>
    BY <1>4, <1>t DEF ReadFails
  <2>2. UNCHANGED <<input, overlap>>
    BY <1>4 DEF ReadFails
  <2> QED
    BY <2>1, <2>2 DEF WholeInv
<1>5. ASSUME NEW f \in Frame, f.status \notin CutStatus, input' = Append(input, f),
             UNCHANGED <<chunk, overlap>>
      PROVE  WholeInv'
  <2>1. \A i \in DOMAIN input' : input'[i] = f \/ (i \in DOMAIN input /\ input'[i] = input[i])
    BY <1>5, <1>t, SequenceElements
  <2> QED
    BY <1>5, <2>1 DEF WholeInv
<1>6. ASSUME NEW s \in Sender, SenderStep(s) PROVE WholeInv'
  BY <1>1, <1>6 DEF SenderStep, LockThis, ClearInput, CountInput, WriteCommand,
     WaitSignalled, ReturnResponse, WaitTimeout
<1>7. CASE ReaderStep
  BY <1>1, <1>7 DEF ReaderStep, DataReceived, CountInput, ReaderLockPort
<1>8. ASSUME NEW t \in Thread, ReadStep(t) PROVE WholeInv'
  <2>1. CASE ReadInput(t)
    BY <1>2, <2>1
  <2>2. CASE ReadResponse(t) \/ ReadMessage(t)
    BY <1>3, <2>2 DEF ReadResponse, ReadMessage
  <2>3. CASE ReadFails(t)
    BY <1>4, <2>3
  <2>4. CASE EndRead(t) \/ QueueBatch(t)
    BY <1>1, <2>4 DEF EndRead, QueueBatch
  <2> QED
    BY <1>8, <2>1, <2>2, <2>3, <2>4 DEF ReadStep
<1>9. CASE PoolStep
  BY <1>1, <1>9 DEF PoolStep, DeliverMessage
<1>10. ASSUME NEW st \in Status, ModemAnswer(st) PROVE WholeInv'
  <2>1. PICK r \in modem : ModemAnswer(st)!(r)
    BY <1>10 DEF ModemAnswer
  <2>2. /\ Answer(r.id, r.cmd, st) \in Frame
        /\ Answer(r.id, r.cmd, st).status \notin CutStatus
    BY FrameTypes DEF TypeOK, Request, Answer, Status, CutStatus
  <2> QED
    BY <1>5, <2>1, <2>2
<1>11. CASE ModemLoses
  BY <1>1, <1>11 DEF ModemLoses
<1>12. CASE ModemSends
  <2>1. Message(emitted + 1) \in Frame /\ Message(emitted + 1).status \notin CutStatus
    BY FrameTypes DEF TypeOK, Message, CutStatus
  <2> QED
    BY <1>5, <1>12, <2>1 DEF ModemSends
<1>13. ASSUME NEW s \in Sender, NEW c \in Command, Call(s, c) PROVE WholeInv'
  BY <1>1, <1>13 DEF Call
<1>14. CASE Quiescent \/ UNCHANGED vars
  BY <1>1, <1>14 DEF Quiescent, vars
<1> QED
  BY <1>6, <1>7, <1>8, <1>9, <1>10, <1>11, <1>12, <1>13, <1>14 DEF Next, ModemStep

\* Both hold of the open port.
LEMMA PortCorrect == Spec => [](PortInv /\ WholeInv)
<1>1. Init => PortInv /\ WholeInv
  BY DEF Init, PortInv, WholeInv
<1> QED
  BY <1>1, PortStep, WholeStep, TypeCorrect, PTL DEF Spec
-----------------------------------------------------------------------------
(***************************************************************************)
(* TimelyInv is inductive.                                                 *)
(***************************************************************************)
LEMMA TimelyStep ==
  TypeOK /\ LockInv /\ PortInv /\ WholeInv /\ ProvenanceInv /\ TimelyInv /\ [Next]_vars
    => TimelyInv'
<1> SUFFICES ASSUME TypeOK, LockInv, PortInv, WholeInv, ProvenanceInv, TimelyInv,
                    [Next]_vars, ~late' /\ ~overlap'
             PROVE  Timely'
  BY DEF TimelyInv, Undisturbed
<1>t. /\ pc \in [Thread -> {"idle", "lockThis", "lockPort", "read", "reading", "queue",
                            "write", "waiting", "answered"}]
      /\ call \in [Sender -> Nat] /\ written \in Nat
      /\ chunk \in [Thread -> Seq(Frame)] /\ input \in Seq(Frame)
      /\ sending \in Request \union {NoRequest}
      /\ modem \subseteq Request
  BY DEF TypeOK
<1>a. ASSUME ~late /\ ~overlap
      PROVE  TimelyFrames /\ TimelyWaits /\ ~crashed /\ state = "START"
  BY <1>a DEF TimelyInv, Undisturbed, Timely
<1>1. ASSUME NEW s \in Sender, NEW c \in Command, Call(s, c) PROVE Timely'
  <2>1. /\ UNCHANGED <<late, overlap, crashed, state, sending, sendingResponse, receivedAck,
                       modem, input, chunk, verdict>>
        /\ pc[s] = "idle" /\ pc' = [pc EXCEPT ![s] = "lockThis"]
        /\ call' = [call EXCEPT ![s] = 0]
    BY <1>1 DEF Call
  <2>2. TimelyFrames'
    BY <1>a, <2>1, SameFrames
  <2>3. \A u \in Sender : /\ pc'[u] = "waiting" <=> pc[u] = "waiting"
                          /\ pc'[u] = "answered" <=> pc[u] = "answered"
                          /\ pc[u] # "idle" => call'[u] = call[u]
    BY <2>1, <1>t
  <2>4. \A u \in Sender : pc[u] # "idle" /\ Genuine(u) => Genuine(u)'
    BY <2>1, <2>3 DEF Genuine
  <2>5. TimelyWaits'
    BY <1>a, <2>1, <2>3, <2>4 DEF TimelyWaits
  <2> QED
    BY <1>a, <2>1, <2>2, <2>5 DEF Timely
<1>2. ASSUME NEW s \in Sender, LockThis(s) PROVE Timely'
  <2>1. /\ UNCHANGED <<late, overlap, crashed, state, call, sending, sendingResponse,
                       receivedAck, modem, input, chunk, verdict>>
        /\ \A u \in Sender : /\ pc'[u] = "waiting" <=> pc[u] = "waiting"
                             /\ pc'[u] = "answered" => pc[u] = "answered"
    BY <1>2, <1>t DEF LockThis
  <2> QED
    BY <1>a, <2>1, SameFrames, SameWaits DEF Timely
<1>3. ASSUME NEW s \in Sender, ClearInput(s) PROVE Timely'
  <2>1. /\ ~late /\ ~overlap
        /\ UNCHANGED <<crashed, state, call, sending, sendingResponse,
                       receivedAck, modem, input, chunk, verdict>>
        /\ \A u \in Sender : /\ pc'[u] = "waiting" <=> pc[u] = "waiting"
                             /\ pc'[u] = "answered" => pc[u] = "answered"
    BY <1>3, <1>t DEF ClearInput, CountInput
  <2> QED
    BY <1>a, <2>1, SameFrames, SameWaits DEF Timely
<1>4. ASSUME NEW s \in Sender, WriteCommand(s) PROVE Timely'
  <2>1. /\ UNCHANGED <<late, overlap, crashed, state, receivedAck, input, chunk>>
        /\ pc[s] = "write" /\ pc' = [pc EXCEPT ![s] = "waiting"]
        /\ call' = [call EXCEPT ![s] = written + 1]
        /\ sending' = [id |-> written + 1, cmd |-> command[s]]
        /\ modem' = modem \union {sending'}
    BY <1>4 DEF WriteCommand
  <2>2. \A u \in Sender : pc[u] # "waiting" /\ pc[u] # "answered"
    BY <2>1 DEF LockInv
  <2>3. sending = NoRequest /\ ~receivedAck
    BY <1>a, <2>1, <2>2 DEF TimelyWaits
  <2>4. modem = {}
    BY <1>a, <1>t, <2>1, <2>3, NoRequestTypes DEF TimelyFrames
  <2>5. ASSUME NEW q \in Seq(Frame), AnswersSending(q) PROVE ~HasAnswer(q)
    <3>1. \A i \in DOMAIN q : q[i] \in Frame
      BY SequenceTypes
    <3> QED
      BY <2>3, <2>5, <3>1, AnswerFrames DEF AnswersSending, HasAnswer, NoRequest
  <2>6. ~HasAnswer(input) /\ \A u \in Thread : ~HasAnswer(chunk[u])
    BY <1>a, <1>t, <2>1, <2>5 DEF TimelyFrames
  <2>7. TimelyFrames'
    BY <2>1, <2>4, <2>6 DEF TimelyFrames, HasAnswer, OneAnswer, AnswersSending
  <2>8. sending' # NoRequest
    BY <2>1, <1>t DEF NoRequest
  <2>9. \A u \in Sender : /\ pc'[u] = "waiting" <=> u = s
                          /\ pc'[u] # "answered"
    BY <1>t, <2>1, <2>2
  <2>10. call'[s] = sending'.id
    BY <1>t, <2>1
  <2>11. TimelyWaits'
    BY <2>1, <2>3, <2>8, <2>9, <2>10 DEF TimelyWaits
  <2> QED
    BY <1>a, <2>1, <2>7, <2>11 DEF Timely
<1>5. ASSUME NEW s \in Sender, WaitSignalled(s) PROVE Timely'
  <2>1. /\ UNCHANGED <<late, overlap, crashed, state, call, sending, sendingResponse,
                       modem, input, chunk, verdict>>
        /\ pc[s] = "waiting" /\ pc' = [pc EXCEPT ![s] = "answered"]
        /\ receivedAck /\ ~receivedAck'
    BY <1>5 DEF WaitSignalled, AutoReset
  <2>2. sending = NoRequest /\ Genuine(s)
    BY <1>a, <2>1 DEF TimelyWaits
  <2>3. \A u \in Sender : u # s => pc[u] # "waiting" /\ pc[u] # "answered"
    BY <2>1 DEF LockInv
  <2>4. \A u \in Sender : pc'[u] # "waiting" /\ (pc'[u] = "answered" <=> u = s)
    BY <1>t, <2>1, <2>3
  <2>5. Genuine(s)'
    BY <2>1, <2>2 DEF Genuine
  <2>6. TimelyWaits'
    BY <2>1, <2>2, <2>4, <2>5 DEF TimelyWaits
  <2> QED
    BY <1>a, <2>1, <2>6, SameFrames DEF Timely
<1>6. ASSUME NEW s \in Sender, ReturnResponse(s) PROVE Timely'
  <2>1. /\ UNCHANGED <<late, overlap, crashed, state, call, sending, sendingResponse,
                       receivedAck, modem, input, chunk, verdict>>
        /\ pc[s] = "answered" /\ pc' = [pc EXCEPT ![s] = "idle"]
    BY <1>6 DEF ReturnResponse
  <2>2. \A u \in Sender : /\ pc'[u] = "waiting" <=> pc[u] = "waiting"
                          /\ pc'[u] = "answered" => pc[u] = "answered"
    BY <1>t, <2>1
  <2> QED
    BY <1>a, <2>1, <2>2, SameFrames, SameWaits DEF Timely
<1>7. ASSUME NEW s \in Sender, WaitTimeout(s) PROVE Timely'
  BY <1>7 DEF WaitTimeout
<1>8. CASE DataReceived
  <2>1. /\ ~late /\ ~overlap
        /\ UNCHANGED <<crashed, state, call, sending, sendingResponse,
                       receivedAck, modem, input, chunk, verdict>>
        /\ \A u \in Sender : pc'[u] = pc[u]
    BY <1>8, <1>t DEF DataReceived, CountInput
  <2> QED
    BY <1>a, <2>1, SameFrames, SameWaits DEF Timely
<1>r. ASSUME NEW t \in Thread, ReadInput(t) PROVE Timely'
  <2>1. /\ UNCHANGED <<late, overlap, crashed, state, call, sending, sendingResponse,
                       receivedAck, modem, verdict>>
        /\ \A u \in Sender : /\ pc'[u] = "waiting" <=> pc[u] = "waiting"
                             /\ pc'[u] = "answered" => pc[u] = "answered"
    BY <1>r, <1>t, ReadKeeps DEF AfterRead
  <2>2. count[t] <= Len(input)
    BY <2>1 DEF PortInv
  <2>3. ReadPort(t)
    BY <1>r, <1>t, <2>2 DEF ReadInput, ReadCutAnswer, ReadCutMessage, TypeOK
  <2>4. TimelyFrames'
    BY <1>a, <2>1, <2>2, <2>3, ReadPortFrames
  <2> QED
    BY <1>a, <2>1, <2>4, SameWaits DEF Timely
<1>9. CASE ReaderLockPort
  <2>1. /\ UNCHANGED <<late, overlap, crashed, state, call, sending, sendingResponse,
                       receivedAck, modem, input, chunk, verdict>>
        /\ \A u \in Sender : pc'[u] = pc[u]
    BY <1>9, <1>t DEF ReaderLockPort
  <2> QED
    BY <1>a, <2>1, SameFrames, SameWaits DEF Timely
<1>10. ASSUME NEW t \in Thread, ReadResponse(t) PROVE Timely'
  <2> DEFINE f == Head(chunk[t])
  <2>1. /\ UNCHANGED <<late, overlap, crashed, pc, call, modem, input, verdict>>
        /\ ParsesWell(t) /\ Responds(f) /\ FrameConsumed(t)
        /\ sendingResponse' = VerifyResponse(sending.cmd, Completed(f))
        /\ sending' = NoRequest /\ receivedAck'
    BY <1>10 DEF ReadResponse
  <2>2. sending # NoRequest
    BY <2>1 DEF Responds
  <2>3. f \in Frame /\ f.event = 0
    BY <1>a, <2>1, TimelyRead DEF ParsesWell
  <2>4. TimelyFrames' /\ f.id = sending.id /\ f.cmd = sending.cmd
    BY <1>a, <2>1, <2>3, ConsumedAnswers
  <2>5. Completed(f) = f
    BY <1>a, <2>1 DEF Completed
  <2>6. sendingResponse' = ResponseTo[f.status]
    BY <2>1, <2>4, <2>5 DEF VerifyResponse
  <2>7. [id |-> f.id, status |-> f.status] \in verdict
    <3>1. IsGiven(f) /\ f.status \notin CutStatus
      BY <2>1, ConsumedFrames DEF ProvenanceInv, WholeInv
    <3>2. f.status \in FrameStatus
      BY <2>3 DEF Frame
    <3> QED
      BY <3>1, <3>2 DEF IsGiven, FrameStatus
  <2>8. \A s \in Sender : pc[s] = "waiting" => Genuine(s)'
    <3> SUFFICES ASSUME NEW s \in Sender, pc[s] = "waiting" PROVE Genuine(s)'
      OBVIOUS
    <3>1. call'[s] = f.id
      BY <1>a, <2>1, <2>2, <2>4 DEF TimelyWaits
    <3> QED
      BY <2>1, <2>6, <2>7, <3>1 DEF Genuine
  <2>9. (\E s \in Sender : pc[s] = "waiting") /\ \A s \in Sender : pc[s] # "answered"
    BY <1>a, <2>1, <2>2 DEF TimelyWaits
  <2>10. TimelyWaits'
    BY <2>1, <2>8, <2>9 DEF TimelyWaits
  <2>11. state' = "START"
    BY <2>1 DEF FrameConsumed
  <2> QED
    BY <1>a, <2>1, <2>4, <2>10, <2>11 DEF Timely
<1>11. ASSUME NEW t \in Thread, ReadMessage(t) PROVE Timely'
  <2>1. /\ UNCHANGED <<late, overlap, crashed, pc, call, sending, sendingResponse, receivedAck,
                       modem, input, verdict>>
        /\ ParsesWell(t) /\ FrameConsumed(t)
    BY <1>11 DEF ReadMessage
  <2>2. TimelyFrames'
    BY <1>a, <2>1, ConsumedAnswers
  <2>3. state' = "START"
    BY <2>1 DEF FrameConsumed
  <2> QED
    BY <1>a, <2>1, <2>2, <2>3, SameWaits DEF Timely
<1>12. ASSUME NEW t \in Thread, ReadFails(t) PROVE Timely'
  <2>1. /\ UNCHANGED <<late, overlap>>
        /\ pc[t] = "reading" /\ chunk[t] # <<>>
        /\ IF state = "START" THEN CastFails(Head(chunk[t])) ELSE data = NullData
    BY <1>12 DEF ReadFails, ParsesWell
  <2> QED
    BY <1>a, <2>1, TimelyRead
<1>13. ASSUME NEW t \in Thread, EndRead(t) \/ QueueBatch(t) PROVE Timely'
  <2>1. /\ UNCHANGED <<late, overlap, crashed, state, call, sending, sendingResponse,
                       receivedAck, modem, input, chunk, verdict>>
        /\ \A u \in Sender : /\ pc'[u] = "waiting" <=> pc[u] = "waiting"
                             /\ pc'[u] = "answered" => pc[u] = "answered"
    BY <1>13, <1>t DEF EndRead, QueueBatch
  <2> QED
    BY <1>a, <2>1, SameFrames, SameWaits DEF Timely
<1>14. CASE PoolStep
  <2>1. UNCHANGED <<late, overlap, crashed, state, pc, call, sending, sendingResponse,
                    receivedAck, modem, input, chunk, verdict>>
    BY <1>14 DEF PoolStep, DeliverMessage
  <2> QED
    BY <1>a, <2>1, SameFrames, SameWaits DEF Timely
<1>15. ASSUME NEW st \in Status, ModemAnswer(st) PROVE Timely'
  <2>1. PICK r \in modem : ModemAnswer(st)!(r)
    BY <1>15 DEF ModemAnswer
  <2> DEFINE a == Answer(r.id, r.cmd, st)
  <2>2. /\ UNCHANGED <<late, overlap, crashed, state, pc, call, sending, sendingResponse,
                       receivedAck, chunk>>
        /\ verdict \subseteq verdict'
        /\ modem' = modem \ {r}
        /\ input' = Append(input, a)
    BY <2>1
  <2>3. r = sending /\ modem = {r}
    BY <1>a, <2>2 DEF TimelyFrames
  <2>4. ~HasAnswer(input) /\ \A u \in Thread : ~HasAnswer(chunk[u])
    BY <1>a, <2>2, <2>3 DEF TimelyFrames
  <2>5. a \in Frame /\ a.id = sending.id /\ a.cmd = sending.cmd
    BY <1>t, <2>3, FrameTypes DEF Request, Answer
  <2>6. OneAnswer(Append(input, a)) /\ AnswersSending(Append(input, a))
    BY <1>t, <2>4, <2>5, AppendAnswers
  <2>7. (OneAnswer(input) /\ AnswersSending(input))'
    BY <2>2, <2>6 DEF OneAnswer, AnswersSending
  <2>8. \A u \in Thread : (~HasAnswer(chunk[u]) /\ OneAnswer(chunk[u])
                             /\ AnswersSending(chunk[u]))'
    BY <2>2, <2>4 DEF HasAnswer, OneAnswer, AnswersSending
  <2>9. TimelyFrames'
    BY <2>2, <2>3, <2>7, <2>8 DEF TimelyFrames
  <2> QED
    BY <1>a, <2>2, <2>9, SameWaits DEF Timely
<1>16. CASE ModemLoses
  <2>1. /\ UNCHANGED <<late, overlap, crashed, state, pc, call, sending, sendingResponse,
                       receivedAck, input, chunk, verdict>>
        /\ modem' \subseteq modem
    BY <1>16 DEF ModemLoses
  <2>2. TimelyFrames'
    BY <1>a, <2>1 DEF TimelyFrames, HasAnswer, OneAnswer, AnswersSending
  <2> QED
    BY <1>a, <2>1, <2>2, SameWaits DEF Timely
<1>17. CASE ModemSends
  <2> DEFINE m == Message(emitted + 1)
  <2>1. /\ UNCHANGED <<late, overlap, crashed, state, pc, call, sending, sendingResponse,
                       receivedAck, chunk, modem, verdict>>
        /\ input' = Append(input, m)
    BY <1>17 DEF ModemSends
  <2>2. m \in Frame /\ m.event # 0
    BY FrameTypes DEF TypeOK, Message
  <2>3. /\ HasAnswer(Append(input, m)) => HasAnswer(input)
        /\ OneAnswer(Append(input, m)) /\ AnswersSending(Append(input, m))
    BY <1>a, <1>t, <2>1, <2>2, AppendAnswers DEF TimelyFrames
  <2>4. (OneAnswer(input) /\ AnswersSending(input))'
    BY <2>1, <2>3 DEF OneAnswer, AnswersSending
  <2>5. HasAnswer(input)' => HasAnswer(input)
    BY <2>1, <2>3 DEF HasAnswer
  <2>6. \A u \in Thread : /\ HasAnswer(chunk[u])' <=> HasAnswer(chunk[u])
                          /\ (OneAnswer(chunk[u]) /\ AnswersSending(chunk[u]))'
    BY <1>a, <2>1 DEF TimelyFrames, HasAnswer, OneAnswer, AnswersSending
  <2>7. TimelyFrames'
    BY <1>a, <2>1, <2>4, <2>5, <2>6 DEF TimelyFrames
  <2> QED
    BY <1>a, <2>1, <2>7, SameWaits DEF Timely
<1>18. CASE Quiescent \/ UNCHANGED vars
  <2>1. UNCHANGED <<late, overlap, crashed, state, pc, call, sending, sendingResponse,
                    receivedAck, modem, input, chunk, verdict>>
    BY <1>18 DEF Quiescent, vars
  <2> QED
    BY <1>a, <2>1, SameFrames, SameWaits DEF Timely
<1> QED
  BY <1>1, <1>2, <1>3, <1>4, <1>5, <1>6, <1>7, <1>8, <1>9, <1>r, <1>10, <1>11, <1>12,
     <1>13, <1>14, <1>15, <1>16, <1>17, <1>18
     DEF Next, SenderStep, ReaderStep, ReadStep, ModemStep
-----------------------------------------------------------------------------
(***************************************************************************)
(* TimelyAnswer.                                                           *)
(***************************************************************************)
\* An overlap is not forgotten.
LEMMA CountKeeps == ASSUME NEW t \in Thread, CountInput(t) PROVE overlap => overlap'
BY DEF CountInput

\* What a call has returned stays the modem's verdict on it: one step.
LEMMA TimelyAnswerStep ==
  TypeOK /\ LockInv /\ PortInv /\ WholeInv /\ ProvenanceInv /\ TimelyInv /\ TimelyAnswer
    /\ [Next]_vars => TimelyAnswer'
<1> SUFFICES ASSUME TypeOK, LockInv, PortInv, WholeInv, ProvenanceInv, TimelyInv,
                    TimelyAnswer, [Next]_vars, ~late' /\ ~overlap', NEW s \in Sender, Returned(s)'
             PROVE  \E v \in verdict' : v.id = call'[s] /\ result'[s] = ResponseTo[v.status]
  BY TimelyStep DEF TimelyAnswer, TimelyInv, Timely, Undisturbed
<1> DEFINE Goal == \E v \in verdict' : v.id = call'[s] /\ result'[s] = ResponseTo[v.status]
<1>t. /\ pc \in [Thread -> {"idle", "lockThis", "lockPort", "read", "reading", "queue",
                            "write", "waiting", "answered"}]
      /\ call \in [Sender -> Nat] /\ result \in [Sender -> Outcome]
  BY DEF TypeOK
<1>a. ASSUME ~late /\ ~overlap, Returned(s), call'[s] = call[s], result'[s] = result[s],
             verdict \subseteq verdict'
      PROVE  Goal
  BY <1>a DEF TimelyAnswer, Undisturbed
<1>1. ASSUME NEW u \in Sender, NEW c \in Command, Call(u, c) PROVE Goal
  BY <1>1, <1>a, <1>t DEF Call, Returned
<1>2. ASSUME NEW u \in Sender, LockThis(u) \/ ClearInput(u) \/ WaitSignalled(u)
      PROVE  Goal
  <2>0. (overlap => overlap') /\ UNCHANGED late
    <3>1. CASE ClearInput(u)
      BY <3>1, CountKeeps DEF ClearInput
    <3> QED
      BY <1>2, <3>1 DEF LockThis, WaitSignalled
  <2>1. /\ ~late /\ ~overlap /\ UNCHANGED <<call, result, verdict>>
    BY <1>2, <2>0 DEF LockThis, ClearInput, WaitSignalled
  <2>2. Returned(s)
    BY <1>2, <1>t, <2>1 DEF LockThis, ClearInput, WaitSignalled, Returned
  <2> QED
    BY <1>a, <2>1, <2>2
<1>3. ASSUME NEW u \in Sender, WriteCommand(u) PROVE Goal
  BY <1>3, <1>a, <1>t DEF WriteCommand, Returned
<1>4. ASSUME NEW u \in Sender, ReturnResponse(u) PROVE Goal
  <2>1. CASE u = s
    <3>1. Genuine(s)
      BY <1>4, <2>1 DEF ReturnResponse, TimelyInv, Undisturbed, Timely, TimelyWaits
    <3> QED
      BY <1>4, <1>t, <2>1, <3>1 DEF ReturnResponse, Genuine
  <2>2. CASE u # s
    BY <1>4, <1>a, <1>t, <2>2 DEF ReturnResponse, Returned
  <2> QED
    BY <2>1, <2>2
<1>5. ASSUME NEW u \in Sender, WaitTimeout(u) PROVE Goal
  BY <1>5 DEF WaitTimeout
<1>6. CASE ReaderStep
  <2>0. (overlap => overlap') /\ UNCHANGED late
    <3>1. CASE DataReceived
      BY <3>1, CountKeeps DEF DataReceived
    <3> QED
      BY <1>6, <3>1 DEF ReaderStep, ReaderLockPort
  <2>1. /\ ~late /\ ~overlap /\ UNCHANGED <<call, result, verdict>>
    BY <1>6, <2>0 DEF ReaderStep, DataReceived, ReaderLockPort
  <2>2. Returned(s)
    BY <1>6, <1>t, <2>1 DEF ReaderStep, DataReceived, ReaderLockPort, Returned
  <2> QED
    BY <1>a, <2>1, <2>2
<1>r. ASSUME NEW t \in Thread, ReadInput(t) PROVE Goal
  BY <1>r, <1>a, <1>t, ReadKeeps DEF AfterRead, Returned
<1>7. ASSUME NEW t \in Thread, ReadResponse(t) \/ ReadMessage(t) PROVE Goal
  BY <1>7, <1>a, <1>t DEF ReadResponse, ReadMessage, Returned
<1>8. ASSUME NEW t \in Thread, ReadFails(t) PROVE Goal
  <2>1. /\ ~late /\ ~overlap /\ pc[t] = "reading" /\ chunk[t] # <<>>
        /\ IF state = "START" THEN CastFails(Head(chunk[t])) ELSE data = NullData
    BY <1>8 DEF ReadFails, ParsesWell
  <2> QED
    BY <2>1, TimelyRead DEF TimelyInv, Undisturbed, Timely
<1>9. ASSUME NEW t \in Thread, EndRead(t) PROVE Goal
  BY <1>9, <1>a, <1>t DEF EndRead, Returned
<1>10. ASSUME NEW t \in Thread, QueueBatch(t) PROVE Goal
  <2>1. t \in Sender => pc'[t] = "write"
    BY <1>10, <1>t DEF QueueBatch
  <2> QED
    BY <1>10, <1>a, <1>t, <2>1 DEF QueueBatch, Returned
<1>11. CASE PoolStep
  BY <1>11, <1>a DEF PoolStep, DeliverMessage, Returned
<1>12. CASE ModemStep
  BY <1>12, <1>a DEF ModemStep, ModemAnswer, ModemLoses, ModemSends, Returned
<1>13. CASE Quiescent \/ UNCHANGED vars
  BY <1>13, <1>a DEF Quiescent, vars, Returned
<1> QED
  BY <1>1, <1>2, <1>3, <1>4, <1>5, <1>6, <1>r, <1>7, <1>8, <1>9, <1>10, <1>11, <1>12,
     <1>13
     DEF Next, SenderStep, ReadStep

\* The open port has no command outstanding and no answer on the way.
LEMMA TimelyInit == Init => TimelyInv /\ TimelyAnswer
<1> SUFFICES ASSUME Init PROVE TimelyInv /\ TimelyAnswer
  OBVIOUS
<1>1. TimelyFrames
  BY DEF Init, TimelyFrames, HasAnswer, OneAnswer, AnswersSending
<1>2. TimelyWaits
  BY DEF Init, TimelyWaits
<1> QED
  BY <1>1, <1>2 DEF Init, TimelyInv, Timely, TimelyAnswer, Returned

\* As long as no wait has timed out and no two threads were after the same bytes, at most
\* one answer is under way, the one to
\* the command being sent, and nothing comes between the end of a wait and the
\* read of sendingResponse.
THEOREM OneAnswerUnderWay == Spec => []TimelyInv
<1>1. Init => LockInv /\ ProvenanceInv
  BY InitialInvariants
<1> QED
  BY <1>1, TimelyInit, ProvenanceStep, TimelyStep, LockCorrect, PortCorrect, TypeCorrect,
     PTL DEF Spec

\* As long as no wait has timed out and no two threads were after the same bytes, every
\* call returns the modem's verdict on
\* the very command it wrote, and no read throws.
THEOREM TimelyCorrect == Spec => []TimelyAnswer
<1>1. Init => LockInv /\ ProvenanceInv
  BY InitialInvariants
<1> QED
  BY <1>1, TimelyInit, ProvenanceStep, TimelyStep, TimelyAnswerStep, LockCorrect,
     PortCorrect, TypeCorrect, PTL DEF Spec
=============================================================================
