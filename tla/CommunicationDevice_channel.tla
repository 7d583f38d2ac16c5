---------------------- MODULE CommunicationDevice_channel ----------------------
(***************************************************************************)
(* CommunicationDevice implements CommandChannel, whatever is late, lost or *)
(* cut: no more waits are ended by answers than the modem gave, no answer  *)
(* ends two until a read throws, each message of the modem's own is in one *)
(* place, and every step is one of the abstract channel or none.           *)
(***************************************************************************)
EXTENDS CommunicationDevice_proofs, FiniteSetTheorems

USE ThreadAssumption, CommandAssumption
    DEF Thread, Command, CallId, EventId, Goto,
        callVars, protocolVars, readVars, poolVars, modemVars, endVars, faultVars

-----------------------------------------------------------------------------
(***************************************************************************)
(* Answers on their way.                                                   *)
(***************************************************************************)
\* The commands whose answers are on their way: in the port or with a thread.
InFlight ==
  {id \in CallId : \/ \E i \in DOMAIN input : input[i].id = id
                   \/ \E t \in Thread : \E i \in DOMAIN chunk[t] : chunk[t][i].id = id}

\* Cut or whole, an answer on its way is to a command that the modem has answered.
HasVerdict(id) == \E v \in verdict : v.id = id
AnsweredInv ==
  /\ \A i \in DOMAIN input : input[i].id \in CallId => HasVerdict(input[i].id)
  /\ \A t \in Thread : \A i \in DOMAIN chunk[t] :
       chunk[t][i].id \in CallId => HasVerdict(chunk[t][i].id)

\* The modem answers each command at most once, and each answer is in one place.
FlightInv ==
  /\ AnsweredInv
  /\ IsFiniteSet(verdict)
  /\ \A r, q \in modem : r.id = q.id => r = q
  /\ \A r \in modem, v \in verdict : v.id # r.id
  /\ \A i, j \in DOMAIN input : input[i].id \in CallId /\ input[i].id = input[j].id => i = j
  /\ \A t, u \in Thread : \A i \in DOMAIN chunk[t], j \in DOMAIN chunk[u] :
       chunk[t][i].id \in CallId /\ chunk[t][i].id = chunk[u][j].id => t = u /\ i = j
  /\ \A i \in DOMAIN input, t \in Thread : \A j \in DOMAIN chunk[t] :
       input[i].id \in CallId => input[i].id # chunk[t][j].id

\* A thread holds frames only while it reads.
ChunkInv ==
  \A t \in Thread : chunk[t] # <<>> => pc[t] = "reading" \/ (t = Reader /\ pc[t] = "lockPort")

\* Answers spent: on a wait that has returned, on a signal, on a wait that returns.
One(p)       == IF p THEN 1 ELSE 0
SomeAnswered == \E s \in Sender : pc[s] = "answered"
Spent        == taken + One(receivedAck) + One(SomeAnswered)

\* What is spent, what is on its way and what a read that threw has left in the
\* parser's buffer: together no more than the modem has answered.
CreditInv == Spent + Cardinality(InFlight) + One(state # "START") <= Cardinality(verdict)

\* What a step may do to frames, to the modem's commands and to its verdicts.
LEMMA FrameSteps ==
  ASSUME TypeOK, ChunkInv, [Next]_vars
  PROVE  \/ UNCHANGED <<input, chunk, modem, verdict>>
         \/ \E t \in Thread : /\ ReadInput(t) /\ chunk[t] = <<>>
                              /\ UNCHANGED <<modem, verdict>>
         \/ \E s \in Sender : WriteCommand(s)
         \/ \E t \in Thread : ReadResponse(t) \/ ReadMessage(t) \/ ReadFails(t)
         \/ \E st \in Status : ModemAnswer(st)
         \/ ModemLoses \/ ModemSends
<1>1. ASSUME NEW s \in Sender, NEW c \in Command, Call(s, c)
      PROVE  UNCHANGED <<input, chunk, modem, verdict>>
  BY <1>1 DEF Call
<1>2. ASSUME NEW s \in Sender,
             \/ LockThis(s) \/ ClearInput(s) \/ WaitSignalled(s) \/ ReturnResponse(s)
             \/ WaitTimeout(s)
      PROVE  UNCHANGED <<input, chunk, modem, verdict>>
  BY <1>2 DEF LockThis, ClearInput, WaitSignalled, ReturnResponse, WaitTimeout
<1>3. CASE DataReceived
  BY <1>3 DEF DataReceived
<1>4. ASSUME NEW t \in Thread, ReadInput(t)
      PROVE  chunk[t] = <<>> /\ UNCHANGED <<modem, verdict>>
  BY <1>4, ReadKeeps DEF ChunkInv
<1>5. CASE ReaderLockPort
  BY <1>5 DEF ReaderLockPort
<1>6. ASSUME NEW t \in Thread, EndRead(t) \/ QueueBatch(t)
      PROVE  UNCHANGED <<input, chunk, modem, verdict>>
  BY <1>6 DEF EndRead, QueueBatch
<1>7. CASE PoolStep
  BY <1>7 DEF PoolStep, DeliverMessage
<1>8. CASE Quiescent \/ UNCHANGED vars
  BY <1>8 DEF Quiescent, vars
<1> QED
  BY <1>1, <1>2, <1>3, <1>4, <1>5, <1>6, <1>7, <1>8
     DEF Next, SenderStep, ReaderStep, ReadStep, ModemStep

\* Frames are taken with the port locked, or before it is locked by Reader.
LEMMA ChunkStep == TypeOK /\ ChunkInv /\ [Next]_vars => ChunkInv'
<1> SUFFICES ASSUME TypeOK, ChunkInv, [Next]_vars PROVE ChunkInv'
  OBVIOUS
<1> USE DEF ChunkInv
<1>t. /\ pc \in [Thread -> {"idle", "lockThis", "lockPort", "read", "reading", "queue",
                            "write", "waiting", "answered"}]
      /\ chunk \in [Thread -> Seq(Frame)]
  BY DEF TypeOK
<1>1. ASSUME NEW s \in Sender, NEW c \in Command, Call(s, c) PROVE ChunkInv'
  BY <1>1, <1>t DEF Call
<1>2. ASSUME NEW s \in Sender,
             \/ LockThis(s) \/ WriteCommand(s) \/ WaitSignalled(s)
             \/ ReturnResponse(s) \/ WaitTimeout(s)
      PROVE  ChunkInv'
  BY <1>2, <1>t DEF LockThis, WriteCommand, WaitSignalled, ReturnResponse, WaitTimeout
<1>3. ASSUME NEW s \in Sender, ClearInput(s) PROVE ChunkInv'
  BY <1>3, <1>t DEF ClearInput
<1>4. CASE ReaderStep
  BY <1>4, <1>t DEF ReaderStep, DataReceived, ReaderLockPort
<1>r. ASSUME NEW t \in Thread, ReadInput(t) PROVE ChunkInv'
  <2>1. /\ pc' = [pc EXCEPT ![t] = AfterRead(t)]
        /\ \A u \in Thread : u # t => chunk'[u] = chunk[u]
    BY <1>r, <1>t, ReadKeeps, ReadFrames, ZenonT(30) DEF ReadInto, TypeOK
  <2> QED
    BY <1>t, <2>1 DEF AfterRead
<1>5. ASSUME NEW t \in Thread, ReadResponse(t) \/ ReadMessage(t) PROVE ChunkInv'
  BY <1>5, <1>t DEF ReadResponse, ReadMessage, ParsesWell, FrameConsumed
<1>6. ASSUME NEW t \in Thread, ReadFails(t) PROVE ChunkInv'
  BY <1>6, <1>t DEF ReadFails
<1>7. ASSUME NEW t \in Thread, EndRead(t) \/ QueueBatch(t) PROVE ChunkInv'
  BY <1>7, <1>t DEF EndRead, QueueBatch
<1>8. CASE PoolStep \/ ModemStep
  BY <1>8 DEF PoolStep, DeliverMessage, ModemStep, ModemAnswer, ModemLoses, ModemSends
<1>9. CASE Quiescent \/ UNCHANGED vars
  BY <1>9 DEF Quiescent, vars
<1> QED
  BY <1>1, <1>2, <1>3, <1>4, <1>r, <1>5, <1>6, <1>7, <1>8, <1>9
     DEF Next, SenderStep, ReadStep

\* An answer on its way is one that the modem gave.
LEMMA FlightAnswered ==
  ASSUME FlightInv PROVE \A id \in InFlight : HasVerdict(id)
BY DEF InFlight, FlightInv, AnsweredInv

\* No answer is in flight to a command that was not written.
LEMMA FlightGiven ==
  ASSUME ProvenanceInv, FlightInv PROVE \A id \in InFlight : id <= written
BY FlightAnswered DEF ProvenanceInv, HasVerdict

\* What Read returns are the first frames of the port, one perhaps cut, and what it
\* leaves are the frames behind them; it gives up at most one message, the last.
ReadSplit(t, q, n) ==
  /\ chunk' = [chunk EXCEPT ![t] = q]
  /\ input' \in Seq(Frame)
  /\ \A i \in DOMAIN q : /\ i \in DOMAIN input
                         /\ q[i].id = input[i].id /\ q[i].event = input[i].event
  /\ \A i \in DOMAIN input' : /\ n + i \in DOMAIN input /\ n + i \notin DOMAIN q
                              /\ input'[i] = input[n + i]
  /\ \A i, j \in DOMAIN input' : n + i = n + j => i = j
  /\ \/ /\ lost' = lost
        /\ \A k \in DOMAIN input : k \in DOMAIN q \/ \E i \in DOMAIN input' : k = n + i
     \/ \E m \in DOMAIN input \ DOMAIN q :
          /\ lost' = lost \union {input[m].event} /\ input[m].event # 0
          /\ input' = <<>>
          /\ \A k \in DOMAIN input : k \in DOMAIN q \/ k = m

\* Each way in which Read may return (CommunicationDevice.cs:213) is such a split.
LEMMA ReadSplits ==
  ASSUME NEW t \in Thread, input \in Seq(Frame), count \in [Thread -> Nat], ReadInput(t)
  PROVE  \E q \in Seq(Frame), n \in Nat : ReadSplit(t, q, n)
<1>1. CASE ReadPort(t)
  <2> DEFINE n == Readable(t)
             q == SubSeq(input, 1, n)
             r == SubSeq(input, n + 1, Len(input))
  <2>1. n \in 0..Len(input)
    BY DEF Readable
  <2>2. chunk' = [chunk EXCEPT ![t] = q] /\ input' = r /\ lost' = lost
    BY <1>1 DEF ReadPort, InputLeft
  <2> HIDE DEF n
  <2>3. q \in Seq(Frame) /\ DOMAIN q = 1..n /\ \A i \in 1..n : q[i] = input[i]
    BY <2>1
  <2>4. /\ r \in Seq(Frame) /\ DOMAIN r = 1..(Len(input) - n)
        /\ \A i \in 1..(Len(input) - n) : r[i] = input[n + i]
    BY <2>1
  <2>5. /\ DOMAIN input = 1..Len(input)
        /\ \A i \in 1..n : i \in 1..Len(input)
        /\ \A i \in 1..(Len(input) - n) : n + i \in 1..Len(input) /\ n + i \notin 1..n
        /\ \A i, j \in 1..(Len(input) - n) : n + i = n + j => i = j
        /\ \A k \in 1..Len(input) : k \in 1..n \/ \E i \in 1..(Len(input) - n) : k = n + i
    <3>1. \A k \in 1..Len(input) : k \notin 1..n => k - n \in 1..(Len(input) - n) /\ k = n + (k - n)
      BY <2>1
    <3> QED
      BY <2>1, <3>1
  <2> HIDE DEF q, r
  <2>6. ReadSplit(t, q, n)
    BY <2>2, <2>3, <2>4, <2>5 DEF ReadSplit
  <2> QED
    BY <2>1, <2>3, <2>6
<1>2. ASSUME NEW st \in CutStatus, ReadCutAnswer(t, st)
      PROVE  \E q \in Seq(Frame), n \in Nat : ReadSplit(t, q, n)
  <2> DEFINE n == Len(input)
             q == [input EXCEPT ![n].status = st]
  <2>1. /\ chunk' = [chunk EXCEPT ![t] = q] /\ input' = <<>> /\ lost' = lost
    BY <1>2 DEF ReadCutAnswer
  <2>4. /\ q \in Seq(Frame) /\ DOMAIN q = DOMAIN input
        /\ \A i \in DOMAIN q : q[i].id = input[i].id /\ q[i].event = input[i].event
    BY <1>2, CutFrames
  <2>5. n \in Nat /\ <<>> \in Seq(Frame) /\ DOMAIN <<>> = {}
    OBVIOUS
  <2> HIDE DEF q, n
  <2>6. ReadSplit(t, q, n)
    BY <2>1, <2>4, <2>5 DEF ReadSplit
  <2> QED
    BY <2>4, <2>5, <2>6
<1>3. CASE ReadCutMessage(t)
  <2> DEFINE n == Len(input)
             q == SubSeq(input, 1, n - 1)
  <2>1. /\ chunk' = [chunk EXCEPT ![t] = q] /\ input' = <<>> /\ n \in DOMAIN input
        /\ input[n].event # 0 /\ lost' = lost \union {input[n].event}
    BY <1>3 DEF ReadCutMessage
  <2>2. /\ q \in Seq(Frame) /\ DOMAIN q = 1..(n - 1)
        /\ \A i \in 1..(n - 1) : q[i] = input[i]
    BY <2>1
  <2>3. /\ n \notin 1..(n - 1) /\ \A i \in 1..(n - 1) : i \in DOMAIN input
        /\ \A k \in DOMAIN input : k \in 1..(n - 1) \/ k = n
    BY <2>1
  <2>4. n \in Nat /\ <<>> \in Seq(Frame) /\ DOMAIN <<>> = {}
    OBVIOUS
  <2> HIDE DEF q, n
  <2>5. n \in DOMAIN input \ DOMAIN q
    BY <2>1, <2>2, <2>3
  <2>6. ReadSplit(t, q, n)
    BY <2>1, <2>2, <2>3, <2>4, <2>5 DEF ReadSplit
  <2> QED
    BY <2>2, <2>4, <2>6
<1> QED
  BY <1>1, <1>2, <1>3 DEF ReadInput

\* The frames that a step leaves in the port and with the threads come from there or
\* from the modem.
LEMMA AnsweredStep ==
  TypeOK /\ ChunkInv /\ FlightInv /\ [Next]_vars => AnsweredInv'
<1> SUFFICES ASSUME TypeOK, ChunkInv, FlightInv, [Next]_vars PROVE AnsweredInv'
  OBVIOUS
<1>t. chunk \in [Thread -> Seq(Frame)] /\ input \in Seq(Frame)
  BY DEF TypeOK
<1>0. AnsweredInv
  BY DEF FlightInv
<1>1. ASSUME UNCHANGED <<input, chunk>>, verdict \subseteq verdict' PROVE AnsweredInv'
  BY <1>0, <1>1 DEF AnsweredInv, HasVerdict
<1>2. ASSUME NEW t \in Thread, ReadInput(t), UNCHANGED verdict PROVE AnsweredInv'
  <2>1. PICK q \in Seq(Frame), n \in Nat : ReadSplit(t, q, n)
    BY <1>2, <1>t, ReadSplits DEF TypeOK
  <2>2. chunk'[t] = q /\ \A u \in Thread : u # t => chunk'[u] = chunk[u]
    BY <1>t, <2>1 DEF ReadSplit
  <2>3. \A i \in DOMAIN input' : input'[i].id \in CallId => HasVerdict(input'[i].id)
    BY <1>0, <2>1 DEF ReadSplit, AnsweredInv
  <2>4. \A i \in DOMAIN q : q[i].id \in CallId => HasVerdict(q[i].id)
    BY <1>0, <2>1 DEF ReadSplit, AnsweredInv
  <2>5. \A u \in Thread : \A i \in DOMAIN chunk'[u] :
          chunk'[u][i].id \in CallId => HasVerdict(chunk'[u][i].id)
    BY <1>0, <2>2, <2>4 DEF AnsweredInv
  <2> QED
    BY <1>2, <2>3, <2>5 DEF AnsweredInv, HasVerdict
<1>3. ASSUME NEW t \in Thread, ReadResponse(t) \/ ReadMessage(t) PROVE AnsweredInv'
  <2>1. UNCHANGED <<input, verdict>> /\ ParsesWell(t) /\ FrameConsumed(t)
    BY <1>3 DEF ReadResponse, ReadMessage
  <2>2. \A u \in Thread : \A i \in DOMAIN chunk'[u] :
          \E j \in DOMAIN chunk[u] : chunk'[u][i] = chunk[u][j]
    BY <2>1, ConsumedFrames
  <2> QED
    BY <1>0, <2>1, <2>2 DEF AnsweredInv, HasVerdict
<1>4. ASSUME NEW t \in Thread, ReadFails(t) PROVE AnsweredInv'
  <2>1. /\ UNCHANGED <<input, verdict>>
        /\ \A u \in Thread : chunk'[u] = chunk[u] \/ chunk'[u] = <<>>
    BY <1>4, <1>t DEF ReadFails
  <2> QED
    BY <1>0, <2>1 DEF AnsweredInv, HasVerdict
<1>5. ASSUME NEW f \in Frame, input' = Append(input, f), UNCHANGED chunk,
             verdict \subseteq verdict', f.id \in CallId => \E v \in verdict' : v.id = f.id
      PROVE  AnsweredInv'
  <2>1. \A i \in DOMAIN input' : \/ input'[i] = f
                                 \/ i \in DOMAIN input /\ input'[i] = input[i]
    BY <1>5, <1>t, SequenceElements
  <2>2. \A id : HasVerdict(id) => HasVerdict(id)'
    BY <1>5 DEF HasVerdict
  <2>3. (\A t \in Thread : \A i \in DOMAIN chunk[t] :
           chunk[t][i].id \in CallId => HasVerdict(chunk[t][i].id))'
    BY <1>0, <1>5, <2>2 DEF AnsweredInv
  <2>4. (\A i \in DOMAIN input : input[i].id \in CallId => HasVerdict(input[i].id))'
    <3>1. ASSUME NEW i \in DOMAIN input', input'[i].id \in CallId
          PROVE  \E v \in verdict' : v.id = input'[i].id
      BY <1>0, <1>5, <2>1, <3>1 DEF AnsweredInv, HasVerdict
    <3> QED
      BY <3>1 DEF HasVerdict
  <2> QED
    BY <2>3, <2>4 DEF AnsweredInv
<1>6. ASSUME NEW st \in Status, ModemAnswer(st) PROVE AnsweredInv'
  <2>1. PICK r \in modem : ModemAnswer(st)!(r)
    BY <1>6 DEF ModemAnswer
  <2> DEFINE a == Answer(r.id, r.cmd, st)
             v == [id |-> r.id, status |-> st]
  <2>2. a \in Frame /\ a.id = r.id
    BY FrameTypes DEF Request, Answer, TypeOK
  <2>3. /\ input' = Append(input, a) /\ UNCHANGED chunk
        /\ verdict' = verdict \union {v} /\ v.id = r.id
    BY <2>1
  <2> HIDE DEF a, v
  <2>4. \E w \in verdict' : w.id = a.id
    BY <2>2, <2>3
  <2>5. a.id \in CallId => \E w \in verdict' : w.id = a.id
    BY <2>4
  <2> QED
    BY <1>5, <2>2, <2>3, <2>5 DEF HasVerdict
<1>7. CASE ModemSends
  <2>1. Message(emitted + 1) \in Frame /\ Message(emitted + 1).id \notin CallId
    BY FrameTypes DEF TypeOK, Message
  <2> QED
    BY <1>5, <1>7, <2>1 DEF ModemSends
<1>8. ASSUME NEW s \in Sender, WriteCommand(s) PROVE AnsweredInv'
  BY <1>1, <1>8 DEF WriteCommand
<1>9. CASE ModemLoses
  BY <1>1, <1>9 DEF ModemLoses
<1> QED
  BY FrameSteps, <1>1, <1>2, <1>3, <1>4, <1>6, <1>7, <1>8, <1>9

\* No step doubles an answer.
LEMMA FlightStep ==
  TypeOK /\ ChunkInv /\ ProvenanceInv /\ FlightInv /\ [Next]_vars => FlightInv'
<1> SUFFICES ASSUME TypeOK, ChunkInv, ProvenanceInv, FlightInv, [Next]_vars PROVE FlightInv'
  OBVIOUS
<1>g. AnsweredInv'
  BY AnsweredStep
<1>t. /\ written \in Nat
      /\ chunk \in [Thread -> Seq(Frame)]
      /\ input \in Seq(Frame)
      /\ modem \subseteq Request
      /\ verdict \subseteq [id : CallId, status : Status]
  BY DEF TypeOK
<1>1. CASE UNCHANGED <<input, chunk, modem, verdict>>
  BY <1>g, <1>1 DEF FlightInv
<1>2. ASSUME NEW t \in Thread, ReadInput(t), chunk[t] = <<>>, UNCHANGED <<modem, verdict>>
      PROVE  FlightInv'
  <2>1. PICK q \in Seq(Frame), n \in Nat : ReadSplit(t, q, n)
    BY <1>2, <1>t, ReadSplits DEF TypeOK
  <2>2. chunk'[t] = q /\ \A u \in Thread : u # t => chunk'[u] = chunk[u]
    BY <1>t, <2>1 DEF ReadSplit
  <2>4. \A i, j \in DOMAIN input' :
          input'[i].id \in CallId /\ input'[i].id = input'[j].id => i = j
    BY <2>1 DEF ReadSplit, FlightInv
  <2>5. \A u, v \in Thread : \A i \in DOMAIN chunk'[u], j \in DOMAIN chunk'[v] :
          chunk'[u][i].id \in CallId /\ chunk'[u][i].id = chunk'[v][j].id => u = v /\ i = j
    <3>1. \A i, j \in DOMAIN q : q[i].id \in CallId /\ q[i].id = q[j].id => i = j
      BY <2>1 DEF ReadSplit, FlightInv
    <3>2. \A i \in DOMAIN q, v \in Thread : \A j \in DOMAIN chunk[v] :
            q[i].id \in CallId => q[i].id # chunk[v][j].id
      BY <2>1 DEF ReadSplit, FlightInv
    <3> QED
      BY <2>2, <3>1, <3>2 DEF FlightInv
  <2>6. \A i \in DOMAIN input', v \in Thread : \A j \in DOMAIN chunk'[v] :
          input'[i].id \in CallId => input'[i].id # chunk'[v][j].id
    <3>1. \A i \in DOMAIN input', j \in DOMAIN q :
            input'[i].id \in CallId => input'[i].id # q[j].id
      BY <2>1 DEF ReadSplit, FlightInv
    <3>2. \A i \in DOMAIN input', v \in Thread : \A j \in DOMAIN chunk[v] :
            input'[i].id \in CallId => input'[i].id # chunk[v][j].id
      BY <2>1 DEF ReadSplit, FlightInv
    <3> QED
      BY <2>2, <3>1, <3>2
  <2> QED
    BY <1>g, <1>2, <2>4, <2>5, <2>6 DEF FlightInv
<1>3. ASSUME NEW s \in Sender, WriteCommand(s) PROVE FlightInv'
  <2>1. /\ modem' = modem \union {[id |-> written + 1, cmd |-> command[s]]}
        /\ UNCHANGED <<input, chunk, verdict>>
    BY <1>3 DEF WriteCommand
  <2>2. /\ \A r \in modem : r.id # written + 1
        /\ \A v \in verdict : v.id # written + 1
    BY <1>t DEF ProvenanceInv, Request
  <2> QED
    BY <1>g, <2>1, <2>2 DEF FlightInv
<1>4. ASSUME NEW t \in Thread, chunk' = [chunk EXCEPT ![t] = Tail(chunk[t])], chunk[t] # <<>>,
             UNCHANGED <<input, modem, verdict>>
      PROVE  FlightInv'
  <2>1. /\ chunk'[t] = Tail(chunk[t]) /\ \A u \in Thread : u # t => chunk'[u] = chunk[u]
        /\ \A i \in DOMAIN Tail(chunk[t]) : /\ i + 1 \in DOMAIN chunk[t] /\ i \in Nat
                                            /\ Tail(chunk[t])[i] = chunk[t][i + 1]
    BY <1>4, <1>t, SequenceElements
  <2>2. \A i, j \in DOMAIN Tail(chunk[t]) : i + 1 = j + 1 => i = j
    BY <2>1
  <2> QED
    BY <1>g, <1>4, <2>1, <2>2 DEF FlightInv
<1>5. ASSUME NEW t \in Thread, ReadResponse(t) \/ ReadMessage(t) PROVE FlightInv'
  BY <1>4, <1>5 DEF ReadResponse, ReadMessage, ParsesWell, FrameConsumed
<1>6. ASSUME NEW t \in Thread, ReadFails(t) PROVE FlightInv'
  <2>1. /\ chunk'[t] = <<>> /\ \A u \in Thread : u # t => chunk'[u] = chunk[u]
        /\ UNCHANGED <<input, modem, verdict>>
    BY <1>6, <1>t DEF ReadFails
  <2> QED
    BY <1>g, <2>1 DEF FlightInv
<1>7. ASSUME NEW st \in Status, ModemAnswer(st) PROVE FlightInv'
  <2>1. PICK r \in modem : ModemAnswer(st)!(r)
    BY <1>7 DEF ModemAnswer
  <2> DEFINE a == Answer(r.id, r.cmd, st)
  <2>2. /\ modem' = modem \ {r} /\ UNCHANGED chunk
        /\ verdict' = verdict \union {[id |-> r.id, status |-> st]}
        /\ input' = Append(input, a)
    BY <2>1
  <2>3. a \in Frame /\ a.id = r.id
    BY <1>t, FrameTypes DEF Request, Answer
  <2>4. \A i \in DOMAIN input' : \/ i = Len(input) + 1 /\ input'[i] = a
                                 \/ i \in DOMAIN input /\ input'[i] = input[i]
    BY <1>t, <2>2, <2>3
  <2>5. /\ \A i \in DOMAIN input : input[i].id \in CallId => input[i].id # r.id
        /\ \A t \in Thread : \A i \in DOMAIN chunk[t] : chunk[t][i].id \in CallId =>
             chunk[t][i].id # r.id
    BY DEF FlightInv, AnsweredInv, HasVerdict
  <2>6. IsFiniteSet(verdict')
    BY <2>2, FS_AddElement DEF FlightInv
  <2>7. /\ \A x, y \in modem' : x.id = y.id => x = y
        /\ \A x \in modem', v \in verdict' : v.id # x.id
    BY <2>2 DEF FlightInv
  <2>8. \A i, j \in DOMAIN input' :
          input'[i].id \in CallId /\ input'[i].id = input'[j].id => i = j
    BY <2>3, <2>4, <2>5 DEF FlightInv
  <2>9. \A i \in DOMAIN input', t \in Thread : \A j \in DOMAIN chunk[t] :
          input'[i].id \in CallId => input'[i].id # chunk[t][j].id
    BY <2>3, <2>4, <2>5 DEF FlightInv
  <2> QED
    BY <1>g, <2>2, <2>6, <2>7, <2>8, <2>9 DEF FlightInv
<1>8. CASE ModemLoses
  BY <1>g, <1>8 DEF ModemLoses, FlightInv
<1>9. CASE ModemSends
  <2>1. input' = Append(input, Message(emitted + 1)) /\ UNCHANGED <<chunk, modem, verdict>>
    BY <1>9 DEF ModemSends
  <2>2. Message(emitted + 1) \in Frame /\ Message(emitted + 1).id = 0
    BY FrameTypes DEF TypeOK, Message
  <2>3. \A i \in DOMAIN input' : input'[i].id \in CallId =>
          i \in DOMAIN input /\ input'[i] = input[i]
    BY <1>t, <2>1, <2>2
  <2> QED
    BY <1>g, <2>1, <2>3 DEF FlightInv
<1> QED
  BY FrameSteps, <1>1, <1>2, <1>3, <1>5, <1>6, <1>7, <1>8, <1>9
-----------------------------------------------------------------------------
(***************************************************************************)
(* The answers that ended a wait, and those that still can.                *)
(***************************************************************************)
\* Commands on their way are among the commands written.
LEMMA FlightFinite ==
  ASSUME TypeOK, ProvenanceInv, FlightInv
  PROVE  IsFiniteSet(InFlight) /\ Cardinality(InFlight) \in Nat
<1>1. InFlight \in SUBSET Nat /\ \A id \in InFlight : id <= written
  BY FlightGiven DEF InFlight
<1>2. written \in Nat
  BY DEF TypeOK
<1>3. IsFiniteSet(InFlight)
  BY <1>1, <1>2, FS_BoundedSetOfNaturals
<1> QED
  BY <1>3, FS_CardinalityType

\* Fewer answers on their way.
LEMMA FewerInFlight ==
  ASSUME TypeOK, ProvenanceInv, FlightInv, InFlight' \subseteq InFlight
  PROVE  /\ Cardinality(InFlight') \in Nat
         /\ Cardinality(InFlight') <= Cardinality(InFlight)
         /\ \A id \in InFlight \ InFlight' : Cardinality(InFlight') + 1 <= Cardinality(InFlight)
<1>1. IsFiniteSet(InFlight) /\ Cardinality(InFlight) \in Nat
  BY FlightFinite
<1>2. IsFiniteSet(InFlight') /\ Cardinality(InFlight') <= Cardinality(InFlight)
  BY <1>1, FS_Subset
<1>3. Cardinality(InFlight') \in Nat
  BY <1>2, FS_CardinalityType
<1>4. ASSUME NEW id \in InFlight \ InFlight'
      PROVE  Cardinality(InFlight') + 1 <= Cardinality(InFlight)
  <2>1. InFlight' \in SUBSET (InFlight \ {id})
    BY <1>4
  <2>2. /\ IsFiniteSet(InFlight \ {id})
        /\ Cardinality(InFlight \ {id}) = Cardinality(InFlight) - 1
    BY <1>1, <1>4, FS_RemoveElement
  <2>3. Cardinality(InFlight') <= Cardinality(InFlight \ {id})
    BY <2>1, <2>2, FS_Subset
  <2> QED
    BY <1>1, <1>3, <2>2, <2>3
<1> QED
  BY <1>2, <1>3, <1>4

\* A read of the port puts no answer on its way.
LEMMA ReadInFlight ==
  ASSUME TypeOK, NEW t \in Thread, ReadInput(t)
  PROVE  InFlight' \subseteq InFlight
<1>1. PICK q \in Seq(Frame), n \in Nat : ReadSplit(t, q, n)
  BY ReadSplits DEF TypeOK
<1>2. chunk'[t] = q /\ \A u \in Thread : u # t => chunk'[u] = chunk[u]
  BY <1>1 DEF ReadSplit, TypeOK
<1>3. ASSUME NEW id \in CallId, NEW u \in Thread, NEW i \in DOMAIN chunk'[u],
             chunk'[u][i].id = id
      PROVE  id \in InFlight
  BY <1>1, <1>2, <1>3 DEF ReadSplit, InFlight
<1>4. ASSUME NEW id \in CallId, NEW i \in DOMAIN input', input'[i].id = id
      PROVE  id \in InFlight
  BY <1>1, <1>4 DEF ReadSplit, InFlight
<1> QED
  BY <1>3, <1>4 DEF InFlight

\* The first frame of a chunk is gone, or all of it is.
LEMMA HeadGone ==
  ASSUME TypeOK, FlightInv, NEW t \in Thread, chunk[t] # <<>>,
         NEW q \in {<<>>, Tail(chunk[t])}, chunk' = [chunk EXCEPT ![t] = q], UNCHANGED input
  PROVE  /\ Head(chunk[t]) \in Frame
         /\ InFlight' \subseteq InFlight
         /\ Head(chunk[t]).id \in CallId => Head(chunk[t]).id \in InFlight \ InFlight'
<1>1. /\ chunk \in [Thread -> Seq(Frame)] /\ chunk[t] \in Seq(Frame)
      /\ 1 \in DOMAIN chunk[t] /\ Head(chunk[t]) = chunk[t][1] /\ chunk[t][1] \in Frame
  BY SequenceElements DEF TypeOK
<1>2. \A i \in DOMAIN q : /\ i + 1 \in DOMAIN chunk[t] /\ q[i] = chunk[t][i + 1]
                          /\ i + 1 # 1
  BY <1>1, SequenceElements, SMTT(30)
<1>3. chunk'[t] = q /\ \A u \in Thread : u # t => chunk'[u] = chunk[u]
  BY <1>1
<1>4. InFlight' \subseteq InFlight
  <2> SUFFICES ASSUME NEW id \in CallId, NEW u \in Thread, NEW i \in DOMAIN chunk'[u],
                      chunk'[u][i].id = id
               PROVE  \E j \in DOMAIN chunk[u] : chunk[u][j].id = id
    BY DEF InFlight
  <2> QED
    BY <1>2, <1>3
<1>5. ASSUME Head(chunk[t]).id \in CallId
      PROVE  Head(chunk[t]).id \in InFlight \ InFlight'
  <2>1. chunk[t][1].id \in InFlight
    BY <1>1, <1>5 DEF InFlight
  <2>2. \A i \in DOMAIN input : input[i].id # chunk[t][1].id
    BY <1>1, <1>5 DEF FlightInv
  <2>3. ASSUME NEW u \in Thread, NEW i \in DOMAIN chunk'[u]
        PROVE  chunk'[u][i].id # chunk[t][1].id
    <3>1. CASE u = t
      <4>1. chunk[t][i + 1].id = chunk[t][1].id => i + 1 = 1
        BY <1>1, <1>2, <1>3, <1>5, <3>1 DEF FlightInv
      <4> QED
        BY <1>2, <1>3, <3>1, <4>1
    <3>2. CASE u # t
      BY <1>1, <1>3, <1>5, <3>2 DEF FlightInv
    <3> QED
      BY <3>1, <3>2
  <2>4. chunk[t][1].id \notin InFlight'
    BY <2>2, <2>3 DEF InFlight
  <2> QED
    BY <1>1, <2>1, <2>4
<1> QED
  BY <1>1, <1>4, <1>5

\* A step that reads and answers nothing.
LEMMA SameCredit ==
  ASSUME TypeOK, ProvenanceInv, FlightInv, CreditInv, UNCHANGED <<verdict, state>>,
         InFlight' \subseteq InFlight,
         Spent' = Spent, Spent \in Nat, Cardinality(verdict) \in Nat
  PROVE  CreditInv'
<1>1. /\ Cardinality(InFlight') \in Nat /\ Cardinality(InFlight') <= Cardinality(InFlight)
      /\ Cardinality(InFlight) \in Nat
  BY FewerInFlight, FlightFinite
<1> QED
  BY <1>1 DEF CreditInv, One

\* A signal, and a read that throws, use up the answer that was read or one left in
\* the buffer before.
LEMMA CreditStep ==
  TypeOK /\ LockInv /\ ChunkInv /\ ProvenanceInv /\ FlightInv /\ CreditInv /\ [Next]_vars
    => CreditInv'
<1> SUFFICES ASSUME TypeOK, LockInv, ChunkInv, ProvenanceInv, FlightInv, CreditInv, [Next]_vars
             PROVE  CreditInv'
  OBVIOUS
<1>t. /\ pc \in [Thread -> {"idle", "lockThis", "lockPort", "read", "reading", "queue",
                            "write", "waiting", "answered"}]
      /\ taken \in Nat /\ receivedAck \in BOOLEAN
      /\ Cardinality(verdict) \in Nat /\ Cardinality(InFlight) \in Nat
      /\ Spent \in Nat
  BY FlightFinite, FS_CardinalityType, SMTT(30) DEF TypeOK, FlightInv, Spent, One
<1>1. ASSUME NEW s \in Sender, NEW c \in Command, Call(s, c) PROVE CreditInv'
  <2>1. UNCHANGED <<input, chunk, verdict, state, taken, receivedAck>>
    BY <1>1 DEF Call
  <2>2. SomeAnswered' = SomeAnswered
    BY <1>1, <1>t DEF Call, SomeAnswered
  <2> QED
    BY <1>t, <2>1, <2>2, SameCredit DEF Spent, InFlight
<1>2. ASSUME NEW s \in Sender, LockThis(s) \/ WriteCommand(s) \/ WaitTimeout(s) PROVE CreditInv'
  <2>1. UNCHANGED <<input, chunk, verdict, state, taken, receivedAck>>
    BY <1>2 DEF LockThis, WriteCommand, WaitTimeout
  <2>2. SomeAnswered' = SomeAnswered
    BY <1>2, <1>t DEF LockThis, WriteCommand, WaitTimeout, SomeAnswered
  <2> QED
    BY <1>t, <2>1, <2>2, SameCredit DEF Spent, InFlight
<1>3. ASSUME NEW s \in Sender, WaitSignalled(s) PROVE CreditInv'
  <2>1. UNCHANGED <<input, chunk, verdict, state, taken>> /\ receivedAck /\ ~receivedAck'
    BY <1>3 DEF WaitSignalled, AutoReset
  <2>2. ~SomeAnswered /\ SomeAnswered'
    BY <1>3, <1>t DEF WaitSignalled, LockInv, SomeAnswered
  <2>3. Spent' = Spent
    BY <1>t, <2>1, <2>2 DEF Spent, One
  <2> QED
    BY <1>t, <2>1, <2>3, SameCredit DEF InFlight
<1>4. ASSUME NEW s \in Sender, ReturnResponse(s) PROVE CreditInv'
  <2>1. UNCHANGED <<input, chunk, verdict, state, receivedAck>> /\ taken' = taken + 1
    BY <1>4 DEF ReturnResponse
  <2>2. SomeAnswered /\ ~SomeAnswered'
    BY <1>4, <1>t DEF ReturnResponse, LockInv, SomeAnswered
  <2>3. Spent' = Spent
    BY <1>t, <2>1, <2>2 DEF Spent, One
  <2> QED
    BY <1>t, <2>1, <2>3, SameCredit DEF InFlight
<1>5. ASSUME NEW t \in Thread, ReadInput(t) PROVE CreditInv'
  <2>1. InFlight' \subseteq InFlight
    BY <1>5, ReadInFlight
  <2>2. SomeAnswered' = SomeAnswered
    BY <1>5, <1>t, ReadKeeps DEF AfterRead, SomeAnswered
  <2>3. UNCHANGED <<verdict, state, taken, receivedAck>>
    BY <1>5, ReadKeeps
  <2>4. Spent' = Spent
    BY <2>2, <2>3 DEF Spent
  <2> QED
    BY <1>t, <2>1, <2>3, <2>4, SameCredit
<1>6. ASSUME NEW s \in Sender, ClearInput(s) PROVE CreditInv'
  <2>1. UNCHANGED <<input, chunk, verdict, state, taken, receivedAck>>
    BY <1>6 DEF ClearInput
  <2>2. SomeAnswered' = SomeAnswered
    BY <1>6, <1>t DEF ClearInput, SomeAnswered
  <2> QED
    BY <1>t, <2>1, <2>2, SameCredit DEF Spent, InFlight
<1>8. CASE ReaderStep
  <2>1. UNCHANGED <<input, chunk, verdict, state, taken, receivedAck>>
    BY <1>8 DEF ReaderStep, DataReceived, ReaderLockPort
  <2>2. SomeAnswered' = SomeAnswered
    BY <1>8, <1>t DEF ReaderStep, DataReceived, ReaderLockPort, SomeAnswered
  <2> QED
    BY <1>t, <2>1, <2>2, SameCredit DEF Spent, InFlight
<1>9. ASSUME NEW t \in Thread, ReadResponse(t) PROVE CreditInv'
  <2>1. /\ chunk[t] # <<>> /\ chunk' = [chunk EXCEPT ![t] = Tail(chunk[t])]
        /\ state' = "START" /\ receivedAck' = TRUE
        /\ UNCHANGED <<pc, input, verdict, taken>>
    BY <1>9 DEF ReadResponse, ParsesWell, FrameConsumed
  <2>2. /\ Head(chunk[t]) \in Frame /\ InFlight' \subseteq InFlight
        /\ Head(chunk[t]).id \in CallId => Head(chunk[t]).id \in InFlight \ InFlight'
    BY <2>1, HeadGone
  <2>3. state = "START" => Head(chunk[t]).id \in CallId
    BY <1>9, <2>2 DEF ReadResponse, Responds, Frame
  <2>4. Cardinality(InFlight') \in Nat
        /\ Cardinality(InFlight') + One(state # "START")' + 1
             <= Cardinality(InFlight) + One(state # "START")
    <3>1. CASE state = "START"
      BY <1>t, <2>1, <2>2, <2>3, <3>1, FewerInFlight DEF One
    <3>2. CASE state # "START"
      BY <1>t, <2>1, <2>2, <3>2, FewerInFlight DEF One
    <3> QED
      BY <3>1, <3>2
  <2>5. Spent' \in Nat /\ Spent' <= Spent + 1
    BY <1>t, <2>1 DEF Spent, One, SomeAnswered
  <2>6. UNCHANGED verdict
    BY <2>1
  <2> QED
    BY <1>t, <2>4, <2>5, <2>6 DEF CreditInv, One
<1>10. ASSUME NEW t \in Thread, ReadMessage(t) PROVE CreditInv'
  <2>1. /\ chunk[t] # <<>> /\ chunk' = [chunk EXCEPT ![t] = Tail(chunk[t])]
        /\ state' = "START" /\ UNCHANGED <<pc, receivedAck, input, verdict, taken>>
    BY <1>10 DEF ReadMessage, ParsesWell, FrameConsumed
  <2>2. InFlight' \subseteq InFlight
    BY <2>1, HeadGone
  <2>3. One(state # "START")' <= One(state # "START")
    BY <2>1 DEF One
  <2>4. Spent' = Spent
    BY <2>1 DEF Spent, SomeAnswered
  <2>5. Cardinality(InFlight') \in Nat /\ Cardinality(InFlight') <= Cardinality(InFlight)
    BY <2>2, FewerInFlight
  <2> QED
    BY <1>t, <2>1, <2>3, <2>4, <2>5 DEF CreditInv, One
<1>11. ASSUME NEW t \in Thread, ReadFails(t) PROVE CreditInv'
  <2>1. /\ chunk[t] # <<>> /\ chunk' = [chunk EXCEPT ![t] = <<>>]
        /\ state' = "MESSAGE_DATA" /\ UNCHANGED <<receivedAck, input, verdict, taken>>
    BY <1>11 DEF ReadFails, StateAfterThrow
  <2>2. /\ Head(chunk[t]) \in Frame /\ InFlight' \subseteq InFlight
        /\ Head(chunk[t]).id \in CallId => Head(chunk[t]).id \in InFlight \ InFlight'
    BY <2>1, HeadGone
  <2>3. state = "START" => Head(chunk[t]).id \in CallId
    BY <1>11, <2>2 DEF ReadFails, ParsesWell, CastFails, Frame
  <2>4. /\ Cardinality(InFlight') \in Nat
        /\ Cardinality(InFlight') + One(state # "START")'
             <= Cardinality(InFlight) + One(state # "START")
    <3>1. CASE state = "START"
      BY <1>t, <2>1, <2>2, <2>3, <3>1, FewerInFlight DEF One
    <3>2. CASE state # "START"
      BY <1>t, <2>1, <2>2, <3>2, FewerInFlight DEF One
    <3> QED
      BY <3>1, <3>2
  <2>5. SomeAnswered' = SomeAnswered
    BY <1>11, <1>t DEF ReadFails, SomeAnswered
  <2>6. Spent' = Spent
    BY <2>1, <2>5 DEF Spent
  <2> QED
    BY <1>t, <2>1, <2>4, <2>6 DEF CreditInv, One
<1>12. ASSUME NEW t \in Thread, EndRead(t) \/ QueueBatch(t) PROVE CreditInv'
  <2>1. UNCHANGED <<input, chunk, verdict, state, taken, receivedAck>>
    BY <1>12 DEF EndRead, QueueBatch
  <2>2. SomeAnswered' = SomeAnswered
    BY <1>12, <1>t DEF EndRead, QueueBatch, SomeAnswered
  <2> QED
    BY <1>t, <2>1, <2>2, SameCredit DEF Spent, InFlight
<1>13. ASSUME NEW st \in Status, ModemAnswer(st) PROVE CreditInv'
  <2>1. PICK r \in modem : ModemAnswer(st)!(r)
    BY <1>13 DEF ModemAnswer
  <2> DEFINE a == Answer(r.id, r.cmd, st)
             v == [id |-> r.id, status |-> st]
  <2>2. /\ verdict' = verdict \union {v} /\ input' = Append(input, a)
        /\ UNCHANGED <<chunk, pc, receivedAck, taken, state>>
    BY <2>1
  <2>3. v \notin verdict
    BY DEF FlightInv
  <2>4. Cardinality(verdict') = Cardinality(verdict) + 1
    BY <2>2, <2>3, FS_AddElement DEF FlightInv
  <2>5. a \in Frame /\ a.id = r.id /\ input \in Seq(Frame)
    BY FrameTypes DEF Request, Answer, TypeOK
  <2>6. InFlight' \subseteq InFlight \union {r.id}
    <3>1. \A i \in DOMAIN input' : \/ input'[i] = a
                                   \/ i \in DOMAIN input /\ input'[i] = input[i]
      BY <2>2, <2>5, SequenceElements
    <3> QED
      BY <2>2, <2>5, <3>1 DEF InFlight
  <2>7. Cardinality(InFlight') \in Nat /\ Cardinality(InFlight') <= Cardinality(InFlight) + 1
    <3>1. /\ IsFiniteSet(InFlight \union {r.id})
          /\ Cardinality(InFlight \union {r.id}) <= Cardinality(InFlight) + 1
      <4>1. IsFiniteSet(InFlight)
        BY FlightFinite
      <4>2. CASE r.id \in InFlight
        <5> DEFINE F == InFlight \union {r.id}
        <5>1. F = InFlight
          BY <4>2
        <5>2. IsFiniteSet(F) /\ Cardinality(F) = Cardinality(InFlight)
          BY <4>1, <5>1
        <5> QED
          BY <1>t, <5>2
      <4>3. CASE r.id \notin InFlight
        <5>1. /\ IsFiniteSet(InFlight \union {r.id})
              /\ Cardinality(InFlight \union {r.id}) = Cardinality(InFlight) + 1
          BY <4>1, <4>3, FS_AddElement
        <5> QED
          BY <1>t, <5>1
      <4> QED
        BY <4>2, <4>3
    <3>2. /\ IsFiniteSet(InFlight')
          /\ Cardinality(InFlight') <= Cardinality(InFlight \union {r.id})
      BY <2>6, <3>1, FS_Subset
    <3> QED
      BY <1>t, <3>1, <3>2, FS_CardinalityType
  <2>8. Spent' = Spent
    BY <2>2 DEF Spent, SomeAnswered
  <2>9. UNCHANGED state
    BY <2>2
  <2> QED
    BY <1>t, <2>4, <2>7, <2>8, <2>9 DEF CreditInv, One
<1>14. CASE ModemLoses \/ PoolStep
  BY <1>t, <1>14, SameCredit
     DEF ModemLoses, PoolStep, DeliverMessage, Spent, InFlight, SomeAnswered
<1>15. CASE ModemSends
  <2>1. /\ input' = Append(input, Message(emitted + 1))
        /\ UNCHANGED <<chunk, pc, receivedAck, taken, state, verdict>>
    BY <1>15 DEF ModemSends
  <2>2. Message(emitted + 1) \in Frame /\ Message(emitted + 1).id = 0 /\ input \in Seq(Frame)
    BY FrameTypes DEF TypeOK, Message
  <2>3. \A i \in DOMAIN input' : input'[i].id \in CallId =>
          i \in DOMAIN input /\ input'[i] = input[i]
    BY <2>1, <2>2, SequenceElements
  <2>4. InFlight' \subseteq InFlight
    BY <2>1, <2>3 DEF InFlight
  <2> QED
    BY <1>t, <2>1, <2>4, SameCredit DEF Spent, SomeAnswered
<1>16. CASE Quiescent \/ UNCHANGED vars
  BY <1>t, <1>16, SameCredit DEF Quiescent, vars, Spent, InFlight, SomeAnswered
<1> QED
  BY <1>1, <1>2, <1>3, <1>4, <1>5, <1>6, <1>8, <1>9, <1>10, <1>11, <1>12, <1>13, <1>14,
     <1>15, <1>16 DEF Next, SenderStep, ReadStep, ModemStep

\* Nothing is on its way when the port is opened.
LEMMA CreditInit == Init => ChunkInv /\ FlightInv /\ CreditInv
<1> SUFFICES ASSUME Init PROVE ChunkInv /\ FlightInv /\ CreditInv
  OBVIOUS
<1>1. ChunkInv
  BY DEF Init, ChunkInv
<1>2. FlightInv
  BY FS_EmptySet DEF Init, FlightInv, AnsweredInv
<1>3. InFlight = {} /\ verdict = {}
  BY DEF Init, InFlight
<1>4. Spent = 0
  BY DEF Init, Spent, One, SomeAnswered
<1> QED
  BY <1>1, <1>2, <1>3, <1>4, FS_EmptySet DEF Init, CreditInv, One

\* As long as no read has thrown: an answer that has ended a wait, or is about to, is
\* not on its way any more, and no two waits were ended by the same one.
EndedInv ==
  ~aborted =>
    /\ state = "START"
    /\ receivedAck => /\ signal \notin InFlight /\ HasVerdict(signal)
                      /\ \A e \in ended : e.answer # signal
    /\ \A e \in ended : e.answer \notin InFlight /\ HasVerdict(e.answer)
    /\ \A e, f \in ended : e.answer = f.answer => e = f

\* Each step of the link keeps apart the answers that ended waits, the one that set
\* the event and those in flight, as long as no read has thrown.
LEMMA EndedStep ==
  TypeOK /\ ChunkInv /\ FlightInv /\ EndedInv /\ [Next]_vars => EndedInv'
<1> SUFFICES ASSUME TypeOK, ChunkInv, FlightInv, EndedInv, [Next]_vars, ~aborted'
             PROVE  /\ state' = "START"
                    /\ receivedAck' => /\ signal' \notin InFlight' /\ HasVerdict(signal)'
                                       /\ \A e \in ended' : e.answer # signal'
                    /\ \A e \in ended' : e.answer \notin InFlight' /\ HasVerdict(e.answer)'
                    /\ \A e, f \in ended' : e.answer = f.answer => e = f
  BY DEF EndedInv
<1> DEFINE Goal ==
      /\ state' = "START"
      /\ receivedAck' => /\ signal' \notin InFlight' /\ HasVerdict(signal)'
                         /\ \A e \in ended' : e.answer # signal'
      /\ \A e \in ended' : e.answer \notin InFlight' /\ HasVerdict(e.answer)'
      /\ \A e, f \in ended' : e.answer = f.answer => e = f
<1>1. ASSUME UNCHANGED <<state, receivedAck, signal, ended, aborted>>,
             InFlight' \subseteq InFlight, verdict \subseteq verdict'
      PROVE  Goal
  <2>1. \A id : HasVerdict(id) => HasVerdict(id)'
    BY <1>1 DEF HasVerdict
  <2>2. HasVerdict(signal)' <=> \E v \in verdict' : v.id = signal'
    BY DEF HasVerdict
  <2> QED
    BY <1>1, <2>1, <2>2 DEF EndedInv, HasVerdict
<1>2. ASSUME UNCHANGED <<input, chunk, verdict, state, receivedAck, signal, ended, aborted>>
      PROVE  Goal
  BY <1>1, <1>2 DEF InFlight
<1>3. ASSUME NEW s \in Sender, NEW c \in Command, Call(s, c) PROVE Goal
  BY <1>2, <1>3 DEF Call
<1>4. ASSUME NEW s \in Sender,
             \/ LockThis(s) \/ ClearInput(s) \/ WriteCommand(s) \/ ReturnResponse(s)
             \/ WaitTimeout(s)
      PROVE  Goal
  BY <1>2, <1>4 DEF LockThis, ClearInput, WriteCommand, ReturnResponse, WaitTimeout
<1>5. ASSUME NEW s \in Sender, WaitSignalled(s) PROVE Goal
  <2> DEFINE w == [call |-> call[s], answer |-> signal]
  <2>1. /\ receivedAck /\ ~receivedAck' /\ ended' = ended \union {w}
        /\ UNCHANGED <<input, chunk, verdict, state, signal, aborted>>
    BY <1>5 DEF WaitSignalled, AutoReset
  <2>2. w.answer = signal /\ InFlight' = InFlight
    BY <2>1 DEF InFlight
  <2>3. ~aborted
    BY <2>1
  <2> HIDE DEF w
  <2> QED
    BY <2>1, <2>2, <2>3 DEF EndedInv, HasVerdict
<1>6. CASE ReaderStep
  <2>1. Goal
    BY <1>2, <1>6 DEF ReaderStep, DataReceived, ReaderLockPort
  <2> QED
    BY <2>1
<1>7. ASSUME NEW t \in Thread, ReadInput(t) PROVE Goal
  <2>1. UNCHANGED <<state, receivedAck, signal, ended, aborted, verdict>>
    BY <1>7, ReadKeeps
  <2> QED
    BY <1>1, <1>7, <2>1, ReadInFlight
<1>8. ASSUME NEW t \in Thread, ReadResponse(t) PROVE Goal
  <2> DEFINE f == Head(chunk[t])
  <2>1. /\ chunk[t] # <<>> /\ chunk' = [chunk EXCEPT ![t] = Tail(chunk[t])]
        /\ state' = "START" /\ UNCHANGED <<input, verdict, ended, aborted>>
    BY <1>8 DEF ReadResponse, ParsesWell, FrameConsumed
  <2>2. ~aborted /\ state = "START"
    BY <2>1 DEF EndedInv
  <2>3. signal' = f.id /\ f.event = 0
    BY <1>8, <2>2 DEF ReadResponse, Completed, Responds
  <2>4. /\ f \in Frame /\ InFlight' \subseteq InFlight
        /\ f.id \in CallId => f.id \in InFlight \ InFlight'
    BY <2>1, HeadGone
  <2>5. f.id \in CallId
    BY <2>3, <2>4 DEF Frame
  <2>6. HasVerdict(f.id)
    BY <2>4, <2>5, FlightAnswered
  <2>7. \A e \in ended : e.answer # f.id /\ HasVerdict(e.answer) /\ e.answer \notin InFlight'
    BY <2>2, <2>4, <2>5 DEF EndedInv
  <2> HIDE DEF f
  <2>8. HasVerdict(signal)' /\ \A id : HasVerdict(id) => HasVerdict(id)'
    BY <2>1, <2>3, <2>6 DEF HasVerdict
  <2>9. \A e, g \in ended : e.answer = g.answer => e = g
    BY <2>2 DEF EndedInv
  <2> QED
    BY <2>1, <2>3, <2>4, <2>5, <2>7, <2>8, <2>9
<1>9. ASSUME NEW t \in Thread, ReadMessage(t) PROVE Goal
  <2>1. /\ chunk[t] # <<>> /\ chunk' = [chunk EXCEPT ![t] = Tail(chunk[t])]
        /\ state' = "START" /\ UNCHANGED <<input, verdict, receivedAck, signal, ended, aborted>>
    BY <1>9 DEF ReadMessage, ParsesWell, FrameConsumed
  <2>2. state = "START" /\ InFlight' \subseteq InFlight
    BY <2>1, HeadGone DEF EndedInv
  <2> QED
    BY <1>1, <2>1, <2>2
<1>10. ASSUME NEW t \in Thread, ReadFails(t) PROVE Goal
  BY <1>10 DEF ReadFails
<1>11. ASSUME NEW t \in Thread, EndRead(t) \/ QueueBatch(t) PROVE Goal
  BY <1>2, <1>11 DEF EndRead, QueueBatch
<1>12. ASSUME NEW st \in Status, ModemAnswer(st) PROVE Goal
  <2>1. PICK r \in modem : ModemAnswer(st)!(r)
    BY <1>12 DEF ModemAnswer
  <2> DEFINE a == Answer(r.id, r.cmd, st)
  <2>2. /\ verdict' = verdict \union {[id |-> r.id, status |-> st]} /\ input' = Append(input, a)
        /\ UNCHANGED <<chunk, state, receivedAck, signal, ended, aborted>>
    BY <2>1
  <2>3. a \in Frame /\ a.id = r.id /\ input \in Seq(Frame)
    BY FrameTypes DEF Request, Answer, TypeOK
  <2>4. InFlight' \subseteq InFlight \union {r.id}
    <3>1. \A i \in DOMAIN input' : \/ input'[i] = a
                                   \/ i \in DOMAIN input /\ input'[i] = input[i]
      BY <2>2, <2>3, SequenceElements
    <3> QED
      BY <2>2, <2>3, <3>1 DEF InFlight
  <2>5. ~HasVerdict(r.id)
    BY DEF FlightInv, HasVerdict
  <2> HIDE DEF a
  <2>6. \A id : HasVerdict(id) => HasVerdict(id)' /\ id # r.id
    BY <2>2, <2>5 DEF HasVerdict
  <2>7. \A id : HasVerdict(id) /\ id \notin InFlight => id \notin InFlight' /\ HasVerdict(id)'
    BY <2>4, <2>6
  <2>8. ~aborted /\ (HasVerdict(signal)' <=> \E v \in verdict' : v.id = signal)
    BY <2>2 DEF HasVerdict
  <2> QED
    BY <2>2, <2>7, <2>8 DEF EndedInv, HasVerdict
<1>13. ASSUME ModemSends PROVE Goal
  <2>1. /\ input' = Append(input, Message(emitted + 1))
        /\ UNCHANGED <<chunk, state, verdict, receivedAck, signal, ended, aborted>>
    BY <1>13 DEF ModemSends
  <2>2. Message(emitted + 1) \in Frame /\ Message(emitted + 1).id = 0 /\ input \in Seq(Frame)
    BY FrameTypes DEF TypeOK, Message
  <2>3. \A i \in DOMAIN input' : input'[i].id \in CallId =>
          i \in DOMAIN input /\ input'[i] = input[i]
    BY <2>1, <2>2, SequenceElements
  <2>4. InFlight' \subseteq InFlight
    BY <2>1, <2>3 DEF InFlight
  <2> QED
    BY <1>1, <2>1, <2>4
<1>14. ASSUME PoolStep \/ ModemLoses \/ Quiescent \/ UNCHANGED vars PROVE Goal
  BY <1>2, <1>14 DEF PoolStep, DeliverMessage, ModemLoses, Quiescent, vars
<1> QED
  BY <1>3, <1>4, <1>5, <1>6, <1>7, <1>8, <1>9, <1>10, <1>11, <1>12, <1>13, <1>14
     DEF Next, SenderStep, ReadStep, ModemStep

\* What is spent was answered.
LEMMA CreditAnswers ==
  TypeOK /\ LockInv /\ ProvenanceInv /\ FlightInv /\ CreditInv /\ EndedInv => AnswersEndOneWait
<1> SUFFICES ASSUME TypeOK, LockInv, ProvenanceInv, FlightInv, CreditInv, EndedInv
             PROVE  AnswersEndOneWait
  OBVIOUS
<1> DEFINE A == {s \in Sender : pc[s] = "answered"}
<1>1. IF SomeAnswered THEN Cardinality(A) = 1 ELSE Cardinality(A) = 0
  <2>1. CASE SomeAnswered
    <3>1. PICK s \in Sender : pc[s] = "answered"
      BY <2>1 DEF SomeAnswered
    <3>2. A = {s}
      BY <3>1 DEF LockInv
    <3> QED
      BY <2>1, <3>2, FS_Singleton
  <2>2. CASE ~SomeAnswered
    <3>1. A = {}
      BY <2>2 DEF SomeAnswered
    <3> QED
      BY <2>2, <3>1, FS_EmptySet
  <2> QED
    BY <2>1, <2>2
<1>2. taken \in Nat /\ Cardinality(InFlight) \in Nat /\ Cardinality(verdict) \in Nat
  BY FlightFinite, FS_CardinalityType DEF TypeOK, FlightInv
<1> HIDE DEF A
<1>3. taken + One(receivedAck) + Cardinality(A) <= Cardinality(verdict)
  BY <1>1, <1>2 DEF CreditInv, Spent, One
<1>4. /\ taken + (IF receivedAck THEN 1 ELSE 0) + Cardinality(A) <= Cardinality(verdict)
      /\ ~aborted => \A e, f \in ended : e.answer = f.answer => e = f
  BY <1>3 DEF One, EndedInv
<1> QED
  BY <1>4 DEF AnswersEndOneWait, A
-----------------------------------------------------------------------------
(***************************************************************************)
(* What a caller gets, and who holds lock(this).                           *)
(***************************************************************************)
\* After a signal, sendingResponse is a response that the modem has given, or that of
\* an answer whose payload does not match or which is cut.
ResponseSeen ==
  receivedAck \/ SomeAnswered =>
    sendingResponse \in {ResponseTo[v.status] : v \in verdict} \union {"Invalid", "Unknown"}

\* Who holds lock(this) is in SendCommand, and has no result before its return; the
\* modem's messages are within their bound.
HolderInv ==
  /\ \A s \in Sender : thisLock = s =>
       pc[s] \in {"lockPort", "read", "reading", "queue", "write", "waiting", "answered"}
  /\ \A s \in Sender : pc[s] # "idle" => result[s] = "none"
  /\ emitted <= MaxEvents

\* sendingResponse is read only after a signal: one step keeps it such a response.
LEMMA SeenStep ==
  TypeOK /\ ProvenanceInv /\ ResponseSeen /\ [Next]_vars => ResponseSeen'
<1> SUFFICES ASSUME TypeOK, ProvenanceInv, ResponseSeen, [Next]_vars PROVE ResponseSeen'
  OBVIOUS
<1> USE DEF ResponseSeen, SomeAnswered
<1>t. pc \in [Thread -> {"idle", "lockThis", "lockPort", "read", "reading", "queue",
                         "write", "waiting", "answered"}]
  BY DEF TypeOK
<1>1. ASSUME UNCHANGED <<receivedAck, sendingResponse>>, verdict \subseteq verdict',
             \A s \in Sender : pc'[s] = "answered" => pc[s] = "answered"
      PROVE  ResponseSeen'
  BY <1>1
<1>2. ASSUME NEW s \in Sender, NEW c \in Command, Call(s, c) PROVE ResponseSeen'
  BY <1>1, <1>2, <1>t DEF Call
<1>3. ASSUME NEW s \in Sender,
             \/ LockThis(s) \/ ClearInput(s) \/ WriteCommand(s)
             \/ ReturnResponse(s) \/ WaitTimeout(s)
      PROVE  ResponseSeen'
  BY <1>1, <1>3, <1>t DEF LockThis, ClearInput, WriteCommand, ReturnResponse, WaitTimeout
<1>4. ASSUME NEW s \in Sender, WaitSignalled(s) PROVE ResponseSeen'
  BY <1>4, <1>t DEF WaitSignalled
<1>5. CASE ReaderStep
  BY <1>1, <1>5, <1>t DEF ReaderStep, DataReceived, ReaderLockPort
<1>r. ASSUME NEW t \in Thread, ReadInput(t) PROVE ResponseSeen'
  BY <1>1, <1>r, <1>t, ReadKeeps DEF AfterRead
<1>6. ASSUME NEW t \in Thread, ReadResponse(t) PROVE ResponseSeen'
  <2> DEFINE f == Completed(Head(chunk[t]))
  <2>1. /\ sending.cmd \in Command /\ ParsesWell(t) /\ FrameConsumed(t)
        /\ sendingResponse' = VerifyResponse(sending.cmd, f) /\ UNCHANGED verdict
    BY <1>6 DEF ReadResponse, Responds, TypeOK, Request
  <2>2. IsGiven(f)
    BY <2>1, ConsumedFrames DEF Completed, ProvenanceInv
  <2>3. CASE f.cmd = sending.cmd
    <3>1. sendingResponse' = ResponseTo[f.status]
      BY <2>1, <2>3 DEF VerifyResponse
    <3>2. CASE f.status \in Status
      <4>1. [id |-> f.id, status |-> f.status] \in verdict
        BY <2>2, <3>2 DEF IsGiven
      <4> QED
        BY <2>1, <3>1, <4>1
    <3>3. CASE f.status \in CutStatus
      BY <3>1, <3>3 DEF ResponseTo, CutStatus, Status
    <3>4. f.status \in FrameStatus
      <4>0. Head(chunk[t]) \in Frame
        BY <2>1, ConsumedFrames, SequenceTypes
      <4>1. f \in Frame \union {NullData, EmptyData}
        BY <4>0 DEF Completed, TypeOK
      <4> QED
        BY <2>1, <2>3, <4>1 DEF Frame, NullData, EmptyData
    <3> QED
      BY <3>2, <3>3, <3>4 DEF FrameStatus
  <2>4. CASE f.cmd # sending.cmd
    BY <2>1, <2>4 DEF VerifyResponse
  <2> QED
    BY <2>3, <2>4
<1>7. ASSUME NEW t \in Thread, ReadMessage(t) \/ EndRead(t) \/ QueueBatch(t) PROVE ResponseSeen'
  BY <1>1, <1>7, <1>t DEF ReadMessage, EndRead, QueueBatch
<1>8. ASSUME NEW t \in Thread, ReadFails(t) PROVE ResponseSeen'
  BY <1>1, <1>8, <1>t DEF ReadFails
<1>9. CASE PoolStep \/ ModemStep
  BY <1>1, <1>9 DEF PoolStep, DeliverMessage, ModemStep, ModemAnswer, ModemLoses, ModemSends
<1>10. CASE Quiescent \/ UNCHANGED vars
  BY <1>1, <1>10 DEF Quiescent, vars
<1> QED
  BY <1>2, <1>3, <1>4, <1>5, <1>r, <1>6, <1>7, <1>8, <1>9, <1>10
     DEF Next, SenderStep, ReadStep

\* lock(this) is released with the return of SendCommand, and by no one else.
LEMMA HolderStep ==
  TypeOK /\ LockInv /\ HolderInv /\ [Next]_vars => HolderInv'
<1> SUFFICES ASSUME TypeOK, LockInv, HolderInv, [Next]_vars PROVE HolderInv'
  OBVIOUS
<1> USE DEF HolderInv
<1>t. /\ pc \in [Thread -> {"idle", "lockThis", "lockPort", "read", "reading", "queue",
                            "write", "waiting", "answered"}]
      /\ result \in [Sender -> Outcome]
      /\ emitted \in Nat
  BY DEF TypeOK
<1>1. ASSUME NEW s \in Sender, NEW c \in Command, Call(s, c) PROVE HolderInv'
  BY <1>1, <1>t DEF Call
<1>2. ASSUME NEW s \in Sender, LockThis(s) PROVE HolderInv'
  BY <1>2, <1>t DEF LockThis
<1>3. ASSUME NEW s \in Sender, ClearInput(s) \/ WriteCommand(s) \/ WaitSignalled(s)
      PROVE  HolderInv'
  BY <1>3, <1>t DEF ClearInput, WriteCommand, WaitSignalled
<1>4. ASSUME NEW s \in Sender, ReturnResponse(s) \/ WaitTimeout(s) PROVE HolderInv'
  BY <1>4, <1>t DEF ReturnResponse, WaitTimeout
<1>5. CASE ReaderStep
  BY <1>5, <1>t DEF ReaderStep, DataReceived, ReaderLockPort
<1>r. ASSUME NEW t \in Thread, ReadInput(t) PROVE HolderInv'
  BY <1>r, <1>t, ReadKeeps DEF AfterRead
<1>6. ASSUME NEW t \in Thread, ReadResponse(t) \/ ReadMessage(t) PROVE HolderInv'
  BY <1>6, <1>t DEF ReadResponse, ReadMessage
<1>7. ASSUME NEW t \in Thread, ReadFails(t) PROVE HolderInv'
  BY <1>7, <1>t DEF ReadFails
<1>8. ASSUME NEW t \in Thread, EndRead(t) \/ QueueBatch(t) PROVE HolderInv'
  BY <1>8, <1>t DEF EndRead, QueueBatch
<1>9. CASE PoolStep
  BY <1>9 DEF PoolStep, DeliverMessage
<1>10. CASE ModemStep
  BY <1>10, <1>t, BoundAssumption DEF ModemStep, ModemAnswer, ModemLoses, ModemSends
<1>11. CASE Quiescent \/ UNCHANGED vars
  BY <1>11 DEF Quiescent, vars
<1> QED
  BY <1>1, <1>2, <1>3, <1>4, <1>5, <1>r, <1>6, <1>7, <1>8, <1>9, <1>10, <1>11
     DEF Next, SenderStep, ReadStep
-----------------------------------------------------------------------------
(***************************************************************************)
(* The messages of the modem's own.                                        *)
(***************************************************************************)
InChunk == UNION {EventsIn(chunk[t]) : t \in Thread}
InBatch == UNION {Elements(batch[t]) : t \in Thread}
InPool  == UNION {Elements(b) : b \in pool}

\* Every message of the modem is somewhere.
KnownInv == EventsIn(input) \union InChunk \union InBatch \union InPool
              \union Elements(delivered) \union lost = 1..emitted

\* No message is in two places of different kinds ...
ApartInv ==
  /\ EventsIn(input) \intersect
       (InChunk \union InBatch \union InPool \union Elements(delivered) \union lost) = {}
  /\ InChunk \intersect (InBatch \union InPool \union Elements(delivered) \union lost) = {}
  /\ InBatch \intersect (InPool \union Elements(delivered) \union lost) = {}
  /\ InPool \intersect (Elements(delivered) \union lost) = {}
  /\ Elements(delivered) \intersect lost = {}

\* ... or in two of the same kind.
OnceInv ==
  /\ \A i, j \in DOMAIN input : input[j].event # 0 /\ input[i].event = input[j].event => i = j
  /\ \A t, u \in Thread : \A i \in DOMAIN chunk[t], j \in DOMAIN chunk[u] :
       chunk[t][i].event # 0 /\ chunk[t][i].event = chunk[u][j].event => t = u /\ i = j
  /\ \A t, u \in Thread : \A i \in DOMAIN batch[t], j \in DOMAIN batch[u] :
       batch[t][i] = batch[u][j] => t = u /\ i = j
  /\ \A b, c \in pool : \A i \in DOMAIN b, j \in DOMAIN c : b[i] = c[j] => b = c /\ i = j
  /\ \A i, j \in DOMAIN delivered : delivered[i] = delivered[j] => i = j

PlacedInv == KnownInv /\ ApartInv /\ OnceInv

\* Messages in sequences of frames and in sequences of messages.
LEMMA Members ==
  /\ \A q, e : e \in EventsIn(q) <=> e # 0 /\ \E i \in DOMAIN q : q[i].event = e
  /\ \A q, e : e \in Elements(q) <=> \E i \in DOMAIN q : q[i] = e
BY DEF EventsIn, Elements

\* Nothing is in the empty sequence.
LEMMA EmptyMembers == EventsIn(<<>>) = {} /\ Elements(<<>>) = {}
BY DEF EventsIn, Elements

\* The messages in Append(q, f), and in q when its first frame is gone.
LEMMA FrameMembers ==
  ASSUME NEW q \in Seq(Frame)
  PROVE  /\ \A f \in Frame : EventsIn(Append(q, f)) = EventsIn(q) \union ({f.event} \ {0})
         /\ q # <<>> => EventsIn(q) = EventsIn(Tail(q)) \union ({Head(q).event} \ {0})
<1>1. ASSUME NEW f \in Frame
      PROVE  EventsIn(Append(q, f)) = EventsIn(q) \union ({f.event} \ {0})
  <2> DEFINE p == Append(q, f)
             n == Len(q) + 1
  <2>1. /\ \A i \in DOMAIN p : i = n \/ i \in DOMAIN q
        /\ \A i \in DOMAIN q : i \in DOMAIN p /\ p[i] = q[i]
        /\ n \in DOMAIN p /\ p[n] = f
    OBVIOUS
  <2> HIDE DEF p, n
  <2>2. ASSUME NEW e, e # 0, NEW i \in DOMAIN p, e = p[i].event
        PROVE  e = f.event \/ \E j \in DOMAIN q : e = q[j].event
    BY <2>1, <2>2
  <2>3. \A e : e \in EventsIn(p) => e \in EventsIn(q) \union ({f.event} \ {0})
    BY <2>2 DEF EventsIn
  <2>4. \A e : e \in EventsIn(q) => e \in EventsIn(p)
    BY <2>1, Members
  <2>5. f.event # 0 => f.event \in EventsIn(p)
    BY <2>1 DEF EventsIn
  <2> QED
    BY <2>3, <2>4, <2>5 DEF p
<1>2. ASSUME q # <<>> PROVE EventsIn(q) = EventsIn(Tail(q)) \union ({Head(q).event} \ {0})
  <2> DEFINE p == Tail(q)
             g == Head(q)
  <2>1. /\ \A i \in DOMAIN q : i = 1 \/ (i - 1 \in DOMAIN p /\ q[i] = p[i - 1])
        /\ 1 \in DOMAIN q /\ g = q[1]
        /\ \A i \in DOMAIN p : i + 1 \in DOMAIN q /\ p[i] = q[i + 1]
    BY <1>2
  <2> HIDE DEF p, g
  <2>2. ASSUME NEW i \in DOMAIN q PROVE q[i] = g \/ \E j \in DOMAIN p : q[i] = p[j]
    BY <2>1, <2>2
  <2>3. \A e : e \in EventsIn(q) => e \in EventsIn(p) \union ({g.event} \ {0})
    BY <2>2 DEF EventsIn
  <2>4. \A e : e \in EventsIn(p) => e \in EventsIn(q)
    BY <2>1, Members
  <2>5. {g.event} \ {0} \subseteq EventsIn(q)
    BY <2>1 DEF EventsIn
  <2> QED
    BY <2>3, <2>4, <2>5 DEF p, g
<1> QED
  BY <1>1, <1>2

\* The elements of Append(q, x), and of q when its first element is gone.
LEMMA SeqMembers ==
  ASSUME NEW S, NEW q \in Seq(S)
  PROVE  /\ \A x \in S : Elements(Append(q, x)) = Elements(q) \union {x}
         /\ q # <<>> => Elements(q) = Elements(Tail(q)) \union {Head(q)}
<1>1. ASSUME NEW x \in S PROVE Elements(Append(q, x)) = Elements(q) \union {x}
  <2> DEFINE p == Append(q, x)
             n == Len(q) + 1
  <2>1. /\ \A i \in DOMAIN p : i = n \/ i \in DOMAIN q
        /\ \A i \in DOMAIN q : i \in DOMAIN p /\ p[i] = q[i]
        /\ n \in DOMAIN p /\ p[n] = x
    OBVIOUS
  <2> HIDE DEF p, n
  <2>2. ASSUME NEW i \in DOMAIN p PROVE p[i] = x \/ \E j \in DOMAIN q : p[i] = q[j]
    BY <2>1, <2>2
  <2>3. \A e : e \in Elements(p) => e \in Elements(q) \union {x}
    BY <2>2 DEF Elements
  <2>4. \A e : e \in Elements(q) => e \in Elements(p)
    BY <2>1, Members
  <2>5. x \in Elements(p)
    BY <2>1, Members
  <2> QED
    BY <2>3, <2>4, <2>5 DEF p
<1>2. ASSUME q # <<>> PROVE Elements(q) = Elements(Tail(q)) \union {Head(q)}
  <2> DEFINE p == Tail(q)
             g == Head(q)
  <2>1. /\ \A i \in DOMAIN q : i = 1 \/ (i - 1 \in DOMAIN p /\ q[i] = p[i - 1])
        /\ 1 \in DOMAIN q /\ g = q[1]
        /\ \A i \in DOMAIN p : i + 1 \in DOMAIN q /\ p[i] = q[i + 1]
    BY <1>2
  <2> HIDE DEF p, g
  <2>2. ASSUME NEW i \in DOMAIN q PROVE q[i] = g \/ \E j \in DOMAIN p : q[i] = p[j]
    BY <2>1, <2>2
  <2>3. \A e : e \in Elements(q) => e \in Elements(p) \union ({g})
    BY <2>2 DEF Elements
  <2>4. \A e : e \in Elements(p) => e \in Elements(q)
    BY <2>1, Members
  <2>5. {g} \subseteq Elements(q)
    BY <2>1 DEF Elements
  <2> QED
    BY <2>3, <2>4, <2>5 DEF p, g
<1> QED
  BY <1>1, <1>2

\* The modem has sent no message before the port is opened.
LEMMA PlacedInit == Init => PlacedInv
<1> SUFFICES ASSUME Init PROVE PlacedInv
  OBVIOUS
<1>1. EventsIn(input) = {} /\ Elements(delivered) = {}
  BY EmptyMembers DEF Init
<1>2. InChunk = {} /\ InBatch = {} /\ InPool = {}
  BY EmptyMembers DEF Init, InChunk, InBatch, InPool
<1>3. 1..emitted = {}
  BY DEF Init
<1>4. KnownInv /\ ApartInv
  BY <1>1, <1>2, <1>3 DEF Init, KnownInv, ApartInv
<1>5. OnceInv
  BY DEF Init, OnceInv
<1> QED
  BY <1>4, <1>5 DEF PlacedInv

\* A step that moves no message.
LEMMA SamePlaces ==
  ASSUME PlacedInv, UNCHANGED <<input, chunk, batch, pool, delivered, lost, emitted>>
  PROVE  PlacedInv'
<1>1. /\ EventsIn(input)' = EventsIn(input) /\ Elements(delivered)' = Elements(delivered)
      /\ InChunk' = InChunk /\ InBatch' = InBatch /\ InPool' = InPool
  BY DEF InChunk, InBatch, InPool
<1>2. KnownInv' /\ ApartInv'
  BY <1>1 DEF PlacedInv, KnownInv, ApartInv
<1>3. OnceInv'
  BY DEF PlacedInv, OnceInv
<1> QED
  BY <1>2, <1>3 DEF PlacedInv

\* A thread reads the port.
LEMMA TakenPlaces ==
  ASSUME TypeOK, PlacedInv, NEW t \in Thread, ReadInput(t), chunk[t] = <<>>
  PROVE  PlacedInv'
<1>1. PICK q \in Seq(Frame), n \in Nat : ReadSplit(t, q, n)
  BY ReadSplits DEF TypeOK
<1>2. /\ chunk'[t] = q /\ \A u \in Thread : u # t => chunk'[u] = chunk[u]
      /\ UNCHANGED <<batch, pool, delivered, emitted>>
  BY <1>1, ReadKeeps DEF ReadSplit, TypeOK
<1>3. InChunk' = InChunk \union EventsIn(q)
  <2>1. \A e : e \in InChunk' <=> \E u \in Thread : e \in EventsIn(chunk'[u])
    BY DEF InChunk
  <2>2. \A e : e \in InChunk <=> \E u \in Thread : e \in EventsIn(chunk[u])
    BY DEF InChunk
  <2> QED
    BY <1>2, <2>1, <2>2, EmptyMembers
<1>4. InBatch' = InBatch /\ InPool' = InPool
  BY <1>2 DEF InBatch, InPool
<1>o. \A i, j \in DOMAIN input : input[j].event # 0 /\ input[i].event = input[j].event => i = j
  BY DEF PlacedInv, OnceInv
<1>5. \E d : /\ lost' = lost \union d
             /\ EventsIn(input) = EventsIn(q) \union EventsIn(input') \union d
             /\ EventsIn(q) \intersect EventsIn(input') = {}
             /\ d \intersect (EventsIn(q) \union EventsIn(input')) = {}
  <2>1. /\ \A i \in DOMAIN q : i \in DOMAIN input /\ q[i].event = input[i].event
        /\ \A i \in DOMAIN input' : /\ n + i \in DOMAIN input /\ n + i \notin DOMAIN q
                                    /\ input'[i].event = input[n + i].event
    BY <1>1 DEF ReadSplit
  <2>2. EventsIn(q) \subseteq EventsIn(input) /\ EventsIn(input') \subseteq EventsIn(input)
    BY <2>1 DEF EventsIn
  <2>3. EventsIn(q) \intersect EventsIn(input') = {}
    <3> SUFFICES ASSUME NEW i \in DOMAIN q, NEW j \in DOMAIN input',
                        q[i].event = input'[j].event, q[i].event # 0
                 PROVE  FALSE
      BY DEF EventsIn
    <3> QED
      BY <1>o, <2>1
  <2>4. CASE /\ lost' = lost
             /\ \A k \in DOMAIN input : k \in DOMAIN q \/ \E i \in DOMAIN input' : k = n + i
    <3>1. EventsIn(input) \subseteq EventsIn(q) \union EventsIn(input')
      BY <2>1, <2>4 DEF EventsIn
    <3>2. lost' = lost \union {}
      BY <2>4
    <3> QED
      BY <2>2, <2>3, <3>1, <3>2
  <2>5. ASSUME NEW m \in DOMAIN input \ DOMAIN q,
               lost' = lost \union {input[m].event}, input[m].event # 0, input' = <<>>,
               \A k \in DOMAIN input : k \in DOMAIN q \/ k = m
        PROVE  /\ EventsIn(input) = EventsIn(q) \union EventsIn(input') \union {input[m].event}
               /\ {input[m].event} \intersect (EventsIn(q) \union EventsIn(input')) = {}
    <3>1. EventsIn(input) \subseteq EventsIn(q) \union {input[m].event}
      BY <2>1, <2>5 DEF EventsIn
    <3>2. input[m].event \in EventsIn(input)
      BY <2>5 DEF EventsIn
    <3>3. input[m].event \notin EventsIn(q)
      BY <1>o, <2>1, <2>5 DEF EventsIn
    <3>4. EventsIn(input') = {}
      BY <2>5, EmptyMembers
    <3> QED
      BY <2>2, <3>1, <3>2, <3>3, <3>4
  <2>6. \/ /\ lost' = lost
           /\ \A k \in DOMAIN input : k \in DOMAIN q \/ \E i \in DOMAIN input' : k = n + i
        \/ \E m \in DOMAIN input \ DOMAIN q :
             /\ lost' = lost \union {input[m].event} /\ input[m].event # 0
             /\ input' = <<>>
             /\ \A k \in DOMAIN input : k \in DOMAIN q \/ k = m
    BY <1>1 DEF ReadSplit
  <2> QED
    BY <2>3, <2>4, <2>5, <2>6
<1>6. PICK d : /\ lost' = lost \union d
               /\ EventsIn(input) = EventsIn(q) \union EventsIn(input') \union d
               /\ EventsIn(q) \intersect EventsIn(input') = {}
               /\ d \intersect (EventsIn(q) \union EventsIn(input')) = {}
  BY <1>5
<1>7. KnownInv' /\ ApartInv'
  BY <1>2, <1>3, <1>4, <1>6 DEF PlacedInv, KnownInv, ApartInv
<1>8. \A i, j \in DOMAIN input' :
        input'[j].event # 0 /\ input'[i].event = input'[j].event => i = j
  BY <1>1, <1>o DEF ReadSplit
<1>9. \A u, v \in Thread : \A i \in DOMAIN chunk'[u], j \in DOMAIN chunk'[v] :
        chunk'[u][i].event # 0 /\ chunk'[u][i].event = chunk'[v][j].event => u = v /\ i = j
  <2>1. \A i, j \in DOMAIN q : q[i].event # 0 /\ q[i].event = q[j].event => i = j
    BY <1>1, <1>o DEF ReadSplit
  <2>2. \A w \in Thread, k \in DOMAIN q : \A l \in DOMAIN chunk[w] :
          q[k].event # 0 => q[k].event # chunk[w][l].event
    <3> SUFFICES ASSUME NEW w \in Thread, NEW k \in DOMAIN q, NEW l \in DOMAIN chunk[w],
                        q[k].event # 0, q[k].event = chunk[w][l].event
                 PROVE  FALSE
      OBVIOUS
    <3>1. q[k].event \in EventsIn(input) /\ q[k].event \in InChunk
      BY <1>6, Members DEF InChunk
    <3> QED
      BY <3>1 DEF PlacedInv, ApartInv
  <2> QED
    BY <1>2, <2>1, <2>2 DEF PlacedInv, OnceInv
<1>10. OnceInv'
  BY <1>2, <1>8, <1>9 DEF PlacedInv, OnceInv
<1> QED
  BY <1>7, <1>10 DEF PlacedInv

\* A thread reads one frame: the message it may carry joins the batch, or is lost.
LEMMA ReadPlaces ==
  ASSUME TypeOK, PlacedInv, NEW t \in Thread, chunk[t] # <<>>, NEW f, f = Head(chunk[t]),
         chunk' = [chunk EXCEPT ![t] = Tail(chunk[t])],
         UNCHANGED <<input, pool, delivered, emitted>>,
         \/ f.event = 0 /\ UNCHANGED <<batch, lost>>
         \/ f.event # 0 /\ UNCHANGED batch /\ lost' = lost \union {f.event}
         \/ f.event # 0 /\ UNCHANGED lost /\ batch' = [batch EXCEPT ![t] = Append(@, f.event)]
  PROVE  PlacedInv'
<1>1. /\ chunk[t] \in Seq(Frame) /\ chunk'[t] = Tail(chunk[t])
      /\ \A u \in Thread : u # t => chunk'[u] = chunk[u]
  BY DEF TypeOK
<1>s. /\ 1 \in DOMAIN chunk[t] /\ f = chunk[t][1]
      /\ \A i \in DOMAIN Tail(chunk[t]) : /\ i + 1 \in DOMAIN chunk[t] /\ i + 1 # 1
                                          /\ Tail(chunk[t])[i] = chunk[t][i + 1]
      /\ \A i, j \in DOMAIN Tail(chunk[t]) : i + 1 = j + 1 => i = j
  BY <1>1, SequenceElements
<1>2. InChunk = InChunk' \union ({f.event} \ {0})
  <2>1. \A e : e \in InChunk' <=> \E u \in Thread : e \in EventsIn(chunk'[u])
    BY DEF InChunk
  <2>2. \A e : e \in InChunk <=> \E u \in Thread : e \in EventsIn(chunk[u])
    BY DEF InChunk
  <2>3. EventsIn(chunk[t]) = EventsIn(chunk'[t]) \union ({f.event} \ {0})
    BY <1>1, FrameMembers
  <2>4. \A e : e \in InChunk <=> e \in InChunk' \union ({f.event} \ {0})
    BY <1>1, <2>1, <2>2, <2>3
  <2> QED
    BY <2>4
<1>4. \A u, v \in Thread : \A i \in DOMAIN chunk'[u], j \in DOMAIN chunk'[v] :
        chunk'[u][i].event # 0 /\ chunk'[u][i].event = chunk'[v][j].event => u = v /\ i = j
  BY <1>1, <1>s DEF PlacedInv, OnceInv
<1>5. ASSUME f.event # 0 PROVE f.event \notin InChunk'
  <2>1. ASSUME NEW u \in Thread, NEW i \in DOMAIN chunk'[u] PROVE chunk'[u][i].event # f.event
    <3>1. CASE u = t
      <4>1. /\ i + 1 \in DOMAIN chunk[t] /\ i + 1 # 1
            /\ chunk'[u][i] = chunk[t][i + 1]
        BY <1>1, <1>s, <3>1
      <4> QED
        BY <1>s, <1>5, <4>1 DEF PlacedInv, OnceInv
    <3>2. CASE u # t
      BY <1>1, <1>s, <1>5, <3>2 DEF PlacedInv, OnceInv
    <3> QED
      BY <3>1, <3>2
  <2>2. \A e : e \in InChunk' <=> \E u \in Thread : e \in EventsIn(chunk'[u])
    BY DEF InChunk
  <2>3. \A u \in Thread : f.event \notin EventsIn(chunk'[u])
    BY <2>1 DEF EventsIn
  <2> QED
    BY <2>2, <2>3
<1>6. /\ EventsIn(input)' = EventsIn(input) /\ Elements(delivered)' = Elements(delivered)
      /\ InPool' = InPool
  BY DEF InPool
<1>7. CASE \/ f.event = 0 /\ UNCHANGED <<batch, lost>>
           \/ f.event # 0 /\ UNCHANGED batch /\ lost' = lost \union {f.event}
  <2>1. InBatch' = InBatch
    BY <1>7 DEF InBatch
  <2>2. lost' = lost \union ({f.event} \ {0})
    BY <1>7
  <2>3. KnownInv' /\ ApartInv'
    BY <1>2, <1>5, <1>6, <2>1, <2>2 DEF PlacedInv, KnownInv, ApartInv
  <2>4. OnceInv'
    BY <1>4, <1>7 DEF PlacedInv, OnceInv
  <2> QED
    BY <2>3, <2>4 DEF PlacedInv
<1>8. CASE f.event # 0 /\ UNCHANGED lost /\ batch' = [batch EXCEPT ![t] = Append(@, f.event)]
  <2>1. f.event \in InChunk
    BY <1>2, <1>8
  <2>2. /\ f.event \in EventId /\ batch[t] \in Seq(EventId)
        /\ batch'[t] = Append(batch[t], f.event)
        /\ \A u \in Thread : u # t => batch'[u] = batch[u]
    BY <1>1, <1>8, SequenceTypes, FrameTypes, SMTT(30) DEF TypeOK
  <2>3. InBatch' = InBatch \union {f.event}
    <3>1. \A e : e \in InBatch' <=> \E u \in Thread : e \in Elements(batch'[u])
      BY DEF InBatch
    <3>2. \A e : e \in InBatch <=> \E u \in Thread : e \in Elements(batch[u])
      BY DEF InBatch
    <3>3. Elements(batch'[t]) = Elements(batch[t]) \union {f.event}
      BY <2>2, SeqMembers
    <3>4. \A e : e \in InBatch' <=> e \in InBatch \union {f.event}
      BY <2>2, <3>1, <3>2, <3>3
    <3> QED
      BY <3>4
  <2>4. KnownInv' /\ ApartInv'
    BY <1>2, <1>5, <1>6, <1>8, <2>1, <2>3 DEF PlacedInv, KnownInv, ApartInv
  <2>5. \A u \in Thread : \A i \in DOMAIN batch[u] : batch[u][i] # f.event
    <3>1. f.event \notin InBatch
      BY <2>1 DEF PlacedInv, ApartInv
    <3> QED
      BY <3>1, Members DEF InBatch
  <2>6. \A i \in DOMAIN batch'[t] : \/ i = Len(batch[t]) + 1 /\ batch'[t][i] = f.event
                                    \/ i \in DOMAIN batch[t] /\ batch'[t][i] = batch[t][i]
    BY <2>2
  <2>7. \A u, v \in Thread : \A i \in DOMAIN batch'[u], j \in DOMAIN batch'[v] :
          batch'[u][i] = batch'[v][j] => u = v /\ i = j
    <3>1. \A i \in DOMAIN batch'[t], j \in DOMAIN batch'[t] :
            batch'[t][i] = batch'[t][j] => i = j
      BY <2>5, <2>6 DEF PlacedInv, OnceInv
    <3>2. \A v \in Thread : v # t => \A i \in DOMAIN batch'[t], j \in DOMAIN batch'[v] :
            batch'[t][i] # batch'[v][j]
      BY <2>2, <2>5, <2>6 DEF PlacedInv, OnceInv
    <3>3. \A u \in Thread : \A i \in DOMAIN batch'[u], j \in DOMAIN batch'[t] :
            batch'[u][i] = batch'[t][j] => u = t /\ i = j
      BY <3>1, <3>2
    <3>4. \A u, v \in Thread : u # t /\ v # t =>
            \A i \in DOMAIN batch'[u], j \in DOMAIN batch'[v] :
              batch'[u][i] = batch'[v][j] => u = v /\ i = j
      BY <2>2 DEF PlacedInv, OnceInv
    <3> QED
      BY <3>1, <3>2, <3>3, <3>4
  <2>8. OnceInv'
    BY <1>4, <2>7 DEF PlacedInv, OnceInv
  <2> QED
    BY <2>4, <2>8 DEF PlacedInv
<1> QED
  BY <1>7, <1>8

\* A read that throws gives up what the thread holds.
LEMMA FailedPlaces ==
  ASSUME TypeOK, PlacedInv, NEW t \in Thread, ReadFails(t)
  PROVE  PlacedInv'
<1>1. /\ chunk'[t] = <<>> /\ batch'[t] = <<>>
      /\ \A u \in Thread : u # t => chunk'[u] = chunk[u] /\ batch'[u] = batch[u]
      /\ lost' = lost \union EventsIn(chunk[t]) \union Elements(batch[t])
      /\ UNCHANGED <<input, pool, delivered, emitted>>
  BY DEF ReadFails, TypeOK
<1>2. InChunk' = InChunk \ EventsIn(chunk[t])
  <2>1. \A e : e \in InChunk' <=> \E u \in Thread : e \in EventsIn(chunk'[u])
    BY DEF InChunk
  <2>2. \A e : e \in InChunk <=> \E u \in Thread : e \in EventsIn(chunk[u])
    BY DEF InChunk
  <2>3. \A u \in Thread : u # t => EventsIn(chunk[u]) \intersect EventsIn(chunk[t]) = {}
    BY Members DEF PlacedInv, OnceInv
  <2>4. \A e : e \in InChunk' <=> e \in InChunk \ EventsIn(chunk[t])
    BY <1>1, <2>1, <2>2, <2>3, EmptyMembers
  <2> QED
    BY <2>4
<1>3. InBatch' = InBatch \ Elements(batch[t])
  <2>1. \A e : e \in InBatch' <=> \E u \in Thread : e \in Elements(batch'[u])
    BY DEF InBatch
  <2>2. \A e : e \in InBatch <=> \E u \in Thread : e \in Elements(batch[u])
    BY DEF InBatch
  <2>3. \A u \in Thread : u # t => Elements(batch[u]) \intersect Elements(batch[t]) = {}
    BY Members DEF PlacedInv, OnceInv
  <2>4. \A e : e \in InBatch' <=> e \in InBatch \ Elements(batch[t])
    BY <1>1, <2>1, <2>2, <2>3, EmptyMembers
  <2> QED
    BY <2>4
<1>4. EventsIn(chunk[t]) \subseteq InChunk /\ Elements(batch[t]) \subseteq InBatch
  BY DEF InChunk, InBatch
<1>5. /\ EventsIn(input)' = EventsIn(input) /\ Elements(delivered)' = Elements(delivered)
      /\ InPool' = InPool
  BY <1>1 DEF InPool
<1>6. KnownInv' /\ ApartInv'
  BY <1>1, <1>2, <1>3, <1>4, <1>5 DEF PlacedInv, KnownInv, ApartInv
<1>7. OnceInv'
  BY <1>1 DEF PlacedInv, OnceInv
<1> QED
  BY <1>6, <1>7 DEF PlacedInv

\* A batch becomes a work item.
LEMMA QueuedPlaces ==
  ASSUME TypeOK, PlacedInv, NEW t \in Thread, QueueBatch(t)
  PROVE  PlacedInv'
<1> DEFINE b == batch[t]
<1>1. /\ b \in Seq(EventId) /\ batch'[t] = <<>>
      /\ \A u \in Thread : u # t => batch'[u] = batch[u]
      /\ pool' = IF b # <<>> THEN pool \union {b} ELSE pool
      /\ UNCHANGED <<chunk, input, delivered, lost, emitted>>
  BY DEF QueueBatch, HasMessages, TypeOK
<1>2. InBatch' = InBatch \ Elements(b)
  <2>1. \A e : e \in InBatch' <=> \E u \in Thread : e \in Elements(batch'[u])
    BY DEF InBatch
  <2>2. \A e : e \in InBatch <=> \E u \in Thread : e \in Elements(batch[u])
    BY DEF InBatch
  <2>3. \A u \in Thread : u # t => Elements(batch[u]) \intersect Elements(b) = {}
    BY Members DEF PlacedInv, OnceInv
  <2>4. \A e : e \in InBatch' <=> e \in InBatch \ Elements(b)
    BY <1>1, <2>1, <2>2, <2>3, EmptyMembers
  <2> QED
    BY <2>4
<1>3. InPool' = InPool \union Elements(b)
  <2>1. \A e : e \in InPool' <=> \E c \in pool' : e \in Elements(c)
    BY DEF InPool
  <2>2. \A e : e \in InPool <=> \E c \in pool : e \in Elements(c)
    BY DEF InPool
  <2>3. \A e : e \in InPool' <=> e \in InPool \union Elements(b)
    BY <1>1, <2>1, <2>2, EmptyMembers
  <2> QED
    BY <2>3
<1>4. Elements(b) \subseteq InBatch
  BY DEF InBatch
<1>5. /\ EventsIn(input)' = EventsIn(input) /\ Elements(delivered)' = Elements(delivered)
      /\ InChunk' = InChunk
  BY <1>1 DEF InChunk
<1>6. KnownInv' /\ ApartInv'
  BY <1>1, <1>2, <1>3, <1>4, <1>5 DEF PlacedInv, KnownInv, ApartInv
<1>7. \A c \in pool : \A i \in DOMAIN c, j \in DOMAIN b : c[i] # b[j]
  <2> SUFFICES ASSUME NEW c \in pool, NEW i \in DOMAIN c, NEW j \in DOMAIN b, c[i] = b[j]
               PROVE  FALSE
    OBVIOUS
  <2>1. c[i] \in InPool
    BY Members DEF InPool
  <2>2. b[j] \in InBatch
    BY <1>4, Members
  <2> QED
    BY <2>1, <2>2 DEF PlacedInv, ApartInv
<1>8. \A i, j \in DOMAIN b : b[i] = b[j] => i = j
  BY DEF PlacedInv, OnceInv
<1>9. \A c, d \in pool' : \A i \in DOMAIN c, j \in DOMAIN d : c[i] = d[j] => c = d /\ i = j
  <2> HIDE DEF b
  <2> SUFFICES ASSUME NEW c \in pool', NEW d \in pool',
                      NEW i \in DOMAIN c, NEW j \in DOMAIN d, c[i] = d[j]
               PROVE  c = d /\ i = j
    OBVIOUS
  <2>1. (c \in pool \/ c = b) /\ (d \in pool \/ d = b)
    BY <1>1
  <2> QED
    BY <1>7, <1>8, <2>1 DEF PlacedInv, OnceInv
<1>10. OnceInv'
  BY <1>1, <1>9 DEF PlacedInv, OnceInv
<1> QED
  BY <1>6, <1>10 DEF PlacedInv

\* The first message of a work item is handled.
LEMMA HandledPlaces ==
  ASSUME TypeOK, PlacedInv, NEW b \in pool, DeliverMessage(b)
  PROVE  /\ PlacedInv'
         /\ \A i \in DOMAIN delivered : delivered[i] # Head(b)
<1> DEFINE e == Head(b)
           q == Tail(b)
<1>1. /\ b \in Seq(EventId) /\ b # <<>> /\ e \in EventId /\ delivered \in Seq(EventId)
      /\ delivered' = Append(delivered, e)
      /\ pool' = (pool \ {b}) \union ({q} \ {<<>>})
      /\ UNCHANGED <<chunk, batch, input, lost, emitted>>
  BY SequenceTypes DEF DeliverMessage, Remaining, TypeOK
<1>2. /\ 1 \in DOMAIN b /\ e = b[1]
      /\ \A i \in DOMAIN q : i + 1 \in DOMAIN b /\ i + 1 # 1 /\ q[i] = b[i + 1]
      /\ \A i, j \in DOMAIN q : i + 1 = j + 1 => i = j
  BY <1>1, SequenceElements
<1>3. Elements(b) = Elements(q) \union {e}
  BY <1>1, SeqMembers
<1>4. Elements(delivered') = Elements(delivered) \union {e}
  BY <1>1, SeqMembers
<1> HIDE DEF e, q
<1>5. e \notin Elements(q)
  BY <1>2, Members DEF PlacedInv, OnceInv
<1>6. \A c \in pool : c # b => Elements(c) \intersect Elements(b) = {}
  BY Members DEF PlacedInv, OnceInv
<1>7. InPool' = InPool \ {e}
  <2>1. \A x : x \in InPool' <=> \E c \in pool' : x \in Elements(c)
    BY DEF InPool
  <2>2. \A x : x \in InPool <=> \E c \in pool : x \in Elements(c)
    BY DEF InPool
  <2>3. \A x : x \in InPool' => x \in InPool \ {e}
    BY <1>1, <1>3, <1>5, <1>6, <2>1, <2>2
  <2>4. \A x : x \in InPool \ {e} => x \in InPool'
    BY <1>1, <1>3, <2>1, <2>2, EmptyMembers
  <2> QED
    BY <2>3, <2>4
<1>8. e \in InPool
  BY <1>3 DEF InPool
<1>9. /\ EventsIn(input)' = EventsIn(input) /\ InChunk' = InChunk /\ InBatch' = InBatch
  BY <1>1 DEF InChunk, InBatch
<1>10. KnownInv' /\ ApartInv'
  BY <1>1, <1>4, <1>7, <1>8, <1>9 DEF PlacedInv, KnownInv, ApartInv
<1>11. \A i \in DOMAIN delivered : delivered[i] # e
  <2>1. e \notin Elements(delivered)
    BY <1>8 DEF PlacedInv, ApartInv
  <2> QED
    BY <2>1, Members
<1>12. \A c, d \in pool' : \A i \in DOMAIN c, j \in DOMAIN d : c[i] = d[j] => c = d /\ i = j
  <2> SUFFICES ASSUME NEW c \in pool', NEW d \in pool',
                      NEW i \in DOMAIN c, NEW j \in DOMAIN d, c[i] = d[j]
               PROVE  c = d /\ i = j
    OBVIOUS
  <2>1. /\ c = q \/ (c \in pool /\ c # b)
        /\ d = q \/ (d \in pool /\ d # b)
    BY <1>1
  <2>2. CASE c = q /\ d = q
    BY <1>2, <2>2 DEF PlacedInv, OnceInv
  <2>3. CASE c = q /\ d \in pool /\ d # b
    BY <1>2, <2>3 DEF PlacedInv, OnceInv
  <2>4. CASE c \in pool /\ c # b /\ d = q
    BY <1>2, <2>4 DEF PlacedInv, OnceInv
  <2>5. CASE c \in pool /\ d \in pool
    BY <2>5 DEF PlacedInv, OnceInv
  <2> QED
    BY <2>1, <2>2, <2>3, <2>4, <2>5
<1>13. \A i, j \in DOMAIN delivered' : delivered'[i] = delivered'[j] => i = j
  <2>1. \A i \in DOMAIN delivered' : \/ i = Len(delivered) + 1 /\ delivered'[i] = e
                                     \/ i \in DOMAIN delivered /\ delivered'[i] = delivered[i]
    BY <1>1
  <2> QED
    BY <1>11, <2>1 DEF PlacedInv, OnceInv
<1>14. OnceInv'
  BY <1>1, <1>12, <1>13 DEF PlacedInv, OnceInv
<1> QED
  BY <1>10, <1>11, <1>14 DEF PlacedInv, e

\* The modem answers, or sends a message of its own.
LEMMA SentPlaces ==
  ASSUME TypeOK, PlacedInv, NEW f \in Frame, input' = Append(input, f),
         UNCHANGED <<chunk, batch, pool, delivered, lost>>,
         \/ f.event = 0 /\ UNCHANGED emitted
         \/ f.event = emitted + 1 /\ emitted' = emitted + 1
  PROVE  PlacedInv'
<1>1. input \in Seq(Frame) /\ emitted \in Nat
  BY DEF TypeOK
<1>2. EventsIn(input') = EventsIn(input) \union ({f.event} \ {0})
  BY <1>1, FrameMembers
<1>3. InChunk' = InChunk /\ InBatch' = InBatch /\ InPool' = InPool
  BY DEF InChunk, InBatch, InPool
<1>4. \A i \in DOMAIN input' : \/ i = Len(input) + 1 /\ input'[i] = f
                               \/ i \in DOMAIN input /\ input'[i] = input[i]
  BY <1>1
<1>5. CASE f.event = 0 /\ UNCHANGED emitted
  <2>1. KnownInv' /\ ApartInv'
    BY <1>2, <1>3, <1>5 DEF PlacedInv, KnownInv, ApartInv
  <2>2. OnceInv'
    BY <1>4, <1>5 DEF PlacedInv, OnceInv
  <2> QED
    BY <2>1, <2>2 DEF PlacedInv
<1>6. CASE f.event = emitted + 1 /\ emitted' = emitted + 1
  <2>1. f.event \notin 1..emitted /\ 1..emitted' = (1..emitted) \union {f.event} /\ f.event # 0
    BY <1>1, <1>6
  <2>2. KnownInv' /\ ApartInv'
    BY <1>2, <1>3, <2>1 DEF PlacedInv, KnownInv, ApartInv
  <2>3. \A i \in DOMAIN input : input[i].event # f.event
    BY <2>1, Members DEF PlacedInv, KnownInv
  <2>4. OnceInv'
    BY <1>4, <2>3 DEF PlacedInv, OnceInv
  <2> QED
    BY <2>2, <2>4 DEF PlacedInv
<1> QED
  BY <1>5, <1>6

\* No step loses or doubles a message.
LEMMA PlacedStep == TypeOK /\ ChunkInv /\ PlacedInv /\ [Next]_vars => PlacedInv'
<1> SUFFICES ASSUME TypeOK, ChunkInv, PlacedInv, [Next]_vars PROVE PlacedInv'
  OBVIOUS
<1>1. ASSUME NEW s \in Sender, NEW c \in Command, Call(s, c) PROVE PlacedInv'
  BY <1>1, SamePlaces DEF Call
<1>2. ASSUME NEW s \in Sender,
             \/ LockThis(s) \/ ClearInput(s) \/ WriteCommand(s) \/ WaitSignalled(s)
             \/ ReturnResponse(s) \/ WaitTimeout(s)
      PROVE  PlacedInv'
  BY <1>2, SamePlaces
     DEF LockThis, ClearInput, WriteCommand, WaitSignalled, ReturnResponse, WaitTimeout
<1>3. ASSUME NEW t \in Thread, ReadInput(t) PROVE PlacedInv'
  BY <1>3, TakenPlaces, ReadKeeps DEF ChunkInv
<1>4. CASE ReaderStep
  BY <1>4, SamePlaces DEF ReaderStep, DataReceived, ReaderLockPort
<1>6. ASSUME NEW t \in Thread, ReadResponse(t) PROVE PlacedInv'
  <2> DEFINE f == Head(chunk[t])
  <2>1. /\ chunk[t] # <<>> /\ chunk' = [chunk EXCEPT ![t] = Tail(chunk[t])]
        /\ lost' = IF state # "START" /\ f.event # 0 THEN lost \union {f.event} ELSE lost
        /\ state = "START" => f.event = 0
        /\ UNCHANGED <<batch, input, pool, delivered, emitted>>
    BY <1>6 DEF ReadResponse, ParsesWell, FrameConsumed, Responds
  <2> QED
    BY <2>1, ReadPlaces
<1>7. ASSUME NEW t \in Thread, ReadMessage(t) PROVE PlacedInv'
  <2> DEFINE f == Head(chunk[t])
  <2>1. /\ chunk[t] # <<>> /\ chunk' = [chunk EXCEPT ![t] = Tail(chunk[t])]
        /\ lost' = IF state # "START" /\ f.event # 0 THEN lost \union {f.event} ELSE lost
        /\ batch' = IF state = "START" /\ f.event # 0
                      THEN [batch EXCEPT ![t] = Append(@, f.event)] ELSE batch
        /\ UNCHANGED <<input, pool, delivered, emitted>>
    BY <1>7 DEF ReadMessage, ParsesWell, FrameConsumed
  <2> QED
    BY <2>1, ReadPlaces
<1>8. ASSUME NEW t \in Thread, ReadFails(t) PROVE PlacedInv'
  BY <1>8, FailedPlaces
<1>9. ASSUME NEW t \in Thread, EndRead(t) PROVE PlacedInv'
  BY <1>9, SamePlaces DEF EndRead
<1>10. ASSUME NEW t \in Thread, QueueBatch(t) PROVE PlacedInv'
  BY <1>10, QueuedPlaces
<1>11. CASE PoolStep
  BY <1>11, HandledPlaces DEF PoolStep
<1>12. ASSUME NEW st \in Status, ModemAnswer(st) PROVE PlacedInv'
  <2>1. PICK r \in modem : ModemAnswer(st)!(r)
    BY <1>12 DEF ModemAnswer
  <2> DEFINE a == Answer(r.id, r.cmd, st)
  <2>2. a \in Frame /\ a.event = 0
    BY FrameTypes DEF Request, Answer, TypeOK
  <2>3. /\ input' = Append(input, a)
        /\ UNCHANGED <<chunk, batch, pool, delivered, lost, emitted>>
    BY <2>1
  <2> QED
    BY <2>2, <2>3, SentPlaces
<1>13. CASE ModemLoses
  BY <1>13, SamePlaces DEF ModemLoses
<1>14. CASE ModemSends
  <2>1. Message(emitted + 1) \in Frame /\ Message(emitted + 1).event = emitted + 1
    BY FrameTypes DEF TypeOK, Message
  <2> QED
    BY <1>14, <2>1, SentPlaces DEF ModemSends
<1>15. CASE Quiescent \/ UNCHANGED vars
  BY <1>15, SamePlaces DEF Quiescent, vars
<1> QED
  BY <1>1, <1>2, <1>3, <1>4, <1>6, <1>7, <1>8, <1>9, <1>10, <1>11, <1>12, <1>13,
     <1>14, <1>15 DEF Next, SenderStep, ReadStep, ModemStep

\* Where the places of a message are.
LEMMA PlaceKinds ==
  ASSUME NEW e \in EventId
  PROVE  /\ \A p : p \in Places(e) <=>
              \/ \E i \in DOMAIN input : input[i].event = e /\ p = <<"input", i>>
              \/ \E t \in Thread : \E i \in DOMAIN chunk[t] :
                   chunk[t][i].event = e /\ p = <<"chunk", i, t>>
              \/ \E t \in Thread : \E i \in DOMAIN batch[t] :
                   batch[t][i] = e /\ p = <<"batch", i, t>>
              \/ \E b \in pool : \E i \in DOMAIN b : b[i] = e /\ p = <<"pool", i, b>>
              \/ \E i \in DOMAIN delivered : delivered[i] = e /\ p = <<"delivered", i>>
              \/ e \in lost /\ p = <<"lost">>
         /\ e \in EventsIn(input) <=> \E i \in DOMAIN input : input[i].event = e
         /\ e \in InChunk <=> \E t \in Thread : \E i \in DOMAIN chunk[t] : chunk[t][i].event = e
         /\ e \in InBatch <=> \E t \in Thread : \E i \in DOMAIN batch[t] : batch[t][i] = e
         /\ e \in InPool <=> \E b \in pool : \E i \in DOMAIN b : b[i] = e
         /\ e \in Elements(delivered) <=> \E i \in DOMAIN delivered : delivered[i] = e
<1>1. ASSUME NEW p
      PROVE  p \in Places(e) <=>
              \/ \E i \in DOMAIN input : input[i].event = e /\ p = <<"input", i>>
              \/ \E t \in Thread : \E i \in DOMAIN chunk[t] :
                   chunk[t][i].event = e /\ p = <<"chunk", i, t>>
              \/ \E t \in Thread : \E i \in DOMAIN batch[t] :
                   batch[t][i] = e /\ p = <<"batch", i, t>>
              \/ \E b \in pool : \E i \in DOMAIN b : b[i] = e /\ p = <<"pool", i, b>>
              \/ \E i \in DOMAIN delivered : delivered[i] = e /\ p = <<"delivered", i>>
              \/ e \in lost /\ p = <<"lost">>
  BY DEF Places
<1> QED
  BY <1>1, Members DEF InChunk, InBatch, InPool

\* A message that the modem sent is in one place.
LEMMA OnePlace ==
  ASSUME PlacedInv, NEW e \in 1..emitted, emitted \in Nat
  PROVE  Cardinality(Places(e)) = 1
<1>1. e \in EventId
  OBVIOUS
<1>3. CASE e \in EventsIn(input)
  <2>1. PICK i \in DOMAIN input : input[i].event = e
    BY <1>1, <1>3, PlaceKinds
  <2>2. e \notin InChunk /\ e \notin InBatch /\ e \notin InPool /\ e \notin Elements(delivered)
        /\ e \notin lost
    BY <1>3 DEF PlacedInv, ApartInv
  <2>3. \A j \in DOMAIN input : input[j].event = e => j = i
    BY <1>1, <2>1 DEF PlacedInv, OnceInv
  <2> DEFINE w == <<"input", i>>
  <2>4. \A p : p \in Places(e) <=> p = w
    BY <1>1, <2>1, <2>2, <2>3, PlaceKinds
  <2> HIDE DEF w
  <2>9. Places(e) = {w}
    BY <2>4
  <2> QED
    BY <2>9, FS_Singleton
<1>4. CASE e \in InChunk
  <2>1. PICK t \in Thread : \E i \in DOMAIN chunk[t] : chunk[t][i].event = e
    BY <1>1, <1>4, PlaceKinds
  <2>i. PICK i \in DOMAIN chunk[t] : chunk[t][i].event = e
    BY <2>1
  <2>2. e \notin EventsIn(input) /\ e \notin InBatch /\ e \notin InPool
        /\ e \notin Elements(delivered) /\ e \notin lost
    BY <1>4 DEF PlacedInv, ApartInv
  <2>3. \A u \in Thread : \A j \in DOMAIN chunk[u] : chunk[u][j].event = e => u = t /\ j = i
    BY <1>1, <2>i DEF PlacedInv, OnceInv
  <2> DEFINE w == <<"chunk", i, t>>
  <2>4. \A p : p \in Places(e) <=> p = w
    BY <1>1, <2>i, <2>2, <2>3, PlaceKinds
  <2> HIDE DEF w
  <2>9. Places(e) = {w}
    BY <2>4
  <2> QED
    BY <2>9, FS_Singleton
<1>5. CASE e \in InBatch
  <2>1. PICK t \in Thread : \E i \in DOMAIN batch[t] : batch[t][i] = e
    BY <1>1, <1>5, PlaceKinds
  <2>i. PICK i \in DOMAIN batch[t] : batch[t][i] = e
    BY <2>1
  <2>2. e \notin EventsIn(input) /\ e \notin InChunk /\ e \notin InPool
        /\ e \notin Elements(delivered) /\ e \notin lost
    BY <1>5 DEF PlacedInv, ApartInv
  <2>3. \A u \in Thread : \A j \in DOMAIN batch[u] : batch[u][j] = e => u = t /\ j = i
    BY <2>i DEF PlacedInv, OnceInv
  <2> DEFINE w == <<"batch", i, t>>
  <2>4. \A p : p \in Places(e) <=> p = w
    BY <1>1, <2>i, <2>2, <2>3, PlaceKinds
  <2> HIDE DEF w
  <2>9. Places(e) = {w}
    BY <2>4
  <2> QED
    BY <2>9, FS_Singleton
<1>6. CASE e \in InPool
  <2>1. PICK b \in pool : \E i \in DOMAIN b : b[i] = e
    BY <1>1, <1>6, PlaceKinds
  <2>i. PICK i \in DOMAIN b : b[i] = e
    BY <2>1
  <2>2. e \notin EventsIn(input) /\ e \notin InChunk /\ e \notin InBatch
        /\ e \notin Elements(delivered) /\ e \notin lost
    BY <1>6 DEF PlacedInv, ApartInv
  <2>3. \A c \in pool : \A j \in DOMAIN c : c[j] = e => c = b /\ j = i
    BY <2>i DEF PlacedInv, OnceInv
  <2> DEFINE w == <<"pool", i, b>>
  <2>4. \A p : p \in Places(e) <=> p = w
    BY <1>1, <2>i, <2>2, <2>3, PlaceKinds
  <2> HIDE DEF w
  <2>9. Places(e) = {w}
    BY <2>4
  <2> QED
    BY <2>9, FS_Singleton
<1>7. CASE e \in Elements(delivered)
  <2>1. PICK i \in DOMAIN delivered : delivered[i] = e
    BY <1>1, <1>7, PlaceKinds
  <2>2. e \notin EventsIn(input) /\ e \notin InChunk /\ e \notin InBatch /\ e \notin InPool
        /\ e \notin lost
    BY <1>7 DEF PlacedInv, ApartInv
  <2>3. \A j \in DOMAIN delivered : delivered[j] = e => j = i
    BY <2>1 DEF PlacedInv, OnceInv
  <2> DEFINE w == <<"delivered", i>>
  <2>4. \A p : p \in Places(e) <=> p = w
    BY <1>1, <2>1, <2>2, <2>3, PlaceKinds
  <2> HIDE DEF w
  <2>9. Places(e) = {w}
    BY <2>4
  <2> QED
    BY <2>9, FS_Singleton
<1>8. CASE e \in lost
  <2>1. e \notin EventsIn(input) /\ e \notin InChunk /\ e \notin InBatch /\ e \notin InPool
        /\ e \notin Elements(delivered)
    BY <1>8 DEF PlacedInv, ApartInv
  <2> DEFINE w == <<"lost">>
  <2>2. \A p : p \in Places(e) <=> p = w
    BY <1>1, <1>8, <2>1, PlaceKinds
  <2> HIDE DEF w
  <2>9. Places(e) = {w}
    BY <2>2
  <2> QED
    BY <2>9, FS_Singleton
<1>9. e \in EventsIn(input) \union InChunk \union InBatch \union InPool
              \union Elements(delivered) \union lost
  BY DEF PlacedInv, KnownInv
<1> QED
  BY <1>3, <1>4, <1>5, <1>6, <1>7, <1>8, <1>9
-----------------------------------------------------------------------------
(***************************************************************************)
(* The refinement.                                                         *)
(***************************************************************************)
\* A step that changes nothing that a client of the device can see.
LEMMA ChannelStutter ==
  UNCHANGED <<thisLock, result, verdict, taken, delivered>> => UNCHANGED Channel!vars
BY DEF Channel!vars

\* The open port is a channel nobody has used.
LEMMA ChannelInit == Init => Channel!Init
<1> SUFFICES ASSUME Init PROVE Channel!Init
  OBVIOUS
<1>1. Cardinality(verdict) - taken = 0
  BY FS_EmptySet DEF Init
<1> QED
  BY <1>1 DEF Init, Channel!Init

\* Every step of the device is a step of the channel or changes nothing of it.
LEMMA ChannelStep ==
  TypeOK /\ LockInv /\ HolderInv /\ ProvenanceInv /\ FlightInv /\ CreditInv /\ ResponseSeen
    /\ PlacedInv /\ [Next]_vars => [Channel!Next]_(Channel!vars)
<1> SUFFICES ASSUME TypeOK, LockInv, HolderInv, ProvenanceInv, FlightInv, CreditInv,
                    ResponseSeen, PlacedInv, [Next]_vars
             PROVE  Channel!Next \/ UNCHANGED Channel!vars
  OBVIOUS
<1>t. /\ Cardinality(verdict) \in Nat /\ taken \in Nat
      /\ result \in [Sender -> Outcome]
  BY FS_CardinalityType DEF FlightInv, TypeOK
<1>1. ASSUME NEW s \in Sender, NEW c \in Command, Call(s, c) PROVE Channel!Next
  <2>1. Channel!Ask(s)
    BY <1>1 DEF Call, HolderInv, Channel!Ask
  <2> QED
    BY <2>1 DEF Channel!Next
<1>2. ASSUME NEW s \in Sender, LockThis(s) PROVE Channel!Next
  <2>1. Channel!Begin(s)
    BY <1>2 DEF LockThis, ThisLockFree, HolderInv, Channel!Begin
  <2> QED
    BY <2>1 DEF Channel!Next
<1>3. ASSUME NEW s \in Sender, ClearInput(s) \/ WriteCommand(s) \/ WaitSignalled(s)
      PROVE  UNCHANGED Channel!vars
  BY <1>3, ChannelStutter DEF ClearInput, WriteCommand, WaitSignalled
<1>4. ASSUME NEW s \in Sender, ReturnResponse(s) PROVE Channel!Next
  <2>1. SomeAnswered /\ thisLock = s
    BY <1>4 DEF ReturnResponse, SomeAnswered, LockInv
  <2>2. taken + 1 <= Cardinality(verdict)
    <3>1. Spent \in Nat /\ taken + 1 <= Spent
      BY <1>t, <2>1 DEF Spent, One
    <3>2. Spent <= Cardinality(verdict)
      BY <1>t, <3>1, FlightFinite DEF CreditInv, One
    <3> QED
      BY <1>t, <3>1, <3>2
  <2>3. /\ sendingResponse \in
             {ResponseTo[v.status] : v \in verdict} \union {"Invalid", "Unknown"}
        /\ sendingResponse \in MessageResponse
    BY <2>1 DEF ResponseSeen, TypeOK
  <2>4. Channel!EndAnswered(s, sendingResponse)
    BY <1>4, <1>t, <2>1, <2>2, <2>3 DEF ReturnResponse, Channel!EndAnswered
  <2> QED
    BY <2>3, <2>4 DEF Channel!Next, MessageResponse
<1>5. ASSUME NEW s \in Sender, WaitTimeout(s) PROVE Channel!Next
  <2>1. Channel!EndUnanswered(s, "Unknown")
    BY <1>5 DEF WaitTimeout, TimeoutResponse, LockInv, Channel!EndUnanswered
  <2> QED
    BY <2>1 DEF Channel!Next
<1>6. CASE ReaderStep
  BY <1>6, ChannelStutter DEF ReaderStep, DataReceived, ReaderLockPort
<1>7. ASSUME NEW t \in Thread,
             \/ ReadInput(t) \/ ReadResponse(t) \/ ReadMessage(t)
             \/ EndRead(t) \/ QueueBatch(t)
      PROVE  UNCHANGED Channel!vars
  BY <1>7, ChannelStutter, ReadKeeps DEF ReadResponse, ReadMessage, EndRead, QueueBatch
<1>8. ASSUME NEW t \in Thread, ReadFails(t) PROVE Channel!Next \/ UNCHANGED Channel!vars
  <2>1. CASE t = Reader
    BY <1>8, <2>1, ChannelStutter DEF ReadFails
  <2>2. CASE t # Reader
    <3>1. t \in Sender /\ thisLock = t
      BY <1>8, <2>2 DEF ReadFails, LockInv
    <3>2. Channel!EndUnanswered(t, "Exception")
      BY <1>8, <2>2, <3>1 DEF ReadFails, Channel!EndUnanswered
    <3> QED
      BY <3>1, <3>2 DEF Channel!Next
  <2> QED
    BY <2>1, <2>2
<1>9. ASSUME NEW b \in pool, DeliverMessage(b) PROVE Channel!Next
  <2>1. \A i \in DOMAIN delivered : delivered[i] # Head(b)
    BY <1>9, HandledPlaces
  <2>2. Head(b) \in InPool
    <3>1. b \in Seq(EventId) /\ b # <<>>
      BY DEF TypeOK
    <3>2. Head(b) \in Elements(b)
      BY <3>1, SeqMembers
    <3> QED
      BY <3>2 DEF InPool
  <2>3. Head(b) \in 1..MaxEvents
    BY <2>2, BoundAssumption DEF PlacedInv, KnownInv, HolderInv, TypeOK
  <2>4. Channel!Hand(Head(b))
    BY <1>9, <2>1 DEF DeliverMessage, Channel!Hand
  <2> QED
    BY <2>3, <2>4 DEF Channel!Next
<1>10. ASSUME NEW st \in Status, ModemAnswer(st) PROVE Channel!Next
  <2>1. PICK r \in modem : ModemAnswer(st)!(r)
    BY <1>10 DEF ModemAnswer
  <2> DEFINE v == [id |-> r.id, status |-> st]
  <2>2. /\ verdict' = verdict \union {v}
        /\ UNCHANGED <<thisLock, result, delivered, taken>>
    BY <2>1
  <2>3. v \notin verdict
    BY DEF FlightInv
  <2>4. Cardinality(verdict') = Cardinality(verdict) + 1
    BY <2>2, <2>3, FS_AddElement DEF FlightInv
  <2>5. {ResponseTo[w.status] : w \in verdict'}
          = {ResponseTo[w.status] : w \in verdict} \union {ResponseTo[st]}
    <3>1. v.status = st
      OBVIOUS
    <3> HIDE DEF v
    <3> QED
      BY <2>2, <3>1
  <2>6. ResponseTo[st] \in {"Ack", "Nack", "Unknown"}
    BY DEF ResponseTo, Status
  <2>7. Channel!Answered(ResponseTo[st])
    BY <1>t, <2>2, <2>4, <2>5 DEF Channel!Answered
  <2> QED
    BY <2>6, <2>7 DEF Channel!Next
<1>11. CASE ModemLoses \/ ModemSends
  BY <1>11, ChannelStutter DEF ModemLoses, ModemSends
<1>12. CASE Quiescent \/ UNCHANGED vars
  BY <1>12, ChannelStutter DEF Quiescent, vars
<1> QED
  BY <1>1, <1>2, <1>3, <1>4, <1>5, <1>6, <1>7, <1>8, <1>9, <1>10, <1>11, <1>12
     DEF Next, SenderStep, ReadStep, PoolStep, ModemStep

\* The open port satisfies every invariant above.
LEMMA ChannelInvariants ==
  Init => /\ LockInv /\ ProvenanceInv
          /\ ChunkInv /\ FlightInv /\ CreditInv
          /\ ResponseSeen /\ HolderInv /\ PlacedInv
<1> SUFFICES ASSUME Init PROVE ResponseSeen /\ HolderInv
  BY InitialInvariants, CreditInit, PlacedInit
<1> QED
  BY BoundAssumption DEF Init, ResponseSeen, SomeAnswered, HolderInv
-----------------------------------------------------------------------------
(***************************************************************************)
(* The theorems.                                                           *)
(***************************************************************************)
\* Each command's answer is in one place at most, and what ended a wait or still
\* can end one never exceeds what the modem has answered.
THEOREM AnswersCounted == Spec => [](ChunkInv /\ FlightInv /\ CreditInv)
BY ChannelInvariants, ChunkStep, FlightStep, CreditStep, TypeCorrect, LockCorrect,
   ProvenanceCorrect, PTL DEF Spec

\* Whatever is late, lost or cut, no more waits are ended by answers than answers were
\* given, and no answer ends two waits as long as no read has thrown.
THEOREM AnswersSpentOnce == Spec => []AnswersEndOneWait
<1>1. Init => EndedInv
  BY DEF Init, EndedInv
<1> QED
  BY <1>1, EndedStep, AnswersCounted, CreditAnswers, TypeCorrect, LockCorrect,
     ProvenanceCorrect, PTL DEF Spec

\* Every message that the modem has sent is in one place.
THEOREM MessagesPlaced == Spec => []PlacedInv
BY ChannelInvariants, AnswersCounted, PlacedStep, TypeCorrect, PTL DEF Spec

\* CommunicationDevice implements CommandChannel.
THEOREM ChannelImplemented == Spec => ImplementsChannel
<1>1. Spec => [](ResponseSeen /\ HolderInv)
  BY ChannelInvariants, SeenStep, HolderStep, TypeCorrect, LockCorrect, ProvenanceCorrect,
     PTL DEF Spec
<1> QED
  BY <1>1, ChannelInit, ChannelStep, AnswersCounted, MessagesPlaced, TypeCorrect,
     LockCorrect, ProvenanceCorrect, PTL DEF Spec, ImplementsChannel, Channel!Spec

\* Undisturbed, no message is given up.
LostInv == Undisturbed => lost = {}

\* Only a read that throws or cuts a message, or a parser that a read has left in
\* MESSAGE_DATA, gives up a message: with TimelyInv and PortInv, one step.
LEMMA LostStep ==
  TypeOK /\ PortInv /\ TimelyInv /\ LostInv /\ [Next]_vars => LostInv'
<1> SUFFICES ASSUME TypeOK, PortInv, TimelyInv, LostInv, [Next]_vars, ~late', ~overlap'
             PROVE  lost' = {}
  BY DEF LostInv, Undisturbed
<1>a. ASSUME ~late, ~overlap PROVE lost = {} /\ state = "START" /\ TimelyFrames
  BY <1>a DEF LostInv, TimelyInv, Timely, Undisturbed
<1>1. ASSUME UNCHANGED <<late, overlap, lost>> PROVE lost' = {}
  BY <1>1, <1>a
<1>2. ASSUME NEW s \in Sender, NEW c \in Command, Call(s, c) PROVE lost' = {}
  BY <1>1, <1>2 DEF Call
<1>c. ASSUME NEW t \in Thread, CountInput(t), UNCHANGED <<late, lost>> PROVE lost' = {}
  BY <1>a, <1>c, CountKeeps
<1>3. ASSUME NEW s \in Sender, SenderStep(s) PROVE lost' = {}
  <2>1. CASE ClearInput(s)
    BY <1>c, <2>1 DEF ClearInput
  <2>2. CASE WaitTimeout(s)
    BY <2>2 DEF WaitTimeout
  <2> QED
    BY <1>1, <1>3, <2>1, <2>2
       DEF SenderStep, LockThis, WriteCommand, WaitSignalled, ReturnResponse
<1>4. CASE ReaderStep
  <2>1. CASE DataReceived
    BY <1>c, <2>1 DEF DataReceived
  <2> QED
    BY <1>1, <1>4, <2>1 DEF ReaderStep, ReaderLockPort
<1>r. ASSUME NEW t \in Thread, ReadInput(t) PROVE lost' = {}
  <2>1. ~late /\ ~overlap
    BY <1>r, ReadKeeps
  <2>2. count[t] <= Len(input) /\ input \in Seq(Frame) /\ count \in [Thread -> Nat]
    BY <2>1 DEF PortInv, TypeOK
  <2>3. ReadPort(t)
    BY <1>r, <2>2 DEF ReadInput, ReadCutAnswer, ReadCutMessage
  <2> QED
    BY <1>a, <2>1, <2>3 DEF ReadPort
<1>5. ASSUME NEW t \in Thread, ReadResponse(t) \/ ReadMessage(t) PROVE lost' = {}
  BY <1>a, <1>5 DEF ReadResponse, ReadMessage, FrameConsumed
<1>6. ASSUME NEW t \in Thread, ReadFails(t) PROVE lost' = {}
  <2>1. /\ UNCHANGED <<late, overlap>> /\ pc[t] = "reading" /\ chunk[t] # <<>>
        /\ IF state = "START" THEN CastFails(Head(chunk[t])) ELSE data = NullData
    BY <1>6 DEF ReadFails, ParsesWell
  <2> QED
    BY <1>a, <2>1, TimelyRead
<1>7. ASSUME NEW t \in Thread, EndRead(t) \/ QueueBatch(t) PROVE lost' = {}
  BY <1>1, <1>7 DEF EndRead, QueueBatch
<1>8. CASE PoolStep \/ ModemStep
  BY <1>1, <1>8 DEF PoolStep, DeliverMessage, ModemStep, ModemAnswer, ModemLoses, ModemSends
<1>9. CASE Quiescent \/ UNCHANGED vars
  BY <1>1, <1>9 DEF Quiescent, vars
<1> QED
  BY <1>2, <1>3, <1>4, <1>r, <1>5, <1>6, <1>7, <1>8, <1>9 DEF Next, ReadStep

\* Whichever thread reads it, a message of the modem's own is handed on exactly once;
\* it is given up only after some wait has timed out or two threads were after the
\* same bytes.
THEOREM MessagesConserved == Spec => []EventsConserved
<1>1. Init => LostInv
  BY DEF Init, LostInv
<1>2. TypeOK /\ PlacedInv /\ LostInv => EventsConserved
  BY OnePlace DEF TypeOK, LostInv, EventsConserved
<1> QED
  BY <1>1, <1>2, LostStep, OneAnswerUnderWay, PortCorrect, MessagesPlaced, TypeCorrect,
     PTL DEF Spec
=============================================================================
