------------------------- MODULE CommunicationDevice -------------------------
(***************************************************************************)
(* The serial link to the power line modem:                                *)
(* Automation/Insteon/CommunicationDevice.cs.                              *)
(*                                                                         *)
(* Sender threads call SendCommand.  One thread at a time, the serial      *)
(* port's event thread Reader, runs port_DataReceived.  Batches of         *)
(* received messages are handed to the thread pool.  The modem is external: *)
(* it answers the commands it was sent in order, at any time or never, and *)
(* sends messages of its own.                                              *)
(*                                                                         *)
(* Granularity: the wire carries whole messages ("frames"), and all frames *)
(* are as long as one another; MessageParser models the bytes.  A thread   *)
(* counts what is buffered and reads it in two steps: another thread may   *)
(* read the same frames in between, and then Read waits for others, or     *)
(* gets fewer than were counted and the last one cut, its missing bytes    *)
(* parsed as zeros.                                                        *)
(* Timeouts are free: a wait whose event is not signalled may time out.    *)
(***************************************************************************)
EXTENDS Naturals, Sequences, FiniteSets

CONSTANTS
  Sender,          \* threads that call SendCommand
  Reader,          \* the thread that runs the port's DataReceived event
  InsteonCommand,  \* SendInsteonMessage commands; they differ by payload
  BasicCommand,    \* commands of pairwise different types, without payload
  NoThread,        \* a lock nobody holds
  NoCommand,       \* the command field of a frame that answers nothing
  MaxCalls,        \* bound: no new call once so many commands are written
  MaxEvents        \* bound: messages the modem sends of its own accord

Thread  == Sender \union {Reader}
Command == InsteonCommand \union BasicCommand
CallId  == Nat \ {0}
EventId == Nat \ {0}

ASSUME ThreadAssumption  == Reader \notin Sender /\ NoThread \notin Thread
ASSUME CommandAssumption == /\ InsteonCommand \intersect BasicCommand = {}
                            /\ NoCommand \notin Command
ASSUME BoundAssumption   == MaxCalls \in Nat /\ MaxEvents \in Nat

\* MessageResponse, and what a caller can see of a call besides: nothing yet,
\* or the exception that ended it.
MessageResponse == {"Ack", "Nack", "Invalid", "Unknown"}
Outcome         == MessageResponse \union {"none", "Exception"}

\* The status byte that ends an answer: 0x06, 0x15, or anything else.  An answer
\* of which Read got only a part has lost this byte, or bytes of its payload too.
Status      == {"ACK", "NACK", "other"}
CutStatus   == {"cutStatus", "cutPayload"}
FrameStatus == Status \union CutStatus

\* A frame is the answer to command number id, or message number event of the
\* modem's own.
Answer(id, cmd, status) == [event |-> 0, id |-> id, cmd |-> cmd, status |-> status]
Message(e) == [event |-> e, id |-> 0, cmd |-> NoCommand, status |-> "none"]
Frame == [event : {0}, id : CallId, cmd : Command, status : FrameStatus]
           \union [event : EventId, id : {0}, cmd : {NoCommand}, status : {"none"}]

\* The two values of the byte array "data" that come from no frame: null, and
\* the empty array of an answer that nobody waits for (MessageFactory.cs:81).
NullData  == [event |-> 0, id |-> 0, cmd |-> NoCommand, status |-> "null"]
EmptyData == [event |-> 0, id |-> 0, cmd |-> NoCommand, status |-> "empty"]

\* What "sending" refers to: the command and the number of its call.
Request   == [id : CallId, cmd : Command]
NoRequest == [id |-> 0, cmd |-> NoCommand]

VARIABLES
  pc,              \* where each thread is
  thisLock,        \* who holds lock(this)
  portLock,        \* who holds lock(port); reentrant in the code
  command,         \* the argument of each sender's SendCommand
  call,            \* the number of each sender's last written command
  result,          \* what each sender's last call returned
  sending,
  sendingResponse,
  receivedAck,     \* the auto-reset event
  state,           \* the parser's state between frames
  data,            \* the parser's buffer
  count,           \* BytesToRead as a thread saw it, until its Read; in frames
  chunk,           \* frames a thread has taken from the port, not yet parsed
  batch,           \* receivedMessages of a thread inside ReadMessages
  pool,            \* queued work items, each a sequence of message numbers
  delivered,       \* messages passed to the ReceivedMessage handler, in order
  input,           \* the serial port's receive buffer
  modem,           \* the requests the modem has yet to answer
  written,         \* history: how many commands were written
  verdict,         \* history: the numbers the modem answered, with the status
  emitted,         \* history: how many messages of its own the modem sent
  lost,            \* history: messages that never reach a handler
  taken,           \* history: how many waits the event has ended
  signal,          \* history: the number of the answer that set the event last
  ended,           \* history: which answer ended the wait of which call
  late,            \* history: some wait has timed out
  overlap,         \* history: a thread counted frames while another one had
                   \*   counted or read some that it was not yet parsing
  aborted,         \* history: some read has thrown
  crashed          \* an exception escaped on the event thread

protocolVars == <<sending, sendingResponse, receivedAck, state, data>>
callVars     == <<command, call, result>>
readVars     == <<count, chunk, batch>>
poolVars     == <<pool, delivered>>
modemVars    == <<modem, verdict, emitted>>
endVars      == <<taken, signal, ended>>
faultVars    == <<late, overlap, aborted, crashed>>
vars == <<pc, thisLock, portLock, callVars, protocolVars, readVars, poolVars,
          input, modemVars, written, lost, endVars, faultVars>>

(***************************************************************************)
(* The state once the port is open (OpenPort empties both buffers) and     *)
(* FluffInsteon has subscribed to ReceivedMessage.  sendingResponse is the *)
(* default of its enumeration, Ack.                                        *)
(***************************************************************************)
Init ==
  /\ pc = [t \in Thread |-> "idle"]
  /\ thisLock = NoThread
  /\ portLock = NoThread
  /\ command = [s \in Sender |-> NoCommand]
  /\ call = [s \in Sender |-> 0]
  /\ result = [s \in Sender |-> "none"]
  /\ sending = NoRequest
  /\ sendingResponse = "Ack"
  /\ receivedAck = FALSE
  /\ state = "START"
  /\ data = NullData
  /\ count = [t \in Thread |-> 0]
  /\ chunk = [t \in Thread |-> <<>>]
  /\ batch = [t \in Thread |-> <<>>]
  /\ pool = {}
  /\ delivered = <<>>
  /\ input = <<>>
  /\ modem = {}
  /\ written = 0
  /\ verdict = {}
  /\ emitted = 0
  /\ lost = {}
  /\ taken = 0
  /\ signal = 0
  /\ ended = {}
  /\ late = FALSE
  /\ overlap = FALSE
  /\ aborted = FALSE
  /\ crashed = FALSE

Goto(t, label) == pc' = [pc EXCEPT ![t] = label]

SameType(c, d) == c = d \/ {c, d} \subseteq InsteonCommand

\* A lock can be taken when nobody holds it.
ThisLockIgnored == TRUE            \* mutant: SendCommand without lock(this)
ThisLockFree    == thisLock = NoThread

\* BytesToRead.  A thread is between when it has counted or read frames that it
\* is not yet parsing.
Between(t) == count[t] > 0 \/ (chunk[t] # <<>> /\ pc[t] # "reading")
CountInput(t) ==
  /\ count' = [count EXCEPT ![t] = Len(input)]
  /\ overlap' = (overlap \/ (input # <<>> /\ \E u \in Thread \ {t} : Between(u)))

\* What n frames read leave in the port.
NothingLeft(n) == <<>>             \* mutant: what came after the count is discarded
InputLeft(n)   == SubSeq(input, n + 1, Len(input))

\* Read returns up to count frames, and waits while there is none.
Readable(t) == IF count[t] <= Len(input) THEN count[t] ELSE Len(input)
Blocked(t)  == pc[t] = "read" /\ count[t] > 0 /\ input = <<>>

\* receivedAck after a wait that it ended.
ManualReset == TRUE                \* mutant: a ManualResetEvent
AutoReset   == FALSE

\* Who holds the port once the command is written.
PortKept          == portLock      \* mutant: the wait moves inside lock(port)
PortAfterWriting  == NoThread

\* What a wait that times out returns.
LastResponse    == sendingResponse \* mutant: whatever came last
TimeoutResponse == "Unknown"

\* VerifyResponse: the payload must be echoed, then the status byte decides.
ResponseTo == [ACK |-> "Ack", NACK |-> "Nack", other |-> "Unknown",
               cutStatus |-> "Unknown", cutPayload |-> "Invalid"]
AckUnlessNack(cmd, frame) ==       \* mutant: anything but a NACK is an ACK
  IF frame.cmd # cmd THEN "Invalid"
  ELSE IF frame.status = "NACK" THEN "Nack" ELSE "Ack"
VerifyResponse(cmd, frame) ==
  IF frame.cmd = cmd THEN ResponseTo[frame.status] ELSE "Invalid"
-----------------------------------------------------------------------------
(***************************************************************************)
(* SendCommand.                                                            *)
(***************************************************************************)
Call(s, c) ==
  /\ ~crashed
  /\ pc[s] = "idle"
  /\ written < MaxCalls
  /\ command' = [command EXCEPT ![s] = c]
  /\ call' = [call EXCEPT ![s] = 0]
  /\ result' = [result EXCEPT ![s] = "none"]
  /\ Goto(s, "lockThis")
  /\ UNCHANGED <<thisLock, portLock, protocolVars, readVars, poolVars, input,
                 modemVars, written, lost, endVars, faultVars>>

LockThis(s) ==
  /\ ~crashed
  /\ pc[s] = "lockThis"
  /\ ThisLockFree
  /\ thisLock' = s
  /\ Goto(s, "lockPort")
  /\ UNCHANGED <<portLock, callVars, protocolVars, readVars, poolVars, input,
                 modemVars, written, lost, endVars, faultVars>>

\* "Clear input first": port_DataReceived, called with the port locked.
ClearInput(s) ==
  /\ ~crashed
  /\ pc[s] = "lockPort"
  /\ portLock = NoThread
  /\ portLock' = s
  /\ CountInput(s)
  /\ Goto(s, "read")
  /\ UNCHANGED <<thisLock, callVars, protocolVars, chunk, batch, poolVars, input,
                 modemVars, written, lost, endVars, late, aborted, crashed>>

WriteCommand(s) ==
  /\ ~crashed
  /\ pc[s] = "write"
  /\ written' = written + 1
  /\ call' = [call EXCEPT ![s] = written + 1]
  /\ sending' = [id |-> written + 1, cmd |-> command[s]]
  /\ modem' = modem \union {[id |-> written + 1, cmd |-> command[s]]}
  /\ portLock' = PortAfterWriting
  /\ Goto(s, "waiting")
  /\ UNCHANGED <<thisLock, command, result, sendingResponse, receivedAck, state,
                 data, readVars, poolVars, input, verdict, emitted, lost, endVars, faultVars>>

\* WaitForResponse: the event ends the wait and resets itself; the response is
\* read afterwards, outside lock(port).
WaitSignalled(s) ==
  /\ ~crashed
  /\ pc[s] = "waiting"
  /\ receivedAck
  /\ receivedAck' = AutoReset
  /\ ended' = ended \union {[call |-> call[s], answer |-> signal]}
  /\ Goto(s, "answered")
  /\ UNCHANGED <<thisLock, portLock, callVars, sending, sendingResponse, state,
                 data, readVars, poolVars, input, modemVars, written, lost, taken,
                 signal, faultVars>>

ReturnResponse(s) ==
  /\ ~crashed
  /\ pc[s] = "answered"
  /\ result' = [result EXCEPT ![s] = sendingResponse]
  /\ taken' = taken + 1
  /\ thisLock' = NoThread
  /\ Goto(s, "idle")
  /\ UNCHANGED <<portLock, command, call, protocolVars, readVars, poolVars,
                 input, modemVars, written, lost, signal, ended, faultVars>>

\* The wait times out; "sending" still refers to the abandoned command.
WaitTimeout(s) ==
  /\ ~crashed
  /\ pc[s] = "waiting"
  /\ ~receivedAck
  /\ result' = [result EXCEPT ![s] = TimeoutResponse]
  /\ late' = TRUE
  /\ thisLock' = NoThread
  /\ Goto(s, "idle")
  /\ UNCHANGED <<portLock, command, call, protocolVars, readVars, poolVars,
                 input, modemVars, written, lost, endVars, overlap, aborted,
                 crashed>>
-----------------------------------------------------------------------------
(***************************************************************************)
(* port_DataReceived and ReadMessages, run by Reader or, inside            *)
(* SendCommand, by a sender that already holds the port.                   *)
(***************************************************************************)
DataReceived ==
  /\ ~crashed
  /\ pc[Reader] = "idle"
  /\ input # <<>>
  /\ CountInput(Reader)
  /\ Goto(Reader, "read")
  /\ UNCHANGED <<thisLock, portLock, callVars, protocolVars, chunk, batch, poolVars,
                 input, modemVars, written, lost, endVars, late, aborted, crashed>>

\* Where a thread goes on once it has read: the event thread locks the port.
AfterRead(t) == IF t = Reader THEN "lockPort" ELSE "reading"

\* Read, without the port locked on the event thread.  How much it returned is
\* not looked at.
ReadPort(t) ==
  /\ ~crashed
  /\ pc[t] = "read"
  /\ ~Blocked(t)
  /\ chunk' = [chunk EXCEPT ![t] = SubSeq(input, 1, Readable(t))]
  /\ input' = InputLeft(Readable(t))
  /\ count' = [count EXCEPT ![t] = 0]
  /\ Goto(t, AfterRead(t))
  /\ UNCHANGED <<thisLock, portLock, callVars, protocolVars, batch, poolVars,
                 modemVars, written, lost, endVars, faultVars>>

\* Read returns less than was counted and ends within an answer: zeros take the
\* place of the status, or of the payload too; the rest, when it comes, is
\* skipped.
ReadCutAnswer(t, status) ==
  LET n == Len(input) IN
  /\ ~crashed
  /\ pc[t] = "read"
  /\ 0 < n /\ n < count[t]
  /\ input[n].event = 0
  /\ status = "cutPayload" => input[n].cmd \in InsteonCommand
  /\ chunk' = [chunk EXCEPT ![t] = [input EXCEPT ![n].status = status]]
  /\ input' = <<>>
  /\ count' = [count EXCEPT ![t] = 0]
  /\ Goto(t, AfterRead(t))
  /\ UNCHANGED <<thisLock, portLock, callVars, protocolVars, batch, poolVars,
                 modemVars, written, lost, endVars, faultVars>>

\* Or it ends within a message of the modem's own, which is lost: what is handed
\* on for it has zeros in the place of its last bytes.
ReadCutMessage(t) ==
  LET n == Len(input) IN
  /\ ~crashed
  /\ pc[t] = "read"
  /\ 0 < n /\ n < count[t]
  /\ input[n].event # 0
  /\ chunk' = [chunk EXCEPT ![t] = SubSeq(input, 1, n - 1)]
  /\ lost' = lost \union {input[n].event}
  /\ input' = <<>>
  /\ count' = [count EXCEPT ![t] = 0]
  /\ Goto(t, AfterRead(t))
  /\ UNCHANGED <<thisLock, portLock, callVars, protocolVars, batch, poolVars,
                 modemVars, written, endVars, faultVars>>

ReadInput(t) ==
  \/ ReadPort(t)
  \/ \E status \in CutStatus : ReadCutAnswer(t, status)
  \/ ReadCutMessage(t)

ReaderLockPort ==
  /\ ~crashed
  /\ pc[Reader] = "lockPort"
  /\ portLock = NoThread
  /\ portLock' = Reader
  /\ Goto(Reader, "reading")
  /\ UNCHANGED <<thisLock, callVars, protocolVars, readVars, poolVars, input,
                 modemVars, written, lost, endVars, faultVars>>

\* SizeOfMessage casts "sending" to StandardMessage when the echo of a
\* SendInsteonMessage arrives, whatever the type of "sending".
CastFails(f) ==
  /\ f.cmd \in InsteonCommand
  /\ sending # NoRequest
  /\ sending.cmd \notin InsteonCommand

\* The frame whose last byte completes a message.  After a failed cast the
\* parser is still in MESSAGE_DATA, with the SendInsteonMessage type and an old
\* full buffer: the next byte completes that instead.
Completed(f) == IF state = "START" THEN f ELSE data

Responds(f) ==
  /\ sending # NoRequest
  /\ IF state = "START" THEN f.event = 0 /\ SameType(f.cmd, sending.cmd)
                        ELSE sending.cmd \in InsteonCommand

ParsesWell(t) ==
  /\ pc[t] = "reading"
  /\ chunk[t] # <<>>
  /\ IF state = "START" THEN ~CastFails(Head(chunk[t])) ELSE data # NullData

\* One frame has been read: state and data after it.
FrameConsumed(t) ==
  LET f == Head(chunk[t]) IN
  /\ chunk' = [chunk EXCEPT ![t] = Tail(@)]
  /\ state' = "START"
  /\ data' = IF state # "START" THEN data
             ELSE IF f.cmd \in InsteonCommand /\ sending = NoRequest THEN EmptyData
             ELSE f
  \* A byte of f completed an old buffer: f itself is not read.
  /\ lost' = IF state # "START" /\ f.event # 0 THEN lost \union {f.event} ELSE lost

\* A response to the command being sent.
ReadResponse(t) ==
  LET f == Head(chunk[t]) IN
  /\ ~crashed
  /\ ParsesWell(t)
  /\ Responds(f)
  /\ FrameConsumed(t)
  /\ sendingResponse' = VerifyResponse(sending.cmd, Completed(f))
  /\ sending' = NoRequest
  /\ receivedAck' = TRUE
  /\ signal' = Completed(f).id
  /\ UNCHANGED <<pc, thisLock, portLock, callVars, count, batch, poolVars, input,
                 modemVars, written, taken, ended,
                 faultVars>>

\* Anything else: the modem's own messages join the batch, answers that nobody
\* waits for are dropped (GetReceivedMessage returns null).
ReadMessage(t) ==
  LET f == Head(chunk[t]) IN
  /\ ~crashed
  /\ ParsesWell(t)
  /\ ~Responds(f)
  /\ FrameConsumed(t)
  /\ batch' = IF state = "START" /\ f.event # 0
                THEN [batch EXCEPT ![t] = Append(@, f.event)] ELSE batch
  /\ UNCHANGED <<pc, thisLock, portLock, callVars, sending, sendingResponse,
                 receivedAck, count, poolVars, input, modemVars, written, endVars, faultVars>>

EventsIn(frames) == {frames[i].event : i \in DOMAIN frames} \ {0}
Elements(seq)    == {seq[i] : i \in DOMAIN seq}

\* The parser's state when the cast, or the access to a null buffer, throws:
\* assigned at 145, before the size is computed.
StateNotAssigned == "MESSAGE_TYPE"   \* mutant: 145 and 146 swapped
StateAfterThrow  == "MESSAGE_DATA"

\* InvalidCastException, or a null buffer: the locks are released and the rest
\* of the chunk and the batch are gone.  A sender passes the exception to its
\* caller; on the event thread nothing catches it.
ReadFails(t) ==
  /\ ~crashed
  /\ pc[t] = "reading"
  /\ chunk[t] # <<>>
  /\ ~ParsesWell(t)
  /\ state' = StateAfterThrow
  /\ lost' = lost \union EventsIn(chunk[t]) \union Elements(batch[t])
  /\ chunk' = [chunk EXCEPT ![t] = <<>>]
  /\ batch' = [batch EXCEPT ![t] = <<>>]
  /\ portLock' = NoThread
  /\ aborted' = TRUE
  /\ Goto(t, "idle")
  /\ IF t = Reader
       THEN /\ crashed' = TRUE
            /\ UNCHANGED <<thisLock, result>>
       ELSE /\ thisLock' = NoThread
            /\ result' = [result EXCEPT ![t] = "Exception"]
            /\ UNCHANGED crashed
  /\ UNCHANGED <<command, call, sending, sendingResponse, receivedAck, data,
                 count, poolVars, input, modemVars, written, endVars, late,
                 overlap>>

\* The end of lock(port) in ReadMessages; a sender holds the port once more.
EndRead(t) ==
  /\ ~crashed
  /\ pc[t] = "reading"
  /\ chunk[t] = <<>>
  /\ portLock' = IF t = Reader THEN NoThread ELSE portLock
  /\ Goto(t, "queue")
  /\ UNCHANGED <<thisLock, callVars, protocolVars, readVars, poolVars, input,
                 modemVars, written, lost, endVars, faultVars>>

\* An empty batch is queued too, without effect.
HasMessagesOfReader(t) == batch[t] # <<>> /\ t = Reader  \* mutant: a sender queues nothing
HasMessages(t)         == batch[t] # <<>>

\* One work item for the whole batch.
QueueBatch(t) ==
  /\ ~crashed
  /\ pc[t] = "queue"
  /\ pool' = IF HasMessages(t) THEN pool \union {batch[t]} ELSE pool
  /\ batch' = [batch EXCEPT ![t] = <<>>]
  /\ Goto(t, IF t = Reader THEN "idle" ELSE "write")
  /\ UNCHANGED <<thisLock, portLock, callVars, protocolVars, count, chunk, delivered,
                 input, modemVars, written, lost, endVars, faultVars>>

\* The queued work once the first message of b is handled.
NothingDone(b) == pool               \* mutant: the message stays on its work item
Remaining(b)   == (pool \ {b}) \union ({Tail(b)} \ {<<>>})

\* A pool thread passes the next message of its work item to the handler;
\* work items run concurrently.
DeliverMessage(b) ==
  /\ ~crashed
  /\ b \in pool
  /\ delivered' = Append(delivered, Head(b))
  /\ pool' = Remaining(b)
  /\ UNCHANGED <<pc, thisLock, portLock, callVars, protocolVars, readVars, input,
                 modemVars, written, lost, endVars, faultVars>>
-----------------------------------------------------------------------------
(***************************************************************************)
(* The modem and the serial line (external).                               *)
(***************************************************************************)
ModemAnswer(status) ==
  \E r \in modem :
    /\ ~crashed
    /\ \A q \in modem : r.id <= q.id
    /\ modem' = modem \ {r}
    /\ verdict' = verdict \union {[id |-> r.id, status |-> status]}
    /\ input' = Append(input, Answer(r.id, r.cmd, status))
    /\ UNCHANGED <<pc, thisLock, portLock, callVars, protocolVars, readVars,
                   poolVars, emitted, written, lost, endVars, faultVars>>

\* The modem drops a command, or the line garbles the answer.
ModemLoses ==
  \E r \in modem :
    /\ ~crashed
    /\ modem' = modem \ {r}
    /\ UNCHANGED <<pc, thisLock, portLock, callVars, protocolVars, readVars,
                   poolVars, input, verdict, emitted, written, lost, endVars, faultVars>>

ModemSends ==
  /\ ~crashed
  /\ emitted < MaxEvents
  /\ emitted' = emitted + 1
  /\ input' = Append(input, Message(emitted + 1))
  /\ UNCHANGED <<pc, thisLock, portLock, callVars, protocolVars, readVars,
                 poolVars, modem, verdict, written, lost, endVars, faultVars>>

\* Nothing left to do, within the bounds; the process is gone; or a thread waits
\* in Read for good.
Quiescent ==
  /\ \/ crashed
     \/ \E t \in Thread : Blocked(t)
     \/ /\ \A t \in Thread : pc[t] = "idle"
        /\ pool = {} /\ input = <<>>
  /\ UNCHANGED vars
-----------------------------------------------------------------------------
SenderStep(s) ==
  \/ LockThis(s) \/ ClearInput(s) \/ WriteCommand(s)
  \/ WaitSignalled(s) \/ ReturnResponse(s) \/ WaitTimeout(s)

ReaderStep == DataReceived \/ ReaderLockPort

ReadStep(t) ==
  \/ ReadInput(t) \/ ReadResponse(t) \/ ReadMessage(t) \/ ReadFails(t)
  \/ EndRead(t) \/ QueueBatch(t)

PoolStep == \E b \in pool : DeliverMessage(b)

ModemStep == (\E status \in Status : ModemAnswer(status)) \/ ModemLoses \/ ModemSends

Next ==
  \/ \E s \in Sender, c \in Command : Call(s, c)
  \/ \E s \in Sender : SenderStep(s)
  \/ ReaderStep
  \/ \E t \in Thread : ReadStep(t)
  \/ PoolStep
  \/ ModemStep
  \/ Quiescent

Spec == Init /\ [][Next]_vars

\* Threads run; a wait that is not signalled times out.  Nothing is assumed of
\* the modem or of the callers.
Fairness ==
  /\ \A s \in Sender : WF_vars(SenderStep(s) \/ ReadStep(s))
  /\ WF_vars(ReaderStep \/ ReadStep(Reader))
  /\ WF_vars(PoolStep)

FairSpec == Spec /\ Fairness
-----------------------------------------------------------------------------
(***************************************************************************)
(* Correctness.                                                            *)
(***************************************************************************)
TypeOK ==
  /\ pc \in [Thread -> {"idle", "lockThis", "lockPort", "read", "reading", "queue",
                         "write", "waiting", "answered"}]
  /\ thisLock \in Sender \union {NoThread}
  /\ portLock \in Thread \union {NoThread}
  /\ command \in [Sender -> Command \union {NoCommand}]
  /\ \A s \in Sender : pc[s] # "idle" => command[s] \in Command
  /\ call \in [Sender -> Nat]
  /\ result \in [Sender -> Outcome]
  /\ sending \in Request \union {NoRequest}
  /\ sendingResponse \in MessageResponse
  /\ receivedAck \in BOOLEAN
  /\ state \in {"START", "MESSAGE_DATA"}
  /\ data \in Frame \union {NullData, EmptyData}
  /\ count \in [Thread -> Nat]
  /\ chunk \in [Thread -> Seq(Frame)]
  /\ batch \in [Thread -> Seq(EventId)]
  /\ pool \subseteq Seq(EventId) \ {<<>>}
  /\ delivered \in Seq(EventId)
  /\ input \in Seq(Frame)
  /\ modem \subseteq Request
  /\ written \in Nat
  /\ verdict \subseteq [id : CallId, status : Status]
  /\ emitted \in Nat
  /\ lost \subseteq EventId
  /\ taken \in Nat /\ signal \in Nat /\ ended \subseteq [call : Nat, answer : Nat]
  /\ late \in BOOLEAN /\ overlap \in BOOLEAN /\ aborted \in BOOLEAN
  /\ crashed \in BOOLEAN

Returned(s) == pc[s] = "idle" /\ result[s] # "none"

\* No wait has timed out, and no two threads have been after the same bytes.
Undisturbed == ~late /\ ~overlap

\* SendCommand (88-119) with WaitForResponse (192-203): as long as no wait has
\* timed out and no two threads were after the same bytes between 211 and 129, a
\* call returns the modem's verdict on the very command it wrote, whoever else is
\* calling and whatever the modem sends meanwhile, and ReadMessages throws nothing.
TimelyAnswer ==
  Undisturbed => /\ ~crashed
           /\ \A s \in Sender : Returned(s) =>
                \E v \in verdict : v.id = call[s] /\ result[s] = ResponseTo[v.status]

\* Timeouts, late answers and aborted reads included: an Ack or a Nack that
\* SendCommand returns was given by the modem, to this command or to an earlier
\* one; never the initial value of sendingResponse (49), never a status the
\* modem did not send.
NoForgedAnswer ==
  \A s \in Sender : Returned(s) /\ result[s] \in {"Ack", "Nack"} =>
    \E v \in verdict : v.id <= call[s] /\ result[s] = ResponseTo[v.status]

\* Late answers, overlaps and aborted reads included, no more waits are ended by
\* answers, or about to be, than answers were given (receivedAck, 161 and 195).
\* And as long as no read has thrown, no answer ends two waits: a read that throws
\* leaves an old answer in the buffer, which the next byte completes once more.
AnswersEndOneWait ==
  /\ taken + (IF receivedAck THEN 1 ELSE 0) + Cardinality({s \in Sender : pc[s] = "answered"})
       <= Cardinality(verdict)
  /\ ~aborted => \A e, f \in ended : e.answer = f.answer => e = f

\* The places where message e of the modem is: in the port, with a thread,
\* queued, handled, or given up.
Places(e) ==
  LET Of(q)      == {i \in DOMAIN q : q[i] = e}
      OfFrames(q) == {i \in DOMAIN q : q[i].event = e}
  IN  {<<"input", i>> : i \in OfFrames(input)}
        \union (UNION {{<<"chunk", i, t>> : i \in OfFrames(chunk[t])} : t \in Thread})
        \union (UNION {{<<"batch", i, t>> : i \in Of(batch[t])} : t \in Thread})
        \union (UNION {{<<"pool", i, b>> : i \in Of(b)} : b \in pool})
        \union {<<"delivered", i>> : i \in Of(delivered)}
        \union (IF e \in lost THEN {<<"lost">>} ELSE {})

\* ReadMessages (122-190): whichever thread reads it and whatever command is
\* outstanding, a message of the modem's own is handed on exactly once.  It is
\* given up only by a read that throws or cuts it, and none does as long as no
\* wait has timed out and no two threads were after the same bytes.
EventsConserved ==
  /\ \A e \in 1..emitted : Cardinality(Places(e)) = 1
  /\ lost # {} => ~Undisturbed

\* SendCommand (88-119): every call ends, by an answer, a timeout or an
\* exception, unless the process dies or a sender waits in Read, with both locks,
\* for bytes that another thread took.
CallsReturn ==
  \A s \in Sender :
    pc[s] = "lockThis" ~> (pc[s] = "idle" \/ crashed \/ \E u \in Sender : Blocked(u))

\* Every message the port receives reaches the ReceivedMessage handler, unless a
\* wait times out or two threads are after the same bytes.
MessagesDelivered ==
  \A e \in 1..MaxEvents :
    emitted >= e ~> (e \in Elements(delivered) \/ ~Undisturbed)

-----------------------------------------------------------------------------
(***************************************************************************)
(* Why TimelyAnswer and NoForgedAnswer hold: three inductive invariants.   *)
(***************************************************************************)
\* lock(this) is held from the first read of the port to the return, so the
\* last command written is that of the caller in WaitForResponse.
LockInv ==
  \A s \in Sender :
    /\ pc[s] \in {"lockPort", "read", "reading", "queue", "write", "waiting", "answered"}
         => thisLock = s
    /\ pc[s] \in {"waiting", "answered"} => call[s] = written

\* Every status byte in a frame is one the modem gave, and so is the response
\* that a set event announces.
IsGiven(f)        == f.status \in Status =>
                       [id |-> f.id, status |-> f.status] \in verdict
IsResponse(r, id) == \E v \in verdict : v.id <= id /\ r = ResponseTo[v.status]
ProvenanceInv ==
  /\ \A r \in modem : r.id <= written
  /\ \A v \in verdict : v.id <= written
  /\ \A i \in DOMAIN input : IsGiven(input[i])
  /\ \A t \in Thread : \A i \in DOMAIN chunk[t] : IsGiven(chunk[t][i])
  /\ IsGiven(data)
  /\ receivedAck \/ (\E s \in Sender : pc[s] = "answered") =>
       (sendingResponse \in {"Ack", "Nack"} => IsResponse(sendingResponse, written))

\* As long as nothing disturbs the exchange: the modem, the port and the threads hold
\* between them at most one answer, the answer to the command being sent, whose
\* caller waits for it; the event is set only when that answer has been read.
HasAnswer(q) == \E i \in DOMAIN q : q[i].event = 0
OneAnswer(q) == \A i, j \in DOMAIN q : q[i].event = 0 /\ q[j].event = 0 => i = j
AnswersSending(q) ==
  \A i \in DOMAIN q : q[i].event = 0 => q[i].id = sending.id /\ q[i].cmd = sending.cmd
TimelyFrames ==
  /\ \A r \in modem : r = sending
  /\ AnswersSending(input) /\ OneAnswer(input)
  /\ \A t \in Thread : AnswersSending(chunk[t]) /\ OneAnswer(chunk[t])
  /\ HasAnswer(input) => modem = {}
  /\ \A t \in Thread : HasAnswer(chunk[t]) =>
       /\ modem = {}
       /\ ~HasAnswer(input)
       /\ \A u \in Thread : HasAnswer(chunk[u]) => u = t
Genuine(s) == \E v \in verdict : v.id = call[s] /\ sendingResponse = ResponseTo[v.status]
TimelyWaits ==
  /\ \A s \in Sender : pc[s] = "waiting" =>
       \/ sending # NoRequest /\ sending.id = call[s] /\ ~receivedAck
       \/ sending = NoRequest /\ receivedAck /\ Genuine(s)
  /\ \A s \in Sender : pc[s] = "answered" =>
       sending = NoRequest /\ ~receivedAck /\ Genuine(s)
  /\ (\A s \in Sender : pc[s] # "waiting") => sending = NoRequest /\ ~receivedAck
Timely == ~crashed /\ state = "START" /\ TimelyFrames /\ TimelyWaits
TimelyInv == Undisturbed => Timely
-----------------------------------------------------------------------------
\* What the comment on SendCommand claims (CommunicationDevice.cs:84, "Sends a
\* command, verifies the ack."): Ack means that this command was acknowledged.
AckVerified ==
  \A s \in Sender : Returned(s) /\ result[s] = "Ack" =>
    [id |-> call[s], status |-> "ACK"] \in verdict

\* What FluffInsteon may rely on: SendCommand as one atomic exchange.
Channel == INSTANCE CommandChannel WITH
  Caller   <- Sender,
  NoCaller <- NoThread,
  Item     <- 1..MaxEvents,
  holder   <- thisLock,
  outcome  <- result,
  credit   <- Cardinality(verdict) - taken,
  seen     <- {ResponseTo[v.status] : v \in verdict},
  handed   <- delivered

\* The device implements the abstract channel of CommandChannel: commands one
\* at a time, an answer of the modem spent on at most one of them, no answer
\* invented, no message handed over twice.
ImplementsChannel == Channel!Spec
=============================================================================
