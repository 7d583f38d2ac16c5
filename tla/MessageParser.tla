---------------------------- MODULE MessageParser ----------------------------
(***************************************************************************)
(* The serial link byte by byte: how port_DataReceived and ReadMessages of  *)
(* Automation/Insteon/CommunicationDevice.cs find messages in the stream,   *)
(* with the sizes of Messages/MessageFactory.cs.                            *)
(*                                                                         *)
(* CommunicationDevice carries whole messages.  Here the bytes arrive in    *)
(* pieces of any length, and a thread counts the buffered bytes and reads   *)
(* them in two steps: the port's event thread does both before it locks the *)
(* port, a sender with the port locked.  Between the two the other thread   *)
(* may read the same bytes.                                                *)
(*                                                                         *)
(* The modem speaks of its own accord too, in all the types of the code's   *)
(* enumeration.  Three of them have a class and are handed on.  For the     *)
(* others SizeOfMessage says one byte, which some of them do not have.      *)
(*                                                                         *)
(* Parsing a buffer holds the port and is one step.  One sender is enough:  *)
(* lock(this) admits one at a time.  The modem is external.                 *)
(***************************************************************************)
EXTENDS Integers, Sequences, SequencesExt

CONSTANTS
  Command,       \* the commands to send: a type and a payload of bytes
  NoCommand,
  Message,       \* what the modem may say of its own accord: a type and a body
  MaxCalls,      \* bound: commands written
  MaxEvents      \* bound: messages the modem sends of its own accord

Byte == 0..255
START_OF_MESSAGE == 2
ACK  == 6
NACK == 21
StandardMessageReceived == 80
ExtendedMessageReceived == 81
AllLinkRecordResponse   == 87
\* The types of the modem's own messages, from 0x50 to 0x58.
OwnType == 80..88
GetImInfo               == 96
SendInsteonMessage      == 98
GetImConfiguration      == 115

\* The payloads of SendInsteonMessage: a standard packet and an extended one.
\* Of the other commands only those without payload are sent here, whose answer
\* is the status alone: the types with a longer answer or message are not.
PacketSizes == {6, 20}
StatusOnly == Byte \ (OwnType \union {GetImInfo, GetImConfiguration})

\* The types that MessageFactory.GetReceivedMessage has a class for.
HasClass(type) == type \in {StandardMessageReceived, ExtendedMessageReceived,
                            AllLinkRecordResponse}

\* The sizes that MessageFactory.SizeOfMessage knows: one byte for all other types.
FixedSize(type) ==
  CASE type = StandardMessageReceived -> 9
    [] type = ExtendedMessageReceived -> 23
    [] type = GetImConfiguration -> 4
    [] type = GetImInfo -> 7
    [] type = AllLinkRecordResponse -> 8
    [] OTHER -> 1

\* A message as it is found: its type and the bytes after the type.
Found == [type : Byte, body : Seq(Byte)]

ASSUME CommandAssumption ==
  /\ \A c \in Command : /\ c.type \in StatusOnly /\ c.payload \in Seq(Byte)
                        /\ IF c.type = SendInsteonMessage
                             THEN Len(c.payload) \in PacketSizes
                             ELSE c.payload = <<>>
  /\ NoCommand \notin Command
\* The sizes of the types with a class are right.
ASSUME MessageAssumption ==
  \A m \in Message : /\ m \in Found /\ m.type \in OwnType
                     /\ HasClass(m.type) => Len(m.body) = FixedSize(m.type)
ASSUME BoundAssumption == MaxCalls \in Nat /\ MaxEvents \in Nat

Thread == {"reader", "sender"}
NoThread == "nobody"

\* The size of a byte array that is null.
NoArray == -1

VARIABLES
  pc,                 \* where each thread is
  count,              \* BytesToRead, as each thread saw it
  buffer,             \* what it read, of count bytes
  portLock,
  parser,             \* the parser's fields, see Parser
  handed,             \* the messages handed to the thread pool, in order
  receivedAck,        \* the auto-reset event
  command,            \* the argument of SendCommand
  result,             \* what it returned
  crashed,            \* an exception escaped on the event thread
  line,               \* bytes the modem sent and nobody read
  arrived,            \* how many of them were seen in the port's buffer
  requests,           \* commands the modem has yet to answer
  written, events,
  sent,               \* history: the modem's own messages of types with a class
  status,             \* history: the status byte of the modem's last answer
  late,               \* history: a wait timed out
  overlap,            \* history: a thread counted between another's count and
                      \*   the parsing of what that one read
  unsized             \* history: the modem sent a message that is not of the size
                      \*   which SizeOfMessage gives its type

\* What ReadMessages works on: the state, the type and the array being filled
\* (its size and the bytes it has so far), sending and sendingResponse; and, for
\* one call, receivedMessages, whether it set receivedAck and whether it threw.
Parser == [state : {"START", "MESSAGE_TYPE", "MESSAGE_DATA"}, message : Byte,
           size : {NoArray} \union Nat, data : Seq(Byte),
           sending : Command \union {NoCommand},
           response : {"Ack", "Nack", "Invalid", "Unknown"},
           batch : Seq(Found), acked : BOOLEAN, thrown : BOOLEAN]

callVars  == <<command, result>>
modemVars == <<requests, sent, status, events, unsized>>
vars == <<pc, count, buffer, portLock, parser, handed, receivedAck, callVars, crashed,
          line, arrived, modemVars, written, late, overlap>>

TypeOK ==
  /\ pc \in [Thread -> {"idle", "lock", "count", "read", "parse", "write",
                        "waiting", "answered"}]
  /\ count \in [Thread -> Nat]
  /\ buffer \in [Thread -> Seq(Byte)]
  /\ portLock \in Thread \union {NoThread}
  /\ parser \in Parser
  /\ Len(parser.data) <= parser.size \/ parser.size = NoArray
  /\ handed \in Seq(Found)
  /\ receivedAck \in BOOLEAN
  /\ command \in Command \union {NoCommand}
  /\ result \in {"none", "Ack", "Nack", "Invalid", "Unknown", "Exception"}
  /\ crashed \in BOOLEAN
  /\ line \in Seq(Byte) /\ arrived \in 0..Len(line)
  /\ requests \in Seq(Command)
  /\ written \in Nat /\ events \in Nat
  /\ sent \in Seq(Message) /\ status \in {"none", "Ack", "Nack"}
  /\ late \in BOOLEAN /\ overlap \in BOOLEAN /\ unsized \in BOOLEAN

\* The port is open and both its buffers are empty.
Init ==
  /\ pc = [t \in Thread |-> "idle"]
  /\ count = [t \in Thread |-> 0]
  /\ buffer = [t \in Thread |-> <<>>]
  /\ portLock = NoThread
  /\ parser = [state |-> "START", message |-> 0, size |-> NoArray, data |-> <<>>,
               sending |-> NoCommand, response |-> "Ack", batch |-> <<>>,
               acked |-> FALSE, thrown |-> FALSE]
  /\ handed = <<>>
  /\ receivedAck = FALSE
  /\ command = NoCommand /\ result = "none"
  /\ crashed = FALSE
  /\ line = <<>> /\ arrived = 0
  /\ requests = <<>>
  /\ written = 0 /\ events = 0
  /\ sent = <<>> /\ status = "none"
  /\ late = FALSE /\ overlap = FALSE /\ unsized = FALSE

Goto(t, label) == pc' = [pc EXCEPT ![t] = label]
-----------------------------------------------------------------------------
(***************************************************************************)
(* The parser.                                                             *)
(***************************************************************************)
\* MessageFactory.SizeOfMessage.  The echo of a packet is as long as the packet
\* now being sent, and has no bytes at all if nothing is.
\* mutant: forgets the status byte after the echo.
SizeWithoutStatus(type, sending) ==
  CASE type # SendInsteonMessage -> FixedSize(type)
    [] type = SendInsteonMessage /\ sending = NoCommand -> 0
    [] OTHER -> Len(sending.payload)
SizeOfMessage(type, sending) ==
  CASE type # SendInsteonMessage -> FixedSize(type)
    [] type = SendInsteonMessage /\ sending = NoCommand -> 0
    [] OTHER -> Len(sending.payload) + 1

\* SizeOfMessage casts sending to StandardMessage.
CastFails(type, sending) ==
  /\ type = SendInsteonMessage
  /\ sending # NoCommand /\ sending.type # SendInsteonMessage

\* PowerLineModemMessage.VerifyResponse: the payload is echoed, and the byte
\* after it decides.
VerifyResponse(sending, data) ==
  CASE ~IsPrefix(sending.payload, data) -> "Invalid"
    [] IsPrefix(Append(sending.payload, ACK), data) -> "Ack"
    [] IsPrefix(Append(sending.payload, NACK), data) -> "Nack"
    [] OTHER -> "Unknown"

\* START: everything up to the first 0x02 is skipped.
ReadStart(p, b) ==
  IF b = START_OF_MESSAGE THEN [p EXCEPT !.state = "MESSAGE_TYPE"] ELSE p

\* MESSAGE_TYPE: the state is assigned before the size is computed.
ReadType(p, b) ==
  LET q == [p EXCEPT !.message = b, !.state = "MESSAGE_DATA"] IN
  IF CastFails(b, p.sending) THEN [q EXCEPT !.thrown = TRUE]
  ELSE [q EXCEPT !.size = SizeOfMessage(b, p.sending), !.data = <<>>]

\* A message is complete: the response to the command being sent, or a message
\* of a type that has a class, which joins receivedMessages.
Responds(p) == p.sending # NoCommand /\ p.message = p.sending.type
Complete(p) ==
  IF Responds(p)
    THEN [p EXCEPT !.response = VerifyResponse(p.sending, p.data),
                   !.sending = NoCommand, !.acked = TRUE, !.state = "START"]
  ELSE IF HasClass(p.message)
    THEN [p EXCEPT !.batch = Append(@, [type |-> p.message, body |-> p.data]),
                   !.state = "START"]
  ELSE [p EXCEPT !.state = "START"]

\* mutant: stores the byte whether there is room for it or not.
StoreAnyway(p, b) == [p EXCEPT !.data = Append(@, b)]
\* MESSAGE_DATA: one byte more, if there is room for it.
StoreByte(p, b) ==
  IF Len(p.data) < p.size THEN [p EXCEPT !.data = Append(@, b)] ELSE p
ReadData(p, b) ==
  LET q == StoreByte(p, b) IN
  CASE p.size = NoArray -> [p EXCEPT !.thrown = TRUE]
    [] p.size # NoArray /\ Len(q.data) >= q.size -> Complete(q)
    [] OTHER -> q

ReadByte(p, b) ==
  CASE p.thrown -> p
    [] ~p.thrown /\ p.state = "START" -> ReadStart(p, b)
    [] ~p.thrown /\ p.state = "MESSAGE_TYPE" -> ReadType(p, b)
    [] OTHER -> ReadData(p, b)

\* The parser after the bytes, one after the other, starting from p.
ParsedFrom(p, bytes) ==
  LET after[i \in 0..Len(bytes)] ==
        IF i = 0 THEN p ELSE ReadByte(after[i - 1], bytes[i])
  IN  after[Len(bytes)]
\* mutant: every buffer is searched for a 0x02 of its own.
ReadFromStart(bytes) == ParsedFrom([parser EXCEPT !.state = "START"], bytes)
\* ReadMessages goes on where the buffer before ended.
ReadMessages(bytes) == ParsedFrom(parser, bytes)

\* What ReadMessages keeps in its own variables is gone when it returns.
Cleared(p) == [p EXCEPT !.batch = <<>>, !.acked = FALSE, !.thrown = FALSE]
-----------------------------------------------------------------------------
(***************************************************************************)
(* port_DataReceived.                                                      *)
(***************************************************************************)
\* The port raises DataReceived, on one thread at a time, when bytes are there.
DataReceived ==
  /\ ~crashed
  /\ pc["reader"] = "idle"
  /\ line # <<>>
  /\ arrived' = IF arrived = 0 THEN 1 ELSE arrived
  /\ Goto("reader", "count")
  /\ UNCHANGED <<count, buffer, portLock, parser, handed, receivedAck, callVars,
                 crashed, line, modemVars, written, late, overlap>>

Between(t) == pc[t] \in {"read", "parse"}

\* mutant: asks for the bytes of a whole message, whatever has arrived.
CountWhole(t) ==
  /\ ~crashed
  /\ pc[t] = "count"
  /\ count' = [count EXCEPT ![t] = 11]
  /\ overlap' = (overlap \/ \E u \in Thread \ {t} : Between(u))
  /\ Goto(t, "read")
  /\ UNCHANGED <<buffer, portLock, parser, handed, receivedAck, callVars, crashed,
                 line, arrived, modemVars, written, late>>
\* BytesToRead: what has arrived by now, a piece of any length.
Count(t) ==
  /\ ~crashed
  /\ pc[t] = "count"
  /\ \E n \in arrived..Len(line) :
       /\ arrived' = n
       /\ count' = [count EXCEPT ![t] = n]
  /\ overlap' = (overlap \/ \E u \in Thread \ {t} : Between(u))
  /\ Goto(t, "read")
  /\ UNCHANGED <<buffer, portLock, parser, handed, receivedAck, callVars, crashed,
                 line, modemVars, written, late>>

\* Read returns what is there, up to the count, and waits, without limit, for
\* something to be there; the rest of the array stays zero, and the number of
\* bytes that Read returns is not looked at.
Zeros(n) == [i \in 1..n |-> 0]
Readable(t) ==
  IF count[t] <= arrived THEN {count[t]}
  ELSE {n \in 1..count[t] : arrived <= n /\ n <= Len(line)}
ReadPort(t) ==
  /\ ~crashed
  /\ pc[t] = "read"
  /\ \E n \in Readable(t) :
       /\ buffer' = [buffer EXCEPT ![t] = SubSeq(line, 1, n) \o Zeros(count[t] - n)]
       /\ line' = SubSeq(line, n + 1, Len(line))
       /\ arrived' = IF n < arrived THEN arrived - n ELSE 0
  /\ count' = [count EXCEPT ![t] = 0]
  /\ Goto(t, "parse")
  /\ UNCHANGED <<portLock, parser, handed, receivedAck, callVars, crashed, modemVars,
                 written, late, overlap>>

\* ReadMessages locks the port, which a sender already holds.  If it throws,
\* what it had collected and the rest of the buffer are gone.
Parse(t) ==
  LET p == ReadMessages(buffer[t]) IN
  /\ ~crashed
  /\ pc[t] = "parse"
  /\ portLock = IF t = "sender" THEN "sender" ELSE NoThread
  /\ parser' = Cleared(p)
  /\ handed' = IF p.thrown THEN handed ELSE handed \o p.batch
  /\ receivedAck' = (receivedAck \/ p.acked)
  /\ buffer' = [buffer EXCEPT ![t] = <<>>]
  /\ CASE t = "reader" -> /\ crashed' = p.thrown
                          /\ Goto(t, "idle")
                          /\ UNCHANGED <<portLock, result>>
       [] t = "sender" /\ ~p.thrown -> /\ Goto(t, "write")
                                       /\ UNCHANGED <<portLock, result, crashed>>
       [] t = "sender" /\ p.thrown -> /\ Goto(t, "idle")
                                      /\ portLock' = NoThread
                                      /\ result' = "Exception"
                                      /\ UNCHANGED crashed
  /\ UNCHANGED <<count, command, line, arrived, modemVars, written, late, overlap>>
-----------------------------------------------------------------------------
(***************************************************************************)
(* SendCommand.                                                            *)
(***************************************************************************)
Call(c) ==
  /\ ~crashed
  /\ pc["sender"] = "idle"
  /\ written < MaxCalls
  /\ command' = c
  /\ result' = "none"
  /\ Goto("sender", "lock")
  /\ UNCHANGED <<count, buffer, portLock, parser, handed, receivedAck, crashed, line,
                 arrived, modemVars, written, late, overlap>>

\* "Clear input first."
LockPort ==
  /\ ~crashed
  /\ pc["sender"] = "lock"
  /\ portLock = NoThread
  /\ portLock' = "sender"
  /\ Goto("sender", "count")
  /\ UNCHANGED <<count, buffer, parser, handed, receivedAck, callVars, crashed, line,
                 arrived, modemVars, written, late, overlap>>

WriteCommand ==
  /\ ~crashed
  /\ pc["sender"] = "write"
  /\ parser' = [parser EXCEPT !.sending = command]
  /\ requests' = Append(requests, command)
  /\ written' = written + 1
  /\ portLock' = NoThread
  /\ Goto("sender", "waiting")
  /\ UNCHANGED <<count, buffer, handed, receivedAck, callVars, crashed, line, arrived,
                 sent, status, events, unsized, late, overlap>>

\* The event ends the wait and is reset; sendingResponse is read afterwards.
WaitSignalled ==
  /\ ~crashed
  /\ pc["sender"] = "waiting"
  /\ receivedAck
  /\ receivedAck' = FALSE
  /\ Goto("sender", "answered")
  /\ UNCHANGED <<count, buffer, portLock, parser, handed, callVars, crashed, line,
                 arrived, modemVars, written, late, overlap>>

ReturnResponse ==
  /\ ~crashed
  /\ pc["sender"] = "answered"
  /\ result' = parser.response
  /\ Goto("sender", "idle")
  /\ UNCHANGED <<count, buffer, portLock, parser, handed, receivedAck, command,
                 crashed, line, arrived, modemVars, written, late, overlap>>

WaitTimeout ==
  /\ ~crashed
  /\ pc["sender"] = "waiting"
  /\ ~receivedAck
  /\ result' = "Unknown"
  /\ late' = TRUE
  /\ Goto("sender", "idle")
  /\ UNCHANGED <<count, buffer, portLock, parser, handed, receivedAck, command,
                 crashed, line, arrived, modemVars, written, overlap>>
-----------------------------------------------------------------------------
(***************************************************************************)
(* The modem and the wire (external).                                      *)
(***************************************************************************)
Frame(type, body) == <<START_OF_MESSAGE, type>> \o body

\* The modem echoes the oldest command, with its verdict.
ModemAnswers ==
  /\ requests # <<>>
  /\ LET c == Head(requests) IN
       \E s \in {ACK, NACK} :
         /\ line' = line \o Frame(c.type, Append(c.payload, s))
         /\ status' = IF s = ACK THEN "Ack" ELSE "Nack"
  /\ requests' = Tail(requests)
  /\ UNCHANGED <<pc, count, buffer, portLock, parser, handed, receivedAck, callVars,
                 crashed, arrived, written, sent, events, unsized, late, overlap>>

\* A packet that came from another device, a record of its links, or one of the
\* other types that PowerLineModemMessage.Message names.
ModemSpeaks ==
  /\ events < MaxEvents
  /\ events' = events + 1
  /\ \E m \in Message :
       /\ line' = line \o Frame(m.type, m.body)
       /\ sent' = IF HasClass(m.type) THEN Append(sent, m) ELSE sent
       /\ unsized' = (unsized \/ Len(m.body) # FixedSize(m.type))
  /\ UNCHANGED <<pc, count, buffer, portLock, parser, handed, receivedAck, callVars,
                 crashed, arrived, requests, status, written, late, overlap>>

-----------------------------------------------------------------------------
ReaderStep == DataReceived \/ Count("reader") \/ ReadPort("reader") \/ Parse("reader")
SenderStep ==
  \/ \E c \in Command : Call(c)
  \/ LockPort \/ Count("sender") \/ ReadPort("sender") \/ Parse("sender")
  \/ WriteCommand \/ WaitSignalled \/ ReturnResponse \/ WaitTimeout
Next == ReaderStep \/ SenderStep \/ ModemAnswers \/ ModemSpeaks

Spec == Init /\ [][Next]_vars
-----------------------------------------------------------------------------
(***************************************************************************)
(* Properties.                                                             *)
(***************************************************************************)
InStep == ~late /\ ~overlap /\ ~unsized

\* As long as no wait has timed out, no two threads counted the same bytes and
\* the modem used no type whose size the code has wrong (0x53 has eight bytes
\* and 0x55 none, MessageFactory.cs:82-83), the messages found in the stream are
\* those that the modem sent, in their order, whatever the pieces in which they
\* arrive, with 0x02 among their bytes or not: none is cut, merged or made up,
\* none is missing once everything has been read, and what comes between them,
\* answers and messages without a class, disturbs none
\* (CommunicationDevice.cs:130-176).
MessagesFound ==
  InStep =>
    /\ IsPrefix(handed, sent)
    /\ line = <<>> /\ (\A t \in Thread : ~Between(t)) =>
         handed = sent /\ parser.state = "START"

\* Under the same conditions a call returns what the modem said of its command,
\* and no exception ends it or the process (PowerLineModemMessage.cs:109-142).
ResponseFound ==
  InStep => /\ result \notin {"Invalid", "Exception"} /\ ~crashed
            /\ pc["sender"] = "answered" => parser.response = status

\* A sender that waits in Read, with the port locked and without a time limit,
\* for bytes that another thread took, has overlapped with it
\* (CommunicationDevice.cs:211-213).
WaitsOnlyIfOverlap ==
  \A t \in Thread : pc[t] = "read" /\ count[t] > arrived => overlap
=============================================================================
