----------------------------- MODULE FluffInsteon -----------------------------
(***************************************************************************)
(* The Insteon system on top of the serial link:                           *)
(* Automation/Insteon/FluffInsteon.cs.                                     *)
(*                                                                         *)
(* Main runs Startup; users call SendDirectInsteonPacket for devices they  *)
(* find; pool threads run port_ReceivedMessage on the batches that         *)
(* CommunicationDevice queues, and a handler may itself send a packet      *)
(* (AddDevice -> DeviceAdded -> OnOffDevice.OnLevel).  SendCommand is an   *)
(* exchange of CommandChannel, which CommunicationDevice implements; it    *)
(* ends, and a message that the port has received reaches a batch: what    *)
(* two threads after the same bytes may do besides cutting an answer is    *)
(* not repeated here.  The modem and the devices are external.             *)
(***************************************************************************)
EXTENDS Naturals, Sequences, FiniteSets

CONSTANTS
  Main, User, Worker,  \* the thread of Startup, users' threads, pool threads
  NoThread,            \* a lock nobody holds
  Device,              \* the addresses of Insteon devices
  Links,               \* the modem's all-link database, a sequence of devices
  Known,               \* devices whose category the DeviceProvider knows
  NoDevice,
  MaxSends,            \* bound: no user sends once so many packets were made
  MaxNews,             \* bound: messages devices send of their own accord
  MaxTimeouts          \* bound: waits that time out, and answers that are cut

Thread == {Main} \union User \union Worker

ASSUME ThreadAssumption ==
  /\ Main \notin User \union Worker /\ User \intersect Worker = {}
  /\ NoThread \notin Thread
ASSUME DeviceAssumption ==
  /\ Links \in Seq(Device) /\ Known \subseteq Device /\ NoDevice \notin Device
ASSUME BoundAssumption == {MaxSends, MaxNews, MaxTimeouts} \subseteq Nat

\* Packets to send, told apart by a number.  Both addresses of a packet to send
\* are the device's (InsteonPacket.cs:166).
Packet   == [dev : Device, id : Nat \ {0}]
NoPacket == [dev |-> NoDevice, id |-> 0]

\* Messages: link records, the device's answer to packet id, a broadcast
\* SetButtonPressed, and group broadcasts; id tells the latter two apart.
Kind    == {"record", "ack", "nack", "press", "group"}
Message == [kind : Kind, dev : Device, id : Nat]
Msg(kind, dev, id) == [kind |-> kind, dev |-> dev, id |-> id]

NoMessage == [kind |-> "none", dev |-> NoDevice, id |-> 0]

\* PowerLineModemMessage.MessageResponse, and an exception.
Outcome == {"Ack", "Nack", "Invalid", "Unknown", "Exception"}

\* The places in the code where a thread is inside port.SendCommand.
Sending == {"info", "config", "first", "next", "direct"}

VARIABLES
  pc,              \* where each thread is
  directLock,      \* who holds lock(this)
  packet,          \* the packet each thread sends
  returned,        \* what each thread's last SendDirectInsteonPacket returned
  sendingPacket,
  receivedPacket,
  linkingEvent,    \* the auto-reset event, for link records and for replies
  linkedDevices,   \* the keys of the dictionary
  devices,         \* the keys of the dictionary
  todo,            \* SetupAllDevices: records not yet enumerated
  changed,         \* linkedDevices was written since the enumeration began
  batch,           \* the messages each pool thread has yet to handle
  pool,            \* queued batches
  crashed,         \* an exception escaped on a pool thread
  exchange, outcome, credit, seen,  \* CommandChannel's state
  verdict,         \* the modem's response to the command being exchanged
  requests,        \* commands the modem has yet to execute
  issued,          \* history: how many commands were written
  nextLink,        \* the modem's place in its all-link database
  replies,         \* packets that a device has yet to answer
  wire,            \* messages the port has yet to receive
  sends,           \* history: how many packets were made
  news,            \* history: how many messages devices sent unasked
  timeouts         \* history: how many waits timed out and answers were cut

Channel == INSTANCE CommandChannel WITH
  Caller <- Thread, NoCaller <- NoThread, Item <- {}, holder <- exchange,
  outcome <- outcome, credit <- credit, seen <- seen, handed <- <<>>

channelVars == <<exchange, outcome, credit, seen>>
directVars  == <<directLock, packet, returned, sendingPacket>>
linkVars    == <<linkedDevices, todo, changed>>
poolVars    == <<batch, pool>>
modemVars   == <<requests, issued, nextLink, replies>>
vars == <<pc, directVars, receivedPacket, linkingEvent, linkVars, devices, poolVars,
          crashed, channelVars, verdict, modemVars, wire, sends, news, timeouts>>

NothingReturned == [response |-> "none", packet |-> NoMessage]

\* The state after the constructor; Startup is about to be called.
Init ==
  /\ pc = [t \in Thread |-> IF t = Main THEN "info" ELSE "idle"]
  /\ directLock = NoThread
  /\ packet = [t \in Thread |-> NoPacket]
  /\ returned = [t \in Thread |-> NothingReturned]
  /\ sendingPacket = NoPacket
  /\ receivedPacket = NoMessage
  /\ linkingEvent = FALSE
  /\ linkedDevices = {}
  /\ devices = {}
  /\ todo = {}
  /\ changed = FALSE
  /\ batch = [w \in Worker |-> <<>>]
  /\ pool = {}
  /\ crashed = FALSE
  /\ Channel!Init
  /\ verdict = "none"
  /\ requests = {}
  /\ issued = 0
  /\ nextLink = 1
  /\ replies = {}
  /\ wire = <<>>
  /\ sends = 0
  /\ news = 0
  /\ timeouts = 0

Goto(t, label) == pc' = [pc EXCEPT ![t] = label]
late == timeouts > 0   \* something has disturbed the link
-----------------------------------------------------------------------------
(***************************************************************************)
(* port.SendCommand, as CommandChannel promises it.                        *)
(***************************************************************************)
WriteCommand(t) ==
  /\ pc[t] \in Sending
  /\ Channel!Begin(t)
  /\ issued' = issued + 1
  /\ requests' = requests \union
                   {[n |-> issued + 1, kind |-> pc[t], packet |-> packet[t]]}
  /\ verdict' = "none"
  /\ UNCHANGED <<pc, directVars, receivedPacket, linkingEvent, linkVars, devices,
                 poolVars, crashed, nextLink, replies, wire, sends, news, timeouts>>

\* An answer of the modem ends the exchange: as long as nothing disturbs the link,
\* the answer to this command (CommunicationDevice's TimelyAnswer).
CommandAnswered(t) ==
  /\ \E r \in seen \union {"Invalid", "Unknown"} :
       /\ ~late => r = verdict
       /\ Channel!EndAnswered(t, r)
  /\ UNCHANGED <<pc, directVars, receivedPacket, linkingEvent, linkVars, devices,
                 poolVars, crashed, verdict, modemVars, wire, sends, news, timeouts>>

\* Two threads were after the same bytes, and the answer arrives only in part.
AnswerCut(t) ==
  /\ timeouts < MaxTimeouts
  /\ \E r \in {"Invalid", "Unknown"} : Channel!EndAnswered(t, r)
  /\ timeouts' = timeouts + 1
  /\ UNCHANGED <<pc, directVars, receivedPacket, linkingEvent, linkVars, devices,
                 poolVars, crashed, verdict, modemVars, wire, sends, news>>

\* The exchange times out, or, after a timeout, ends with an exception.
CommandFails(t) ==
  /\ \E r \in {"Unknown", "Exception"} :
       /\ r = "Exception" => late
       /\ r = "Unknown" => timeouts < MaxTimeouts
       /\ Channel!EndUnanswered(t, r)
       /\ timeouts' = IF r = "Unknown" THEN timeouts + 1 ELSE timeouts
  /\ UNCHANGED <<pc, directVars, receivedPacket, linkingEvent, linkVars, devices,
                 poolVars, crashed, verdict, modemVars, wire, sends, news>>

Returns(t) == pc[t] \in Sending /\ outcome[t] # "none" /\ Channel!Ask(t)
-----------------------------------------------------------------------------
(***************************************************************************)
(* Startup.                                                                *)
(***************************************************************************)
\* GetInfo and GetConfiguration.
QueryModem ==
  /\ pc[Main] \in {"info", "config"}
  /\ Returns(Main)
  /\ Goto(Main, IF outcome[Main] # "Ack" THEN "failed"
                ELSE IF pc[Main] = "info" THEN "config" ELSE "first")
  /\ UNCHANGED <<directVars, receivedPacket, linkingEvent, linkVars, devices,
                 poolVars, crashed, verdict, modemVars, wire, sends, news, timeouts>>

\* ReadAllLinks: a command for each link, until one is not acknowledged; then
\* SetupAllDevices begins its enumeration.
AskLink ==
  /\ pc[Main] \in {"first", "next"}
  /\ Returns(Main)
  /\ CASE outcome[Main] = "Ack" ->
            Goto(Main, "link") /\ UNCHANGED <<todo, changed>>
       [] outcome[Main] = "Exception" ->
            Goto(Main, "failed") /\ UNCHANGED <<todo, changed>>
       [] OTHER ->
            Goto(Main, "setup") /\ todo' = linkedDevices /\ changed' = FALSE
  /\ UNCHANGED <<directVars, receivedPacket, linkingEvent, linkedDevices, devices,
                 poolVars, crashed, verdict, modemVars, wire, sends, news, timeouts>>

\* The event after a wait that it ended.
ManualReset == TRUE   \* mutant: a ManualResetEvent
AutoReset   == FALSE

\* linkingEvent.WaitOne(), without a timeout.
NotAwaited  == TRUE   \* mutant: the next command is sent at once
LinkAwaited == linkingEvent

AwaitLink ==
  /\ pc[Main] = "link"
  /\ LinkAwaited
  /\ linkingEvent' = AutoReset
  /\ Goto(Main, "next")
  /\ UNCHANGED <<directVars, receivedPacket, linkVars, devices, poolVars, crashed,
                 channelVars, verdict, modemVars, wire, sends, news, timeouts>>

NewPacket(t, d) ==
  /\ packet' = [packet EXCEPT ![t] = [dev |-> d, id |-> sends + 1]]
  /\ sends' = sends + 1
  /\ Goto(t, "lock")

\* SetupAllDevices: the enumerator throws when linkedDevices was written.
EnumerationThrows ==
  /\ pc[Main] = "setup"
  /\ changed
  /\ Goto(Main, "failed")
  /\ UNCHANGED <<directVars, receivedPacket, linkingEvent, linkVars, devices,
                 poolVars, crashed, channelVars, verdict, modemVars, wire, sends,
                 news, timeouts>>

SetupDone ==
  /\ pc[Main] = "setup"
  /\ ~changed /\ todo = {}
  /\ Goto(Main, "done")
  /\ UNCHANGED <<directVars, receivedPacket, linkingEvent, linkVars, devices,
                 poolVars, crashed, channelVars, verdict, modemVars, wire, sends,
                 news, timeouts>>

\* A known device is added at once (its DeviceAdded handler finds it and sends
\* nothing); another is sent an IdRequest, whose result is only logged.
SetupDevice(d) ==
  /\ pc[Main] = "setup"
  /\ ~changed /\ d \in todo
  /\ todo' = todo \ {d}
  /\ IF d \in Known THEN devices' = devices \union {d} /\ UNCHANGED <<pc, packet, sends>>
                    ELSE NewPacket(Main, d) /\ UNCHANGED devices
  /\ UNCHANGED <<directLock, returned, sendingPacket, receivedPacket, linkingEvent,
                 linkedDevices, changed, poolVars, crashed, channelVars, verdict,
                 modemVars, wire, news, timeouts>>
-----------------------------------------------------------------------------
(***************************************************************************)
(* SendDirectInsteonPacket.                                                *)
(***************************************************************************)
\* A user sends a packet to a device that FindDevice finds.
UserSends(u, d) ==
  /\ pc[u] = "idle"
  /\ d \in devices
  /\ sends < MaxSends
  /\ NewPacket(u, d)
  /\ UNCHANGED <<directLock, returned, sendingPacket, receivedPacket, linkingEvent,
                 linkVars, devices, poolVars, crashed, channelVars, verdict,
                 modemVars, wire, news, timeouts>>

LockDirect(t) ==
  /\ pc[t] = "lock"
  /\ directLock = NoThread
  /\ directLock' = t
  /\ sendingPacket' = packet[t]
  /\ Goto(t, "direct")
  /\ UNCHANGED <<packet, returned, receivedPacket, linkingEvent, linkVars, devices,
                 poolVars, crashed, channelVars, verdict, modemVars, wire, sends,
                 news, timeouts>>

\* Back in SetupAllDevices, in the user's code, or in port_ReceivedMessage.
AfterDirect(t) == IF t = Main THEN "setup" ELSE IF t \in User THEN "idle" ELSE "end"

ReturnDirect(t, response, reply) ==
  /\ directLock' = NoThread
  /\ returned' = [returned EXCEPT ![t] = [response |-> response, packet |-> reply]]
  /\ Goto(t, AfterDirect(t))

\* An exception in SendDirectInsteonPacket ends Startup or reaches the user; on
\* a pool thread nothing catches it.
ThrowDirect(t) ==
  /\ directLock' = NoThread
  /\ returned' = [returned EXCEPT ![t] = [response |-> "Exception", packet |-> NoMessage]]
  /\ Goto(t, IF t = Main THEN "failed" ELSE IF t \in User THEN "idle" ELSE "dead")
  /\ crashed' = (crashed \/ t \in Worker)

DirectSent(t) ==
  /\ pc[t] = "direct"
  /\ Returns(t)
  /\ CASE outcome[t] = "Ack" ->
            Goto(t, "reply") /\ UNCHANGED <<directLock, returned, crashed>>
       [] outcome[t] = "Exception" -> ThrowDirect(t)
       [] OTHER -> ReturnDirect(t, outcome[t], NoMessage) /\ UNCHANGED crashed
  /\ UNCHANGED <<packet, sendingPacket, receivedPacket, linkingEvent, linkVars,
                 devices, poolVars, verdict, modemVars, wire, sends, news, timeouts>>

\* linkingEvent.WaitOne(5000).
AwaitReply(t) ==
  /\ pc[t] = "reply"
  /\ linkingEvent
  /\ linkingEvent' = AutoReset
  /\ Goto(t, "read")
  /\ UNCHANGED <<directVars, receivedPacket, linkVars, devices, poolVars, crashed,
                 channelVars, verdict, modemVars, wire, sends, news, timeouts>>

\* Whether the wait for a reply ends by itself.
WaitsForEver == FALSE      \* mutant: WaitOne() for WaitOne(5000)
WaitExpires  == timeouts < MaxTimeouts

ReplyTimeout(t) ==
  /\ pc[t] = "reply"
  /\ ~linkingEvent
  /\ WaitExpires
  /\ timeouts' = timeouts + 1
  /\ ReturnDirect(t, "Unknown", NoMessage)
  /\ UNCHANGED <<packet, sendingPacket, receivedPacket, linkingEvent, linkVars,
                 devices, poolVars, crashed, channelVars, verdict, modemVars, wire,
                 sends, news>>

\* receivedPacket is null when a link record ended the wait.
ReadReply(t) ==
  /\ pc[t] = "read"
  /\ IF receivedPacket = NoMessage
       THEN ThrowDirect(t)
       ELSE /\ ReturnDirect(t, IF receivedPacket.kind = "nack" THEN "Nack" ELSE "Ack",
                            receivedPacket)
            /\ UNCHANGED crashed
  /\ UNCHANGED <<packet, sendingPacket, receivedPacket, linkingEvent, linkVars,
                 devices, poolVars, channelVars, verdict, modemVars, wire, sends,
                 news, timeouts>>
-----------------------------------------------------------------------------
(***************************************************************************)
(* port_ReceivedMessage, message by message of a batch.                    *)
(***************************************************************************)
StartBatch(w) ==
  /\ pc[w] = "idle"
  /\ \E b \in pool :
       /\ pool' = pool \ {b}
       /\ batch' = [batch EXCEPT ![w] = b]
  /\ Goto(w, "handle")
  /\ UNCHANGED <<directVars, receivedPacket, linkingEvent, linkVars, devices, crashed,
                 channelVars, verdict, modemVars, wire, sends, news, timeouts>>

Handles(w, kinds) == pc[w] = "handle" /\ Head(batch[w]).kind \in kinds

\* What HandleRecord does next.
NotSignalled == "end"      \* mutant: without linkingEvent.Set
Signalled    == "set"

HandleRecord(w) ==
  /\ Handles(w, {"record"})
  /\ linkedDevices' = linkedDevices \union {Head(batch[w]).dev}
  /\ changed' = TRUE
  /\ Goto(w, Signalled)
  /\ UNCHANGED <<directVars, receivedPacket, linkingEvent, todo, devices, poolVars,
                 crashed, channelVars, verdict, modemVars, wire, sends, news, timeouts>>

\* Before the first packet is sent, sendingPacket is null.
HandlerThrows(w) ==
  /\ Handles(w, Kind \ {"record"})
  /\ sendingPacket = NoPacket
  /\ crashed' = TRUE
  /\ Goto(w, "dead")
  /\ UNCHANGED <<directVars, receivedPacket, linkingEvent, linkVars, devices, poolVars,
                 channelVars, verdict, modemVars, wire, sends, news, timeouts>>

\* Whether a message is the reply that SendDirectInsteonPacket waits for.
IsFromDevice(m) == m.dev = sendingPacket.dev  \* mutant: whatever its type
IsReply(m)      == m.kind \in {"ack", "nack"} /\ m.dev = sendingPacket.dev

\* A reply of the device that is being sent to: stored, then signalled.
AcceptReply(w) ==
  /\ Handles(w, Kind \ {"record"})
  /\ sendingPacket # NoPacket
  /\ IsReply(Head(batch[w]))
  /\ Goto(w, "store")
  /\ UNCHANGED <<directVars, receivedPacket, linkingEvent, linkVars, devices, poolVars,
                 crashed, channelVars, verdict, modemVars, wire, sends, news, timeouts>>

StoreReply(w) ==
  /\ pc[w] = "store"
  /\ receivedPacket' = Head(batch[w])
  /\ Goto(w, "set")
  /\ UNCHANGED <<directVars, linkingEvent, linkVars, devices, poolVars, crashed,
                 channelVars, verdict, modemVars, wire, sends, news, timeouts>>

SetEvent(w) ==
  /\ pc[w] = "set"
  /\ linkingEvent' = TRUE
  /\ Goto(w, "end")
  /\ UNCHANGED <<directVars, receivedPacket, linkVars, devices, poolVars, crashed,
                 channelVars, verdict, modemVars, wire, sends, news, timeouts>>

\* Anything else: a group broadcast of a device in the list may change it, a
\* button pressed adds a device that is not; the listeners of DeviceChanged and
\* DeviceAdded may ask the device for its level (InsteonAdapter.cs:90, 121).
PassToDevice(w) ==
  LET m == Head(batch[w])
      heard == \/ m.kind = "group" /\ m.dev \in devices
               \/ m.kind = "press" /\ m.dev \notin devices
  IN
  /\ Handles(w, Kind \ {"record"})
  /\ sendingPacket # NoPacket
  /\ ~IsReply(m)
  /\ devices' = IF m.kind = "press" THEN devices \union {m.dev} ELSE devices
  /\ \/ Goto(w, "end") /\ UNCHANGED <<packet, sends>>
     \/ heard /\ NewPacket(w, m.dev)
  /\ UNCHANGED <<directLock, returned, sendingPacket, receivedPacket, linkingEvent,
                 linkVars, poolVars, crashed, channelVars, verdict, modemVars, wire,
                 news, timeouts>>

EndMessage(w) ==
  /\ pc[w] = "end"
  /\ batch' = [batch EXCEPT ![w] = Tail(@)]
  /\ Goto(w, IF Tail(batch[w]) = <<>> THEN "idle" ELSE "handle")
  /\ UNCHANGED <<directVars, receivedPacket, linkingEvent, linkVars, devices, pool,
                 crashed, channelVars, verdict, modemVars, wire, sends, news, timeouts>>
-----------------------------------------------------------------------------
(***************************************************************************)
(* The modem, the devices and the reader of the port (external).           *)
(***************************************************************************)
\* The modem answers a command; verdict follows the command being exchanged.
ModemAnswers(r, response) ==
  /\ r \in requests
  /\ \A q \in requests : r.n <= q.n
  /\ requests' = requests \ {r}
  /\ Channel!Answered(response)
  /\ verdict' = IF exchange # NoThread /\ r.n = issued THEN response ELSE verdict
  /\ UNCHANGED <<pc, directVars, receivedPacket, linkingEvent, linkVars, devices,
                 poolVars, crashed, issued, sends, news, timeouts>>

\* Queries may be refused; a packet that is acknowledged reaches the device.
ModemExecutes(r) ==
  \E response \in {"Ack", "Nack"} :
    /\ r.kind \notin {"first", "next"}
    /\ ModemAnswers(r, response)
    /\ replies' = IF r.kind = "direct" /\ response = "Ack"
                    THEN replies \union {r.packet} ELSE replies
    /\ UNCHANGED <<nextLink, wire>>

\* The record of the first or next link follows the Ack; a Nack ends the list.
ModemReadsLink(r) ==
  LET at == IF r.kind = "first" THEN 1 ELSE nextLink IN
  /\ r.kind \in {"first", "next"}
  /\ IF at <= Len(Links)
       THEN /\ ModemAnswers(r, "Ack")
            /\ wire' = Append(wire, Msg("record", Links[at], 0))
            /\ nextLink' = at + 1
       ELSE ModemAnswers(r, "Nack") /\ UNCHANGED <<wire, nextLink>>
  /\ UNCHANGED replies

ModemLoses(r) ==
  /\ r \in requests
  /\ requests' = requests \ {r}
  /\ UNCHANGED <<pc, directVars, receivedPacket, linkingEvent, linkVars, devices,
                 poolVars, crashed, channelVars, verdict, issued, nextLink, replies,
                 wire, sends, news, timeouts>>

\* The device answers, or not.
DeviceReplies(p) ==
  /\ p \in replies
  /\ replies' = replies \ {p}
  /\ \/ UNCHANGED wire
     \/ \E kind \in {"ack", "nack"} : wire' = Append(wire, Msg(kind, p.dev, p.id))
  /\ UNCHANGED <<pc, directVars, receivedPacket, linkingEvent, linkVars, devices,
                 poolVars, crashed, channelVars, verdict, requests, issued, nextLink,
                 sends, news, timeouts>>

DeviceSpeaks(kind, d) ==
  /\ news < MaxNews
  /\ news' = news + 1
  /\ wire' = Append(wire, Msg(kind, d, news + 1))
  /\ UNCHANGED <<pc, directVars, receivedPacket, linkingEvent, linkVars, devices,
                 poolVars, crashed, channelVars, verdict, modemVars, sends, timeouts>>

\* CommunicationDevice queues what one read of the port completes.
QueueBatch ==
  \E k \in 1..Len(wire) :
    /\ pool' = pool \union {SubSeq(wire, 1, k)}
    /\ wire' = SubSeq(wire, k + 1, Len(wire))
    /\ UNCHANGED <<pc, directVars, receivedPacket, linkingEvent, linkVars, devices,
                   batch, crashed, channelVars, verdict, modemVars, sends, news,
                   timeouts>>

\* The process is gone, nothing is left to do, or the bound on timeouts is reached.
Quiescent ==
  /\ \/ crashed
     \/ timeouts = MaxTimeouts
     \/ /\ pc[Main] \in {"done", "failed"}
        /\ \A t \in User \union Worker : pc[t] = "idle"
        /\ pool = {} /\ wire = <<>>
  /\ UNCHANGED vars
-----------------------------------------------------------------------------
ChannelStep(t) ==
  WriteCommand(t) \/ CommandAnswered(t) \/ AnswerCut(t) \/ CommandFails(t)

MainStep ==
  \/ QueryModem \/ AskLink \/ AwaitLink
  \/ EnumerationThrows \/ SetupDone \/ (\E d \in Device : SetupDevice(d))

DirectStep(t) ==
  LockDirect(t) \/ DirectSent(t) \/ AwaitReply(t) \/ ReplyTimeout(t) \/ ReadReply(t)

WorkerStep(w) ==
  \/ StartBatch(w) \/ HandleRecord(w) \/ HandlerThrows(w) \/ AcceptReply(w)
  \/ StoreReply(w) \/ SetEvent(w) \/ PassToDevice(w) \/ EndMessage(w)

ModemStep == \E r \in requests : ModemExecutes(r) \/ ModemReadsLink(r) \/ ModemLoses(r)

DeviceStep ==
  \/ \E p \in replies : DeviceReplies(p)
  \/ \E kind \in {"press", "group"}, d \in Device : DeviceSpeaks(kind, d)

MainRuns      == ~crashed /\ (MainStep \/ ChannelStep(Main) \/ DirectStep(Main))
UserRuns(u)   == ~crashed /\ (ChannelStep(u) \/ DirectStep(u))
WorkerRuns(w) == ~crashed /\ (WorkerStep(w) \/ ChannelStep(w) \/ DirectStep(w))
PortRuns      == ~crashed /\ QueueBatch

Next ==
  \/ MainRuns
  \/ \E u \in User : UserRuns(u) \/ (~crashed /\ \E d \in Device : UserSends(u, d))
  \/ \E w \in Worker : WorkerRuns(w)
  \/ PortRuns
  \/ ~crashed /\ (ModemStep \/ DeviceStep)
  \/ Quiescent

Spec == Init /\ [][Next]_vars

\* Threads run, and the port is read.  Nothing is assumed of the modem, the
\* devices or the users: SendCommand and the wait for a reply time out.
Fairness ==
  /\ WF_vars(MainRuns)
  /\ \A u \in User : WF_vars(UserRuns(u))
  /\ \A w \in Worker : WF_vars(WorkerRuns(w))
  /\ WF_vars(PortRuns)

FairSpec == Spec /\ Fairness
-----------------------------------------------------------------------------
(***************************************************************************)
(* Correctness.                                                            *)
(***************************************************************************)
ThreadTypes ==
  /\ pc \in [Thread -> Sending \union {"idle", "link", "setup", "done", "failed", "lock",
                         "reply", "read", "handle", "store", "set", "end", "dead"}]
  /\ batch \in [Worker -> Seq(Message)]
  /\ \A w \in Worker : pc[w] # "idle" <=> batch[w] # <<>>
  /\ pool \subseteq Seq(Message) \ {<<>>}
  /\ linkedDevices \subseteq Device /\ devices \subseteq Device
  /\ todo \subseteq linkedDevices
  /\ linkingEvent \in BOOLEAN /\ changed \in BOOLEAN /\ crashed \in BOOLEAN

DirectTypes ==
  /\ directLock \in Thread \union {NoThread}
  /\ packet \in [Thread -> Packet \union {NoPacket}]
  /\ returned \in [Thread -> [response : Outcome \union {"none"},
                              packet : Message \union {NoMessage}]]
  /\ sendingPacket \in Packet \union {NoPacket}
  /\ receivedPacket \in Message \union {NoMessage}
  /\ receivedPacket = NoMessage \/ receivedPacket.kind \in {"ack", "nack"}
  /\ {sends, timeouts} \subseteq Nat

ModemTypes ==
  /\ exchange \in Thread \union {NoThread}
  /\ outcome \in [Thread -> Outcome \union {"none"}]
  /\ credit \in Nat
  /\ seen \subseteq {"Ack", "Nack"}
  /\ verdict \in {"none", "Ack", "Nack"}
  /\ requests \subseteq [n : Nat, kind : Sending, packet : Packet \union {NoPacket}]
  /\ {issued, news} \subseteq Nat
  /\ nextLink \in Nat \ {0}
  /\ replies \subseteq Packet
  /\ wire \in Seq(Message)

TypeOK == ThreadTypes /\ DirectTypes /\ ModemTypes

\* SendDirectInsteonPacket (204-243) with port_ReceivedMessage (261-335): as long
\* as no wait has timed out and no answer was cut, the packet a caller gets back is the device's answer
\* to the packet it sent, whatever other threads send and other devices say.
TimelyReply ==
  ~late => \A t \in Thread :
    LET reply == returned[t].packet IN
    reply # NoMessage =>
      /\ \/ reply.id = packet[t].id
         \/ pc[t] \in {"lock", "direct", "reply", "read"}
      /\ returned[t].response = IF reply.kind = "nack" THEN "Nack" ELSE "Ack"

\* Startup (69-89): it returns true with every device of the modem's database in
\* linkedDevices and every known one among the devices, unless a wait timed out or an
\* answer was cut.
LinksComplete ==
  ~late /\ pc[Main] = "done" =>
    /\ linkedDevices = {Links[i] : i \in DOMAIN Links}
    /\ linkedDevices \intersect Known \subseteq devices

\* No exception escapes unless the link was disturbed, save for a message that arrives
\* before the first packet is sent (273): neither the enumeration of
\* linkedDevices (142) nor the read of receivedPacket (225) meets a handler's
\* write.
NoSurprise ==
  ~late => /\ crashed => sendingPacket = NoPacket
           /\ pc[Main] = "failed" => sendingPacket = NoPacket /\ linkedDevices = {}

\* ReadAllLinks (119-135) waits without a timeout, yet Startup ends: each link the
\* modem acknowledges is followed by its record, which the link does not lose.
StartupEnds == pc[Main] = "info" ~> (pc[Main] \in {"done", "failed"} \/ crashed)

\* Every direct packet's call ends, also when a handler and the thread it would
\* serve wait for each other.
DirectCallsEnd ==
  \A t \in Thread : pc[t] = "lock" ~> (pc[t] \notin {"lock", "direct", "reply", "read"}
                                       \/ crashed)
-----------------------------------------------------------------------------
(***************************************************************************)
(* Why TimelyReply and NoSurprise hold: what somebody waits for is under   *)
(* way once at most.                                                       *)
(***************************************************************************)
StartingUp == pc[Main] \in {"info", "config", "first", "next", "link"}
Direct(t)  == pc[t] \in {"direct", "reply", "read"}

\* Link records and replies, in a sequence of messages; the places of a batch
\* that a pool thread has yet to handle, the first one until the event is set.
Item(m)    == m.kind \in {"record", "ack", "nack"}
Items(q)   == {i \in DOMAIN q : Item(q[i])}
Pending(w) == {i \in Items(batch[w]) : i = 1 => pc[w] \in {"handle", "store", "set"}}

\* A thread whose command was acknowledged waits for what follows.
Acked(t) == (exchange = t /\ verdict = "Ack") \/ outcome[t] = "Ack"
Due == \E t \in Thread : \/ pc[t] \in {"first", "next", "direct"} /\ Acked(t)
                         \/ pc[t] \in {"link", "reply"}

\* A record for Startup, or a reply to the packet being sent.
Fits(m) == IF StartingUp THEN m.kind = "record"
           ELSE m.kind \in {"ack", "nack"} /\ m.dev = sendingPacket.dev /\ m.id = sendingPacket.id

AtMostOne(S) == \A x, y \in S : x = y

OneEach ==
  /\ AtMostOne(replies)
  /\ AtMostOne(Items(wire))
  /\ \A b \in pool : AtMostOne(Items(b))
  /\ \A b, c \in pool : Items(b) # {} /\ Items(c) # {} => b = c
  /\ \A w \in Worker : AtMostOne(Pending(w))
  /\ \A v, w \in Worker : Pending(v) # {} /\ Pending(w) # {} => v = w

AtDevice == replies # {}
OnWire   == Items(wire) # {}
Queued   == \E b \in pool : Items(b) # {}
Handled  == \E w \in Worker : Pending(w) # {}

OnePlace ==
  /\ AtDevice => ~OnWire /\ ~Queued /\ ~Handled /\ ~linkingEvent
  /\ OnWire => ~Queued /\ ~Handled /\ ~linkingEvent
  /\ Queued => ~Handled /\ ~linkingEvent
  /\ Handled => ~linkingEvent

AllFit ==
  /\ \A p \in replies : ~StartingUp /\ p = sendingPacket
  /\ \A i \in Items(wire) : Fits(wire[i])
  /\ \A b \in pool : \A i \in Items(b) : Fits(b[i])
  /\ \A w \in Worker : \A i \in Pending(w) : Fits(batch[w][i])

\* ReadAllLinks (119-135), SendDirectInsteonPacket (204-243) and the handler
\* (261-280): as long as nothing has disturbed the link, at most one link record or reply is
\* on its way from the device to the event, the one that the thread inside
\* ReadAllLinks or SendDirectInsteonPacket waits for, and none if none does.
OneUnderWay ==
  ~late => /\ OneEach /\ OnePlace /\ AllFit
           /\ AtDevice \/ OnWire \/ Queued \/ Handled \/ linkingEvent => Due
-----------------------------------------------------------------------------
(***************************************************************************)
(* What the documentation claims and the code does not do.                 *)
(***************************************************************************)
\* FluffInsteon.cs:202, "The response from the device".
ResponseFromDevice ==
  \A t \in Thread :
    returned[t].packet # NoMessage /\ pc[t] \notin {"lock", "direct", "reply", "read"} =>
      returned[t].packet.dev = packet[t].dev

\* FluffInsteon.cs:66, "Reads all the devices from the PLM and stores the mapping
\* locally", of a Startup that returns true.
AllLinksStored ==
  pc[Main] = "done" => linkedDevices = {Links[i] : i \in DOMAIN Links}

\* FluffInsteon.cs:298, "If this is a broadcast set button pressed, add into the
\* device list."
ButtonAddsDevice ==
  \A w \in Worker : pc[w] = "dead" /\ Head(batch[w]).kind = "press" =>
    Head(batch[w]).dev \in devices
=============================================================================
