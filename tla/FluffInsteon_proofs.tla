--------------------------- MODULE FluffInsteon_proofs ---------------------------
(***************************************************************************)
(* Types of FluffInsteon, who holds lock(this), where each thread can be    *)
(* and what the modem has been asked.                                      *)
(***************************************************************************)
EXTENDS FluffInsteon, TLAPS

\* lock(this) is held while a direct packet is sent, which is the one that
\* port_ReceivedMessage compares with.
LockInv ==
  /\ \A t \in Thread : Direct(t) <=> directLock = t
  /\ \A t \in Thread : directLock = t => sendingPacket = packet[t]
  /\ \A t \in Thread : pc[t] = "lock" \/ Direct(t) => packet[t] \in Packet

\* Where each thread can be: no packet is sent before the links have been read.
StageInv ==
  /\ \A t \in User \union Worker :
       pc[t] \notin {"info", "config", "first", "next", "link", "setup", "done", "failed"}
  /\ pc[Main] \notin {"idle", "handle", "store", "set", "end", "dead"}
  /\ \A u \in User : pc[u] \notin {"handle", "store", "set", "end", "dead"}
  /\ StartingUp => /\ devices = {} /\ sendingPacket = NoPacket
                   /\ \A t \in Thread : pc[t] # "lock" /\ ~Direct(t)

\* A thread that exchanges a command is inside SendCommand; a handler stores
\* replies only.
SendInv ==
  /\ exchange # NoThread => pc[exchange] \in Sending /\ outcome[exchange] = "none"
  /\ \A t \in Thread : outcome[t] # "none" => pc[t] \in Sending
  /\ \A w \in Worker : /\ pc[w] = "store" => Head(batch[w]).kind \in {"ack", "nack"}
                       /\ pc[w] = "set" => Item(Head(batch[w]))
  /\ \A r \in requests : r.kind = "direct" => r.packet \in Packet

SessionInv == LockInv /\ StageInv /\ SendInv

\* As long as nothing has disturbed the link, the modem has at most the command being
\* exchanged.
CommandInv ==
  ~late =>
    /\ \A r \in requests :
         /\ exchange # NoThread /\ verdict = "none"
         /\ r = [n |-> issued, kind |-> pc[exchange], packet |-> packet[exchange]]
    /\ \A t \in Thread : outcome[t] \in {"none", "Ack", "Nack"}
-----------------------------------------------------------------------------
USE DEF Sending, Outcome, Kind, Goto, NewPacket, Returns, AfterDirect,
        directVars, linkVars, poolVars, channelVars, modemVars

\* The threads are of three kinds, and each is of one.
LEMMA Threads ==
  /\ Main \in Thread /\ User \subseteq Thread /\ Worker \subseteq Thread
  /\ Main \notin User /\ Main \notin Worker /\ NoThread \notin Thread
  /\ \A u \in User : u \notin Worker
  /\ \A t \in Thread : t = Main \/ t \in User \/ t \in Worker
BY ThreadAssumption DEF Thread

\* What a step may be.
LEMMA Steps ==
  ASSUME [Next]_vars
  PROVE  \/ UNCHANGED vars
         \/ /\ ~crashed
            /\ \/ \E t \in Thread :
                    \/ WriteCommand(t) \/ CommandAnswered(t) \/ AnswerCut(t)
                    \/ CommandFails(t) \/ LockDirect(t) \/ DirectSent(t) \/ AwaitReply(t)
                    \/ ReplyTimeout(t) \/ ReadReply(t)
               \/ QueryModem \/ AskLink \/ AwaitLink \/ EnumerationThrows \/ SetupDone
               \/ \E d \in Device : SetupDevice(d) \/ \E u \in User : UserSends(u, d)
               \/ \E w \in Worker :
                    \/ StartBatch(w) \/ HandleRecord(w) \/ HandlerThrows(w) \/ AcceptReply(w)
                    \/ StoreReply(w) \/ SetEvent(w) \/ PassToDevice(w) \/ EndMessage(w)
               \/ QueueBatch
               \/ \E r \in requests : ModemExecutes(r) \/ ModemReadsLink(r) \/ ModemLoses(r)
               \/ \E p \in replies : DeviceReplies(p)
               \/ \E kind \in {"press", "group"}, d \in Device : DeviceSpeaks(kind, d)
<1>1. CASE UNCHANGED vars
  BY <1>1
<1>2. CASE MainRuns
  BY <1>2, Threads DEF MainRuns, MainStep, ChannelStep, DirectStep
<1>3. CASE \E u \in User : UserRuns(u) \/ (~crashed /\ \E d \in Device : UserSends(u, d))
  BY <1>3, Threads DEF UserRuns, ChannelStep, DirectStep
<1>4. CASE \E w \in Worker : WorkerRuns(w)
  BY <1>4, Threads DEF WorkerRuns, WorkerStep, ChannelStep, DirectStep
<1>5. CASE PortRuns
  BY <1>5 DEF PortRuns
<1>6. CASE ~crashed /\ (ModemStep \/ DeviceStep)
  BY <1>6 DEF ModemStep, DeviceStep
<1>7. CASE Quiescent
  BY <1>7 DEF Quiescent
<1> QED
  BY <1>1, <1>2, <1>3, <1>4, <1>5, <1>6, <1>7 DEF Next

\* Startup begins with every variable of its type.
LEMMA InitType == Init => TypeOK
<1> SUFFICES ASSUME Init PROVE TypeOK
  OBVIOUS
<1> USE Threads DEF Init
<1>1. ThreadTypes
  <2>1. batch \in [Worker -> Seq(Message)] /\ \A w \in Worker : batch[w] = <<>>
    OBVIOUS
  <2> QED
    BY <2>1 DEF ThreadTypes
<1>2. DirectTypes
  BY DEF DirectTypes, NothingReturned
<1>3. ModemTypes
  BY DEF ModemTypes, Channel!Init
<1> QED
  BY <1>1, <1>2, <1>3 DEF TypeOK

\* A pool thread that handles a batch has a message before it.
LEMMA HeadMessage ==
  ASSUME ThreadTypes, NEW w \in Worker, pc[w] # "idle"
  PROVE  /\ batch[w] \in Seq(Message) /\ batch[w] # <<>>
         /\ Head(batch[w]) \in Message /\ Head(batch[w]) = batch[w][1]
         /\ 1 \in DOMAIN batch[w]
         /\ Head(batch[w]).kind \in Kind /\ Head(batch[w]).dev \in Device
<1>1. batch[w] \in Seq(Message) /\ batch[w] # <<>>
  BY DEF ThreadTypes
<1>2. Head(batch[w]) \in Message /\ Head(batch[w]) = batch[w][1] /\ 1 \in DOMAIN batch[w]
  BY <1>1
<1> QED
  BY <1>1, <1>2 DEF Message

\* One step keeps the types: a handler's Head is of a batch that is not empty, and a
\* direct packet in the modem is a packet (SessionInv).
LEMMA TypeStep ==
  ASSUME TypeOK, SessionInv, [Next]_vars
  PROVE  TypeOK'
<1> USE Threads DEF TypeOK
<1>0. CASE UNCHANGED vars
  BY <1>0 DEF vars, ThreadTypes, DirectTypes, ModemTypes
<1>1. ASSUME NEW t \in Thread, WriteCommand(t) PROVE TypeOK'
  <2>1. ThreadTypes'
    BY <1>1 DEF ThreadTypes, DirectTypes, ModemTypes, WriteCommand, Channel!Begin
  <2>2. DirectTypes'
    BY <1>1 DEF ThreadTypes, DirectTypes, ModemTypes, WriteCommand, Channel!Begin
  <2>3. ModemTypes'
    BY <1>1 DEF ThreadTypes, DirectTypes, ModemTypes, WriteCommand, Channel!Begin
  <2> QED
    BY <2>1, <2>2, <2>3
<1>2. ASSUME NEW t \in Thread, CommandAnswered(t) PROVE TypeOK'
  <2>1. ThreadTypes'
    BY <1>2 DEF ThreadTypes, DirectTypes, ModemTypes, CommandAnswered, Channel!EndAnswered
  <2>2. DirectTypes'
    BY <1>2 DEF ThreadTypes, DirectTypes, ModemTypes, CommandAnswered, Channel!EndAnswered
  <2>3. ModemTypes'
    BY <1>2 DEF ThreadTypes, DirectTypes, ModemTypes, CommandAnswered, Channel!EndAnswered
  <2> QED
    BY <2>1, <2>2, <2>3
<1>3. ASSUME NEW t \in Thread, CommandFails(t) PROVE TypeOK'
  <2>1. ThreadTypes'
    BY <1>3 DEF ThreadTypes, DirectTypes, ModemTypes, CommandFails, Channel!EndUnanswered
  <2>2. DirectTypes'
    BY <1>3 DEF ThreadTypes, DirectTypes, ModemTypes, CommandFails, Channel!EndUnanswered
  <2>3. ModemTypes'
    BY <1>3 DEF ThreadTypes, DirectTypes, ModemTypes, CommandFails, Channel!EndUnanswered
  <2> QED
    BY <2>1, <2>2, <2>3
<1>30. ASSUME NEW t \in Thread, AnswerCut(t) PROVE TypeOK'
  <2>1. ThreadTypes'
    BY <1>30 DEF ThreadTypes, DirectTypes, ModemTypes, AnswerCut, Channel!EndAnswered
  <2>2. DirectTypes'
    BY <1>30 DEF ThreadTypes, DirectTypes, ModemTypes, AnswerCut, Channel!EndAnswered
  <2>3. ModemTypes'
    BY <1>30 DEF ThreadTypes, DirectTypes, ModemTypes, AnswerCut, Channel!EndAnswered
  <2> QED
    BY <2>1, <2>2, <2>3
<1>4. ASSUME NEW t \in Thread, LockDirect(t) PROVE TypeOK'
  <2>1. ThreadTypes'
    BY <1>4 DEF ThreadTypes, DirectTypes, ModemTypes, LockDirect
  <2>2. DirectTypes'
    BY <1>4 DEF ThreadTypes, DirectTypes, ModemTypes, LockDirect
  <2>3. ModemTypes'
    BY <1>4 DEF ThreadTypes, DirectTypes, ModemTypes, LockDirect
  <2> QED
    BY <2>1, <2>2, <2>3
<1>5. ASSUME NEW t \in Thread, DirectSent(t) PROVE TypeOK'
  <2>1. ThreadTypes'
    <3>1. \E label \in {"reply", "setup", "idle", "end", "failed", "dead"} :
            /\ pc' = [pc EXCEPT ![t] = label]
            /\ t \in Worker => label # "idle"
      BY <1>5 DEF DirectSent, ReturnDirect, ThrowDirect
    <3>2. pc[t] # "idle" /\ crashed' \in BOOLEAN
      BY <1>5 DEF ThreadTypes, DirectSent, ThrowDirect
    <3> QED
      BY <1>5, <3>1, <3>2 DEF ThreadTypes, DirectSent
  <2>2. DirectTypes'
    BY <1>5
       DEF ThreadTypes, DirectTypes, ModemTypes, DirectSent, ReturnDirect, ThrowDirect,
           Channel!Ask
  <2>3. ModemTypes'
    BY <1>5
       DEF ThreadTypes, DirectTypes, ModemTypes, DirectSent, ReturnDirect, ThrowDirect,
           Channel!Ask
  <2> QED
    BY <2>1, <2>2, <2>3
<1>6. ASSUME NEW t \in Thread, AwaitReply(t) PROVE TypeOK'
  <2>1. ThreadTypes'
    BY <1>6 DEF ThreadTypes, DirectTypes, ModemTypes, AwaitReply, AutoReset
  <2>2. DirectTypes'
    BY <1>6 DEF ThreadTypes, DirectTypes, ModemTypes, AwaitReply, AutoReset
  <2>3. ModemTypes'
    BY <1>6 DEF ThreadTypes, DirectTypes, ModemTypes, AwaitReply, AutoReset
  <2> QED
    BY <2>1, <2>2, <2>3
<1>7. ASSUME NEW t \in Thread, ReplyTimeout(t) PROVE TypeOK'
  <2>1. ThreadTypes'
    BY <1>7 DEF ThreadTypes, DirectTypes, ModemTypes, ReplyTimeout, ReturnDirect, WaitExpires
  <2>2. DirectTypes'
    BY <1>7 DEF ThreadTypes, DirectTypes, ModemTypes, ReplyTimeout, ReturnDirect, WaitExpires
  <2>3. ModemTypes'
    BY <1>7 DEF ThreadTypes, DirectTypes, ModemTypes, ReplyTimeout, ReturnDirect, WaitExpires
  <2> QED
    BY <2>1, <2>2, <2>3
<1>8. ASSUME NEW t \in Thread, ReadReply(t) PROVE TypeOK'
  <2>1. ThreadTypes'
    <3>1. pc' \in [Thread -> {"setup", "idle", "end", "failed", "dead"} \union Sending
                              \union {"link", "done", "lock", "reply", "read", "handle", "store", "set"}]
      BY <1>8 DEF ThreadTypes, ReadReply, ReturnDirect, ThrowDirect
    <3>2. \A w \in Worker : pc'[w] # "idle" <=> pc[w] # "idle"
      BY <1>8, Threads DEF ThreadTypes, ReadReply, ReturnDirect, ThrowDirect
    <3>3. crashed' \in BOOLEAN
      BY <1>8 DEF ThreadTypes, ReadReply, ThrowDirect
    <3> QED
      BY <1>8, <3>1, <3>2, <3>3 DEF ThreadTypes, ReadReply
  <2>2. DirectTypes'
    <3>1. \E x \in [response : Outcome \union {"none"}, packet : Message \union {NoMessage}] :
            returned' = [returned EXCEPT ![t] = x]
      BY <1>8 DEF DirectTypes, ReadReply, ReturnDirect, ThrowDirect
    <3> QED
      BY <1>8, <3>1 DEF DirectTypes, ReadReply, ReturnDirect, ThrowDirect
  <2>3. ModemTypes'
    BY <1>8 DEF ThreadTypes, DirectTypes, ModemTypes, ReadReply, ReturnDirect, ThrowDirect
  <2> QED
    BY <2>1, <2>2, <2>3
<1>9. ASSUME QueryModem PROVE TypeOK'
  <2>1. ThreadTypes'
    BY <1>9 DEF ThreadTypes, DirectTypes, ModemTypes, QueryModem, Channel!Ask
  <2>2. DirectTypes'
    BY <1>9 DEF ThreadTypes, DirectTypes, ModemTypes, QueryModem, Channel!Ask
  <2>3. ModemTypes'
    BY <1>9 DEF ThreadTypes, DirectTypes, ModemTypes, QueryModem, Channel!Ask
  <2> QED
    BY <2>1, <2>2, <2>3
<1>10. ASSUME AskLink PROVE TypeOK'
  <2>1. ThreadTypes'
    BY <1>10 DEF ThreadTypes, DirectTypes, ModemTypes, AskLink, Channel!Ask
  <2>2. DirectTypes'
    BY <1>10 DEF ThreadTypes, DirectTypes, ModemTypes, AskLink, Channel!Ask
  <2>3. ModemTypes'
    BY <1>10 DEF ThreadTypes, DirectTypes, ModemTypes, AskLink, Channel!Ask
  <2> QED
    BY <2>1, <2>2, <2>3
<1>11. ASSUME AwaitLink PROVE TypeOK'
  <2>1. ThreadTypes'
    BY <1>11 DEF ThreadTypes, DirectTypes, ModemTypes, AwaitLink, LinkAwaited, AutoReset
  <2>2. DirectTypes'
    BY <1>11 DEF ThreadTypes, DirectTypes, ModemTypes, AwaitLink, LinkAwaited, AutoReset
  <2>3. ModemTypes'
    BY <1>11 DEF ThreadTypes, DirectTypes, ModemTypes, AwaitLink, LinkAwaited, AutoReset
  <2> QED
    BY <2>1, <2>2, <2>3
<1>12. ASSUME EnumerationThrows PROVE TypeOK'
  <2>1. ThreadTypes'
    BY <1>12 DEF ThreadTypes, DirectTypes, ModemTypes, EnumerationThrows
  <2>2. DirectTypes'
    BY <1>12 DEF ThreadTypes, DirectTypes, ModemTypes, EnumerationThrows
  <2>3. ModemTypes'
    BY <1>12 DEF ThreadTypes, DirectTypes, ModemTypes, EnumerationThrows
  <2> QED
    BY <2>1, <2>2, <2>3
<1>13. ASSUME SetupDone PROVE TypeOK'
  <2>1. ThreadTypes'
    BY <1>13 DEF ThreadTypes, DirectTypes, ModemTypes, SetupDone
  <2>2. DirectTypes'
    BY <1>13 DEF ThreadTypes, DirectTypes, ModemTypes, SetupDone
  <2>3. ModemTypes'
    BY <1>13 DEF ThreadTypes, DirectTypes, ModemTypes, SetupDone
  <2> QED
    BY <2>1, <2>2, <2>3
<1>14. ASSUME NEW d \in Device, SetupDevice(d) PROVE TypeOK'
  <2>1. ThreadTypes'
    BY <1>14 DEF ThreadTypes, DirectTypes, ModemTypes, SetupDevice, Packet
  <2>2. DirectTypes'
    <3>1. sends + 1 \in Nat /\ [dev |-> d, id |-> sends + 1] \in Packet
      BY DEF DirectTypes, Packet
    <3> QED
      BY <1>14, <3>1 DEF DirectTypes, SetupDevice
  <2>3. ModemTypes'
    BY <1>14 DEF ThreadTypes, DirectTypes, ModemTypes, SetupDevice, Packet
  <2> QED
    BY <2>1, <2>2, <2>3
<1>15. ASSUME NEW u \in User, NEW d \in Device, UserSends(u, d) PROVE TypeOK'
  <2>1. ThreadTypes'
    BY <1>15 DEF ThreadTypes, DirectTypes, ModemTypes, UserSends, Packet
  <2>2. DirectTypes'
    BY <1>15 DEF ThreadTypes, DirectTypes, ModemTypes, UserSends, Packet
  <2>3. ModemTypes'
    BY <1>15 DEF ThreadTypes, DirectTypes, ModemTypes, UserSends, Packet
  <2> QED
    BY <2>1, <2>2, <2>3
<1>16. ASSUME NEW w \in Worker, StartBatch(w) PROVE TypeOK'
  <2>1. ThreadTypes'
    BY <1>16 DEF ThreadTypes, DirectTypes, ModemTypes, StartBatch
  <2>2. DirectTypes'
    BY <1>16 DEF ThreadTypes, DirectTypes, ModemTypes, StartBatch
  <2>3. ModemTypes'
    BY <1>16 DEF ThreadTypes, DirectTypes, ModemTypes, StartBatch
  <2> QED
    BY <2>1, <2>2, <2>3
<1>17. ASSUME NEW w \in Worker, HandleRecord(w) PROVE TypeOK'
  <2>1. ThreadTypes'
    BY <1>17, HeadMessage DEF ThreadTypes, HandleRecord, Handles, Signalled
  <2>2. DirectTypes'
    BY <1>17 DEF ThreadTypes, DirectTypes, ModemTypes, HandleRecord, Handles, Signalled
  <2>3. ModemTypes'
    BY <1>17 DEF ThreadTypes, DirectTypes, ModemTypes, HandleRecord, Handles, Signalled
  <2> QED
    BY <2>1, <2>2, <2>3
<1>18. ASSUME NEW w \in Worker, HandlerThrows(w) PROVE TypeOK'
  BY <1>18 DEF HandlerThrows, ThreadTypes, DirectTypes, ModemTypes, Handles
<1>19. ASSUME NEW w \in Worker, AcceptReply(w) PROVE TypeOK'
  BY <1>19 DEF AcceptReply, ThreadTypes, DirectTypes, ModemTypes, Handles, IsReply
<1>20. ASSUME NEW w \in Worker, StoreReply(w) PROVE TypeOK'
  <2>1. ThreadTypes'
    BY <1>20 DEF ThreadTypes, DirectTypes, ModemTypes, StoreReply
  <2>2. DirectTypes'
    BY <1>20, HeadMessage DEF ThreadTypes, DirectTypes, SessionInv, SendInv, StoreReply
  <2>3. ModemTypes'
    BY <1>20 DEF ThreadTypes, DirectTypes, ModemTypes, StoreReply
  <2> QED
    BY <2>1, <2>2, <2>3
<1>21. ASSUME NEW w \in Worker, SetEvent(w) PROVE TypeOK'
  BY <1>21 DEF SetEvent, ThreadTypes, DirectTypes, ModemTypes
<1>22. ASSUME NEW w \in Worker, PassToDevice(w) PROVE TypeOK'
  <2>1. ThreadTypes'
    BY <1>22, HeadMessage DEF ThreadTypes, PassToDevice, Handles
  <2>2. DirectTypes'
    BY <1>22, HeadMessage DEF ThreadTypes, DirectTypes, PassToDevice, Handles, Packet
  <2>3. ModemTypes'
    BY <1>22 DEF ThreadTypes, DirectTypes, ModemTypes, PassToDevice, Handles, IsReply
  <2> QED
    BY <2>1, <2>2, <2>3
<1>23. ASSUME NEW w \in Worker, EndMessage(w) PROVE TypeOK'
  <2>1. ThreadTypes'
    BY <1>23 DEF ThreadTypes, DirectTypes, ModemTypes, EndMessage
  <2>2. DirectTypes'
    BY <1>23 DEF ThreadTypes, DirectTypes, ModemTypes, EndMessage
  <2>3. ModemTypes'
    BY <1>23 DEF ThreadTypes, DirectTypes, ModemTypes, EndMessage
  <2> QED
    BY <2>1, <2>2, <2>3
<1>24. ASSUME QueueBatch PROVE TypeOK'
  <2>1. ThreadTypes'
    <3>1. PICK k \in 1..Len(wire) : pool' = pool \union {SubSeq(wire, 1, k)}
      BY <1>24 DEF QueueBatch
    <3>2. SubSeq(wire, 1, k) \in Seq(Message) /\ SubSeq(wire, 1, k) # <<>>
      BY DEF ModemTypes
    <3> QED
      BY <1>24, <3>1, <3>2 DEF ThreadTypes, QueueBatch
  <2>2. DirectTypes'
    BY <1>24 DEF ThreadTypes, DirectTypes, ModemTypes, QueueBatch
  <2>3. ModemTypes'
    BY <1>24 DEF ThreadTypes, DirectTypes, ModemTypes, QueueBatch
  <2> QED
    BY <2>1, <2>2, <2>3
<1>25. ASSUME NEW r \in requests, ModemExecutes(r) PROVE TypeOK'
  <2>1. ThreadTypes'
    BY <1>25
       DEF ThreadTypes, DirectTypes, ModemTypes, ModemExecutes, ModemAnswers, Channel!Answered
  <2>2. DirectTypes'
    BY <1>25
       DEF ThreadTypes, DirectTypes, ModemTypes, ModemExecutes, ModemAnswers, Channel!Answered
  <2>3. ModemTypes'
    <3>1. r.kind = "direct" => r.packet \in Packet
      BY DEF SessionInv, SendInv
    <3>2. seen' \subseteq {"Ack", "Nack"} /\ credit' \in Nat /\ verdict' \in {"none", "Ack", "Nack"}
      BY <1>25 DEF ModemTypes, ModemExecutes, ModemAnswers, Channel!Answered
    <3>3. requests' \subseteq requests /\ replies' \subseteq Packet
      BY <1>25, <3>1 DEF ModemTypes, ModemExecutes, ModemAnswers
    <3> QED
      BY <1>25, <3>2, <3>3 DEF ModemTypes, ModemExecutes, ModemAnswers, Channel!Answered
  <2> QED
    BY <2>1, <2>2, <2>3
<1>26. ASSUME NEW r \in requests, ModemReadsLink(r) PROVE TypeOK'
  <2>1. ThreadTypes'
    BY <1>26
       DEF ThreadTypes, DirectTypes, ModemTypes, ModemReadsLink, ModemAnswers,
           Channel!Answered, Msg, Message
  <2>2. DirectTypes'
    BY <1>26
       DEF ThreadTypes, DirectTypes, ModemTypes, ModemReadsLink, ModemAnswers,
           Channel!Answered, Msg, Message
  <2>3. ModemTypes'
    <3>0. \E response \in {"Ack", "Nack"} : ModemAnswers(r, response)
      BY <1>26 DEF ModemReadsLink
    <3>1. seen' \subseteq {"Ack", "Nack"} /\ credit' \in Nat /\ verdict' \in {"none", "Ack", "Nack"}
      BY <3>0 DEF ModemTypes, ModemAnswers, Channel!Answered
    <3>2. \/ UNCHANGED <<wire, nextLink>>
          \/ \E at \in 1..Len(Links) : wire' = Append(wire, Msg("record", Links[at], 0))
                                    /\ nextLink' = at + 1
      BY <1>26 DEF ModemTypes, ModemReadsLink, DeviceAssumption
    <3>3. \A at \in 1..Len(Links) : Msg("record", Links[at], 0) \in Message /\ at + 1 \in Nat \ {0}
      BY DeviceAssumption DEF Msg, Message
    <3>4. wire' \in Seq(Message) /\ nextLink' \in Nat \ {0}
      <4>1. wire \in Seq(Message) /\ nextLink \in Nat \ {0}
        BY DEF ModemTypes
      <4>2. CASE UNCHANGED <<wire, nextLink>>
        BY <4>1, <4>2
      <4>3. ASSUME NEW at \in 1..Len(Links), wire' = Append(wire, Msg("record", Links[at], 0)),
                   nextLink' = at + 1
            PROVE  wire' \in Seq(Message) /\ nextLink' \in Nat \ {0}
        <5>1. Msg("record", Links[at], 0) \in Message
          BY <3>3
        <5> QED
          BY <4>1, <4>3, <5>1, <3>3
      <4> QED
        BY <3>2, <4>2, <4>3
    <3> QED
      BY <1>26, <3>1, <3>4 DEF ModemTypes, ModemReadsLink, ModemAnswers, Channel!Answered
  <2> QED
    BY <2>1, <2>2, <2>3
<1>27. ASSUME NEW r \in requests, ModemLoses(r) PROVE TypeOK'
  BY <1>27 DEF ModemLoses, ThreadTypes, DirectTypes, ModemTypes
<1>28. ASSUME NEW p \in replies, DeviceReplies(p) PROVE TypeOK'
  <2>1. ThreadTypes'
    BY <1>28 DEF ThreadTypes, DirectTypes, ModemTypes, DeviceReplies, Msg, Message
  <2>2. DirectTypes'
    BY <1>28 DEF ThreadTypes, DirectTypes, ModemTypes, DeviceReplies, Msg, Message
  <2>3. ModemTypes'
    <3>1. \A k \in {"ack", "nack"} : Msg(k, p.dev, p.id) \in Message
      BY DEF ModemTypes, Msg, Message, Packet
    <3>2. wire' \in Seq(Message)
      BY <1>28, <3>1 DEF ModemTypes, DeviceReplies
    <3> QED
      BY <1>28, <3>2 DEF ModemTypes, DeviceReplies
  <2> QED
    BY <2>1, <2>2, <2>3
<1>29. ASSUME NEW kind \in {"press", "group"}, NEW d \in Device, DeviceSpeaks(kind, d)
       PROVE  TypeOK'
  <2>1. ThreadTypes'
    BY <1>29 DEF ThreadTypes, DirectTypes, ModemTypes, DeviceSpeaks, Msg, Message
  <2>2. DirectTypes'
    BY <1>29 DEF ThreadTypes, DirectTypes, ModemTypes, DeviceSpeaks, Msg, Message
  <2>3. ModemTypes'
    BY <1>29 DEF ThreadTypes, DirectTypes, ModemTypes, DeviceSpeaks, Msg, Message
  <2> QED
    BY <2>1, <2>2, <2>3
<1> QED
  BY <1>0, <1>1, <1>2, <1>3, <1>4, <1>5, <1>6, <1>7, <1>8, <1>9, <1>10, <1>11, <1>12, <1>13,
     <1>14, <1>15, <1>16, <1>17, <1>18, <1>19, <1>20, <1>21, <1>22, <1>23, <1>24, <1>25,
     <1>26, <1>27, <1>28, <1>29, <1>30, Steps

\* One step keeps the lock, the stages and what each thread in SendCommand sends.
LEMMA SessionStep ==
  ASSUME TypeOK, SessionInv, [Next]_vars
  PROVE  SessionInv'
<1> USE Threads DEF TypeOK, ThreadTypes, DirectTypes, ModemTypes,
              SessionInv, LockInv, StageInv, SendInv, StartingUp, Direct
<1>0. CASE UNCHANGED vars
  BY <1>0 DEF vars, Item
<1>1. ASSUME NEW t \in Thread, WriteCommand(t) PROVE SessionInv'
  BY <1>1 DEF WriteCommand, Item, Channel!Begin
<1>2. ASSUME NEW t \in Thread, CommandAnswered(t) PROVE SessionInv'
  BY <1>2 DEF CommandAnswered, Item, Channel!EndAnswered
<1>3. ASSUME NEW t \in Thread, CommandFails(t) PROVE SessionInv'
  BY <1>3 DEF CommandFails, Item, Channel!EndUnanswered
<1>30. ASSUME NEW t \in Thread, AnswerCut(t) PROVE SessionInv'
  BY <1>30 DEF AnswerCut, Item, Channel!EndAnswered
<1>4. ASSUME NEW t \in Thread, LockDirect(t) PROVE SessionInv'
  BY <1>4 DEF LockDirect, Item
<1>5. ASSUME NEW t \in Thread, DirectSent(t) PROVE SessionInv'
  BY <1>5 DEF DirectSent, Item, ReturnDirect, ThrowDirect, Channel!Ask
<1>6. ASSUME NEW t \in Thread, AwaitReply(t) PROVE SessionInv'
  BY <1>6 DEF AwaitReply, Item, AutoReset
<1>7. ASSUME NEW t \in Thread, ReplyTimeout(t) PROVE SessionInv'
  BY <1>7 DEF ReplyTimeout, Item, ReturnDirect, WaitExpires
<1>8. ASSUME NEW t \in Thread, ReadReply(t) PROVE SessionInv'
  <2>1. LockInv'
    BY <1>8 DEF ReadReply, ReturnDirect, ThrowDirect, Item
  <2>2. StageInv'
    BY <1>8 DEF ReadReply, ReturnDirect, ThrowDirect, Item
  <2>3. SendInv'
    <3>1. /\ \A u \in Thread : u # t => pc'[u] = pc[u]
          /\ pc[t] = "read" /\ pc'[t] \notin {"store", "set"}
      BY <1>8 DEF ReadReply, ReturnDirect, ThrowDirect
    <3>2. UNCHANGED <<exchange, outcome, batch, requests>>
      BY <1>8 DEF ReadReply
    <3> QED
      BY <3>1, <3>2 DEF Item
  <2> QED
    BY <2>1, <2>2, <2>3
<1>9. ASSUME QueryModem PROVE SessionInv'
  BY <1>9 DEF QueryModem, Item, Channel!Ask
<1>10. ASSUME AskLink PROVE SessionInv'
  BY <1>10 DEF AskLink, Item, Channel!Ask
<1>11. ASSUME AwaitLink PROVE SessionInv'
  BY <1>11 DEF AwaitLink, Item, LinkAwaited, AutoReset
<1>12. ASSUME EnumerationThrows PROVE SessionInv'
  BY <1>12 DEF EnumerationThrows, Item
<1>13. ASSUME SetupDone PROVE SessionInv'
  BY <1>13 DEF SetupDone, Item
<1>14. ASSUME NEW d \in Device, SetupDevice(d) PROVE SessionInv'
  <2>1. CASE d \in Known
    BY <1>14, <2>1 DEF SetupDevice, Item
  <2>2. CASE d \notin Known
    <3>1. LockInv'
      BY <1>14, <2>2 DEF SetupDevice, Packet, Item
    <3>2. StageInv'
      BY <1>14, <2>2 DEF SetupDevice, Packet, Item
    <3>3. SendInv'
      <4>1. /\ \A u \in Thread : u # Main => pc'[u] = pc[u]
            /\ pc[Main] = "setup" /\ pc'[Main] = "lock"
        BY <1>14, <2>2 DEF SetupDevice
      <4>2. UNCHANGED <<exchange, outcome, batch, requests>>
        BY <1>14 DEF SetupDevice
      <4> QED
        BY <4>1, <4>2 DEF Item
    <3> QED
      BY <3>1, <3>2, <3>3
  <2> QED
    BY <2>1, <2>2
<1>15. ASSUME NEW u \in User, NEW d \in Device, UserSends(u, d) PROVE SessionInv'
  BY <1>15 DEF UserSends, Item, Packet
<1>16. ASSUME NEW w \in Worker, StartBatch(w) PROVE SessionInv'
  BY <1>16 DEF StartBatch, Item
<1>17. ASSUME NEW w \in Worker, HandleRecord(w) PROVE SessionInv'
  BY <1>17 DEF HandleRecord, Item, Handles, Signalled
<1>18. ASSUME NEW w \in Worker, HandlerThrows(w) PROVE SessionInv'
  BY <1>18 DEF HandlerThrows, Item, Handles
<1>19. ASSUME NEW w \in Worker, AcceptReply(w) PROVE SessionInv'
  BY <1>19 DEF AcceptReply, Item, Handles, IsReply
<1>20. ASSUME NEW w \in Worker, StoreReply(w) PROVE SessionInv'
  BY <1>20 DEF StoreReply, Item
<1>21. ASSUME NEW w \in Worker, SetEvent(w) PROVE SessionInv'
  BY <1>21 DEF SetEvent, Item
<1>22. ASSUME NEW w \in Worker, PassToDevice(w) PROVE SessionInv'
  <2>1. CASE pc' = [pc EXCEPT ![w] = "end"] /\ UNCHANGED <<packet, sends>>
    BY <1>22, <2>1 DEF PassToDevice, Item, Handles
  <2>2. CASE NewPacket(w, Head(batch[w]).dev)
    <3>0. [dev |-> Head(batch[w]).dev, id |-> sends + 1] \in Packet
      BY <1>22, HeadMessage DEF PassToDevice, Handles, Packet
    <3>1. LockInv'
      BY <1>22, <2>2, <3>0 DEF PassToDevice, Item, Handles
    <3>2. StageInv'
      BY <1>22, <2>2, <3>0 DEF PassToDevice, Item, Handles
    <3>3. SendInv'
      BY <1>22, <2>2, <3>0 DEF PassToDevice, Item, Handles
    <3> QED
      BY <3>1, <3>2, <3>3
  <2> QED
    BY <1>22, <2>1, <2>2 DEF PassToDevice
<1>23. ASSUME NEW w \in Worker, EndMessage(w) PROVE SessionInv'
  BY <1>23 DEF EndMessage, Item
<1>24. ASSUME QueueBatch PROVE SessionInv'
  BY <1>24 DEF QueueBatch, Item
<1>25. ASSUME NEW r \in requests, ModemExecutes(r) PROVE SessionInv'
  BY <1>25 DEF ModemExecutes, Item, ModemAnswers, Channel!Answered
<1>26. ASSUME NEW r \in requests, ModemReadsLink(r) PROVE SessionInv'
  BY <1>26 DEF ModemReadsLink, Item, ModemAnswers, Channel!Answered, Msg, Message
<1>27. ASSUME NEW r \in requests, ModemLoses(r) PROVE SessionInv'
  BY <1>27 DEF ModemLoses, Item
<1>28. ASSUME NEW p \in replies, DeviceReplies(p) PROVE SessionInv'
  BY <1>28 DEF DeviceReplies, Item, Msg, Message
<1>29. ASSUME NEW kind \in {"press", "group"}, NEW d \in Device, DeviceSpeaks(kind, d)
       PROVE  SessionInv'
  BY <1>29 DEF DeviceSpeaks, Item, Msg, Message
<1> QED
  BY <1>0, <1>1, <1>2, <1>3, <1>4, <1>5, <1>6, <1>7, <1>8, <1>9, <1>10, <1>11, <1>12, <1>13,
     <1>14, <1>15, <1>16, <1>17, <1>18, <1>19, <1>20, <1>21, <1>22, <1>23, <1>24, <1>25,
     <1>26, <1>27, <1>28, <1>29, <1>30, Steps

\* One step on an undisturbed link keeps at most one command in the modem.
LEMMA CommandStep ==
  ASSUME TypeOK, SessionInv, CommandInv, [Next]_vars
  PROVE  CommandInv'
<1> USE Threads DEF TypeOK, ThreadTypes, DirectTypes, ModemTypes, SessionInv, SendInv, CommandInv, late
<1>0. CASE UNCHANGED vars
  BY <1>0 DEF vars
<1>1. ASSUME NEW t \in Thread, WriteCommand(t) PROVE CommandInv'
  BY <1>1 DEF WriteCommand, Channel!Begin
<1>2. ASSUME NEW t \in Thread, CommandAnswered(t) PROVE CommandInv'
  BY <1>2 DEF CommandAnswered, Channel!EndAnswered
<1>3. ASSUME NEW t \in Thread, CommandFails(t) PROVE CommandInv'
  BY <1>3 DEF CommandFails, Channel!EndUnanswered
<1>30. ASSUME NEW t \in Thread, AnswerCut(t) PROVE CommandInv'
  BY <1>30 DEF AnswerCut, Channel!EndAnswered
<1>4. ASSUME NEW t \in Thread, LockDirect(t) PROVE CommandInv'
  BY <1>4 DEF LockDirect
<1>5. ASSUME NEW t \in Thread, DirectSent(t) PROVE CommandInv'
  BY <1>5 DEF DirectSent, ReturnDirect, ThrowDirect, Channel!Ask
<1>6. ASSUME NEW t \in Thread, AwaitReply(t) PROVE CommandInv'
  BY <1>6 DEF AwaitReply, AutoReset
<1>7. ASSUME NEW t \in Thread, ReplyTimeout(t) PROVE CommandInv'
  BY <1>7 DEF ReplyTimeout, ReturnDirect, WaitExpires
<1>8. ASSUME NEW t \in Thread, ReadReply(t) PROVE CommandInv'
  BY <1>8 DEF ReadReply, ReturnDirect, ThrowDirect
<1>9. ASSUME QueryModem PROVE CommandInv'
  BY <1>9 DEF QueryModem, Channel!Ask
<1>10. ASSUME AskLink PROVE CommandInv'
  BY <1>10 DEF AskLink, Channel!Ask
<1>11. ASSUME AwaitLink PROVE CommandInv'
  BY <1>11 DEF AwaitLink, LinkAwaited, AutoReset
<1>12. ASSUME EnumerationThrows PROVE CommandInv'
  BY <1>12 DEF EnumerationThrows
<1>13. ASSUME SetupDone PROVE CommandInv'
  BY <1>13 DEF SetupDone
<1>14. ASSUME NEW d \in Device, SetupDevice(d) PROVE CommandInv'
  BY <1>14 DEF SetupDevice, Packet
<1>15. ASSUME NEW u \in User, NEW d \in Device, UserSends(u, d) PROVE CommandInv'
  BY <1>15 DEF UserSends, Packet
<1>16. ASSUME NEW w \in Worker, StartBatch(w) PROVE CommandInv'
  BY <1>16 DEF StartBatch
<1>17. ASSUME NEW w \in Worker, HandleRecord(w) PROVE CommandInv'
  BY <1>17 DEF HandleRecord, Handles, Signalled
<1>18. ASSUME NEW w \in Worker, HandlerThrows(w) PROVE CommandInv'
  BY <1>18 DEF HandlerThrows, Handles
<1>19. ASSUME NEW w \in Worker, AcceptReply(w) PROVE CommandInv'
  BY <1>19 DEF AcceptReply, Handles, IsReply
<1>20. ASSUME NEW w \in Worker, StoreReply(w) PROVE CommandInv'
  BY <1>20 DEF StoreReply
<1>21. ASSUME NEW w \in Worker, SetEvent(w) PROVE CommandInv'
  BY <1>21 DEF SetEvent
<1>22. ASSUME NEW w \in Worker, PassToDevice(w) PROVE CommandInv'
  BY <1>22 DEF PassToDevice, Handles, IsReply
<1>23. ASSUME NEW w \in Worker, EndMessage(w) PROVE CommandInv'
  BY <1>23 DEF EndMessage
<1>24. ASSUME QueueBatch PROVE CommandInv'
  BY <1>24 DEF QueueBatch
<1>25. ASSUME NEW r \in requests, ModemExecutes(r) PROVE CommandInv'
  BY <1>25 DEF ModemExecutes, ModemAnswers, Channel!Answered
<1>26. ASSUME NEW r \in requests, ModemReadsLink(r) PROVE CommandInv'
  BY <1>26 DEF ModemReadsLink, ModemAnswers, Channel!Answered, Msg, Message
<1>27. ASSUME NEW r \in requests, ModemLoses(r) PROVE CommandInv'
  BY <1>27 DEF ModemLoses
<1>28. ASSUME NEW p \in replies, DeviceReplies(p) PROVE CommandInv'
  BY <1>28 DEF DeviceReplies, Msg, Message
<1>29. ASSUME NEW kind \in {"press", "group"}, NEW d \in Device, DeviceSpeaks(kind, d)
       PROVE  CommandInv'
  BY <1>29 DEF DeviceSpeaks, Msg, Message
<1> QED
  BY <1>0, <1>1, <1>2, <1>3, <1>4, <1>5, <1>6, <1>7, <1>8, <1>9, <1>10, <1>11, <1>12, <1>13,
     <1>14, <1>15, <1>16, <1>17, <1>18, <1>19, <1>20, <1>21, <1>22, <1>23, <1>24, <1>25,
     <1>26, <1>27, <1>28, <1>29, <1>30, Steps

BaseInv == TypeOK /\ SessionInv /\ CommandInv

\* The three invariants together.
LEMMA InitBase == Init => BaseInv
<1> SUFFICES ASSUME Init PROVE BaseInv
  OBVIOUS
<1>1. \A t \in Thread : pc[t] = IF t = Main THEN "info" ELSE "idle"
  BY DEF Init
<1>2. SessionInv
  BY <1>1, Threads DEF Init, SessionInv, LockInv, StageInv, SendInv, StartingUp, Direct,
                       Channel!Init
<1>3. CommandInv
  BY DEF Init, CommandInv, Channel!Init
<1> QED
  BY <1>2, <1>3, InitType DEF BaseInv

\* Each step keeps the types and the invariants that the rest needs.
LEMMA BaseStep == BaseInv /\ [Next]_vars => BaseInv'
BY TypeStep, SessionStep, CommandStep DEF BaseInv

\* The types and those invariants hold in every reachable state.
LEMMA BaseCorrect == Spec => []BaseInv
BY InitBase, BaseStep, PTL DEF Spec

\* Every variable has its type, for any devices, links and threads.
THEOREM TypeCorrect == Spec => []TypeOK
<1>1. BaseInv => TypeOK
  BY DEF BaseInv
<1> QED
  BY <1>1, BaseCorrect, PTL
=============================================================================
