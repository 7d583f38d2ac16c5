---------------------------- MODULE FluffInsteon_timely ----------------------------
(***************************************************************************)
(* As long as nothing has disturbed the link (no wait has timed out, no    *)
(* answer has been cut), SendDirectInsteonPacket returns the answer to its *)
(* packet, Startup reads every link, and no exception escapes but the one  *)
(* for messages that come too early.                                       *)
(***************************************************************************)
EXTENDS FluffInsteon_proofs

\* On an undisturbed link, what SendDirectInsteonPacket will read is the reply to
\* the packet it sent.
ReceivedInv ==
  ~late =>
    /\ \A w \in Worker : pc[w] = "set" /\ ~StartingUp => receivedPacket = Head(batch[w])
    /\ linkingEvent /\ ~StartingUp => Item(receivedPacket) /\ Fits(receivedPacket)
    /\ \A t \in Thread : pc[t] = "read" => Item(receivedPacket) /\ Fits(receivedPacket)

\* linkedDevices is written only while ReadAllLinks runs, Startup fails only before
\* that, and the process ends only before a packet was sent.
SurpriseInv ==
  ~late =>
    /\ pc[Main] \in {"info", "config", "failed"} => linkedDevices = {} /\ ~changed
    /\ ~StartingUp => ~changed
    /\ pc[Main] = "failed" => /\ devices = {} /\ sendingPacket = NoPacket
                              /\ \A t \in Thread : pc[t] # "lock" /\ ~Direct(t)
    /\ crashed => sendingPacket = NoPacket

\* A record or reply on its way to the event.
UnderWay(m) == \/ \E i \in Items(wire) : m = wire[i]
               \/ \E b \in pool : \E i \in Items(b) : m = b[i]
               \/ \E w \in Worker : \E i \in Pending(w) : m = batch[w][i]

Linked == {Links[i] : i \in DOMAIN Links}

\* ReadAllLinks has every link that the modem was asked for in the dictionary or
\* under way, and the modem ends its list after the last one.
LinkInv ==
  ~late =>
    /\ StartingUp =>
         /\ nextLink <= Len(Links) + 1
         /\ linkedDevices \subseteq Linked
         /\ \A m : UnderWay(m) => m.dev \in Linked
         /\ \A i \in 1..(nextLink - 1) :
              Links[i] \in linkedDevices \/ \E m : UnderWay(m) /\ m.dev = Links[i]
         /\ \A w \in Worker : pc[w] = "set" => Head(batch[w]).dev \in linkedDevices
    /\ pc[Main] \in {"info", "config"} => nextLink = 1
    /\ pc[Main] = "first" /\ outcome[Main] = "none" /\ (exchange = Main => verdict = "none") =>
         nextLink = 1
    /\ /\ pc[Main] \in {"first", "next"}
       /\ (exchange = Main /\ verdict = "Nack") \/ outcome[Main] = "Nack"
       => nextLink = Len(Links) + 1
    /\ ~StartingUp /\ pc[Main] # "failed" =>
         linkedDevices = Linked /\ linkedDevices \intersect Known \subseteq devices \union todo
    /\ pc[Main] = "done" => todo = {}

USE DEF Sending, Outcome, Kind, Goto, NewPacket, Returns, AfterDirect,
        directVars, linkVars, poolVars, channelVars, modemVars

-----------------------------------------------------------------------------
(***************************************************************************)
(* Items of sequences.                                                     *)
(***************************************************************************)
\* A message added at the end.
LEMMA AppendItems ==
  ASSUME NEW q \in Seq(Message), NEW m \in Message
  PROVE  /\ Items(Append(q, m)) = Items(q) \union (IF Item(m) THEN {Len(q) + 1} ELSE {})
         /\ \A i \in Items(q) : Append(q, m)[i] = q[i]
         /\ Append(q, m)[Len(q) + 1] = m
<1>1. /\ DOMAIN Append(q, m) = DOMAIN q \union {Len(q) + 1}
      /\ \A i \in DOMAIN q : Append(q, m)[i] = q[i]
      /\ Append(q, m)[Len(q) + 1] = m
  OBVIOUS
<1>2. Len(q) + 1 \notin DOMAIN q
  OBVIOUS
<1> QED
  BY <1>1, <1>2 DEF Items

\* The two parts of a sequence cut in two.
LEMMA CutItems ==
  ASSUME NEW q \in Seq(Message), NEW k \in 1..Len(q)
  PROVE  /\ \A i \in Items(SubSeq(q, 1, k)) :
              i \in Items(q) /\ i \in 1..k /\ SubSeq(q, 1, k)[i] = q[i]
         /\ \A i \in Items(SubSeq(q, k + 1, Len(q))) :
              /\ i + k \in Items(q) /\ i \in Nat \ {0}
              /\ SubSeq(q, k + 1, Len(q))[i] = q[i + k]
         /\ \A i \in Items(q) :
              \/ i \in Items(SubSeq(q, 1, k)) /\ SubSeq(q, 1, k)[i] = q[i]
              \/ /\ i - k \in Items(SubSeq(q, k + 1, Len(q)))
                 /\ SubSeq(q, k + 1, Len(q))[i - k] = q[i]
<1> DEFINE p == SubSeq(q, 1, k)
           r == SubSeq(q, k + 1, Len(q))
<1>1. DOMAIN p = 1..k /\ \A i \in 1..k : i \in DOMAIN q /\ p[i] = q[i]
  OBVIOUS
<1>2. /\ DOMAIN r = 1..(Len(q) - k)
      /\ \A i \in 1..(Len(q) - k) : i + k \in DOMAIN q /\ r[i] = q[i + k]
  OBVIOUS
<1>3. \A i \in DOMAIN q : i \in DOMAIN p \/ (i - k \in DOMAIN r /\ r[i - k] = q[i])
  <2>1. \A i \in DOMAIN q : i \in 1..k \/ (i - k \in 1..(Len(q) - k) /\ (i - k) + k = i)
    OBVIOUS
  <2> QED
    BY <1>1, <1>2, <2>1
<1> QED
  BY <1>1, <1>2, <1>3 DEF Items

\* What is left without the first element.
LEMMA TailItems ==
  ASSUME NEW q \in Seq(Message), q # <<>>
  PROVE  /\ \A i \in Items(Tail(q)) : /\ i \in Nat \ {0} /\ i + 1 \in Items(q)
                                      /\ Tail(q)[i] = q[i + 1]
         /\ \A i \in Items(q) : i # 1 => /\ i - 1 \in Items(Tail(q))
                                        /\ Tail(q)[i - 1] = q[i]
<1>1. \A i \in DOMAIN Tail(q) : i \in Nat \ {0} /\ i + 1 \in DOMAIN q /\ Tail(q)[i] = q[i + 1]
  OBVIOUS
<1>2. \A i \in DOMAIN q : i # 1 => i - 1 \in DOMAIN Tail(q) /\ Tail(q)[i - 1] = q[i]
  OBVIOUS
<1> QED
  BY <1>1, <1>2 DEF Items

-----------------------------------------------------------------------------
(***************************************************************************)
(* What is under way: OneUnderWay.                                         *)
(***************************************************************************)
\* One thread at a time is inside ReadAllLinks or holds lock(this).
LEMMA Alone ==
  ASSUME TypeOK, SessionInv, NEW t \in Thread, NEW u \in Thread,
         pc[t] \in {"first", "next", "link"} \/ Direct(t),
         pc[u] \in {"first", "next", "link"} \/ Direct(u)
  PROVE  t = u
BY Threads DEF SessionInv, LockInv, StageInv, StartingUp, Direct

\* Handlers only lose items, and the thread that waits for them still does, or
\* nothing was under way, or the event ended a wait.
LEMMA ItemsKept ==
  ASSUME OneUnderWay, ~late,
         replies' \subseteq replies, UNCHANGED <<wire, pool, batch>>,
         linkingEvent' => linkingEvent,
         \A w \in Worker : pc'[w] \in {"handle", "store", "set"} => pc[w] \in {"handle", "store", "set"},
         \/ ~Due
         \/ linkingEvent /\ ~linkingEvent'
         \/ Due' /\ (StartingUp' <=> StartingUp) /\ UNCHANGED sendingPacket
  PROVE  OneUnderWay'
<1>1. \A w \in Worker : /\ Pending(w)' \subseteq Pending(w)
                        /\ \A i \in Pending(w)' : batch'[w][i] = batch[w][i]
  BY DEF Pending, Items
<1>2. Items(wire') = Items(wire) /\ Items(wire)' = Items(wire)
  BY DEF Items
<1>3. /\ (AtDevice' => AtDevice) /\ (OnWire' <=> OnWire) /\ (Queued' <=> Queued)
      /\ (Handled' => Handled)
  BY <1>1, <1>2 DEF AtDevice, OnWire, Queued, Handled
<1>4. OneEach'
  BY <1>1, <1>2 DEF OneUnderWay, OneEach, AtMostOne
<1>5. OnePlace'
  BY <1>3 DEF OneUnderWay, OnePlace
<1>6. CASE ~Due \/ (linkingEvent /\ ~linkingEvent')
  <2>1. ~AtDevice' /\ ~OnWire' /\ ~Queued' /\ ~Handled' /\ ~linkingEvent'
    BY <1>3, <1>6 DEF OneUnderWay, OnePlace
  <2>2. AllFit'
    BY <2>1 DEF AllFit, AtDevice, OnWire, Queued, Handled
  <2> QED
    BY <1>4, <1>5, <2>1, <2>2 DEF OneUnderWay
<1>7. CASE Due' /\ (StartingUp' <=> StartingUp) /\ UNCHANGED sendingPacket
  <2>1. \A m : Fits(m)' = Fits(m)
    BY <1>7 DEF Fits
  <2>2. AllFit'
    BY <1>1, <1>2, <1>7, <2>1 DEF OneUnderWay, AllFit
  <2> QED
    BY <1>4, <1>5, <1>7, <2>2 DEF OneUnderWay
<1> QED
  BY <1>6, <1>7

\* The thread that waits for an item still does.
LEMMA DueKept ==
  ASSUME \A t \in Thread : pc[t] \in {"first", "next", "direct", "link", "reply"} => pc'[t] = pc[t],
         \A t \in Thread : Acked(t) => Acked(t)'
  PROVE  Due => Due'
BY DEF Due

\* An item that is only at the event.
LEMMA NothingElse ==
  ASSUME ~AtDevice', ~OnWire', ~Queued', ~Handled', Due'
  PROVE  OneUnderWay'
BY DEF OneUnderWay, OneEach, OnePlace, AllFit, AtMostOne, AtDevice, OnWire, Queued, Handled

\* An item that is sent while nothing is under way.
LEMMA ItemSent ==
  ASSUME TypeOK, NEW m \in Message, Item(m), Fits(m), wire' = Append(wire, m), replies' = {},
         UNCHANGED <<pc, pool, batch, linkingEvent, sendingPacket>>,
         ~OnWire, ~Queued, ~Handled, ~linkingEvent, Due'
  PROVE  OneUnderWay'
<1>1. Items(wire)' = {Len(wire) + 1} /\ wire'[Len(wire) + 1] = m
  BY AppendItems DEF TypeOK, ModemTypes, OnWire, Items
<1>2. ~Queued' /\ ~Handled' /\ ~AtDevice' /\ ~linkingEvent'
  BY DEF Queued, Handled, AtDevice, Items, Pending
<1>3. Fits(m)'
  BY DEF Fits, StartingUp
<1> QED
  BY <1>1, <1>2, <1>3
     DEF OneUnderWay, OneEach, OnePlace, AllFit, AtMostOne, Queued, Handled, AtDevice

\* One step keeps at most one item under way: it moves, from the device to the wire, a
\* batch, a handler and the event, or is taken, or the first of a new command is sent.
LEMMA UnderWayStep ==
  ASSUME TypeOK, SessionInv, CommandInv, OneUnderWay, [Next]_vars, ~late, ~late'
  PROVE  OneUnderWay'
<1> USE Threads DEF TypeOK, ThreadTypes, DirectTypes, ModemTypes, Acked, StartingUp, Direct
<1>0. CASE UNCHANGED vars
  BY <1>0, ItemsKept DEF vars, Due
<1>1. ASSUME NEW t \in Thread, WriteCommand(t) PROVE OneUnderWay'
  BY <1>1, Threads, Alone, ItemsKept, DueKept
     DEF SessionInv, LockInv, StageInv, SendInv, CommandInv, Due, WriteCommand, Channel!Begin
<1>2. ASSUME NEW t \in Thread, CommandAnswered(t) PROVE OneUnderWay'
  BY <1>2, Threads, Alone, ItemsKept, DueKept
    
        DEF SessionInv, LockInv, StageInv, SendInv, CommandInv, Due, CommandAnswered,
            Channel!EndAnswered
<1>3. ASSUME NEW t \in Thread, CommandFails(t) PROVE OneUnderWay'
  <2>1. late'
    BY <1>3 DEF CommandFails, late
  <2> QED
    BY <2>1
<1>30. ASSUME NEW t \in Thread, AnswerCut(t) PROVE OneUnderWay'
  <2>1. late'
    BY <1>30 DEF AnswerCut, TypeOK, DirectTypes, late
  <2> QED
    BY <2>1
<1>4. ASSUME NEW t \in Thread, LockDirect(t) PROVE OneUnderWay'
  BY <1>4, Threads, Alone, ItemsKept, DueKept
     DEF SessionInv, LockInv, StageInv, SendInv, CommandInv, Due, LockDirect
<1>5. ASSUME NEW t \in Thread, DirectSent(t) PROVE OneUnderWay'
  BY <1>5, Threads, Alone, ItemsKept, DueKept
    
        DEF SessionInv, LockInv, StageInv, SendInv, CommandInv, Due, DirectSent,
            ReturnDirect, ThrowDirect, Channel!Ask
<1>6. ASSUME NEW t \in Thread, AwaitReply(t) PROVE OneUnderWay'
  BY <1>6, Threads, Alone, ItemsKept, DueKept
     DEF SessionInv, LockInv, StageInv, SendInv, CommandInv, Due, AwaitReply, AutoReset
<1>7. ASSUME NEW t \in Thread, ReplyTimeout(t) PROVE OneUnderWay'
  <2>1. late'
    BY <1>7 DEF ReplyTimeout, late
  <2> QED
    BY <2>1
<1>8. ASSUME NEW t \in Thread, ReadReply(t) PROVE OneUnderWay'
  BY <1>8, Threads, Alone, ItemsKept, DueKept
    
        DEF SessionInv, LockInv, StageInv, SendInv, CommandInv, Due, ReadReply, ReturnDirect,
            ThrowDirect
<1>9. ASSUME QueryModem PROVE OneUnderWay'
  BY <1>9, Threads, Alone, ItemsKept, DueKept
     DEF SessionInv, LockInv, StageInv, SendInv, CommandInv, Due, QueryModem, Channel!Ask
<1>10. ASSUME AskLink PROVE OneUnderWay'
  BY <1>10, Threads, Alone, ItemsKept, DueKept
     DEF SessionInv, LockInv, StageInv, SendInv, CommandInv, Due, AskLink, Channel!Ask
<1>11. ASSUME AwaitLink PROVE OneUnderWay'
  BY <1>11, Threads, Alone, ItemsKept, DueKept
    
        DEF SessionInv, LockInv, StageInv, SendInv, CommandInv, Due, AwaitLink, LinkAwaited,
            AutoReset
<1>12. ASSUME EnumerationThrows PROVE OneUnderWay'
  BY <1>12, Threads, Alone, ItemsKept, DueKept
     DEF SessionInv, LockInv, StageInv, SendInv, CommandInv, Due, EnumerationThrows
<1>13. ASSUME SetupDone PROVE OneUnderWay'
  BY <1>13, Threads, Alone, ItemsKept, DueKept
     DEF SessionInv, LockInv, StageInv, SendInv, CommandInv, Due, SetupDone
<1>14. ASSUME NEW d \in Device, SetupDevice(d) PROVE OneUnderWay'
  BY <1>14, Threads, Alone, ItemsKept, DueKept
     DEF SessionInv, LockInv, StageInv, SendInv, CommandInv, Due, SetupDevice, Packet
<1>15. ASSUME NEW u \in User, NEW d \in Device, UserSends(u, d) PROVE OneUnderWay'
  BY <1>15, Threads, Alone, ItemsKept, DueKept
     DEF SessionInv, LockInv, StageInv, SendInv, CommandInv, Due, UserSends, Packet
<1>16. ASSUME NEW w \in Worker, StartBatch(w) PROVE OneUnderWay'
  <2>1. PICK b \in pool : pool' = pool \ {b} /\ batch' = [batch EXCEPT ![w] = b]
    BY <1>16 DEF StartBatch
  <2>2. /\ pc[w] = "idle" /\ pc' = [pc EXCEPT ![w] = "handle"]
        /\ UNCHANGED <<replies, wire, linkingEvent, sendingPacket, exchange, verdict, outcome>>
    BY <1>16 DEF StartBatch
  <2>3. Pending(w)' = Items(b) /\ batch'[w] = b /\ pc'[w] = "handle"
    BY <2>1, <2>2 DEF Pending, Items
  <2>4. \A v \in Worker : v # w => Pending(v)' = Pending(v) /\ batch'[v] = batch[v]
    BY <2>1, <2>2 DEF Pending, Items
  <2>5. Pending(w) = {}
    BY <2>2 DEF Pending, Items
  <2>6. Items(wire)' = Items(wire)
    BY <2>2 DEF Items
  <2>7. Due => Due'
    BY <2>2, DueKept
  <2>8. \A m : Fits(m)' = Fits(m)
    BY <2>2 DEF Fits
  <2>9. \A c \in pool' : Items(b) # {} => Items(c) = {}
    BY <2>1 DEF OneUnderWay, OneEach
  <2>10. Items(b) # {} => /\ ~AtDevice /\ ~OnWire /\ ~linkingEvent /\ Due
                          /\ \A v \in Worker : Pending(v) = {}
    BY <2>1 DEF OneUnderWay, OnePlace, Queued, Handled
  <2>11. OneEach'
    <3>1. AtMostOne(Items(b)) /\ AtMostOne(replies)' /\ AtMostOne(Items(wire))'
      BY <2>1, <2>2, <2>6 DEF OneUnderWay, OneEach, AtMostOne
    <3>2. \A c \in pool' : AtMostOne(Items(c))'
      BY <2>1 DEF OneUnderWay, OneEach, AtMostOne, Items
    <3>3. \A c, e \in pool' : Items(c)' # {} /\ Items(e)' # {} => c = e
      BY <2>1 DEF OneUnderWay, OneEach, Items
    <3>4. \A v \in Worker : AtMostOne(Pending(v))'
      BY <2>3, <2>4, <3>1 DEF OneUnderWay, OneEach, AtMostOne
    <3>5. \A v, x \in Worker : Pending(v)' # {} /\ Pending(x)' # {} => v = x
      BY <2>3, <2>4, <2>10 DEF OneUnderWay, OneEach
    <3> QED
      BY <3>1, <3>2, <3>3, <3>4, <3>5 DEF OneEach
  <2>12. /\ AtDevice' = AtDevice /\ OnWire' = OnWire /\ linkingEvent' = linkingEvent
         /\ Queued' => Queued /\ Items(b) = {}
         /\ Handled' => Items(b) # {} \/ Handled
    BY <2>1, <2>2, <2>3, <2>4, <2>6, <2>9 DEF AtDevice, OnWire, Queued, Handled
  <2>13. OnePlace'
    BY <2>10, <2>12 DEF OneUnderWay, OnePlace, Handled
  <2>14. AllFit'
    BY <2>1, <2>2, <2>3, <2>4, <2>6, <2>8 DEF OneUnderWay, AllFit
  <2> QED
    BY <2>7, <2>10, <2>11, <2>12, <2>13, <2>14 DEF OneUnderWay
<1>17. ASSUME NEW w \in Worker, HandleRecord(w) PROVE OneUnderWay'
  BY <1>17, Threads, Alone, ItemsKept, DueKept
    
        DEF SessionInv, LockInv, StageInv, SendInv, CommandInv, Due, HandleRecord, Handles,
            Signalled
<1>18. ASSUME NEW w \in Worker, HandlerThrows(w) PROVE OneUnderWay'
  BY <1>18, Threads, Alone, ItemsKept, DueKept
     DEF SessionInv, LockInv, StageInv, SendInv, CommandInv, Due, HandlerThrows, Handles
<1>19. ASSUME NEW w \in Worker, AcceptReply(w) PROVE OneUnderWay'
  BY <1>19, Threads, Alone, ItemsKept, DueKept
     DEF SessionInv, LockInv, StageInv, SendInv, CommandInv, Due, AcceptReply, Handles, IsReply
<1>20. ASSUME NEW w \in Worker, StoreReply(w) PROVE OneUnderWay'
  BY <1>20, Threads, Alone, ItemsKept, DueKept
     DEF SessionInv, LockInv, StageInv, SendInv, CommandInv, Due, StoreReply
<1>21. ASSUME NEW w \in Worker, SetEvent(w) PROVE OneUnderWay'
  <2>1. /\ pc[w] = "set" /\ pc' = [pc EXCEPT ![w] = "end"] /\ linkingEvent' = TRUE
        /\ UNCHANGED <<replies, wire, pool, batch, sendingPacket, exchange, verdict, outcome>>
    BY <1>21 DEF SetEvent
  <2>2. 1 \in Pending(w)
    BY <2>1, HeadMessage DEF Pending, Items, SessionInv, SendInv
  <2>3. \A i \in Pending(w)' : i \in Pending(w) /\ i # 1
    BY <2>1 DEF Pending, Items
  <2>4. Pending(w)' = {}
    BY <2>2, <2>3 DEF OneUnderWay, OneEach, AtMostOne
  <2>5. \A v \in Worker : v # w => Pending(v)' = {}
    BY <2>1, <2>2 DEF OneUnderWay, OneEach, Pending, Items
  <2>6. Handled
    BY <2>2 DEF Handled
  <2>7. ~AtDevice' /\ ~OnWire' /\ ~Queued' /\ ~Handled'
    BY <2>1, <2>4, <2>5, <2>6
       DEF OneUnderWay, OnePlace, AtDevice, OnWire, Queued, Handled, Items
  <2>8. Due'
    BY <2>1, <2>6, DueKept DEF OneUnderWay
  <2> QED
    BY <2>7, <2>8, NothingElse
<1>22. ASSUME NEW w \in Worker, PassToDevice(w) PROVE OneUnderWay'
  BY <1>22, Threads, Alone, ItemsKept, DueKept
     DEF SessionInv, LockInv, StageInv, SendInv, CommandInv, Due, PassToDevice, Handles, IsReply
<1>23. ASSUME NEW w \in Worker, EndMessage(w) PROVE OneUnderWay'
  <2>1. /\ pc[w] = "end" /\ pc' = [pc EXCEPT ![w] = IF Tail(batch[w]) = <<>> THEN "idle" ELSE "handle"]
        /\ batch' = [batch EXCEPT ![w] = Tail(@)]
        /\ UNCHANGED <<replies, wire, pool, linkingEvent, sendingPacket, exchange, verdict, outcome>>
    BY <1>23 DEF EndMessage
  <2>2. /\ batch[w] \in Seq(Message) /\ batch[w] # <<>> /\ batch'[w] = Tail(batch[w])
        /\ pc'[w] \in {"idle", "handle"}
    BY <2>1, HeadMessage
  <2>3. \A i \in Items(Tail(batch[w])) : /\ i + 1 \in Items(batch[w]) /\ i \in Nat \ {0}
                                         /\ Tail(batch[w])[i] = batch[w][i + 1]
    BY <2>2, TailItems
  <2>4. Pending(w)' \subseteq Items(Tail(batch[w]))
    BY <2>2 DEF Pending, Items
  <2>5. \A i \in Pending(w)' : /\ i + 1 \in Pending(w) /\ i \in Nat
                               /\ batch'[w][i] = batch[w][i + 1]
    <3>1. \A i \in Nat \ {0} : i + 1 # 1
      OBVIOUS
    <3>2. \A i \in Pending(w)' : /\ i + 1 \in Items(batch[w]) /\ i \in Nat \ {0}
                                 /\ batch'[w][i] = batch[w][i + 1]
      BY <2>2, <2>3, <2>4
    <3> QED
      BY <3>1, <3>2 DEF Pending
  <2>6. \A v \in Worker : v # w => Pending(v)' = Pending(v) /\ batch'[v] = batch[v]
    BY <2>1 DEF Pending, Items
  <2>7. \A v \in Worker : Pending(v)' # {} => Pending(v) # {}
    BY <2>5, <2>6
  <2>8. /\ Items(wire)' = Items(wire) /\ \A m : Fits(m)' = Fits(m)
    BY <2>1 DEF Items, Fits
  <2>9. \A i, j \in Pending(w)' : i = j
    <3>1. \A i, j \in Pending(w)' : i + 1 = j + 1
      BY <2>5 DEF OneUnderWay, OneEach, AtMostOne
    <3> QED
      BY <2>5, <3>1
  <2>10. OneEach'
    <3>1. /\ AtMostOne(replies)' /\ AtMostOne(Items(wire))'
          /\ \A b \in pool' : AtMostOne(Items(b))'
          /\ \A b, c \in pool' : Items(b)' # {} /\ Items(c)' # {} => b = c
      BY <2>1, <2>8 DEF OneUnderWay, OneEach, AtMostOne, Items
    <3>2. \A v \in Worker : AtMostOne(Pending(v))'
      BY <2>6, <2>9 DEF OneUnderWay, OneEach, AtMostOne
    <3>3. \A v, x \in Worker : Pending(v)' # {} /\ Pending(x)' # {} => v = x
      BY <2>7 DEF OneUnderWay, OneEach
    <3> QED
      BY <3>1, <3>2, <3>3 DEF OneEach
  <2>11. /\ (AtDevice' <=> AtDevice) /\ (OnWire' <=> OnWire) /\ (Queued' <=> Queued)
         /\ linkingEvent' = linkingEvent /\ (Handled' => Handled)
    BY <2>1, <2>7, <2>8 DEF AtDevice, OnWire, Queued, Handled
  <2>12. OnePlace'
    BY <2>11 DEF OneUnderWay, OnePlace
  <2>13. AllFit'
    <3>1. /\ \A p \in replies' : ~StartingUp' /\ p = sendingPacket'
          /\ \A i \in Items(wire)' : Fits(wire[i])'
          /\ \A b \in pool' : \A i \in Items(b)' : Fits(b[i])'
      BY <2>1, <2>8 DEF OneUnderWay, AllFit, Items
    <3>2. \A v \in Worker : \A i \in Pending(v)' : Fits(batch'[v][i])
      <4>1. \A v \in Worker : \A i \in Pending(v) : Fits(batch[v][i])
        BY DEF OneUnderWay, AllFit
      <4>2. \A i \in Pending(w)' : Fits(batch'[w][i])
        BY <2>5, <4>1
      <4> QED
        BY <2>6, <4>1, <4>2
    <3>3. \A v \in Worker : \A i \in Pending(v)' : Fits(batch[v][i])'
      BY <2>8, <3>2 DEF Fits
    <3> QED
      BY <3>1, <3>3 DEF AllFit
  <2>14. Due => Due'
    BY <2>1, DueKept
  <2> QED
    BY <2>10, <2>11, <2>12, <2>13, <2>14 DEF OneUnderWay
<1>24. ASSUME QueueBatch PROVE OneUnderWay'
  <2> DEFINE front(k) == SubSeq(wire, 1, k)
             back(k)  == SubSeq(wire, k + 1, Len(wire))
  <2>1. PICK k \in 1..Len(wire) : pool' = pool \union {front(k)} /\ wire' = back(k)
    BY <1>24 DEF QueueBatch
  <2>2. UNCHANGED <<pc, batch, replies, linkingEvent, sendingPacket, exchange, verdict, outcome>>
    BY <1>24 DEF QueueBatch
  <2>3. \A i \in Items(front(k)) : i \in Items(wire) /\ i \in 1..k /\ front(k)[i] = wire[i]
    <3>1. wire \in Seq(Message)
      BY DEF ModemTypes
    <3> QED
      BY <3>1, CutItems
  <2>4. \A i \in Items(back(k)) : /\ i + k \in Items(wire) /\ i \in Nat \ {0}
                                  /\ back(k)[i] = wire[i + k]
    BY CutItems DEF ModemTypes
  <2>5. \A i, j \in Items(wire) : i = j
    BY DEF OneUnderWay, OneEach, AtMostOne
  <2>6. \A i \in Items(front(k)), j \in Items(back(k)) : FALSE
    <3>1. \A i \in Items(front(k)), j \in Items(back(k)) : i = j + k /\ i \in 1..k /\ j \in Nat \ {0}
      BY <2>3, <2>4, <2>5
    <3> QED
      BY <3>1
  <2>7. \A i, j \in Items(back(k)) : i = j
    <3>1. \A i, j \in Items(back(k)) : i + k = j + k /\ i \in Nat /\ j \in Nat
      BY <2>4, <2>5
    <3> QED
      BY <3>1
  <2>8. /\ Items(wire)' = Items(back(k))
        /\ \A v \in Worker : Pending(v)' = Pending(v) /\ batch'[v] = batch[v]
        /\ \A m : Fits(m)' = Fits(m)
    BY <2>1, <2>2 DEF Items, Pending, Fits
  <2>9. Items(front(k)) # {} \/ Items(back(k)) # {} => OnWire
    BY <2>3, <2>4 DEF OnWire
  <2> HIDE DEF front, back
  <2>10. OnWire => ~AtDevice /\ (\A b \in pool : Items(b) = {}) /\ ~Handled /\ ~linkingEvent /\ Due
    BY DEF OneUnderWay, OnePlace, Queued
  <2>11. /\ AtDevice' = AtDevice /\ Handled' = Handled /\ linkingEvent' = linkingEvent
         /\ OnWire' => OnWire /\ Items(front(k)) = {}
         /\ Queued' => Queued \/ (OnWire /\ Items(front(k)) # {})
    BY <2>1, <2>2, <2>6, <2>8, <2>9 DEF AtDevice, Handled, OnWire, Queued
  <2>12. OneEach'
    <3>1. AtMostOne(Items(front(k))) /\ AtMostOne(Items(wire))' /\ AtMostOne(replies)'
      BY <2>2, <2>3, <2>5, <2>7, <2>8 DEF OneUnderWay, OneEach, AtMostOne
    <3>2. \A b \in pool' : AtMostOne(Items(b))
      BY <2>1, <3>1 DEF OneUnderWay, OneEach
    <3>3. \A b, c \in pool' : Items(b) # {} /\ Items(c) # {} => b = c
      BY <2>1, <2>9, <2>10 DEF OneUnderWay, OneEach
    <3>4. \A v \in Worker : AtMostOne(Pending(v)')
      BY <2>8 DEF OneUnderWay, OneEach
    <3>5. \A v, x \in Worker : Pending(v)' # {} /\ Pending(x)' # {} => v = x
      BY <2>8 DEF OneUnderWay, OneEach
    <3>6. /\ \A b : Items(b)' = Items(b) /\ \A v : AtMostOne(Pending(v)') <=> AtMostOne(Pending(v))'
          /\ \A b : AtMostOne(Items(b)) <=> AtMostOne(Items(b))'
      BY DEF Items, AtMostOne
    <3> QED
      BY <3>1, <3>2, <3>3, <3>4, <3>5, <3>6 DEF OneEach
  <2>13. OnePlace'
    BY <2>10, <2>11 DEF OneUnderWay, OnePlace, Queued
  <2>14. AllFit'
    <3>1. /\ \A i \in Items(back(k)) : Fits(back(k)[i])
          /\ \A i \in Items(front(k)) : Fits(front(k)[i])
      BY <2>3, <2>4 DEF OneUnderWay, AllFit
    <3>2. \A p \in replies' : ~StartingUp' /\ p = sendingPacket'
      BY <2>2 DEF OneUnderWay, AllFit
    <3> QED
      BY <2>1, <2>2, <2>8, <3>1, <3>2 DEF OneUnderWay, AllFit, Items
  <2>15. Due => Due'
    BY <2>2, DueKept
  <2> QED
    BY <2>10, <2>11, <2>12, <2>13, <2>14, <2>15 DEF OneUnderWay
<1>25. ASSUME NEW r \in requests, ModemExecutes(r) PROVE OneUnderWay'
  <2>1. \E response \in {"Ack", "Nack"} : ModemAnswers(r, response)
    BY <1>25 DEF ModemExecutes
  <2>2. /\ exchange \in Thread /\ verdict = "none" /\ outcome[exchange] = "none"
        /\ r.n = issued /\ r.kind = pc[exchange] /\ r.packet = packet[exchange]
    BY DEF CommandInv, SessionInv, SendInv
  <2>3. UNCHANGED <<pc, wire, pool, batch, linkingEvent, sendingPacket, exchange, outcome>>
    BY <1>25 DEF ModemExecutes, ModemAnswers, Channel!Answered
  <2>4. CASE UNCHANGED replies
    BY <2>2, <2>3, <2>4, ItemsKept, DueKept
  <2>5. CASE r.kind = "direct" /\ verdict' = "Ack" /\ replies' = replies \union {r.packet}
    <3>1. ~Due
      BY <2>2, <2>5, Alone DEF Due
    <3>2. replies = {} /\ ~OnWire /\ ~Queued /\ ~Handled /\ ~linkingEvent
      BY <3>1 DEF OneUnderWay, AtDevice
    <3>3. ~OnWire' /\ ~Queued' /\ ~Handled' /\ ~linkingEvent'
      BY <2>3, <3>2 DEF OnWire, Queued, Handled, Items, Pending
    <3>4. replies' = {sendingPacket'} /\ ~StartingUp'
      <4>1. Direct(exchange)
        BY <2>2, <2>5
      <4>2. ~StartingUp /\ sendingPacket = packet[exchange]
        BY <2>2, <4>1 DEF SessionInv, LockInv, StageInv
      <4> QED
        BY <2>2, <2>3, <2>5, <3>2, <4>2
    <3>5. Due'
      BY <2>2, <2>3, <2>5 DEF Due
    <3> QED
      BY <3>3, <3>4, <3>5
         DEF OneUnderWay, OneEach, OnePlace, AllFit, AtMostOne, OnWire, Queued, Handled
  <2> QED
    BY <1>25, <2>2, <2>4, <2>5 DEF ModemExecutes, ModemAnswers
<1>26. ASSUME NEW r \in requests, ModemReadsLink(r) PROVE OneUnderWay'
  <2>1. /\ exchange \in Thread /\ verdict = "none" /\ outcome[exchange] = "none"
        /\ r.n = issued /\ r.kind = pc[exchange] /\ pc[exchange] \in {"first", "next"}
    BY <1>26 DEF CommandInv, SessionInv, SendInv, ModemReadsLink
  <2>2. UNCHANGED <<pc, replies, pool, batch, linkingEvent, sendingPacket, exchange, outcome>>
    BY <1>26 DEF ModemReadsLink, ModemAnswers, Channel!Answered
  <2>3. CASE UNCHANGED wire
    BY <2>1, <2>2, <2>3, ItemsKept, DueKept
  <2>4. ASSUME NEW at \in 1..Len(Links), wire' = Append(wire, Msg("record", Links[at], 0)),
               verdict' = "Ack"
        PROVE  OneUnderWay'
    <3> DEFINE m == Msg("record", Links[at], 0)
    <3>1. m \in Message /\ Item(m) /\ m.kind = "record"
      BY DeviceAssumption DEF Msg, Message, Item
    <3>2. ~Due
      BY <2>1, Alone DEF Due
    <3>3. replies = {} /\ ~OnWire /\ ~Queued /\ ~Handled /\ ~linkingEvent
      BY <3>2 DEF OneUnderWay, AtDevice
    <3>4. StartingUp
      BY <2>1 DEF SessionInv, StageInv
    <3>5. Due'
      BY <2>1, <2>2, <2>4 DEF Due
    <3> QED
      BY <2>2, <2>4, <3>1, <3>3, <3>4, <3>5, ItemSent DEF Fits
  <2>5. \/ UNCHANGED wire
        \/ \E at \in 1..Len(Links) : /\ wire' = Append(wire, Msg("record", Links[at], 0))
                                   /\ verdict' = "Ack"
    <3>1. CASE r.kind = "first"
      BY <1>26, <2>1, <3>1 DEF ModemReadsLink, ModemAnswers, DeviceAssumption
    <3>2. CASE r.kind = "next"
      BY <1>26, <2>1, <3>2 DEF ModemReadsLink, ModemAnswers, DeviceAssumption
    <3> QED
      BY <2>1, <3>1, <3>2
  <2> QED
    BY <2>3, <2>4, <2>5
<1>27. ASSUME NEW r \in requests, ModemLoses(r) PROVE OneUnderWay'
  BY <1>27, Threads, Alone, ItemsKept, DueKept
     DEF SessionInv, LockInv, StageInv, SendInv, CommandInv, Due, ModemLoses
<1>28. ASSUME NEW p \in replies, DeviceReplies(p) PROVE OneUnderWay'
  <2>1. replies' = {} /\ p = sendingPacket /\ ~StartingUp
    BY <1>28 DEF DeviceReplies, OneUnderWay, OneEach, AtMostOne, AllFit
  <2>2. UNCHANGED <<pc, pool, batch, linkingEvent, sendingPacket, exchange, verdict, outcome>>
    BY <1>28 DEF DeviceReplies
  <2>3. Due'
    BY <2>2, DueKept DEF OneUnderWay, AtDevice
  <2>4. CASE UNCHANGED wire
    BY <2>1, <2>2, <2>3, <2>4, ItemsKept
  <2>5. ASSUME NEW k \in {"ack", "nack"}, wire' = Append(wire, Msg(k, p.dev, p.id))
        PROVE  OneUnderWay'
    <3>1. ~OnWire /\ ~Queued /\ ~Handled /\ ~linkingEvent
      BY DEF OneUnderWay, OnePlace, AtDevice
    <3>2. /\ Msg(k, p.dev, p.id) \in Message /\ Item(Msg(k, p.dev, p.id))
          /\ Fits(Msg(k, p.dev, p.id))
      BY <2>1 DEF Msg, Message, Item, Packet, Fits
    <3> QED
      BY <2>1, <2>2, <2>3, <2>5, <3>1, <3>2, ItemSent
  <2> QED
    BY <1>28, <2>4, <2>5 DEF DeviceReplies
<1>29. ASSUME NEW kind \in {"press", "group"}, NEW d \in Device, DeviceSpeaks(kind, d)
       PROVE  OneUnderWay'
  <2> DEFINE m == Msg(kind, d, news + 1)
  <2>1. wire' = Append(wire, m) /\ m \in Message /\ ~Item(m)
    BY <1>29 DEF DeviceSpeaks, Msg, Message, Item
  <2>2. UNCHANGED <<pc, replies, pool, batch, linkingEvent, sendingPacket, exchange, verdict, outcome>>
    BY <1>29 DEF DeviceSpeaks
  <2>3. /\ Items(wire)' = Items(wire)
        /\ \A i \in Items(wire) : wire'[i] = wire[i]
    BY <2>1, AppendItems DEF Items
  <2>4. /\ (OnWire' <=> OnWire) /\ (Queued' <=> Queued) /\ (Handled' <=> Handled)
        /\ (AtDevice' <=> AtDevice) /\ \A x : Fits(x)' = Fits(x)
    BY <2>2, <2>3 DEF OnWire, Queued, Handled, AtDevice, Pending, Items, Fits
  <2>5. OneEach'
    <3>1. /\ \A v \in Worker : Pending(v)' = Pending(v)
          /\ \A b : Items(b)' = Items(b)
      BY <2>2 DEF Pending, Items
    <3>2. /\ AtMostOne(replies)' /\ AtMostOne(Items(wire))'
          /\ \A b \in pool' : AtMostOne(Items(b))'
          /\ \A v \in Worker : AtMostOne(Pending(v))'
      BY <2>2, <2>3, <3>1 DEF OneUnderWay, OneEach, AtMostOne
    <3>3. /\ \A b, c \in pool' : Items(b)' # {} /\ Items(c)' # {} => b = c
          /\ \A v, w \in Worker : Pending(v)' # {} /\ Pending(w)' # {} => v = w
      BY <2>2, <3>1 DEF OneUnderWay, OneEach
    <3> QED
      BY <3>2, <3>3 DEF OneEach
  <2>6. OnePlace'
    BY <2>2, <2>4 DEF OneUnderWay, OnePlace
  <2>7. AllFit'
    BY <2>2, <2>3, <2>4 DEF OneUnderWay, AllFit, Pending, Items
  <2>8. Due => Due'
    BY <2>2, DueKept
  <2> QED
    BY <2>2, <2>4, <2>5, <2>6, <2>7, <2>8 DEF OneUnderWay
<1> QED
  BY <1>0, <1>1, <1>2, <1>3, <1>4, <1>5, <1>6, <1>7, <1>8, <1>9, <1>10, <1>11, <1>12, <1>13,
     <1>14, <1>15, <1>16, <1>17, <1>18, <1>19, <1>20, <1>21, <1>22, <1>23, <1>24, <1>25,
     <1>26, <1>27, <1>28, <1>29, <1>30, Steps

-----------------------------------------------------------------------------
(***************************************************************************)
(* What is received: TimelyReply and NoSurprise.                           *)
(***************************************************************************)
\* The message that a handler has before it.
LEMMA HeadUnderWay ==
  ASSUME TypeOK, SessionInv, OneUnderWay, ~late, NEW w \in Worker,
         \/ pc[w] \in {"store", "set"}
         \/ pc[w] = "handle" /\ Item(Head(batch[w]))
  PROVE  /\ ~linkingEvent /\ Due /\ Item(Head(batch[w])) /\ Fits(Head(batch[w]))
         /\ \A v \in Worker : pc[v] \in {"store", "set"} => v = w
         /\ \A t \in Thread : pc[t] # "read"
<1>1. \A v \in Worker : pc[v] \in {"store", "set"} => 1 \in Pending(v)
  BY HeadMessage DEF TypeOK, SessionInv, SendInv, Pending, Items, Item
<1>2. 1 \in Pending(w) /\ Head(batch[w]) = batch[w][1]
  BY <1>1, HeadMessage DEF TypeOK, Pending, Items
<1>3. Item(Head(batch[w])) /\ Fits(Head(batch[w]))
  BY <1>2 DEF OneUnderWay, AllFit, Pending, Items
<1>4. \A v \in Worker : pc[v] \in {"store", "set"} => v = w
  BY <1>1, <1>2 DEF OneUnderWay, OneEach
<1>5. ~linkingEvent /\ Due
  BY <1>2 DEF OneUnderWay, OnePlace, Handled
<1>6. \A t \in Thread : pc[t] # "read"
  BY <1>5, Alone DEF Due, Direct
<1> QED
  BY <1>3, <1>4, <1>5, <1>6

\* One step keeps receivedPacket the reply that is to be read.
LEMMA ReceivedStep ==
  ASSUME TypeOK, SessionInv, CommandInv, OneUnderWay, ReceivedInv, [Next]_vars, ~late, ~late'
  PROVE  ReceivedInv'
<1> USE Threads, HeadUnderWay DEF TypeOK, ThreadTypes, DirectTypes, ModemTypes, ReceivedInv, Fits, StartingUp
<1>0. CASE UNCHANGED vars
  BY <1>0 DEF vars, Item
<1>1. ASSUME NEW t \in Thread, WriteCommand(t) PROVE ReceivedInv'
  BY <1>1 DEF SessionInv, LockInv, StageInv, SendInv, Direct, Item, WriteCommand, Channel!Begin
<1>2. ASSUME NEW t \in Thread, CommandAnswered(t) PROVE ReceivedInv'
  BY <1>2
     DEF SessionInv, LockInv, StageInv, SendInv, Direct, Item, CommandAnswered,
         Channel!EndAnswered
<1>3. ASSUME NEW t \in Thread, CommandFails(t) PROVE ReceivedInv'
  BY <1>3
     DEF SessionInv, LockInv, StageInv, SendInv, Direct, Item, CommandFails,
         Channel!EndUnanswered
<1>30. ASSUME NEW t \in Thread, AnswerCut(t) PROVE ReceivedInv'
  <2>1. late'
    BY <1>30 DEF AnswerCut, TypeOK, DirectTypes, late
  <2> QED
    BY <2>1
<1>4. ASSUME NEW t \in Thread, LockDirect(t) PROVE ReceivedInv'
  <2>1. \A u \in Thread : ~Direct(u) /\ ~StartingUp
    BY <1>4 DEF LockDirect, SessionInv, LockInv, StageInv
  <2>2. ~Due
    BY <2>1 DEF Due, Direct, SessionInv, StageInv
  <2>3. ~linkingEvent /\ \A w \in Worker : pc[w] # "set"
    BY <2>2 DEF OneUnderWay
  <2> QED
    BY <1>4, <2>1, <2>3 DEF LockDirect, Direct
<1>5. ASSUME NEW t \in Thread, DirectSent(t) PROVE ReceivedInv'
  BY <1>5
     DEF SessionInv, LockInv, StageInv, SendInv, Direct, Item, DirectSent, ReturnDirect,
         ThrowDirect, Channel!Ask
<1>6. ASSUME NEW t \in Thread, AwaitReply(t) PROVE ReceivedInv'
  BY <1>6 DEF SessionInv, LockInv, StageInv, SendInv, Direct, Item, AwaitReply, AutoReset
<1>7. ASSUME NEW t \in Thread, ReplyTimeout(t) PROVE ReceivedInv'
  BY <1>7
     DEF SessionInv, LockInv, StageInv, SendInv, Direct, Item, ReplyTimeout, ReturnDirect,
         WaitExpires
<1>8. ASSUME NEW t \in Thread, ReadReply(t) PROVE ReceivedInv'
  BY <1>8
     DEF SessionInv, LockInv, StageInv, SendInv, Direct, Item, ReadReply, ReturnDirect,
         ThrowDirect
<1>9. ASSUME QueryModem PROVE ReceivedInv'
  <2>1. \A u \in Thread : ~Direct(u)
    BY <1>9 DEF QueryModem, SessionInv, StageInv
  <2>2. ~Due
    BY <1>9, <2>1 DEF QueryModem, Due, Direct, SessionInv, StageInv
  <2>3. ~linkingEvent /\ \A w \in Worker : pc[w] # "set"
    BY <2>2 DEF OneUnderWay
  <2> QED
    BY <1>9, <2>1, <2>3 DEF QueryModem, Direct
<1>10. ASSUME AskLink PROVE ReceivedInv'
  <2>1. \A u \in Thread : ~Direct(u)
    BY <1>10 DEF AskLink, SessionInv, StageInv
  <2>2. CASE outcome[Main] = "Ack"
    BY <1>10, <2>1, <2>2 DEF AskLink, Direct, Item
  <2>3. CASE outcome[Main] # "Ack"
    <3>1. ~Due
      BY <1>10, <2>1, <2>3 DEF AskLink, Due, Acked, Direct, SessionInv, StageInv, SendInv
    <3>2. ~linkingEvent /\ \A w \in Worker : pc[w] # "set"
      BY <3>1 DEF OneUnderWay
    <3> QED
      BY <1>10, <2>1, <3>2 DEF AskLink, Direct
  <2> QED
    BY <2>2, <2>3
<1>11. ASSUME AwaitLink PROVE ReceivedInv'
  BY <1>11
     DEF SessionInv, LockInv, StageInv, SendInv, Direct, Item, AwaitLink, LinkAwaited,
         AutoReset
<1>12. ASSUME EnumerationThrows PROVE ReceivedInv'
  BY <1>12 DEF SessionInv, LockInv, StageInv, SendInv, Direct, Item, EnumerationThrows
<1>13. ASSUME SetupDone PROVE ReceivedInv'
  BY <1>13 DEF SessionInv, LockInv, StageInv, SendInv, Direct, Item, SetupDone
<1>14. ASSUME NEW d \in Device, SetupDevice(d) PROVE ReceivedInv'
  BY <1>14 DEF SessionInv, LockInv, StageInv, SendInv, Direct, Item, SetupDevice, Packet
<1>15. ASSUME NEW u \in User, NEW d \in Device, UserSends(u, d) PROVE ReceivedInv'
  BY <1>15 DEF SessionInv, LockInv, StageInv, SendInv, Direct, Item, UserSends, Packet
<1>16. ASSUME NEW w \in Worker, StartBatch(w) PROVE ReceivedInv'
  BY <1>16 DEF SessionInv, LockInv, StageInv, SendInv, Direct, Item, StartBatch
<1>17. ASSUME NEW w \in Worker, HandleRecord(w) PROVE ReceivedInv'
  <2>1. pc[w] = "handle" /\ Head(batch[w]).kind = "record"
    BY <1>17 DEF HandleRecord, Handles
  <2>2. StartingUp /\ ~linkingEvent /\ \A t \in Thread : pc[t] # "read"
    BY <2>1 DEF Item
  <2> QED
    BY <1>17, <2>1, <2>2 DEF HandleRecord, Signalled
<1>18. ASSUME NEW w \in Worker, HandlerThrows(w) PROVE ReceivedInv'
  BY <1>18 DEF SessionInv, LockInv, StageInv, SendInv, Direct, Item, HandlerThrows, Handles
<1>19. ASSUME NEW w \in Worker, AcceptReply(w) PROVE ReceivedInv'
  BY <1>19
     DEF SessionInv, LockInv, StageInv, SendInv, Direct, Item, AcceptReply, Handles, IsReply
<1>20. ASSUME NEW w \in Worker, StoreReply(w) PROVE ReceivedInv'
  BY <1>20 DEF SessionInv, LockInv, StageInv, SendInv, Direct, Item, StoreReply
<1>21. ASSUME NEW w \in Worker, SetEvent(w) PROVE ReceivedInv'
  BY <1>21 DEF SessionInv, LockInv, StageInv, SendInv, Direct, Item, SetEvent
<1>22. ASSUME NEW w \in Worker, PassToDevice(w) PROVE ReceivedInv'
  BY <1>22
     DEF SessionInv, LockInv, StageInv, SendInv, Direct, Item, PassToDevice, Handles, IsReply
<1>23. ASSUME NEW w \in Worker, EndMessage(w) PROVE ReceivedInv'
  BY <1>23 DEF SessionInv, LockInv, StageInv, SendInv, Direct, Item, EndMessage
<1>24. ASSUME QueueBatch PROVE ReceivedInv'
  BY <1>24 DEF SessionInv, LockInv, StageInv, SendInv, Direct, Item, QueueBatch
<1>25. ASSUME NEW r \in requests, ModemExecutes(r) PROVE ReceivedInv'
  BY <1>25
     DEF SessionInv, LockInv, StageInv, SendInv, Direct, Item, ModemExecutes, ModemAnswers,
         Channel!Answered
<1>26. ASSUME NEW r \in requests, ModemReadsLink(r) PROVE ReceivedInv'
  BY <1>26
     DEF SessionInv, LockInv, StageInv, SendInv, Direct, Item, ModemReadsLink, ModemAnswers,
         Channel!Answered, Msg, Message
<1>27. ASSUME NEW r \in requests, ModemLoses(r) PROVE ReceivedInv'
  BY <1>27 DEF SessionInv, LockInv, StageInv, SendInv, Direct, Item, ModemLoses
<1>28. ASSUME NEW p \in replies, DeviceReplies(p) PROVE ReceivedInv'
  BY <1>28 DEF SessionInv, LockInv, StageInv, SendInv, Direct, Item, DeviceReplies, Msg, Message
<1>29. ASSUME NEW kind \in {"press", "group"}, NEW d \in Device, DeviceSpeaks(kind, d)
       PROVE  ReceivedInv'
  BY <1>29 DEF SessionInv, LockInv, StageInv, SendInv, Direct, Item, DeviceSpeaks, Msg, Message
<1> QED
  BY <1>0, <1>1, <1>2, <1>3, <1>4, <1>5, <1>6, <1>7, <1>8, <1>9, <1>10, <1>11, <1>12, <1>13,
     <1>14, <1>15, <1>16, <1>17, <1>18, <1>19, <1>20, <1>21, <1>22, <1>23, <1>24, <1>25,
     <1>26, <1>27, <1>28, <1>29, <1>30, Steps

\* One step keeps linkedDevices from changing once the links are read.
LEMMA SurpriseStep ==
  ASSUME TypeOK, SessionInv, CommandInv, OneUnderWay, ReceivedInv, SurpriseInv, [Next]_vars, ~late, ~late'
  PROVE  SurpriseInv'
<1> USE Threads DEF TypeOK, ThreadTypes, DirectTypes, ModemTypes, StartingUp, Direct, SurpriseInv
<1>0. CASE UNCHANGED vars
  BY <1>0 DEF vars
<1>1. ASSUME ~crashed, NEW t \in Thread, WriteCommand(t) PROVE SurpriseInv'
  BY <1>1 DEF SessionInv, LockInv, StageInv, SendInv, WriteCommand, Channel!Begin
<1>2. ASSUME ~crashed, NEW t \in Thread, CommandAnswered(t) PROVE SurpriseInv'
  BY <1>2 DEF SessionInv, LockInv, StageInv, SendInv, CommandAnswered, Channel!EndAnswered
<1>3. ASSUME ~crashed, NEW t \in Thread, CommandFails(t) PROVE SurpriseInv'
  BY <1>3 DEF SessionInv, LockInv, StageInv, SendInv, CommandFails, Channel!EndUnanswered
<1>30. ASSUME ~crashed, NEW t \in Thread, AnswerCut(t) PROVE SurpriseInv'
  <2>1. late'
    BY <1>30 DEF AnswerCut, TypeOK, DirectTypes, late
  <2> QED
    BY <2>1
<1>4. ASSUME ~crashed, NEW t \in Thread, LockDirect(t) PROVE SurpriseInv'
  BY <1>4 DEF SessionInv, LockInv, StageInv, SendInv, LockDirect
<1>5. ASSUME ~crashed, NEW t \in Thread, DirectSent(t) PROVE SurpriseInv'
  <2>1. outcome[t] # "Exception"
    BY DEF CommandInv
  <2> QED
    BY <1>5, <2>1 DEF SessionInv, LockInv, StageInv, DirectSent, ReturnDirect
<1>6. ASSUME ~crashed, NEW t \in Thread, AwaitReply(t) PROVE SurpriseInv'
  BY <1>6 DEF SessionInv, LockInv, StageInv, SendInv, AwaitReply, AutoReset
<1>7. ASSUME ~crashed, NEW t \in Thread, ReplyTimeout(t) PROVE SurpriseInv'
  BY <1>7 DEF SessionInv, LockInv, StageInv, SendInv, ReplyTimeout, ReturnDirect, WaitExpires
<1>8. ASSUME ~crashed, NEW t \in Thread, ReadReply(t) PROVE SurpriseInv'
  <2>1. receivedPacket # NoMessage
    BY <1>8 DEF ReadReply, ReceivedInv, Item, NoMessage
  <2> QED
    BY <1>8, <2>1 DEF SessionInv, LockInv, StageInv, ReadReply, ReturnDirect
<1>9. ASSUME ~crashed, QueryModem PROVE SurpriseInv'
  BY <1>9 DEF SessionInv, LockInv, StageInv, SendInv, QueryModem, Channel!Ask
<1>10. ASSUME ~crashed, AskLink PROVE SurpriseInv'
  <2>1. outcome[Main] # "Exception"
    BY DEF CommandInv
  <2> QED
    BY <1>10, <2>1 DEF SessionInv, LockInv, StageInv, AskLink
<1>11. ASSUME ~crashed, AwaitLink PROVE SurpriseInv'
  BY <1>11 DEF SessionInv, LockInv, StageInv, SendInv, AwaitLink, LinkAwaited, AutoReset
<1>12. ASSUME ~crashed, EnumerationThrows PROVE SurpriseInv'
  BY <1>12 DEF SessionInv, LockInv, StageInv, SendInv, EnumerationThrows
<1>13. ASSUME ~crashed, SetupDone PROVE SurpriseInv'
  BY <1>13 DEF SessionInv, LockInv, StageInv, SendInv, SetupDone
<1>14. ASSUME ~crashed, NEW d \in Device, SetupDevice(d) PROVE SurpriseInv'
  BY <1>14 DEF SessionInv, LockInv, StageInv, SendInv, SetupDevice, Packet
<1>15. ASSUME ~crashed, NEW u \in User, NEW d \in Device, UserSends(u, d) PROVE SurpriseInv'
  BY <1>15 DEF SessionInv, LockInv, StageInv, SendInv, UserSends, Packet
<1>16. ASSUME ~crashed, NEW w \in Worker, StartBatch(w) PROVE SurpriseInv'
  BY <1>16 DEF SessionInv, LockInv, StageInv, SendInv, StartBatch
<1>17. ASSUME ~crashed, NEW w \in Worker, HandleRecord(w) PROVE SurpriseInv'
  <2>1. pc[w] = "handle" /\ Head(batch[w]).kind = "record"
    BY <1>17 DEF HandleRecord, Handles
  <2>2. StartingUp /\ Due
    BY <2>1, HeadUnderWay DEF Item, Fits
  <2>3. pc[Main] \in {"first", "next", "link"}
    BY <2>2 DEF Due, SessionInv, StageInv
  <2> QED
    BY <1>17, <2>3 DEF HandleRecord, Signalled
<1>18. ASSUME ~crashed, NEW w \in Worker, HandlerThrows(w) PROVE SurpriseInv'
  BY <1>18 DEF SessionInv, LockInv, StageInv, SendInv, HandlerThrows, Handles
<1>19. ASSUME ~crashed, NEW w \in Worker, AcceptReply(w) PROVE SurpriseInv'
  BY <1>19 DEF SessionInv, LockInv, StageInv, SendInv, AcceptReply, Handles, IsReply
<1>20. ASSUME ~crashed, NEW w \in Worker, StoreReply(w) PROVE SurpriseInv'
  BY <1>20 DEF SessionInv, LockInv, StageInv, SendInv, StoreReply
<1>21. ASSUME ~crashed, NEW w \in Worker, SetEvent(w) PROVE SurpriseInv'
  BY <1>21 DEF SessionInv, LockInv, StageInv, SendInv, SetEvent
<1>22. ASSUME ~crashed, NEW w \in Worker, PassToDevice(w) PROVE SurpriseInv'
  BY <1>22 DEF SessionInv, LockInv, StageInv, SendInv, PassToDevice, Handles, IsReply
<1>23. ASSUME ~crashed, NEW w \in Worker, EndMessage(w) PROVE SurpriseInv'
  BY <1>23 DEF SessionInv, LockInv, StageInv, SendInv, EndMessage
<1>24. ASSUME ~crashed, QueueBatch PROVE SurpriseInv'
  BY <1>24 DEF SessionInv, LockInv, StageInv, SendInv, QueueBatch
<1>25. ASSUME ~crashed, NEW r \in requests, ModemExecutes(r) PROVE SurpriseInv'
  BY <1>25
     DEF SessionInv, LockInv, StageInv, SendInv, ModemExecutes, ModemAnswers, Channel!Answered
<1>26. ASSUME ~crashed, NEW r \in requests, ModemReadsLink(r) PROVE SurpriseInv'
  BY <1>26
     DEF SessionInv, LockInv, StageInv, SendInv, ModemReadsLink, ModemAnswers,
         Channel!Answered, Msg, Message
<1>27. ASSUME ~crashed, NEW r \in requests, ModemLoses(r) PROVE SurpriseInv'
  BY <1>27 DEF SessionInv, LockInv, StageInv, SendInv, ModemLoses
<1>28. ASSUME ~crashed, NEW p \in replies, DeviceReplies(p) PROVE SurpriseInv'
  BY <1>28 DEF SessionInv, LockInv, StageInv, SendInv, DeviceReplies, Msg, Message
<1>29. ASSUME ~crashed, NEW kind \in {"press", "group"}, NEW d \in Device, DeviceSpeaks(kind, d)
       PROVE  SurpriseInv'
  BY <1>29 DEF SessionInv, LockInv, StageInv, SendInv, DeviceSpeaks, Msg, Message
<1> QED
  BY <1>0, <1>1, <1>2, <1>3, <1>4, <1>5, <1>6, <1>7, <1>8, <1>9, <1>10, <1>11, <1>12, <1>13,
     <1>14, <1>15, <1>16, <1>17, <1>18, <1>19, <1>20, <1>21, <1>22, <1>23, <1>24, <1>25,
     <1>26, <1>27, <1>28, <1>29, <1>30, Steps

\* One step returns only what ReceivedInv says is the answer.
LEMMA ReplyStep ==
  ASSUME TypeOK, SessionInv, ReceivedInv, TimelyReply, [Next]_vars, ~late, ~late'
  PROVE  TimelyReply'
<1> USE Threads DEF TypeOK, ThreadTypes, DirectTypes, ModemTypes, StartingUp, Direct, TimelyReply
<1>0. CASE UNCHANGED vars
  BY <1>0 DEF vars
<1>1. ASSUME NEW t \in Thread, WriteCommand(t) PROVE TimelyReply'
  BY <1>1 DEF SessionInv, LockInv, StageInv, SendInv, WriteCommand, Channel!Begin
<1>2. ASSUME NEW t \in Thread, CommandAnswered(t) PROVE TimelyReply'
  BY <1>2 DEF SessionInv, LockInv, StageInv, SendInv, CommandAnswered, Channel!EndAnswered
<1>3. ASSUME NEW t \in Thread, CommandFails(t) PROVE TimelyReply'
  BY <1>3 DEF SessionInv, LockInv, StageInv, SendInv, CommandFails, Channel!EndUnanswered
<1>30. ASSUME NEW t \in Thread, AnswerCut(t) PROVE TimelyReply'
  <2>1. late'
    BY <1>30 DEF AnswerCut, TypeOK, DirectTypes, late
  <2> QED
    BY <2>1
<1>4. ASSUME NEW t \in Thread, LockDirect(t) PROVE TimelyReply'
  BY <1>4 DEF SessionInv, LockInv, StageInv, SendInv, LockDirect
<1>5. ASSUME NEW t \in Thread, DirectSent(t) PROVE TimelyReply'
  BY <1>5
     DEF SessionInv, LockInv, StageInv, SendInv, DirectSent, ReturnDirect, ThrowDirect,
         Channel!Ask
<1>6. ASSUME NEW t \in Thread, AwaitReply(t) PROVE TimelyReply'
  BY <1>6 DEF SessionInv, LockInv, StageInv, SendInv, AwaitReply, AutoReset
<1>7. ASSUME NEW t \in Thread, ReplyTimeout(t) PROVE TimelyReply'
  BY <1>7 DEF SessionInv, LockInv, StageInv, SendInv, ReplyTimeout, ReturnDirect, WaitExpires
<1>8. ASSUME NEW t \in Thread, ReadReply(t) PROVE TimelyReply'
  <2>1. receivedPacket # NoMessage
    BY <1>8 DEF ReadReply, ReceivedInv, Item, NoMessage
  <2>2. receivedPacket.kind \in {"ack", "nack"} /\ receivedPacket.id = packet[t].id
    BY <1>8 DEF ReadReply, ReceivedInv, Fits, SessionInv, LockInv, StageInv
  <2>3. returned' = [returned EXCEPT ![t] =
            [response |-> IF receivedPacket.kind = "nack" THEN "Nack" ELSE "Ack",
             packet |-> receivedPacket]]
    BY <1>8, <2>1 DEF ReadReply, ReturnDirect
  <2>4. /\ \A u \in Thread : u # t => pc'[u] = pc[u] /\ returned'[u] = returned[u]
        /\ UNCHANGED packet
    BY <1>8, <2>1 DEF ReadReply, ReturnDirect
  <2> QED
    BY <2>2, <2>3, <2>4
<1>9. ASSUME QueryModem PROVE TimelyReply'
  BY <1>9 DEF SessionInv, LockInv, StageInv, SendInv, QueryModem, Channel!Ask
<1>10. ASSUME AskLink PROVE TimelyReply'
  BY <1>10 DEF SessionInv, LockInv, StageInv, SendInv, AskLink, Channel!Ask
<1>11. ASSUME AwaitLink PROVE TimelyReply'
  BY <1>11 DEF SessionInv, LockInv, StageInv, SendInv, AwaitLink, LinkAwaited, AutoReset
<1>12. ASSUME EnumerationThrows PROVE TimelyReply'
  BY <1>12 DEF SessionInv, LockInv, StageInv, SendInv, EnumerationThrows
<1>13. ASSUME SetupDone PROVE TimelyReply'
  BY <1>13 DEF SessionInv, LockInv, StageInv, SendInv, SetupDone
<1>14. ASSUME NEW d \in Device, SetupDevice(d) PROVE TimelyReply'
  BY <1>14 DEF SessionInv, LockInv, StageInv, SendInv, SetupDevice, Packet
<1>15. ASSUME NEW u \in User, NEW d \in Device, UserSends(u, d) PROVE TimelyReply'
  BY <1>15 DEF SessionInv, LockInv, StageInv, SendInv, UserSends, Packet
<1>16. ASSUME NEW w \in Worker, StartBatch(w) PROVE TimelyReply'
  BY <1>16 DEF SessionInv, LockInv, StageInv, SendInv, StartBatch
<1>17. ASSUME NEW w \in Worker, HandleRecord(w) PROVE TimelyReply'
  BY <1>17 DEF SessionInv, LockInv, StageInv, SendInv, HandleRecord, Handles, Signalled
<1>18. ASSUME NEW w \in Worker, HandlerThrows(w) PROVE TimelyReply'
  BY <1>18 DEF SessionInv, LockInv, StageInv, SendInv, HandlerThrows, Handles
<1>19. ASSUME NEW w \in Worker, AcceptReply(w) PROVE TimelyReply'
  BY <1>19 DEF SessionInv, LockInv, StageInv, SendInv, AcceptReply, Handles, IsReply
<1>20. ASSUME NEW w \in Worker, StoreReply(w) PROVE TimelyReply'
  BY <1>20 DEF SessionInv, LockInv, StageInv, SendInv, StoreReply
<1>21. ASSUME NEW w \in Worker, SetEvent(w) PROVE TimelyReply'
  BY <1>21 DEF SessionInv, LockInv, StageInv, SendInv, SetEvent
<1>22. ASSUME NEW w \in Worker, PassToDevice(w) PROVE TimelyReply'
  BY <1>22 DEF SessionInv, LockInv, StageInv, SendInv, PassToDevice, Handles, IsReply
<1>23. ASSUME NEW w \in Worker, EndMessage(w) PROVE TimelyReply'
  BY <1>23 DEF SessionInv, LockInv, StageInv, SendInv, EndMessage
<1>24. ASSUME QueueBatch PROVE TimelyReply'
  BY <1>24 DEF SessionInv, LockInv, StageInv, SendInv, QueueBatch
<1>25. ASSUME NEW r \in requests, ModemExecutes(r) PROVE TimelyReply'
  BY <1>25
     DEF SessionInv, LockInv, StageInv, SendInv, ModemExecutes, ModemAnswers, Channel!Answered
<1>26. ASSUME NEW r \in requests, ModemReadsLink(r) PROVE TimelyReply'
  BY <1>26
     DEF SessionInv, LockInv, StageInv, SendInv, ModemReadsLink, ModemAnswers,
         Channel!Answered, Msg, Message
<1>27. ASSUME NEW r \in requests, ModemLoses(r) PROVE TimelyReply'
  BY <1>27 DEF SessionInv, LockInv, StageInv, SendInv, ModemLoses
<1>28. ASSUME NEW p \in replies, DeviceReplies(p) PROVE TimelyReply'
  BY <1>28 DEF SessionInv, LockInv, StageInv, SendInv, DeviceReplies, Msg, Message
<1>29. ASSUME NEW kind \in {"press", "group"}, NEW d \in Device, DeviceSpeaks(kind, d)
       PROVE  TimelyReply'
  BY <1>29 DEF SessionInv, LockInv, StageInv, SendInv, DeviceSpeaks, Msg, Message
<1> QED
  BY <1>0, <1>1, <1>2, <1>3, <1>4, <1>5, <1>6, <1>7, <1>8, <1>9, <1>10, <1>11, <1>12, <1>13,
     <1>14, <1>15, <1>16, <1>17, <1>18, <1>19, <1>20, <1>21, <1>22, <1>23, <1>24, <1>25,
     <1>26, <1>27, <1>28, <1>29, <1>30, Steps

\* Steps that change the places of one thread's batch in the same way do not
\* change what is under way.
LEMMA SameUnderWay ==
  ASSUME UNCHANGED <<wire, pool, batch>>,
         \A w \in Worker : \/ pc'[w] \in {"handle", "store", "set"} <=> pc[w] \in {"handle", "store", "set"}
                           \/ 1 \notin Items(batch[w])
  PROVE  \A m : UnderWay(m)' <=> UnderWay(m)
<1>1. \A w \in Worker : Pending(w)' = Pending(w)
  BY DEF Pending, Items
<1>2. Items(wire)' = Items(wire) /\ \A b : Items(b)' = Items(b)
  BY DEF Items
<1> QED
  BY <1>1, <1>2 DEF UnderWay

\* A step that changes neither the links nor where Startup is.
LEMMA LinksKept ==
  ASSUME LinkInv, ~late, pc'[Main] = pc[Main],
         UNCHANGED <<linkedDevices, devices, todo, nextLink, exchange, verdict, outcome>>,
         StartingUp => \A m : UnderWay(m)' <=> UnderWay(m),
         \A w \in Worker : pc'[w] = "set" => pc[w] = "set" /\ batch'[w] = batch[w]
  PROVE  LinkInv'
BY DEF LinkInv, StartingUp

\* One step loses no link: one the modem answers is under way, then in linkedDevices,
\* and the list ends after the last.
LEMMA LinkStep ==
  ASSUME TypeOK, SessionInv, CommandInv, OneUnderWay, LinkInv, [Next]_vars, ~late, ~late'
  PROVE  LinkInv'
<1> USE Threads DEF TypeOK, ThreadTypes, DirectTypes, ModemTypes, StartingUp, LinkInv
<1>0. CASE UNCHANGED vars
  BY <1>0, SameUnderWay DEF vars
<1>1. ASSUME NEW t \in Thread, WriteCommand(t) PROVE LinkInv'
  BY <1>1, SameUnderWay
     DEF SessionInv, LockInv, StageInv, SendInv, CommandInv, Direct, WriteCommand,
         Channel!Begin
<1>2. ASSUME NEW t \in Thread, CommandAnswered(t) PROVE LinkInv'
  BY <1>2, SameUnderWay
     DEF SessionInv, LockInv, StageInv, SendInv, CommandInv, Direct, CommandAnswered,
         Channel!EndAnswered
<1>3. ASSUME NEW t \in Thread, CommandFails(t) PROVE LinkInv'
  BY <1>3, SameUnderWay
     DEF SessionInv, LockInv, StageInv, SendInv, CommandInv, Direct, CommandFails,
         Channel!EndUnanswered
<1>30. ASSUME NEW t \in Thread, AnswerCut(t) PROVE LinkInv'
  <2>1. late'
    BY <1>30 DEF AnswerCut, TypeOK, DirectTypes, late
  <2> QED
    BY <2>1
<1>4. ASSUME NEW t \in Thread, LockDirect(t) PROVE LinkInv'
  BY <1>4, SameUnderWay
     DEF SessionInv, LockInv, StageInv, SendInv, CommandInv, Direct, LockDirect
<1>5. ASSUME NEW t \in Thread, DirectSent(t) PROVE LinkInv'
  BY <1>5, SameUnderWay
     DEF SessionInv, LockInv, StageInv, SendInv, CommandInv, Direct, DirectSent,
         ReturnDirect, ThrowDirect, Channel!Ask
<1>6. ASSUME NEW t \in Thread, AwaitReply(t) PROVE LinkInv'
  BY <1>6, SameUnderWay
     DEF SessionInv, LockInv, StageInv, SendInv, CommandInv, Direct, AwaitReply, AutoReset
<1>7. ASSUME NEW t \in Thread, ReplyTimeout(t) PROVE LinkInv'
  BY <1>7, SameUnderWay
     DEF SessionInv, LockInv, StageInv, SendInv, CommandInv, Direct, ReplyTimeout,
         ReturnDirect, WaitExpires
<1>8. ASSUME NEW t \in Thread, ReadReply(t) PROVE LinkInv'
  BY <1>8, SameUnderWay
     DEF SessionInv, LockInv, StageInv, SendInv, CommandInv, Direct, ReadReply, ReturnDirect,
         ThrowDirect
<1>9. ASSUME QueryModem PROVE LinkInv'
  BY <1>9, SameUnderWay
     DEF SessionInv, LockInv, StageInv, SendInv, CommandInv, Direct, QueryModem, Channel!Ask
<1>10. ASSUME AskLink PROVE LinkInv'
  <2>1. CASE outcome[Main] = "Ack"
    BY <1>10, <2>1, SameUnderWay DEF AskLink, SessionInv, StageInv, Channel!Ask
  <2>2. CASE outcome[Main] # "Ack"
    <3>1. outcome[Main] = "Nack" /\ pc[Main] \in {"first", "next"} /\ exchange # Main
      BY <1>10, <2>2 DEF AskLink, CommandInv, SessionInv, SendInv
    <3>2. ~Due
      BY <3>1 DEF Due, Acked, Direct, SessionInv, StageInv, SendInv
    <3>3. \A m : ~UnderWay(m)
      BY <3>2 DEF OneUnderWay, UnderWay, OnWire, Queued, Handled
    <3>4. nextLink = Len(Links) + 1 /\ linkedDevices \subseteq Linked
      BY <3>1
    <3>5. Linked \subseteq linkedDevices
      <4>1. \A i \in 1..(nextLink - 1) : Links[i] \in linkedDevices
        BY <3>1, <3>3
      <4>2. DOMAIN Links = 1..(nextLink - 1)
        BY <3>4, DeviceAssumption
      <4> QED
        BY <4>1, <4>2 DEF Linked
    <3>6. UNCHANGED <<linkedDevices, devices>> /\ todo' = linkedDevices /\ pc'[Main] = "setup"
      BY <1>10, <2>2, <3>1 DEF AskLink
    <3> QED
      BY <3>4, <3>5, <3>6
  <2> QED
    BY <2>1, <2>2
<1>11. ASSUME AwaitLink PROVE LinkInv'
  BY <1>11, SameUnderWay
     DEF SessionInv, LockInv, StageInv, SendInv, CommandInv, Direct, AwaitLink, LinkAwaited,
         AutoReset
<1>12. ASSUME EnumerationThrows PROVE LinkInv'
  BY <1>12, SameUnderWay
     DEF SessionInv, LockInv, StageInv, SendInv, CommandInv, Direct, EnumerationThrows
<1>13. ASSUME SetupDone PROVE LinkInv'
  BY <1>13, SameUnderWay
     DEF SessionInv, LockInv, StageInv, SendInv, CommandInv, Direct, SetupDone
<1>14. ASSUME NEW d \in Device, SetupDevice(d) PROVE LinkInv'
  BY <1>14, SameUnderWay
     DEF SessionInv, LockInv, StageInv, SendInv, CommandInv, Direct, SetupDevice, Packet
<1>15. ASSUME NEW u \in User, NEW d \in Device, UserSends(u, d) PROVE LinkInv'
  BY <1>15, SameUnderWay
     DEF SessionInv, LockInv, StageInv, SendInv, CommandInv, Direct, UserSends, Packet
<1>16. ASSUME NEW w \in Worker, StartBatch(w) PROVE LinkInv'
  <2>1. PICK b \in pool : pool' = pool \ {b} /\ batch' = [batch EXCEPT ![w] = b]
    BY <1>16 DEF StartBatch
  <2>2. /\ pc[w] = "idle" /\ pc' = [pc EXCEPT ![w] = "handle"]
        /\ UNCHANGED <<wire, linkedDevices, devices, todo, nextLink, exchange, verdict, outcome>>
    BY <1>16 DEF StartBatch
  <2>3. Pending(w)' = Items(b) /\ Pending(w) = {} /\ batch'[w] = b
    BY <2>1, <2>2 DEF Pending, Items
  <2>4. \A v \in Worker : v # w => Pending(v)' = Pending(v) /\ batch'[v] = batch[v]
    BY <2>1, <2>2 DEF Pending, Items
  <2>5. Items(wire)' = Items(wire) /\ \A c : Items(c)' = Items(c)
    BY <2>2 DEF Items
  <2>6. \A m : UnderWay(m)' <=> UnderWay(m)
    <3> TAKE m
    <3>1. (\E v \in Worker : \E i \in Pending(v)' : m = batch'[v][i]) <=>
            \/ \E i \in Items(b) : m = b[i]
            \/ \E v \in Worker : \E i \in Pending(v) : m = batch[v][i]
      <4> HIDE DEF TypeOK, ThreadTypes, DirectTypes, ModemTypes, LinkInv, StartingUp
      <4>1. ASSUME NEW v \in Worker, NEW i \in Pending(v)', m = batch'[v][i]
            PROVE  \/ \E j \in Items(b) : m = b[j]
                   \/ \E x \in Worker : \E j \in Pending(x) : m = batch[x][j]
        BY <2>3, <2>4, <4>1
      <4>2. ASSUME NEW v \in Worker, NEW i \in Pending(v), m = batch[v][i]
            PROVE  v # w /\ i \in Pending(v)' /\ m = batch'[v][i]
        BY <2>3, <2>4, <4>2
      <4>3. ASSUME NEW i \in Items(b), m = b[i]
            PROVE  i \in Pending(w)' /\ m = batch'[w][i]
        BY <2>3, <4>3
      <4> QED
        BY <4>1, <4>2, <4>3
    <3>2. (\E c \in pool : \E i \in Items(c) : m = c[i]) <=>
            \/ \E i \in Items(b) : m = b[i]
            \/ \E c \in pool' : \E i \in Items(c) : m = c[i]
      BY <2>1
    <3> QED
      BY <2>2, <2>5, <3>1, <3>2 DEF UnderWay
  <2> QED
    BY <2>1, <2>2, <2>6, LinksKept
<1>17. ASSUME NEW w \in Worker, HandleRecord(w) PROVE LinkInv'
  <2>1. pc[w] = "handle" /\ Head(batch[w]).kind = "record"
    BY <1>17 DEF HandleRecord, Handles
  <2>2. /\ pc' = [pc EXCEPT ![w] = "set"] /\ linkedDevices' = linkedDevices \union {Head(batch[w]).dev}
        /\ UNCHANGED <<wire, pool, batch, nextLink, exchange, verdict, outcome>>
    BY <1>17 DEF HandleRecord, Signalled
  <2>3. StartingUp
    BY <2>1, HeadUnderWay DEF Item, Fits
  <2>4. UnderWay(Head(batch[w]))
    BY <2>1, HeadMessage DEF UnderWay, Pending, Items, Item
  <2>5. \A m : UnderWay(m)' <=> UnderWay(m)
    BY <2>1, <2>2, SameUnderWay
  <2>6. /\ \A v \in Worker : pc'[v] = "set" => Head(batch'[v]).dev \in linkedDevices'
        /\ pc'[Main] = pc[Main]
    BY <2>2, <2>3
  <2> QED
    BY <2>2, <2>3, <2>4, <2>5, <2>6
<1>18. ASSUME NEW w \in Worker, HandlerThrows(w) PROVE LinkInv'
  <2>1. /\ pc[w] = "handle" /\ pc' = [pc EXCEPT ![w] = "dead"] /\ Head(batch[w]).kind # "record"
        /\ UNCHANGED <<wire, pool, batch, linkedDevices, devices, todo, nextLink,
                       exchange, verdict, outcome>>
    BY <1>18 DEF HandlerThrows, Handles
  <2>2. StartingUp => ~Item(Head(batch[w]))
    BY <2>1, HeadUnderWay DEF Fits
  <2>3. StartingUp => 1 \notin Items(batch[w])
    BY <2>1, <2>2, HeadMessage DEF Items
  <2>4. StartingUp => \A m : UnderWay(m)' <=> UnderWay(m)
    BY <2>1, <2>3, SameUnderWay
  <2> QED
    BY <2>1, <2>4, LinksKept
<1>19. ASSUME NEW w \in Worker, AcceptReply(w) PROVE LinkInv'
  BY <1>19, SameUnderWay
     DEF SessionInv, LockInv, StageInv, SendInv, CommandInv, Direct, AcceptReply, Handles,
         IsReply
<1>20. ASSUME NEW w \in Worker, StoreReply(w) PROVE LinkInv'
  <2>1. pc[w] = "store" /\ Head(batch[w]).kind \in {"ack", "nack"}
    BY <1>20 DEF StoreReply, SessionInv, SendInv
  <2>2. ~StartingUp
    BY <2>1, HeadUnderWay DEF Fits
  <2> QED
    BY <1>20, <2>2 DEF StoreReply
<1>21. ASSUME NEW w \in Worker, SetEvent(w) PROVE LinkInv'
  <2>1. /\ pc[w] = "set" /\ pc' = [pc EXCEPT ![w] = "end"]
        /\ UNCHANGED <<wire, pool, batch, linkedDevices, devices, todo, nextLink,
                       exchange, verdict, outcome>>
    BY <1>21 DEF SetEvent
  <2>2. /\ \A v \in Worker : v # w => Pending(v)' = Pending(v)
        /\ Pending(w)' \subseteq Pending(w) /\ \A i \in Pending(w) : i = 1 \/ i \in Pending(w)'
    BY <2>1 DEF Pending, Items
  <2>3. Items(wire)' = Items(wire) /\ \A b : Items(b)' = Items(b)
    BY <2>1 DEF Items
  <2>4. \A m : UnderWay(m)' => UnderWay(m)
    <3> HIDE DEF TypeOK, ThreadTypes, DirectTypes, ModemTypes, LinkInv, StartingUp
    <3> QED
      BY <2>1, <2>2, <2>3 DEF UnderWay
  <2>5. \A m : UnderWay(m) => UnderWay(m)' \/ m = batch[w][1]
    <3> HIDE DEF TypeOK, ThreadTypes, DirectTypes, ModemTypes, LinkInv, StartingUp
    <3> TAKE m
    <3>1. ASSUME NEW v \in Worker, NEW i \in Pending(v), m = batch[v][i]
          PROVE  m = batch[w][1] \/ \E x \in Worker : \E j \in Pending(x)' : m = batch'[x][j]
      BY <2>1, <2>2, <3>1
    <3> QED
      BY <2>1, <2>3, <3>1 DEF UnderWay
  <2>6. Head(batch[w]) = batch[w][1]
    BY <2>1, HeadMessage
  <2>7. pc'[Main] = pc[Main] /\ \A v \in Worker : pc'[v] = "set" => pc[v] = "set"
    BY <2>1
  <2> QED
    BY <2>1, <2>4, <2>5, <2>6, <2>7
<1>22. ASSUME NEW w \in Worker, PassToDevice(w) PROVE LinkInv'
  BY <1>22, SameUnderWay
     DEF SessionInv, LockInv, StageInv, SendInv, CommandInv, Direct, PassToDevice, Handles,
         IsReply
<1>23. ASSUME NEW w \in Worker, EndMessage(w) PROVE LinkInv'
  <2>1. /\ pc[w] = "end" /\ pc' = [pc EXCEPT ![w] = IF Tail(batch[w]) = <<>> THEN "idle" ELSE "handle"]
        /\ batch' = [batch EXCEPT ![w] = Tail(@)]
        /\ UNCHANGED <<wire, pool, linkedDevices, devices, todo, nextLink, exchange, verdict, outcome>>
    BY <1>23 DEF EndMessage
  <2>2. batch[w] \in Seq(Message) /\ batch[w] # <<>> /\ batch'[w] = Tail(batch[w])
    BY <2>1, HeadMessage
  <2>3. /\ \A i \in Items(Tail(batch[w])) : /\ i \in Nat \ {0} /\ i + 1 \in Items(batch[w])
                                          /\ Tail(batch[w])[i] = batch[w][i + 1]
        /\ \A i \in Items(batch[w]) : i # 1 => /\ i - 1 \in Items(Tail(batch[w]))
                                              /\ Tail(batch[w])[i - 1] = batch[w][i]
    BY <2>2, TailItems
  <2>4. Pending(w)' = Items(Tail(batch[w]))
    <3>1. Tail(batch[w]) = <<>> => Items(Tail(batch[w])) = {}
      BY DEF Items
    <3>2. Tail(batch[w]) # <<>> => pc'[w] = "handle"
      BY <2>1
    <3> QED
      BY <2>2, <3>1, <3>2 DEF Pending, Items
  <2>5. Pending(w) = {i \in Items(batch[w]) : i # 1}
    BY <2>1 DEF Pending
  <2>6. \A m : (\E i \in Pending(w)' : m = batch'[w][i]) <=> (\E i \in Pending(w) : m = batch[w][i])
    <3>1. \A i \in Nat \ {0} : i + 1 # 1
      OBVIOUS
    <3>2. \A i \in Pending(w)' : i + 1 \in Pending(w) /\ batch'[w][i] = batch[w][i + 1]
      BY <2>2, <2>3, <2>4, <2>5, <3>1
    <3>3. \A i \in Pending(w) : i - 1 \in Pending(w)' /\ batch'[w][i - 1] = batch[w][i]
      <4> HIDE DEF TypeOK, ThreadTypes, DirectTypes, ModemTypes, LinkInv, StartingUp
      <4> QED
        BY <2>2, <2>3, <2>4, <2>5
    <3> HIDE DEF TypeOK, ThreadTypes, DirectTypes, ModemTypes, LinkInv, StartingUp
    <3> QED
      BY <3>2, <3>3
  <2>7. \A v \in Worker : v # w => Pending(v)' = Pending(v) /\ batch'[v] = batch[v]
    BY <2>1 DEF Pending, Items
  <2>8. Items(wire)' = Items(wire) /\ \A b : Items(b)' = Items(b)
    BY <2>1 DEF Items
  <2>9. \A m : UnderWay(m)' <=> UnderWay(m)
    <3> TAKE m
    <3>1. (\E v \in Worker : \E i \in Pending(v)' : m = batch'[v][i]) <=>
            (\E v \in Worker : \E i \in Pending(v) : m = batch[v][i])
      <4> HIDE DEF TypeOK, ThreadTypes, DirectTypes, ModemTypes, LinkInv, StartingUp
      <4>1. \A v \in Worker : (\E i \in Pending(v)' : m = batch'[v][i]) <=>
                             (\E i \in Pending(v) : m = batch[v][i])
        BY <2>6, <2>7
      <4> QED
        BY <4>1
    <3> QED
      BY <2>1, <2>8, <3>1 DEF UnderWay
  <2>10. /\ pc'[Main] = pc[Main]
         /\ \A v \in Worker : pc'[v] = "set" => pc[v] = "set" /\ batch'[v] = batch[v]
    BY <2>1
  <2> QED
    BY <2>1, <2>9, <2>10, LinksKept
<1>24. ASSUME QueueBatch PROVE LinkInv'
  <2> DEFINE front(k) == SubSeq(wire, 1, k)
             back(k)  == SubSeq(wire, k + 1, Len(wire))
  <2>1. PICK k \in 1..Len(wire) : pool' = pool \union {front(k)} /\ wire' = back(k)
    BY <1>24 DEF QueueBatch
  <2>2. UNCHANGED <<pc, batch, linkedDevices, devices, todo, nextLink, exchange, verdict, outcome>>
    BY <1>24 DEF QueueBatch
  <2>3. /\ \A i \in Items(front(k)) : i \in Items(wire) /\ front(k)[i] = wire[i]
        /\ \A i \in Items(back(k)) : i + k \in Items(wire) /\ back(k)[i] = wire[i + k]
        /\ \A i \in Items(wire) :
             \/ i \in Items(front(k)) /\ front(k)[i] = wire[i]
             \/ i - k \in Items(back(k)) /\ back(k)[i - k] = wire[i]
    <3>1. wire \in Seq(Message)
      OBVIOUS
    <3>2. k \in 1..Len(wire)
      OBVIOUS
    <3> HIDE DEF TypeOK, ThreadTypes, DirectTypes, ModemTypes, LinkInv, StartingUp
    <3>3. \A i \in Items(front(k)) : i \in Items(wire) /\ front(k)[i] = wire[i]
      BY <3>1, <3>2, CutItems
    <3>4. \A i \in Items(back(k)) : i + k \in Items(wire) /\ back(k)[i] = wire[i + k]
      BY <3>1, <3>2, CutItems, ZenonT(30)
    <3>5. \A i \in Items(wire) :
            \/ i \in Items(front(k)) /\ front(k)[i] = wire[i]
            \/ i - k \in Items(back(k)) /\ back(k)[i - k] = wire[i]
      BY <3>1, <3>2, CutItems
    <3> HIDE DEF front, back
    <3> QED
      BY <3>3, <3>4, <3>5
  <2> HIDE DEF front, back
  <2>4. \A v \in Worker : Pending(v)' = Pending(v) /\ batch'[v] = batch[v]
    BY <2>2 DEF Pending, Items
  <2>5. \A b : Items(b)' = Items(b)
    BY DEF Items
  <2>6. Items(wire)' = Items(back(k))
    BY <2>1 DEF Items
  <2>7. \A m : UnderWay(m)' <=> UnderWay(m)
    <3> TAKE m
    <3>1. (\E i \in Items(wire) : m = wire[i]) <=>
            (\E i \in Items(front(k)) : m = front(k)[i]) \/ (\E i \in Items(back(k)) : m = back(k)[i])
      <4> HIDE DEF TypeOK, ThreadTypes, DirectTypes, ModemTypes, LinkInv, StartingUp
      <4> QED
        BY <2>3
    <3>2. (\E b \in pool' : \E i \in Items(b)' : m = b[i]) <=>
            \/ \E b \in pool : \E i \in Items(b) : m = b[i]
            \/ \E i \in Items(front(k)) : m = front(k)[i]
      BY <2>1, <2>5
    <3>3. (\E i \in Items(wire)' : m = wire'[i]) <=> (\E i \in Items(back(k)) : m = back(k)[i])
      BY <2>1, <2>6
    <3>4. (\E v \in Worker : \E i \in Pending(v)' : m = batch'[v][i]) <=>
            (\E v \in Worker : \E i \in Pending(v) : m = batch[v][i])
      <4> HIDE DEF TypeOK, ThreadTypes, DirectTypes, ModemTypes, LinkInv, StartingUp
      <4> QED
        BY <2>4
    <3> QED
      BY <3>1, <3>2, <3>3, <3>4 DEF UnderWay
  <2> QED
    BY <2>2, <2>7, LinksKept
<1>25. ASSUME NEW r \in requests, ModemExecutes(r) PROVE LinkInv'
  BY <1>25, SameUnderWay
     DEF SessionInv, LockInv, StageInv, SendInv, CommandInv, Direct, ModemExecutes,
         ModemAnswers, Channel!Answered
<1>26. ASSUME NEW r \in requests, ModemReadsLink(r) PROVE LinkInv'
  <2>1. /\ exchange \in Thread /\ verdict = "none" /\ outcome[exchange] = "none"
        /\ r.n = issued /\ r.kind = pc[exchange] /\ pc[exchange] \in {"first", "next"}
    BY <1>26 DEF CommandInv, SessionInv, SendInv, ModemReadsLink
  <2>2. /\ exchange = Main /\ StartingUp
        /\ UNCHANGED <<pc, pool, batch, linkedDevices, devices, todo, exchange, outcome>>
    BY <1>26, <2>1 DEF SessionInv, StageInv, ModemReadsLink, ModemAnswers, Channel!Answered
  <2>3. r.kind = "first" => nextLink = 1
    BY <2>1, <2>2
  <2>4. \/ /\ nextLink <= Len(Links) /\ nextLink' = nextLink + 1 /\ verdict' = "Ack"
           /\ wire' = Append(wire, Msg("record", Links[nextLink], 0))
        \/ nextLink > Len(Links) /\ UNCHANGED <<wire, nextLink>> /\ verdict' = "Nack"
    <3>1. CASE r.kind = "first"
      BY <1>26, <2>1, <2>3, <3>1 DEF ModemReadsLink, ModemAnswers
    <3>2. CASE r.kind = "next"
      BY <1>26, <2>1, <3>2 DEF ModemReadsLink, ModemAnswers
    <3> QED
      BY <2>1, <3>1, <3>2
  <2>5. CASE nextLink > Len(Links) /\ UNCHANGED <<wire, nextLink>> /\ verdict' = "Nack"
    <3>1. \A m : UnderWay(m)' <=> UnderWay(m)
      BY <2>2, <2>5, SameUnderWay
    <3>2. nextLink = Len(Links) + 1
      BY <2>2, <2>5, DeviceAssumption
    <3> QED
      BY <2>1, <2>2, <2>5, <3>1, <3>2
  <2>6. CASE /\ nextLink <= Len(Links) /\ nextLink' = nextLink + 1 /\ verdict' = "Ack"
             /\ wire' = Append(wire, Msg("record", Links[nextLink], 0))
    <3> DEFINE rec == Msg("record", Links[nextLink], 0)
    <3>1. /\ nextLink \in DOMAIN Links /\ Len(Links) \in Nat
          /\ rec \in Message /\ Item(rec) /\ rec.dev = Links[nextLink]
      BY <2>6, DeviceAssumption DEF Msg, Message, Item
    <3>2. /\ Items(wire)' = Items(wire) \union {Len(wire) + 1} /\ wire'[Len(wire) + 1] = rec
          /\ \A i \in Items(wire) : wire'[i] = wire[i]
      BY <2>6, <3>1, AppendItems DEF Items
    <3>3. (\A v \in Worker : Pending(v)' = Pending(v)) /\ \A b : Items(b)' = Items(b)
      BY <2>2 DEF Pending, Items
    <3>4. \A m : UnderWay(m)' <=> UnderWay(m) \/ m = rec
      <4> HIDE DEF TypeOK, ThreadTypes, DirectTypes, ModemTypes, LinkInv, StartingUp
      <4> TAKE m
      <4>1. (\E i \in Items(wire)' : m = wire'[i]) <=> (\E i \in Items(wire) : m = wire[i]) \/ m = rec
        BY <3>2
      <4> QED
        BY <2>2, <3>3, <4>1 DEF UnderWay
    <3> HIDE DEF rec
    <3>5. nextLink' <= Len(Links) + 1 /\ nextLink' - 1 = nextLink
      BY <2>6, <3>1
    <3>6. \A i \in 1..(nextLink' - 1) :
            Links[i] \in linkedDevices' \/ \E m : UnderWay(m)' /\ m.dev = Links[i]
      <4>1. \A i \in 1..nextLink : i = nextLink \/ i \in 1..(nextLink - 1)
        OBVIOUS
      <4>2. \A i \in 1..(nextLink - 1) :
              Links[i] \in linkedDevices \/ \E m : UnderWay(m) /\ m.dev = Links[i]
        BY <2>2
      <4> QED
        BY <2>2, <3>1, <3>4, <3>5, <4>1, <4>2
    <3>7. \A m : UnderWay(m)' => m.dev \in Linked
      BY <2>2, <3>1, <3>4 DEF Linked
    <3> QED
      BY <2>1, <2>2, <2>6, <3>5, <3>6, <3>7
  <2> QED
    BY <2>4, <2>5, <2>6
<1>27. ASSUME NEW r \in requests, ModemLoses(r) PROVE LinkInv'
  BY <1>27, SameUnderWay
     DEF SessionInv, LockInv, StageInv, SendInv, CommandInv, Direct, ModemLoses
<1>28. ASSUME NEW p \in replies, DeviceReplies(p) PROVE LinkInv'
  <2>1. ~StartingUp
    BY DEF OneUnderWay, AllFit
  <2> QED
    BY <1>28, <2>1, LinksKept DEF DeviceReplies
<1>29. ASSUME NEW kind \in {"press", "group"}, NEW d \in Device, DeviceSpeaks(kind, d)
       PROVE  LinkInv'
  <2> DEFINE s == Msg(kind, d, news + 1)
  <2>1. wire' = Append(wire, s) /\ s \in Message /\ ~Item(s)
    BY <1>29 DEF DeviceSpeaks, Msg, Message, Item
  <2>2. UNCHANGED <<pc, pool, batch, linkedDevices, devices, todo, nextLink, exchange,
                    verdict, outcome>>
    BY <1>29 DEF DeviceSpeaks
  <2>3. Items(wire)' = Items(wire) /\ \A i \in Items(wire) : wire'[i] = wire[i]
    BY <2>1, AppendItems DEF Items
  <2>4. (\A v \in Worker : Pending(v)' = Pending(v)) /\ \A b : Items(b)' = Items(b)
    BY <2>2 DEF Pending, Items
  <2>5. \A m : UnderWay(m)' <=> UnderWay(m)
    <3> HIDE DEF TypeOK, ThreadTypes, DirectTypes, ModemTypes, LinkInv, StartingUp
    <3> TAKE m
    <3>1. (\E i \in Items(wire)' : m = wire'[i]) <=> (\E i \in Items(wire) : m = wire[i])
      BY <2>3
    <3> QED
      BY <2>2, <2>4, <3>1 DEF UnderWay
  <2> QED
    BY <2>2, <2>5, LinksKept
<1> QED
  BY <1>0, <1>1, <1>2, <1>3, <1>4, <1>5, <1>6, <1>7, <1>8, <1>9, <1>10, <1>11, <1>12, <1>13,
     <1>14, <1>15, <1>16, <1>17, <1>18, <1>19, <1>20, <1>21, <1>22, <1>23, <1>24, <1>25,
     <1>26, <1>27, <1>28, <1>29, <1>30, Steps

-----------------------------------------------------------------------------
(***************************************************************************)
(* The theorems.                                                           *)
(***************************************************************************)
InsteonInv ==
  BaseInv /\ OneUnderWay /\ ReceivedInv /\ SurpriseInv /\ LinkInv /\ TimelyReply

\* The inductive invariant InsteonInv.
LEMMA InitInv == Init => InsteonInv
<1> SUFFICES ASSUME Init PROVE InsteonInv
  OBVIOUS
<1> USE Threads DEF Init
<1>1. BaseInv
  BY InitBase
<1>2. \A t \in Thread : pc[t] = IF t = Main THEN "info" ELSE "idle"
  OBVIOUS
<1>4. ReceivedInv /\ SurpriseInv
  BY <1>2 DEF ReceivedInv, SurpriseInv, StartingUp, Channel!Init
<1>5. /\ Items(wire) = {} /\ \A w \in Worker : Pending(w) = {}
  BY DEF Items, Pending
<1>6. OneUnderWay
  BY <1>5
     DEF OneUnderWay, OneEach, OnePlace, AllFit, AtMostOne, AtDevice, OnWire, Queued, Handled
<1>7. LinkInv
  <2>1. StartingUp /\ nextLink = 1 /\ linkedDevices = {} /\ pc[Main] = "info"
    BY <1>2 DEF StartingUp
  <2>2. \A m : ~UnderWay(m)
    BY <1>5 DEF UnderWay
  <2>3. nextLink <= Len(Links) + 1 /\ 1..(nextLink - 1) = {}
    BY DeviceAssumption
  <2>4. \A w \in Worker : pc[w] # "set"
    BY <1>2
  <2> QED
    BY <2>1, <2>2, <2>3, <2>4 DEF LinkInv
<1>8. TimelyReply
  BY DEF TimelyReply, NothingReturned
<1> QED
  BY <1>1, <1>4, <1>6, <1>7, <1>8 DEF InsteonInv

\* What has disturbed the link has disturbed it.
LEMMA LateStays == TypeOK /\ [Next]_vars /\ late => late'
<1> SUFFICES ASSUME TypeOK, [Next]_vars PROVE timeouts' = timeouts \/ timeouts' = timeouts + 1
  BY DEF TypeOK, DirectTypes, late
<1> QED
  BY Steps DEF vars, WriteCommand, CommandAnswered, AnswerCut, CommandFails, LockDirect, DirectSent,
     AwaitReply, ReplyTimeout, ReadReply, QueryModem, AskLink, AwaitLink, EnumerationThrows,
     SetupDone, SetupDevice, UserSends, StartBatch, HandleRecord, HandlerThrows, AcceptReply,
     StoreReply, SetEvent, PassToDevice, EndMessage, QueueBatch, ModemExecutes,
     ModemReadsLink, ModemAnswers, ModemLoses, DeviceReplies, DeviceSpeaks

\* Each step keeps the invariant of the undisturbed link.
LEMMA InvStep == InsteonInv /\ [Next]_vars => InsteonInv'
<1> SUFFICES ASSUME InsteonInv, [Next]_vars PROVE InsteonInv'
  OBVIOUS
<1>1. BaseInv'
  BY BaseStep DEF InsteonInv
<1>2. CASE late'
  BY <1>1, <1>2 DEF InsteonInv, OneUnderWay, ReceivedInv, SurpriseInv, LinkInv, TimelyReply
<1>3. CASE ~late'
  <2>1. ~late
    BY <1>3, LateStays DEF InsteonInv, BaseInv
  <2> QED
    BY <1>1, <1>3, <2>1, UnderWayStep, ReceivedStep, SurpriseStep, LinkStep, ReplyStep
       DEF InsteonInv, BaseInv
<1> QED
  BY <1>2, <1>3

\* The invariant of the undisturbed link holds in every reachable state.
LEMMA Invariant == Spec => []InsteonInv
BY InitInv, InvStep, PTL DEF Spec

\* At most one link record or reply is on its way, the one that is waited for, as
\* long as nothing has disturbed the link.
THEOREM OneItem == Spec => []OneUnderWay
<1>1. InsteonInv => OneUnderWay
  BY DEF InsteonInv
<1> QED
  BY <1>1, Invariant, PTL

\* SendDirectInsteonPacket returns the device's answer to the packet it sent, as
\* long as no wait has timed out and no answer has been cut.
THEOREM ReplyCorrect == Spec => []TimelyReply
<1>1. InsteonInv => TimelyReply
  BY DEF InsteonInv
<1> QED
  BY <1>1, Invariant, PTL

\* Startup that returns true has read every link of the modem, as long as nothing
\* has disturbed the link.
THEOREM LinksCorrect == Spec => []LinksComplete
<1>1. InsteonInv => LinksComplete
  BY DEF InsteonInv, BaseInv, LinkInv, LinksComplete, Linked, StartingUp
<1> QED
  BY <1>1, Invariant, PTL

\* No exception escapes, as long as nothing has disturbed the link, but for messages
\* that arrive before the first packet is sent.
THEOREM SurpriseFree == Spec => []NoSurprise
<1>1. InsteonInv => NoSurprise
  BY DEF InsteonInv, SurpriseInv, NoSurprise
<1> QED
  BY <1>1, Invariant, PTL
=============================================================================
