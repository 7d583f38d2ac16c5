------------------------- MODULE MessageParser_proofs -------------------------
(***************************************************************************)
(* Proofs about MessageParser, for any commands, messages and bounds: every *)
(* variable has its type; a thread waits in Read only after two threads     *)
(* counted the same bytes; and before that, before any wait times out and   *)
(* before the modem uses a type whose size the code has wrong, the messages *)
(* found in the stream of bytes are those that the modem sent and the       *)
(* response returned is its answer.                                        *)
(***************************************************************************)
EXTENDS MessageParser, SequenceTheorems, WellFoundedInduction, FiniteSetTheorems, TLAPS

USE DEF callVars, modemVars

Label == {"idle", "lock", "count", "read", "parse", "write", "waiting", "answered"}

\* A thread that is about to read counted bytes that are still there, and no
\* other thread is between counting and parsing.  Parsing itself does not matter.
PortInv ==
  /\ pc \in [Thread -> Label]
  /\ count \in [Thread -> Nat]
  /\ arrived \in Nat
  /\ ~overlap => \A t \in Thread :
                   /\ pc[t] = "read" => count[t] <= arrived
                   /\ \A u \in Thread : Between(t) /\ Between(u) => u = t

\* Nobody has counted anything.
LEMMA PortInit == Init => PortInv
  BY DEF Init, PortInv, Thread, Label, Between

\* A step that moves one thread to a place outside Between, or not at all.
LEMMA PortKept ==
  ASSUME PortInv, UNCHANGED <<count, overlap>>, arrived' \in Nat, arrived' >= arrived,
         \/ UNCHANGED pc
         \/ \E t \in Thread, l \in Label \ {"read", "parse"} : pc' = [pc EXCEPT ![t] = l]
  PROVE  PortInv'
<1>1. pc' \in [Thread -> Label]
  BY DEF PortInv
<1>2. \A u \in Thread : pc'[u] = "read" \/ pc'[u] = "parse" => pc'[u] = pc[u]
  BY DEF PortInv
<1> QED
  BY <1>1, <1>2 DEF PortInv, Between

\* Whoever counts while another one is between has overlapped.
LEMMA PortCount ==
  ASSUME PortInv, NEW t \in Thread, Count(t)
  PROVE  PortInv'
<1>1. PICK n \in arrived..Len(line) :
        arrived' = n /\ count' = [count EXCEPT ![t] = n]
  BY DEF Count
<1>2. n \in Nat /\ arrived <= n
  BY <1>1 DEF PortInv
<1>3. pc' = [pc EXCEPT ![t] = "read"]
  BY DEF Count, Goto
<1>4. ~overlap' => ~overlap /\ \A u \in Thread \ {t} : ~Between(u)
  <2>1. overlap' = (overlap \/ \E u \in Thread \ {t} : Between(u))
    BY DEF Count
  <2> QED
    BY <2>1, Zenon
<1>5. pc' \in [Thread -> Label] /\ count' \in [Thread -> Nat] /\ arrived' \in Nat
  BY <1>1, <1>2, <1>3 DEF PortInv, Label
<1>6. count'[t] = n /\ \A u \in Thread : u # t => pc'[u] = pc[u]
  BY <1>1, <1>3 DEF PortInv
<1>7. \A u \in Thread : u # t => Between(u)' = Between(u)
  BY <1>6 DEF Between
<1>8. ASSUME ~overlap' PROVE \A u \in Thread : Between(u)' => u = t
  BY <1>4, <1>7, <1>8
<1>9. ASSUME ~overlap', NEW u \in Thread, pc'[u] = "read" PROVE count'[u] <= arrived'
  <2>1. u = t
    BY <1>8, <1>9 DEF Between
  <2> QED
    BY <1>1, <1>2, <1>6, <2>1
<1> QED
  BY <1>5, <1>8, <1>9 DEF PortInv

\* A read takes the bytes that its thread counted.
LEMMA PortRead ==
  ASSUME PortInv, NEW t \in Thread, ReadPort(t)
  PROVE  PortInv'
<1>1. /\ pc[t] = "read" /\ pc' = [pc EXCEPT ![t] = "parse"]
      /\ count' = [count EXCEPT ![t] = 0] /\ UNCHANGED overlap
  BY DEF ReadPort, Goto
<1>2. arrived' \in Nat
  <2>1. PICK n \in Readable(t) : arrived' = IF n < arrived THEN arrived - n ELSE 0
    BY DEF ReadPort
  <2>2. n \in Nat
    BY DEF Readable, PortInv
  <2> QED
    BY <2>1, <2>2 DEF PortInv
<1>3. pc' \in [Thread -> Label] /\ count' \in [Thread -> Nat]
  BY <1>1 DEF PortInv, Label
<1>4. \A u \in Thread : Between(u)' => Between(u)
  BY <1>1 DEF PortInv, Between
<1>5. ASSUME ~overlap', NEW u \in Thread PROVE pc'[u] # "read"
  <2>1. CASE u = t
    BY <1>1, <2>1 DEF PortInv
  <2>2. CASE u # t
    <3>1. pc'[u] = pc[u]
      BY <1>1, <2>2 DEF PortInv
    <3>2. Between(t) /\ ~Between(u)
      BY <1>1, <1>5, <2>2 DEF PortInv, Between
    <3> QED
      BY <3>1, <3>2 DEF Between
  <2> QED
    BY <2>1, <2>2
<1> QED
  BY <1>1, <1>2, <1>3, <1>4, <1>5 DEF PortInv

\* Parsing ends the time between.
LEMMA PortParse ==
  ASSUME PortInv, NEW t \in Thread, Parse(t)
  PROVE  PortInv'
<1>1. UNCHANGED <<count, arrived, overlap>>
  BY DEF Parse
<1>2. \E l \in {"idle", "write"} : pc' = [pc EXCEPT ![t] = l]
  <2>1. CASE t = "reader"
    BY <2>1 DEF Parse, Goto
  <2>2. CASE t = "sender"
    BY <2>2 DEF Parse, Goto
  <2> QED
    BY <2>1, <2>2 DEF Thread
<1>3. arrived \in Nat
  BY DEF PortInv
<1>4. arrived' \in Nat /\ arrived' >= arrived
  BY <1>1, <1>3
<1>5. \E u \in Thread, l \in Label \ {"read", "parse"} : pc' = [pc EXCEPT ![u] = l]
  BY <1>2 DEF Label
<1>6. UNCHANGED <<count, overlap>>
  BY <1>1
<1> QED
  BY <1>4, <1>5, <1>6, PortKept

\* Every step keeps the port in order.
LEMMA PortStep == PortInv /\ [Next]_vars => PortInv'
<1> SUFFICES ASSUME PortInv, [Next]_vars PROVE PortInv'
  OBVIOUS
<1>t. /\ "reader" \in Thread /\ "sender" \in Thread /\ arrived \in Nat
      /\ {"idle", "lock", "count", "write", "waiting", "answered"}
           \subseteq Label \ {"read", "parse"}
  BY DEF Thread, PortInv, Label
<1>1. CASE DataReceived
  <2>1. arrived' \in Nat /\ arrived' >= arrived
    BY <1>t, <1>1 DEF DataReceived
  <2> QED
    BY <1>t, <1>1, <2>1, PortKept DEF DataReceived, Goto
<1>2. ASSUME NEW t \in Thread, Count(t) \/ ReadPort(t) \/ Parse(t) PROVE PortInv'
  BY <1>2, PortCount, PortRead, PortParse
<1>3. ASSUME NEW c \in Command, Call(c) PROVE PortInv'
  <2>1. UNCHANGED <<count, overlap>> /\ arrived' = arrived
    BY <1>3 DEF Call
  <2>2. pc' = [pc EXCEPT !["sender"] = "lock"]
    BY <1>3 DEF Call, Goto
  <2>3. \E t \in Thread, l \in Label \ {"read", "parse"} : pc' = [pc EXCEPT ![t] = l]
    BY <1>t, <2>2
  <2>4. arrived' \in Nat /\ arrived' >= arrived
    BY <1>t, <2>1
  <2> QED
    BY <2>1, <2>3, <2>4, PortKept
<1>4. CASE LockPort \/ WriteCommand
  BY <1>t, <1>4, PortKept DEF LockPort, WriteCommand, Goto
<1>5. CASE WaitSignalled \/ ReturnResponse \/ WaitTimeout
  BY <1>t, <1>5, PortKept DEF WaitSignalled, ReturnResponse, WaitTimeout, Goto
<1>6. CASE ModemAnswers \/ ModemSpeaks
  BY <1>t, <1>6, PortKept DEF ModemAnswers, ModemSpeaks
<1>7. CASE UNCHANGED vars
  BY <1>t, <1>7, PortKept DEF vars
<1> QED
  BY <1>t, <1>1, <1>2, <1>3, <1>4, <1>5, <1>6, <1>7 DEF Next, ReaderStep, SenderStep

\* A thread that waits in Read for bytes that another one took has overlapped
\* with it (CommunicationDevice.cs:211-213).
THEOREM OnlyOverlapBlocks == Spec => []WaitsOnlyIfOverlap
<1>1. PortInv => WaitsOnlyIfOverlap
  BY DEF PortInv, WaitsOnlyIfOverlap
<1> QED
  BY PortInit, PortStep, <1>1, PTL DEF Spec
-----------------------------------------------------------------------------
(***************************************************************************)
(* The parser goes through a buffer byte by byte.  ParsedFrom is a          *)
(* recursive function; here it becomes a sequence of parsers, one per byte, *)
(* along which a fact climbs.                                              *)
(***************************************************************************)
\* A set of naturals that is not empty has a least element.
LEMMA LeastOf ==
  ASSUME NEW T \in SUBSET Nat, T # {}
  PROVE  \E n \in T : \A m \in T : n <= m
<1> DEFINE R == StrictSubsetOrdering(Nat)
           F == {0..n : n \in T}
<1>1. F \subseteq FiniteSubsetsOf(Nat)
  <2>1. \A n \in T : IsFiniteSet(0..n) /\ 0..n \in SUBSET Nat
    BY FS_Interval
  <2> QED
    BY <2>1 DEF FiniteSubsetsOf
<1>2. F # {}
  OBVIOUS
<1>3. IsWellFoundedOn(R, FiniteSubsetsOf(Nat))
  BY FS_StrictSubsetOrderingWellFounded
<1>4. PICK S \in F : \A U \in F : <<U, S>> \notin R
  <2> HIDE DEF R, F
  <2> QED BY <1>1, <1>2, <1>3, WFMin
<1>5. PICK n \in T : S = 0..n
  OBVIOUS
<1>6. ASSUME NEW m \in T, m < n PROVE FALSE
  <2>1. 0..m \subseteq 0..n /\ 0..m # 0..n /\ 0..m \in F
    BY <1>6
  <2>2. <<0..m, S>> \in R
    BY <1>5, <2>1 DEF StrictSubsetOrdering
  <2> QED
    BY <1>4, <2>1, <2>2
<1> QED
  BY <1>6

\* What holds before the first byte, and of each byte if of the one before,
\* holds of them all: of the bytes where it does not there is no least one.
LEMMA Climb ==
  ASSUME NEW n \in Nat, NEW S, 0 \in S,
         \A i \in 1..n : i - 1 \in S => i \in S
  PROVE  \A i \in 0..n : i \in S
<1> SUFFICES ASSUME NEW k \in 0..n, k \notin S PROVE FALSE
  OBVIOUS
<1> DEFINE Missed == {i \in 0..n : i \notin S}
<1>1. Missed \in SUBSET Nat /\ Missed # {}
  OBVIOUS
<1>2. PICK i \in Missed : \A m \in Missed : i <= m
  BY <1>1, LeastOf
<1>3. i \in 1..n /\ i - 1 \in 0..n /\ i - 1 \notin Missed
  BY <1>2
<1> QED
  BY <1>3

\* The parsers after each of the first n bytes.
Run(g, p, bytes, n) ==
  g = [i \in 0..n |-> IF i = 0 THEN p ELSE ReadByte(g[i - 1], bytes[i])]

\* ReadMessages has a result for every buffer.
LEMMA RunExists ==
  ASSUME NEW p, NEW bytes, NEW n \in Nat
  PROVE  \E g : Run(g, p, bytes, n)
<1> DEFINE S == {i \in 0..n : \E g : Run(g, p, bytes, i)}
<1>1. 0 \in S
  <2> DEFINE g == [i \in 0..0 |-> p]
  <2>1. Run(g, p, bytes, 0)
    BY DEF Run
  <2> QED
    BY <2>1
<1>2. ASSUME NEW i \in 1..n, i - 1 \in S PROVE i \in S
  <2>1. PICK g : Run(g, p, bytes, i - 1)
    BY <1>2
  <2> DEFINE h == [j \in 0..i |-> IF j = i THEN ReadByte(g[i - 1], bytes[i]) ELSE g[j]]
  <2>2. \A j \in 0..i : h[j] = IF j = 0 THEN p ELSE ReadByte(h[j - 1], bytes[j])
    <3>1. \A j \in 0..(i - 1) : g[j] = IF j = 0 THEN p ELSE ReadByte(g[j - 1], bytes[j])
      BY <2>1 DEF Run
    <3>2. \A j \in 0..(i - 1) : h[j] = g[j]
      OBVIOUS
    <3>3. h[i] = ReadByte(g[i - 1], bytes[i]) /\ h[i - 1] = g[i - 1]
      OBVIOUS
    <3> HIDE DEF h
    <3>4. \A j \in 1..(i - 1) : h[j - 1] = g[j - 1]
      BY <3>2
    <3> QED
      BY <3>1, <3>2, <3>3, <3>4
  <2>3. Run(h, p, bytes, i)
    BY <2>2 DEF Run
  <2> QED
    BY <2>3
<1> HIDE DEF S
<1>3. n \in S
  BY <1>1, <1>2, Climb
<1> QED
  BY <1>3 DEF S

\* ParsedFrom is where that run ends.
LEMMA ParsedByBytes ==
  ASSUME NEW p, NEW bytes \in Seq(Byte)
  PROVE  \E g : /\ g[0] = p
                /\ \A i \in 1..Len(bytes) : g[i] = ReadByte(g[i - 1], bytes[i])
                /\ ParsedFrom(p, bytes) = g[Len(bytes)]
<1> DEFINE n == Len(bytes)
           g == CHOOSE g : Run(g, p, bytes, n)
<1>1. n \in Nat
  OBVIOUS
<1>2. Run(g, p, bytes, n)
  BY <1>1, RunExists
<1>3. g[0] = p /\ \A i \in 1..n : g[i] = ReadByte(g[i - 1], bytes[i])
  <2> HIDE DEF g
  <2> QED BY <1>1, <1>2 DEF Run
<1>4. ParsedFrom(p, bytes) = g[Len(bytes)]
  BY DEF ParsedFrom, Run
<1> QED
  BY <1>3, <1>4
-----------------------------------------------------------------------------
(***************************************************************************)
(* Type correctness.                                                       *)
(***************************************************************************)
\* The fields of the parser, with room in the array for the bytes it holds.
Sound(p) == p \in Parser /\ (Len(p.data) <= p.size \/ p.size = NoArray)

\* The size of a message is never negative: the array can be allocated.
LEMMA SizeType ==
  ASSUME NEW b \in Byte, NEW s \in Command \union {NoCommand}
  PROVE  SizeOfMessage(b, s) \in Nat
<1>1. s \in Command => Len(s.payload) \in Nat
  BY CommandAssumption
<1>2. FixedSize(b) \in Nat
  BY DEF FixedSize
<1> QED
  BY <1>1, <1>2 DEF SizeOfMessage

\* A complete message leaves a sound parser.
LEMMA CompleteSound ==
  ASSUME NEW p, Sound(p)
  PROVE  Sound(Complete(p))
<1>1. VerifyResponse(p.sending, p.data) \in {"Ack", "Nack", "Invalid", "Unknown"}
  BY DEF VerifyResponse
<1>2. Append(p.batch, [type |-> p.message, body |-> p.data]) \in Seq(Found)
  BY DEF Sound, Parser, Found
<1> QED
  BY <1>1, <1>2 DEF Complete, Sound, Parser

\* So does every byte: the array is never filled beyond its size.
LEMMA ByteSound ==
  ASSUME NEW p, Sound(p), NEW b \in Byte
  PROVE  Sound(ReadByte(p, b))
<1>1. Sound(ReadStart(p, b))
  BY DEF ReadStart, Sound, Parser
<1>2. Sound(ReadType(p, b))
  <2>1. SizeOfMessage(b, p.sending) \in Nat
    BY SizeType DEF Sound, Parser
  <2>2. 0 <= SizeOfMessage(b, p.sending) /\ <<>> \in Seq(Byte) /\ Len(<<>>) = 0
    BY <2>1
  <2> QED
    BY <2>1, <2>2 DEF ReadType, Sound, Parser
<1>3. Sound(ReadData(p, b))
  <2>1. Sound(StoreByte(p, b))
    <3>1. Append(p.data, b) \in Seq(Byte) /\ Len(Append(p.data, b)) = Len(p.data) + 1
      BY DEF Sound, Parser
    <3>2. p.size \in Int /\ Len(p.data) \in Nat
      BY DEF Sound, Parser, NoArray
    <3>3. p \in Parser => [p EXCEPT !.data = Append(@, b)] \in Parser
      BY <3>1 DEF Parser
    <3>4. p \in Parser => /\ [p EXCEPT !.data = Append(@, b)].data = Append(p.data, b)
                          /\ [p EXCEPT !.data = Append(@, b)].size = p.size
      BY DEF Parser
    <3> QED
      BY <3>1, <3>2, <3>3, <3>4 DEF StoreByte, Sound
  <2>2. Sound(Complete(StoreByte(p, b)))
    BY <2>1, CompleteSound
  <2>3. Sound([p EXCEPT !.thrown = TRUE])
    BY DEF Sound, Parser
  <2> QED
    BY <2>1, <2>2, <2>3 DEF ReadData
<1> QED
  BY <1>1, <1>2, <1>3 DEF ReadByte

\* And so does a whole buffer, and the return of ReadMessages.
LEMMA ParsedSound ==
  ASSUME NEW p, Sound(p), NEW bytes \in Seq(Byte)
  PROVE  Sound(ParsedFrom(p, bytes)) /\ Sound(Cleared(ParsedFrom(p, bytes)))
<1>1. PICK g : /\ g[0] = p
               /\ \A i \in 1..Len(bytes) : g[i] = ReadByte(g[i - 1], bytes[i])
               /\ ParsedFrom(p, bytes) = g[Len(bytes)]
  BY ParsedByBytes
<1> DEFINE n == Len(bytes)
           S == {i \in 0..n : Sound(g[i])}
<1>2. n \in Nat /\ 0 \in S
  BY <1>1
<1>3. ASSUME NEW i \in 1..n, i - 1 \in S PROVE i \in S
  BY <1>1, <1>3, ByteSound
<1>4. n \in S
  <2> HIDE DEF n, S
  <2>1. \A i \in 1..n : i - 1 \in S => i \in S
    BY <1>3
  <2>2. \A i \in 0..n : i \in S
    BY <1>2, <2>1, Climb
  <2> QED
    BY <1>2, <2>2
<1>5. Sound(ParsedFrom(p, bytes))
  BY <1>1, <1>4
<1>6. Sound(Cleared(ParsedFrom(p, bytes)))
  <2> DEFINE q == ParsedFrom(p, bytes)
  <2> HIDE DEF q
  <2>1. q \in Parser => /\ Cleared(q) \in Parser
                        /\ Cleared(q).data = q.data /\ Cleared(q).size = q.size
    <3>1. <<>> \in Seq(Found)
      OBVIOUS
    <3> QED
      BY <3>1 DEF Cleared, Parser
  <2>2. Sound(q)
    BY <1>5 DEF q
  <2>3. Sound(Cleared(q))
    BY <2>1, <2>2 DEF Sound
  <2> QED
    BY <2>3 DEF q
<1> QED
  BY <1>5, <1>6

\* The bytes of what the modem sends are bytes.
LEMMA FrameType ==
  ASSUME NEW b \in Byte, NEW body \in Seq(Byte)
  PROVE  Frame(b, body) \in Seq(Byte)
<1>1. START_OF_MESSAGE \in Byte
  BY DEF START_OF_MESSAGE, Byte
<1> QED
  BY <1>1 DEF Frame

\* The initial values have their types.
LEMMA TypeInit == Init => TypeOK
<1> SUFFICES ASSUME Init PROVE TypeOK
  OBVIOUS
<1>1. parser \in Parser /\ parser.size = NoArray
  BY DEF Init, Parser, Byte
<1>2. /\ pc \in [Thread -> {"idle", "lock", "count", "read", "parse", "write",
                            "waiting", "answered"}]
      /\ count \in [Thread -> Nat]
      /\ buffer \in [Thread -> Seq(Byte)]
      /\ portLock \in Thread \union {NoThread}
  BY DEF Init
<1>3. /\ handed \in Seq(Found) /\ requests \in Seq(Command) /\ sent \in Seq(Message)
      /\ line \in Seq(Byte) /\ arrived \in 0..Len(line)
  BY DEF Init
<1>4. /\ receivedAck \in BOOLEAN /\ command \in Command \union {NoCommand}
      /\ result \in {"none", "Ack", "Nack", "Invalid", "Unknown", "Exception"}
      /\ crashed \in BOOLEAN /\ written \in Nat /\ events \in Nat
      /\ status \in {"none", "Ack", "Nack"} /\ late \in BOOLEAN /\ overlap \in BOOLEAN
      /\ unsized \in BOOLEAN
  BY DEF Init
<1> QED
  BY <1>1, <1>2, <1>3, <1>4 DEF TypeOK

\* Counting.
LEMMA CountType == ASSUME TypeOK, NEW t \in Thread, Count(t) PROVE TypeOK'
<1>1. PICK n \in arrived..Len(line) :
        arrived' = n /\ count' = [count EXCEPT ![t] = n]
  BY DEF Count
<1>2. n \in 0..Len(line) /\ n \in Nat
  BY DEF TypeOK
<1>3. overlap' \in BOOLEAN
  <2>1. overlap' = (overlap \/ \E u \in Thread \ {t} : Between(u))
    BY DEF Count
  <2> QED
    BY <2>1
<1>4. count' \in [Thread -> Nat] /\ arrived' \in 0..Len(line)
  BY <1>1, <1>2 DEF TypeOK
<1>5. pc' \in [Thread -> {"idle", "lock", "count", "read", "parse", "write",
                          "waiting", "answered"}]
  BY DEF TypeOK, Count, Goto
<1> QED
  BY <1>3, <1>4, <1>5 DEF TypeOK, Count, callVars, modemVars

\* What a read may return is among the bytes on the line.
LEMMA ReadableType ==
  ASSUME TypeOK, NEW t \in Thread, NEW n \in Readable(t)
  PROVE  n \in Nat /\ n <= Len(line) /\ n <= count[t]
<1>1. count[t] \in Nat /\ arrived \in 0..Len(line) /\ Len(line) \in Nat
  BY DEF TypeOK
<1> QED
  BY <1>1 DEF Readable

\* The conjuncts of TypeOK about what a step on the line and the buffers leaves alone.
RestOK ==
  /\ portLock \in Thread \union {NoThread}
  /\ parser \in Parser
  /\ Len(parser.data) <= parser.size \/ parser.size = NoArray
  /\ handed \in Seq(Found)
  /\ receivedAck \in BOOLEAN
  /\ command \in Command \union {NoCommand}
  /\ result \in {"none", "Ack", "Nack", "Invalid", "Unknown", "Exception"}
  /\ crashed \in BOOLEAN
  /\ requests \in Seq(Command)
  /\ written \in Nat /\ events \in Nat
  /\ sent \in Seq(Message) /\ status \in {"none", "Ack", "Nack"}
  /\ late \in BOOLEAN /\ overlap \in BOOLEAN /\ unsized \in BOOLEAN

\* They stay typed when their variables stay.
LEMMA RestKept ==
  ASSUME TypeOK,
         UNCHANGED <<portLock, parser, handed, receivedAck, command, result, crashed,
                     requests, sent, status, events, written, late, overlap, unsized>>
  PROVE  RestOK'
<1>1. RestOK
  BY DEF TypeOK, RestOK
<1> QED
  BY <1>1 DEF RestOK

\* Reading.
LEMMA ReadPortType == ASSUME TypeOK, NEW t \in Thread, ReadPort(t) PROVE TypeOK'
<1>1. PICK n \in Readable(t) :
        /\ buffer' = [buffer EXCEPT ![t] = SubSeq(line, 1, n) \o Zeros(count[t] - n)]
        /\ line' = SubSeq(line, n + 1, Len(line))
        /\ arrived' = IF n < arrived THEN arrived - n ELSE 0
  BY DEF ReadPort
<1>2. n \in Nat /\ n <= Len(line) /\ n <= count[t]
  BY ReadableType
<1>3. line \in Seq(Byte) /\ Len(line) \in Nat /\ arrived \in 0..Len(line) /\ count[t] \in Nat
  BY DEF TypeOK
<1>4. SubSeq(line, 1, n) \in Seq(Byte)
  BY <1>2, <1>3
<1>5. Zeros(count[t] - n) \in Seq(Byte)
  <2>1. count[t] - n \in Nat /\ 0 \in Byte
    BY <1>2, <1>3 DEF Byte
  <2> QED
    BY <2>1 DEF Zeros
<1>6. buffer' \in [Thread -> Seq(Byte)]
  BY <1>1, <1>4, <1>5, SMTT(30) DEF TypeOK
<1>7. line' \in Seq(Byte) /\ Len(line') = Len(line) - n
  BY <1>1, <1>2, <1>3
<1>8. arrived' \in 0..Len(line')
  BY <1>1, <1>2, <1>3, <1>7
<1>9. count' \in [Thread -> Nat]
  BY DEF TypeOK, ReadPort
<1>10. pc' \in [Thread -> {"idle", "lock", "count", "read", "parse", "write",
                           "waiting", "answered"}]
  BY DEF TypeOK, ReadPort, Goto
<1>11. UNCHANGED <<portLock, parser, handed, receivedAck, command, result, crashed,
                   requests, sent, status, events, written, late, overlap, unsized>>
  BY DEF ReadPort
<1>12. line' \in Seq(Byte) /\ arrived' \in 0..Len(line')
  BY <1>7, <1>8
<1>13. RestOK'
  BY <1>11, RestKept
<1> QED
  BY <1>6, <1>9, <1>10, <1>12, <1>13, Zenon DEF TypeOK, RestOK

\* Parsing.
LEMMA ParseType == ASSUME TypeOK, NEW t \in Thread, Parse(t) PROVE TypeOK'
<1> DEFINE p == ReadMessages(buffer[t])
<1>1. Sound(p) /\ Sound(Cleared(p))
  <2>1. buffer[t] \in Seq(Byte) /\ Sound(parser)
    BY DEF TypeOK, Sound
  <2> QED
    BY <2>1, ParsedSound DEF ReadMessages
<1>2. parser' = Cleared(p)
  BY DEF Parse
<1>3. parser' \in Parser /\ (Len(parser'.data) <= parser'.size \/ parser'.size = NoArray)
  BY <1>1, <1>2 DEF Sound
<1>4. p.batch \in Seq(Found) /\ p.acked \in BOOLEAN /\ p.thrown \in BOOLEAN
  BY <1>1 DEF Sound, Parser
<1>5. /\ handed' = IF p.thrown THEN handed ELSE handed \o p.batch
      /\ receivedAck' = (receivedAck \/ p.acked)
      /\ buffer' = [buffer EXCEPT ![t] = <<>>]
  BY DEF Parse
<1>6. handed' \in Seq(Found)
  BY <1>4, <1>5 DEF TypeOK
<1>7. receivedAck' \in BOOLEAN /\ buffer' \in [Thread -> Seq(Byte)]
  BY <1>5 DEF TypeOK
<1>8. /\ portLock' \in Thread \union {NoThread} /\ crashed' \in BOOLEAN
      /\ result' \in {"none", "Ack", "Nack", "Invalid", "Unknown", "Exception"}
      /\ pc' \in [Thread -> {"idle", "lock", "count", "read", "parse", "write",
                             "waiting", "answered"}]
  <2> HIDE DEF p
  <2>1. CASE t = "reader"
    <3>1. crashed' = p.thrown /\ UNCHANGED <<portLock, result>> /\ Goto(t, "idle")
      BY <2>1 DEF Parse, p
    <3> QED
      BY <3>1, <1>4 DEF TypeOK, Goto
  <2>2. CASE t = "sender" /\ ~p.thrown
    <3>1. Goto(t, "write") /\ UNCHANGED <<portLock, result, crashed>>
      BY <2>2 DEF Parse, p
    <3> QED
      BY <3>1 DEF TypeOK, Goto
  <2>3. CASE t = "sender" /\ p.thrown
    <3>1. Goto(t, "idle") /\ portLock' = NoThread /\ result' = "Exception" /\ UNCHANGED crashed
      BY <2>3 DEF Parse, p
    <3> QED
      BY <3>1 DEF TypeOK, Goto
  <2> QED
    BY <2>1, <2>2, <2>3 DEF Thread
<1>9. UNCHANGED <<count, command, line, arrived, modemVars, written, late, overlap>>
  BY DEF Parse
<1> QED
  BY <1>3, <1>6, <1>7, <1>8, <1>9 DEF TypeOK, modemVars

\* The modem's messages.
LEMMA ModemType == ASSUME TypeOK, ModemAnswers \/ ModemSpeaks PROVE TypeOK'
<1> SUFFICES ASSUME NEW new \in Seq(Byte), line' = line \o new,
                    requests' \in Seq(Command), sent' \in Seq(Message),
                    status' \in {"none", "Ack", "Nack"}, events' \in Nat,
                    unsized' \in BOOLEAN,
                    UNCHANGED <<pc, count, buffer, portLock, parser, handed, receivedAck,
                                callVars, crashed, arrived, written, late, overlap>>
             PROVE  TypeOK'
  <2>1. CASE ModemAnswers
    <3>1. requests # <<>> /\ requests \in Seq(Command)
      BY <2>1 DEF ModemAnswers, TypeOK
    <3>2. Head(requests) \in Command /\ Tail(requests) \in Seq(Command)
      BY <3>1
    <3> DEFINE c == Head(requests)
    <3>3. PICK s \in {ACK, NACK} :
            /\ line' = line \o Frame(c.type, Append(c.payload, s))
            /\ status' = IF s = ACK THEN "Ack" ELSE "Nack"
      BY <2>1 DEF ModemAnswers
    <3>4. c.type \in Byte /\ Append(c.payload, s) \in Seq(Byte)
      BY <3>2, CommandAssumption DEF StatusOnly, ACK, NACK, Byte
    <3>5. Frame(c.type, Append(c.payload, s)) \in Seq(Byte)
      BY <3>4, FrameType
    <3>6. /\ requests' \in Seq(Command) /\ sent' \in Seq(Message) /\ events' \in Nat
          /\ unsized' \in BOOLEAN
      BY <2>1, <3>2 DEF ModemAnswers, TypeOK
    <3>7. UNCHANGED <<pc, count, buffer, portLock, parser, handed, receivedAck,
                      callVars, crashed, arrived, written, late, overlap>>
      BY <2>1 DEF ModemAnswers
    <3> QED
      BY <3>3, <3>5, <3>6, <3>7
  <2>2. CASE ModemSpeaks
    <3>1. PICK m \in Message :
            /\ line' = line \o Frame(m.type, m.body)
            /\ sent' = IF HasClass(m.type) THEN Append(sent, m) ELSE sent
            /\ unsized' = (unsized \/ Len(m.body) # FixedSize(m.type))
      BY <2>2 DEF ModemSpeaks
    <3>2. m.type \in Byte /\ m.body \in Seq(Byte)
      BY MessageAssumption DEF Found
    <3>3. Frame(m.type, m.body) \in Seq(Byte)
      BY <3>2, FrameType
    <3>4. sent' \in Seq(Message) /\ events' \in Nat /\ unsized' \in BOOLEAN
      BY <2>2, <3>1 DEF TypeOK, ModemSpeaks
    <3>5. UNCHANGED <<pc, count, buffer, portLock, parser, handed, receivedAck, callVars,
                      crashed, arrived, requests, status, written, late, overlap>>
      BY <2>2 DEF ModemSpeaks
    <3>6. requests' \in Seq(Command) /\ status' \in {"none", "Ack", "Nack"}
      BY <3>5 DEF TypeOK
    <3> QED
      BY <3>1, <3>3, <3>4, <3>5, <3>6
  <2> QED
    BY <2>1, <2>2
<1>1. line' \in Seq(Byte) /\ arrived' \in 0..Len(line')
  <2>1. line \in Seq(Byte) /\ arrived \in 0..Len(line) /\ arrived' = arrived
    BY DEF TypeOK
  <2>2. line' \in Seq(Byte) /\ Len(line') = Len(line) + Len(new)
    BY <2>1
  <2>3. Len(new) \in Nat
    OBVIOUS
  <2> QED
    BY <2>1, <2>2, <2>3
<1> QED
  BY <1>1 DEF TypeOK, callVars

\* A call under way is of a command.
Called == pc["sender"] # "idle" => command \in Command

\* Only Call leaves idle, and with a command.
LEMMA CalledStep == ASSUME TypeOK, Called, [Next]_vars PROVE Called'
<1>0. "sender" \in Thread /\ "reader" \in Thread /\ pc = [t \in Thread |-> pc[t]]
  BY DEF Thread, TypeOK
<1>1. CASE DataReceived
  BY <1>0, <1>1 DEF DataReceived, Goto, Called, callVars
<1>2. ASSUME NEW t \in Thread, Count(t) \/ ReadPort(t) PROVE Called'
  BY <1>0, <1>2 DEF Count, ReadPort, Goto, Called, callVars
<1>3. ASSUME NEW t \in Thread, Parse(t) PROVE Called'
  <2>1. UNCHANGED command /\ pc[t] = "parse"
    BY <1>3 DEF Parse
  <2>2. \E l \in {"idle", "write"} : pc' = [pc EXCEPT ![t] = l]
    BY <1>3 DEF Parse, Goto, Thread
  <2> QED
    BY <1>0, <2>1, <2>2 DEF Called
<1>4. ASSUME NEW c \in Command, Call(c) PROVE Called'
  BY <1>4 DEF Call, Called
<1>5. CASE LockPort \/ WriteCommand \/ WaitSignalled
  BY <1>0, <1>5 DEF LockPort, WriteCommand, WaitSignalled, Goto, Called, callVars
<1>6. CASE ReturnResponse \/ WaitTimeout
  BY <1>0, <1>6 DEF ReturnResponse, WaitTimeout, Goto, Called
<1>7. CASE ModemAnswers \/ ModemSpeaks
  BY <1>7 DEF ModemAnswers, ModemSpeaks, Called, callVars
<1>8. CASE UNCHANGED vars
  BY <1>8 DEF vars, Called, callVars
<1> QED
  BY <1>1, <1>2, <1>3, <1>4, <1>5, <1>6, <1>7, <1>8 DEF Next, ReaderStep, SenderStep, Thread

\* Every step keeps the types.
LEMMA TypeStep == ASSUME TypeOK, Called, [Next]_vars PROVE TypeOK'
<1>1. CASE DataReceived
  <2>1. line \in Seq(Byte) /\ line # <<>> /\ arrived \in 0..Len(line)
    BY <1>1 DEF DataReceived, TypeOK
  <2>2. Len(line) \in Nat \ {0}
    BY <2>1
  <2>3. arrived' \in 0..Len(line)
    BY <1>1, <2>1, <2>2 DEF DataReceived
  <2>4. pc' \in [Thread -> {"idle", "lock", "count", "read", "parse", "write",
                           "waiting", "answered"}]
    BY <1>1 DEF DataReceived, Goto, TypeOK
  <2>5. UNCHANGED <<portLock, parser, handed, receivedAck, command, result, crashed,
                    requests, sent, status, events, written, late, overlap, unsized>>
    BY <1>1 DEF DataReceived
  <2>6. RestOK'
    BY <2>5, RestKept
  <2>7. /\ count' \in [Thread -> Nat]
        /\ buffer' \in [Thread -> Seq(Byte)]
        /\ line' \in Seq(Byte) /\ arrived' \in 0..Len(line')
    BY <1>1, <2>3 DEF DataReceived, TypeOK
  <2> QED
    BY <2>4, <2>6, <2>7, Zenon DEF TypeOK, RestOK
<1>2. ASSUME NEW t \in Thread, Count(t) \/ ReadPort(t) \/ Parse(t) PROVE TypeOK'
  BY <1>2, CountType, ReadPortType, ParseType
<1>3. ASSUME NEW c \in Command, Call(c) PROVE TypeOK'
  BY <1>3 DEF Call, Goto, TypeOK, callVars, modemVars
<1>4. CASE LockPort
  BY <1>4 DEF LockPort, Goto, TypeOK, Thread, callVars, modemVars
<1>5. CASE WriteCommand
  <2>1. command \in Command
    BY <1>5 DEF WriteCommand, Called
  <2>2. parser' = [parser EXCEPT !.sending = command] /\ requests' = Append(requests, command)
    BY <1>5 DEF WriteCommand
  <2>3. parser' \in Parser /\ parser'.data = parser.data /\ parser'.size = parser.size
    BY <2>1, <2>2 DEF TypeOK, Parser
  <2>4. requests' \in Seq(Command) /\ written' \in Nat
    BY <1>5, <2>1, <2>2 DEF WriteCommand, TypeOK
  <2>5. portLock' \in Thread \union {NoThread} /\ Goto("sender", "waiting")
    BY <1>5 DEF WriteCommand
  <2> QED
    BY <1>5, <2>3, <2>4, <2>5 DEF WriteCommand, Goto, TypeOK, callVars
<1>6. CASE WaitSignalled \/ WaitTimeout
  BY <1>6 DEF WaitSignalled, WaitTimeout, Goto, TypeOK, callVars, modemVars
<1>7. CASE ReturnResponse
  <2>1. parser.response \in {"Ack", "Nack", "Invalid", "Unknown"}
    BY DEF TypeOK, Parser
  <2> QED
    BY <1>7, <2>1 DEF ReturnResponse, Goto, TypeOK, callVars, modemVars
<1>8. CASE ModemAnswers \/ ModemSpeaks
  BY <1>8, ModemType
<1>9. CASE UNCHANGED vars
  BY <1>9 DEF vars, TypeOK, callVars, modemVars
<1> QED
  BY <1>1, <1>2, <1>3, <1>4, <1>5, <1>6, <1>7, <1>8, <1>9
     DEF Next, ReaderStep, SenderStep, Thread

\* Every variable has its type: in particular the parser never holds more bytes
\* than the array it fills (CommunicationDevice.cs:149-154).
THEOREM TypeCorrect == Spec => []TypeOK
<1>1. Init => TypeOK /\ Called
  BY TypeInit DEF Init, Called, Thread
<1>2. TypeOK /\ Called /\ [Next]_vars => (TypeOK /\ Called)'
  BY TypeStep, CalledStep
<1> QED
  BY <1>1, <1>2, PTL DEF Spec
-----------------------------------------------------------------------------
(***************************************************************************)
(* The bytes that are still to be parsed, each with its place in a frame    *)
(* that the modem sent.                                                    *)
(***************************************************************************)
\* A frame of the modem: its type, the bytes after the type, and how many
\* messages of types with a class the modem had sent with it.
ModemFrame == [type : Byte, body : Seq(Byte), upto : Nat]
\* One byte of a frame: the frame, and which byte of it.
Place == {a \in [frame : ModemFrame, off : Nat] : a.off \in 1..(Len(a.frame.body) + 2)}

IsLast(a) == a.off = Len(a.frame.body) + 2
OfAnswer(a) == a.frame.type \notin OwnType
Numbered(a) == HasClass(a.frame.type)
Item(f) == [type |-> f.type, body |-> f.body]
ByteAt(a) == Frame(a.frame.type, a.frame.body)[a.off]

\* The next byte of the same frame, or the first one of the next frame.
Follows(b, a) ==
  IF IsLast(a)
    THEN /\ b.off = 1
         /\ b.frame.upto = IF Numbered(b) THEN a.frame.upto + 1 ELSE a.frame.upto
    ELSE b.frame = a.frame /\ b.off = a.off + 1

\* How many of the modem's messages with a class end with this byte or before it.
Ended(a) == IF IsLast(a) \/ ~Numbered(a) THEN a.frame.upto ELSE a.frame.upto - 1

\* The parser after this byte.
ParserAt(p, a) ==
  /\ ~p.thrown
  /\ IsLast(a) => p.state = "START"
  /\ ~IsLast(a) /\ a.off = 1 => p.state = "MESSAGE_TYPE"
  /\ ~IsLast(a) /\ a.off # 1 => /\ p.state = "MESSAGE_DATA"
                                /\ p.message = a.frame.type
                                /\ p.data = SubSeq(a.frame.body, 1, a.off - 2)
                                /\ p.size = Len(a.frame.body)

StatusByte == IF status = "Ack" THEN ACK ELSE NACK

\* A frame is a message of the modem's own, of the size of its type and, if that
\* has a class, the one with its number; or the answer to the command that is
\* being sent.
Genuine(f, p) ==
  IF f.type \in OwnType
    THEN /\ Len(f.body) = FixedSize(f.type)
         /\ HasClass(f.type) =>
              f.upto # 0 /\ f.upto <= Len(sent) /\ Item(f) = sent[f.upto]
    ELSE /\ p.sending \in Command /\ requests = <<>> /\ status \in {"Ack", "Nack"}
         /\ f.type = p.sending.type /\ f.body = Append(p.sending.payload, StatusByte)

\* A type with a class is one of the modem's own, and no answer has it.
LEMMA ClassIsOwn == \A type : HasClass(type) => type \in OwnType
  BY DEF HasClass, OwnType, StandardMessageReceived, ExtendedMessageReceived,
         AllLinkRecordResponse

\* The bytes of a frame.
LEMMA FrameBytes ==
  ASSUME NEW f \in ModemFrame
  PROVE  /\ Len(Frame(f.type, f.body)) = Len(f.body) + 2
         /\ Frame(f.type, f.body)[1] = START_OF_MESSAGE
         /\ Frame(f.type, f.body)[2] = f.type
         /\ \A i \in 1..Len(f.body) : Frame(f.type, f.body)[i + 2] = f.body[i]
<1>1. f.type \in Byte /\ f.body \in Seq(Byte) /\ START_OF_MESSAGE \in Byte
  BY DEF ModemFrame, START_OF_MESSAGE, Byte
<1>2. <<START_OF_MESSAGE, f.type>> \in Seq(Byte) /\ Len(<<START_OF_MESSAGE, f.type>>) = 2
  BY <1>1
<1> QED
  BY <1>1, <1>2 DEF Frame

\* A genuine frame is as long as SizeOfMessage says, and has a body.
LEMMA GenuineSize ==
  ASSUME NEW p, Sound(p), NEW f \in ModemFrame, Genuine(f, p), sent \in Seq(Message)
  PROVE  /\ SizeOfMessage(f.type, p.sending) = Len(f.body) /\ Len(f.body) >= 1
         /\ ~CastFails(f.type, p.sending)
<1>1. CASE f.type \in OwnType
  <2>1. Len(f.body) = FixedSize(f.type)
    BY <1>1 DEF Genuine
  <2>2. FixedSize(f.type) >= 1
    BY DEF FixedSize
  <2>3. f.type # SendInsteonMessage
    BY <1>1 DEF OwnType, SendInsteonMessage
  <2>4. SizeOfMessage(f.type, p.sending) = FixedSize(f.type)
    BY <2>3 DEF SizeOfMessage
  <2> QED
    BY <2>1, <2>2, <2>3, <2>4 DEF CastFails
<1>2. CASE f.type \notin OwnType
  <2> DEFINE c == p.sending
  <2>1. c \in Command /\ f.type = c.type /\ f.body = Append(c.payload, StatusByte)
    BY <1>2 DEF Genuine
  <2>2. c.type \in StatusOnly /\ c.payload \in Seq(Byte) /\ c # NoCommand
    BY <2>1, CommandAssumption
  <2>3. Len(f.body) = Len(c.payload) + 1 /\ Len(c.payload) \in Nat
    BY <2>1, <2>2
  <2>4. CASE c.type = SendInsteonMessage
    <3>1. SizeOfMessage(f.type, c) = Len(c.payload) + 1
      BY <2>1, <2>2, <2>4 DEF SizeOfMessage
    <3> QED
      BY <2>1, <2>3, <2>4, <3>1 DEF CastFails
  <2>5. CASE c.type # SendInsteonMessage
    <3>1. SizeOfMessage(f.type, c) = FixedSize(c.type)
      BY <2>1, <2>5 DEF SizeOfMessage
    <3>2. FixedSize(c.type) = 1
      BY <2>2 DEF FixedSize, StatusOnly, OwnType, StandardMessageReceived,
                  ExtendedMessageReceived, AllLinkRecordResponse
    <3>3. Len(c.payload) = 0
      BY <2>1, <2>5, CommandAssumption
    <3> QED
      BY <2>1, <2>3, <2>5, <3>1, <3>2, <3>3 DEF CastFails
  <2> QED
    BY <2>4, <2>5
<1> QED
  BY <1>1, <1>2

\* The echo of a payload and a status byte is verified as that status.
LEMMA EchoVerified ==
  ASSUME NEW c \in Command, status \in {"Ack", "Nack"}
  PROVE  VerifyResponse(c, Append(c.payload, StatusByte)) = status
<1> DEFINE s == c.payload
           n == Len(s)
<1>1. s \in Seq(Byte) /\ n \in Nat
  BY CommandAssumption
<1>2. StatusByte \in Byte /\ ACK \in Byte /\ NACK \in Byte /\ ACK # NACK
  BY DEF StatusByte, ACK, NACK, Byte
<1>3. ASSUME NEW x \in Byte
      PROVE  Append(s, x) \in Seq(Byte) /\ Len(Append(s, x)) = n + 1 /\ Append(s, x)[n + 1] = x
  BY <1>1, <1>3
<1>4. IsPrefix(s, Append(s, StatusByte))
  <2>1. SubSeq(s, 1, n) = SubSeq(Append(s, StatusByte), 1, n)
    BY <1>1, <1>2
  <2> QED
    BY <1>1, <1>2, <1>3, <2>1 DEF IsPrefix
<1>5. ASSUME NEW x \in Byte
      PROVE  IsPrefix(Append(s, x), Append(s, StatusByte)) <=> x = StatusByte
  <2>1. SubSeq(Append(s, x), 1, n + 1) = Append(s, x)
    BY <1>1, <1>5
  <2>2. SubSeq(Append(s, StatusByte), 1, n + 1) = Append(s, StatusByte)
    BY <1>1, <1>2
  <2>3. Append(s, x) = Append(s, StatusByte) <=> x = StatusByte
    BY <1>2, <1>3, <1>5
  <2>4. Len(Append(s, x)) = n + 1 /\ Len(Append(s, StatusByte)) = n + 1
    BY <1>2, <1>3, <1>5
  <2> HIDE DEF s, n
  <2> QED
    BY <1>1, <2>1, <2>2, <2>3, <2>4 DEF IsPrefix
<1> QED
  BY <1>2, <1>4, <1>5 DEF VerifyResponse, StatusByte

-----------------------------------------------------------------------------
(***************************************************************************)
(* One byte: the parser goes from one place to the next.                   *)
(***************************************************************************)
\* The first byte of a frame.
LEMMA FirstByte ==
  ASSUME NEW p, Sound(p), NEW a \in Place, NEW b \in Place,
         Follows(b, a), IsLast(a), ParserAt(p, a)
  PROVE  /\ ReadByte(p, ByteAt(b)) = [p EXCEPT !.state = "MESSAGE_TYPE"]
         /\ b.off = 1
<1>1. b.off = 1
  BY DEF Follows
<1>2. ByteAt(b) = START_OF_MESSAGE
  BY <1>1, FrameBytes DEF ByteAt, Place
<1>3. ~p.thrown /\ p.state = "START"
  BY DEF ParserAt
<1> QED
  BY <1>1, <1>2, <1>3 DEF ReadByte, ReadStart

\* The parser after the byte with the type of the frame.
Typed(p, f) == [p EXCEPT !.message = f.type, !.state = "MESSAGE_DATA",
                         !.size = Len(f.body), !.data = <<>>]
\* That byte.
LEMMA TypeByte ==
  ASSUME NEW p, Sound(p), NEW a \in Place, NEW b \in Place, sent \in Seq(Message),
         Follows(b, a), ~IsLast(a), a.off = 1, ParserAt(p, a), Genuine(b.frame, p)
  PROVE  /\ ReadByte(p, ByteAt(b)) = Typed(p, b.frame)
         /\ b.frame = a.frame /\ b.off = 2 /\ ~IsLast(b)
<1> DEFINE f == b.frame
<1>1. f = a.frame /\ b.off = 2 /\ f \in ModemFrame
  BY DEF Follows, Place
<1>2. ByteAt(b) = f.type
  BY <1>1, FrameBytes DEF ByteAt
<1>3. ~p.thrown /\ p.state = "MESSAGE_TYPE"
  BY DEF ParserAt
<1>4. /\ SizeOfMessage(f.type, p.sending) = Len(f.body) /\ Len(f.body) >= 1
      /\ ~CastFails(f.type, p.sending)
  BY <1>1, GenuineSize
<1>5. ~IsLast(b)
  BY <1>1, <1>4 DEF IsLast, ModemFrame
<1>6. ReadByte(p, ByteAt(b)) = ReadType(p, f.type)
  BY <1>2, <1>3 DEF ReadByte
<1> QED
  BY <1>1, <1>4, <1>5, <1>6 DEF ReadType, Typed, Sound, Parser

\* A byte of its body is stored.
LEMMA BodyByte ==
  ASSUME NEW p, Sound(p), NEW a \in Place, NEW b \in Place,
         Follows(b, a), ~IsLast(a), a.off # 1, ParserAt(p, a)
  PROVE  /\ b.frame = a.frame /\ b.off = a.off + 1 /\ b.off \in 3..(Len(b.frame.body) + 2)
         /\ LET q == [p EXCEPT !.data = SubSeq(b.frame.body, 1, b.off - 2)] IN
              ReadByte(p, ByteAt(b)) = IF IsLast(b) THEN Complete(q) ELSE q
<1> DEFINE f == b.frame
           i == b.off - 2
           q == [p EXCEPT !.data = SubSeq(f.body, 1, i)]
<1>1. f = a.frame /\ b.off = a.off + 1 /\ f \in ModemFrame
  BY DEF Follows, Place
<1>2. f.body \in Seq(Byte) /\ Len(f.body) \in Nat /\ i \in 1..Len(f.body)
  BY <1>1 DEF ModemFrame, Place, IsLast
<1>3. ByteAt(b) = f.body[i]
  <2>1. Frame(f.type, f.body)[i + 2] = f.body[i]
    BY <1>1, <1>2, FrameBytes
  <2>2. i + 2 = b.off
    BY <1>1 DEF Place
  <2> QED
    BY <2>1, <2>2 DEF ByteAt
<1>4. /\ ~p.thrown /\ p.state = "MESSAGE_DATA" /\ p.data = SubSeq(f.body, 1, i - 1)
      /\ p.size = Len(f.body)
  <2>1. a.off - 2 = i - 1
    BY <1>1 DEF Place
  <2> QED
    BY <1>1, <2>1 DEF ParserAt
<1>5. Len(p.data) = i - 1 /\ Append(p.data, f.body[i]) = SubSeq(f.body, 1, i)
  BY <1>2, <1>4
<1>6. StoreByte(p, ByteAt(b)) = q
  <2>1. Len(p.data) < p.size
    BY <1>2, <1>4, <1>5
  <2>2. Append(p.data, ByteAt(b)) = SubSeq(f.body, 1, i)
    BY <1>3, <1>5
  <2> HIDE DEF f, i
  <2> QED
    BY <2>1, <2>2 DEF StoreByte
<1>7. Len(q.data) = i /\ q.size = Len(f.body) /\ p.size # NoArray
  <2>1. q.data = SubSeq(f.body, 1, i) /\ q.size = p.size
    BY DEF Sound, Parser
  <2> QED
    BY <1>2, <1>4, <2>1 DEF NoArray
<1>8. IsLast(b) <=> Len(q.data) >= q.size
  BY <1>2, <1>7 DEF IsLast, Place
<1>9. ReadByte(p, ByteAt(b)) = ReadData(p, ByteAt(b))
  BY <1>4 DEF ReadByte
<1>10. ReadData(p, ByteAt(b)) = IF IsLast(b) THEN Complete(q) ELSE q
  <2> HIDE DEF q
  <2> QED BY <1>6, <1>7, <1>8 DEF ReadData
<1>11. b.off = a.off + 1 /\ b.off \in 3..(Len(f.body) + 2)
  BY <1>1, <1>2 DEF Place
<1> QED
  BY <1>1, <1>9, <1>10, <1>11

\* The three things that a byte can do: advance in a frame, or from one to the
\* next, without a trace; end one of the modem's messages with a class, which is
\* found; or end the answer, which is verified.
Advances(p, q, a, b) ==
  /\ q.sending = p.sending /\ q.response = p.response /\ q.acked = p.acked
  /\ q.batch = p.batch /\ Ended(b) = Ended(a)
Finds(p, q, a, b) ==
  /\ q.sending = p.sending /\ q.response = p.response /\ q.acked = p.acked
  /\ q.batch = Append(p.batch, Item(b.frame)) /\ Ended(b) = Ended(a) + 1
  /\ b.frame.upto = Ended(b) /\ Numbered(b)
Acknowledges(p, q, a, b) ==
  /\ q.sending = NoCommand /\ q.response = status /\ q.acked
  /\ q.batch = p.batch /\ Ended(b) = Ended(a) /\ OfAnswer(b) /\ IsLast(b)

\* Every byte does one of them, and takes the parser to its place.
LEMMA ByteStep ==
  ASSUME NEW p, Sound(p), NEW a \in Place, NEW b \in Place, sent \in Seq(Message),
         Follows(b, a), ParserAt(p, a), Genuine(b.frame, p),
         NEW q, q = ReadByte(p, ByteAt(b))
  PROVE  /\ ParserAt(q, b)
         /\ Advances(p, q, a, b) \/ Finds(p, q, a, b) \/ Acknowledges(p, q, a, b)
<1> DEFINE f == b.frame
<1>0. /\ a.frame.upto \in Nat /\ f.upto \in Nat /\ f \in ModemFrame /\ Len(f.body) \in Nat
      /\ Len(f.body) >= 1
  BY GenuineSize DEF Place, ModemFrame
<1>1. CASE IsLast(a)
  <2>1. q = [p EXCEPT !.state = "MESSAGE_TYPE"] /\ b.off = 1
    BY <1>1, FirstByte
  <2>2. ~IsLast(b)
    BY <1>0, <2>1 DEF IsLast
  <2>3. Ended(b) = Ended(a)
    BY <1>0, <1>1, <2>2 DEF Follows, Ended
  <2>4. ~p.thrown
    BY DEF ParserAt
  <2>5. ParserAt(q, b)
    BY <2>1, <2>2, <2>4 DEF ParserAt, Sound, Parser
  <2>6. Advances(p, q, a, b)
    BY <2>1, <2>3 DEF Advances, Sound, Parser
  <2> QED
    BY <2>5, <2>6
<1>2. CASE ~IsLast(a) /\ a.off = 1
  <2>1. /\ q = Typed(p, f)
        /\ f = a.frame /\ b.off = 2 /\ ~IsLast(b)
    BY <1>2, TypeByte
  <2>2. Ended(b) = Ended(a)
    BY <1>2, <2>1 DEF Ended, Numbered
  <2>3. ~p.thrown /\ SubSeq(f.body, 1, 0) = <<>>
    BY <1>0 DEF ParserAt, ModemFrame
  <2>4. ParserAt(q, b)
    BY <2>1, <2>3 DEF Typed, ParserAt, Sound, Parser
  <2>5. Advances(p, q, a, b)
    BY <2>1, <2>2 DEF Typed, Advances, Sound, Parser
  <2> QED
    BY <2>4, <2>5
<1>3. CASE ~IsLast(a) /\ a.off # 1
  <2> DEFINE r == [p EXCEPT !.data = SubSeq(f.body, 1, b.off - 2)]
  <2>1. /\ f = a.frame /\ b.off = a.off + 1 /\ b.off \in 3..(Len(f.body) + 2)
        /\ q = IF IsLast(b) THEN Complete(r) ELSE r
    <3>1. ReadByte(p, ByteAt(b)) = IF IsLast(b) THEN Complete(r) ELSE r
      BY <1>3, BodyByte
    <3>2. f = a.frame /\ b.off = a.off + 1 /\ b.off \in 3..(Len(f.body) + 2)
      BY <1>3, BodyByte
    <3> QED
      BY <3>1, <3>2
  <2>2. /\ ~p.thrown /\ p.state = "MESSAGE_DATA" /\ p.message = f.type
        /\ p.size = Len(f.body)
    BY <1>3, <2>1 DEF ParserAt
  <2>3. /\ r.data = SubSeq(f.body, 1, b.off - 2) /\ r.sending = p.sending
        /\ r.response = p.response /\ r.acked = p.acked /\ r.batch = p.batch
        /\ r.message = p.message /\ r.size = p.size /\ r.state = p.state
        /\ r.thrown = p.thrown
    BY DEF Sound, Parser
  <2>4. CASE ~IsLast(b)
    <3>1. Ended(b) = Ended(a)
      BY <1>3, <2>1, <2>4 DEF Ended, Numbered
    <3>2. ParserAt(q, b)
      BY <2>1, <2>2, <2>3, <2>4 DEF ParserAt
    <3>3. Advances(p, q, a, b)
      BY <2>1, <2>3, <2>4, <3>1 DEF Advances
    <3> QED
      BY <3>2, <3>3
  <2>5. CASE IsLast(b)
    <3>1. r.data = f.body /\ q = Complete(r)
      <4>1. b.off - 2 = Len(f.body)
        BY <1>0, <2>5 DEF IsLast
      <4>2. SubSeq(f.body, 1, Len(f.body)) = f.body
        BY <1>0 DEF ModemFrame
      <4> QED
        BY <2>1, <2>3, <2>5, <4>1, <4>2
    <3>r. r \in Parser
      <4>1. f.body \in Seq(Byte)
        BY <1>0 DEF ModemFrame
      <4> QED
        BY <3>1, <4>1, <2>3 DEF Sound, Parser
    <3>0. ASSUME f.type \in OwnType PROVE ~Responds(r)
      <4>1. ASSUME r.sending \in Command PROVE r.sending.type \notin OwnType
        BY <4>1, CommandAssumption DEF StatusOnly
      <4> QED
        BY <2>2, <2>3, <3>0, <3>r, <4>1 DEF Responds, Parser
    <3>2. CASE HasClass(f.type)
      <4>1. ~Responds(r)
        BY <3>0, <3>2, ClassIsOwn
      <4>2. q = [r EXCEPT !.batch = Append(@, [type |-> r.message, body |-> r.data]),
                          !.state = "START"]
        BY <2>2, <2>3, <3>1, <3>2, <4>1 DEF Complete
      <4>3. /\ q.batch = Append(p.batch, Item(f)) /\ q.state = "START" /\ ~q.thrown
            /\ q.sending = p.sending /\ q.response = p.response /\ q.acked = p.acked
        <5> HIDE DEF r
        <5> QED BY <2>2, <2>3, <3>1, <3>r, <4>2 DEF Parser, Item
      <4>4. Ended(b) = Ended(a) + 1 /\ f.upto = Ended(b) /\ Numbered(b)
        BY <1>0, <1>3, <2>1, <2>5, <3>2 DEF Ended, Numbered
      <4>5. ParserAt(q, b)
        BY <2>5, <4>3 DEF ParserAt
      <4> QED
        BY <4>3, <4>4, <4>5 DEF Finds
    <3>4. CASE f.type \in OwnType /\ ~HasClass(f.type)
      <4>1. ~Responds(r)
        BY <3>0, <3>4
      <4>2. q = [r EXCEPT !.state = "START"]
        BY <2>2, <2>3, <3>1, <3>4, <4>1 DEF Complete
      <4>3. /\ q.batch = p.batch /\ q.state = "START" /\ ~q.thrown
            /\ q.sending = p.sending /\ q.response = p.response /\ q.acked = p.acked
        <5> HIDE DEF r
        <5> QED BY <2>2, <2>3, <3>r, <4>2 DEF Parser
      <4>4. Ended(b) = Ended(a)
        BY <1>3, <2>1, <3>4 DEF Ended, Numbered
      <4>5. ParserAt(q, b)
        BY <2>5, <4>3 DEF ParserAt
      <4> QED
        BY <4>3, <4>4, <4>5 DEF Advances
    <3>3. CASE f.type \notin OwnType
      <4>1. /\ p.sending \in Command /\ status \in {"Ack", "Nack"}
            /\ f.type = p.sending.type /\ f.body = Append(p.sending.payload, StatusByte)
        BY <3>3 DEF Genuine
      <4>2. Responds(r)
        BY <2>2, <2>3, <4>1, CommandAssumption DEF Responds
      <4>3. VerifyResponse(r.sending, r.data) = status
        BY <2>3, <3>1, <4>1, EchoVerified
      <4>4. q = [r EXCEPT !.response = status, !.sending = NoCommand, !.acked = TRUE,
                          !.state = "START"]
        BY <3>1, <4>2, <4>3 DEF Complete
      <4>5. /\ q.batch = p.batch /\ q.state = "START" /\ ~q.thrown
            /\ q.sending = NoCommand /\ q.response = status /\ q.acked
        <5> HIDE DEF r
        <5> QED BY <2>2, <2>3, <3>r, <4>4 DEF Parser
      <4>6. Ended(b) = Ended(a) /\ OfAnswer(b)
        BY <1>3, <2>1, <3>3, ClassIsOwn DEF Ended, OfAnswer, Numbered
      <4>7. ParserAt(q, b)
        BY <2>5, <4>5 DEF ParserAt
      <4> QED
        BY <2>5, <4>5, <4>6, <4>7 DEF Acknowledges
    <3> QED
      BY <3>2, <3>3, <3>4
  <2> QED
    BY <2>4, <2>5
<1> QED
  BY <1>1, <1>2, <1>3

-----------------------------------------------------------------------------
(***************************************************************************)
(* A buffer: the parser goes along the places of its bytes.                *)
(***************************************************************************)
\* V[0] is the place of the last byte that was parsed, the others those of the
\* bytes to come: whole frames after the rest of one, up to the last message
\* sent, with nothing of an answer after the end of another one.
Stream(V, bytes, total) ==
  /\ V \in [0..Len(bytes) -> Place]
  /\ \A i \in 1..Len(bytes) : ByteAt(V[i]) = bytes[i] /\ Follows(V[i], V[i - 1])
  /\ \A i \in 0..Len(bytes) : V[i].frame.upto <= total
  /\ IsLast(V[Len(bytes)]) /\ V[Len(bytes)].frame.upto = total
  /\ \A i, j \in 1..Len(bytes) :
       i < j /\ OfAnswer(V[i]) /\ IsLast(V[i]) => ~OfAnswer(V[j])

\* The sender, the command being sent and the request the modem has to answer;
\* ack is whether the parser has set receivedAck.
Talk(p, ack) ==
  /\ p.sending # NoCommand => pc["sender"] = "waiting" /\ ~ack
  /\ requests # <<>> => p.sending \in Command /\ requests = <<p.sending>>
  /\ ack => pc["sender"] = "waiting"
  /\ ack \/ pc["sender"] = "answered" => p.response = status

\* The parser after the byte at V[k] of n: where it is, the messages found so
\* far, and what is still to come.
Stage(p, ack, found, V, k, n) ==
  /\ ParserAt(p, V[k])
  /\ found = SubSeq(sent, 1, Ended(V[k]))
  /\ \A j \in k..n : Genuine(V[j].frame, p) \/ (j = k /\ IsLast(V[k]))
  /\ Talk(p, ack)

\* A message is genuine whatever the parser is doing.
LEMMA MessageStays ==
  ASSUME NEW p, NEW q, NEW f, Genuine(f, p),
         q.sending = p.sending \/ f.type \in OwnType
  PROVE  Genuine(f, q)
  BY DEF Genuine

\* One message more is found.
LEMMA FoundNext ==
  ASSUME NEW S, NEW s \in Seq(S), NEW n \in Nat, n + 1 <= Len(s)
  PROVE  Append(SubSeq(s, 1, n), s[n + 1]) = SubSeq(s, 1, n + 1)
  OBVIOUS

\* The count of messages ended is a number.
LEMMA EndedType ==
  ASSUME NEW a \in Place, IsLast(a) \/ ~Numbered(a) \/ a.frame.upto # 0
  PROVE  Ended(a) \in Nat /\ Ended(a) <= a.frame.upto
  BY DEF Place, ModemFrame, Ended

\* One byte of a buffer.
LEMMA StageStep ==
  ASSUME TypeOK, NEW V, NEW bytes \in Seq(Byte), Stream(V, bytes, Len(sent)),
         NEW k \in 1..Len(bytes), NEW p, Sound(p), NEW q, q = ReadByte(p, bytes[k]),
         Stage(p, receivedAck \/ p.acked, handed \o p.batch, V, k - 1, Len(bytes))
  PROVE  Stage(q, receivedAck \/ q.acked, handed \o q.batch, V, k, Len(bytes))
<1> DEFINE n == Len(bytes)
           a == V[k - 1]
           b == V[k]
<1>1. /\ n \in Nat /\ k - 1 \in 0..n /\ k \in 0..n /\ k \in (k - 1)..n /\ k # k - 1
      /\ \A j \in k..n : j \in (k - 1)..n /\ j # k - 1
  OBVIOUS
<1>2. a \in Place /\ b \in Place /\ Follows(b, a) /\ ByteAt(b) = bytes[k]
  BY <1>1 DEF Stream
<1>3. /\ ParserAt(p, a) /\ handed \o p.batch = SubSeq(sent, 1, Ended(a))
      /\ Talk(p, receivedAck \/ p.acked)
      /\ \A j \in k..n : Genuine(V[j].frame, p)
  BY <1>1 DEF Stage
<1>4. Genuine(b.frame, p) /\ sent \in Seq(Message)
  BY <1>1, <1>3 DEF TypeOK
<1>5. /\ ParserAt(q, b)
      /\ Advances(p, q, a, b) \/ Finds(p, q, a, b) \/ Acknowledges(p, q, a, b)
  <2>1. q = ReadByte(p, ByteAt(b))
    BY <1>2
  <2> HIDE DEF a, b
  <2> QED
    BY <1>2, <1>3, <1>4, <2>1, ByteStep
<1>6. CASE Advances(p, q, a, b)
  <2>1. handed \o q.batch = SubSeq(sent, 1, Ended(b))
    BY <1>3, <1>6 DEF Advances
  <2>2. Talk(q, receivedAck \/ q.acked)
    BY <1>3, <1>6 DEF Advances, Talk
  <2>3. \A j \in k..n : Genuine(V[j].frame, q)
    BY <1>3, <1>6, MessageStays DEF Advances
  <2> QED
    BY <1>5, <2>1, <2>2, <2>3 DEF Stage
<1>7. CASE Finds(p, q, a, b)
  <2>1. handed \o q.batch = SubSeq(sent, 1, Ended(b))
    <3> DEFINE m == Ended(a)
               body == Item(b.frame)
    <3>1. b.frame.upto = m + 1 /\ Ended(b) = m + 1
      BY <1>7 DEF Finds
    <3>2. m + 1 # 0 /\ m + 1 <= Len(sent) /\ body = sent[m + 1]
      BY <1>4, <1>7, <3>1, ClassIsOwn DEF Genuine, Finds, Numbered
    <3>3. m \in Nat
      <4>1. b.frame.upto \in Nat /\ a.frame.upto \in Nat
        BY <1>2 DEF Place, ModemFrame
      <4>2. m \in Int
        BY <4>1 DEF Ended
      <4> QED
        BY <3>1, <3>2, <4>1, <4>2
    <3>4. Append(SubSeq(sent, 1, m), sent[m + 1]) = SubSeq(sent, 1, m + 1)
      BY <1>4, <3>2, <3>3, FoundNext
    <3>5. handed \o Append(p.batch, body) = Append(handed \o p.batch, body)
      <4>1. handed \in Seq(Found) /\ p.batch \in Seq(Found) /\ body \in Found
        BY <1>2 DEF TypeOK, Sound, Parser, Place, ModemFrame, Item, Found
      <4> HIDE DEF body
      <4> QED
        BY <4>1, SMTT(30)
    <3>6. q.batch = Append(p.batch, body)
      BY <1>7 DEF Finds
    <3> HIDE DEF m, body
    <3> QED
      BY <1>3, <3>1, <3>2, <3>4, <3>5, <3>6 DEF m
  <2>2. Talk(q, receivedAck \/ q.acked)
    BY <1>3, <1>7 DEF Finds, Talk
  <2>3. \A j \in k..n : Genuine(V[j].frame, q)
    BY <1>3, <1>7, MessageStays DEF Finds
  <2> QED
    BY <1>5, <2>1, <2>2, <2>3 DEF Stage
<1>8. CASE Acknowledges(p, q, a, b)
  <2>1. handed \o q.batch = SubSeq(sent, 1, Ended(b))
    BY <1>3, <1>8 DEF Acknowledges
  <2>2. p.sending \in Command /\ requests = <<>>
    BY <1>4, <1>8 DEF Genuine, Acknowledges, OfAnswer
  <2>3. Talk(q, receivedAck \/ q.acked)
    BY <1>3, <1>8, <2>2, CommandAssumption DEF Acknowledges, Talk
  <2>4. ASSUME NEW j \in k..n, j # k PROVE Genuine(V[j].frame, q)
    <3>1. k \in 1..n /\ j \in 1..n /\ k < j
      BY <2>4
    <3>2. ~OfAnswer(V[j])
      BY <1>8, <3>1 DEF Stream, Acknowledges
    <3> QED
      BY <1>3, <3>2, MessageStays DEF OfAnswer
  <2>5. IsLast(b)
    BY <1>8 DEF Acknowledges
  <2> QED
    BY <1>5, <2>1, <2>3, <2>4, <2>5 DEF Stage
<1> QED
  BY <1>5, <1>6, <1>7, <1>8

\* A whole buffer, the first part of the bytes to come.
LEMMA StageRun ==
  ASSUME TypeOK, NEW V, NEW first \in Seq(Byte), NEW rest \in Seq(Byte),
         Stream(V, first \o rest, Len(sent)), parser.batch = <<>>, ~parser.acked,
         Stage(parser, receivedAck, handed, V, 0, Len(first \o rest)),
         NEW p, p = ParsedFrom(parser, first)
  PROVE  Stage(p, receivedAck \/ p.acked, handed \o p.batch, V, Len(first),
               Len(first \o rest))
<1> DEFINE bytes == first \o rest
           m == Len(first)
<1>1. /\ bytes \in Seq(Byte) /\ m \in Nat /\ Len(bytes) \in Nat /\ m <= Len(bytes)
      /\ \A i \in 1..m : bytes[i] = first[i] /\ first[i] \in Byte /\ i \in 1..Len(bytes)
  OBVIOUS
<1>2. PICK g : /\ g[0] = parser
               /\ \A i \in 1..Len(first) : g[i] = ReadByte(g[i - 1], first[i])
               /\ ParsedFrom(parser, first) = g[Len(first)]
  BY ParsedByBytes
<1> DEFINE At(i) == /\ Sound(g[i])
                    /\ Stage(g[i], receivedAck \/ g[i].acked, handed \o g[i].batch, V, i,
                             Len(bytes))
           S == {i \in 0..m : At(i)}
<1>3. 0 \in S
  <2>1. handed \o parser.batch = handed
    BY DEF TypeOK
  <2>2. (receivedAck \/ parser.acked) = receivedAck
    BY DEF TypeOK
  <2>3. Sound(parser)
    BY DEF TypeOK, Sound
  <2>4. At(0)
    BY <1>2, <2>1, <2>2, <2>3
  <2> QED
    BY <1>1, <2>4
<1>4. ASSUME NEW i \in 1..m, i - 1 \in S PROVE i \in S
  <2>1. At(i - 1)
    BY <1>4
  <2>2. g[i] = ReadByte(g[i - 1], bytes[i]) /\ bytes[i] \in Byte /\ i \in 1..Len(bytes)
    BY <1>1, <1>2
  <2>3. Sound(g[i])
    BY <2>1, <2>2, ByteSound
  <2>4. Stage(g[i], receivedAck \/ g[i].acked, handed \o g[i].batch, V, i, Len(bytes))
    <3> HIDE DEF bytes
    <3>1. Stream(V, bytes, Len(sent))
      BY DEF bytes
    <3> QED
      BY <1>1, <2>1, <2>2, <3>1, StageStep
  <2> QED
    BY <2>3, <2>4
<1>5. m \in S
  <2> HIDE DEF m, S
  <2>1. \A i \in 1..m : i - 1 \in S => i \in S
    BY <1>4
  <2>2. \A i \in 0..m : i \in S
    BY <1>1, <1>3, <2>1, Climb
  <2> QED
    BY <1>1, <2>2
<1>6. At(m)
  BY <1>5
<1> QED
  BY <1>2, <1>6

\* The rest of a stream is a stream.
LEMMA StageShift ==
  ASSUME NEW V, NEW first \in Seq(Byte), NEW rest \in Seq(Byte),
         Stream(V, first \o rest, Len(sent)), NEW p, NEW ack, NEW found,
         Stage(p, ack, found, V, Len(first), Len(first \o rest))
  PROVE  \E W : Stream(W, rest, Len(sent)) /\ Stage(p, ack, found, W, 0, Len(rest))
<1> DEFINE m == Len(first)
           n == Len(rest)
           bytes == first \o rest
           W == [i \in 0..n |-> V[i + m]]
<1>1. /\ m \in Nat /\ n \in Nat /\ Len(bytes) = m + n
      /\ \A i \in 1..n : bytes[i + m] = rest[i]
  OBVIOUS
<1>2. \A i \in 0..n : W[i] = V[i + m] /\ i + m \in 0..Len(bytes)
  BY <1>1
<1>3. \A i \in 1..n : i + m \in 1..Len(bytes) /\ (i + m) - 1 = (i - 1) + m /\ i - 1 \in 0..n
  BY <1>1
<1>4. \A j \in 0..n : j + m \in m..Len(bytes) /\ (j + m = m => j = 0)
  BY <1>1
<1>5. W[0] = V[m] /\ W[n] = V[Len(bytes)]
  BY <1>1
<1> HIDE DEF m, n, bytes, W
<1>6. W \in [0..n -> Place]
  BY <1>2 DEF Stream, W, bytes
<1>7. \A i \in 1..n : ByteAt(W[i]) = rest[i] /\ Follows(W[i], W[i - 1])
  <2> TAKE i \in 1..n
  <2>1. W[i] = V[i + m] /\ W[i - 1] = V[(i + m) - 1] /\ i + m \in 1..Len(bytes)
    BY <1>2, <1>3
  <2>2. ByteAt(V[i + m]) = bytes[i + m] /\ Follows(V[i + m], V[(i + m) - 1])
    BY <2>1 DEF Stream, bytes
  <2> QED
    BY <1>1, <2>1, <2>2
<1>8. \A i \in 0..n : W[i].frame.upto <= Len(sent)
  BY <1>2 DEF Stream, bytes
<1>9. IsLast(W[n]) /\ W[n].frame.upto = Len(sent)
  BY <1>5 DEF Stream, bytes
<1>10. \A i, j \in 1..n : i < j /\ OfAnswer(W[i]) /\ IsLast(W[i]) => ~OfAnswer(W[j])
  <2> TAKE i, j \in 1..n
  <2>1. W[i] = V[i + m] /\ W[j] = V[j + m]
    BY <1>2, <1>1
  <2>2. i + m \in 1..Len(bytes) /\ j + m \in 1..Len(bytes) /\ (i < j => i + m < j + m)
    BY <1>1, <1>3
  <2> QED
    BY <2>1, <2>2 DEF Stream, bytes
<1>11. Stream(W, rest, Len(sent))
  BY <1>6, <1>7, <1>8, <1>9, <1>10 DEF Stream, n
<1>12. Stage(p, ack, found, W, 0, n)
  <2>1. ASSUME NEW j \in 0..n PROVE Genuine(W[j].frame, p) \/ (j = 0 /\ IsLast(W[0]))
    <3>1. Genuine(V[j + m].frame, p) \/ (j + m = m /\ IsLast(V[m]))
      BY <1>4 DEF Stage, m, bytes
    <3> QED
      BY <1>2, <1>4, <1>5, <3>1
  <2> QED
    BY <1>5, <2>1 DEF Stage, m
<1> QED
  BY <1>11, <1>12 DEF n

\* The places of a stream after which the modem sent a frame more.
Grown(V, bytes, f) ==
  [i \in 0..Len(bytes \o Frame(f.type, f.body)) |->
     IF i <= Len(bytes) THEN V[i] ELSE [frame |-> f, off |-> i - Len(bytes)]]

\* They make a stream, if the frame is numbered in turn, and if it is an answer
\* and there is no other one to come.
LEMMA StreamGrows ==
  ASSUME NEW bytes \in Seq(Byte), NEW total \in Nat, NEW V, Stream(V, bytes, total),
         NEW f \in ModemFrame,
         f.upto = IF HasClass(f.type) THEN total + 1 ELSE total,
         f.type \in OwnType \/ \A i \in 1..Len(bytes) : ~OfAnswer(V[i])
  PROVE  LET W == Grown(V, bytes, f) IN
         /\ Stream(W, bytes \o Frame(f.type, f.body), f.upto)
         /\ \A i \in 0..Len(bytes \o Frame(f.type, f.body)) :
              IF i <= Len(bytes) THEN W[i] = V[i] ELSE W[i].frame = f
<1> DEFINE F == Frame(f.type, f.body)
           n == Len(bytes)
           l == Len(F)
           U == bytes \o F
           W == Grown(V, bytes, f)
<1>1. f.type \in Byte /\ f.body \in Seq(Byte) /\ f.upto \in Nat
  BY DEF ModemFrame
<1>2. F \in Seq(Byte) /\ l = Len(f.body) + 2 /\ Len(f.body) \in Nat
  BY <1>1, FrameBytes, FrameType
<1>3. n \in Nat /\ l \in Nat /\ l >= 2 /\ Len(U) = n + l
  BY <1>2
<1>4. /\ \A i \in 1..n : U[i] = bytes[i]
      /\ \A i \in (n + 1)..(n + l) : U[i] = F[i - n]
  BY <1>2, <1>3
<1> HIDE DEF F, n, l, U
<1>5. \A i \in 0..n : W[i] = V[i] /\ V[i] \in Place
  <2>1. V \in [0..n -> Place]
    BY DEF Stream, n
  <2>2. \A i \in 0..n : i \in 0..Len(U) /\ i <= n
    BY <1>3
  <2> QED
    BY <2>1, <2>2 DEF Grown, U, F, n
<1>6. ASSUME NEW i \in (n + 1)..(n + l)
      PROVE  W[i].frame = f /\ W[i].off = i - n /\ W[i] \in Place
  <2>1. W[i] = [frame |-> f, off |-> i - n]
    BY <1>3 DEF Grown, U, F, n
  <2>2. i - n \in 1..(Len(f.body) + 2)
    BY <1>2, <1>3
  <2> QED
    BY <2>1, <2>2 DEF Place
<1> HIDE DEF W
<1>7. W \in [0..Len(U) -> Place]
  <2>1. DOMAIN W = 0..Len(U) /\ W = [i \in 0..Len(U) |-> W[i]]
    BY DEF Grown, W, U, F
  <2>2. ASSUME NEW i \in 0..Len(U) PROVE W[i] \in Place
    <3>1. i \in 0..n \/ i \in (n + 1)..(n + l)
      BY <1>3
    <3> QED
      BY <1>5, <1>6, <3>1
  <2> QED
    BY <2>1, <2>2
<1>8. IsLast(V[n]) /\ V[n].frame.upto = total /\ V[n] \in Place
  BY <1>3, <1>5 DEF Stream, n
<1>9. ASSUME NEW i \in 1..Len(U) PROVE ByteAt(W[i]) = U[i] /\ Follows(W[i], W[i - 1])
  <2>1. CASE i <= n
    <3>1. i \in 1..n /\ i - 1 \in 0..n /\ i \in 0..n
      BY <1>3, <2>1
    <3>2. ByteAt(V[i]) = bytes[i] /\ Follows(V[i], V[i - 1])
      BY <3>1 DEF Stream, n
    <3> QED
      BY <1>4, <1>5, <3>1, <3>2
  <2>2. CASE i = n + 1
    <3>1. W[i].frame = f /\ W[i].off = 1 /\ W[i - 1] = V[n] /\ U[i] = F[1]
      BY <1>3, <1>4, <1>5, <1>6, <2>2
    <3>2. ByteAt(W[i]) = F[1]
      BY <3>1 DEF ByteAt, F
    <3>3. Follows(W[i], W[i - 1])
      BY <1>8, <3>1 DEF Follows, Numbered
    <3> QED
      BY <3>1, <3>2, <3>3
  <2>3. CASE i > n + 1
    <3>1. i \in (n + 1)..(n + l) /\ i - 1 \in (n + 1)..(n + l)
      BY <1>3, <2>3
    <3>2. /\ W[i].frame = f /\ W[i].off = i - n
          /\ W[i - 1].frame = f /\ W[i - 1].off = (i - 1) - n
      BY <1>6, <3>1
    <3>3. ~IsLast(W[i - 1]) /\ W[i].off = W[i - 1].off + 1
      BY <1>2, <1>3, <3>1, <3>2 DEF IsLast
    <3>4. ByteAt(W[i]) = U[i]
      BY <1>4, <3>1, <3>2 DEF ByteAt, F
    <3> QED
      BY <3>2, <3>3, <3>4 DEF Follows
  <2> QED
    BY <1>3, <2>1, <2>2, <2>3
<1>10. ASSUME NEW i \in 0..Len(U) PROVE W[i].frame.upto <= f.upto
  <2>1. CASE i <= n
    <3>1. i \in 0..n /\ V[i].frame.upto \in Nat
      BY <1>3, <1>5, <2>1 DEF Place, ModemFrame
    <3>2. V[i].frame.upto <= total /\ f.upto >= total
      BY <1>1, <3>1 DEF Stream, n
    <3> QED
      BY <1>1, <1>5, <3>1, <3>2
  <2>2. CASE i > n
    BY <1>1, <1>3, <1>6, <2>2
  <2> QED
    BY <1>3, <2>1, <2>2
<1>11. IsLast(W[Len(U)]) /\ W[Len(U)].frame.upto = f.upto
  <2>1. n + l \in (n + 1)..(n + l) /\ (n + l) - n = l
    BY <1>3
  <2> QED
    BY <1>2, <1>3, <1>6, <2>1 DEF IsLast
<1>12. ASSUME NEW i \in 1..Len(U), NEW j \in 1..Len(U), i < j, OfAnswer(W[i]), IsLast(W[i])
       PROVE  ~OfAnswer(W[j])
  <2>1. CASE j <= n
    <3>1. i \in 1..n /\ j \in 1..n /\ i \in 0..n /\ j \in 0..n
      BY <1>3, <1>12, <2>1
    <3>2. W[i] = V[i] /\ W[j] = V[j]
      BY <1>5, <3>1
    <3> QED
      BY <1>12, <3>1, <3>2 DEF Stream, n
  <2>2. CASE i <= n /\ j > n
    <3>1. i \in 1..n /\ i \in 0..n /\ j \in (n + 1)..(n + l)
      BY <1>3, <2>2
    <3>2. OfAnswer(V[i]) /\ W[j].frame = f
      BY <1>5, <1>6, <1>12, <3>1
    <3> QED
      BY <3>1, <3>2 DEF OfAnswer, n
  <2>3. CASE i > n
    <3>1. i \in (n + 1)..(n + l) /\ i # n + l
      BY <1>3, <1>12, <2>3
    <3>2. W[i].frame = f /\ W[i].off = i - n
      BY <1>6, <3>1
    <3>3. ~IsLast(W[i])
      BY <1>2, <1>3, <3>1, <3>2 DEF IsLast
    <3> QED
      BY <1>12, <3>3
  <2> QED
    BY <1>3, <2>1, <2>2, <2>3
<1>13. Stream(W, U, f.upto)
  BY <1>7, <1>9, <1>10, <1>11, <1>12 DEF Stream
<1>14. \A i \in 0..Len(U) : IF i <= n THEN W[i] = V[i] ELSE W[i].frame = f
  BY <1>3, <1>5, <1>6
<1> QED
  BY <1>13, <1>14 DEF W, U, F, n

-----------------------------------------------------------------------------
(***************************************************************************)
(* The messages found are the messages sent.                               *)
(***************************************************************************)
\* The bytes that the modem sent and nobody has parsed.
Ahead == buffer["reader"] \o buffer["sender"] \o line

\* A buffer holds bytes only until it is parsed.
BufferInv == \A t \in Thread : buffer[t] # <<>> => pc[t] = "parse"

\* Without a timeout or an overlap no call has failed, and the bytes ahead of
\* the parser go on where it stands.
FrameInv ==
  InStep => /\ ~crashed /\ result \notin {"Invalid", "Exception"}
            /\ parser.batch = <<>> /\ ~parser.acked
            /\ \E V : /\ Stream(V, Ahead, Len(sent))
                      /\ Stage(parser, receivedAck, handed, V, 0, Len(Ahead))

LinkInv == TypeOK /\ Called /\ PortInv /\ BufferInv /\ FrameInv

\* What is ahead are bytes.
LEMMA AheadType ==
  ASSUME TypeOK
  PROVE  /\ buffer["reader"] \in Seq(Byte) /\ buffer["sender"] \in Seq(Byte)
         /\ line \in Seq(Byte) /\ Ahead \in Seq(Byte) /\ Len(Ahead) \in Nat
         /\ sent \in Seq(Message) /\ Len(sent) \in Nat
<1>1. buffer["reader"] \in Seq(Byte) /\ buffer["sender"] \in Seq(Byte) /\ line \in Seq(Byte)
  BY DEF TypeOK, Thread
<1>2. Ahead \in Seq(Byte) /\ Len(Ahead) \in Nat
  <2>1. buffer["reader"] \o buffer["sender"] \in Seq(Byte)
    BY <1>1
  <2>2. (buffer["reader"] \o buffer["sender"]) \o line \in Seq(Byte)
    BY <1>1, <2>1
  <2>3. Ahead \in Seq(Byte)
    BY <2>2 DEF Ahead
  <2> QED
    BY <2>3
<1>3. sent \in Seq(Message) /\ Len(sent) \in Nat
  BY DEF TypeOK
<1> QED
  BY <1>1, <1>2, <1>3

\* At first nothing has been sent: the parser is after the end of nothing.
LEMMA FrameInit == Init => FrameInv /\ BufferInv
<1> SUFFICES ASSUME Init PROVE FrameInv /\ BufferInv
  OBVIOUS
<1> DEFINE none == [type |-> StandardMessageReceived, body |-> <<>>, upto |-> 0]
           a == [frame |-> none, off |-> 2]
           V == [i \in 0..0 |-> a]
<1>1. BufferInv
  BY DEF Init, BufferInv
<1>2. Ahead = <<>> /\ Len(Ahead) = 0 /\ sent = <<>> /\ Len(sent) = 0
  BY DEF Init, Ahead, Thread
<1>3. none \in ModemFrame
  BY DEF ModemFrame, StandardMessageReceived, Byte
<1>4. a \in Place /\ IsLast(a) /\ a.frame.upto = 0 /\ Ended(a) = 0
  BY <1>3 DEF Place, IsLast, Ended
<1> HIDE DEF a
<1>5. V[0] = a /\ V \in [0..0 -> Place]
  BY <1>4
<1> HIDE DEF V
<1>6. Stream(V, Ahead, Len(sent))
  <2>1. 0..Len(Ahead) = {0} /\ 1..Len(Ahead) = {}
    BY <1>2
  <2> QED
    BY <1>2, <1>4, <1>5, <2>1 DEF Stream
<1>7. ParserAt(parser, V[0])
  BY <1>4, <1>5 DEF ParserAt, Init
<1>8. Talk(parser, receivedAck)
  BY DEF Talk, Init, Thread
<1>9. handed = SubSeq(sent, 1, Ended(V[0]))
  <2>1. handed = <<>> /\ SubSeq(<<>>, 1, 0) = <<>>
    BY DEF Init
  <2> QED
    BY <1>2, <1>4, <1>5, <2>1
<1>10. Stage(parser, receivedAck, handed, V, 0, Len(Ahead))
  <2>1. \A j \in 0..Len(Ahead) : j = 0 /\ IsLast(V[0])
    BY <1>2, <1>4, <1>5
  <2> QED
    BY <1>7, <1>8, <1>9, <2>1 DEF Stage
<1>11. FrameInv
  BY <1>6, <1>10 DEF FrameInv, Init
<1> QED
  BY <1>1, <1>11

\* A step that leaves the stream and the parser alone, and the talk in order.
LEMMA FrameKept ==
  ASSUME FrameInv, InStep' => InStep,
         UNCHANGED <<crashed, parser, handed, requests, status, sent>>,
         InStep' => Ahead' = Ahead,
         InStep => result' = result \/ result' \notin {"Invalid", "Exception"},
         InStep /\ Talk(parser, receivedAck) => Talk(parser, receivedAck)'
  PROVE  FrameInv'
<1> SUFFICES ASSUME InStep' PROVE
      /\ ~crashed' /\ result' \notin {"Invalid", "Exception"}
      /\ parser'.batch = <<>> /\ ~parser'.acked
      /\ \E V : /\ Stream(V, Ahead, Len(sent))'
                /\ Stage(parser, receivedAck, handed, V, 0, Len(Ahead))'
  BY DEF FrameInv
<1>1. PICK V : /\ Stream(V, Ahead, Len(sent))
               /\ Stage(parser, receivedAck, handed, V, 0, Len(Ahead))
  BY DEF FrameInv
<1>2. Stream(V, Ahead, Len(sent))'
  BY <1>1 DEF Stream
<1>3. Talk(parser, receivedAck)'
  BY <1>1 DEF Stage
<1>4. \A j \in 0..Len(Ahead) :
        (Genuine(V[j].frame, parser))' \/ (j = 0 /\ IsLast(V[0]))
  BY <1>1 DEF Stage, Genuine, StatusByte
<1>5. Stage(parser, receivedAck, handed, V, 0, Len(Ahead))'
  <2>1. ParserAt(parser, V[0])' /\ handed' = SubSeq(sent', 1, Ended(V[0]))
    BY <1>1 DEF Stage, ParserAt
  <2>2. Ahead' = Ahead
    OBVIOUS
  <2> QED
    BY <1>3, <1>4, <2>1, <2>2 DEF Stage
<1> QED
  BY <1>2, <1>5 DEF FrameInv

\* If no other thread has read something, one buffer and the line are ahead.
LEMMA Alone ==
  ASSUME TypeOK, BufferInv, NEW t \in Thread, \A u \in Thread \ {t} : pc[u] # "parse"
  PROVE  Ahead = buffer[t] \o line
<1>1. buffer[t] \in Seq(Byte) /\ line \in Seq(Byte)
  BY DEF TypeOK
<1>2. CASE t = "reader"
  <2>1. buffer["sender"] = <<>>
    BY <1>2 DEF BufferInv, Thread
  <2> QED
    BY <1>1, <1>2, <2>1 DEF Ahead
<1>3. CASE t = "sender"
  <2>1. buffer["reader"] = <<>>
    BY <1>3 DEF BufferInv, Thread
  <2> QED
    BY <1>1, <1>3, <2>1 DEF Ahead
<1> QED
  BY <1>2, <1>3 DEF Thread

\* A sequence is its first elements and the others.
LEMMA SplitAt ==
  ASSUME NEW S, NEW s \in Seq(S), NEW n \in Nat, n <= Len(s)
  PROVE  SubSeq(s, 1, n) \o SubSeq(s, n + 1, Len(s)) = s
<1>1. /\ Len(s) \in Nat /\ 1 \in 1..(Len(s) + 1) /\ n \in (1 - 1)..Len(s)
      /\ Len(s) \in n..Len(s)
  OBVIOUS
<1>2. SubSeq(s, 1, n) \o SubSeq(s, n + 1, Len(s)) = SubSeq(s, 1, Len(s))
  BY <1>1, ConcatAdjacentSubSeq
<1> QED
  BY <1>2, SubSeqFull

\* Reading moves the bytes that were counted from the line to the buffer.
LEMMA ReadAhead ==
  ASSUME TypeOK, PortInv, BufferInv, NEW t \in Thread, ReadPort(t), TypeOK', BufferInv', InStep'
  PROVE  Ahead' = Ahead
<1>1. /\ pc[t] = "read" /\ pc' = [pc EXCEPT ![t] = "parse"] /\ ~overlap
      /\ pc \in [Thread -> Label]
  BY DEF ReadPort, Goto, InStep, PortInv
<1>2. \A u \in Thread \ {t} : pc[u] # "parse" /\ pc'[u] # "parse"
  BY <1>1 DEF PortInv, Between
<1>3. count[t] <= arrived /\ count[t] \in Nat /\ arrived \in 0..Len(line) /\ line \in Seq(Byte)
  BY <1>1 DEF PortInv, TypeOK
<1> DEFINE n == count[t]
<1>4. /\ buffer' = [buffer EXCEPT ![t] = SubSeq(line, 1, n) \o Zeros(0)]
      /\ line' = SubSeq(line, n + 1, Len(line))
  <2>1. Readable(t) = {n} /\ n - n = 0
    BY <1>3 DEF Readable
  <2> QED
    BY <2>1 DEF ReadPort
<1>5. Zeros(0) = <<>>
  BY DEF Zeros
<1>6. n <= Len(line) /\ Len(line) \in Nat
  BY <1>3
<1>7. buffer'[t] = SubSeq(line, 1, n)
  <2>1. SubSeq(line, 1, n) \o <<>> = SubSeq(line, 1, n)
    BY <1>3, <1>6
  <2> QED
    BY <1>4, <1>5, <2>1 DEF TypeOK
<1>8. SubSeq(line, 1, n) \o SubSeq(line, n + 1, Len(line)) = line
  BY <1>3, <1>6, SplitAt
<1>9. Ahead' = buffer'[t] \o line'
  <2>1. CASE t = "reader"
    <3>1. buffer'["sender"] = <<>>
      BY <1>2, <2>1 DEF BufferInv, Thread
    <3> QED
      BY <2>1, <3>1 DEF Ahead, TypeOK, Thread
  <2>2. CASE t = "sender"
    <3>1. buffer'["reader"] = <<>>
      BY <1>2, <2>2 DEF BufferInv, Thread
    <3> QED
      BY <2>2, <3>1 DEF Ahead, TypeOK, Thread
  <2> QED
    BY <2>1, <2>2 DEF Thread
<1>10. Ahead = line
  <2>1. buffer[t] = <<>>
    BY <1>1 DEF BufferInv
  <2>2. Ahead = buffer[t] \o line
    BY <1>2, Alone
  <2> QED
    BY <1>3, <2>1, <2>2
<1> QED
  BY <1>4, <1>7, <1>8, <1>9, <1>10

\* Parsing a buffer finds what was sent, without an exception.
LEMMA ParseFrames ==
  ASSUME TypeOK, PortInv, BufferInv, FrameInv, NEW t \in Thread, Parse(t)
  PROVE  FrameInv'
<1> SUFFICES ASSUME InStep
             PROVE  /\ ~crashed' /\ result' \notin {"Invalid", "Exception"}
                    /\ parser'.batch = <<>> /\ ~parser'.acked
                    /\ \E V : /\ Stream(V, Ahead, Len(sent))'
                              /\ Stage(parser, receivedAck, handed, V, 0, Len(Ahead))'
  BY DEF FrameInv, InStep, Parse
<1>1. /\ pc[t] = "parse" /\ UNCHANGED <<line, requests, sent, status>>
      /\ parser' = Cleared(ReadMessages(buffer[t]))
  BY DEF Parse, modemVars
<1>2. \A u \in Thread \ {t} : pc[u] # "parse"
  BY <1>1 DEF PortInv, Between, InStep
<1>3. Ahead = buffer[t] \o line /\ buffer[t] \in Seq(Byte) /\ line \in Seq(Byte)
  BY <1>2, Alone DEF TypeOK
<1>4. PICK V : /\ Stream(V, buffer[t] \o line, Len(sent))
               /\ Stage(parser, receivedAck, handed, V, 0, Len(buffer[t] \o line))
  BY <1>3 DEF FrameInv
<1>5. PICK p : p = ReadMessages(buffer[t])
  OBVIOUS
<1>6. p = ParsedFrom(parser, buffer[t]) /\ parser.batch = <<>> /\ ~parser.acked
  BY <1>5 DEF ReadMessages, FrameInv
<1>7. Stage(p, receivedAck \/ p.acked, handed \o p.batch, V, Len(buffer[t]),
            Len(buffer[t] \o line))
  BY <1>3, <1>4, <1>6, StageRun
<1>8. PICK W : /\ Stream(W, line, Len(sent))
               /\ Stage(p, receivedAck \/ p.acked, handed \o p.batch, W, 0, Len(line))
  BY <1>3, <1>4, <1>7, StageShift
<1>9. Sound(p)
  <2>1. Sound(parser)
    BY DEF TypeOK, Sound
  <2> QED
    BY <1>3, <1>6, <2>1, ParsedSound
<1>10. ~p.thrown
  BY <1>8 DEF Stage, ParserAt
<1>11. /\ parser'.batch = <<>> /\ ~parser'.acked /\ ~parser'.thrown
       /\ parser'.state = p.state /\ parser'.message = p.message /\ parser'.size = p.size
       /\ parser'.data = p.data /\ parser'.sending = p.sending
       /\ parser'.response = p.response
  BY <1>1, <1>5, <1>9 DEF Cleared, Sound, Parser
<1>12. handed' = handed \o p.batch /\ receivedAck' = (receivedAck \/ p.acked)
       /\ buffer' = [buffer EXCEPT ![t] = <<>>]
  BY <1>5, <1>10 DEF Parse
<1>13. Ahead' = line
  <2>1. \A u \in Thread : buffer'[u] = <<>>
    BY <1>2, <1>12 DEF BufferInv, TypeOK
  <2>2. buffer'["reader"] = <<>> /\ buffer'["sender"] = <<>> /\ line' = line
    BY <1>1, <2>1 DEF Thread
  <2>3. <<>> \o line = line /\ <<>> \o <<>> = <<>>
    BY <1>3
  <2> QED
    BY <2>2, <2>3 DEF Ahead
<1>14. ~crashed' /\ result' = result
  <2>1. CASE t = "reader"
    BY <1>5, <1>10, <2>1 DEF Parse
  <2>2. CASE t = "sender"
    <3>1. UNCHANGED <<result, crashed>>
      BY <1>5, <1>10, <2>2 DEF Parse
    <3> QED
      BY <3>1 DEF FrameInv
  <2> QED
    BY <2>1, <2>2 DEF Thread
<1>15. /\ t = "reader" => pc'["sender"] = pc["sender"]
       /\ t = "sender" => pc["sender"] = "parse" /\ pc'["sender"] = "write"
  <2>1. pc \in [Thread -> Label] /\ "sender" \in Thread
    BY DEF PortInv, Thread
  <2>2. CASE t = "reader"
    BY <2>1, <2>2 DEF Parse, Goto
  <2>3. CASE t = "sender"
    BY <1>1, <1>5, <1>10, <2>1, <2>3 DEF Parse, Goto
  <2> QED
    BY <2>2, <2>3 DEF Thread
<1>16. Talk(parser, receivedAck)'
  <2>1. Talk(p, receivedAck \/ p.acked)
    BY <1>8 DEF Stage
  <2> QED
    BY <1>1, <1>11, <1>12, <1>15, <2>1 DEF Talk, Thread
<1>17. Stream(W, Ahead, Len(sent))'
  BY <1>1, <1>8, <1>13 DEF Stream
<1>18. \A j \in 0..Len(line) : Genuine(W[j].frame, parser)' \/ (j = 0 /\ IsLast(W[0]))
  BY <1>1, <1>8, <1>11 DEF Stage, Genuine, StatusByte
<1>19. ParserAt(parser, W[0])'
  BY <1>8, <1>11 DEF Stage, ParserAt
<1>20. handed' = SubSeq(sent', 1, Ended(W[0]))
  BY <1>1, <1>8, <1>12 DEF Stage
<1>21. Stage(parser, receivedAck, handed, W, 0, Len(Ahead))'
  BY <1>13, <1>16, <1>18, <1>19, <1>20 DEF Stage
<1> QED
  BY <1>11, <1>14, <1>17, <1>21 DEF FrameInv

\* What the modem sends comes after what is ahead.
LEMMA AheadGrows ==
  ASSUME TypeOK, UNCHANGED buffer, NEW F \in Seq(Byte), line' = line \o F
  PROVE  Ahead' = Ahead \o F
<1> DEFINE b == buffer["reader"] \o buffer["sender"]
<1>1. b \in Seq(Byte) /\ line \in Seq(Byte)
  BY AheadType
<1>2. (b \o line) \o F = b \o (line \o F)
  <2> HIDE DEF b
  <2> QED BY <1>1
<1> QED
  BY <1>2 DEF Ahead

\* The modem's answer is the only one ahead, and of the command being sent.
LEMMA AnswerFrames ==
  ASSUME TypeOK, BufferInv, FrameInv, ModemAnswers
  PROVE  FrameInv'
<1> SUFFICES ASSUME InStep
             PROVE  \E V : /\ Stream(V, Ahead, Len(sent))'
                           /\ Stage(parser, receivedAck, handed, V, 0, Len(Ahead))'
  BY DEF FrameInv, InStep, ModemAnswers, callVars
<1>1. PICK V : /\ Stream(V, Ahead, Len(sent))
               /\ Stage(parser, receivedAck, handed, V, 0, Len(Ahead))
  BY DEF FrameInv
<1>2. PICK U : U = Ahead
  OBVIOUS
<1>3. U \in Seq(Byte) /\ Len(U) \in Nat /\ sent \in Seq(Message) /\ Len(sent) \in Nat
  BY <1>2, AheadType
<1> DEFINE c == parser.sending
<1>4. /\ requests # <<>> /\ c \in Command /\ Head(requests) = c /\ requests' = <<>>
      /\ Talk(parser, receivedAck)
  <2>1. Talk(parser, receivedAck) /\ requests # <<>>
    BY <1>1 DEF Stage, ModemAnswers
  <2>2. c \in Command /\ requests = <<c>>
    BY <2>1 DEF Talk
  <2>3. requests' = Tail(<<c>>) /\ Head(<<c>>) = c
    BY <2>2 DEF ModemAnswers
  <2> QED
    BY <2>1, <2>2, <2>3
<1>5. PICK s \in {ACK, NACK} :
        /\ line' = line \o Frame(c.type, Append(c.payload, s))
        /\ status' = IF s = ACK THEN "Ack" ELSE "Nack"
  BY <1>4 DEF ModemAnswers
<1>6. UNCHANGED <<pc, buffer, parser, handed, receivedAck, sent>>
  BY DEF ModemAnswers
<1>7. StatusByte' = s /\ status' \in {"Ack", "Nack"}
  BY <1>5 DEF StatusByte, ACK, NACK
<1> DEFINE f == [type |-> c.type, body |-> Append(c.payload, s), upto |-> Len(sent)]
<1>8. PICK g : g = f
  OBVIOUS
<1>9. /\ g \in ModemFrame /\ g.type = c.type /\ g.body = Append(c.payload, s)
      /\ g.upto = Len(sent) /\ g.type \notin OwnType
  <2>1. c.type \in StatusOnly /\ c.payload \in Seq(Byte)
    BY <1>4, CommandAssumption
  <2>2. s \in Byte
    BY DEF ACK, NACK, Byte
  <2>3. Append(c.payload, s) \in Seq(Byte)
    BY <2>1, <2>2
  <2>4. c.type \in Byte /\ c.type \notin OwnType
    BY <2>1 DEF StatusOnly
  <2> HIDE DEF c
  <2> QED
    BY <1>3, <1>8, <2>3, <2>4 DEF ModemFrame
<1>10. \A j \in 0..Len(U) : \/ /\ V[j].frame.type \in OwnType
                               /\ Genuine(V[j].frame, parser)
                            \/ j = 0 /\ IsLast(V[0])
  BY <1>1, <1>2, <1>4 DEF Stage, Genuine
<1>11. \A j \in 1..Len(U) : ~OfAnswer(V[j])
  BY <1>10, <1>3 DEF OfAnswer
<1> DEFINE F == Frame(g.type, g.body)
           W == Grown(V, U, g)
<1>12. /\ Stream(W, U \o F, Len(sent))
       /\ \A i \in 0..Len(U \o F) : IF i <= Len(U) THEN W[i] = V[i] ELSE W[i].frame = g
  <2>1. Stream(V, U, Len(sent))
    BY <1>1, <1>2
  <2>2. /\ g \in ModemFrame /\ g.type \notin OwnType /\ ~HasClass(g.type)
        /\ g.upto = Len(sent)
    BY <1>9, ClassIsOwn
  <2>3. Len(sent) \in Nat
    BY <1>3
  <2> HIDE DEF c, f, F, W
  <2>4. /\ Stream(Grown(V, U, g), U \o Frame(g.type, g.body), g.upto)
        /\ \A i \in 0..Len(U \o Frame(g.type, g.body)) :
             IF i <= Len(U) THEN Grown(V, U, g)[i] = V[i] ELSE Grown(V, U, g)[i].frame = g
    BY <1>3, <1>11, <2>1, <2>2, <2>3, StreamGrows
  <2> QED
    BY <2>2, <2>4 DEF F, W
<1>13. F \in Seq(Byte) /\ g.type \in Byte
  BY <1>9, FrameType DEF ModemFrame
<1>14. Ahead' = U \o F
  BY <1>2, <1>5, <1>6, <1>9, <1>13, AheadGrows
<1> HIDE DEF c, f, F, W
<1>15. Len(U \o F) \in Nat /\ 0 \in 0..Len(U \o F) /\ Len(U) >= 0
  BY <1>3, <1>13
<1>16. W[0] = V[0]
  BY <1>12, <1>15
<1>17. Talk(parser, receivedAck)'
  BY <1>4, <1>6, CommandAssumption DEF Talk, c
<1>18. Genuine(g, parser)'
  BY <1>4, <1>6, <1>7, <1>9 DEF Genuine, c
<1>19. ASSUME NEW i \in 0..Len(U \o F)
       PROVE  Genuine(W[i].frame, parser)' \/ (i = 0 /\ IsLast(W[0]))
  <2>1. CASE i <= Len(U)
    <3>1. i \in 0..Len(U) /\ W[i] = V[i]
      BY <1>3, <1>12, <2>1
    <3> QED
      BY <1>6, <1>10, <1>16, <3>1 DEF Genuine
  <2>2. CASE ~(i <= Len(U))
    BY <1>12, <1>18, <2>2
  <2> QED
    BY <2>1, <2>2
<1>20. Stream(W, Ahead, Len(sent))'
  BY <1>6, <1>12, <1>14 DEF Stream
<1>21. Stage(parser, receivedAck, handed, W, 0, Len(Ahead))'
  <2>1. ParserAt(parser, W[0])' /\ handed' = SubSeq(sent', 1, Ended(W[0]))
    BY <1>1, <1>6, <1>16 DEF Stage, ParserAt
  <2> QED
    BY <1>14, <1>17, <1>19, <2>1 DEF Stage
<1> QED
  BY <1>20, <1>21

\* A message more is ahead.
LEMMA MessageFrames ==
  ASSUME TypeOK, BufferInv, FrameInv, ModemSpeaks
  PROVE  FrameInv'
<1>m. PICK m \in Message :
        /\ line' = line \o Frame(m.type, m.body)
        /\ sent' = IF HasClass(m.type) THEN Append(sent, m) ELSE sent
        /\ unsized' = (unsized \/ Len(m.body) # FixedSize(m.type))
  BY DEF ModemSpeaks
<1>s. InStep' => InStep /\ Len(m.body) = FixedSize(m.type)
  BY <1>m DEF InStep, ModemSpeaks
<1> SUFFICES ASSUME InStep, Len(m.body) = FixedSize(m.type)
             PROVE  \E V : /\ Stream(V, Ahead, Len(sent))'
                           /\ Stage(parser, receivedAck, handed, V, 0, Len(Ahead))'
  BY <1>s DEF FrameInv, ModemSpeaks, callVars
<1>1. PICK V : /\ Stream(V, Ahead, Len(sent))
               /\ Stage(parser, receivedAck, handed, V, 0, Len(Ahead))
  BY DEF FrameInv
<1>2. PICK U : U = Ahead
  OBVIOUS
<1>3. U \in Seq(Byte) /\ Len(U) \in Nat /\ sent \in Seq(Message) /\ Len(sent) \in Nat
  BY <1>2, AheadType
<1>5. UNCHANGED <<pc, buffer, parser, handed, receivedAck, requests, status>>
  BY DEF ModemSpeaks
<1>6. m \in [type : Byte, body : Seq(Byte)] /\ m.type \in OwnType
  BY MessageAssumption DEF Found
<1>7. PICK n : n = Len(sent)
  OBVIOUS
<1>8. /\ n \in Nat /\ \A i \in 1..n : sent'[i] = sent[i]
      /\ Len(sent') = IF HasClass(m.type) THEN n + 1 ELSE n
      /\ HasClass(m.type) => sent'[n + 1] = m
  BY <1>3, <1>m, <1>7
<1>9. PICK g : g = [type |-> m.type, body |-> m.body, upto |-> Len(sent')]
  OBVIOUS
<1>10. /\ g \in ModemFrame /\ g.type = m.type /\ g.body = m.body
       /\ g.upto = Len(sent') /\ Item(g) = m
  BY <1>6, <1>8, <1>9 DEF ModemFrame, Item
<1> DEFINE F == Frame(g.type, g.body)
           W == Grown(V, U, g)
<1>11. /\ Stream(W, U \o F, Len(sent'))
       /\ \A i \in 0..Len(U \o F) : IF i <= Len(U) THEN W[i] = V[i] ELSE W[i].frame = g
  <2>1. Stream(V, U, n) /\ n \in Nat /\ U \in Seq(Byte)
    BY <1>1, <1>2, <1>3, <1>7
  <2>2. g.upto = IF HasClass(g.type) THEN n + 1 ELSE n
    BY <1>8, <1>10
  <2>3. g.type \in OwnType /\ g \in ModemFrame /\ g.upto = Len(sent')
    BY <1>6, <1>10
  <2> HIDE DEF F, W
  <2>4. /\ Stream(Grown(V, U, g), U \o Frame(g.type, g.body), g.upto)
        /\ \A i \in 0..Len(U \o Frame(g.type, g.body)) :
             IF i <= Len(U) THEN Grown(V, U, g)[i] = V[i] ELSE Grown(V, U, g)[i].frame = g
    BY <2>1, <2>2, <2>3, StreamGrows
  <2> QED
    BY <2>3, <2>4 DEF F, W
<1>12. F \in Seq(Byte)
  BY <1>6, <1>10, FrameType
<1>13. Ahead' = U \o F
  BY <1>2, <1>m, <1>5, <1>10, <1>12, AheadGrows
<1> HIDE DEF F, W
<1>14. Len(U \o F) \in Nat /\ 0 \in 0..Len(U \o F) /\ Len(U) >= 0 /\ 0 \in 0..Len(U)
  BY <1>3, <1>12
<1>15. W[0] = V[0] /\ V[0] \in Place /\ V[0].frame.upto <= n
  BY <1>1, <1>2, <1>7, <1>11, <1>14 DEF Stream
<1>16. Genuine(g, parser)'
  BY <1>6, <1>8, <1>10 DEF Genuine
<1>17. ASSUME NEW j \in 0..Len(U), Genuine(V[j].frame, parser)
       PROVE  Genuine(V[j].frame, parser)'
  <2>1. V[j].frame.upto \in Nat
    BY <1>1, <1>2 DEF Stream, Place, ModemFrame
  <2> QED
    BY <1>5, <1>7, <1>8, <1>17, <2>1 DEF Genuine, StatusByte, Item
<1>18. ASSUME NEW i \in 0..Len(U \o F)
       PROVE  Genuine(W[i].frame, parser)' \/ (i = 0 /\ IsLast(W[0]))
  <2>1. CASE i <= Len(U)
    <3>1. i \in 0..Len(U) /\ W[i] = V[i]
      BY <1>3, <1>11, <2>1
    <3>2. Genuine(V[i].frame, parser) \/ (i = 0 /\ IsLast(V[0]))
      BY <1>1, <1>2, <3>1 DEF Stage
    <3> QED
      BY <1>15, <1>17, <3>1, <3>2
  <2>2. CASE ~(i <= Len(U))
    BY <1>11, <1>16, <2>2
  <2> QED
    BY <2>1, <2>2
<1>19. SubSeq(sent', 1, Ended(W[0])) = SubSeq(sent, 1, Ended(W[0]))
  <2>1. Genuine(V[0].frame, parser) \/ IsLast(V[0])
    BY <1>1, <1>2, <1>14 DEF Stage
  <2>2. IsLast(V[0]) \/ ~Numbered(V[0]) \/ V[0].frame.upto # 0
    BY <2>1, ClassIsOwn DEF Genuine, Numbered
  <2>3. Ended(V[0]) \in Nat /\ Ended(V[0]) <= V[0].frame.upto
    BY <1>15, <2>2, EndedType
  <2>4. Ended(V[0]) <= n
    BY <1>8, <1>15, <2>3 DEF Place, ModemFrame
  <2> QED
    BY <1>3, <1>m, <1>7, <1>15, <2>3, <2>4
<1>20. Stream(W, Ahead, Len(sent))'
  BY <1>11, <1>13 DEF Stream
<1>21. Talk(parser, receivedAck)'
  BY <1>1, <1>5 DEF Stage, Talk
<1>22. Stage(parser, receivedAck, handed, W, 0, Len(Ahead))'
  <2>1. ParserAt(parser, W[0])'
    BY <1>1, <1>5, <1>15 DEF Stage, ParserAt
  <2>2. handed' = SubSeq(sent', 1, Ended(W[0]))
    BY <1>1, <1>5, <1>15, <1>19 DEF Stage
  <2> QED
    BY <1>13, <1>18, <1>21, <2>1, <2>2 DEF Stage
<1> QED
  BY <1>20, <1>22

\* A buffer is filled by a read and emptied by parsing.
LEMMA BufferStep ==
  ASSUME TypeOK, PortInv, BufferInv, [Next]_vars
  PROVE  BufferInv'
<1>0. /\ pc \in [Thread -> Label] /\ buffer \in [Thread -> Seq(Byte)]
      /\ "reader" \in Thread /\ "sender" \in Thread
  BY DEF TypeOK, PortInv, Thread
<1>1. CASE DataReceived
  BY <1>0, <1>1 DEF DataReceived, Goto, BufferInv
<1>2. ASSUME NEW t \in Thread, Count(t) PROVE BufferInv'
  BY <1>0, <1>2 DEF Count, Goto, BufferInv
<1>3. ASSUME NEW t \in Thread, ReadPort(t) PROVE BufferInv'
  <2>1. PICK b : buffer' = [buffer EXCEPT ![t] = b]
    BY <1>3 DEF ReadPort
  <2>2. pc' = [pc EXCEPT ![t] = "parse"]
    BY <1>3 DEF ReadPort, Goto
  <2> QED
    BY <1>0, <2>1, <2>2 DEF BufferInv
<1>4. ASSUME NEW t \in Thread, Parse(t) PROVE BufferInv'
  <2>1. buffer' = [buffer EXCEPT ![t] = <<>>]
    BY <1>4 DEF Parse
  <2>2. \E l \in {"idle", "write"} : pc' = [pc EXCEPT ![t] = l]
    BY <1>4 DEF Parse, Goto, Thread
  <2> QED
    BY <1>0, <2>1, <2>2 DEF BufferInv
<1>5. CASE \E c \in Command : Call(c)
  BY <1>0, <1>5 DEF Call, Goto, BufferInv
<1>6. CASE LockPort \/ WriteCommand
  BY <1>0, <1>6 DEF LockPort, WriteCommand, Goto, BufferInv
<1>7. CASE WaitSignalled \/ ReturnResponse \/ WaitTimeout
  BY <1>0, <1>7 DEF WaitSignalled, ReturnResponse, WaitTimeout, Goto, BufferInv
<1>8. CASE ModemAnswers \/ ModemSpeaks
  BY <1>8 DEF ModemAnswers, ModemSpeaks, BufferInv
<1>9. CASE UNCHANGED vars
  BY <1>9 DEF vars, BufferInv
<1> QED
  BY <1>0, <1>1, <1>2, <1>3, <1>4, <1>5, <1>6, <1>7, <1>8, <1>9
     DEF Next, ReaderStep, SenderStep

\* What the wait and the write of SendCommand make of the talk.
LEMMA TalkFacts ==
  ASSUME TypeOK, FrameInv, InStep
  PROVE  /\ Talk(parser, receivedAck)
         /\ pc["sender"] # "waiting" => /\ parser.sending = NoCommand /\ requests = <<>>
                                        /\ ~receivedAck
         /\ parser.response \in {"Ack", "Nack", "Invalid", "Unknown"}
<1>1. Talk(parser, receivedAck)
  BY DEF FrameInv, Stage
<1>2. parser.response \in {"Ack", "Nack", "Invalid", "Unknown"}
  BY DEF TypeOK, Parser
<1> QED
  BY <1>1, <1>2, CommandAssumption DEF Talk

\* The command is written: from here on its answer may come.
LEMMA WriteFrames ==
  ASSUME TypeOK, Called, BufferInv, FrameInv, WriteCommand
  PROVE  FrameInv'
<1> SUFFICES ASSUME InStep
             PROVE  /\ parser'.batch = <<>> /\ ~parser'.acked
                    /\ \E V : /\ Stream(V, Ahead, Len(sent))'
                              /\ Stage(parser, receivedAck, handed, V, 0, Len(Ahead))'
  BY DEF FrameInv, InStep, WriteCommand, callVars
<1>1. PICK V : /\ Stream(V, Ahead, Len(sent))
               /\ Stage(parser, receivedAck, handed, V, 0, Len(Ahead))
  BY DEF FrameInv
<1>2. /\ pc["sender"] = "write" /\ pc' = [pc EXCEPT !["sender"] = "waiting"]
      /\ parser' = [parser EXCEPT !.sending = command]
      /\ requests' = Append(requests, command)
      /\ UNCHANGED <<buffer, line, handed, receivedAck, sent, status>>
  BY DEF WriteCommand, Goto
<1>3. /\ parser.sending = NoCommand /\ requests = <<>> /\ ~receivedAck
      /\ command \in Command /\ pc'["sender"] = "waiting"
  BY <1>2, TalkFacts DEF Called, TypeOK, Thread
<1>4. /\ parser'.sending = command /\ parser'.batch = parser.batch
      /\ parser'.acked = parser.acked /\ parser'.thrown = parser.thrown
      /\ parser'.state = parser.state /\ parser'.message = parser.message
      /\ parser'.data = parser.data /\ parser'.size = parser.size
  BY <1>2 DEF TypeOK, Parser
<1>5. Ahead' = Ahead
  BY <1>2 DEF Ahead
<1>6. Talk(parser, receivedAck)'
  <2>1. requests' = <<command>>
    BY <1>2, <1>3
  <2> QED
    BY <1>2, <1>3, <1>4, <2>1 DEF Talk
<1>7. \A j \in 0..Len(Ahead) : Genuine(V[j].frame, parser)' \/ (j = 0 /\ IsLast(V[0]))
  BY <1>1, <1>2, <1>3, CommandAssumption DEF Stage, Genuine
<1>8. Stage(parser, receivedAck, handed, V, 0, Len(Ahead))'
  <2>1. ParserAt(parser, V[0])' /\ handed' = SubSeq(sent', 1, Ended(V[0]))
    BY <1>1, <1>2, <1>4 DEF Stage, ParserAt
  <2> QED
    BY <1>5, <1>6, <1>7, <2>1 DEF Stage
<1>9. Stream(V, Ahead, Len(sent))'
  BY <1>1, <1>2, <1>5 DEF Stream
<1> QED
  BY <1>4, <1>8, <1>9 DEF FrameInv

\* Every step keeps the stream and the parser together.
LEMMA FrameStep ==
  ASSUME LinkInv, TypeOK', BufferInv', [Next]_vars
  PROVE  FrameInv'
<1>0. /\ TypeOK /\ Called /\ PortInv /\ BufferInv /\ FrameInv
      /\ pc \in [Thread -> Label] /\ "reader" \in Thread /\ "sender" \in Thread
  BY DEF LinkInv, PortInv, Thread
<1>1. CASE DataReceived
  <2>1. pc'["sender"] = pc["sender"]
    BY <1>0, <1>1 DEF DataReceived, Goto
  <2>2. /\ UNCHANGED <<crashed, parser, handed, requests, status, sent>>
        /\ UNCHANGED <<receivedAck, result, late, overlap, unsized>> /\ Ahead' = Ahead
    BY <1>1 DEF DataReceived, Ahead, callVars, modemVars
  <2> QED
    BY <1>0, <2>1, <2>2, FrameKept DEF Talk, InStep
<1>2. ASSUME NEW t \in Thread, Count(t) PROVE FrameInv'
  <2>1. /\ pc["sender"] \notin {"waiting", "answered"} \/ pc'["sender"] = pc["sender"]
        /\ pc'["sender"] \notin {"waiting", "answered"} \/ pc'["sender"] = pc["sender"]
    BY <1>0, <1>2 DEF Count, Goto
  <2>2. /\ UNCHANGED <<crashed, parser, handed, requests, status, sent>>
        /\ UNCHANGED <<receivedAck, result, late, unsized>> /\ Ahead' = Ahead
    BY <1>2 DEF Count, Ahead, callVars, modemVars
  <2>3. InStep' => InStep
    <3>1. overlap' = (overlap \/ \E u \in Thread \ {t} : Between(u))
      BY <1>2 DEF Count
    <3>2. overlap => overlap'
      BY <3>1, Zenon
    <3> QED
      BY <2>2, <3>2 DEF InStep
  <2>4. Talk(parser, receivedAck) => Talk(parser, receivedAck)'
    BY <2>1, <2>2 DEF Talk
  <2> QED
    BY <1>0, <2>2, <2>3, <2>4, FrameKept
<1>3. ASSUME NEW t \in Thread, ReadPort(t) PROVE FrameInv'
  <2>1. /\ pc["sender"] \notin {"waiting", "answered"} \/ pc'["sender"] = pc["sender"]
        /\ pc'["sender"] \notin {"waiting", "answered"} \/ pc'["sender"] = pc["sender"]
    BY <1>0, <1>3 DEF ReadPort, Goto
  <2>2. /\ UNCHANGED <<crashed, parser, handed, requests, status, sent>>
        /\ UNCHANGED <<receivedAck, result, late, overlap, unsized>>
    BY <1>3 DEF ReadPort, callVars, modemVars
  <2>3. InStep' => Ahead' = Ahead
    BY <1>0, <1>3, ReadAhead
  <2>4. Talk(parser, receivedAck) => Talk(parser, receivedAck)'
    BY <2>1, <2>2 DEF Talk
  <2>5. InStep' => InStep
    BY <2>2 DEF InStep
  <2> QED
    BY <1>0, <2>2, <2>3, <2>4, <2>5, FrameKept
<1>4. ASSUME NEW t \in Thread, Parse(t) PROVE FrameInv'
  BY <1>0, <1>4, ParseFrames
<1>5. CASE \/ \E c \in Command : Call(c)
           \/ LockPort
  <2>1. /\ pc["sender"] \notin {"waiting", "answered"}
        /\ pc'["sender"] \notin {"waiting", "answered"}
    BY <1>0, <1>5 DEF Call, LockPort, Goto
  <2>2. /\ UNCHANGED <<crashed, parser, handed, requests, status, sent>>
        /\ UNCHANGED <<receivedAck, late, overlap, unsized>> /\ Ahead' = Ahead
        /\ result' = result \/ result' = "none"
    BY <1>5 DEF Call, LockPort, Ahead, callVars, modemVars
  <2>3. Talk(parser, receivedAck) => Talk(parser, receivedAck)'
    BY <2>1, <2>2 DEF Talk
  <2> QED
    BY <1>0, <2>2, <2>3, FrameKept DEF InStep
<1>6. CASE WriteCommand
  BY <1>0, <1>6, WriteFrames
<1>7. CASE WaitSignalled
  <2>1. /\ pc["sender"] = "waiting" /\ pc'["sender"] = "answered" /\ receivedAck
        /\ ~receivedAck'
    BY <1>0, <1>7 DEF WaitSignalled, Goto
  <2>2. /\ UNCHANGED <<crashed, parser, handed, requests, status, sent>>
        /\ UNCHANGED <<result, late, overlap, unsized>> /\ Ahead' = Ahead
    BY <1>7 DEF WaitSignalled, Ahead, callVars, modemVars
  <2>3. Talk(parser, receivedAck) => Talk(parser, receivedAck)'
    BY <2>1, <2>2, CommandAssumption DEF Talk
  <2> QED
    BY <1>0, <2>2, <2>3, FrameKept DEF InStep
<1>8. CASE ReturnResponse
  <2>1. pc["sender"] = "answered" /\ pc'["sender"] = "idle"
    BY <1>0, <1>8 DEF ReturnResponse, Goto
  <2>2. /\ UNCHANGED <<crashed, parser, handed, requests, status, sent>>
        /\ UNCHANGED <<receivedAck, late, overlap, unsized>> /\ Ahead' = Ahead
        /\ result' = parser.response
    BY <1>8 DEF ReturnResponse, Ahead, modemVars
  <2>3. InStep => result' \notin {"Invalid", "Exception"}
    <3>1. InStep => parser.response = status
      BY <1>0, <2>1, TalkFacts DEF Talk
    <3>2. status \in {"none", "Ack", "Nack"}
      BY <1>0 DEF TypeOK
    <3> QED
      BY <2>2, <3>1, <3>2
  <2>4. InStep => (Talk(parser, receivedAck) => Talk(parser, receivedAck)')
    <3>1. InStep => parser.sending = NoCommand /\ requests = <<>> /\ ~receivedAck
      BY <1>0, <2>1, TalkFacts
    <3> QED
      BY <2>1, <2>2, <3>1 DEF Talk
  <2> QED
    BY <1>0, <2>2, <2>3, <2>4, FrameKept DEF InStep
<1>9. CASE WaitTimeout
  BY <1>9 DEF WaitTimeout, FrameInv, InStep
<1>10. CASE ModemAnswers
  BY <1>0, <1>10, AnswerFrames
<1>11. CASE ModemSpeaks
  BY <1>0, <1>11, MessageFrames
<1>12. CASE UNCHANGED vars
  <2>1. /\ UNCHANGED <<crashed, parser, handed, requests, status, sent>>
        /\ UNCHANGED <<receivedAck, result, late, overlap, unsized, pc>> /\ Ahead' = Ahead
    BY <1>12 DEF vars, Ahead, callVars, modemVars
  <2> QED
    BY <1>0, <2>1, FrameKept DEF Talk, InStep
<1> QED
  BY <1>0, <1>1, <1>2, <1>3, <1>4, <1>5, <1>6, <1>7, <1>8, <1>9, <1>10, <1>11, <1>12
     DEF Next, ReaderStep, SenderStep

\* All parts of the invariant together.
LEMMA LinkCorrect == Spec => []LinkInv
<1>1. Init => LinkInv
  <2>1. Init => Called
    BY DEF Init, Called, Thread
  <2> QED
    BY <2>1, TypeInit, PortInit, FrameInit DEF LinkInv
<1>2. LinkInv /\ [Next]_vars => LinkInv'
  <2> SUFFICES ASSUME LinkInv, [Next]_vars PROVE LinkInv'
    OBVIOUS
  <2>1. TypeOK' /\ Called'
    BY TypeStep, CalledStep DEF LinkInv
  <2>2. PortInv'
    BY PortStep DEF LinkInv
  <2>3. BufferInv'
    BY BufferStep DEF LinkInv
  <2>4. FrameInv'
    BY <2>1, <2>3, FrameStep
  <2> QED
    BY <2>1, <2>2, <2>3, <2>4 DEF LinkInv
<1> QED
  BY <1>1, <1>2, PTL DEF Spec

\* The parser finds the messages that the modem sent, in their order, and all of
\* them once everything has been read (CommunicationDevice.cs:130-176).
THEOREM EveryMessageFound == Spec => []MessagesFound
<1>1. LinkInv => MessagesFound
  <2> SUFFICES ASSUME LinkInv, InStep
               PROVE  /\ IsPrefix(handed, sent)
                      /\ line = <<>> /\ (\A t \in Thread : ~Between(t)) =>
                           handed = sent /\ parser.state = "START"
    BY DEF MessagesFound
  <2>1. PICK V : /\ Stream(V, Ahead, Len(sent))
                 /\ Stage(parser, receivedAck, handed, V, 0, Len(Ahead))
    BY DEF LinkInv, FrameInv
  <2>2. Len(Ahead) \in Nat /\ sent \in Seq(Message) /\ Len(sent) \in Nat /\ 0 \in 0..Len(Ahead)
    BY AheadType DEF LinkInv
  <2> DEFINE m == Ended(V[0])
  <2>3. V[0] \in Place /\ V[0].frame.upto <= Len(sent)
    BY <2>1, <2>2 DEF Stream
  <2>4. m \in Nat /\ m <= Len(sent)
    <3>1. Genuine(V[0].frame, parser) \/ IsLast(V[0])
      BY <2>1, <2>2 DEF Stage
    <3>2. IsLast(V[0]) \/ ~Numbered(V[0]) \/ V[0].frame.upto # 0
      BY <3>1, ClassIsOwn DEF Genuine, Numbered
    <3>3. m \in Nat /\ m <= V[0].frame.upto
      BY <2>3, <3>2, EndedType
    <3> QED
      BY <2>2, <2>3, <3>3 DEF Place, ModemFrame
  <2>5. handed = SubSeq(sent, 1, m)
    BY <2>1 DEF Stage
  <2>6. IsPrefix(handed, sent)
    <3>1. Len(handed) = m
      BY <2>2, <2>4, <2>5
    <3>2. SubSeq(handed, 1, m) = handed
      BY <2>2, <2>4, <2>5
    <3> HIDE DEF m
    <3> QED
      BY <2>4, <2>5, <3>1, <3>2 DEF IsPrefix
  <2>7. ASSUME line = <<>>, \A t \in Thread : ~Between(t)
        PROVE  handed = sent /\ parser.state = "START"
    <3>1. \A t \in Thread : buffer[t] = <<>>
      BY <2>7 DEF LinkInv, BufferInv, Between
    <3>2. Ahead = <<>>
      BY <2>7, <3>1 DEF Ahead, Thread
    <3>3. IsLast(V[0]) /\ V[0].frame.upto = Len(sent)
      BY <2>1, <3>2 DEF Stream
    <3>4. m = Len(sent) /\ parser.state = "START"
      BY <2>1, <3>3 DEF Ended, Stage, ParserAt
    <3> QED
      BY <2>2, <2>5, <3>4
  <2> QED
    BY <2>6, <2>7
<1> QED
  BY <1>1, LinkCorrect, PTL

\* A call returns what the modem said of its command, and neither a call nor the
\* process ends with an exception (PowerLineModemMessage.cs:109-142).
THEOREM OwnResponseFound == Spec => []ResponseFound
<1>1. LinkInv => ResponseFound
  <2> SUFFICES ASSUME LinkInv, InStep
               PROVE  /\ result \notin {"Invalid", "Exception"} /\ ~crashed
                      /\ pc["sender"] = "answered" => parser.response = status
    BY DEF ResponseFound
  <2>1. result \notin {"Invalid", "Exception"} /\ ~crashed
    BY DEF LinkInv, FrameInv
  <2>2. Talk(parser, receivedAck)
    BY TalkFacts DEF LinkInv
  <2> QED
    BY <2>1, <2>2 DEF Talk
<1> QED
  BY <1>1, LinkCorrect, PTL
=============================================================================
