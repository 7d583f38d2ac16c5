-------------------------- MODULE MCMessageParser --------------------------
(***************************************************************************)
(* Instances of MessageParser: a standard and an extended packet to send,   *)
(* a command without payload, and messages, with bytes equal to 0x02 and to *)
(* types of messages among their contents.                                  *)
(***************************************************************************)
EXTENDS MessageParser, FiniteSets

Contents(n, bytes) == bytes \o [i \in 1..(n - Len(bytes)) |-> 0]

Standard == [type |-> SendInsteonMessage, payload |-> Contents(6, <<2, 80, 2>>)]
Extended == [type |-> SendInsteonMessage, payload |-> Contents(20, <<1, 2, 98>>)]
FirstLink == [type |-> 105, payload |-> <<>>]

MCCommand == {Standard, Extended, FirstLink}
\* The modem's own messages: one of each type with a class, one of one byte
\* without a class (ButtonEventReported), and two whose size the code has wrong,
\* AllLinkingCompleted and UserResetDetected.
Received == [type |-> StandardMessageReceived, body |-> Contents(9, <<2, 80, 2, 98>>)]
Record   == [type |-> AllLinkRecordResponse, body |-> Contents(8, <<2, 87>>)]
MCMessage ==
  {Received, Record,
   [type |-> ExtendedMessageReceived, body |-> Contents(23, <<2, 98>>)],
   [type |-> 84, body |-> <<2>>],
   [type |-> 83, body |-> Contents(8, <<1, 2, 80>>)],
   [type |-> 85, body |-> <<>>]}

\* Bounds: one kind of disturbance; three messages in all if there is none and
\* the modem's own are Received and Record, else two; and never more bytes to be
\* read than the longest message has or, after an overlap, the shorter ones.
Disturbances == {x \in {<<"late", late>>, <<"overlap", overlap>>, <<"unsized", unsized>>} : x[2]}
OneDisturbance == Cardinality(Disturbances) <= 1
LittleTraffic ==
  /\ written + events <=
       IF Disturbances = {} /\ sent \in [1..events -> {Received, Record}] THEN 3 ELSE 2
  /\ Len(line) <= IF overlap THEN 11 ELSE 25
=============================================================================
