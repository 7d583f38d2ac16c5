--------------------------- MODULE CommandChannel ---------------------------
(***************************************************************************)
(* What CommunicationDevice promises its only client, FluffInsteon:        *)
(* commands are exchanged one at a time, each ends in one outcome, the     *)
(* outcomes Ack, Nack and Invalid each use up an answer of the modem, and  *)
(* every message of the modem's own is handed over at most once.           *)
(*                                                                         *)
(* It does not promise that the answer used up is the answer to the very   *)
(* command: a late answer ends a later exchange.                           *)
(***************************************************************************)
EXTENDS Integers, Sequences

CONSTANTS
  Caller,    \* threads that exchange commands
  NoCaller,  \* no exchange is in progress
  Item       \* the messages the modem can send of its own accord

VARIABLES
  holder,   \* the caller whose exchange is in progress
  outcome,  \* how each caller's last exchange ended; "none" before that
  credit,   \* answers of the modem not yet used
  seen,     \* the responses the modem has given so far
  handed    \* the modem's own messages, as handed over

vars == <<holder, outcome, credit, seen, handed>>

Init ==
  /\ holder = NoCaller
  /\ outcome = [c \in Caller |-> "none"]
  /\ credit = 0
  /\ seen = {}
  /\ handed = <<>>

\* SendCommand is entered.
Ask(c) ==
  /\ holder # c
  /\ outcome' = [outcome EXCEPT ![c] = "none"]
  /\ UNCHANGED <<holder, credit, seen, handed>>

\* The exchange of a caller begins when no other is in progress.
Begin(c) ==
  /\ holder = NoCaller
  /\ outcome[c] = "none"
  /\ holder' = c
  /\ UNCHANGED <<outcome, credit, seen, handed>>

\* The modem answers some command.
Answered(response) ==
  /\ credit' = credit + 1
  /\ seen' = seen \union {response}
  /\ UNCHANGED <<holder, outcome, handed>>

\* The exchange ends with an answer of the modem, or with one whose payload does
\* not match or which arrived only in part.
EndAnswered(c, response) ==
  /\ holder = c
  /\ credit > 0
  /\ response \in seen \union {"Invalid", "Unknown"}
  /\ credit' = credit - 1
  /\ outcome' = [outcome EXCEPT ![c] = response]
  /\ holder' = NoCaller
  /\ UNCHANGED <<seen, handed>>

\* The exchange ends without an answer, by a timeout or an exception.
EndUnanswered(c, response) ==
  /\ holder = c
  /\ response \in {"Unknown", "Exception"}
  /\ outcome' = [outcome EXCEPT ![c] = response]
  /\ holder' = NoCaller
  /\ UNCHANGED <<credit, seen, handed>>

\* A message of the modem's own reaches the handler.
Hand(m) ==
  /\ \A i \in DOMAIN handed : handed[i] # m
  /\ handed' = Append(handed, m)
  /\ UNCHANGED <<holder, outcome, credit, seen>>

Next ==
  \/ \E c \in Caller : Ask(c) \/ Begin(c)
  \/ \E response \in {"Ack", "Nack", "Unknown"} : Answered(response)
  \/ \E c \in Caller, response \in {"Ack", "Nack", "Unknown", "Invalid"} :
       EndAnswered(c, response)
  \/ \E c \in Caller, response \in {"Unknown", "Exception"} : EndUnanswered(c, response)
  \/ \E m \in Item : Hand(m)

Spec == Init /\ [][Next]_vars
=============================================================================
