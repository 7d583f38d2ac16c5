----------------------- MODULE MCCommunicationDevice -----------------------
(***************************************************************************)
(* CommunicationDevice on small instances for TLC.                         *)
(***************************************************************************)
EXTENDS CommunicationDevice, TLC

Symmetry == Permutations(Sender)

\* State constraint: late answers and overlapping reads each meet everything else,
\* and one another with one message of the modem's own.
LittleTraffic == late /\ overlap => emitted <= 1
=============================================================================
