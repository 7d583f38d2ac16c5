--------------------------- MODULE MCFluffInsteon ---------------------------
(***************************************************************************)
(* Instances of FluffInsteon: the modem's database as a definition, since a *)
(* configuration file cannot write a sequence.                             *)
(***************************************************************************)
EXTENDS FluffInsteon, TLC

CONSTANTS d1, d2

TwoLinks == <<d1, d2>>
OneLink  == <<d1>>

Symmetry == Permutations(Worker)
=============================================================================
