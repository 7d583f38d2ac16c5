--------------------------- MODULE MCOnOffDevice ---------------------------
(***************************************************************************)
(* Instances of OnOffDevice: threads are interchangeable.                  *)
(***************************************************************************)
EXTENDS OnOffDevice, TLC

Symmetry == Permutations(Thread)
=============================================================================
