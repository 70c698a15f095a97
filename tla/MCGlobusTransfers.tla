------------------------- MODULE MCGlobusTransfers -------------------------
(***************************************************************************)
(* Instances of GlobusTransfers for TLC.  Transfer rows, tasks at Globus   *)
(* and runs of the scheduled task are interchangeable in a safety run.     *)
(***************************************************************************)
EXTENDS GlobusTransfers, TLC

Symmetry == Permutations(Transfers) \cup Permutations(GlobusTasks) \cup Permutations(Rakes)
==============================================================================
