------------------------- MODULE MCMasterConnection -------------------------
(***************************************************************************)
(* Small connections for TLC.                                              *)
(***************************************************************************)
EXTENDS MasterConnection, TLC

(* Time stamps are only compared with each other.                          *)
TimeSymmetry == Permutations(Times)
=============================================================================
