---------------------------- MODULE MCCS104Slave ----------------------------
(***************************************************************************)
(* Small servers for TLC.                                                  *)
(***************************************************************************)
EXTENDS CS104Slave

CONSTANTS c1, c2

(* Every connection is a redundancy group of its own.                      *)
TwoGroups == [c \in {c1, c2} |-> IF c = c1 THEN 1 ELSE 2]
=============================================================================
