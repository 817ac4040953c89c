---------------------------- MODULE MCOrderQueue ----------------------------
(* Instances of OrderQueue for TLC: analyst exits x1, x2, x3 and entries b1, *)
(* b2, b3.                                                                   *)
EXTENDS OrderQueue

CONSTANTS x1, x2, x3, b1, b2, b3
=============================================================================
