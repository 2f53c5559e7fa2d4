------------------------------ MODULE MCClient ------------------------------
(* Instances of ClientParts for TLC: the constants are given by the cfg     *)
(* files.                                                                   *)
EXTENDS ClientParts
=============================================================================
