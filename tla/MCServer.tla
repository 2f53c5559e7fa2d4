------------------------------ MODULE MCServer ------------------------------
(* Instances of ServerParts for TLC: the constants are given by the cfg     *)
(* files; the texts of the decoder are made of the ends of all ranges of    *)
(* its table.                                                               *)
EXTENDS ServerParts
=============================================================================
