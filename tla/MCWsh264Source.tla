--------------------------- MODULE MCWsh264Source ---------------------------
(* Instances of Wsh264Source for TLC: the constants are given by the cfg files. *)
EXTENDS Wsh264Source
=============================================================================
