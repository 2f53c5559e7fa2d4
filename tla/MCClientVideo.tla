--------------------------- MODULE MCClientVideo ---------------------------
(* Instances of ClientVideo for TLC: the constants are given by the cfg files. *)
EXTENDS ClientVideo
=============================================================================
