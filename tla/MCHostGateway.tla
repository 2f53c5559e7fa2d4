--------------------------- MODULE MCHostGateway ---------------------------
(* Instances of HostGateway for TLC: the constants are given by the cfg files. *)
EXTENDS HostGateway
=============================================================================
