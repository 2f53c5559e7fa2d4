---------------------------- MODULE MCAmebaUsb ----------------------------
(* Instances of AmebaUsb for TLC: the constants are given by the cfg files. *)
EXTENDS AmebaUsb
=============================================================================
