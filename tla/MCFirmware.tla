----------------------------- MODULE MCFirmware -----------------------------
(* Instances of FirmwareParts for TLC: the constants are given by the cfg   *)
(* files.                                                                   *)
EXTENDS FirmwareParts
=============================================================================
