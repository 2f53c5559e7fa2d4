-------------------------- MODULE MCClientStartup --------------------------
(* Instances of ClientStartup for TLC: the constants are given by the cfg   *)
(* files.                                                                   *)
EXTENDS ClientStartup

ASSUME CancelsAtOnce
=============================================================================
