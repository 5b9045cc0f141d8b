---------------------------- MODULE MCNbdDaemon ----------------------------
(* Instances of NbdDaemon for TLC.                                           *)
EXTENDS NbdDaemon, TLC
=============================================================================
