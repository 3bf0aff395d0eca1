---------------------------- MODULE MCNs16c550 ----------------------------
(* Instances of Ns16c550 for TLC.                                          *)
EXTENDS Ns16c550
=============================================================================
