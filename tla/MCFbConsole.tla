---------------------------- MODULE MCFbConsole ----------------------------
(* Instances of FbConsole for TLC.                                         *)
EXTENDS FbConsole
=============================================================================
