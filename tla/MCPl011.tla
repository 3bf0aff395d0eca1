------------------------------ MODULE MCPl011 ------------------------------
(* Instances of Pl011 for TLC.                                             *)
EXTENDS Pl011

(* Two settings that are accepted and two that are refused.  At 24 MHz the *)
(* code's divisor for 50 baud is one the device works with, too fast as it *)
(* is, and that for 115200 baud is 0.                                      *)
SomeConfigs ==
  {[baud |-> 115200, bits |-> 8, stop_bits |-> 1],
   [baud |-> 50, bits |-> 5, stop_bits |-> 2],
   [baud |-> 9600, bits |-> 9, stop_bits |-> 1],
   [baud |-> 9600, bits |-> 8, stop_bits |-> 3]}
=============================================================================
