------------------------------ MODULE BootFile ------------------------------
(***************************************************************************)
(* What stage 1 promises, whatever it boots from: it gives up, or it       *)
(* enters the boot abstraction layer with the whole of its file in memory, *)
(* the 64-bit one if the processor can run it and the medium has it, else  *)
(* the 32-bit one.                                                         *)
(***************************************************************************)
EXTENDS Integers, Sequences

CONSTANTS NoFile   \* the medium does not offer the file

VARIABLES
  offers,   \* the contents of the files gd_bal.64 and gd_bal.32
  cpu64,    \* the processor has long mode
  outcome,  \* "loading", "aborted" or "entered"
  image     \* what is in memory when the file is entered

vars == <<offers, cpu64, outcome, image>>

NoImage == <<>>

Init == outcome = "loading" /\ image = NoImage

Best == IF cpu64 /\ offers[64] # NoFile THEN 64 ELSE 32

Abort ==
  /\ outcome = "loading" /\ outcome' = "aborted"
  /\ UNCHANGED <<offers, cpu64, image>>

Enter ==
  /\ outcome = "loading" /\ outcome' = "entered"
  /\ offers[Best] # NoFile /\ image' = offers[Best]
  /\ UNCHANGED <<offers, cpu64>>

Next == Abort \/ Enter

Spec == Init /\ [][Next]_vars

=============================================================================
