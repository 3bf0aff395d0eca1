----------------------------- MODULE SerialPort -----------------------------
(***************************************************************************)
(* What a serial port promises: the bytes a driver accepted leave on the   *)
(* line in the order they were written, none lost and none twice; the      *)
(* bytes that came in are handed out in the order they came.  Bytes that   *)
(* come in while nobody reads may be dropped.  Bytes of before, with the   *)
(* number 0, may still be on their way.                                    *)
(***************************************************************************)
EXTENDS Integers, Sequences

VARIABLES
  written,  \* how many bytes the driver accepted: the n-th is n
  arrived,  \* how many bytes came in: the n-th is n
  accepted, \* bytes accepted that have not left yet
  line,     \* bytes that left
  pending,  \* bytes that came in and were not read yet
  got       \* bytes read

vars == <<written, arrived, accepted, line, pending, got>>

Init ==
  /\ written = 0 /\ arrived = 0 /\ line = <<>> /\ got = <<>>
  /\ accepted \in Seq({0}) /\ pending \in Seq({0})

Accept ==
  /\ written' = written + 1 /\ accepted' = Append(accepted, written')
  /\ UNCHANGED <<arrived, line, pending, got>>

Send ==
  /\ accepted # <<>>
  /\ line' = Append(line, Head(accepted)) /\ accepted' = Tail(accepted)
  /\ UNCHANGED <<written, arrived, pending, got>>

Arrive ==
  /\ arrived' = arrived + 1
  /\ pending' = Append(pending, arrived') \/ pending' = pending
  /\ UNCHANGED <<written, accepted, line, got>>

Take ==
  /\ pending # <<>>
  /\ got' = Append(got, Head(pending)) /\ pending' = Tail(pending)
  /\ UNCHANGED <<written, arrived, accepted, line>>

Next == Accept \/ Send \/ Arrive \/ Take

Spec == Init /\ [][Next]_vars

=============================================================================
