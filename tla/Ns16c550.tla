------------------------------ MODULE Ns16c550 ------------------------------
(***************************************************************************)
(* The NS16C550 serial driver (bal/device/uart/ns16c550/ns16c550.c) and    *)
(* the chip it polls.                                                      *)
(*                                                                         *)
(* The driver cannot see how full the transmit FIFO is, only whether it    *)
(* and the shift register have run empty.  fifo_space is what it knows to  *)
(* be free; the chip sends at its own pace all the while.                  *)
(*                                                                         *)
(* The chip is external: its FIFOs hold depth bytes, and a byte that comes *)
(* to a full FIFO, from either side, is dropped.                           *)
(***************************************************************************)
EXTENDS Integers, Sequences

CONSTANTS
  fifo_size,   \* what the platform says the depth of the FIFOs is
  depth,       \* what it is
  Sizes,       \* the lengths passed to read and write
  MaxOut,      \* bound on the bytes written
  MaxIn        \* bound on the bytes that come in

ASSUME FifoAssumption ==
  fifo_size \in Nat \ {0} /\ depth \in Nat /\ fifo_size <= depth
ASSUME SizesAssumption ==
  Sizes \subseteq Nat /\ MaxOut \in Nat /\ MaxIn \in Nat

VARIABLES
  pc,          \* where the driver is
  left,        \* bytes of the current call not yet moved
  fifo_space,  \* what the driver knows to be free
  tx, shift,   \* the transmit FIFO and the shift register (0 or 1 byte)
  rx,          \* the receive FIFO
  written, arrived, \* bytes written and bytes that came in: the n-th is n
  line, got    \* our bytes that left and bytes read (history)

driver == <<pc, left, fifo_space>>
vars == <<pc, left, fifo_space, tx, shift, rx, written, arrived, line, got>>

(* The bytes of this driver are numbered; Old is one left by the firmware. *)
Old == 0
Ours(s) == IF s = <<Old>> THEN <<>> ELSE s

Init ==
  /\ pc = "init" /\ left = 0 /\ fifo_space = 0
  /\ tx \in {<<>>, <<Old>>} /\ shift \in {<<>>, <<Old>>} /\ rx \in {<<>>, <<Old>>}
  /\ written = 0 /\ arrived = 0 /\ line = <<>> /\ got = <<>>

(* Mutant of Initialize: the receive FIFO is not cleared.                  *)
InitializeTxOnly ==
  /\ pc = "init" /\ pc' = "idle" /\ tx' = <<>>
  /\ UNCHANGED <<left, fifo_space, shift, rx, written, arrived, line, got>>

(* ns16c550_init: both FIFOs are cleared, the shift register is not.       *)
Initialize ==
  /\ pc = "init" /\ pc' = "idle"
  /\ tx' = <<>> /\ rx' = <<>>
  /\ UNCHANGED <<left, fifo_space, shift, written, arrived, line, got>>

Call(op, n) ==
  /\ pc = "idle" /\ written + n <= MaxOut /\ pc' = op /\ left' = n
  /\ UNCHANGED <<fifo_space, tx, shift, rx, written, arrived, line, got>>

(* LSR_TX_SR_EMPTY.                                                        *)
Drained == tx = <<>> /\ shift = <<>>

(* Mutants of Poll: the FIFO is taken to be empty without a look at it;    *)
(* the space is not reset when the chip has run empty.                     *)
PollBlind ==
  /\ pc = "poll" /\ fifo_space' = fifo_size /\ pc' = "fill"
  /\ UNCHANGED <<left, tx, shift, rx, written, arrived, line, got>>

PollForgets ==
  /\ pc = "poll" /\ pc' = IF fifo_space = 0 THEN "poll" ELSE "fill"
  /\ UNCHANGED <<left, fifo_space, tx, shift, rx, written, arrived, line, got>>

(* One round of write's first loop.                                        *)
Poll ==
  /\ pc = "poll"
  /\ fifo_space' = IF Drained THEN fifo_size ELSE fifo_space
  /\ pc' = IF fifo_space' = 0 THEN "poll" ELSE "fill"
  /\ UNCHANGED <<left, tx, shift, rx, written, arrived, line, got>>

(* One round of its second loop.                                           *)
Fill ==
  /\ pc = "fill" /\ left > 0 /\ fifo_space > 0
  /\ written' = written + 1
  /\ tx' = IF Len(tx) < depth THEN Append(tx, written') ELSE tx
  /\ fifo_space' = fifo_space - 1 /\ left' = left - 1
  /\ UNCHANGED <<pc, shift, rx, arrived, line, got>>

Written ==
  /\ pc = "fill" /\ (left = 0 \/ fifo_space = 0)
  /\ pc' = "idle" /\ left' = 0
  /\ UNCHANGED <<fifo_space, tx, shift, rx, written, arrived, line, got>>

(* read: LSR's bit for received data ends the first loop, and the second.  *)
Wait ==
  /\ pc = "wait" /\ rx # <<>> /\ pc' = "drain"
  /\ UNCHANGED <<left, fifo_space, tx, shift, rx, written, arrived, line, got>>

Drain ==
  /\ pc = "drain" /\ left > 0 /\ rx # <<>>
  /\ got' = Append(got, Head(rx)) /\ rx' = Tail(rx) /\ left' = left - 1
  /\ UNCHANGED <<pc, fifo_space, tx, shift, written, arrived, line>>

Read ==
  /\ pc = "drain" /\ (left = 0 \/ rx = <<>>)
  /\ pc' = "idle" /\ left' = 0
  /\ UNCHANGED <<fifo_space, tx, shift, rx, written, arrived, line, got>>

Driver == Initialize \/ Poll \/ Fill \/ Written \/ Wait \/ Drain \/ Read

-----------------------------------------------------------------------------
(* The chip.                                                               *)
Shift ==
  /\ tx # <<>> /\ shift = <<>>
  /\ shift' = <<Head(tx)>> /\ tx' = Tail(tx)
  /\ UNCHANGED driver /\ UNCHANGED <<rx, written, arrived, line, got>>

Emit ==
  /\ shift # <<>>
  /\ line' = line \o Ours(shift) /\ shift' = <<>>
  /\ UNCHANGED driver /\ UNCHANGED <<tx, rx, written, arrived, got>>

Arrive ==
  /\ arrived < MaxIn /\ arrived' = arrived + 1
  /\ rx' = IF Len(rx) < depth THEN Append(rx, arrived') ELSE rx
  /\ UNCHANGED driver /\ UNCHANGED <<tx, shift, written, line, got>>

Chip == Shift \/ Emit \/ Arrive

Next == Driver \/ Chip \/ \E n \in Sizes : Call("poll", n) \/ Call("wait", n)

Spec == Init /\ [][Next]_vars

(* The driver polls on and the chip keeps sending.                         *)
FairSpec == Spec /\ WF_vars(Driver) /\ WF_vars(Shift) /\ WF_vars(Emit)

-----------------------------------------------------------------------------
(* Types.                                                                  *)
TypeOK ==
  /\ pc \in {"init", "idle", "poll", "fill", "wait", "drain"}
  /\ left \in Nat /\ fifo_space \in 0 .. fifo_size
  /\ tx \in Seq(Nat) /\ shift \in Seq(Nat) /\ rx \in Seq(Nat)
  /\ written \in Nat /\ arrived \in Nat

(* What the driver takes to be free in the transmit FIFO is free, however  *)
(* far the chip has got when the driver looks, and whatever an earlier     *)
(* call left in it: no byte is ever written to a full FIFO.                *)
SpaceIsFree == pc # "init" => Len(tx) + fifo_space <= fifo_size

(* The driver and the chip are a serial port: every byte write accepted    *)
(* leaves once and in order.  Bytes of the firmware do not count: after    *)
(* ns16c550_init, one may still be in the shift register.                  *)
SP == INSTANCE SerialPort WITH
        accepted <- IF pc = "init" THEN <<>> ELSE Ours(shift) \o tx,
        pending <- IF pc = "init" THEN <<>> ELSE rx
ImplementsSerialPort == SP!Spec

(* write returns: the chip runs empty, and then there is space.            *)
WriteReturns == pc \in {"poll", "fill"} ~> pc = "idle"

=============================================================================
