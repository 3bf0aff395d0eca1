-------------------------------- MODULE Pl011 --------------------------------
(***************************************************************************)
(* The ARM PL011 serial driver (bal/device/uart/arm_pl011/arm_pl011.c) and *)
(* the device it polls.                                                    *)
(*                                                                         *)
(* The driver looks at the flag register before every byte, which the      *)
(* device changes at its own pace.  pl011_set_config turns the device off, *)
(* writes the registers of the line parameters one after the other, and    *)
(* turns it on again.                                                      *)
(*                                                                         *)
(* The device is external: FIFOs of depth bytes, where a byte that comes   *)
(* to a full one is dropped, and a shift register.  While the device is    *)
(* off, the byte in the shift register is completed and no other begins;   *)
(* the FIFOs keep what they hold.  With a divisor whose integer part is 0  *)
(* nothing moves at all.                                                   *)
(***************************************************************************)
EXTENDS Integers, Sequences

CONSTANTS
  depth,       \* bytes the FIFOs of the device hold
  brg_clock,   \* the clock of the baud rate generator, in Hz
  Word,        \* 2^32, or a number above every product of the instance
  Sizes,       \* the lengths passed to pl011_read and pl011_write
  Configs,     \* the settings passed to pl011_set_config
  MaxOut,      \* bound on the bytes written
  MaxIn        \* bound on the bytes that come in

ASSUME DepthAssumption == depth \in Nat \ {0}
ASSUME ClockAssumption == brg_clock \in Nat /\ Word \in Nat \ {0}
ASSUME InputsAssumption ==
  /\ Sizes \subseteq Nat /\ MaxOut \in Nat /\ MaxIn \in Nat
  /\ \A c \in Configs : c.baud \in Nat \ {0} /\ c.bits \in Nat /\ c.stop_bits \in Nat

VARIABLES
  pc,          \* where the driver is
  left,        \* bytes of the current call not yet moved
  conf,        \* the last argument of pl011_set_config, or Unset
  tx, shift,   \* the transmit FIFO and the shift register (0 or 1 byte)
  rx,          \* the receive FIFO
  on,          \* UARTEN
  setting,     \* the registers IBRD, FBRD and LCR_H
  written, arrived, \* bytes written and bytes that came in: the n-th is n
  line, got,   \* bytes that left and bytes read (history)
  disturbed    \* bytes under way when a register of the setting was
               \* written, in the last call of pl011_set_config (history)

driver == <<pc, left, conf, disturbed>>
device == <<tx, shift, rx, on, setting>>
count  == <<written, arrived, line, got>>
vars == <<driver, device, count>>

(***************************************************************************)
(* pl011_set_config's arguments: what it computes and what it refuses.     *)
(***************************************************************************)
Brg(baud) == (brg_clock \div ((baud * 16 * 128) % Word) + 1) \div 2

Valid(c) == c.bits \in 5 .. 8 /\ c.stop_bits \in 1 .. 2

Frame(c) == <<c.bits, c.stop_bits>>
Unset   == [baud |-> 0, bits |-> 0, stop_bits |-> 0]
Default == [baud |-> 115200, bits |-> 8, stop_bits |-> 1]

(* The registers after a reset, and as firmware leaves them that uses the  *)
(* device: at 24 MHz, 115200 baud.  A byte of the firmware's is Old.       *)
Reset    == [ibrd |-> 0, fbrd |-> 0, frame |-> <<5, 1>>]
Firmware == [ibrd |-> 13, fbrd |-> 1, frame |-> <<8, 1>>]
Old == 0

Init ==
  /\ pc = "init" /\ left = 0 /\ conf = Unset /\ disturbed = {}
  /\ \/ on = FALSE /\ setting = Reset /\ tx = <<>> /\ shift = <<>> /\ rx = <<>>
     \/ /\ on = TRUE /\ setting = Firmware
        /\ tx \in {<<>>, <<Old>>} /\ shift \in {<<>>, <<Old>>} /\ rx \in {<<>>, <<Old>>}
  /\ written = 0 /\ arrived = 0 /\ line = <<>> /\ got = <<>>

(* arm_pl011_init: a device that is on is left as the firmware set it up.  *)
Initialize ==
  /\ pc = "init"
  /\ \/ on /\ pc' = "idle" /\ UNCHANGED conf
     \/ ~on /\ pc' = "disable" /\ conf' = Default
  /\ UNCHANGED <<left, disturbed, device, count>>

Call(op, n) ==
  /\ pc = "idle" /\ written + n <= MaxOut /\ pc' = op /\ left' = n
  /\ UNCHANGED <<conf, disturbed, device, count>>

(* pl011_set_config: EINVAL, or the device is turned off, ...              *)
Refuse(c) ==
  /\ pc = "idle" /\ ~Valid(c)
  /\ UNCHANGED vars

Configure(c) ==
  /\ pc = "idle" /\ Valid(c) /\ pc' = "disable" /\ conf' = c /\ disturbed' = {}
  /\ UNCHANGED <<left, device, count>>

(* Mutant of Disable: the device stays on.                                 *)
DisableSkipped ==
  /\ pc = "disable" /\ pc' = "ibrd"
  /\ UNCHANGED <<left, conf, disturbed, device, count>>

Disable ==
  /\ pc = "disable" /\ pc' = "ibrd" /\ on' = FALSE
  /\ UNCHANGED <<left, conf, disturbed, tx, shift, rx, setting, count>>

(* ... IBRD, FBRD and LCR_H are written, under a byte that may still be in *)
(* the shift register: the driver does not look at BUSY, ...               *)
Register(at, then, value) ==
  /\ pc = at /\ pc' = then /\ setting' = value
  /\ disturbed' = disturbed \cup {shift[i] : i \in DOMAIN shift}
  /\ UNCHANGED <<left, conf, tx, shift, rx, on, count>>

SetDivisor ==
  \/ Register("ibrd", "fbrd", [setting EXCEPT !.ibrd = (Brg(conf.baud) \div 64) % 65536])
  \/ Register("fbrd", "lcrh", [setting EXCEPT !.fbrd = Brg(conf.baud) % 64])

SetFrame == Register("lcrh", "enable", [setting EXCEPT !.frame = Frame(conf)])

(* Mutant of Enable: the device stays off.                                 *)
EnableSkipped ==
  /\ pc = "enable" /\ pc' = "idle"
  /\ UNCHANGED <<left, conf, disturbed, device, count>>

(* ... and it is turned on again.                                          *)
Enable ==
  /\ pc = "enable" /\ pc' = "idle" /\ on' = TRUE
  /\ UNCHANGED <<left, conf, disturbed, tx, shift, rx, setting, count>>

(* pl011_write: wait for TXFF to clear, then write until it is set.        *)
Full == Len(tx) = depth

WaitSpace ==
  /\ pc = "space" /\ ~Full /\ pc' = "fill"
  /\ UNCHANGED <<left, conf, disturbed, device, count>>

(* Mutant of Fill: TXFF is only looked at once.                            *)
FillBlind ==
  /\ pc = "fill" /\ left > 0
  /\ written' = written + 1 /\ left' = left - 1
  /\ tx' = IF Full THEN tx ELSE Append(tx, written')
  /\ UNCHANGED <<pc, conf, disturbed, shift, rx, on, setting, arrived, line, got>>

Fill ==
  /\ pc = "fill" /\ left > 0 /\ ~Full
  /\ written' = written + 1 /\ left' = left - 1
  /\ tx' = Append(tx, written')
  /\ UNCHANGED <<pc, conf, disturbed, shift, rx, on, setting, arrived, line, got>>

Written ==
  /\ pc = "fill" /\ (left = 0 \/ Full) /\ pc' = "idle" /\ left' = 0
  /\ UNCHANGED <<conf, disturbed, device, count>>

(* pl011_read: likewise with RXFE.                                         *)
WaitData ==
  /\ pc = "data" /\ rx # <<>> /\ pc' = "drain"
  /\ UNCHANGED <<left, conf, disturbed, device, count>>

Drain ==
  /\ pc = "drain" /\ left > 0 /\ rx # <<>>
  /\ got' = Append(got, Head(rx)) /\ rx' = Tail(rx) /\ left' = left - 1
  /\ UNCHANGED <<pc, conf, disturbed, tx, shift, on, setting, written, arrived, line>>

Read ==
  /\ pc = "drain" /\ (left = 0 \/ rx = <<>>) /\ pc' = "idle" /\ left' = 0
  /\ UNCHANGED <<conf, disturbed, device, count>>

Driver == \/ Initialize \/ Disable \/ SetDivisor \/ SetFrame \/ Enable
          \/ WaitSpace \/ Fill \/ Written \/ WaitData \/ Drain \/ Read

-----------------------------------------------------------------------------
(* The device.                                                             *)
Clocked == setting.ibrd # 0

Shift ==
  /\ on /\ Clocked /\ tx # <<>> /\ shift = <<>>
  /\ shift' = <<Head(tx)>> /\ tx' = Tail(tx)
  /\ UNCHANGED <<driver, rx, on, setting, count>>

Emit ==
  /\ Clocked /\ shift # <<>>
  /\ line' = Append(line, Head(shift)) /\ shift' = <<>>
  /\ UNCHANGED <<driver, tx, rx, on, setting, written, arrived, got>>

Arrive ==
  /\ on /\ Clocked /\ arrived < MaxIn /\ arrived' = arrived + 1
  /\ rx' = IF Len(rx) < depth THEN Append(rx, arrived') ELSE rx
  /\ UNCHANGED <<driver, tx, shift, on, setting, written, line, got>>

Next ==
  \/ Driver \/ Shift \/ Emit \/ Arrive
  \/ \E n \in Sizes : Call("space", n) \/ Call("data", n)
  \/ \E c \in Configs : Configure(c) \/ Refuse(c)

Spec == Init /\ [][Next]_vars

(* The driver polls on, and the device sends while it is on and clocked.   *)
FairSpec == Spec /\ WF_vars(Driver) /\ WF_vars(Shift) /\ WF_vars(Emit)

-----------------------------------------------------------------------------
(* The driver and the device are a serial port: every byte pl011_write     *)
(* counts as written leaves once and in order, after those the firmware    *)
(* left, across any number of calls of pl011_set_config.                   *)
SP == INSTANCE SerialPort WITH accepted <- shift \o tx, pending <- rx
ImplementsSerialPort == SP!Spec

(* However many bytes pl011_write has put in the FIFO, a call of           *)
(* pl011_set_config writes the registers of the line parameters under one  *)
(* of them at most: the byte that was in the shift register when the       *)
(* device was turned off.  (That one is not spared: nobody waits for it.)  *)
DisturbsOneByte == \A a, b \in disturbed : a = b

(* A call of pl011_write returns if the divisor is one the device can work *)
(* with.  (See DivisorRounded for the others.)                             *)
WriteReturns == (pc \in {"space", "fill"} /\ Clocked) ~> pc = "idle"

(* arm_pl011.c: "BRG is 16.6 fixed point register. Calculate and correctly *)
(* round that": when pl011_set_config has returned, IBRD and FBRD hold the *)
(* 64th part of a number that is nearest to brg_clock / (16 * baud).       *)
Programming == {"disable", "ibrd", "fbrd", "lcrh", "enable"}

DivisorRounded ==
  conf # Unset /\ pc \notin Programming =>
    LET off == (64 * setting.ibrd + setting.fbrd) * conf.baud - 4 * brg_clock
    IN -conf.baud <= 2 * off /\ 2 * off <= conf.baud

=============================================================================
