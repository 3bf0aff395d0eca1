---------------------------- MODULE Pl011Proofs ----------------------------
(***************************************************************************)
(* The PL011 driver and its device implement SerialPort, and a change of   *)
(* the line parameters disturbs one byte at most, for FIFOs of any depth,  *)
(* any lengths and any settings.                                           *)
(***************************************************************************)
EXTENDS Pl011, SequenceTheorems, TLAPS

(***************************************************************************)
(* The inductive invariant: what the FIFOs hold are numbers, the shift     *)
(* register holds one at most; between the two writes of UARTCR the device *)
(* is off, and while it is, the byte disturbed is the one still in the     *)
(* shift register, if there is one there.                                  *)
(***************************************************************************)
Bytes ==
  /\ tx \in Seq(Nat) /\ rx \in Seq(Nat) /\ line \in Seq(Nat) /\ got \in Seq(Nat)
  /\ shift = <<>> \/ \E b \in Nat : shift = <<b>>
  /\ written \in Nat /\ arrived \in Nat

OffWhileProgramming == pc \in {"ibrd", "fbrd", "lcrh", "enable"} => ~on

OnlyTheOneUnderWay ==
  /\ pc \in Programming /\ shift # <<>> => disturbed \subseteq {shift[1]}
  /\ pc = "disable" => disturbed = {}
  /\ pc = "init" => disturbed = {}

IInv == Bytes /\ OffWhileProgramming /\ OnlyTheOneUnderWay /\ DisturbsOneByte

LEMMA HeadAndTail ==
  ASSUME NEW s \in Seq(Nat), s # <<>>
  PROVE  /\ <<Head(s)>> \o Tail(s) = s /\ Head(s) = s[1] /\ 1 \in 1 .. Len(s)
         /\ \A i \in 1 .. Len(Tail(s)) : Tail(s)[i] = s[i + 1] /\ i + 1 \in 1 .. Len(s)
<1>1. /\ Len(s) \in Nat \ {0} /\ Tail(s) \in Seq(Nat) /\ Len(Tail(s)) = Len(s) - 1 /\ Head(s) = s[1]
      /\ \A i \in 1 .. Len(s) - 1 : Tail(s)[i] = s[i + 1]
  BY EmptySeq
<1> DEFINE h == <<Head(s)>>  t == Tail(s)  u == h \o t
<1>2. h \in Seq(Nat) /\ Len(h) = 1 /\ h[1] = s[1]
  BY <1>1
<1>3. t \in Seq(Nat) /\ Len(t) = Len(s) - 1 /\ \A i \in 1 .. Len(s) - 1 : t[i] = s[i + 1]
  BY <1>1
<1> HIDE DEF h, t
<1>4. /\ u \in Seq(Nat) /\ Len(u) = Len(s)
      /\ \A i \in 1 .. Len(s) : u[i] = IF i <= 1 THEN h[i] ELSE t[i - 1]
  <2>1. /\ u \in Seq(Nat) /\ Len(u) = Len(h) + Len(t)
        /\ \A i \in 1 .. Len(h) + Len(t) : u[i] = IF i <= Len(h) THEN h[i] ELSE t[i - Len(h)]
    <3> SUFFICES /\ h \o t \in Seq(Nat) /\ Len(h \o t) = Len(h) + Len(t)
                 /\ \A i \in 1 .. Len(h) + Len(t) :
                      (h \o t)[i] = IF i <= Len(h) THEN h[i] ELSE t[i - Len(h)]
      OBVIOUS
    <3>1. h \in Seq(Nat) /\ t \in Seq(Nat)
      BY <1>2, <1>3
    <3>2. h \o t \in Seq(Nat) /\ Len(h \o t) = Len(h) + Len(t)
      BY <3>1, ConcatProperties
    <3>3. \A i \in 1 .. Len(h) + Len(t) :
            (h \o t)[i] = IF i <= Len(h) THEN h[i] ELSE t[i - Len(h)]
      BY <3>1, ConcatProperties
    <3> QED BY <3>2, <3>3
  <2> HIDE DEF u
  <2> QED BY <1>1, <1>2, <1>3, <2>1
<1> HIDE DEF u
<1>5. ASSUME NEW i \in 1 .. Len(s) PROVE u[i] = s[i]
  <2>1. CASE i = 1
    BY <1>2, <1>4, <2>1
  <2>2. CASE i # 1
    <3>1. i - 1 \in 1 .. Len(s) - 1 /\ (i - 1) + 1 = i /\ ~(i <= 1)
      BY <1>1, <2>2
    <3>2. u[i] = t[i - 1]
      BY <1>4, <3>1
    <3> QED BY <1>3, <3>1, <3>2
  <2> QED BY <2>1, <2>2
<1>6. u = s
  <2> HIDE DEF u
  <2> QED BY <1>4, <1>5, SeqEqual
<1> QED BY <1>1, <1>3, <1>6 DEF h, t, u

LEMMA AppendLater ==
  ASSUME NEW s \in Seq(Nat), NEW t \in Seq(Nat), NEW x \in Nat
  PROVE  s \o Append(t, x) = Append(s \o t, x)
  OBVIOUS

LEMMA EmptyFirst == ASSUME NEW s \in Seq(Nat) PROVE <<>> \o s = s /\ s \o <<>> = s
  OBVIOUS

LEMMA OneFirst ==
  ASSUME NEW s \in Seq(Nat), NEW b \in Nat
  PROVE  <<b>> \o s # <<>> /\ Head(<<b>> \o s) = b /\ Tail(<<b>> \o s) = s
<1> DEFINE u == <<b>> \o s
<1>1. u \in Seq(Nat) /\ Len(u) = Len(s) + 1 /\ u[1] = b /\ \A i \in 1 .. Len(s) : u[i + 1] = s[i]
  OBVIOUS
<1> HIDE DEF u
<1>2. u # <<>> /\ Head(u) = b /\ Tail(u) \in Seq(Nat) /\ Len(Tail(u)) = Len(s)
      /\ \A i \in 1 .. Len(s) : Tail(u)[i] = s[i]
  BY <1>1
<1>3. Tail(u) = s
  <2> DEFINE v == Tail(u)
  <2>1. v \in Seq(Nat) /\ Len(v) = Len(s) /\ \A i \in 1 .. Len(v) : v[i] = s[i]
    BY <1>2
  <2> HIDE DEF v
  <2> QED BY <2>1, SeqEqual DEF v
<1> QED BY <1>2, <1>3 DEF u

LEMMA OneByte ==
  \A b \in Nat : <<b>> # <<>> /\ <<b>>[1] = b /\ Head(<<b>>) = b /\ DOMAIN <<b>> = {1}
                 /\ <<b>> \in Seq(Nat)
  OBVIOUS

LEMMA IInit == Init => IInv
<1> SUFFICES ASSUME Init PROVE IInv
  OBVIOUS
<1>1. <<>> \in Seq(Nat) /\ Old \in Nat /\ <<Old>> \in Seq(Nat)
  BY OneByte DEF Old
<1>2. Bytes
  BY <1>1 DEF Init, Bytes
<1> QED BY <1>2 DEF Init, IInv, OffWhileProgramming, OnlyTheOneUnderWay, DisturbsOneByte

(* Writing a register of the line parameters.                              *)
LEMMA IRegister ==
  ASSUME IInv, NEW at \in {"ibrd", "fbrd", "lcrh"}, NEW then \in {"fbrd", "lcrh", "enable"}, NEW value,
         Register(at, then, value)
  PROVE  IInv'
<1>1. /\ pc = at /\ pc' = then /\ disturbed' = disturbed \cup {shift[i] : i \in DOMAIN shift}
      /\ UNCHANGED <<tx, shift, rx, on, written, arrived, line, got>>
  BY DEF Register, count
<1>2. Bytes' /\ OffWhileProgramming'
  BY <1>1 DEF IInv, Bytes, OffWhileProgramming
<1>3. CASE shift = <<>>
  <2>1. disturbed' = disturbed
    <3>1. {shift[i] : i \in DOMAIN shift} = {}
      BY <1>3
    <3> QED BY <1>1, <3>1
  <2> QED BY <1>1, <1>2, <1>3, <2>1 DEF IInv, OnlyTheOneUnderWay, DisturbsOneByte, Programming
<1>4. CASE shift # <<>>
  <2>1. PICK b \in Nat : shift = <<b>>
    BY <1>4 DEF IInv, Bytes
  <2>2. {shift[i] : i \in DOMAIN shift} = {b} /\ shift[1] = b
    BY <2>1, OneByte
  <2>3. disturbed \subseteq {b}
    BY <1>1, <1>4, <2>2 DEF IInv, OnlyTheOneUnderWay, Programming
  <2>4. disturbed' = {b} /\ shift'[1] = b
    BY <1>1, <2>2, <2>3
  <2> QED BY <1>1, <1>2, <2>4 DEF IInv, OnlyTheOneUnderWay, DisturbsOneByte
<1> QED BY <1>3, <1>4

LEMMA IShifts == ASSUME IInv, Shift PROVE IInv' /\ UNCHANGED SP!vars
<1>1. /\ tx # <<>> /\ shift = <<>> /\ shift' = <<Head(tx)>> /\ tx' = Tail(tx) /\ tx \in Seq(Nat) /\ on
      /\ UNCHANGED <<pc, disturbed, on, rx, written, arrived, line, got>>
  BY DEF Shift, driver, count, IInv, Bytes
<1>2. <<Head(tx)>> \o Tail(tx) = tx
  BY <1>1, HeadAndTail
<1>3. Head(tx) \in Nat /\ Tail(tx) \in Seq(Nat)
  BY <1>1, EmptySeq
<1>4. Bytes'
  BY <1>1, <1>3 DEF IInv, Bytes
<1>5. OnlyTheOneUnderWay'
  BY <1>1 DEF IInv, OffWhileProgramming, OnlyTheOneUnderWay, Programming
<1>6. UNCHANGED SP!vars
  BY <1>1, <1>2, EmptyFirst DEF SP!vars
<1> QED BY <1>1, <1>4, <1>5, <1>6 DEF IInv, OffWhileProgramming, DisturbsOneByte

LEMMA IEmits == ASSUME IInv, Emit PROVE IInv' /\ SP!Send
<1>1. /\ shift # <<>> /\ line' = Append(line, Head(shift)) /\ shift' = <<>> /\ tx \in Seq(Nat)
      /\ line \in Seq(Nat) /\ UNCHANGED <<pc, disturbed, on, tx, rx, written, arrived, got>>
  BY DEF Emit, driver, IInv, Bytes
<1>2. PICK b \in Nat : shift = <<b>>
  BY <1>1 DEF IInv, Bytes
<1>3. line' = Append(line, b) /\ line' \in Seq(Nat)
  BY <1>1, <1>2, OneByte
<1>4. shift \o tx # <<>> /\ Head(shift \o tx) = b /\ Tail(shift \o tx) = tx
  BY <1>1, <1>2, OneFirst
<1>5. shift' \o tx' = tx
  BY <1>1, EmptyFirst
<1>6. SP!Send
  BY <1>1, <1>3, <1>4, <1>5 DEF SP!Send
<1> QED BY <1>1, <1>3, <1>6 DEF IInv, Bytes, OffWhileProgramming, OnlyTheOneUnderWay, DisturbsOneByte

LEMMA IFills == ASSUME IInv, Fill PROVE IInv' /\ SP!Accept
<1>1. /\ pc = "fill" /\ written' = written + 1 /\ tx' = Append(tx, written') /\ tx \in Seq(Nat)
      /\ written \in Nat /\ UNCHANGED <<pc, disturbed, on, shift, rx, arrived, line, got>>
  BY DEF Fill, IInv, Bytes
<1>2. tx' = Append(tx, written + 1) /\ tx' \in Seq(Nat)
  BY <1>1
<1>3. shift \in Seq(Nat)
  <2>1. <<>> \in Seq(Nat)
    OBVIOUS
  <2> QED BY <2>1, OneByte DEF IInv, Bytes
<1>4. shift' \o tx' = Append(shift \o tx, written + 1)
  BY <1>1, <1>2, <1>3, AppendLater
<1> QED BY <1>1, <1>2, <1>4
        DEF IInv, Bytes, OffWhileProgramming, OnlyTheOneUnderWay, DisturbsOneByte, SP!Accept

LEMMA IReceives == ASSUME IInv, Arrive \/ Drain PROVE IInv' /\ (SP!Arrive \/ SP!Take)
<1>1. CASE Arrive
  <2>1. IInv'
    BY <1>1 DEF Arrive, driver, IInv, Bytes, OffWhileProgramming, OnlyTheOneUnderWay, DisturbsOneByte
  <2> QED BY <1>1, <2>1 DEF Arrive, SP!Arrive
<1>2. CASE Drain
  <2>1. Head(rx) \in Nat /\ Tail(rx) \in Seq(Nat)
    BY <1>2, EmptySeq DEF Drain, IInv, Bytes
  <2>2. IInv'
    BY <1>2, <2>1 DEF Drain, IInv, Bytes, OffWhileProgramming, OnlyTheOneUnderWay, DisturbsOneByte
  <2> QED BY <1>2, <2>2 DEF Drain, SP!Take
<1> QED BY <1>1, <1>2

(* Every step keeps the invariant and is a step of a serial port, or       *)
(* changes nothing that a serial port shows.                               *)
LEMMA IStep == ASSUME IInv, [Next]_vars PROVE IInv' /\ [SP!Next]_(SP!vars)
<1> USE DEF SP!vars, device, count, driver
<1>1. CASE UNCHANGED vars
  BY <1>1 DEF vars, IInv, Bytes, OffWhileProgramming, OnlyTheOneUnderWay, DisturbsOneByte
<1>2. CASE SetDivisor \/ SetFrame
  <2>1. PICK at \in {"ibrd", "fbrd", "lcrh"}, then \in {"fbrd", "lcrh", "enable"}, value \in {setting'} :
          Register(at, then, value)
    BY <1>2 DEF SetDivisor, SetFrame, Register
  <2> QED BY <2>1, IRegister DEF Register
<1>3. CASE Initialize \/ Disable \/ Enable
  BY <1>3 DEF Initialize, Disable, Enable, IInv, Bytes, OffWhileProgramming, OnlyTheOneUnderWay,
              DisturbsOneByte, Programming
<1>4. CASE WaitSpace \/ Written \/ WaitData \/ Read
  BY <1>4 DEF WaitSpace, Written, WaitData, Read, IInv, Bytes, OffWhileProgramming,
              OnlyTheOneUnderWay, DisturbsOneByte, Programming
<1>5. ASSUME NEW n \in Sizes, Call("space", n) \/ Call("data", n)
      PROVE  IInv' /\ [SP!Next]_(SP!vars)
  BY <1>5 DEF Call, IInv, Bytes, OffWhileProgramming, OnlyTheOneUnderWay, DisturbsOneByte, Programming
<1>6. ASSUME NEW c \in Configs, Configure(c) \/ Refuse(c)
      PROVE  IInv' /\ [SP!Next]_(SP!vars)
  BY <1>6 DEF Configure, Refuse, vars, IInv, Bytes, OffWhileProgramming, OnlyTheOneUnderWay,
              DisturbsOneByte, Programming
<1>7. CASE Shift \/ Emit \/ Fill \/ Arrive \/ Drain
  BY <1>7, IShifts, IEmits, IFills, IReceives DEF SP!Next
<1> QED BY <1>1, <1>2, <1>3, <1>4, <1>5, <1>6, <1>7 DEF Next, Driver

(* Every step of the driver or the device is a step of a serial port, or   *)
(* changes nothing that a serial port shows: pl011_write never writes to a *)
(* full FIFO, and pl011_set_config leaves the FIFOs alone.                 *)
THEOREM Implements == Spec => ImplementsSerialPort
<1>1. Init => SP!Init
  <2> SUFFICES ASSUME Init PROVE SP!Init
    OBVIOUS
  <2>1. <<>> \in Seq({0}) /\ <<0>> \in Seq({0})
    OBVIOUS
  <2>2. tx \in Seq({0}) /\ shift \in Seq({0}) /\ rx \in Seq({0})
    BY <2>1 DEF Init, Old
  <2>3. shift \o tx \in Seq({0}) /\ rx \in Seq({0})
    BY <2>2, ConcatProperties
  <2> QED BY <2>3 DEF Init, SP!Init
<1> QED BY <1>1, IInit, IStep, PTL DEF Spec, ImplementsSerialPort, SP!Spec

(* A call of pl011_set_config writes the line parameters under one byte at *)
(* most, whatever is in the FIFO: from the first write of UARTCR on no     *)
(* other byte begins.                                                      *)
THEOREM DisturbsOneByteAlways == Spec => []DisturbsOneByte
<1>1. IInv => DisturbsOneByte
  BY DEF IInv
<1> QED BY <1>1, IInit, IStep, PTL DEF Spec

=============================================================================
