--------------------------- MODULE Ns16c550Proofs ---------------------------
(***************************************************************************)
(* The NS16C550 driver never overfills the transmit FIFO, and with its     *)
(* chip it implements SerialPort, for every FIFO size and any lengths.     *)
(***************************************************************************)
EXTENDS Ns16c550, SequenceTheorems, TLAPS

(* SpaceIsFree is inductive with the types and fifo_space = 0 before       *)
(* ns16c550_init has cleared the FIFO.                                     *)
IInv ==
  /\ TypeOK /\ SpaceIsFree /\ (pc = "init" => fifo_space = 0)
  /\ line \in Seq(Nat)

LEMMA TailLen ==
  ASSUME NEW s \in Seq(Nat), s # <<>>
  PROVE  Tail(s) \in Seq(Nat) /\ Head(s) \in Nat /\ Len(Tail(s)) = Len(s) - 1 /\ Len(s) \in Nat
  OBVIOUS

LEMMA IInit == Init => IInv
<1> SUFFICES ASSUME Init PROVE IInv
  OBVIOUS
<1>1. <<>> \in Seq(Nat) /\ <<Old>> \in Seq(Nat)
  BY DEF Old
<1>2. tx \in Seq(Nat) /\ shift \in Seq(Nat) /\ rx \in Seq(Nat)
  BY <1>1 DEF Init
<1> QED BY <1>2, FifoAssumption DEF Init, IInv, TypeOK, SpaceIsFree

LEMMA IStep == IInv /\ [Next]_vars => IInv'
<1> SUFFICES ASSUME IInv, [Next]_vars PROVE IInv'
  OBVIOUS
<1> USE FifoAssumption DEF IInv, TypeOK, SpaceIsFree
<1>1. CASE UNCHANGED vars
  BY <1>1 DEF vars
<1>2. CASE Initialize
  BY <1>2 DEF Initialize
<1>3. CASE Poll
  BY <1>3 DEF Poll, Drained
<1>4. CASE Fill
  BY <1>4 DEF Fill
<1>5. CASE Written
  BY <1>5 DEF Written
<1>6. CASE Wait
  BY <1>6 DEF Wait
<1>7. CASE Drain
  BY <1>7, TailLen DEF Drain
<1>8. CASE Read
  BY <1>8 DEF Read
<1>9. CASE Shift
  BY <1>9, TailLen DEF Shift, driver
<1>10. CASE Emit
  <2>1. Ours(shift) \in Seq(Nat)
    BY DEF Ours
  <2>2. line \o Ours(shift) \in Seq(Nat)
    BY <2>1
  <2> QED BY <1>10, <2>2 DEF Emit, driver
<1>11. CASE Arrive
  BY <1>11 DEF Arrive, driver
<1>12. ASSUME NEW n \in Sizes, Call("poll", n) \/ Call("wait", n)
       PROVE  IInv'
  BY <1>12, SizesAssumption DEF Call
<1> QED BY <1>1, <1>2, <1>3, <1>4, <1>5, <1>6, <1>7, <1>8, <1>9, <1>10, <1>11, <1>12
           DEF Next, Driver, Chip

(* The invariant holds throughout.                                         *)
THEOREM Inductive == Spec => []IInv
  BY IInit, IStep, PTL DEF Spec

(* Types.                                                                  *)
THEOREM TypeCorrect == Spec => []TypeOK
<1>1. IInv => TypeOK
  BY DEF IInv
<1> QED BY <1>1, Inductive, PTL

(* write never puts a byte into a full FIFO, whatever the chip has sent in *)
(* the meantime and whatever earlier calls left in it.                     *)
THEOREM NeverOverfills == Spec => []SpaceIsFree
<1>1. IInv => SpaceIsFree
  BY DEF IInv
<1> QED BY <1>1, Inductive, PTL

-----------------------------------------------------------------------------
(* The refinement of SerialPort.  Bytes the firmware left are in the chip  *)
(* only: before ns16c550_init nothing else is in it, afterwards one may be *)
(* in the shift register.                                                  *)
RInv ==
  /\ IInv
  /\ pc = "init" => tx \in {<<>>, <<Old>>} /\ shift \in {<<>>, <<Old>>}
  /\ pc # "init" => \A i \in 1 .. Len(tx) : tx[i] # Old
  /\ shift = <<>> \/ \E b \in Nat : shift = <<b>>

LEMMA HeadAndTail ==
  ASSUME NEW s \in Seq(Nat), s # <<>>
  PROVE  /\ <<Head(s)>> \o Tail(s) = s /\ Head(s) = s[1] /\ 1 \in 1 .. Len(s)
         /\ \A i \in 1 .. Len(Tail(s)) : Tail(s)[i] = s[i + 1] /\ i + 1 \in 1 .. Len(s)
<1>1. /\ Len(s) \in Nat \ {0} /\ Tail(s) \in Seq(Nat) /\ Len(Tail(s)) = Len(s) - 1 /\ Head(s) = s[1]
      /\ \A i \in 1 .. Len(s) - 1 : Tail(s)[i] = s[i + 1]
  BY EmptySeq
<1> DEFINE h == <<Head(s)>>  t == Tail(s)  u == h \o t
<1>2. h \in Seq(Nat) /\ Len(h) = 1 /\ h[1] = s[1]
  BY <1>1
<1>3. t \in Seq(Nat) /\ Len(t) = Len(s) - 1 /\ \A i \in 1 .. Len(s) - 1 : t[i] = s[i + 1]
  BY <1>1
<1> HIDE DEF h, t
<1>4. /\ u \in Seq(Nat) /\ Len(u) = Len(s)
      /\ \A i \in 1 .. Len(s) : u[i] = IF i <= 1 THEN h[i] ELSE t[i - 1]
  <2>1. /\ u \in Seq(Nat) /\ Len(u) = Len(h) + Len(t)
        /\ \A i \in 1 .. Len(h) + Len(t) : u[i] = IF i <= Len(h) THEN h[i] ELSE t[i - Len(h)]
    <3> SUFFICES /\ h \o t \in Seq(Nat) /\ Len(h \o t) = Len(h) + Len(t)
                 /\ \A i \in 1 .. Len(h) + Len(t) :
                      (h \o t)[i] = IF i <= Len(h) THEN h[i] ELSE t[i - Len(h)]
      OBVIOUS
    <3>1. h \in Seq(Nat) /\ t \in Seq(Nat)
      BY <1>2, <1>3
    <3>2. h \o t \in Seq(Nat) /\ Len(h \o t) = Len(h) + Len(t)
      BY <3>1, ConcatProperties
    <3>3. \A i \in 1 .. Len(h) + Len(t) :
            (h \o t)[i] = IF i <= Len(h) THEN h[i] ELSE t[i - Len(h)]
      BY <3>1, ConcatProperties
    <3> QED BY <3>2, <3>3
  <2> HIDE DEF u
  <2> QED BY <1>1, <1>2, <1>3, <2>1
<1> HIDE DEF u
<1>5. ASSUME NEW i \in 1 .. Len(s) PROVE u[i] = s[i]
  <2>1. CASE i = 1
    BY <1>2, <1>4, <2>1
  <2>2. CASE i # 1
    <3>1. i - 1 \in 1 .. Len(s) - 1 /\ (i - 1) + 1 = i /\ ~(i <= 1)
      BY <1>1, <2>2
    <3>2. u[i] = t[i - 1]
      BY <1>4, <3>1
    <3> QED BY <1>3, <3>1, <3>2
  <2> QED BY <2>1, <2>2
<1>6. u = s
  <2> HIDE DEF u
  <2> QED BY <1>4, <1>5, SeqEqual
<1> QED BY <1>1, <1>3, <1>6 DEF h, t, u

LEMMA AppendLater ==
  ASSUME NEW s \in Seq(Nat), NEW t \in Seq(Nat), NEW x \in Nat
  PROVE  s \o Append(t, x) = Append(s \o t, x)
  OBVIOUS

LEMMA EmptyFirst == ASSUME NEW s \in Seq(Nat) PROVE <<>> \o s = s /\ s \o <<>> = s
  OBVIOUS

LEMMA OneFirst ==
  ASSUME NEW s \in Seq(Nat), NEW b \in Nat
  PROVE  <<b>> \o s # <<>> /\ Head(<<b>> \o s) = b /\ Tail(<<b>> \o s) = s
<1> DEFINE u == <<b>> \o s
<1>1. u \in Seq(Nat) /\ Len(u) = Len(s) + 1 /\ u[1] = b /\ \A i \in 1 .. Len(s) : u[i + 1] = s[i]
  OBVIOUS
<1> HIDE DEF u
<1>2. u # <<>> /\ Head(u) = b /\ Tail(u) \in Seq(Nat) /\ Len(Tail(u)) = Len(s)
      /\ \A i \in 1 .. Len(s) : Tail(u)[i] = s[i]
  BY <1>1
<1>3. Tail(u) = s
  <2> DEFINE v == Tail(u)
  <2>1. v \in Seq(Nat) /\ Len(v) = Len(s) /\ \A i \in 1 .. Len(v) : v[i] = s[i]
    BY <1>2
  <2> HIDE DEF v
  <2> QED BY <2>1, SeqEqual DEF v
<1> QED BY <1>2, <1>3 DEF u

LEMMA OldIsOne == Old \in Nat /\ <<Old>> # <<>> /\ \A b \in Nat : <<b>> = <<Old>> <=> b = Old
  BY DEF Old

LEMMA RShifts == ASSUME RInv, Shift PROVE RInv' /\ UNCHANGED SP!vars
<1>1. /\ tx # <<>> /\ shift = <<>> /\ shift' = <<Head(tx)>> /\ tx' = Tail(tx) /\ tx \in Seq(Nat)
      /\ UNCHANGED <<pc, rx, written, arrived, line, got>>
  BY DEF Shift, driver, RInv, IInv, TypeOK
<1>2. /\ <<Head(tx)>> \o Tail(tx) = tx /\ Head(tx) = tx[1] /\ 1 \in 1 .. Len(tx)
      /\ \A i \in 1 .. Len(Tail(tx)) : Tail(tx)[i] = tx[i + 1] /\ i + 1 \in 1 .. Len(tx)
  BY <1>1, HeadAndTail
<1>3. Head(tx) \in Nat
  BY <1>1, TailLen
<1>4. IInv'
  BY IStep DEF RInv, Next, Chip
<1>5. CASE pc = "init"
  <2>1. tx = <<Old>>
    BY <1>1, <1>5 DEF RInv
  <2>2. tx' = <<>> /\ shift' = <<Old>>
    BY <1>1, <2>1
  <2> QED BY <1>1, <1>3, <1>4, <1>5, <2>2, OldIsOne DEF RInv, SP!vars
<1>6. CASE pc # "init"
  <2>1. Head(tx) # Old /\ \A i \in 1 .. Len(tx') : tx'[i] # Old
    BY <1>1, <1>2, <1>6 DEF RInv
  <2>2. Ours(shift) = <<>> /\ Ours(shift') = <<Head(tx)>>
    BY <1>1, <1>3, <2>1, OldIsOne DEF Ours
  <2>3. Ours(shift') \o tx' = Ours(shift) \o tx
    BY <1>1, <1>2, <2>2, EmptyFirst
  <2> QED BY <1>1, <1>3, <1>4, <1>6, <2>1, <2>3 DEF RInv, SP!vars
<1> QED BY <1>5, <1>6

LEMMA REmits == ASSUME RInv, Emit PROVE RInv' /\ (SP!Send \/ UNCHANGED SP!vars)
<1>1. /\ shift # <<>> /\ line' = line \o Ours(shift) /\ shift' = <<>> /\ tx \in Seq(Nat) /\ line \in Seq(Nat)
      /\ UNCHANGED <<pc, tx, rx, written, arrived, got>>
  BY DEF Emit, driver, RInv, IInv, TypeOK
<1>2. PICK b \in Nat : shift = <<b>>
  BY <1>1 DEF RInv
<1>3. IInv'
  BY IStep DEF RInv, Next, Chip
<1>4. RInv'
  BY <1>1, <1>3 DEF RInv
<1>5. Ours(shift') = <<>> /\ <<>> \o tx = tx /\ line \o <<>> = line
  BY <1>1, OldIsOne, EmptyFirst DEF Ours
<1>6. CASE b = Old
  <2>1. Ours(shift) = <<>>
    BY <1>2, <1>6 DEF Ours
  <2> QED BY <1>1, <1>4, <1>5, <2>1 DEF SP!vars
<1>7. CASE b # Old
  <2>1. Ours(shift) = <<b>> /\ pc # "init"
    BY <1>1, <1>2, <1>7, OldIsOne DEF Ours, RInv
  <2>2. Ours(shift) \o tx # <<>> /\ Head(Ours(shift) \o tx) = b /\ Tail(Ours(shift) \o tx) = tx
    BY <1>1, <2>1, OneFirst
  <2>3. line' = Append(line, b)
    BY <1>1, <2>1
  <2> QED BY <1>1, <1>4, <1>5, <2>1, <2>2, <2>3 DEF SP!Send
<1> QED BY <1>6, <1>7

LEMMA RFills == ASSUME RInv, Fill PROVE RInv' /\ SP!Accept
<1>1. /\ pc = "fill" /\ fifo_space > 0 /\ written' = written + 1
      /\ tx' = IF Len(tx) < depth THEN Append(tx, written') ELSE tx
      /\ UNCHANGED <<pc, shift, rx, arrived, line, got>> /\ tx \in Seq(Nat) /\ written \in Nat
  BY DEF Fill, RInv, IInv, TypeOK
<1>2. Len(tx) < depth
  BY <1>1, FifoAssumption DEF RInv, IInv, TypeOK, SpaceIsFree
<1>3. tx' = Append(tx, written + 1) /\ written + 1 \in Nat /\ written + 1 # Old
  BY <1>1, <1>2 DEF Old
<1>4. IInv'
  BY IStep DEF RInv, Next, Driver
<1>5. \A i \in 1 .. Len(tx') : tx'[i] # Old
  <2>1. Len(tx') = Len(tx) + 1 /\ \A i \in 1 .. Len(tx) + 1 : tx'[i] = IF i <= Len(tx) THEN tx[i] ELSE written + 1
    BY <1>1, <1>3
  <2> QED BY <1>1, <1>3, <2>1 DEF RInv
<1>6. RInv'
  BY <1>1, <1>4, <1>5 DEF RInv
<1>7. Ours(shift) \in Seq(Nat)
  <2>1. shift \in Seq(Nat) /\ <<>> \in Seq(Nat)
    BY DEF RInv, IInv, TypeOK
  <2> QED BY <2>1 DEF Ours
<1>8. Ours(shift') \o tx' = Append(Ours(shift) \o tx, written + 1)
  BY <1>1, <1>3, <1>7, AppendLater
<1> QED BY <1>1, <1>6, <1>8 DEF SP!Accept

LEMMA RStep ==
  ASSUME RInv, [Next]_vars
  PROVE  RInv' /\ [SP!Next]_(SP!vars)
<1>1. IInv'
  BY IStep DEF RInv
<1>2. CASE UNCHANGED vars
  BY <1>1, <1>2 DEF vars, RInv, SP!vars
<1>3. CASE Initialize
  <2>1. /\ pc = "init" /\ pc' = "idle" /\ tx' = <<>> /\ rx' = <<>>
        /\ UNCHANGED <<shift, written, arrived, line, got>>
    BY <1>3 DEF Initialize
  <2>2. Ours(shift') = <<>>
    BY <2>1, OldIsOne DEF RInv, Ours
  <2>3. Ours(shift') \o tx' = <<>>
    BY <2>1, <2>2, EmptyFirst
  <2>4. RInv'
    BY <1>1, <2>1 DEF RInv
  <2> QED BY <2>1, <2>3, <2>4 DEF SP!vars
<1>4. CASE Poll \/ Written \/ Wait \/ Read \/ \E n \in Sizes : Call("poll", n) \/ Call("wait", n)
  <2>1. /\ UNCHANGED <<tx, shift, rx, written, arrived, line, got>> /\ pc # "init" /\ pc' # "init"
    BY <1>4 DEF Poll, Written, Wait, Read, Call
  <2> QED BY <1>1, <2>1 DEF RInv, SP!vars
<1>5. CASE Drain
  <2>1. /\ pc = "drain" /\ rx # <<>> /\ got' = Append(got, Head(rx)) /\ rx' = Tail(rx)
        /\ UNCHANGED <<pc, tx, shift, written, arrived, line>>
    BY <1>5 DEF Drain
  <2> QED BY <1>1, <2>1 DEF RInv, SP!Next, SP!Take
<1>6. CASE Arrive
  <2>1. /\ arrived' = arrived + 1
        /\ rx' = IF Len(rx) < depth THEN Append(rx, arrived') ELSE rx
        /\ UNCHANGED <<pc, tx, shift, written, line, got>>
    BY <1>6 DEF Arrive, driver
  <2> QED BY <1>1, <2>1 DEF RInv, SP!Next, SP!Arrive
<1> QED BY <1>2, <1>3, <1>4, <1>5, <1>6, RShifts, REmits, RFills DEF Next, Driver, Chip, SP!Next

(* Every byte that write accepted leaves the chip once and in order, and   *)
(* read gives the bytes that came in in their order: each step of driver   *)
(* and chip is a step of SerialPort, or none.                              *)
THEOREM Implements == Spec => ImplementsSerialPort
<1>1. Init => RInv
  <2> SUFFICES ASSUME Init PROVE RInv
    OBVIOUS
  <2>1. IInv
    BY IInit
  <2> QED BY <2>1, OldIsOne DEF Init, RInv
<1>2. Init => SP!Init
  BY DEF Init, SP!Init
<1> QED BY <1>1, <1>2, RStep, PTL DEF Spec, ImplementsSerialPort, SP!Spec

=============================================================================
