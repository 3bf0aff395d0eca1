--------------------------- MODULE StartupProofs ---------------------------
(***************************************************************************)
(* What the components that start the layer promise, for every machine,    *)
(* volume, flattened tree, network server and size that Startup's          *)
(* assumptions allow.  Startup's components share no state, so each has an *)
(* inductive invariant of its own; Steps says that a step of Startup is a  *)
(* step of each component, or leaves it alone.                             *)
(***************************************************************************)
EXTENDS Startup, WellFoundedInduction, SequenceTheorems, TLAPS

LEMMA Steps ==
  ASSUME [Next]_vars
  PROVE  /\ T!Next \/ UNCHANGED tables
         /\ V!Next \/ UNCHANGED vbe
         /\ C!Next \/ UNCHANGED cdrom
         /\ I!Next \/ UNCHANGED iso
         /\ K!Next \/ UNCHANGED kick
         /\ D!Next \/ UNCHANGED dtree
         /\ X!Next \/ UNCHANGED pxe
         /\ A!Next \/ UNCHANGED a20
<1>1. CASE UNCHANGED vars
  BY <1>1 DEF vars
<1>2. CASE pxe_boot \/ FilesReplaced
  BY <1>2 DEF pxe_boot, FilesReplaced, others, X!Next
<1>3. CASE a20_enable \/ Controller \/ KeyPressed
  BY <1>3 DEF a20_enable, Controller, KeyPressed, others, A!Next
<1>4. CASE tables_init \/ vbe_init \/ ReadSectors \/ UseFiles \/ ks_main \/ bal_main_atf
  BY <1>4 DEF tables_init, vbe_init, ReadSectors, UseFiles, ks_main, bal_main_atf
<1> QED BY <1>1, <1>2, <1>3, <1>4 DEF Next, Start

(* A non-empty set of naturals has a least element.                        *)
LEMMA LeastNat ==
  ASSUME NEW S \in SUBSET Nat, S # {}
  PROVE  \E x \in S : \A y \in S : x <= y
<1> DEFINE R == OpToRel(<, Nat)
<1>1. \E x \in S : \A y \in S : ~(<<y, x>> \in R)
  BY WFMin, NatLessThanWellFounded
<1>2. \A x, y \in Nat : x < y => <<x, y>> \in R
  BY Zenon DEF OpToRel
<1> HIDE DEF R
<1>3. PICK x \in S : \A y \in S : ~(<<y, x>> \in R)
  BY <1>1
<1>4. \A y \in S : ~(y < x)
  BY <1>2, <1>3
<1> QED BY <1>4

-----------------------------------------------------------------------------
(* The gate of A20.  Until the controller was sent the byte for its output *)
(* port, which always has the bit, no such byte is on its way; once the    *)
(* command after it was taken, the byte was carried out; in between it is  *)
(* on its way or was carried out.                                          *)
Fits(b)  == b = <<>> \/ \E c : b = <<c>> /\ (c.command = "data" => "a20" \in c.data)
Holds(b) == b # <<>> /\ Head(b).command = "data"

Unasked == {"start", "bios", "asked", "disable", "ask", "answer", "in", "write", "byte"}
Over    == {"told", "query", "fast", "tried", "aborted"}

ASent ==
  /\ board \in A!Board /\ gate \in BOOLEAN /\ Fits(inbuf) /\ Fits(busy)
  /\ apc \in Unasked \cup Over \cup {"enable", "settle", "returned", "reset"}
  /\ apc \in Unasked \cup Over \cup {"returned"} => ~Holds(inbuf) /\ ~Holds(busy)
  /\ apc = "enable" => Holds(inbuf) \/ Holds(busy) \/ (board.wired => gate)
  /\ apc = "enable" => ~(Holds(inbuf) /\ Holds(busy))
  /\ apc = "settle" => ~Holds(inbuf) /\ (Holds(busy) => inbuf # <<>>)
  /\ apc = "settle" => Holds(busy) \/ (board.wired => gate)

AGate ==
  /\ apc = "asked" => (board.bios = "opens" => gate)
  /\ apc \notin {"start", "bios", "asked", "returned", "reset"} => board.bios # "opens"
  /\ apc = "returned" => gate
  /\ apc = "told" => (board.wired => gate)
  /\ apc \in {"query", "fast"} => ~gate /\ ~board.wired
  /\ apc \in {"fast", "tried"} => board.query
  /\ apc = "tried" => ~board.wired /\ (board.fast = "opens" => gate)
  /\ apc = "aborted" => ~gate /\ ~board.wired /\ ~(board.query /\ board.fast = "opens")

AInv == ASent /\ AGate

LEMMA AEnables == ASSUME AInv, A!a20_enable PROVE AInv'
<1> USE DEF AInv, ASent, AGate, Unasked, Over, A!Goto, A!controller
<1>0. \A c \in {"AD", "D0", "D1", "AE"} : Fits(<<A!Command(c)>>) /\ ~Holds(<<A!Command(c)>>)
  BY DEF Fits, Holds, A!Command
<1>1. \A b : Fits(<<A!Data(b \cup {"a20"})>>) /\ Holds(<<A!Data(b \cup {"a20"})>>)
  BY DEF Fits, Holds, A!Data
<1>2. CASE A!Check
  BY <1>2 DEF A!Check, A!a20_check
<1>3. CASE A!AskBios
  BY <1>3 DEF A!AskBios
<1>4. CASE A!Tell
  <2>1. CASE A!Out("disable", A!Command("AD"), "ask")
    BY <1>0, <2>1 DEF A!Out
  <2>2. CASE A!Out("ask", A!Command("D0"), "answer")
    BY <1>0, <2>2 DEF A!Out
  <2>3. CASE A!Out("write", A!Command("D1"), "byte")
    BY <1>0, <2>3 DEF A!Out
  <2>4. CASE A!Out("byte", A!Data(saved \cup {"a20"}), "enable")
    BY <1>1, <2>4 DEF A!Out
  <2>5. CASE A!Out("enable", A!Command("AE"), "settle")
    BY <1>0, <2>5 DEF A!Out, Holds
  <2> QED BY <1>4, <2>1, <2>2, <2>3, <2>4, <2>5 DEF A!Tell
<1>5. CASE A!kyb_wait_output_buf \/ A!In
  BY <1>5 DEF A!kyb_wait_output_buf, A!In
<1>6. CASE A!Settle
  BY <1>6 DEF A!Settle, Holds
<1>7. CASE A!Query
  BY <1>7 DEF A!Query
<1>8. CASE A!FastA20
  BY <1>8 DEF A!FastA20
<1> QED BY <1>2, <1>3, <1>4, <1>5, <1>6, <1>7, <1>8 DEF A!a20_enable

LEMMA AControls == ASSUME AInv, A!Control PROVE AInv'
<1> USE DEF AInv, ASent, AGate, Unasked, Over
<1>0. ~Holds(<<>>) /\ Fits(<<>>) /\ apc # "reset"
  BY DEF Holds, Fits, A!Control
<1>1. CASE A!Take
  BY <1>0, <1>1 DEF A!Take
<1>2. CASE A!CarryOut
  <2>1. PICK c : busy = <<c>> /\ (c.command = "data" => "a20" \in c.data)
    BY <1>2 DEF A!CarryOut, Fits
  <2>2. Head(busy) = c /\ (Holds(busy) <=> c.command = "data")
    BY <2>1 DEF Holds
  <2>3. /\ gate' = (gate \/ (c.command = "data" /\ board.wired))
        /\ apc' = IF c.command = "data" /\ "run" \notin c.data THEN "reset" ELSE apc
        /\ UNCHANGED <<board, inbuf>> /\ busy' = <<>>
    BY <1>2, <2>1, <2>2 DEF A!CarryOut
  <2> QED BY <1>0, <2>2, <2>3
<1> QED BY <1>1, <1>2 DEF A!Control

(* a20_enable returns only with the gate open, and gives up only with the  *)
(* gate closed and after every method that would have opened it, for every *)
(* board and however the controller and the keyboard keep up.              *)
THEOREM GateAsReportedAlways == Spec => []GateAsReported
<1>1. Init => AInv
  <2> SUFFICES ASSUME Init PROVE AInv
    OBVIOUS
  <2>1. board \in A!Board
    BY MachinesAssumption DEF Init
  <2> QED BY <2>1 DEF Init, A!Begin, AInv, ASent, AGate, Unasked, Over, Fits, Holds, A!Board
<1>2. AInv /\ [Next]_vars => AInv'
  <2> SUFFICES ASSUME AInv, [Next]_vars PROVE AInv'
    OBVIOUS
  <2>1. CASE UNCHANGED a20
    BY <2>1 DEF a20, AInv, ASent, AGate
  <2>2. CASE A!Key
    BY <2>2 DEF A!Key, AInv, ASent, AGate
  <2> QED BY Steps, AEnables, AControls, <2>1, <2>2 DEF A!Next
<1>3. AInv => GateAsReported
  BY DEF AInv, ASent, AGate, Unasked, Over, GateAsReported, A!GateAsReported
<1> QED BY <1>1, <1>2, <1>3, PTL DEF Spec

-----------------------------------------------------------------------------
(* Stage 1 over the network.  Late: the file is coming in, or has come.    *)
Late == {"read", "close", "entered"}

XTypes ==
  /\ server \in X!Server /\ long_mode \in BOOLEAN /\ failed \in BOOLEAN
  /\ ppc \in {"init", "cached", "a20", "fsize", "open", "aborted"} \cup Late
  /\ edition \in {0, 1} /\ want \in {0, 32, 64} /\ file_size \in Nat
  /\ edi \in Nat /\ ecx \in Nat
  /\ session \in [file : {0, 32, 64}, edition : Nat, length : Nat, sent : Nat]
  /\ DOMAIN pmem = 0 .. Megabyte + PACKET_SIZE - 1

XFile ==
  /\ ppc \in {"fsize", "open"} \cup Late => want \in {32, 64}
  /\ ppc \in {"open"} \cup Late => X!NameCopied
  /\ ppc \in {"fsize", "open"} \cup Late =>
       \/ want = 64 /\ long_mode
       \/ want = 32 /\ (long_mode => X!Lacked(64) \/ ~X!NameCopied)
  /\ ppc = "aborted" =>
       \/ failed \/ ~server.pxenv \/ ~X!NameCopied
       \/ X!Lacked(32) /\ (long_mode => X!Lacked(64))

(* What lies in memory while the file comes in.                            *)
Arrived ==
  [a \in 0 .. Megabyte + PACKET_SIZE - 1 |->
     IF Load <= a /\ a < Load + session.sent
     THEN <<session.file, session.edition, a - Load>> ELSE X!Free]

XRead ==
  /\ ppc \notin Late \cup {"aborted"} => session.sent = 0 /\ pmem = Arrived
  /\ ppc \in Late =>
       /\ session.file = want /\ session.sent <= session.length
       /\ Load + session.sent <= Megabyte => pmem = Arrived
  /\ ppc = "read" => edi = Load + session.sent /\ ecx = file_size - session.sent
  /\ ppc \in {"close", "entered"} =>
       session.sent = session.length \/ file_size <= session.sent

XInv == XTypes /\ XFile /\ XRead

LEMMA XInit == Init => XInv
<1> SUFFICES ASSUME Init PROVE XInv
  OBVIOUS
<1> PICK m \in Machines : server = m.server /\ long_mode = m.long_mode
  BY DEF Init
<1>1. server \in X!Server /\ long_mode \in BOOLEAN
  BY MachinesAssumption
<1>2. X!Begin
  BY DEF Init
<1>3. pmem = Arrived
  BY <1>2, SizesAssumption DEF X!Begin, Arrived, X!NoSession
<1> QED BY <1>1, <1>2, <1>3, SizesAssumption DEF XInv, XTypes, XFile, XRead, Late, X!Begin, X!NoSession

LEMMA XNames ==
  ASSUME XTypes
  PROVE  /\ server.files \in X!Files /\ server.later \in X!Files
         /\ \A w \in {32, 64} : /\ server.files[w] \in Nat \cup {X!NotThere}
                                /\ server.later[w] \in Nat \cup {X!NotThere}
  BY DEF XTypes, X!Server, X!Files

LEMMA XStays ==
  ASSUME XInv, X!CallFails \/ X!NoPxe \/ X!FindApi \/ X!GetCachedInfo \/ X!A20Enabled \/ X!Close
  PROVE  XInv'
<1> USE DEF XInv, XTypes, XFile, XRead, Arrived, Late, X!rom, X!read, X!Goto,
            X!Abort, X!NameCopied, X!Lacked
<1>1. CASE X!CallFails
  BY <1>1 DEF X!CallFails
<1>2. CASE X!NoPxe
  BY <1>2 DEF X!NoPxe
<1>3. CASE X!FindApi
  BY <1>3 DEF X!FindApi
<1>4. CASE X!GetCachedInfo
  BY <1>4 DEF X!GetCachedInfo
<1>5. CASE X!A20Enabled
  BY <1>5 DEF X!A20Enabled
<1>6. CASE X!Close
  BY <1>6 DEF X!Close
<1> QED BY <1>1, <1>2, <1>3, <1>4, <1>5, <1>6

LEMMA XReplaced ==
  ASSUME XInv, X!Replace
  PROVE  XInv'
<1>1. edition = 0 /\ edition' = 1
      /\ UNCHANGED <<server, long_mode, ppc, api, want, file_size, session, edi, ecx, pmem, failed>>
  BY DEF X!Replace, X!read
<1> QED BY <1>1 DEF XInv, XTypes, XFile, XRead, Arrived, Late, X!NameCopied, X!Lacked

LEMMA XSearched ==
  ASSUME XInv, X!FsizeNotFound \/ X!GetFsize \/ X!OpenNotFound \/ X!Open
  PROVE  XInv'
<1> USE DEF XInv, XTypes, XFile, XRead, Arrived, Late, X!rom, X!read, X!Goto,
            X!Abort, X!NameCopied, X!Lacked, X!NotFound, X!Length
<1>0. /\ server.files \in X!Files /\ server.later \in X!Files
      /\ \A w \in {32, 64} : /\ server.files[w] \in Nat \cup {X!NotThere}
                             /\ server.later[w] \in Nat \cup {X!NotThere}
  BY XNames
<1>1. CASE X!FsizeNotFound
  BY <1>0, <1>1 DEF X!FsizeNotFound
<1>2. CASE X!GetFsize
  BY <1>0, <1>2 DEF X!GetFsize
<1>3. CASE X!OpenNotFound
  BY <1>0, <1>3 DEF X!OpenNotFound
<1>4. CASE X!Open
  BY <1>0, <1>4, SizesAssumption DEF X!Open
<1> QED BY <1>1, <1>2, <1>3, <1>4

LEMMA XReads ==
  ASSUME XInv, X!Read
  PROVE  XInv'
<1> DEFINE k == X!Packet
<1>0. /\ session.sent \in Nat /\ session.length \in Nat /\ session.sent <= session.length
      /\ edi \in Nat /\ ecx \in Nat /\ file_size \in Nat
      /\ edi = Load + session.sent /\ ecx = file_size - session.sent
  BY DEF XInv, XTypes, XRead, Late, X!Read
<1>1. k \in Nat /\ k <= PACKET_SIZE /\ session.sent + k <= session.length
      /\ (k < PACKET_SIZE => session.sent + k = session.length)
  BY <1>0, SizesAssumption DEF X!Packet
<1>2. /\ session' = [session EXCEPT !.sent = session.sent + k]
      /\ UNCHANGED <<server, long_mode, edition, api, want, file_size, failed>>
      /\ ppc = "read" /\ ppc' = IF X!LastPacket THEN "close" ELSE "read"
      /\ edi' = IF k < PACKET_SIZE THEN edi ELSE edi + k
      /\ ecx' = IF X!LastPacket THEN ecx ELSE ecx - k
      /\ pmem' = X!Received
  BY DEF X!Read, X!Goto, X!rom
<1> HIDE DEF k
<1>3. session'.sent = session.sent + k /\ session'.length = session.length /\ session'.file = session.file
      /\ session'.edition = session.edition
      /\ session' \in [file : {0, 32, 64}, edition : Nat, length : Nat, sent : Nat]
  BY <1>1, <1>2 DEF XInv, XTypes
<1>4. ~X!LastPacket => k = PACKET_SIZE /\ ecx > k
  BY <1>0, <1>1, SizesAssumption DEF X!LastPacket, k
<1>5. XTypes' /\ XFile'
  <2>1. DOMAIN pmem' = DOMAIN pmem
    BY <1>2 DEF X!Received
  <2>2. edi' \in Nat /\ ecx' \in Nat
    BY <1>0, <1>1, <1>2, <1>4, SizesAssumption
  <2> QED BY <1>2, <1>3, <2>1, <2>2 DEF XInv, XTypes, XFile, Late, X!NameCopied, X!Lacked
<1>6. ASSUME Load + session'.sent <= Megabyte
      PROVE  pmem' = Arrived'
  <2>1. pmem = Arrived /\ edi = Load + session.sent
    BY <1>0, <1>1, <1>2, <1>3, <1>6, SizesAssumption DEF XInv, XRead, Late
  <2>2. k > 0 => X!Buffer = Load + session.sent
    <3> SUFFICES ASSUME k > 0 PROVE edi % Megabyte = edi
      BY <2>1 DEF X!Buffer
    <3>1. edi \in Nat /\ edi < Megabyte
      BY <1>0, <1>1, <1>3, <1>6, <2>1, SizesAssumption
    <3> QED BY <3>1, SizesAssumption
  <2>3. X!Received = [a \in 0 .. Megabyte + PACKET_SIZE - 1 |->
           IF Load + session.sent <= a /\ a < Load + session.sent + k
           THEN <<session.file, session.edition, a - Load>> ELSE Arrived[a]]
    <3>0. X!Buffer \in Int /\ session.sent \in Nat
      BY SizesAssumption DEF X!Buffer, XInv, XTypes
    <3>1. CASE k > 0
      <4>1. \A a \in 0 .. Megabyte + PACKET_SIZE - 1 :
              session.sent + a - X!Buffer = a - Load
        BY <3>0, <3>1, <2>2, SizesAssumption
      <4>2. X!Received = [a \in DOMAIN pmem |->
               IF X!Buffer <= a /\ a < X!Buffer + k
               THEN <<session.file, session.edition, session.sent + a - X!Buffer>> ELSE pmem[a]]
        BY DEF X!Received, k
      <4>3. DOMAIN pmem = 0 .. Megabyte + PACKET_SIZE - 1
        BY DEF XInv, XTypes
      <4> QED BY <3>1, <4>1, <4>2, <4>3, <2>1, <2>2
    <3>2. CASE k = 0
      <4>1. \A a \in Int : /\ ~(X!Buffer <= a /\ a < X!Buffer + k)
                           /\ ~(Load + session.sent <= a /\ a < Load + session.sent + k)
        BY <3>0, <3>2, SizesAssumption
      <4> QED BY <4>1, <2>1, SizesAssumption DEF X!Received, k, XInv, XTypes
    <3> QED BY <1>1, <3>1, <3>2
  <2>4. session.sent \in Nat
    BY DEF XInv, XTypes
  <2>5. \A a \in 0 .. Megabyte + PACKET_SIZE - 1 :
          IF Load + session.sent <= a /\ a < Load + session.sent + k
          THEN Load <= a /\ a < Load + session'.sent
          ELSE (Load <= a /\ a < Load + session.sent) <=> (Load <= a /\ a < Load + session'.sent)
    BY <1>1, <1>3, <2>4, SizesAssumption
  <2>6. \A a \in 0 .. Megabyte + PACKET_SIZE - 1 :
          Arrived[a] = IF Load <= a /\ a < Load + session.sent
                       THEN <<session.file, session.edition, a - Load>> ELSE X!Free
    BY DEF Arrived
  <2>7. Arrived' = [a \in 0 .. Megabyte + PACKET_SIZE - 1 |->
          IF Load <= a /\ a < Load + session'.sent
          THEN <<session.file, session.edition, a - Load>> ELSE X!Free]
    BY <1>3 DEF Arrived
  <2> QED BY <1>2, <2>3, <2>5, <2>6, <2>7
<1>7. X!LastPacket => session.sent + k = session.length \/ file_size <= session.sent + k
  BY <1>0, <1>1, SizesAssumption DEF X!LastPacket, k
<1>8. XRead'
  <2>1. ppc' \in {"read", "close"} /\ session'.file = want' /\ session'.sent <= session'.length
    BY <1>1, <1>2, <1>3 DEF XInv, XRead, Late
  <2>2. ppc' = "read" => edi' = Load + session'.sent /\ ecx' = file_size' - session'.sent
    BY <1>0, <1>1, <1>2, <1>3, <1>4, SizesAssumption
  <2>3. ppc' = "close" => session'.sent = session'.length \/ file_size' <= session'.sent
    BY <1>2, <1>3, <1>7
  <2> QED BY <1>2, <1>3, <1>6, <2>1, <2>2, <2>3 DEF XRead, Late
<1> QED BY <1>5, <1>8 DEF XInv

(* Stage 1 over the network enters the file for its processor, having read *)
(* all of it or as much as the server said there was before it was         *)
(* replaced, and with what it has read in order in memory if that fits     *)
(* below 1 MB; or gives up for one of the reasons PxeHandsOver names.      *)
THEOREM PxeHandsOverAlways == Spec => []PxeHandsOver
<1>1. XInv /\ [Next]_vars => XInv'
  <2> SUFFICES ASSUME XInv, [Next]_vars PROVE XInv'
    OBVIOUS
  <2>1. CASE UNCHANGED pxe
    BY <2>1 DEF pxe, XInv, XTypes, XFile, XRead, Arrived, Late, X!NameCopied, X!Lacked
  <2> QED BY <2>1, Steps, XStays, XReplaced, XSearched, XReads DEF X!Next, X!Stage1
<1>2. XInv => PxeHandsOver
  <2> SUFFICES ASSUME XInv PROVE PxeHandsOver
    OBVIOUS
  <2>1. ppc = "entered" /\ Load + session.sent <= Megabyte => X!InMemory(session.sent)
    BY DEF XInv, XTypes, XRead, Arrived, Late, X!InMemory
  <2> QED BY <2>1 DEF PxeHandsOver, X!PxeHandsOver, XInv, XFile, XRead, Late
<1> QED BY <1>1, <1>2, XInit, PTL DEF Spec

-----------------------------------------------------------------------------
(* The firmware tables.  Searched(n, i): paragraph i of region n has been  *)
(* passed.  IsTable: a valid table of a kind is there, in a region that is *)
(* to be searched for that kind.                                           *)
TableKinds == {"rsdp", "mpfp", "smbios"}

RegionsOf(kind) ==
  IF kind = "rsdp" THEN {1, 3, 4} ELSE IF kind = "mpfp" THEN 1 .. 4 ELSE {4}

IsTable(kind, n, i) ==
  /\ n \in RegionsOf(kind) /\ i \in DOMAIN T!Paragraphs(firmware, n)
  /\ T!Paragraphs(firmware, n)[i].signature = kind /\ T!Paragraphs(firmware, n)[i].sum

Searched(n, i) == n < region \/ (n = region /\ i < para)

NoneYet(kind) ==
  /\ \A n, i \in Nat : Searched(n, i) => ~IsTable(kind, n, i)
  /\ region \in RegionsOf(kind) => kind \in searching

FoundAt(kind, n, i) ==
  /\ IsTable(kind, n, i) /\ Searched(n, i) /\ kind \notin searching
  /\ \A m, j \in Nat : IsTable(kind, m, j) => n < m \/ (n = m /\ i <= j)

Place(n, i) == <<T!Where(firmware)[n], i>>
Places == {T!Null} \cup {Place(n, i) : n \in 1 .. 4, i \in Nat}
Para(n, i)  == T!Paragraphs(firmware, n)[i]

TTypes ==
  /\ region \in 1 .. 5 /\ para \in Nat \ {0} /\ searching \in SUBSET TableKinds
  /\ \A kind \in searching : region \in RegionsOf(kind)
  /\ \A n \in 1 .. 4 : T!Paragraphs(firmware, n) \in Seq(T!Paragraph)
  /\ pc_pointer \in [length : Nat, mpfp : Places, mpfp_length : Nat, smbios : Places]

TRsdp ==
  \/ NoneYet("rsdp") /\ rsdt_pointer = T!NoRsdt
  \/ \E n, i \in Nat :
       /\ FoundAt("rsdp", n, i)
       /\ rsdt_pointer =
            [length |-> T!Size, rsdt_address |-> Place(n, i),
             xsdt_address |-> IF Para(n, i).revision > 0 /\ Para(n, i).extended_sum
                              THEN Place(n, i) ELSE T!Null]

TSmbios ==
  \/ NoneYet("smbios") /\ pc_pointer.smbios = T!Null
  \/ \E n, i \in Nat :
       FoundAt("smbios", n, i) /\ pc_pointer.smbios = Place(n, i) /\ pc_pointer.length # 0

TMpfp ==
  \/ NoneYet("mpfp") /\ pc_pointer.mpfp = T!Null /\ pc_pointer.mpfp_length = 0
  \/ \E n, i \in Nat :
       FoundAt("mpfp", n, i) /\ pc_pointer.mpfp = Place(n, i) /\ pc_pointer.mpfp_length # 0
  \/ \E n, i \in Nat : IsTable("mpfp", n, i) /\ Para(n, i).length = 0

TLength ==
  /\ pc_pointer.length = 0 => NoneYet("mpfp") /\ pc_pointer.mpfp_length = 0
  /\ pc_pointer.length # 0 =>
       \E kind \in {"mpfp", "smbios"} : \E n, i \in Nat : IsTable(kind, n, i)

TInv == TTypes /\ TRsdp /\ TSmbios /\ TMpfp /\ TLength

LEMMA TInit == Init => TInv
<1> SUFFICES ASSUME Init PROVE TInv
  OBVIOUS
<1>1. T!Begin /\ \A n \in 1 .. 4 : T!Paragraphs(firmware, n) \in Seq(T!Paragraph)
  BY MachinesAssumption DEF Init
<1>2. searching = {"rsdp", "mpfp"}
  BY <1>1 DEF T!Begin, T!Flags
<1>3. \A n, i \in Nat : Searched(n, i) => n \notin 1 .. 4 \/ i \notin 1 .. Len(T!Paragraphs(firmware, n))
  BY <1>1 DEF T!Begin, Searched
<1>4. ASSUME NEW kind \in TableKinds
      PROVE  NoneYet(kind)
  <2>1. ASSUME NEW n \in Nat, NEW i \in Nat, Searched(n, i), IsTable(kind, n, i)
        PROVE  FALSE
    <3>1. n \in 1 .. 4 /\ i \in DOMAIN T!Paragraphs(firmware, n)
      BY <2>1 DEF IsTable, RegionsOf
    <3> QED BY <1>1, <1>3, <2>1, <3>1
  <2> QED BY <2>1, <1>1, <1>2 DEF NoneYet, RegionsOf, TableKinds, T!Begin
<1> QED BY <1>1, <1>2, <1>4 DEF TInv, TTypes, TRsdp, TSmbios, TMpfp, TLength, TableKinds, RegionsOf,
           T!Begin, T!NoRsdt, T!NoPc, Places

LEMMA TSteps ==
  ASSUME TTypes, T!SearchParagraph, NEW kind \in TableKinds,
         NEW r \in Nat, NEW q \in Nat, r = region, q = para
  PROVE  LET p == Para(r, q)
         IN /\ NoneYet(kind) =>
                 IF T!Matches(p, kind)
                 THEN FoundAt(kind, r, q)' ELSE NoneYet(kind)'
            /\ T!Matches(p, kind) => IsTable(kind, r, q)
            /\ \A n, i \in Nat : FoundAt(kind, n, i) => FoundAt(kind, n, i)' /\ ~T!Matches(p, kind)
<1> DEFINE p == Para(r, q)
<1>1. /\ r \in 1 .. 4 /\ q \in DOMAIN T!Paragraphs(firmware, r)
      /\ region' = r /\ para' = q + 1 /\ firmware' = firmware
      /\ searching' = {k \in searching : ~T!Matches(p, k)}
  BY DEF TTypes, T!SearchParagraph, Para
<1>2. \A k \in TableKinds : \A n, i : IsTable(k, n, i)' <=> IsTable(k, n, i)
  BY <1>1 DEF IsTable
<1>3. \A n, i \in Nat : Searched(n, i)' <=> Searched(n, i) \/ (n = r /\ i = q)
  BY <1>1 DEF Searched, TTypes
<1>4. T!Matches(p, kind) => IsTable(kind, r, q)
  BY <1>1 DEF T!Matches, IsTable, Para, TTypes
<1>5. ASSUME NoneYet(kind)
      PROVE  IF T!Matches(p, kind)
             THEN FoundAt(kind, r, q)' ELSE NoneYet(kind)'
  <2>1. CASE T!Matches(p, kind)
    <3>1. ASSUME NEW m \in Nat, NEW j \in Nat, IsTable(kind, m, j)
          PROVE  r < m \/ (r = m /\ q <= j)
      BY <1>5, <3>1 DEF NoneYet, Searched, TTypes
    <3>2. kind \notin searching'
      BY <1>1, <2>1
    <3> QED BY <1>1, <1>2, <1>3, <1>4, <2>1, <3>1, <3>2 DEF FoundAt, TTypes
  <2>2. CASE ~T!Matches(p, kind)
    <3>1. ~IsTable(kind, r, q)
      BY <1>5, <2>2 DEF NoneYet, IsTable, T!Matches, Para
    <3>2. kind \in searching => kind \in searching'
      BY <1>1, <2>2
    <3>3. \A n, i \in Nat : Searched(n, i)' => ~IsTable(kind, n, i)'
      BY <1>2, <1>3, <1>5, <3>1 DEF NoneYet
    <3> QED BY <1>1, <1>5, <2>2, <3>2, <3>3 DEF NoneYet
  <2> QED BY <2>1, <2>2
<1>6. ASSUME NEW n \in Nat, NEW i \in Nat, FoundAt(kind, n, i)
      PROVE  FoundAt(kind, n, i)' /\ ~T!Matches(p, kind)
  BY <1>1, <1>2, <1>3, <1>6 DEF FoundAt, T!Matches
<1> QED BY <1>4, <1>5, <1>6

LEMMA TStepsOn ==
  ASSUME TInv, T!NextRegion, NEW kind \in TableKinds
  PROVE  /\ \A n, i : IsTable(kind, n, i)' <=> IsTable(kind, n, i)
         /\ NoneYet(kind) /\ (kind = "rsdp" => rsdt_pointer.length = 0)
              /\ (kind = "mpfp" => pc_pointer.mpfp_length = 0) => NoneYet(kind)'
         /\ \A n, i \in Nat :
              FoundAt(kind, n, i) /\ (kind = "rsdp" => rsdt_pointer.length # 0)
                /\ (kind = "mpfp" => pc_pointer.mpfp_length # 0) => FoundAt(kind, n, i)'
<1>1. /\ region \in 1 .. 4 /\ region' = region + 1 /\ para' = 1
      /\ UNCHANGED <<firmware, rsdt_pointer, pc_pointer>>
      /\ searching = {} \/ para > Len(T!Paragraphs(firmware, region))
      /\ searching' = IF region = 4 THEN {} ELSE T!Flags(region + 1, rsdt_pointer, pc_pointer)
  BY DEF TInv, TTypes, T!NextRegion
<1>2. \A n, i : IsTable(kind, n, i)' <=> IsTable(kind, n, i)
  BY <1>1 DEF IsTable
<1>3. \A n, i \in Nat : Searched(n, i)' => Searched(n, i) \/ n = region \/ (n = region + 1 /\ i = 0)
  BY <1>1 DEF Searched, TInv, TTypes
<1>4. \A n, i \in Nat : Searched(n, i) => Searched(n, i)'
  BY <1>1 DEF Searched, TInv, TTypes
<1>5. T!Paragraphs(firmware, region) \in Seq(T!Paragraph)
  BY <1>1 DEF TInv, TTypes
<1>6. ASSUME NoneYet(kind), kind = "rsdp" => rsdt_pointer.length = 0,
             kind = "mpfp" => pc_pointer.mpfp_length = 0
      PROVE  NoneYet(kind)'
  <2>1. ASSUME NEW n \in Nat, NEW i \in Nat, Searched(n, i)', IsTable(kind, n, i)
        PROVE  FALSE
    <3>1. n \in 1 .. 4 /\ i \in 1 .. Len(T!Paragraphs(firmware, n))
      BY <2>1 DEF IsTable, RegionsOf, TInv, TTypes
    <3>2. n = region /\ i \in DOMAIN T!Paragraphs(firmware, region) /\ kind \in searching
      <4>1. ~Searched(n, i) /\ i # 0
        BY <1>6, <2>1, <3>1 DEF NoneYet
      <4>2. n = region
        BY <1>3, <2>1, <4>1
      <4>3. n \in RegionsOf(kind) /\ i \in DOMAIN T!Paragraphs(firmware, n)
        BY <2>1 DEF IsTable
      <4> QED BY <1>6, <4>2, <4>3 DEF NoneYet
    <3>3. i < para
      BY <1>1, <1>5, <3>1, <3>2 DEF TInv, TTypes
    <3> QED BY <1>6, <2>1, <3>2, <3>3 DEF NoneYet, Searched
  <2>2. region + 1 \in RegionsOf(kind) => kind \in searching'
    BY <1>1, <1>6 DEF RegionsOf, TableKinds, T!Flags
  <2> QED BY <1>1, <1>2, <2>1, <2>2 DEF NoneYet
<1>7. ASSUME NEW n \in Nat, NEW i \in Nat, FoundAt(kind, n, i),
             kind = "rsdp" => rsdt_pointer.length # 0,
             kind = "mpfp" => pc_pointer.mpfp_length # 0
      PROVE  FoundAt(kind, n, i)'
  <2>1. kind = "smbios" => region = 4
    BY <1>1, <1>7 DEF FoundAt, IsTable, RegionsOf, Searched
  <2>2. kind \notin searching'
    BY <1>1, <1>7, <2>1 DEF T!Flags, TableKinds
  <2> QED BY <1>2, <1>4, <1>7, <2>2 DEF FoundAt
<1> QED BY <1>2, <1>6, <1>7

LEMMA TKept == ASSUME TInv, UNCHANGED tables PROVE TInv'
<1> USE DEF tables
<1>1. \A kind, n, i : IsTable(kind, n, i)' = IsTable(kind, n, i)
  BY DEF IsTable
<1>2. \A kind : NoneYet(kind)' = NoneYet(kind)
  BY <1>1 DEF NoneYet, Searched
<1>3. \A kind, n, i : FoundAt(kind, n, i)' = FoundAt(kind, n, i)
  BY <1>1 DEF FoundAt, Searched
<1>4. \A n, i : Place(n, i)' = Place(n, i) /\ Para(n, i)' = Para(n, i)
  BY DEF Place, Para
<1>5. TTypes'
  BY <1>4 DEF TInv, TTypes, Places
<1>6. TRsdp' /\ TSmbios'
  BY <1>2, <1>3, <1>4 DEF TInv, TRsdp, TSmbios
<1>7. TMpfp' /\ TLength'
  BY <1>1, <1>2, <1>3, <1>4 DEF TInv, TMpfp, TLength
<1> QED BY <1>5, <1>6, <1>7 DEF TInv

LEMMA TSearches == ASSUME TInv, T!SearchParagraph PROVE TInv'
<1> PICK r \in Nat, q \in Nat : r = region /\ q = para
  BY DEF TInv, TTypes
<1> DEFINE p == Para(r, q)  at == Place(r, q)
<1>1. /\ r \in 1 .. 4 /\ q \in DOMAIN T!Paragraphs(firmware, r)
      /\ region' = r /\ para' = q + 1 /\ firmware' = firmware
      /\ searching' = {k \in searching : ~T!Matches(p, k)}
      /\ rsdt_pointer' = IF T!Matches(p, "rsdp") THEN T!FoundRsdp(p, at) ELSE rsdt_pointer
      /\ pc_pointer' = CASE T!Matches(p, "mpfp")   -> T!FoundMpfp(p, at)
                         [] T!Matches(p, "smbios") -> T!FoundSmbios(p, at)
                         [] OTHER -> pc_pointer
  BY DEF TInv, TTypes, T!SearchParagraph, Para, Place
<1>2. \A k, n, i : IsTable(k, n, i)' <=> IsTable(k, n, i)
  BY <1>1 DEF IsTable
<1>3. \A n, i : Place(n, i)' = Place(n, i) /\ Para(n, i)' = Para(n, i)
  BY <1>1 DEF Place, Para
<1>4. p \in T!Paragraph
  BY <1>1 DEF TInv, TTypes, Para
<1>5. \A kind \in TableKinds :
        /\ NoneYet(kind) => IF T!Matches(p, kind) THEN FoundAt(kind, r, q)' ELSE NoneYet(kind)'
        /\ T!Matches(p, kind) => IsTable(kind, r, q)
        /\ \A n, i \in Nat : FoundAt(kind, n, i) => FoundAt(kind, n, i)' /\ ~T!Matches(p, kind)
  BY TSteps DEF TInv
<1>6. /\ ~(T!Matches(p, "mpfp") /\ T!Matches(p, "smbios"))
      /\ T!Matches(p, "mpfp") => pc_pointer' = T!FoundMpfp(p, at)
      /\ T!Matches(p, "smbios") => pc_pointer' = T!FoundSmbios(p, at)
      /\ ~T!Matches(p, "mpfp") /\ ~T!Matches(p, "smbios") => pc_pointer' = pc_pointer
  BY <1>1 DEF T!Matches
<1>7. /\ pc_pointer \in [length : Nat, mpfp : Places, mpfp_length : Nat, smbios : Places]
      /\ p.length \in Nat /\ at \in Places
  <2>1. at \in Places
    BY <1>1 DEF Places
  <2> QED BY <1>4, <2>1 DEF TInv, TTypes, T!Paragraph
<1> HIDE DEF p, at
<1>14. T!Matches(p, "mpfp") =>
        /\ pc_pointer' \in [length : Nat, mpfp : Places, mpfp_length : Nat, smbios : Places]
        /\ pc_pointer'.length = T!Size /\ pc_pointer'.smbios = pc_pointer.smbios
        /\ p.length # 0 => pc_pointer'.mpfp = at /\ pc_pointer'.mpfp_length = p.length
  BY <1>6, <1>7 DEF T!FoundMpfp, T!Size
<1>15. T!Matches(p, "smbios") =>
        /\ pc_pointer' \in [length : Nat, mpfp : Places, mpfp_length : Nat, smbios : Places]
        /\ pc_pointer'.length = T!Size /\ pc_pointer'.smbios = at
        /\ pc_pointer'.mpfp = pc_pointer.mpfp /\ pc_pointer'.mpfp_length = pc_pointer.mpfp_length
  BY <1>6, <1>7 DEF T!FoundSmbios, T!Size
<1>8. TTypes'
  <2>1. at \in Places /\ T!Null \in Places /\ Places' = Places
    BY <1>1, <1>3 DEF Places, at
  <2>2. pc_pointer' \in [length : Nat, mpfp : Places, mpfp_length : Nat, smbios : Places]
    BY <1>6, <1>7, <1>14, <1>15
  <2> QED BY <1>1, <2>1, <2>2, SMTT(30) DEF TInv, TTypes
<1>9. TRsdp'
  <2>1. CASE NoneYet("rsdp") /\ rsdt_pointer = T!NoRsdt /\ T!Matches(p, "rsdp")
    <3>1. FoundAt("rsdp", r, q)'
      BY <1>5, <2>1 DEF TableKinds
    <3>2. rsdt_pointer' = [length |-> T!Size, rsdt_address |-> Place(r, q)',
             xsdt_address |-> IF Para(r, q)'.revision > 0 /\ Para(r, q)'.extended_sum
                              THEN Place(r, q)' ELSE T!Null]
      BY <1>1, <2>1 DEF Place, Para, T!FoundRsdp, T!NoRsdt, p, at
    <3> QED BY <1>1, <3>1, <3>2 DEF TRsdp
  <2>2. CASE NoneYet("rsdp") /\ rsdt_pointer = T!NoRsdt /\ ~T!Matches(p, "rsdp")
    BY <1>1, <1>5, <2>2 DEF TRsdp, TableKinds
  <2>3. CASE ~(NoneYet("rsdp") /\ rsdt_pointer = T!NoRsdt)
    BY <1>1, <1>3, <1>5, <2>3 DEF TInv, TRsdp, TableKinds
  <2> QED BY <2>1, <2>2, <2>3
<1>10. TSmbios'
  <2>1. CASE NoneYet("smbios") /\ pc_pointer.smbios = T!Null /\ T!Matches(p, "smbios")
    <3>1. FoundAt("smbios", r, q)'
      BY <1>5, <2>1 DEF TableKinds
    <3>2. pc_pointer'.smbios = Place(r, q)' /\ pc_pointer'.length # 0
      BY <1>3, <1>15, <2>1 DEF T!Size, at
    <3> QED BY <3>1, <3>2 DEF TSmbios
  <2>2. ~T!Matches(p, "smbios") =>
          pc_pointer'.smbios = pc_pointer.smbios /\ (pc_pointer.length # 0 => pc_pointer'.length # 0)
    BY <1>6, <1>14 DEF T!Size
  <2>3. CASE NoneYet("smbios") /\ pc_pointer.smbios = T!Null /\ ~T!Matches(p, "smbios")
    BY <1>5, <2>2, <2>3 DEF TSmbios, TableKinds
  <2>4. CASE ~(NoneYet("smbios") /\ pc_pointer.smbios = T!Null)
    BY <1>3, <1>5, <2>2, <2>4 DEF TInv, TSmbios, TableKinds
  <2> QED BY <2>1, <2>3, <2>4
<1>11. ~T!Matches(p, "mpfp") => pc_pointer'.mpfp = pc_pointer.mpfp /\ pc_pointer'.mpfp_length = pc_pointer.mpfp_length
  BY <1>6, <1>15
<1>12. TMpfp'
  <2>1. CASE NoneYet("mpfp") /\ pc_pointer.mpfp = T!Null /\ pc_pointer.mpfp_length = 0 /\ T!Matches(p, "mpfp")
    <3>1. FoundAt("mpfp", r, q)' /\ IsTable("mpfp", r, q)
      BY <1>5, <2>1 DEF TableKinds
    <3>2. CASE p.length = 0
      BY <1>2, <1>3, <3>1, <3>2 DEF TMpfp, p
    <3>3. CASE p.length # 0
      <4>1. pc_pointer'.mpfp = Place(r, q)' /\ pc_pointer'.mpfp_length # 0
        BY <1>3, <1>7, <1>14, <2>1, <3>3 DEF at
      <4> QED BY <3>1, <4>1 DEF TMpfp
    <3> QED BY <3>2, <3>3
  <2>2. CASE NoneYet("mpfp") /\ pc_pointer.mpfp = T!Null /\ pc_pointer.mpfp_length = 0 /\ ~T!Matches(p, "mpfp")
    BY <1>5, <1>11, <2>2 DEF TMpfp, TableKinds
  <2>3. CASE ~(NoneYet("mpfp") /\ pc_pointer.mpfp = T!Null /\ pc_pointer.mpfp_length = 0)
    BY <1>2, <1>3, <1>5, <1>11, <2>3 DEF TInv, TMpfp, TableKinds
  <2> QED BY <2>1, <2>2, <2>3
<1>13. TLength'
  <2>1. CASE T!Matches(p, "mpfp") \/ T!Matches(p, "smbios")
    <3>1. pc_pointer'.length # 0
      BY <1>14, <1>15, <2>1 DEF T!Size
    <3> QED BY <1>2, <1>5, <2>1, <3>1 DEF TLength, TableKinds
  <2>2. CASE ~(T!Matches(p, "mpfp") \/ T!Matches(p, "smbios"))
    BY <1>2, <1>5, <1>6, <2>2 DEF TInv, TLength, TableKinds
  <2> QED BY <2>1, <2>2
<1> QED BY <1>8, <1>9, <1>10, <1>12, <1>13 DEF TInv

LEMMA TGoesOn == ASSUME TInv, T!NextRegion PROVE TInv'
<1>1. /\ region \in 1 .. 4 /\ region' = region + 1 /\ para' = 1
      /\ UNCHANGED <<firmware, rsdt_pointer, pc_pointer>>
      /\ searching' = IF region = 4 THEN {} ELSE T!Flags(region + 1, rsdt_pointer, pc_pointer)
  BY DEF TInv, TTypes, T!NextRegion
<1>2. \A n, i : Place(n, i)' = Place(n, i) /\ Para(n, i)' = Para(n, i)
  BY <1>1 DEF Place, Para
<1>3. \A kind \in TableKinds :
         /\ \A n, i : IsTable(kind, n, i)' <=> IsTable(kind, n, i)
         /\ NoneYet(kind) /\ (kind = "rsdp" => rsdt_pointer.length = 0)
              /\ (kind = "mpfp" => pc_pointer.mpfp_length = 0) => NoneYet(kind)'
         /\ \A n, i \in Nat :
              FoundAt(kind, n, i) /\ (kind = "rsdp" => rsdt_pointer.length # 0)
                /\ (kind = "mpfp" => pc_pointer.mpfp_length # 0) => FoundAt(kind, n, i)'
  BY TStepsOn
<1>4. TTypes'
  <2>1. searching' \in SUBSET TableKinds /\ \A kind \in searching' : region' \in RegionsOf(kind)
    BY <1>1 DEF T!Flags, TableKinds, RegionsOf
  <2>2. Places' = Places
    BY <1>2 DEF Places
  <2> QED BY <1>1, <2>1, <2>2 DEF TInv, TTypes
<1>5. TRsdp'
  BY <1>1, <1>2, <1>3 DEF TInv, TRsdp, TableKinds, T!NoRsdt, T!Size
<1>6. TSmbios'
  BY <1>1, <1>2, <1>3 DEF TInv, TSmbios, TableKinds
<1>7. TMpfp'
  BY <1>1, <1>2, <1>3 DEF TInv, TMpfp, TableKinds
<1>8. TLength'
  BY <1>1, <1>2, <1>3 DEF TInv, TLength, TableKinds
<1> QED BY <1>4, <1>5, <1>6, <1>7, <1>8 DEF TInv

LEMMA TValid ==
  ASSUME TInv, NEW kind \in TableKinds
  PROVE  /\ \A n, i \in Nat : <<n, i>> \in T!Valid(kind) <=> IsTable(kind, n, i)
         /\ T!Valid(kind) \subseteq Nat \X Nat
         /\ \A n, i \in Nat : FoundAt(kind, n, i) => T!FirstOf(T!Valid(kind)) = <<n, i>>
         /\ region > 4 /\ NoneYet(kind) => T!Valid(kind) = {}
<1> DEFINE Y == T!Valid(kind)
<1>1. Y = {p \in UNION {{n} \X DOMAIN T!Paragraphs(firmware, n) : n \in RegionsOf(kind)} :
             T!Paragraphs(firmware, p[1])[p[2]].signature = kind /\ T!Paragraphs(firmware, p[1])[p[2]].sum}
  BY DEF T!Valid, RegionsOf, TableKinds
<1> HIDE DEF Y
<1>2. \A n \in RegionsOf(kind) : n \in 1 .. 4 /\ DOMAIN T!Paragraphs(firmware, n) \subseteq Nat
  BY DEF TInv, TTypes, RegionsOf
<1>3. Y \subseteq Nat \X Nat
  BY <1>1, <1>2
<1>4. ASSUME NEW n \in Nat, NEW i \in Nat
      PROVE  <<n, i>> \in Y <=> IsTable(kind, n, i)
  BY <1>1 DEF IsTable
<1>5. ASSUME NEW n \in Nat, NEW i \in Nat, FoundAt(kind, n, i)
      PROVE  T!FirstOf(Y) = <<n, i>>
  <2> DEFINE F(p) == \A q \in Y : p[1] < q[1] \/ (p[1] = q[1] /\ p[2] <= q[2])
  <2>1. <<n, i>> \in Y /\ F(<<n, i>>)
    BY <1>3, <1>4, <1>5 DEF FoundAt
  <2>2. \A p \in Y : F(p) => p = <<n, i>>
    BY <1>3, <2>1
  <2>3. T!FirstOf(Y) = CHOOSE p \in Y : F(p)
    BY DEF T!FirstOf
  <2> HIDE DEF F
  <2> QED BY <2>1, <2>2, <2>3
<1>6. ASSUME region > 4, NoneYet(kind)
      PROVE  Y = {}
  <2> SUFFICES ASSUME NEW p \in Y PROVE FALSE
    OBVIOUS
  <2>1. PICK n \in Nat, i \in Nat : p = <<n, i>>
    BY <1>3
  <2>2. IsTable(kind, n, i) /\ n \in 1 .. 4
    BY <1>2, <1>4, <2>1 DEF IsTable
  <2>3. Searched(n, i)
    BY <1>6, <2>2 DEF Searched, TInv, TTypes
  <2> QED BY <1>6, <2>2, <2>3 DEF NoneYet
<1> QED BY <1>3, <1>4, <1>5, <1>6 DEF Y

(* tables_init reports the first valid table of each kind in the regions   *)
(* its kind is looked for in, and null only if there is none.              *)
THEOREM FirstTablesReportedAlways == Spec => []FirstTablesReported
<1>1. TInv /\ [Next]_vars => TInv'
  BY Steps, TKept, TSearches, TGoesOn DEF T!Next
<1>2. TInv => FirstTablesReported
  <2> SUFFICES ASSUME TInv, region > 4 PROVE FirstTablesReported
    BY DEF FirstTablesReported, T!FirstTablesReported, T!Ended
  <2>1. \A kind \in TableKinds :
          /\ \A n, i \in Nat : <<n, i>> \in T!Valid(kind) <=> IsTable(kind, n, i)
          /\ \A n, i \in Nat : FoundAt(kind, n, i) =>
                /\ T!FirstOf(T!Valid(kind)) = <<n, i>> /\ T!Valid(kind) # {}
                /\ T!At(T!Valid(kind)) = Place(n, i)
                /\ T!Described(<<n, i>>) = Para(n, i)
          /\ NoneYet(kind) => T!Valid(kind) = {} /\ T!At(T!Valid(kind)) = T!Null
    BY TValid DEF T!At, Place, Para, T!Described, FoundAt
  <2>2. /\ rsdt_pointer.rsdt_address = T!At(T!Valid("rsdp"))
        /\ rsdt_pointer.length # 0 <=> T!Valid("rsdp") # {}
        /\ rsdt_pointer.xsdt_address =
             IF T!Valid("rsdp") # {} /\ T!Described(T!FirstOf(T!Valid("rsdp"))).revision > 0
                         /\ T!Described(T!FirstOf(T!Valid("rsdp"))).extended_sum
             THEN T!At(T!Valid("rsdp")) ELSE T!Null
    <3>1. CASE NoneYet("rsdp") /\ rsdt_pointer = T!NoRsdt
      BY <2>1, <3>1 DEF TableKinds, T!NoRsdt
    <3>2. CASE ~(NoneYet("rsdp") /\ rsdt_pointer = T!NoRsdt)
      <4> PICK n \in Nat, i \in Nat :
               /\ FoundAt("rsdp", n, i)
               /\ rsdt_pointer =
                    [length |-> T!Size, rsdt_address |-> Place(n, i),
                     xsdt_address |-> IF Para(n, i).revision > 0 /\ Para(n, i).extended_sum
                                      THEN Place(n, i) ELSE T!Null]
        BY <3>2 DEF TInv, TRsdp
      <4>1. /\ T!FirstOf(T!Valid("rsdp")) = <<n, i>> /\ T!Valid("rsdp") # {}
            /\ T!At(T!Valid("rsdp")) = Place(n, i) /\ T!Described(<<n, i>>) = Para(n, i)
        BY <2>1 DEF TableKinds
      <4> QED BY <4>1 DEF T!Size
    <3> QED BY <3>1, <3>2
  <2>3. pc_pointer.smbios = T!At(T!Valid("smbios")) /\ (T!Valid("smbios") # {} => pc_pointer.length # 0)
    BY <2>1 DEF TInv, TSmbios, TableKinds
  <2>4. pc_pointer.length # 0 <=> T!Valid("mpfp") \cup T!Valid("smbios") # {}
    BY <2>1, <2>3 DEF TInv, TLength, TableKinds
  <2>5. (\A p \in T!Valid("mpfp") : T!Described(p).length # 0) => pc_pointer.mpfp = T!At(T!Valid("mpfp"))
    BY <2>1 DEF TInv, TMpfp, TableKinds, T!Described, Para
  <2> QED BY <2>2, <2>3, <2>4, <2>5 DEF FirstTablesReported, T!FirstTablesReported
<1> QED BY <1>1, <1>2, TInit, PTL DEF Spec

-----------------------------------------------------------------------------
(* The video mode.  What was put on the list: the mode in new_mode is what *)
(* vbe_init makes of one of the adapter's modes.                           *)
TakenFrom(info, m) == LET x == V!Examined(video.version, info) IN x.taken /\ m = x.mode

VTypes ==
  /\ video.version \in Nat /\ video.modes \in Seq(V!ModeInfo)
  /\ \A i, j \in DOMAIN video.modes :
       video.modes[i].id = video.modes[j].id => video.modes[i] = video.modes[j]
  /\ vpc[1] \in {"card", "info", "mode", "set", "ramp", "palette", "returned"}
  /\ vpc[1] = "mode" => vpc[2] \in Nat \ {0}
  /\ ramp \in 6 .. 8

VMode ==
  /\ verdict = "taken" => \E i \in DOMAIN video.modes : TakenFrom(video.modes[i], new_mode)
  /\ verdict = "skipped" => new_mode.use_lfb = FALSE /\ new_mode.lfb_address = 0

VFb ==
  /\ vpc[1] # "returned" => fb = V!NoMode
  /\ fb # V!NoMode => fb = new_mode /\ (V!Indexed(fb) => palette = V!Colours(fb, ramp))

VInv == VTypes /\ VMode /\ VFb

LEMMA VInit == Init => VInv
<1> SUFFICES ASSUME Init PROVE VInv
  OBVIOUS
<1> PICK m \in Machines : video = m.video
  BY DEF Init
<1>1. V!Begin
  BY DEF Init
<1> QED BY <1>1, MachinesAssumption DEF VInv, VTypes, VMode, VFb, V!Begin

LEMMA VKept == ASSUME VInv, UNCHANGED vbe PROVE VInv'
<1>1. VTypes'
  BY DEF vbe, VInv, VTypes
<1>2. VMode' /\ VFb'
  BY DEF vbe, VInv, VMode, VFb, TakenFrom
<1> QED BY <1>1, <1>2 DEF VInv

(* A mode that is skipped has no address yet.                              *)
LEMMA VSkipped ==
  ASSUME NEW v, NEW info, ~V!Examined(v, info).taken
  PROVE  LET m == V!Examined(v, info).mode IN m.use_lfb = FALSE /\ m.lfb_address = 0
<1> DEFINE o == V!Outline(info)  s == V!Shaped(v, info)  c == V!Coloured(v, info)
<1>1. DOMAIN V!ZeroMode = {"id", "use_lfb", "type", "vga", "width", "height", "depth",
                           "bytes_per_scanline", "masks", "lfb_address"}
      /\ V!ZeroMode.use_lfb = FALSE /\ V!ZeroMode.lfb_address = 0
  BY DEF V!ZeroMode
<1>2. o.use_lfb = FALSE /\ o.lfb_address = 0 /\ DOMAIN o = DOMAIN V!ZeroMode
  BY <1>1, Zenon DEF V!Outline
<1>3. s.use_lfb = FALSE /\ s.lfb_address = 0 /\ DOMAIN s = DOMAIN V!ZeroMode
  <2>1. CASE V!Predefined(v, info)
    BY <1>1, <1>2, <2>1, Zenon DEF V!Shaped
  <2>2. CASE ~V!Predefined(v, info)
    BY <1>1, <1>2, <2>2, Zenon DEF V!Shaped
  <2> QED BY <2>1, <2>2
<1>4. c.use_lfb = FALSE /\ c.lfb_address = 0
  BY <1>1, <1>3, Zenon DEF V!Coloured
<1>5. V!Examined(v, info).mode \in {V!ZeroMode, o, s, c}
  BY Zenon DEF V!Examined
<1> QED BY <1>1, <1>2, <1>3, <1>4, <1>5

LEMMA VSteps == ASSUME VInv, V!Next PROVE VInv'
<1> USE DEF V!Goto, V!Return, V!Switching
<1>1. CASE V!CheckCard \/ V!GetInfo \/ V!ModeUnsupported \/ V!ModeUnsuccessful \/ V!EndOfModes
  <2>1. /\ UNCHANGED <<video, new_mode, verdict, palette, ramp, fb>> /\ vpc[1] # "returned"
        /\ vpc'[1] \in {"info", "mode", "set", "returned"}
        /\ vpc'[1] = "mode" => vpc'[2] \in Nat \ {0}
    BY <1>1 DEF V!CheckCard, V!GetInfo, V!ModeUnsupported, V!ModeUnsuccessful, V!EndOfModes, VInv, VTypes
  <2>2. VTypes'
    BY <2>1 DEF VInv, VTypes
  <2> QED BY <2>1, <2>2 DEF VInv, VMode, VFb, TakenFrom
<1>2. CASE V!GetMode
  <2>1. PICK i \in DOMAIN video.modes : i = vpc[2] 
    BY <1>2 DEF V!GetMode, VInv, VTypes
  <2> DEFINE x == V!Examined(video.version, video.modes[i])
  <2>2. /\ new_mode' = x.mode /\ verdict' = (IF x.taken THEN "taken" ELSE "skipped")
        /\ UNCHANGED <<video, palette, ramp, fb>>
        /\ vpc[1] = "mode" /\ vpc'[1] \in {"mode", "set", "returned"}
        /\ vpc'[1] = "mode" => vpc'[2] \in Nat \ {0}
    BY <1>2, <2>1 DEF V!GetMode, VInv, VTypes
  <2>3. VMode'
    <3>1. CASE x.taken
      BY <2>2, <3>1 DEF VMode, TakenFrom
    <3>2. CASE ~x.taken
      <4>1. x.mode.use_lfb = FALSE /\ x.mode.lfb_address = 0
        BY <3>2, VSkipped
      <4> HIDE DEF x
      <4> QED BY <2>2, <3>2, <4>1 DEF VMode
    <3> QED BY <3>1, <3>2
  <2> HIDE DEF x
  <2>4. VTypes'
    BY <2>2 DEF VInv, VTypes
  <2>5. VFb'
    BY <2>2 DEF VInv, VFb
  <2> QED BY <2>3, <2>4, <2>5 DEF VInv
<1>3. CASE V!SetMode
  <2>1. /\ UNCHANGED <<video, new_mode, verdict, palette, ramp>> /\ vpc[1] # "returned"
        /\ vpc'[1] \in {"ramp", "returned"}
        /\ fb' = fb \/ (fb' = new_mode /\ ~V!Indexed(new_mode) /\ vpc'[1] = "returned")
    BY <1>3 DEF V!SetMode
  <2>2. VTypes'
    BY <2>1 DEF VInv, VTypes
  <2> QED BY <2>1, <2>2 DEF VInv, VMode, VFb, TakenFrom
<1>4. CASE V!GetRamp
  <2>1. /\ UNCHANGED <<video, new_mode, verdict, palette, fb>> /\ vpc[1] # "returned"
        /\ vpc'[1] = "palette" /\ ramp' \in 6 .. 8
    BY <1>4, SizesAssumption DEF V!GetRamp
  <2>2. VTypes'
    BY <2>1 DEF VInv, VTypes
  <2> QED BY <2>1, <2>2 DEF VInv, VMode, VFb, TakenFrom
<1>5. CASE V!SetPalette
  <2>1. /\ UNCHANGED <<video, new_mode, verdict, ramp>> /\ vpc[1] # "returned"
        /\ vpc'[1] = "returned"
        /\ UNCHANGED <<palette, fb>> \/ (palette' = V!Colours(new_mode, ramp) /\ fb' = new_mode)
    BY <1>5 DEF V!SetPalette
  <2>2. VTypes'
    BY <2>1 DEF VInv, VTypes
  <2> QED BY <2>1, <2>2 DEF VInv, VMode, VFb, TakenFrom
<1> QED BY <1>1, <1>2, <1>3, <1>4, <1>5 DEF V!Next

(* The mode on the list is made of a mode of the adapter, and the palette  *)
(* is that of the framebuffer's mode.                                      *)
THEOREM VInvariant == Spec => []VInv
<1>1. VInv /\ [Next]_vars => VInv'
  BY Steps, VKept, VSteps
<1> QED BY <1>1, VInit, PTL DEF Spec

(* What ConsoleOnScreen and PixelsShowColours ask of a mode made of info.  *)
OnScreen(v, info, m) ==
  /\ m.id = info.id
  /\ IF m.use_lfb
     THEN /\ v >= 512 /\ "linear" \in info.attributes
          /\ m.lfb_address = info.lfb_address
          /\ m.bytes_per_scanline = IF v >= 768 THEN info.lin_bytes_per_scanline
                                    ELSE info.bytes_per_scanline
     ELSE /\ m.lfb_address \in {16 * info.window_a.seg, 16 * info.window_b.seg} \ {0}
          /\ m.bytes_per_scanline = info.bytes_per_scanline
          /\ m.height * m.bytes_per_scanline <= 1024 * info.window_size
  /\ V!Indexed(m) => m.masks = V!PackedFields(8)

LEMMA VExamined ==
  ASSUME NEW v \in Nat, NEW info \in V!ModeInfo, V!Examined(v, info).taken
  PROVE  OnScreen(v, info, V!Examined(v, info).mode)
<1> DEFINE s == V!Shaped(v, info)  c == V!Coloured(v, info)  f == V!Flat(v, info)
           seg == V!WindowSegment(info)
<1>1. s.id = info.id /\ s.use_lfb = FALSE /\ s.bytes_per_scanline = info.bytes_per_scanline
  <2>1. CASE V!Predefined(v, info)
    BY <2>1, Zenon DEF V!Shaped, V!Outline, V!ZeroMode
  <2>2. CASE ~V!Predefined(v, info)
    BY <2>2, Zenon DEF V!Shaped, V!Outline, V!ZeroMode
  <2> QED BY <2>1, <2>2
<1>2. DOMAIN s = DOMAIN V!ZeroMode
  BY Zenon DEF V!Shaped, V!Outline
<1>3. /\ c = [s EXCEPT !.depth = IF @ = 15 THEN 16 ELSE @,
               !.masks = CASE s.type = "direct" -> info.masks
                           [] s.type = "packed" -> V!PackedFields(s.depth)
                           [] s.type = "text"   -> V!NoFields]
      /\ f = [c EXCEPT !.use_lfb = TRUE, !.lfb_address = info.lfb_address,
        !.bytes_per_scanline = IF v >= 768 THEN info.lin_bytes_per_scanline ELSE @,
        !.masks = IF v >= 768 /\ c.type = "direct" THEN info.lin_masks ELSE @]
  BY DEF V!Coloured, V!Flat
<1> HIDE DEF s, c, f, seg
<1>4. DOMAIN c = DOMAIN V!ZeroMode
  BY <1>2, <1>3, Zenon

<1>5. DOMAIN V!ZeroMode = {"id", "use_lfb", "type", "vga", "width", "height", "depth",
                           "bytes_per_scanline", "masks", "lfb_address"}
  BY DEF V!ZeroMode
<1>6. /\ c.id = s.id /\ c.use_lfb = s.use_lfb /\ c.bytes_per_scanline = s.bytes_per_scanline
      /\ c.height = s.height /\ c.type = s.type /\ c.depth = IF s.depth = 15 THEN 16 ELSE s.depth
      /\ c.masks = CASE s.type = "direct" -> info.masks
                     [] s.type = "packed" -> V!PackedFields(s.depth)
                     [] s.type = "text"   -> V!NoFields
  BY <1>2, <1>3, <1>5, Zenon
<1>7. c.depth = 8 /\ c.type = "packed" => c.masks = V!PackedFields(8)
  <2> SUFFICES ASSUME c.depth = 8, c.type = "packed" PROVE c.masks = V!PackedFields(8)
    OBVIOUS
  <2>1. s.depth = 8 /\ s.type = "packed"
    BY <1>6
  <2> QED BY <1>6, <2>1, Zenon
<1>8. /\ f.id = c.id /\ f.use_lfb = TRUE /\ f.lfb_address = info.lfb_address
      /\ f.bytes_per_scanline = IF v >= 768 THEN info.lin_bytes_per_scanline ELSE c.bytes_per_scanline
      /\ f.type = c.type /\ f.depth = c.depth
      /\ f.masks = IF v >= 768 /\ c.type = "direct" THEN info.lin_masks ELSE c.masks
  BY <1>3, <1>4, <1>5, ZenonT(40)
<1>9. CASE V!Linear(v, info)
  <2>1. V!Examined(v, info).mode = f
    BY <1>9, Zenon DEF V!Examined, f
  <2>2. f.id = info.id /\ f.use_lfb /\ v >= 512 /\ "linear" \in info.attributes
    BY <1>1, <1>6, <1>8, <1>9 DEF V!Linear
  <2>3. V!Indexed(f) => f.masks = V!PackedFields(8)
    BY <1>7, <1>8 DEF V!Indexed
  <2>4. f.bytes_per_scanline = IF v >= 768 THEN info.lin_bytes_per_scanline ELSE info.bytes_per_scanline
    BY <1>1, <1>6, <1>8
  <2>5. f.lfb_address = info.lfb_address
    BY <1>8
  <2>6. OnScreen(v, info, f)
    BY <2>2, <2>3, <2>4, <2>5 DEF OnScreen
  <2> QED BY <2>1, <2>6
<1>10. CASE ~V!Linear(v, info)
  <2> DEFINE w == [c EXCEPT !.lfb_address = seg * 16]
  <2>1. V!Examined(v, info).mode = w /\ V!FitsWindow(c, info) /\ seg # 0
    BY <1>10, Zenon DEF V!Examined, c, seg
  <2>2. /\ w.id = c.id /\ w.use_lfb = c.use_lfb /\ w.bytes_per_scanline = c.bytes_per_scanline
        /\ w.height = c.height /\ w.type = c.type /\ w.depth = c.depth /\ w.masks = c.masks
        /\ w.lfb_address = seg * 16
    BY <1>4, <1>5, Zenon
  <2>3. seg \in {info.window_a.seg, info.window_b.seg} /\ seg \in Nat \ {0}
    <3>1. seg \in {info.window_a.seg, info.window_b.seg, 0}
      BY Zenon DEF seg, V!WindowSegment
    <3> QED BY <2>1, <3>1 DEF V!ModeInfo, V!Window
  <2> HIDE DEF w
  <2>4. w.lfb_address \in {16 * info.window_a.seg, 16 * info.window_b.seg} \ {0}
    BY <2>2, <2>3
  <2>5. w.height * w.bytes_per_scanline <= 1024 * info.window_size
    <3>1. c.height * c.bytes_per_scanline \in Int
      <4>1. s.height \in Nat
        <5>1. CASE V!Predefined(v, info)
          <6>1. s.height = V!vesa_defined_modes[V!Number(info)][2]
            BY <5>1, Zenon DEF s, V!Shaped, V!Outline, V!ZeroMode
          <6>2. V!Number(info) \in DOMAIN V!vesa_defined_modes
            BY <5>1, Zenon DEF V!Examined, V!HasShape
          <6>3. \A n \in DOMAIN V!vesa_defined_modes : V!vesa_defined_modes[n][2] \in Nat
            BY SMTT(60) DEF V!vesa_defined_modes
          <6> QED BY <6>1, <6>2, <6>3
        <5>2. CASE ~V!Predefined(v, info)
          <6>1. s.height = info.height
            BY <5>2, Zenon DEF s, V!Shaped, V!Outline, V!ZeroMode
          <6> QED BY <6>1 DEF V!ModeInfo
        <5> QED BY <5>1, <5>2
      <4>2. s.bytes_per_scanline \in Nat
        BY <1>1 DEF V!ModeInfo
      <4> QED BY <1>6, <4>1, <4>2
    <3>2. info.window_size \in Nat
      BY DEF V!ModeInfo
    <3> QED BY <2>1, <2>2, <3>1, <3>2 DEF V!FitsWindow
  <2>6. V!Indexed(w) => w.masks = V!PackedFields(8)
    BY <1>7, <2>2 DEF V!Indexed
  <2>7. w.id = info.id /\ ~w.use_lfb /\ w.bytes_per_scanline = info.bytes_per_scanline
    BY <1>1, <1>6, <2>2
  <2>8. V!Examined(v, info).mode = w
    BY <2>1
  <2>9. OnScreen(v, info, w)
    BY <2>4, <2>5, <2>6, <2>7 DEF OnScreen
  <2> QED BY <2>8, <2>9
<1> QED BY <1>9, <1>10

(* If the mode the code switches to was taken, the console draws in the    *)
(* linear frame buffer or the window of that mode, and all of it fits; if  *)
(* it was skipped, the console draws from address 0 on.                    *)
THEOREM ConsoleOnScreenAlways == Spec => []ConsoleOnScreen
<1>1. VInv => ConsoleOnScreen
  <2>0. ASSUME VInv, fb # V!NoMode, verdict = "skipped"
        PROVE  ~fb.use_lfb /\ fb.lfb_address = 0
    BY <2>0 DEF VInv, VMode, VFb
  <2> SUFFICES ASSUME VInv, fb # V!NoMode, verdict = "taken"
               PROVE  V!ConsoleOnScreen
    BY <2>0 DEF ConsoleOnScreen, V!ConsoleOnScreen
  <2>1. PICK i \in DOMAIN video.modes : TakenFrom(video.modes[i], fb)
    BY DEF VInv, VMode, VFb
  <2> DEFINE info == video.modes[i]
  <2>2. info \in V!ModeInfo /\ video.version \in Nat
    BY DEF VInv, VTypes
  <2>3. OnScreen(video.version, info, fb)
    BY <2>1, <2>2, VExamined DEF TakenFrom
  <2>4. V!InfoOf(fb) = info
    <3>1. info \in {video.modes[j] : j \in DOMAIN video.modes} /\ info.id = fb.id
      BY <2>3 DEF OnScreen
    <3>2. \A k \in {video.modes[j] : j \in DOMAIN video.modes} : k.id = fb.id => k = info
      BY <3>1 DEF VInv, VTypes
    <3> QED BY <3>1, <3>2 DEF V!InfoOf
  <2> HIDE DEF info
  <2> QED BY <2>3, <2>4 DEF V!ConsoleOnScreen, OnScreen
<1> QED BY <1>1, VInvariant, PTL

(* The three fields of the pixel rrrgggbb, at any width of the registers.  *)
Shown(i, r, g, b, bits) ==
  /\ V!Level(i, <<3, 5>>, bits) \div 2^(bits - 3) = r
  /\ V!Level(i, <<3, 2>>, bits) \div 2^(bits - 3) = g
  /\ V!Level(i, <<2, 0>>, bits) \div 2^(bits - 2) = b

LEMMA VLevels ==
  ASSUME NEW r \in 0 .. 7, NEW g \in 0 .. 7, NEW b \in 0 .. 3, NEW bits \in 6 .. 8,
         NEW i \in Nat, i = r * 32 + g * 4 + b
  PROVE  Shown(i, r, g, b, bits)
<1>1. (i \div 32) % 8 = r /\ (i \div 4) % 8 = g /\ i % 4 = b
  OBVIOUS
<1>2. V!Level(i, <<3, 5>>, bits) = ((r * 32) % 256) \div 2^(8 - bits)
  BY <1>1 DEF V!Level
<1>3. V!Level(i, <<3, 2>>, bits) = ((g * 32) % 256) \div 2^(8 - bits)
  BY <1>1 DEF V!Level
<1>4. V!Level(i, <<2, 0>>, bits) = ((b * 64) % 256) \div 2^(8 - bits)
  BY <1>1 DEF V!Level
<1>5. CASE bits = 6
  BY <1>2, <1>3, <1>4, <1>5 DEF Shown
<1>6. CASE bits = 7
  BY <1>2, <1>3, <1>4, <1>6 DEF Shown
<1>7. CASE bits = 8
  BY <1>2, <1>3, <1>4, <1>7 DEF Shown
<1> QED BY <1>5, <1>6, <1>7

(* In a mode with a palette that was taken, a pixel of the console shows   *)
(* its colour, for every width of the palette's registers.                 *)
THEOREM PixelsShowColoursAlways == Spec => []PixelsShowColours
<1>1. VInv => PixelsShowColours
  <2> SUFFICES ASSUME VInv, fb # V!NoMode, verdict = "taken", V!Indexed(fb),
                      NEW r \in 0 .. 7, NEW g \in 0 .. 7, NEW b \in 0 .. 3
               PROVE  LET c == palette[r * 2^fb.masks.red[2] + g * 2^fb.masks.green[2]
                                         + b * 2^fb.masks.blue[2]]
                      IN /\ c[1] \div 2^(ramp - 3) = r /\ c[2] \div 2^(ramp - 3) = g
                         /\ c[3] \div 2^(ramp - 2) = b
    BY DEF PixelsShowColours, V!PixelsShowColours
  <2>1. PICK n \in DOMAIN video.modes : TakenFrom(video.modes[n], fb)
    BY DEF VInv, VMode, VFb
  <2>2. OnScreen(video.version, video.modes[n], fb)
    BY <2>1, VExamined DEF TakenFrom, VInv, VTypes
  <2>3. fb.masks.red = <<3, 5>> /\ fb.masks.green = <<3, 2>> /\ fb.masks.blue = <<2, 0>>
    BY <2>2 DEF OnScreen, V!PackedFields
  <2> DEFINE i == r * 32 + g * 4 + b
  <2>4. r * 2^fb.masks.red[2] + g * 2^fb.masks.green[2] + b * 2^fb.masks.blue[2] = i
    BY <2>3
  <2>5. i \in 0 .. 255
    OBVIOUS
  <2>6. palette = V!Colours(fb, ramp) /\ ramp \in 6 .. 8
    BY DEF VInv, VFb, VTypes
  <2>7. palette[i] = <<V!Level(i, <<3, 5>>, ramp), V!Level(i, <<3, 2>>, ramp),
                       V!Level(i, <<2, 0>>, ramp)>>
    BY <2>3, <2>5, <2>6 DEF V!Colours
  <2>8. Shown(i, r, g, b, ramp)
    <3>1. i \in Nat /\ i = r * 32 + g * 4 + b
      BY <2>5
    <3> QED BY <2>6, <3>1, VLevels
  <2> HIDE DEF i
  <2>9. /\ palette[i][1] = V!Level(i, <<3, 5>>, ramp)
        /\ palette[i][2] = V!Level(i, <<3, 2>>, ramp)
        /\ palette[i][3] = V!Level(i, <<2, 0>>, ramp)
    BY <2>7
  <2>10. /\ palette[i][1] \div 2^(ramp - 3) = r /\ palette[i][2] \div 2^(ramp - 3) = g
         /\ palette[i][3] \div 2^(ramp - 2) = b
    BY <2>8, <2>9, Zenon DEF Shown
  <2> QED BY <2>4, <2>10, Zenon
<1> QED BY <1>1, VInvariant, PTL

-----------------------------------------------------------------------------
(* The CD as a device.  Sizes are numbers.                                 *)
CSizes ==
  /\ Sector \in Nat \ {0} /\ Scratch \in Nat /\ Room \in Nat /\ MaxBlocks \in Nat
  /\ Top \in Nat

LEMMA CProducts ==
  ASSUME NEW s \in Nat, NEW k \in Nat, NEW m \in Nat, k <= m
  PROVE  k * s \in Nat /\ m * s \in Nat /\ k * s <= m * s
  OBVIOUS

LEMMA CPositiveProduct ==
  ASSUME NEW s \in Nat \ {0}, NEW k \in Nat \ {0}
  PROVE  k * s \in Nat /\ k * s > 0
  OBVIOUS

LEMMA CDivision ==
  ASSUME NEW s \in Nat \ {0}, NEW n \in Nat
  PROVE  /\ n \div s \in Nat /\ n % s \in Nat /\ n % s < s
         /\ n = s * (n \div s) + (n % s)
         /\ (n \div s) * s <= n
  OBVIOUS

LEMMA CWholeSectorsOf ==
  ASSUME CSizes, NEW n \in Nat
  PROVE  /\ C!WholeSectors(n) \in Nat /\ C!WholeSectors(n) <= n
         /\ C!WholeSectors(n) = 0 => n < Sector
  <1>1. n \div Sector \in Nat /\ n % Sector \in Nat /\ n % Sector < Sector
        /\ n % Sector <= n
    BY CDivision DEF CSizes
  <1> QED BY <1>1 DEF C!WholeSectors, CSizes

CRequest == [buf : Nat, nbytes : 0 .. Room, offset : Nat, packet : Nat]

CTypes ==
  /\ request \in CRequest /\ nbytes \in Nat /\ nbytes <= request.nbytes
  /\ lba_packet \in [blocks : Nat, lba : Nat, to : {"buf", "scratch"}]
  /\ memory \in [buf : [0 .. Room - 1 -> Int], scratch : [0 .. Scratch - 1 -> Int]]
  /\ nbytesread \in Nat

(* What the packet asks for, or what was read, fits where it goes.         *)
CFits ==
  /\ lba_packet.blocks * Sector <= request.nbytes
  /\ lba_packet.to = "scratch" => lba_packet.blocks * Sector <= Scratch
  /\ lba_packet.to = "buf" /\ lba_packet.blocks # 0 =>
       request.buf + lba_packet.blocks * Sector <= Top

CRestUntouched == \A i \in 0 .. Room - 1 : i >= request.nbytes => memory.buf[i] = C!Old

(* Before pread returns nothing was reported, and before the BIOS is asked *)
(* the size is the caller's or one sector.                                 *)
CUnderway ==
  /\ cpc \in {"called", "bios", "failed", "read", "returned"}
  /\ cpc = "called" => nbytes \in {request.nbytes, Sector}
  /\ cpc \in {"bios", "read"} => lba_packet.lba * Sector = request.offset
  /\ cpc = "read" =>
       /\ lba_packet.blocks # 0
       /\ \A i \in 0 .. lba_packet.blocks * Sector - 1 :
            memory[lba_packet.to][i] = request.offset + i
  /\ cpc # "returned" => nbytesread = 0

CAnswered ==
  cpc = "returned" =>
    /\ status = "0" => \A i \in 0 .. nbytesread - 1 : memory.buf[i] = request.offset + i
    /\ status # "0" => nbytesread = 0
    /\ status = "0" /\ nbytesread = 0 => request.nbytes < Sector

CInv == CTypes /\ CFits /\ CRestUntouched /\ CUnderway /\ CAnswered

LEMMA CBegins == ASSUME CSizes, Init PROVE CInv
  <1> USE DEF CSizes, C!Begin
  <1>0. C!Begin /\ request \in CRequest
    BY MachinesAssumption DEF Init, CRequest
  <1>1. request \in CRequest
    BY <1>0
  <1>2. 0 * Sector = 0
    OBVIOUS
  <1>3. memory = C!Fresh /\ lba_packet = C!NoPacket /\ nbytes = request.nbytes /\ cpc = "called"
        /\ nbytesread = 0
    BY <1>0
  <1>4. CTypes
    BY <1>1, <1>3 DEF CTypes, C!Fresh, C!NoPacket, CRequest, C!Old
  <1>5. CFits
    BY <1>1, <1>2, <1>3 DEF CFits, C!NoPacket, CRequest
  <1>6. CRestUntouched
    BY <1>3 DEF CRestUntouched, C!Fresh
  <1> QED BY <1>1, <1>3, <1>4, <1>5, <1>6 DEF CInv, CUnderway, CAnswered, CRequest

LEMMA CRefuses == ASSUME CSizes, CInv, C!Refuse PROVE CInv'
  BY DEF CInv, CTypes, CFits, CRestUntouched, CUnderway, CAnswered, C!Refuse, C!Misaligned, C!Return,
         CSizes, CRequest

LEMMA CNothingToRead == ASSUME CSizes, CInv, C!Nothing PROVE CInv'
  <1>1. nbytes < Sector
    BY CWholeSectorsOf DEF CInv, CTypes, C!Nothing
  <1>2. request.nbytes < Sector
    BY <1>1 DEF CInv, CTypes, CUnderway, C!Nothing, CSizes
  <1> QED BY <1>2
    DEF CInv, CTypes, CFits, CRestUntouched, CUnderway, CAnswered, C!Nothing, C!Return,
        CSizes, CRequest

LEMMA CGivesUp == ASSUME CSizes, CInv, C!GiveUp PROVE CInv'
  BY DEF CInv, CTypes, CFits, CRestUntouched, CUnderway, CAnswered, C!GiveUp, C!Return,
         CSizes, CRequest

LEMMA CRetries == ASSUME CSizes, CInv, C!Retry PROVE CInv'
  BY DEF CInv, CTypes, CFits, CRestUntouched, CUnderway, CAnswered, C!Retry,
         CSizes, CRequest

LEMMA CClampedFits ==
  ASSUME CSizes, NEW n \in Nat, NEW buf \in Nat
  PROVE  /\ C!Clamped(n, buf) \in Nat /\ C!Clamped(n, buf) <= n
         /\ buf > Top - Sector => C!Clamped(n, buf) <= Scratch
         /\ ~(buf > Top - Sector) => buf + C!Clamped(n, buf) <= Top
  <1> USE DEF CSizes
  <1>1. CASE buf > Top - Sector
    <2>1. C!WholeSectors(Scratch) \in Nat /\ C!WholeSectors(Scratch) <= Scratch
      BY CWholeSectorsOf
    <2> QED BY <1>1, <2>1 DEF C!Clamped, C!Lower
  <1>2. CASE ~(buf > Top - Sector)
    <2>1. Top - buf \in Nat
      BY <1>2
    <2>2. C!WholeSectors(Top - buf) \in Nat /\ C!WholeSectors(Top - buf) <= Top - buf
      BY <2>1, CWholeSectorsOf
    <2> QED BY <1>2, <2>2 DEF C!Clamped, C!Lower
  <1> QED BY <1>1, <1>2

LEMMA CPrepares == ASSUME CSizes, CInv, C!Prepare PROVE CInv'
  <1> DEFINE c == C!Clamped(C!WholeSectors(nbytes), request.buf)
             b == C!Lower(MaxBlocks, c \div Sector)
  <1>1. request \in CRequest /\ nbytes \in Nat /\ request.buf \in Nat /\ request.offset \in Nat
    BY DEF CInv, CTypes, CRequest
  <1>2. C!WholeSectors(nbytes) \in Nat /\ C!WholeSectors(nbytes) <= nbytes
    BY <1>1, CWholeSectorsOf
  <1>3. /\ c \in Nat /\ c <= nbytes
        /\ request.buf > Top - Sector => c <= Scratch
        /\ ~(request.buf > Top - Sector) => request.buf + c <= Top
    <2>1. /\ c \in Nat /\ c <= C!WholeSectors(nbytes)
          /\ request.buf > Top - Sector => c <= Scratch
          /\ ~(request.buf > Top - Sector) => request.buf + c <= Top
      BY <1>1, <1>2, CClampedFits
    <2> HIDE DEF c
    <2> QED BY <1>1, <1>2, <2>1
  <1>4. c \div Sector \in Nat /\ (c \div Sector) * Sector <= c
    BY <1>3, CDivision DEF CSizes
  <1>5. b \in Nat /\ b <= c \div Sector
    BY <1>4 DEF C!Lower, CSizes
  <1>6. b * Sector \in Nat /\ b * Sector <= c
    <2>1. (c \div Sector) * Sector \in Nat /\ b * Sector \in Nat
          /\ b * Sector <= (c \div Sector) * Sector
      BY <1>4, <1>5, CProducts DEF CSizes
    <2> QED BY <1>3, <1>4, <2>1
  <1>7. request.offset \div Sector \in Nat
        /\ (request.offset \div Sector) * Sector = request.offset
    <2>1. request.offset % Sector = 0
      BY DEF C!Prepare, C!Misaligned
    <2>2. request.offset \div Sector \in Nat
          /\ request.offset = Sector * (request.offset \div Sector) + (request.offset % Sector)
      BY <1>1, CDivision DEF CSizes
    <2> QED BY <2>1, <2>2 DEF CSizes
  <1>8. /\ nbytes' = c /\ lba_packet'.blocks = b
        /\ lba_packet'.lba = request.offset \div Sector
        /\ lba_packet'.to = IF request.buf > Top - Sector THEN "scratch" ELSE "buf"
        /\ lba_packet' = [blocks |-> lba_packet'.blocks, lba |-> lba_packet'.lba,
                          to |-> lba_packet'.to]
        /\ cpc' = "bios" /\ nbytesread' = 0
        /\ UNCHANGED <<request, memory, status>>
    BY DEF C!Prepare
  <1> HIDE DEF c, b
  <1>9. CTypes'
    BY <1>1, <1>3, <1>5, <1>7, <1>8 DEF CInv, CTypes, CRequest
  <1>10. CFits'
    <2>1. nbytes <= request.nbytes /\ request.nbytes \in Nat
      BY DEF CInv, CTypes, CRequest, CSizes
    <2>2. lba_packet'.blocks * Sector = b * Sector
      BY <1>8
    <2>3. b * Sector <= request.nbytes
      BY <1>1, <1>3, <1>6, <2>1
    <2>4. lba_packet'.to = "scratch" => b * Sector <= Scratch
      BY <1>3, <1>6, <1>8 DEF CSizes
    <2>5. lba_packet'.to = "buf" => request.buf + b * Sector <= Top
      BY <1>1, <1>3, <1>6, <1>8 DEF CSizes
    <2> QED BY <1>8, <2>2, <2>3, <2>4, <2>5 DEF CFits
  <1>11. CUnderway' /\ CAnswered'
    BY <1>7, <1>8 DEF CUnderway, CAnswered
  <1>12. CRestUntouched'
    BY <1>8 DEF CInv, CRestUntouched
  <1> QED BY <1>9, <1>10, <1>11, <1>12 DEF CInv

(* The first n units of the buffer b are replaced.                         *)
LEMMA CWritesTo ==
  ASSUME CSizes, CTypes,
         NEW n \in Nat, n <= request.nbytes, NEW units \in [0 .. n - 1 -> Int],
         lba_packet.to = "scratch" => n <= Scratch,
         memory' = [memory EXCEPT ![lba_packet.to] = C!Written(@, n, units)],
         CRestUntouched, UNCHANGED request
  PROVE  /\ memory' \in [buf : [0 .. Room - 1 -> Int], scratch : [0 .. Scratch - 1 -> Int]]
         /\ CRestUntouched'
         /\ \A i \in 0 .. n - 1 : memory'[lba_packet.to][i] = units[i]
  <1> USE DEF CSizes, CTypes, CRequest
  <1>0. request.nbytes \in Nat /\ request.nbytes <= Room /\ Room \in Nat /\ Scratch \in Nat
        /\ \A i \in Nat : i < n => units[i] \in Int
    <2>1. request.nbytes \in Nat /\ request.nbytes <= Room /\ Room \in Nat /\ Scratch \in Nat
      OBVIOUS
    <2>2. \A i \in Nat : i < n => i \in 0 .. n - 1
      OBVIOUS
    <2>3. \A i \in 0 .. n - 1 : units[i] \in Int
      OBVIOUS
    <2> QED BY <2>1, <2>2, <2>3
  <1>1. CASE lba_packet.to = "buf"
    <2>1. memory'.buf = C!Written(memory.buf, n, units) /\ memory'.scratch = memory.scratch
          /\ memory' = [buf |-> memory'.buf, scratch |-> memory'.scratch]
      BY <1>1
    <2>2. memory.buf \in [0 .. Room - 1 -> Int] /\ memory.scratch \in [0 .. Scratch - 1 -> Int]
      OBVIOUS
    <2>3. \A i \in 0 .. Room - 1 : memory'.buf[i] = IF i < n THEN units[i] ELSE memory.buf[i]
      BY <2>1, <2>2 DEF C!Written
    <2>4. memory'.buf \in [0 .. Room - 1 -> Int]
      <3>1. \A i \in 0 .. Room - 1 : (IF i < n THEN units[i] ELSE memory.buf[i]) \in Int
        BY <1>0, <2>2
      <3>2. DOMAIN memory.buf = 0 .. Room - 1
        BY <2>2
      <3> QED BY <2>1, <3>1, <3>2 DEF C!Written
    <2>5. CRestUntouched'
      <3>1. \A i \in 0 .. Room - 1 : i >= request.nbytes => ~(i < n)
        BY <1>0
      <3> QED BY <2>3, <3>1 DEF CRestUntouched
    <2>6. \A i \in 0 .. n - 1 : memory'[lba_packet.to][i] = units[i]
      <3>1. \A i \in 0 .. n - 1 : i \in 0 .. Room - 1 /\ i < n
        BY <1>0
      <3>2. memory'[lba_packet.to] = memory'.buf
        BY <1>1
      <3> QED BY <2>3, <3>1, <3>2
    <2> QED BY <2>1, <2>2, <2>4, <2>5, <2>6
  <1>2. CASE lba_packet.to = "scratch"
    <2>1. memory'.scratch = C!Written(memory.scratch, n, units) /\ memory'.buf = memory.buf
          /\ memory' = [buf |-> memory'.buf, scratch |-> memory'.scratch]
      BY <1>2
    <2>2. memory.buf \in [0 .. Room - 1 -> Int] /\ memory.scratch \in [0 .. Scratch - 1 -> Int]
      OBVIOUS
    <2>3. \A i \in 0 .. Scratch - 1 :
            memory'.scratch[i] = IF i < n THEN units[i] ELSE memory.scratch[i]
      BY <2>1, <2>2 DEF C!Written
    <2>4. memory'.scratch \in [0 .. Scratch - 1 -> Int]
      <3>1. \A i \in 0 .. Scratch - 1 : (IF i < n THEN units[i] ELSE memory.scratch[i]) \in Int
        BY <1>0, <2>2
      <3>2. DOMAIN memory.scratch = 0 .. Scratch - 1
        BY <2>2
      <3> QED BY <2>1, <3>1, <3>2 DEF C!Written
    <2>5. CRestUntouched'
      BY <2>1 DEF CRestUntouched
    <2>6. \A i \in 0 .. n - 1 : memory'[lba_packet.to][i] = units[i]
      BY <1>2, <2>3, SMTT(30)
    <2> QED BY <2>1, <2>2, <2>4, <2>5, <2>6
  <1> QED BY <1>1, <1>2

(* k sectors, no more than were asked for, fit where the packet says.      *)
LEMMA CFewerFit ==
  ASSUME CSizes, CTypes, CFits, NEW k \in 0 .. lba_packet.blocks
  PROVE  /\ k * Sector \in Nat /\ k * Sector <= request.nbytes
         /\ lba_packet.to = "scratch" => k * Sector <= Scratch
         /\ lba_packet.to = "buf" /\ k # 0 => request.buf + k * Sector <= Top
  <1>1. lba_packet.blocks \in Nat /\ k \in Nat /\ k <= lba_packet.blocks
        /\ request.nbytes \in Nat /\ request.buf \in Nat
    BY DEF CTypes, CRequest, CSizes
  <1>2. k * Sector \in Nat /\ lba_packet.blocks * Sector \in Nat
        /\ k * Sector <= lba_packet.blocks * Sector
    BY <1>1, CProducts DEF CSizes
  <1> QED BY <1>1, <1>2 DEF CFits, CSizes

LEMMA CReads == ASSUME CSizes, CInv, C!BiosReads PROVE CInv'
  <1>1. PICK k \in 0 .. lba_packet.blocks :
          /\ memory' = [memory EXCEPT ![lba_packet.to] =
                          C!Written(@, k * Sector, C!DiscFrom(lba_packet.lba, k * Sector))]
          /\ lba_packet' = [lba_packet EXCEPT !.blocks = k]
          /\ cpc' = IF k = 0 THEN "failed" ELSE "read"
    BY DEF C!BiosReads
  <1>2. CTypes /\ CFits /\ CRestUntouched /\ k \in Nat /\ lba_packet.lba * Sector = request.offset
        /\ request.offset \in Nat /\ nbytesread = 0
    BY DEF CInv, CUnderway, C!BiosReads, CTypes, CRequest
  <1>3. /\ k * Sector \in Nat /\ k * Sector <= request.nbytes
        /\ lba_packet.to = "scratch" => k * Sector <= Scratch
        /\ lba_packet.to = "buf" /\ k # 0 => request.buf + k * Sector <= Top
    BY <1>2, CFewerFit
  <1> DEFINE n == k * Sector
             units == C!DiscFrom(lba_packet.lba, n)
  <1>4. units \in [0 .. n - 1 -> Int] /\ \A i \in 0 .. n - 1 : units[i] = request.offset + i
    BY <1>2, <1>3 DEF C!DiscFrom
  <1>5. UNCHANGED <<request, nbytes, nbytesread>>
    BY DEF C!BiosReads
  <1>6. memory' = [memory EXCEPT ![lba_packet.to] = C!Written(@, n, units)]
    BY <1>1
  <1>7. n \in Nat /\ n <= request.nbytes /\ (lba_packet.to = "scratch" => n <= Scratch)
    BY <1>3
  <1> HIDE DEF n, units
  <1>8. /\ memory' \in [buf : [0 .. Room - 1 -> Int], scratch : [0 .. Scratch - 1 -> Int]]
        /\ CRestUntouched'
        /\ \A i \in 0 .. n - 1 : memory'[lba_packet.to][i] = units[i]
    BY <1>2, <1>4, <1>5, <1>6, <1>7, CWritesTo
  <1>9. lba_packet'.blocks = k /\ lba_packet'.to = lba_packet.to /\ lba_packet'.lba = lba_packet.lba
        /\ lba_packet' \in [blocks : Nat, lba : Nat, to : {"buf", "scratch"}]
    BY <1>1, <1>2 DEF CTypes
  <1>10. CTypes'
    BY <1>2, <1>5, <1>8, <1>9 DEF CTypes
  <1>11. CFits'
    BY <1>3, <1>5, <1>9 DEF CFits
  <1>12. CUnderway'
    <2>1. cpc' = "read" => k # 0
      BY <1>1
    <2>2. \A i \in 0 .. lba_packet'.blocks * Sector - 1 :
            memory'[lba_packet'.to][i] = request'.offset + i
      BY <1>4, <1>5, <1>8, <1>9 DEF n
    <2>3. cpc' \in {"failed", "read"}
      BY <1>1
    <2> QED BY <1>2, <1>5, <1>9, <2>1, <2>2, <2>3 DEF CUnderway
  <1>13. CAnswered'
    BY <1>1 DEF CAnswered
  <1> QED BY <1>8, <1>10, <1>11, <1>12, <1>13 DEF CInv

LEMMA CFails == ASSUME CSizes, CInv, C!BiosFails PROVE CInv'
  <1>1. PICK k \in 0 .. lba_packet.blocks :
          memory' = [memory EXCEPT ![lba_packet.to] =
                       C!Written(@, k * Sector, [i \in 0 .. k * Sector - 1 |-> C!Junk])]
    BY DEF C!BiosFails, C!Scribbled
  <1>2. CTypes /\ CFits /\ CRestUntouched /\ nbytesread = 0
    BY DEF CInv, CUnderway, C!BiosFails
  <1> DEFINE n == k * Sector
             units == [i \in 0 .. n - 1 |-> C!Junk]
  <1>3. n \in Nat /\ n <= request.nbytes /\ (lba_packet.to = "scratch" => n <= Scratch)
    BY <1>2, CFewerFit
  <1>4. units \in [0 .. n - 1 -> Int]
    BY DEF C!Junk
  <1>5. memory' = [memory EXCEPT ![lba_packet.to] = C!Written(@, n, units)]
    BY <1>1
  <1>6. UNCHANGED <<request, nbytes, lba_packet, nbytesread, status>> /\ cpc' = "failed"
    BY DEF C!BiosFails
  <1> HIDE DEF n, units
  <1>7. /\ memory' \in [buf : [0 .. Room - 1 -> Int], scratch : [0 .. Scratch - 1 -> Int]]
        /\ CRestUntouched'
    BY <1>2, <1>3, <1>4, <1>5, <1>6, CWritesTo
  <1>8. CTypes' /\ CFits'
    BY <1>2, <1>6, <1>7 DEF CTypes, CFits
  <1>9. CUnderway' /\ CAnswered'
    BY <1>2, <1>6 DEF CUnderway, CAnswered
  <1> QED BY <1>7, <1>8, <1>9 DEF CInv

LEMMA CFinishes == ASSUME CSizes, CInv, C!Finish PROVE CInv'
  <1> DEFINE n == lba_packet.blocks * Sector
  <1>1. /\ CTypes /\ CFits /\ CRestUntouched /\ lba_packet.blocks \in Nat \ {0}
        /\ \A i \in 0 .. n - 1 : memory[lba_packet.to][i] = request.offset + i
    BY DEF CInv, CUnderway, C!Finish, CTypes
  <1>2. n \in Nat /\ n > 0
    BY <1>1, CPositiveProduct DEF CSizes
  <1>3. n <= request.nbytes /\ (lba_packet.to = "scratch" => n <= Scratch)
    BY <1>1 DEF CFits
  <1>4. /\ UNCHANGED <<request, nbytes, lba_packet>> /\ cpc' = "returned" /\ status' = "0"
        /\ nbytesread' = n
    BY DEF C!Finish
  <1>5. memory' = IF lba_packet.to = "buf" THEN memory
                  ELSE [memory EXCEPT !.buf = C!Written(@, n, memory.scratch)]
    BY DEF C!Finish
  <1> HIDE DEF n
  <1>6. /\ memory' \in [buf : [0 .. Room - 1 -> Int], scratch : [0 .. Scratch - 1 -> Int]]
        /\ CRestUntouched'
        /\ \A i \in 0 .. n - 1 : memory'.buf[i] = request.offset + i
    <2>1. CASE lba_packet.to = "buf"
      BY <1>1, <1>4, <1>5, <2>1 DEF CTypes, CRestUntouched
    <2>2. CASE lba_packet.to = "scratch"
      <3>0. /\ request.nbytes \in Nat /\ request.nbytes <= Room /\ Room \in Nat
            /\ Scratch \in Nat /\ n <= Scratch
        BY <1>1, <1>3, <2>2 DEF CTypes, CRequest, CSizes
      <3>1. memory'.buf = C!Written(memory.buf, n, memory.scratch) /\ memory'.scratch = memory.scratch
            /\ memory' = [buf |-> memory'.buf, scratch |-> memory'.scratch]
        BY <1>1, <1>5, <2>2 DEF CTypes
      <3>2. memory.buf \in [0 .. Room - 1 -> Int] /\ memory.scratch \in [0 .. Scratch - 1 -> Int]
        BY <1>1 DEF CTypes
      <3>3. \A i \in 0 .. Room - 1 :
              memory'.buf[i] = IF i < n THEN memory.scratch[i] ELSE memory.buf[i]
        BY <3>1, <3>2 DEF C!Written
      <3>4. memory'.buf \in [0 .. Room - 1 -> Int]
        <4>1. \A i \in 0 .. Room - 1 :
                (IF i < n THEN memory.scratch[i] ELSE memory.buf[i]) \in Int
          BY <1>2, <3>0, <3>2
        <4>2. DOMAIN memory.buf = 0 .. Room - 1
          BY <3>2
        <4> QED BY <3>1, <4>1, <4>2 DEF C!Written
      <3>5. CRestUntouched'
        <4>1. \A i \in 0 .. Room - 1 : i >= request.nbytes => ~(i < n)
          BY <1>2, <1>3, <3>0
        <4> QED BY <1>1, <1>4, <3>3, <4>1 DEF CRestUntouched
      <3>6. \A i \in 0 .. n - 1 : memory'.buf[i] = request.offset + i
        <4>1. \A i \in 0 .. n - 1 : i \in 0 .. Room - 1 /\ i < n
          BY <1>2, <1>3, <3>0
        <4>2. \A i \in 0 .. n - 1 : memory.scratch[i] = request.offset + i
          BY <1>1, <2>2
        <4> QED BY <3>3, <4>1, <4>2
      <3> QED BY <3>1, <3>2, <3>4, <3>5, <3>6
    <2> QED BY <1>1, <2>1, <2>2 DEF CTypes
  <1>7. CTypes' /\ CFits'
    BY <1>1, <1>2, <1>4, <1>6 DEF CTypes, CFits
  <1>8. CUnderway' /\ CAnswered'
    BY <1>2, <1>4, <1>6 DEF CUnderway, CAnswered
  <1> QED BY <1>6, <1>7, <1>8 DEF CInv

(* If the linker put lba_packet at the start of a paragraph, pread of the  *)
(* CD gives what the disc has there: the first nbytesread units of the     *)
(* buffer are the disc's, nothing beyond the request, the scratch buffer   *)
(* or what the BIOS can address is written, and success without a sector   *)
(* means that none was asked for.                                          *)
THEOREM ReadsIfPacketFoundAlways == Spec => []ReadsIfPacketFound
<1> DEFINE Inv == C!PacketFound => CInv
<1>0. CSizes
  BY SizesAssumption DEF CSizes
<1>1. Init => Inv
  BY <1>0, CBegins
<1>2. Inv /\ [Next]_vars => Inv'
  <2> SUFFICES ASSUME Inv, [Next]_vars, C!PacketFound' PROVE CInv'
    OBVIOUS
  <2>0. UNCHANGED request
    <3>1. CASE C!Next
      BY <3>1 DEF C!Next, C!Refuse, C!Nothing, C!Prepare, C!BiosReads, C!BiosFails, C!BiosAstray,
                  C!Retry, C!GiveUp, C!Finish, C!Return
    <3>2. CASE UNCHANGED cdrom
      BY <3>2 DEF cdrom
    <3> QED BY <3>1, <3>2, Steps
  <2>1. C!PacketFound /\ CInv
    BY <2>0 DEF C!PacketFound
  <2>2. CASE UNCHANGED cdrom
    BY <2>1, <2>2 DEF cdrom, CInv, CTypes, CFits, CRestUntouched, CUnderway, CAnswered
  <2>3. CASE C!Next
    <3>1. ~C!BiosAstray
      BY <2>1 DEF C!BiosAstray
    <3> QED BY <1>0, <2>1, <2>3, <3>1, CRefuses, CNothingToRead, CPrepares, CReads, CFails, CRetries,
               CGivesUp, CFinishes DEF C!Next
  <2> QED BY <2>2, <2>3, Steps
<1>3. Inv => ReadsIfPacketFound
  <2> SUFFICES ASSUME CInv PROVE C!ReadsTheDisc
    BY DEF ReadsIfPacketFound, C!ReadsIfPacketFound
  <2>1. DOMAIN memory.buf = 0 .. Room - 1
    BY DEF CInv, CTypes
  <2> QED BY <2>1 DEF CInv, CFits, CRestUntouched, CAnswered, C!ReadsTheDisc, C!Ended
<1> QED BY <1>1, <1>2, <1>3, PTL DEF Spec

-----------------------------------------------------------------------------
(* Files of a CD.  While an openat is under way, its object is the one in  *)
(* memory that is not open yet.                                            *)
FFile(f) == f \in [lba : Nat, length : Nat] /\ f.lba * Sector + f.length <= Word

FOpening ==
  \/ opening = I!NotOpening /\ allocated = I!OpenNow
  \/ /\ opening[2] \in Handles /\ file[opening[2]] = I!NoFile
     /\ opening # I!NotOpening /\ allocated = I!OpenNow \cup {opening[2]}

FInv ==
  /\ DOMAIN file = Handles /\ file = [h \in Handles |-> file[h]]
  /\ \A h \in Handles : file[h] = I!NoFile \/ FFile(file[h])
  /\ position \in [Handles -> Nat]
  /\ FOpening

LEMMA FInit == Init => FInv
<1> SUFFICES ASSUME Init PROVE FInv
  OBVIOUS
<1>1. I!Init
  BY DEF Init
<1> QED BY <1>1 DEF I!Init, FInv, FOpening, I!OpenNow

LEMMA FKept ==
  ASSUME FInv, UNCHANGED <<allocated, opening, file>>, position' \in [Handles -> Nat]
  PROVE  FInv'
  BY DEF FInv, FOpening, I!OpenNow, FFile

(* A file of the volume is not the mark of a closed one.                   *)
LEMMA FNotClosed == \A f : FFile(f) => f # I!NoFile
<1>1. I!NoFile.length = -1
  BY DEF I!NoFile
<1> QED BY <1>1 DEF FFile

LEMMA FOpensAt == ASSUME FInv, NEW name, I!OpenAt(name) PROVE FInv'
<1>1. CASE UNCHANGED <<allocated, opening, file>>
  BY <1>1, FKept DEF I!OpenAt, FInv
<1>2. ASSUME NEW h \in Handles \ allocated, allocated' = allocated \cup {h}, opening' = <<name, h>>
      PROVE  FInv'
  <2>1. UNCHANGED <<file, position>> /\ opening = I!NotOpening
    BY DEF I!OpenAt, I!Operation
  <2>2. allocated = I!OpenNow
    BY <2>1 DEF FInv, FOpening
  <2>3. opening' # I!NotOpening /\ opening'[2] = h
    BY <1>2, VolumeAssumption DEF I!NotOpening
  <2>4. file[h] = I!NoFile
    BY <2>2 DEF I!OpenNow
  <2>5. FOpening'
    BY <1>2, <2>1, <2>2, <2>3, <2>4 DEF FOpening, I!OpenNow
  <2> QED BY <2>1, <2>5 DEF FInv, FFile
<1> QED BY <1>1, <1>2 DEF I!OpenAt

LEMMA FOpenFails == ASSUME FInv, I!OpenFails PROVE FInv'
<1>1. /\ opening # I!NotOpening /\ allocated' = allocated \ {opening[2]}
      /\ opening' = I!NotOpening /\ UNCHANGED <<file, position>>
  BY DEF I!OpenFails
<1>2. allocated = I!OpenNow \cup {opening[2]} /\ opening[2] \notin I!OpenNow
  BY <1>1 DEF FInv, FOpening, I!OpenNow
<1>3. FOpening'
  BY <1>1, <1>2 DEF FOpening, I!OpenNow
<1> QED BY <1>1, <1>3 DEF FInv, FFile

LEMMA FOpens == ASSUME FInv, I!OpenSucceeds PROVE FInv'
<1> DEFINE h == opening[2]  f == Volume[opening[1]]
<1>1. /\ opening # I!NotOpening /\ opening[1] \in DOMAIN Volume /\ file' = [file EXCEPT ![h] = f]
      /\ position' = [position EXCEPT ![h] = 0] /\ opening' = I!NotOpening /\ UNCHANGED allocated
  BY DEF I!OpenSucceeds
<1>2. FFile(f)
  BY <1>1, VolumeAssumption DEF FFile
<1>3. h \in Handles /\ allocated = I!OpenNow \cup {h}
  BY <1>1 DEF FInv, FOpening
<1>4. f # I!NoFile
  BY <1>2, FNotClosed
<1> HIDE DEF h, f
<1>5. I!OpenNow' = I!OpenNow \cup {h}
  BY <1>1, <1>3, <1>4 DEF FInv, I!OpenNow
<1>6. FOpening'
  BY <1>1, <1>3, <1>5 DEF FOpening
<1>7. \A g \in Handles : file'[g] = I!NoFile \/ FFile(file'[g])
  BY <1>1, <1>2, <1>3 DEF FInv
<1> QED BY <1>1, <1>3, <1>6, <1>7 DEF FInv, FFile

LEMMA FCloses == ASSUME FInv, NEW h \in Handles, I!Close(h) PROVE FInv'
<1>1. /\ opening = I!NotOpening /\ allocated' = allocated \ {h} /\ file' = [file EXCEPT ![h] = I!NoFile]
      /\ UNCHANGED <<opening, position>>
  BY DEF I!Close, I!Operation
<1>2. I!OpenNow' = I!OpenNow \ {h} /\ allocated = I!OpenNow
  BY <1>1 DEF FInv, FOpening, I!OpenNow
<1>3. FOpening'
  BY <1>1, <1>2 DEF FOpening
<1>4. \A g \in Handles : file'[g] = I!NoFile \/ FFile(file'[g])
  BY <1>1 DEF FInv
<1> QED BY <1>1, <1>3, <1>4 DEF FInv, FFile

(* What an operation on an open file starts from.                          *)
LEMMA FOpenFile ==
  ASSUME FInv, NEW h \in Handles, h \in I!OpenNow
  PROVE  FFile(file[h]) /\ file[h] # I!NoFile /\ position[h] \in Nat /\ file[h].length \in Nat /\ file[h].lba \in Nat
  BY DEF FInv, I!OpenNow, FFile

LEMMA FCount ==
  ASSUME FInv, NEW h \in Handles, h \in I!OpenNow, NEW n \in Nat
  PROVE  /\ I!Count(h, n) \in Nat
         /\ I!Count(h, n) = IF position[h] + n < file[h].length THEN n
                            ELSE IF position[h] < file[h].length THEN file[h].length - position[h] ELSE 0
<1>1. position[h] \in Nat /\ file[h].length \in Nat
  BY FOpenFile
<1> QED BY <1>1 DEF I!Count

LEMMA FMoved ==
  ASSUME FInv, NEW h \in Handles, NEW p \in Nat, position' = [position EXCEPT ![h] = p]
  PROVE  position' \in [Handles -> Nat]
  BY DEF FInv

LEMMA FReads ==
  ASSUME FInv, NEW h \in Handles, NEW n \in Lengths, I!Read(h, n)
  PROVE  FInv'
<1>1. h \in I!OpenNow /\ UNCHANGED <<allocated, opening, file>> /\ n \in Nat
  BY VolumeAssumption DEF I!Read
<1>2. I!Count(h, n) \in Nat /\ position[h] \in Nat
  BY <1>1, FCount, FOpenFile
<1>3. PICK p \in Nat : position' = [position EXCEPT ![h] = p]
  BY <1>2 DEF I!Read
<1> QED BY <1>1, <1>3, FMoved, FKept

LEMMA FSeeks ==
  ASSUME FInv, NEW h \in Handles, NEW whence \in Whences, NEW offset \in Offsets,
         I!Seek(h, whence, offset)
  PROVE  FInv' /\ I!From(h, whence) \in Nat /\ (I!From(h, whence) + offset) % Word \in Nat
<1>1. h \in I!OpenNow /\ UNCHANGED <<allocated, opening, file>>
  BY DEF I!Seek
<1>2. I!From(h, whence) \in Nat
  BY <1>1, FOpenFile, VolumeAssumption DEF I!From
<1>3. (I!From(h, whence) + offset) % Word \in Nat
  BY <1>2, VolumeAssumption
<1>4. CASE UNCHANGED position
  BY <1>1, <1>2, <1>3, <1>4, FKept DEF FInv
<1>5. CASE position' = [position EXCEPT ![h] = (I!From(h, whence) + offset) % Word]
  BY <1>1, <1>2, <1>3, <1>5, FMoved, FKept
<1> QED BY <1>4, <1>5 DEF I!Seek

LEMMA FSteps == ASSUME FInv, I!Next PROVE FInv'
<1>1. ASSUME NEW h \in Handles, NEW n \in Lengths, NEW offset \in Offsets, I!Pread(h, n, offset)
      PROVE  FInv'
  BY <1>1, FKept DEF I!Pread, FInv
<1> QED BY <1>1, FOpensAt, FOpenFails, FOpens, FCloses, FReads, FSeeks DEF I!Next

LEMMA FStays == FInv /\ [Next]_vars => FInv'
<1>1. ASSUME FInv, UNCHANGED iso PROVE FInv'
  BY <1>1, FKept DEF iso, FInv
<1> QED BY <1>1, Steps, FSteps

(* Every iso9660_file in memory is one that can be closed, whenever no     *)
(* fs_openat is under way: each of its failures frees the object, once.    *)
THEOREM NoFileLeaksAlways == Spec => []NoFileLeaks
<1>1. FInv => NoFileLeaks
  BY DEF FInv, FOpening, NoFileLeaks, I!NoFileLeaks
<1> QED BY <1>1, FInit, FStays, PTL DEF Spec

-----------------------------------------------------------------------------
(* The refinement of OpenFiles: where its files' positions and their bytes *)
(* are in Iso9660's state.                                                 *)
OPos == [h \in Handles |-> IF file[h] = I!NoFile THEN -1 ELSE position[h]]
OBytes(f) == [i \in 1 .. f.length |-> f.lba * Sector + i - 1]
OContents == [h \in Handles |-> OBytes(file[h])]

LEMMA FunctionAsSequence ==
  ASSUME NEW S, NEW n \in Nat, NEW f \in [1 .. n -> S]
  PROVE  f \in Seq(S) /\ Len(f) = n
  OBVIOUS

LEMMA OBytesAre ==
  ASSUME NEW f, FFile(f)
  PROVE  /\ OBytes(f) \in Seq(Nat) /\ Len(OBytes(f)) = f.length /\ f.length \in Nat /\ f.lba * Sector \in Nat
         /\ \A i \in 1 .. f.length : OBytes(f)[i] = f.lba * Sector + i - 1
<1>1. f.length \in Nat /\ f.lba \in Nat /\ Sector \in Nat
  BY SizesAssumption DEF FFile
<1> DEFINE b == f.lba * Sector
<1>2. b \in Nat
  BY <1>1
<1>3. OBytes(f) = [i \in 1 .. f.length |-> b + i - 1]
  BY DEF OBytes
<1> HIDE DEF b
<1>4. OBytes(f) \in [1 .. f.length -> Nat]
  BY <1>1, <1>2, <1>3
<1>5. OBytes(f) \in Seq(Nat) /\ Len(OBytes(f)) = f.length
  BY <1>1, <1>4, FunctionAsSequence
<1> QED BY <1>1, <1>2, <1>3, <1>5 DEF b

(* A byte of a file is where it belongs on the disc: no offset of a sector *)
(* wraps.                                                                  *)
LEMMA ByteAt ==
  ASSUME NEW f, FFile(f), NEW i \in 0 .. f.length - 1
  PROVE  I!Byte(f, i) = f.lba * Sector + i
<1> DEFINE q == i \div Sector  r == i % Sector  b == f.lba * Sector  qs == q * Sector
<1>1. f.length \in Nat /\ f.lba \in Nat /\ Sector \in Nat \ {0} /\ Word \in Nat \ {0} /\ i \in Nat
  BY SizesAssumption, VolumeAssumption DEF FFile
<1>2. q \in Nat /\ r \in 0 .. Sector - 1 /\ i = qs + r /\ qs \in Nat
  BY <1>1
<1>3. b + f.length <= Word /\ b \in Nat
  BY <1>1 DEF FFile
<1>4. (f.lba + q) * Sector = b + qs
  <2> HIDE DEF q
  <2> QED BY <1>1, <1>2
<1>5. I!Byte(f, i) = (((f.lba + q) * Sector) % Word) + r
  <2> HIDE DEF q
  <2>1. I!Byte(f, i) = I!SectorAt(f.lba + q)[r]
    BY DEF I!Byte, q
  <2> HIDE DEF r
  <2> QED BY <1>2, <2>1 DEF I!SectorAt
<1> HIDE DEF q, r, b, qs
<1>6. b + qs \in 0 .. Word - 1
  BY <1>1, <1>2, <1>3
<1>7. (b + qs) % Word = b + qs
  BY <1>1, <1>6
<1> QED BY <1>2, <1>3, <1>4, <1>5, <1>7 DEF b

LEMMA BytesAreSlice ==
  ASSUME FInv, NEW h \in Handles, h \in I!OpenNow, NEW n \in Nat
  PROVE  /\ I!Bytes(h, n) = I!OF!Slice(OContents[h], position[h], n)
         /\ Len(I!OF!Slice(OContents[h], position[h], n)) = I!Count(h, n)
<1> DEFINE s == OContents[h]  from == position[h]  len == file[h].length  c == I!Count(h, n)
           to == IF from + n < len THEN from + n ELSE len
<1>1. /\ FFile(file[h]) /\ from \in Nat /\ len \in Nat /\ s = OBytes(file[h])
  BY FOpenFile DEF OContents
<1>2. /\ s \in Seq(Nat) /\ Len(s) = len /\ file[h].lba * Sector \in Nat
      /\ \A i \in 1 .. len : s[i] = file[h].lba * Sector + i - 1
  BY <1>1, OBytesAre
<1>3. c \in Nat /\ c = IF from + n < len THEN n ELSE IF from < len THEN len - from ELSE 0
  BY FCount
<1>4. I!OF!Slice(s, from, n) = SubSeq(s, from + 1, to)
  BY <1>2 DEF I!OF!Slice
<1>5. I!Bytes(h, n) = [i \in 1 .. c |-> I!Byte(file[h], from + i - 1)]
  BY DEF I!Bytes
<1> DEFINE l == file[h].lba * Sector
<1>6. ASSUME NEW i \in 1 .. c PROVE I!Byte(file[h], from + i - 1) = l + from + i - 1 /\ from + i \in 1 .. len
  <2>1. from + i - 1 \in 0 .. len - 1
    <3> HIDE DEF from, len, c
    <3> QED BY <1>1, <1>3
  <2>2. I!Byte(file[h], from + i - 1) = l + (from + i - 1)
    BY <1>1, <2>1, ByteAt
  <2> HIDE DEF from, len, c, l
  <2> QED BY <1>1, <1>2, <2>1, <2>2 DEF l
<1>7. l \in Nat /\ \A i \in 1 .. len : s[i] = l + i - 1 /\ s[i] \in Nat
  BY <1>2
<1> HIDE DEF s, from, len, c, l
<1>8. to \in Nat /\ (\A i \in from + 1 .. to : i \in 1 .. len)
      /\ c = IF from + 1 <= to THEN to - (from + 1) + 1 ELSE 0
  BY <1>1, <1>3
<1> HIDE DEF to
<1>9. /\ SubSeq(s, from + 1, to) \in Seq(Nat) /\ Len(SubSeq(s, from + 1, to)) = c
      /\ \A i \in 1 .. to - (from + 1) + 1 : SubSeq(s, from + 1, to)[i] = s[from + 1 + i - 1]
  <2>1. \A i \in from + 1 .. to : s[i] \in Nat
    BY <1>7, <1>8
  <2>2. from + 1 \in Int /\ to \in Int
    BY <1>1, <1>8
  <2> QED BY <1>8, <2>1, <2>2, SubSeqProperties
<1>10. ASSUME NEW i \in 1 .. c PROVE SubSeq(s, from + 1, to)[i] = l + from + i - 1
  <2>1. i \in 1 .. to - (from + 1) + 1 /\ from + 1 + i - 1 = from + i
    BY <1>1, <1>3, <1>8
  <2>2. SubSeq(s, from + 1, to)[i] = s[from + i]
    BY <1>9, <2>1
  <2>3. s[from + i] = l + (from + i) - 1
    BY <1>6, <1>7
  <2>4. l \in Int /\ from \in Int /\ i \in Int
    BY <1>1, <1>3, <1>7
  <2>5. l + (from + i) - 1 = l + from + i - 1
    BY <2>4
  <2> QED BY <2>2, <2>3, <2>5
<1> DEFINE t == SubSeq(s, from + 1, to)  u == I!Bytes(h, n)
<1>11. u \in [1 .. c -> Nat] /\ \A i \in 1 .. c : u[i] = l + from + i - 1
  <2>1. \A i \in 1 .. c : l + from + i - 1 \in Nat
    BY <1>1, <1>3, <1>7
  <2>2. u = [i \in 1 .. c |-> l + from + i - 1]
    BY <1>5, <1>6
  <2> QED BY <2>1, <2>2
<1>12. t \in Seq(Nat) /\ Len(t) = c /\ \A i \in 1 .. c : t[i] = l + from + i - 1
  BY <1>9, <1>10
<1> HIDE DEF t, u
<1>13. u \in Seq(Nat) /\ Len(u) = c
  BY <1>3, <1>11, FunctionAsSequence
<1>14. t = u
  BY <1>11, <1>12, <1>13, SeqEqual
<1> QED BY <1>4, <1>9, <1>14 DEF s, from, c, t, u

(* What the operations are in OpenFiles.                                   *)
LEMMA OIsOpen ==
  ASSUME FInv
  PROVE  \A h \in Handles : (OPos[h] = -1 <=> file[h] = I!NoFile) /\ (file[h] # I!NoFile => OPos[h] = position[h])
  BY DEF FInv, OPos

LEMMA OSame ==
  ASSUME UNCHANGED <<file, position>>
  PROVE  UNCHANGED <<OPos, OContents>>
  BY DEF OPos, OContents, OBytes

LEMMA OFails ==
  ASSUME FInv, NEW h \in Handles, reply' = <<"failed", h>>, UNCHANGED file, FInv',
         \A g \in Handles \ {h} : position'[g] = position[g]
  PROVE  I!OF!Fail(h)
<1>1. OContents' = OContents
  BY DEF OContents, OBytes
<1>2. \A g \in Handles \ {h} : OPos'[g] = OPos[g]
  BY DEF OPos
<1>3. OPos'[h] = -1 <=> OPos[h] = -1
  <2>1. OPos'[h] = -1 <=> file'[h] = I!NoFile
    BY DEF FInv, OPos
  <2>2. OPos[h] = -1 <=> file[h] = I!NoFile
    BY OIsOpen
  <2> QED BY <2>1, <2>2
<1> QED BY <1>1, <1>2, <1>3 DEF I!OF!Fail, OPos, OContents, OBytes

LEMMA OOpens == ASSUME FInv, I!OpenSucceeds PROVE \E h \in Handles : I!OF!Open(h)
<1>1. PICK h, f : h = opening[2] /\ f = Volume[opening[1]]
  OBVIOUS
<1>2. /\ opening # I!NotOpening /\ opening[1] \in DOMAIN Volume /\ file' = [file EXCEPT ![h] = f]
      /\ position' = [position EXCEPT ![h] = 0] /\ reply' = <<"open", h>>
  BY <1>1 DEF I!OpenSucceeds, I!Answer
<1>3. h \in Handles /\ file[h] = I!NoFile
  BY <1>1, <1>2 DEF FInv, FOpening
<1>4. FFile(f)
  BY <1>1, <1>2, VolumeAssumption DEF FFile
<1>5. f # I!NoFile
  BY <1>4, FNotClosed
<1>6. OPos[h] = -1
  BY <1>3, OIsOpen
<1>7. /\ file'[h] = f /\ \A g \in Handles \ {h} : file'[g] = file[g]
      /\ position'[h] = 0 /\ \A g \in Handles \ {h} : position'[g] = position[g]
  BY <1>2, <1>3 DEF FInv
<1>8. OPos' = [OPos EXCEPT ![h] = 0]
  BY <1>3, <1>5, <1>7 DEF OPos
<1>9. \A g \in Handles \ {h} : OContents'[g] = OContents[g]
  BY <1>7 DEF OContents, OBytes
<1>10. I!OF!Open(h)
  BY <1>2, <1>6, <1>8, <1>9 DEF I!OF!Open, I!OF!IsOpen, I!OF!OthersKept, OPos, OContents, OBytes
<1> QED BY <1>3, <1>10

LEMMA OCloses == ASSUME FInv, NEW h \in Handles, I!Close(h) PROVE I!OF!Close(h)
<1>1. file[h] # I!NoFile /\ file' = [file EXCEPT ![h] = I!NoFile] /\ reply' = <<"close", h>> /\ UNCHANGED position
  BY DEF I!Close, I!OpenNow, I!Answer
<1>2. file'[h] = I!NoFile /\ \A g \in Handles \ {h} : file'[g] = file[g]
  BY <1>1 DEF FInv
<1>3. OPos' = [OPos EXCEPT ![h] = -1] /\ OPos[h] # -1
  BY <1>1, <1>2, OIsOpen DEF OPos
<1>4. \A g \in Handles \ {h} : OContents'[g] = OContents[g]
  BY <1>2 DEF OContents, OBytes
<1> QED BY <1>1, <1>3, <1>4 DEF I!OF!Close, I!OF!IsOpen, I!OF!OthersKept, OPos, OContents, OBytes

(* The position of an open file is set.                                    *)
LEMMA OMoves ==
  ASSUME FInv, NEW h \in Handles, file[h] # I!NoFile, UNCHANGED file,
         NEW p, position' = [position EXCEPT ![h] = p]
  PROVE  OPos' = [OPos EXCEPT ![h] = p] /\ OContents' = OContents
<1>1. position'[h] = p /\ \A g \in Handles \ {h} : position'[g] = position[g]
  BY DEF FInv
<1> QED BY <1>1 DEF OPos, OContents, OBytes

LEMMA OReads ==
  ASSUME FInv, FInv', NEW h \in Handles, NEW n \in Lengths, I!Read(h, n)
  PROVE  I!OF!Read(h, n) \/ I!OF!Fail(h)
<1>1. h \in I!OpenNow /\ UNCHANGED file /\ n \in Nat /\ file[h] # I!NoFile
  BY VolumeAssumption DEF I!Read, I!OpenNow
<1>2. OPos[h] = position[h] /\ OPos[h] # -1 /\ position[h] \in Nat
  BY <1>1, OIsOpen, FOpenFile
<1>3. ASSUME reply' = <<"read", h, n, I!Bytes(h, n)>>, position' = [position EXCEPT ![h] = position[h] + I!Count(h, n)]
      PROVE  I!OF!Read(h, n)
  <2>1. PICK c, s : c = I!Count(h, n) /\ s = I!OF!Slice(OContents[h], position[h], n)
    OBVIOUS
  <2>2. I!Bytes(h, n) = s /\ Len(s) = c
    BY <1>1, <2>1, BytesAreSlice
  <2>3. PICK p : p = position[h] + c
    OBVIOUS
  <2>4. OPos' = [OPos EXCEPT ![h] = p] /\ OContents' = OContents
    BY <1>1, <1>3, <2>1, <2>3, OMoves
  <2>5. reply' = <<"read", h, n, s>> /\ reply'[4] = s
    BY <1>3, <2>2
  <2>6. OPos' = [OPos EXCEPT ![h] = OPos[h] + Len(reply'[4])]
    BY <1>2, <2>2, <2>3, <2>4, <2>5
  <2>7. reply' = <<"read", h, n, I!OF!Slice(OContents[h], OPos[h], n)>>
    BY <1>2, <2>1, <2>5
  <2> QED BY <1>2, <2>4, <2>6, <2>7 DEF I!OF!Read, I!OF!IsOpen, OPos, OContents, OBytes
<1>4. ASSUME reply' = <<"failed", h>>, NEW p, position' = [position EXCEPT ![h] = p]
      PROVE  I!OF!Fail(h)
  <2>1. \A g \in Handles \ {h} : position'[g] = position[g]
    BY <1>4 DEF FInv
  <2> QED BY <1>1, <1>4, <2>1, OFails
<1> QED BY <1>3, <1>4 DEF I!Read, I!Answer

LEMMA OPreads ==
  ASSUME FInv, NEW h \in Handles, NEW n \in Lengths, NEW offset \in Offsets, I!Pread(h, n, offset)
  PROVE  I!OF!PreadHere(h, n, offset) \/ I!OF!FailedPread(h)
<1>1. h \in I!OpenNow /\ UNCHANGED <<file, position>> /\ n \in Nat /\ file[h] # I!NoFile
  BY VolumeAssumption DEF I!Pread, I!OpenNow
<1>2. OPos[h] = position[h] /\ OPos[h] # -1
  BY <1>1, OIsOpen
<1>3. OPos' = OPos /\ OContents' = OContents
  BY <1>1, OSame
<1>4. CASE reply' = <<"pread failed", h>>
  BY <1>3, <1>4 DEF I!OF!FailedPread, OPos, OContents, OBytes
<1>5. ASSUME reply' = <<"pread", h, n, offset, I!Bytes(h, n)>> PROVE I!OF!PreadHere(h, n, offset)
  <2>1. PICK b : b = I!Bytes(h, n)
    OBVIOUS
  <2>2. b = I!OF!Slice(OContents[h], OPos[h], n)
    BY <1>1, <1>2, <2>1, BytesAreSlice
  <2>3. reply' = <<"pread", h, n, offset, b>>
    BY <1>5, <2>1
  <2> QED BY <1>2, <1>3, <2>2, <2>3 DEF I!OF!PreadHere, I!OF!IsOpen, OPos, OContents, OBytes
<1> QED BY <1>4, <1>5 DEF I!Pread, I!Answer

LEMMA OSeeks ==
  ASSUME FInv, FInv', NEW h \in Handles, NEW whence \in Whences, NEW offset \in Offsets,
         I!Seek(h, whence, offset)
  PROVE  I!OF!Seek(h, whence, offset) \/ I!OF!Fail(h)
<1>1. h \in I!OpenNow /\ UNCHANGED file /\ file[h] # I!NoFile /\ FFile(file[h])
  BY FOpenFile DEF I!Seek, I!OpenNow
<1>2. OPos[h] = position[h] /\ OPos[h] # -1
  BY <1>1, OIsOpen
<1>3. CASE reply' = <<"failed", h>>
  <2>1. \A g \in Handles \ {h} : position'[g] = position[g]
    BY DEF FInv, I!Seek
  <2> QED BY <1>1, <1>3, <2>1, OFails
<1>4. ASSUME reply' = <<"seek", h, whence, offset, position'[h]>>,
             position' = [position EXCEPT ![h] = (I!From(h, whence) + offset) % Word]
      PROVE  I!OF!Seek(h, whence, offset)
  <2>1. Len(OContents[h]) = file[h].length
    BY <1>1, OBytesAre DEF OContents
  <2>2. I!OF!Target(h, whence, offset) = (I!From(h, whence) + offset) % Word
    <3>1. I!From(h, whence) = CASE whence = "SET" -> 0 [] whence = "CUR" -> OPos[h]
                                [] whence = "END" -> Len(OContents[h])
      BY <1>2, <2>1, VolumeAssumption DEF I!From
    <3> QED BY <3>1, Zenon DEF I!OF!Target, OPos, OContents, OBytes
  <2>3. PICK p : p = (I!From(h, whence) + offset) % Word
    OBVIOUS
  <2>4. position'[h] = p
    BY <1>4, <2>3 DEF FInv
  <2>5. reply' = <<"seek", h, whence, offset, p>> /\ reply'[5] = p
    BY <1>4, <2>4
  <2>6. OPos' = [OPos EXCEPT ![h] = p] /\ OContents' = OContents
    BY <1>1, <1>4, <2>3, OMoves
  <2>7. OPos' = [OPos EXCEPT ![h] = reply'[5]] /\ reply' = <<"seek", h, whence, offset, I!OF!Target(h, whence, offset)>>
    BY <2>2, <2>3, <2>5, <2>6
  <2> QED BY <1>2, <2>6, <2>7 DEF I!OF!Seek, I!OF!IsOpen, OPos, OContents, OBytes
<1> QED BY <1>3, <1>4 DEF I!Seek, I!Answer

LEMMA OSteps ==
  ASSUME FInv, FInv', I!Next \/ UNCHANGED iso
  PROVE  [I!OF!NextHere]_(I!OF!vars)
<1>0. ASSUME UNCHANGED <<file, position, reply>> PROVE UNCHANGED I!OF!vars
  BY <1>0 DEF I!OF!vars
<1>1. ASSUME NEW name, I!OpenAt(name) PROVE [I!OF!NextHere]_(I!OF!vars)
  <2>1. CASE UNCHANGED reply
    BY <1>0, <1>1, <2>1 DEF I!OpenAt
  <2>2. PICK h \in Handles : h = CHOOSE x \in Handles : TRUE
    BY VolumeAssumption
  <2>3. CASE reply' = <<"failed", h>>
    BY <1>1, <2>3, OFails DEF I!OpenAt, I!OF!NextHere, I!OF!Next
  <2> QED BY <1>1, <2>1, <2>2, <2>3 DEF I!OpenAt, I!Answer
<1>2. CASE I!OpenFails
  <2>1. PICK h \in Handles : h = opening[2]
    BY <1>2 DEF I!OpenFails, FInv, FOpening
  <2>2. reply' = <<"failed", h>> /\ UNCHANGED <<file, position>>
    BY <1>2, <2>1 DEF I!OpenFails, I!Answer
  <2> QED BY <2>2, OFails DEF I!OF!NextHere, I!OF!Next
<1>3. CASE I!OpenSucceeds
  BY <1>3, OOpens DEF I!OF!NextHere, I!OF!Next
<1>4. ASSUME NEW h \in Handles, I!Close(h) PROVE I!OF!NextHere
  BY <1>4, OCloses DEF I!OF!NextHere, I!OF!Next
<1>5. ASSUME NEW h \in Handles, NEW n \in Lengths, I!Read(h, n) PROVE I!OF!NextHere
  BY <1>5, OReads DEF I!OF!NextHere, I!OF!Next
<1>6. ASSUME NEW h \in Handles, NEW n \in Lengths, NEW offset \in Offsets, I!Pread(h, n, offset)
      PROVE  I!OF!NextHere
  BY <1>6, OPreads DEF I!OF!NextHere, I!OF!Next
<1>7. ASSUME NEW h \in Handles, NEW whence \in Whences, NEW offset \in Offsets, I!Seek(h, whence, offset)
      PROVE  I!OF!NextHere
  BY <1>7, OSeeks DEF I!OF!NextHere, I!OF!Next
<1>8. CASE UNCHANGED iso
  BY <1>0, <1>8 DEF iso
<1> QED BY <1>1, <1>2, <1>3, <1>4, <1>5, <1>6, <1>7, <1>8 DEF I!Next

(* Whatever is read, sought, opened and closed in turn on any number of    *)
(* files, and wherever the drive fails, iso9660.c answers as OpenFiles     *)
(* promises, but for pread, which answers with the bytes at the position   *)
(* whatever offset it is passed, and leaves the position alone.            *)
THEOREM ImplementsButPreadAlways == Spec => ImplementsButPread
<1>1. Init => I!OF!Init
  <2> SUFFICES ASSUME Init PROVE I!OF!Init
    OBVIOUS
  <2>1. I!Init
    BY DEF Init
  <2> QED BY <2>1 DEF I!Init, I!OF!Init
<1>2. FInv /\ FInv' /\ [Next]_vars => [I!OF!NextHere]_(I!OF!vars)
  BY OSteps, Steps
<1> QED BY <1>1, <1>2, FInit, FStays, PTL DEF Spec, ImplementsButPread, I!ImplementsButPread, I!OF!SpecHere

-----------------------------------------------------------------------------
(* Kickstart.  Read: how much of the device tree has come in.              *)
KRead == IF step < dtb_size THEN step ELSE dtb_size

DtbOnly(n) == [a \in 0 .. Space - 1 |-> IF a < n THEN <<"dtb", a>> ELSE K!Free]

KLoads == host.bal.init_reads + 1 .. Len(host.bal.reads)

KByte(r, i) == <<"bal", r.offset + i - r.to>>

(* Above the device tree, the segments read so far, and nothing else.      *)
KImage ==
  /\ base = K!Align(host.dtb.length, host.bal.align) /\ DOMAIN kmem = 0 .. Space - 1
  /\ \A a \in 0 .. Space - 1 :
       /\ a < host.dtb.length => kmem[a] = <<"dtb", a>>
       /\ a >= base =>
            /\ \A j \in KLoads : j < step /\ K!Covers(host.bal.reads[j], a - base) =>
                 kmem[a] = KByte(host.bal.reads[j], a - base)
            /\ (\A j \in KLoads : j < step => ~K!Covers(host.bal.reads[j], a - base)) =>
                 kmem[a] = K!Free

KInv ==
  /\ K!IsHost(host)
  /\ kpc \in {"dtb", "dtb_read", "bal", "init", "load", "entered", "halted"}
  /\ kpc \notin {"dtb", "halted"} => host.dtb # K!Absent
  /\ kpc \in {"init", "load", "entered"} => host.bal # K!Absent
  /\ kpc = "dtb" => mem_mark = 0 /\ kmem = DtbOnly(0)
  /\ kpc = "dtb_read" =>
       /\ dtb_size \in {host.dtb.length, K!Huge} /\ mem_mark = dtb_size /\ step \in Nat
       /\ filepos = KRead /\ KRead <= host.dtb.length /\ kmem = DtbOnly(KRead)
  /\ kpc \in {"bal", "init"} => mem_mark = host.dtb.length /\ kmem = DtbOnly(host.dtb.length)
  /\ kpc = "init" => step \in 1 .. host.bal.init_reads + 1
  /\ kpc \in {"load", "entered"} =>
       /\ step \in host.bal.init_reads + 1 .. Len(host.bal.reads) + 1 /\ KImage
  /\ kpc = "entered" => step > Len(host.bal.reads)

LEMMA KInit == Init => KInv
<1> SUFFICES ASSUME Init PROVE KInv
  OBVIOUS
<1>1. K!Begin /\ K!IsHost(host)
  BY MachinesAssumption DEF Init
<1>2. kmem = DtbOnly(0)
  BY <1>1, SizesAssumption DEF K!Begin, DtbOnly
<1> QED BY <1>1, <1>2 DEF K!Begin, KInv

LEMMA KKept == ASSUME KInv, UNCHANGED kick PROVE KInv'
  BY DEF kick, KInv, KRead, KImage, KLoads, KByte, DtbOnly

LEMMA AlignedUp ==
  ASSUME NEW v \in Nat, NEW n \in Nat \ {0}
  PROVE  K!Align(v, n) \in Nat /\ K!Align(v, n) >= v
<1> DEFINE q == (v + n - 1) \div n  r == (v + n - 1) % n
<1>1. q \in Nat /\ r \in 0 .. n - 1 /\ v + n - 1 = q * n + r
  OBVIOUS
<1> HIDE DEF q, r
<1>2. q * n \in Nat
  BY <1>1
<1>3. q * n >= v
  BY <1>1, <1>2
<1>4. K!Align(v, n) = q * n
  BY DEF K!Align, q
<1> QED BY <1>2, <1>3, <1>4

LEMMA HugeNumber == K!Huge \in Nat \ {0}
  BY SMT DEF K!Huge

LEMMA KFails ==
  ASSUME KInv, K!DtbMissing \/ K!BalMissing \/ K!LibraryFails
  PROVE  KInv'
  BY DEF KInv, K!DtbMissing, K!BalMissing, K!LibraryFails, K!Fail

LEMMA KOpens ==
  ASSUME KInv, K!OpenDtb \/ K!DtbLoaded \/ K!OpenBal
  PROVE  KInv'
<1>1. CASE K!OpenDtb
  <2>1. /\ kpc = "dtb" /\ host.dtb # K!Absent /\ kpc' = "dtb_read"
        /\ dtb_size' \in {host.dtb.length, K!Huge}
        /\ mem_mark' = mem_mark + dtb_size' /\ filepos' = 0 /\ step' = 0
        /\ UNCHANGED <<host, base, kmem>>
    BY <1>1 DEF K!OpenDtb
  <2>2. host.dtb.length \in Nat /\ K!Huge \in Nat
    BY <2>1, HugeNumber DEF KInv, K!IsHost
  <2>3. KRead' = 0
    BY <2>1, <2>2 DEF KRead
  <2> QED BY <2>1, <2>2, <2>3 DEF KInv, DtbOnly
<1>2. CASE K!DtbLoaded
  <2>1. dtb_size = host.dtb.length /\ KRead = dtb_size
    BY <1>2, HugeNumber DEF K!DtbLoaded, KInv, KRead, K!IsHost
  <2> QED BY <1>2, <2>1 DEF K!DtbLoaded, KInv, DtbOnly
<1>3. CASE K!OpenBal
  <2>1. host.bal.init_reads \in Nat
    BY <1>3, HugeNumber DEF KInv, K!OpenBal, K!IsHost, K!IsElf
  <2> QED BY <1>3, <2>1 DEF K!OpenBal, KInv, DtbOnly
<1> QED BY <1>1, <1>2, <1>3

LEMMA KReadsDtb == ASSUME KInv, K!ReadDtb PROVE KInv'
<1>1. /\ kpc = "dtb_read" /\ step < dtb_size /\ step \in Nat /\ dtb_size \in Nat
      /\ host.dtb # K!Absent /\ host.dtb.length \in Nat
      /\ filepos = step /\ step <= host.dtb.length /\ kmem = DtbOnly(step)
      /\ UNCHANGED <<host, mem_mark, dtb_size, base>>
  BY HugeNumber DEF K!ReadDtb, KInv, KRead, K!IsHost
<1> DEFINE n == K!ToRead
<1>2. n \in Nat \ {0} /\ step + n <= dtb_size /\ (n = Chunk \/ (step + n = dtb_size /\ n <= Chunk))
  BY <1>1, SizesAssumption DEF K!ToRead
<1>3. PICK k \in K!Transferred("dtb", filepos, n) :
        /\ kmem' = K!Loaded("dtb", filepos, step, k) /\ filepos' = filepos + k
        /\ IF K!io_read(n, n - k) = n
           THEN step' = step + Chunk /\ UNCHANGED kpc
           ELSE kpc' = "halted" /\ UNCHANGED step
  BY DEF K!ReadDtb
<1> HIDE DEF n
<1>4. CASE K!io_read(n, n - k) = n
  <2>1. k = n /\ step + n <= host.dtb.length
    BY <1>1, <1>2, <1>3, <1>4 DEF K!io_read, K!Transferred
  <2>2. KRead' = step + n /\ step' \in Nat /\ kpc' = "dtb_read" /\ filepos' = step + n
    BY <1>1, <1>2, <1>3, <1>4, <2>1, SizesAssumption DEF KRead
  <2>3. kmem' = DtbOnly(step + n)
    BY <1>1, <1>2, <1>3, <2>1, SizesAssumption DEF K!Loaded, DtbOnly
  <2> QED BY <1>1, <2>1, <2>2, <2>3 DEF KInv, DtbOnly
<1>5. CASE K!io_read(n, n - k) # n
  BY <1>1, <1>3, <1>5 DEF KInv
<1> QED BY <1>4, <1>5

LEMMA KPlaces == ASSUME KInv, K!Place \/ K!Enter PROVE KInv'
<1>1. CASE K!Place
  <2>1. /\ kpc = "init" /\ kpc' = "load" /\ base' = K!Align(host.dtb.length, host.bal.align)
        /\ step = host.bal.init_reads + 1 /\ UNCHANGED <<host, dtb_size, step, filepos, kmem>>
    BY <1>1 DEF K!Place, K!Bal, KInv
  <2>2. /\ host.bal.init_reads \in 0 .. Len(host.bal.reads) /\ Len(host.bal.reads) \in Nat
        /\ host.dtb.length \in Nat /\ host.bal.align \in Nat \ {0}
        /\ host.dtb # K!Absent /\ host.bal # K!Absent
    BY <2>1, HugeNumber DEF KInv, K!IsHost, K!IsElf
  <2>3. base' \in Nat /\ base' >= host.dtb.length
    BY <2>1, <2>2, AlignedUp
  <2>4. KImage'
    BY <2>1, <2>2, <2>3, SizesAssumption DEF KImage, KInv, DtbOnly, KLoads
  <2> QED BY <2>1, <2>2, <2>4 DEF KInv
<1>2. CASE K!Enter
  BY <1>2 DEF K!Enter, K!Bal, KInv, KImage, KLoads, KByte
<1> QED BY <1>1, <1>2

LEMMA KPreads == ASSUME KInv, K!Pread PROVE KInv'
<1> DEFINE b == host.bal  r == host.bal.reads[step]
<1>1. /\ kpc \in {"init", "load"} /\ host.dtb # K!Absent /\ host.bal # K!Absent
      /\ UNCHANGED <<host, mem_mark, dtb_size, base>>
      /\ kpc = "init" => step \in 1 .. b.init_reads
      /\ kpc = "load" => step \in KLoads
  BY DEF K!Pread, K!Reading, K!Bal, KInv, KLoads
<1>2. /\ b.reads \in Seq(K!Transfer) /\ b.init_reads \in 0 .. Len(b.reads)
      /\ host.dtb.length \in Nat /\ b.align \in Nat \ {0} /\ b.init_reads \in Nat
      /\ Len(b.reads) \in Nat /\ DOMAIN b.reads = 1 .. Len(b.reads)
  BY <1>1, HugeNumber DEF KInv, K!IsHost, K!IsElf
<1>7. \A i \in DOMAIN b.reads : b.reads[i] \in K!Transfer
  BY <1>2
<1>8. \A j \in KLoads : j \in 1 .. Len(b.reads) /\ j \in Nat /\ b.reads[j] \in K!Transfer
  BY <1>2, <1>7 DEF KLoads
<1>9. /\ \A i, j \in KLoads : \/ i = j \/ b.reads[i].to + b.reads[i].n <= b.reads[j].to
                              \/ b.reads[j].to + b.reads[j].n <= b.reads[i].to
  BY <1>1 DEF KInv, K!IsHost, K!IsElf, KLoads
<1>3. step \in 1 .. Len(b.reads) /\ r \in K!Transfer
      /\ r.offset \in Nat /\ r.n \in Nat /\ r.to \in Nat
  <2>1. step \in 1 .. Len(b.reads)
    BY <1>1, <1>2, <1>8
  <2>2. r \in K!Transfer
    BY <1>2, <1>7, <2>1
  <2> QED BY <2>1, <2>2 DEF K!Transfer
<1> HIDE DEF b, r
<1>4. PICK k \in K!Transferred("bal", r.offset, r.n) :
          /\ kmem' = IF kpc = "init" THEN kmem
                     ELSE K!Loaded("bal", r.offset, base + r.to, k)
          /\ IF K!io_read(r.n, r.n - k) = r.n
             THEN step' = step + 1 /\ UNCHANGED kpc
             ELSE kpc' = "halted" /\ UNCHANGED step
  BY DEF K!Pread, K!Bal, b, r
<1>5. CASE K!io_read(r.n, r.n - k) # r.n
  BY <1>1, <1>4, <1>5 DEF KInv
<1>6. CASE K!io_read(r.n, r.n - k) = r.n
  <2>1. k = r.n
    BY <1>3, <1>4, <1>6 DEF K!io_read, K!Transferred
  <2>2. step' = step + 1 /\ kpc' = kpc
    BY <1>4, <1>6
  <2>3. CASE kpc = "init"
    <3>1. kmem' = kmem /\ step' \in 1 .. b.init_reads + 1
      BY <1>1, <1>2, <1>4, <2>2, <2>3
    <3> QED BY <1>1, <2>2, <2>3, <3>1 DEF KInv, DtbOnly, b
  <2>4. CASE kpc = "load"
    <3>1. /\ base = K!Align(host.dtb.length, b.align) /\ base \in Nat /\ base >= host.dtb.length
          /\ DOMAIN kmem = 0 .. Space - 1 /\ KImage
      BY <1>2, <2>4, AlignedUp DEF KInv, KImage, b
    <3>2. kmem' = [a \in 0 .. Space - 1 |->
                     IF base + r.to <= a /\ a < base + r.to + r.n
                     THEN <<"bal", r.offset + a - (base + r.to)>> ELSE kmem[a]]
      BY <1>4, <2>1, <2>4, <3>1 DEF K!Loaded
    <3>3. ASSUME NEW a \in 0 .. Space - 1
          PROVE  /\ a < host.dtb.length => kmem'[a] = kmem[a]
                 /\ a >= base /\ K!Covers(r, a - base) => kmem'[a] = KByte(r, a - base)
                 /\ a >= base /\ ~K!Covers(r, a - base) => kmem'[a] = kmem[a]
      <4>1. (base + r.to <= a /\ a < base + r.to + r.n) <=> K!Covers(r, a - base)
        BY <1>3, <3>1, SizesAssumption DEF K!Covers
      <4>2. r.offset + a - (base + r.to) = r.offset + (a - base) - r.to
        BY <1>3, <3>1, SizesAssumption
      <4>3. a < host.dtb.length => ~(base + r.to <= a)
        BY <1>2, <1>3, <3>1, SizesAssumption
      <4> QED BY <3>2, <4>1, <4>2, <4>3 DEF KByte
    <3>4. KLoads' = KLoads /\ \A j \in KLoads : j < step' <=> j < step \/ j = step
      BY <1>1, <1>3, <1>8, <2>2 DEF KLoads
    <3>5. ASSUME NEW a \in 0 .. Space - 1, a >= base,
                 NEW j \in KLoads, j < step', K!Covers(b.reads[j], a - base)
          PROVE  kmem'[a] = KByte(b.reads[j], a - base)
      <4>1. CASE j = step
        BY <3>3, <3>5, <4>1 DEF b, r
      <4>2. CASE j # step
        <5>1. j < step /\ kmem[a] = KByte(b.reads[j], a - base)
          BY <3>1, <3>4, <3>5, <4>2 DEF KImage, b
        <5>2. ~K!Covers(r, a - base)
          <6>1. b.reads[j] \in K!Transfer
            BY <1>8
          <6>3. b.reads[j].n \in Nat /\ b.reads[j].to \in Nat
            BY <6>1 DEF K!Transfer
          <6>2. \/ b.reads[j].to + b.reads[j].n <= r.to \/ r.to + r.n <= b.reads[j].to
            BY <1>1, <1>9, <2>4, <4>2 DEF r, b
          <6>4. a - base \in Int /\ b.reads[j].to <= a - base /\ a - base < b.reads[j].to + b.reads[j].n
            BY <3>1, <3>5, SizesAssumption DEF K!Covers
          <6> QED BY <1>3, <6>2, <6>3, <6>4, SMTT(30) DEF K!Covers
        <5> QED BY <3>3, <3>5, <5>1, <5>2
      <4> QED BY <4>1, <4>2
    <3>6. ASSUME NEW a \in 0 .. Space - 1, a >= base,
                 \A j \in KLoads : j < step' => ~K!Covers(b.reads[j], a - base)
          PROVE  kmem'[a] = K!Free
      <4>1. ~K!Covers(r, a - base)
        BY <1>1, <2>4, <3>4, <3>6 DEF r, b
      <4>2. kmem[a] = K!Free
        BY <3>1, <3>4, <3>6 DEF KImage, b
      <4> QED BY <3>3, <3>6, <4>1, <4>2
    <3>7. KImage'
      <4>1. DOMAIN kmem' = 0 .. Space - 1
        BY <3>2
      <4>2. \A a \in 0 .. Space - 1 : a < host.dtb.length => kmem'[a] = <<"dtb", a>>
        BY <3>1, <3>3 DEF KImage
      <4> QED BY <1>1, <3>1, <3>4, <3>5, <3>6, <4>1, <4>2 DEF KImage, KByte, b
    <3>8. step' \in b.init_reads + 1 .. Len(b.reads) + 1
      BY <1>1, <1>2, <2>2, <2>4 DEF KLoads, b
    <3> QED BY <1>1, <2>2, <2>4, <3>7, <3>8 DEF KInv, b
  <2> QED BY <1>1, <2>3, <2>4
<1> QED BY <1>5, <1>6

LEMMA KSteps == ASSUME KInv, K!Next PROVE KInv'
  BY KFails, KOpens, KReadsDtb, KPlaces, KPreads DEF K!Next

LEMMA KEntered ==
  ASSUME KInv, K!Enter
  PROVE  /\ K!Offer = <<[i \in 0 .. host.dtb.length - 1 |-> kmem[i]],
                        [i \in 0 .. host.bal.image - 1 |-> kmem[base + i]]>>
         /\ K!Offer # K!NoFile
<1> DEFINE b == host.bal
<1>1. /\ host.dtb # K!Absent /\ host.bal # K!Absent /\ KImage /\ step > Len(b.reads)
      /\ K!Offer = <<K!WholeDtb, K!WholeBal>>
      /\ host.dtb.length \in Nat /\ b.align \in Nat \ {0} /\ b.image \in Nat
      /\ b.reads \in Seq(K!Transfer) /\ step \in Nat
      /\ b.init_reads \in 0 .. Len(b.reads)
      /\ K!Align(host.dtb.length, b.align) + b.image <= Space
  <2>1. host.dtb # K!Absent /\ host.bal # K!Absent /\ KImage /\ K!IsHost(host)
        /\ step \in b.init_reads + 1 .. Len(b.reads) + 1 /\ step > Len(b.reads)
    BY DEF KInv, K!Enter, K!Bal
  <2>2. K!Offer = <<K!WholeDtb, K!WholeBal>>
    BY <2>1 DEF K!Offer
  <2>3. K!IsElf(b) /\ host.dtb.length \in Nat
    BY <2>1, HugeNumber DEF K!IsHost
  <2> QED BY <2>1, <2>2, <2>3 DEF K!IsHost, K!IsElf
<1>2. base \in Nat /\ base >= host.dtb.length /\ base + b.image <= Space
  BY <1>1, AlignedUp DEF KImage
<1>3. K!WholeDtb = [i \in 0 .. host.dtb.length - 1 |-> kmem[i]]
  BY <1>1, <1>2, SizesAssumption, SMTT(30) DEF K!WholeDtb, KImage
<1>4. ASSUME NEW i \in 0 .. b.image - 1
      PROVE  K!WholeBal[i] = kmem[base + i]
  <2> DEFINE R == {j \in KLoads : K!Covers(b.reads[j], i)}
  <2>1. K!WholeBal[i] = IF R = {} THEN K!Free ELSE KByte(b.reads[CHOOSE j \in R : TRUE], i)
    BY DEF K!WholeBal, K!Bal, KLoads, KByte
  <2>2. base + i \in 0 .. Space - 1 /\ base + i >= base /\ (base + i) - base = i
    BY <1>1, <1>2, SizesAssumption
  <2>3. \A j \in KLoads : j < step
    BY <1>1 DEF KLoads
  <2>4. CASE R = {}
    <3>1. \A j \in KLoads : j < step => ~K!Covers(b.reads[j], (base + i) - base)
      BY <2>2, <2>4
    <3>2. kmem[base + i] = K!Free
      BY <1>1, <2>2, <3>1 DEF KImage
    <3> QED BY <2>1, <2>4, <3>2
  <2>5. CASE R # {}
    <3> DEFINE c == CHOOSE j \in R : TRUE
    <3>1. c \in R
      BY <2>5
    <3> HIDE DEF c
    <3>2. c \in KLoads /\ c < step /\ K!Covers(b.reads[c], (base + i) - base)
      BY <2>2, <2>3, <3>1
    <3>3. kmem[base + i] = KByte(b.reads[c], (base + i) - base)
      BY <1>1, <2>2, <3>2 DEF KImage
    <3> QED BY <2>1, <2>2, <2>5, <3>3 DEF c
  <2> QED BY <2>4, <2>5
<1>5. K!WholeBal = [i \in 0 .. b.image - 1 |-> kmem[base + i]]
  BY <1>4 DEF K!WholeBal, K!Bal
<1> QED BY <1>1, <1>3, <1>5 DEF K!NoFile

(* What ks_main enters the layer with is the device tree and, above it,    *)
(* the image of the layer, every byte of every segment in its place: each  *)
(* step of Kickstart is one of BootFile, or none.                          *)
THEOREM KickstartHandsOverAlways == Spec => KickstartHandsOver
<1>1. Init => K!BF!Init
  BY DEF Init, K!Begin, K!BF!Init, K!BF!NoImage
<1>2. KInv /\ [Next]_vars => KInv'
  BY Steps, KKept, KSteps
<1>3. ASSUME KInv, K!Next
      PROVE  K!BF!Next \/ UNCHANGED K!BF!vars
  <2>1. host' = host /\ kpc \notin {"halted", "entered"}
    BY <1>3 DEF K!Next, K!DtbMissing, K!OpenDtb, K!ReadDtb, K!DtbLoaded, K!BalMissing, K!OpenBal, 
               K!LibraryFails, K!Pread, K!Reading, K!Place, K!Enter, K!Fail
  <2>2. K!Offer' = K!Offer
    BY <2>1 DEF K!Offer, K!WholeDtb, K!WholeBal, K!Bal
  <2>3. CASE K!Enter
    <3>1. /\ K!Offer = <<[i \in 0 .. host.dtb.length - 1 |-> kmem[i]],
                         [i \in 0 .. host.bal.image - 1 |-> kmem[base + i]]>>
          /\ K!Offer # K!NoFile
      BY <1>3, <2>3, KEntered
    <3>2. kpc = "load" /\ kpc' = "entered" /\ UNCHANGED <<host, base, kmem>>
      BY <2>3 DEF K!Enter
    <3> QED BY <2>2, <3>1, <3>2 DEF K!BF!Next, K!BF!Enter, K!BF!Best, K!Bal
  <2>4. CASE kpc' = "halted"
    BY <2>1, <2>2, <2>4 DEF K!BF!Next, K!BF!Abort
  <2>5. CASE kpc' # "halted" /\ ~K!Enter
    <3>1. kpc' \in {"dtb_read", "bal", "init", "load"}
      BY <1>3, <2>5 DEF K!Next, K!DtbMissing, K!OpenDtb, K!ReadDtb, K!DtbLoaded, K!BalMissing, K!OpenBal, 
                     K!LibraryFails, K!Pread, K!Reading, K!Place, K!Fail
    <3> QED BY <2>1, <2>2, <3>1 DEF K!BF!vars
  <2> QED BY <2>3, <2>4, <2>5
<1>4. UNCHANGED kick => UNCHANGED K!BF!vars
  BY DEF kick, K!BF!vars, K!Offer, K!WholeDtb, K!WholeBal, K!Bal
<1>5. KInv /\ [Next]_vars => [K!BF!Next]_(K!BF!vars)
  BY <1>3, <1>4, Steps
<1> QED BY <1>1, <1>2, <1>5, KInit, PTL DEF Spec, KickstartHandsOver, K!KickstartHandsOver, K!BF!Spec

-----------------------------------------------------------------------------
(* Memory from the device tree.  Given: what is known of a page that no    *)
(* reservation touches once n ranges of memory have been entered.          *)
Given(p, n) ==
  /\ pages[p] \in {"none", "conventional", "unusable"}
  /\ pages[p] = "conventional" <=> \E i \in 0 .. n - 1 : D!P!Covers(D!Declared(fdt, i), p)
  /\ pages[p] = "unusable" => \E i \in 0 .. n - 1 : D!P!Touches(D!Declared(fdt, i), p)

MRanges ==
  /\ dpc \in {"header", "rsv"} =>
       \A p \in D!P!PageAddr : ~D!IsReserved(p) => pages[p] = "none"
  /\ dpc \in {"memory", "tree", "ready"} =>
       \E n \in Nat :
         /\ index = n * D!CellsOf(fdt) /\ index <= Len(fdt.reg)
         /\ \A p \in D!P!PageAddr : ~D!IsReserved(p) => Given(p, n)
  /\ dpc \in {"tree", "ready"} => index >= Len(fdt.reg)

MInv == D!IsFdt(fdt) /\ index \in Nat /\ MRanges

LEMMA MInit == Init => MInv
<1> SUFFICES ASSUME Init PROVE MInv
  OBVIOUS
<1>1. D!Begin /\ D!IsFdt(fdt)
  BY MachinesAssumption DEF Init
<1> QED BY <1>1 DEF D!Begin, MInv, MRanges

LEMMA MKept ==
  ASSUME MInv, UNCHANGED <<fdt, index, pages>>, dpc' = dpc \/ dpc' \notin {"header", "rsv", "memory", "tree", "ready"}
               \/ (dpc = "header" /\ dpc' = "rsv") \/ (dpc = "tree" /\ dpc' = "ready")
  PROVE  MInv'
<1>1. \A p, n : Given(p, n)' = Given(p, n)
  BY DEF Given
<1>2. \A p : D!IsReserved(p)' = D!IsReserved(p)
  BY DEF D!IsReserved
<1> QED BY <1>1, <1>2 DEF MInv, MRanges

LEMMA MReserves == ASSUME MInv, D!Reserve PROVE MInv'
<1> DEFINE r == fdt.rsv[index + 1]  e == D!Region(r[1], r[2], "reserved")
<1>1. /\ dpc = "rsv" /\ index \in Nat /\ index < Len(fdt.rsv) /\ index' = index + 1
      /\ UNCHANGED <<fdt, dpc>> /\ pages' = [p \in D!P!PageAddr |-> D!P!With(FALSE, e, p)]
  BY DEF D!Reserve, D!mmap_add_entry, MInv
<1>2. index + 1 \in DOMAIN fdt.rsv /\ fdt.rsv[index + 1] \in Nat \X Nat
  BY <1>1 DEF MInv, D!IsFdt
<1>3. r[1] \in Nat /\ r[2] \in Nat
  BY <1>2
<1>4. ASSUME NEW p \in D!P!PageAddr, ~D!IsReserved(p)
      PROVE  pages'[p] = "none"
  <2>1. p \in Int
    BY DEF D!P!PageAddr, D!P!PageSize
  <2>2. ~(r[1] < p + 4096 /\ p < r[1] + r[2])
    BY <1>2, <1>4 DEF D!IsReserved, D!PageSize
  <2>3. ~D!P!Covers(e, p) /\ ~D!P!Touches(e, p)
    BY <1>3, <2>1, <2>2 DEF D!P!Covers, D!P!Touches, D!P!End, D!P!PageSize, D!Region
  <2>4. pages[p] = "none"
    BY <1>1, <1>4 DEF MInv, MRanges
  <2> HIDE DEF e
  <2> QED BY <1>1, <2>3, <2>4 DEF D!P!With
<1>5. \A p : D!IsReserved(p)' = D!IsReserved(p)
  BY <1>1 DEF D!IsReserved
<1>6. fdt' = fdt /\ dpc' = "rsv" /\ index' \in Nat
  BY <1>1
<1> HIDE DEF e, r
<1> QED BY <1>4, <1>5, <1>6 DEF MInv, MRanges

LEMMA MFinds == ASSUME MInv, D!FindMemory PROVE MInv'
<1>1. CASE D!Panic
  BY <1>1, MKept DEF D!Panic
<1>2. CASE ~D!Panic
  <2>1. dpc = "rsv" /\ dpc' = "memory" /\ index' = 0 /\ UNCHANGED <<fdt, pages>>
    BY <1>2 DEF D!FindMemory
  <2>2. \A p : D!IsReserved(p)' = D!IsReserved(p)
    BY <2>1 DEF D!IsReserved
  <2>3. D!CellsOf(fdt) \in Nat /\ Len(fdt.reg) \in Nat
    BY DEF MInv, D!IsFdt, D!CellsOf
  <2>4. ASSUME NEW p \in D!P!PageAddr, ~D!IsReserved(p)
        PROVE  Given(p, 0)'
    BY <2>1, <2>4 DEF MInv, MRanges, Given
  <2>5. index' = 0 * D!CellsOf(fdt)
    BY <2>1, <2>3
  <2> QED BY <2>1, <2>2, <2>3, <2>4, <2>5 DEF MInv, MRanges
<1> QED BY <1>1, <1>2

LEMMA RankFacts ==
  D!P!Rank["unusable"] <= D!P!Rank["conventional"]
<1>1. D!P!Position(D!P!OverlapPrecedence, "unusable") = 1
  BY DEF D!P!Position, D!P!OverlapPrecedence
<1>2. D!P!Position(D!P!OverlapPrecedence, "conventional") = 13
  BY DEF D!P!Position, D!P!OverlapPrecedence
<1> QED BY <1>1, <1>2 DEF D!P!Rank, D!P!Type

(* The code puts the cells of the n-th range together as the tree means    *)
(* them.                                                                   *)
LEMMA MRangeRead ==
  ASSUME MInv, NEW n \in Nat, index = n * D!CellsOf(fdt), index + D!CellsOf(fdt) <= Len(fdt.reg)
  PROVE  /\ D!MemoryRange(index) = D!Declared(fdt, n)
         /\ n \in D!RangesOf(fdt)
         /\ \A i \in 0 .. n : /\ i \in D!RangesOf(fdt)
                               /\ D!Declared(fdt, i).start \in Nat /\ D!Declared(fdt, i).size \in Nat
                              /\ D!Declared(fdt, i).type = "conventional"
<1> DEFINE a == fdt.address_cells  s == fdt.size_cells  c == D!CellsOf(fdt)  reg == fdt.reg
<1>1. a \in 1 .. 2 /\ s \in 1 .. 2 /\ c = a + s /\ reg \in Seq(Nat) /\ Len(reg) \in Nat
  BY DEF MInv, D!IsFdt, D!CellsOf
<1>2. c \in 2 .. 4
  BY <1>1
<1> HIDE DEF a, s, c, reg
<1>3. ASSUME NEW i \in 0 .. n
      PROVE  i * c \in Nat /\ i * c <= n * c /\ i * c + c <= Len(reg) /\ i < Len(reg) \div c
  <2>1. n * c + c <= Len(reg)
    BY DEF c, reg
  <2>2. CASE c = 2
    BY <1>1, <2>1, <2>2
  <2>3. CASE c = 3
    BY <1>1, <2>1, <2>3
  <2>4. CASE c = 4
    BY <1>1, <2>1, <2>4
  <2> QED BY <1>2, <2>2, <2>3, <2>4
<1>4. \A i \in 0 .. n : i \in D!RangesOf(fdt)
  <2>1. Len(reg) \div c \in Int
    BY <1>1, <1>2
  <2> QED BY <1>3, <2>1 DEF D!RangesOf, c, reg
<1>5. \A k \in 1 .. Len(reg) : reg[k] \in Nat
  BY <1>1
<1>6. ASSUME NEW i \in 0 .. n
      PROVE  /\ D!Declared(fdt, i).start \in Nat /\ D!Declared(fdt, i).size \in Nat
             /\ D!Declared(fdt, i).type = "conventional"
  <2> DEFINE f == i * c
  <2>1. f \in Nat /\ f + c <= Len(reg)
    BY <1>3
  <2> HIDE DEF f
  <2>2. D!Digits(fdt, f + 1, a) \in Nat
    <3>1. CASE a = 1
      BY <1>1, <1>5, <2>1, <3>1 DEF D!Digits, reg
    <3>2. CASE a = 2
      <4>1. reg[f + 1] \in Nat /\ reg[f + 2] \in Nat /\ (f + 1) + 1 = f + 2
        BY <1>1, <1>5, <2>1, <3>2
      <4>2. \A x, y \in Nat : x * CellWord + y \in Nat
        BY SizesAssumption
      <4> QED BY <4>1, <4>2, <3>2 DEF D!Digits, reg
    <3> QED BY <1>1, <3>1, <3>2
  <2>3. D!Digits(fdt, f + a + 1, s) \in Nat
    <3>1. CASE s = 1
      BY <1>1, <1>5, <2>1, <3>1 DEF D!Digits, reg
    <3>2. CASE s = 2
      <4>1. reg[f + a + 1] \in Nat /\ reg[f + a + 2] \in Nat /\ (f + a + 1) + 1 = f + a + 2
        BY <1>1, <1>5, <2>1, <3>2
      <4>2. \A x, y \in Nat : x * CellWord + y \in Nat
        BY SizesAssumption
      <4> QED BY <4>1, <4>2, <3>2 DEF D!Digits, reg
    <3> QED BY <1>1, <3>1, <3>2
  <2> QED BY <2>2, <2>3 DEF D!Declared, D!Region, f, a, s, c
<1>7. D!MemoryRange(index) = D!Declared(fdt, n)
  <2>1. index \in Nat /\ index = n * c
    BY DEF MInv, c
  <2>2. D!Cell(fdt.reg, index, a) = D!Digits(fdt, index + 1, a)
    BY <1>1, <2>1 DEF D!Cell, D!Digits
  <2>3. D!Cell(fdt.reg, index + a, s) = D!Digits(fdt, index + a + 1, s)
    <3>1. index + a \in Nat /\ (index + a + 1) + 1 = (index + a) + 2
      BY <1>1, <2>1
    <3> QED BY <1>1, <3>1 DEF D!Cell, D!Digits
  <2> QED BY <2>1, <2>2, <2>3 DEF D!MemoryRange, D!Declared, a, s, c
<1> QED BY <1>4, <1>6, <1>7

LEMMA MAdds == ASSUME MInv, D!AddMemory PROVE MInv'
<1>1. CASE dpc' = "wild"
  <2>1. UNCHANGED <<fdt, index, pages>>
    BY <1>1 DEF D!AddMemory
  <2> QED BY <1>1, <2>1, MKept
<1>2. CASE dpc' # "wild"
  <2> DEFINE c == D!CellsOf(fdt)
  <2>1. /\ dpc = "memory" /\ index + c <= Len(fdt.reg) /\ index' = index + c /\ UNCHANGED <<fdt, dpc>>
        /\ pages' = [p \in D!P!PageAddr |-> D!P!With(FALSE, D!MemoryRange(index), p)]
    BY <1>2 DEF D!AddMemory, D!mmap_add_entry, D!Cells, D!CellsOf
  <2>2. PICK n \in Nat : /\ index = n * c
                         /\ \A p \in D!P!PageAddr : ~D!IsReserved(p) => Given(p, n)
    BY <2>1 DEF MInv, MRanges
  <2> DEFINE R(i) == D!Declared(fdt, i)
  <2>3. /\ D!MemoryRange(index) = R(n) /\ n \in D!RangesOf(fdt)
        /\ \A i \in 0 .. n : /\ i \in D!RangesOf(fdt) /\ R(i).type = "conventional"
                             /\ R(i).start \in Nat /\ R(i).size \in Nat
    BY <2>1, <2>2, MRangeRead
  <2>4. c \in Nat /\ index \in Nat
    BY DEF MInv, D!IsFdt, D!CellsOf
  <2>5. index' = (n + 1) * c /\ index' \in Nat
    BY <2>1, <2>2, <2>4
  <2>6. \A i \in 0 .. n - 1 : ~D!Overlapping(R(i), R(n))
    <3>1. \A i, j \in D!RangesOf(fdt) : i # j => ~D!Overlapping(R(i), R(j))
      BY DEF MInv, D!IsFdt
    <3>2. \A i \in 0 .. n - 1 : i \in 0 .. n /\ i # n
      OBVIOUS
    <3> QED BY <2>3, <3>1, <3>2
  <2> HIDE DEF R
  <2>7. ASSUME NEW p \in D!P!PageAddr, ~D!IsReserved(p)
        PROVE  Given(p, n + 1)'
    <3>1. p \in Int
      BY DEF D!P!PageAddr, D!P!PageSize
    <3>2. \A i \in 0 .. n : D!P!Covers(R(i), p) => D!P!Touches(R(i), p)
      BY <2>3, <3>1 DEF D!P!Covers, D!P!Touches, D!P!End, D!P!PageSize
    <3>3. ASSUME NEW i \in 0 .. n, NEW j \in 0 .. n, D!P!Covers(R(i), p), D!P!Touches(R(j), p)
          PROVE  D!Overlapping(R(i), R(j)) /\ D!Overlapping(R(j), R(i))
      BY <2>3, <3>1, <3>3 DEF D!P!Covers, D!P!Touches, D!P!End, D!P!PageSize, D!Overlapping, D!End
    <3>4. Given(p, n)
      BY <2>2, <2>7
    <3>5. pages'[p] = D!P!With(FALSE, R(n), p) /\ R(n).type = "conventional"
      BY <2>1, <2>3
    <3>6. \A i \in 0 .. n - 1 : i \in 0 .. n
      OBVIOUS
    <3>7. CASE D!P!Covers(R(n), p)
      <4>1. \A i \in 0 .. n - 1 : ~D!P!Touches(R(i), p)
        BY <2>6, <3>3, <3>6, <3>7
      <4>2. pages[p] \in {"none", "conventional"}
        BY <3>4, <4>1 DEF Given, R
      <4>3. pages'[p] = "conventional"
        BY <3>5, <3>7, <4>2 DEF D!P!With, D!P!Promoted, D!P!HigherPrecedence
      <4>4. n \in 0 .. (n + 1) - 1 /\ fdt' = fdt
        BY <2>1
      <4> QED BY <3>7, <4>3, <4>4 DEF Given, R
    <3>8. CASE ~D!P!Covers(R(n), p) /\ D!P!Touches(R(n), p)
      <4>1. \A i \in 0 .. n - 1 : ~D!P!Covers(R(i), p)
        BY <2>6, <3>3, <3>6, <3>8
      <4>2. pages[p] \in {"none", "unusable"}
        BY <3>4, <4>1 DEF Given, R
      <4>3. pages'[p] = "unusable"
        BY <3>5, <3>8, <4>2 DEF D!P!With, D!P!Promoted, D!P!HigherPrecedence
      <4>4. /\ \A i \in 0 .. (n + 1) - 1 : i \in 0 .. n - 1 \/ i = n
            /\ n \in 0 .. (n + 1) - 1 /\ fdt' = fdt
        BY <2>1
      <4> QED BY <3>8, <4>1, <4>3, <4>4 DEF Given, R
    <3>9. CASE ~D!P!Covers(R(n), p) /\ ~D!P!Touches(R(n), p)
      <4>1. pages'[p] = pages[p]
        BY <3>5, <3>9 DEF D!P!With
      <4>2. \A i \in 0 .. (n + 1) - 1 : i \in 0 .. n - 1 \/ i = n
        OBVIOUS
      <4>3. \A i \in 0 .. n - 1 : i \in 0 .. (n + 1) - 1
        OBVIOUS
      <4> QED BY <2>1, <3>4, <3>9, <4>1, <4>2, <4>3 DEF Given, R
    <3> QED BY <3>7, <3>8, <3>9
  <2>8. \A p : D!IsReserved(p)' = D!IsReserved(p)
    BY <2>1 DEF D!IsReserved
  <2>9. n + 1 \in Nat
    OBVIOUS
  <2> QED BY <2>1, <2>5, <2>7, <2>8, <2>9 DEF MInv, MRanges, D!CellsOf
<1> QED BY <1>1, <1>2

LEMMA MSteps == ASSUME MInv, D!Next PROVE MInv'
<1>1. CASE D!CheckHeader
  BY <1>1, MKept DEF D!CheckHeader, D!Panic
<1>2. CASE D!Reserve \/ D!FindMemory \/ D!AddMemory
  BY <1>2, MReserves, MFinds, MAdds
<1>3. CASE D!BuildTree
  <2>1. dpc = "memory" /\ dpc' = "tree" /\ index >= Len(fdt.reg) /\ UNCHANGED <<fdt, index, pages>>
    BY <1>3 DEF D!BuildTree
  <2>2. \A p, n : Given(p, n)' = Given(p, n)
    BY <2>1 DEF Given
  <2>3. \A p : D!IsReserved(p)' = D!IsReserved(p)
    BY <2>1 DEF D!IsReserved
  <2> QED BY <2>1, <2>2, <2>3 DEF MInv, MRanges
<1>4. CASE D!OutOfMemory \/ D!SetProperty \/ D!AddSubnode \/ D!NodeDone
  <2>1. UNCHANGED <<fdt, index, pages>> /\ (dpc' = dpc \/ dpc' = "panic" \/ (dpc = "tree" /\ dpc' = "ready"))
    BY <1>4 DEF D!OutOfMemory, D!SetProperty, D!AddSubnode, D!NodeDone, D!Panic, D!PropertiesDone, D!Building
  <2> QED BY <2>1, MKept
<1>5. CASE \E n \in DOMAIN fdt.nodes :
             D!AttachBus(n) \/ D!AttachLeaks(n) \/ D!AttachNull(n) \/ D!AttachFails(n) \/ D!AttachUart(n)
  <2>1. UNCHANGED <<fdt, index, pages>> /\ (dpc' = dpc \/ dpc' \in {"panic", "null"})
    BY <1>5 DEF D!AttachBus, D!AttachLeaks, D!AttachNull, D!AttachFails, D!AttachUart, D!Bind, D!Panic
  <2> QED BY <2>1, MKept
<1> QED BY <1>1, <1>2, <1>3, <1>4, <1>5 DEF D!Next

(* Of the pages that are not reserved and that neither the layer nor the   *)
(* tree itself lies in, dt_platform_init_fdt offers exactly those the tree *)
(* describes as memory.                                                    *)
THEOREM MemoryOfferedAlways == Spec => []MemoryOffered
<1>1. MInv /\ [Next]_vars => MInv'
  BY Steps, MSteps, MKept DEF dtree
<1>2. MInv => MemoryOffered
  <2> SUFFICES ASSUME MInv, D!MemoryKnown, NEW p \in D!P!PageAddr, ~D!IsReserved(p)
               PROVE  pages[p] = "conventional" <=> D!InMemory(p)
    BY DEF MemoryOffered, D!MemoryOffered
  <2>1. PICK n \in Nat : /\ index = n * D!CellsOf(fdt) /\ index = Len(fdt.reg) /\ Given(p, n)
    BY DEF MInv, MRanges, D!MemoryKnown, D!IsFdt
  <2> DEFINE c == D!CellsOf(fdt)  l == Len(fdt.reg)
  <2>2. c \in 2 .. 4 /\ n * c = l /\ l \in Nat
    BY <2>1 DEF MInv, D!IsFdt, D!CellsOf
  <2> HIDE DEF c, l
  <2>3. l \div c = n
    <3>1. CASE c = 2
      BY <2>2, <3>1
    <3>2. CASE c = 3
      BY <2>2, <3>2
    <3>3. CASE c = 4
      BY <2>2, <3>3
    <3> QED BY <2>2, <3>1, <3>2, <3>3
  <2> QED BY <2>1, <2>3 DEF Given, D!InMemory, D!RangesOf, c, l
<1> QED BY <1>1, <1>2, MInit, PTL DEF Spec

-----------------------------------------------------------------------------
(* The tree of nodes.  While it is built, a node that is being added is on *)
(* the stack, with its properties up to prop and its children up to last   *)
(* done; of every other node in the tree all is done.                      *)
Frames == [node : Nat, prop : Nat, last : Nat]
PropertyMaps == UNION {[S -> Seq(Nat)] : S \in SUBSET STRING}
DtNode == [name : STRING, parent : Nat, properties : PropertyMaps, linked : BOOLEAN]

Info(n) == fdt.nodes[n]
NumProps(n) == Len(fdt.nodes[n].properties)
OnStack(n) == \E f \in 1 .. Len(stack) : stack[f].node = n
ChildOf(m, n) == m \in DOMAIN fdt.nodes /\ m # 1 /\ Info(m).parent = n

(* Of the first k properties of node n, the last one of each name is the   *)
(* one its dt_node has.                                                    *)
PropsRead(n, k) ==
  \A i \in 1 .. k :
    (\A j \in 1 .. k : j > i => Info(n).properties[j][1] # Info(n).properties[i][1])
      => /\ Info(n).properties[i][1] \in DOMAIN dt[n].properties
         /\ dt[n].properties[Info(n).properties[i][1]] = Info(n).properties[i][2]

NTypes ==
  /\ D!IsFdt(fdt) /\ stack \in Seq(Frames)
  /\ dpc \in {"header", "rsv", "memory"} => DOMAIN dt = {} /\ stack = <<>>
  /\ dpc = "ready" => stack = <<>>
  /\ dpc \in {"tree", "ready"} => 1 \in DOMAIN dt
  /\ DOMAIN dt \subseteq DOMAIN fdt.nodes
  /\ \A n \in DOMAIN dt :
       dt[n] \in DtNode /\ dt[n].name = Info(n).name /\ dt[n].parent = Info(n).parent

NStack ==
  /\ \A f \in 1 .. Len(stack) :
       /\ stack[f].node \in DOMAIN dt /\ stack[f].last >= stack[f].node
       /\ stack[f].prop \in 1 .. NumProps(stack[f].node) + 1
  /\ \A f, g \in 1 .. Len(stack) : stack[f].node = stack[g].node => f = g

NKids ==
  /\ \A f \in 1 .. Len(stack) : \A m : ChildOf(m, stack[f].node) =>
       (m \in DOMAIN dt <=> m <= stack[f].last)
  /\ \A n \in DOMAIN dt : ~OnStack(n) => \A m : ChildOf(m, n) => m \in DOMAIN dt
  /\ \A m \in DOMAIN dt \ {1} : Info(m).parent \in DOMAIN dt

NLinks ==
  /\ 1 \in DOMAIN dt => ~dt[1].linked
  /\ \A n \in DOMAIN dt \ {1} : \E m \in DOMAIN dt :
       /\ m <= n /\ dt[m].linked /\ dt[m].parent = Info(n).parent /\ dt[m].name = Info(n).name

NProps ==
  /\ \A f \in 1 .. Len(stack) : PropsRead(stack[f].node, stack[f].prop - 1)
  /\ \A n \in DOMAIN dt : ~OnStack(n) => PropsRead(n, NumProps(n))

NInv == NTypes /\ NStack /\ NKids /\ NLinks /\ NProps

LEMMA NInit == Init => NInv
<1> SUFFICES ASSUME Init PROVE NInv
  OBVIOUS
<1>1. D!Begin /\ D!IsFdt(fdt)
  BY MachinesAssumption DEF Init
<1>2. stack = <<>> /\ dpc = "header" /\ DOMAIN dt = {} /\ Len(stack) = 0 /\ stack \in Seq(Frames)
  BY <1>1 DEF D!Begin
<1> QED BY <1>1, <1>2 DEF NInv, NTypes, NStack, NKids, NLinks, NProps

LEMMA NKept ==
  ASSUME NInv, UNCHANGED <<fdt, stack, dt>>,
         \/ dpc' = dpc
         \/ /\ dpc' \notin {"tree", "ready"}
            /\ dpc' \in {"header", "rsv", "memory"} => dpc \in {"header", "rsv", "memory"}
  PROVE  NInv'
<1>1. \A n : Info(n)' = Info(n) /\ NumProps(n)' = NumProps(n) /\ OnStack(n)' = OnStack(n)
  BY DEF Info, NumProps, OnStack
<1>2. \A m, n : ChildOf(m, n)' = ChildOf(m, n)
  BY DEF ChildOf, Info
<1>3. \A n, k : PropsRead(n, k)' = PropsRead(n, k)
  BY DEF PropsRead, Info
<1>4. NTypes'
  BY <1>1 DEF NInv, NTypes
<1>5. NStack' /\ NLinks'
  BY <1>1 DEF NInv, NStack, NLinks
<1>6. NKids' /\ NProps'
  BY <1>1, <1>2, <1>3 DEF NInv, NKids, NProps
<1> QED BY <1>4, <1>5, <1>6 DEF NInv

(* The facts about nodes that the steps need.                              *)
LEMMA NodeFacts ==
  ASSUME D!IsFdt(fdt)
  PROVE  /\ DOMAIN fdt.nodes = 1 .. Len(fdt.nodes) /\ Len(fdt.nodes) \in Nat /\ 1 \in DOMAIN fdt.nodes
         /\ \A n \in DOMAIN fdt.nodes :
              /\ n \in Nat /\ n >= 1 /\ Info(n).name \in STRING /\ Info(n).parent \in Nat
              /\ Info(n).properties \in Seq(STRING \X Seq(Nat)) /\ NumProps(n) \in Nat
              /\ n # 1 => Info(n).parent \in 1 .. n - 1
<1>1. fdt.nodes \in Seq(D!NodeInfo) /\ 1 \in DOMAIN fdt.nodes
  BY DEF D!IsFdt, D!Root
<1>2. \A n \in DOMAIN fdt.nodes : fdt.nodes[n] \in D!NodeInfo
  BY <1>1
<1>3. \A n \in DOMAIN fdt.nodes : n # 1 => Info(n).parent \in 1 .. n - 1
  BY DEF D!IsFdt, D!Root, Info
<1>4. DOMAIN fdt.nodes = 1 .. Len(fdt.nodes) /\ Len(fdt.nodes) \in Nat
  BY <1>1
<1> HIDE DEF D!IsFdt
<1>5. ASSUME NEW n \in DOMAIN fdt.nodes
      PROVE  /\ Info(n).name \in STRING /\ Info(n).parent \in Nat
             /\ Info(n).properties \in Seq(STRING \X Seq(Nat)) /\ NumProps(n) \in Nat
  BY <1>2 DEF Info, NumProps, D!NodeInfo
<1> QED BY <1>1, <1>3, <1>4, <1>5

(* The stack with another frame in place of its last.                      *)
LEMMA StackTop ==
  ASSUME stack \in Seq(Frames), stack # <<>>, NEW x \in Frames
  PROVE  /\ D!Below \in Seq(Frames) /\ Len(D!Below) = Len(stack) - 1 /\ Len(stack) \in Nat \ {0}
         /\ \A f \in 1 .. Len(stack) - 1 : D!Below[f] = stack[f]
         /\ Append(D!Below, x) \in Seq(Frames) /\ Len(Append(D!Below, x)) = Len(stack)
         /\ \A f \in 1 .. Len(stack) - 1 : Append(D!Below, x)[f] = stack[f]
         /\ Append(D!Below, x)[Len(stack)] = x
         /\ D!Frame \in Frames
<1>1. Len(stack) \in Nat \ {0} /\ \A f \in 1 .. Len(stack) : stack[f] \in Frames
  BY EmptySeq
<1>2. /\ D!Below \in Seq(Frames) /\ Len(D!Below) = Len(stack) - 1
      /\ \A f \in 1 .. Len(stack) - 1 : D!Below[f] = stack[f]
  <2> DEFINE k == Len(stack) - 1
  <2>1. k \in Nat /\ \A f \in 1 .. k : stack[f] \in Frames
    BY <1>1
  <2>2. /\ SubSeq(stack, 1, k) \in Seq(Frames) /\ Len(SubSeq(stack, 1, k)) = IF 1 <= k THEN k - 1 + 1 ELSE 0
        /\ \A f \in 1 .. k - 1 + 1 : SubSeq(stack, 1, k)[f] = stack[1 + f - 1]
    <3> HIDE DEF k
    <3> QED BY <2>1, SubSeqProperties
  <2> DEFINE s == SubSeq(stack, 1, k)
  <2>3. D!Below = s
    BY DEF D!Below
  <2>4. s \in Seq(Frames) /\ Len(s) = k /\ \A f \in 1 .. k : s[f] = stack[f]
    <3> HIDE DEF k
    <3>1. Len(s) = k /\ s \in Seq(Frames)
      BY <2>1, <2>2
    <3>2. ASSUME NEW f \in 1 .. k PROVE s[f] = stack[f]
      <4>1. f \in 1 .. k - 1 + 1 /\ 1 + f - 1 = f
        BY <2>1
      <4> QED BY <2>2, <4>1
    <3> QED BY <3>1, <3>2
  <2> HIDE DEF s
  <2> QED BY <2>3, <2>4
<1>3. /\ Append(D!Below, x) \in Seq(Frames) /\ Len(Append(D!Below, x)) = Len(D!Below) + 1
      /\ \A f \in 1 .. Len(D!Below) : Append(D!Below, x)[f] = D!Below[f]
      /\ Append(D!Below, x)[Len(D!Below) + 1] = x
  BY <1>2, AppendProperties
<1>4. D!Frame \in Frames
  BY <1>1 DEF D!Frame
<1> QED BY <1>1, <1>2, <1>3, <1>4

LEMMA NoProperties == <<>> \in PropertyMaps
<1>1. <<>> \in [{} -> Seq(Nat)]
  OBVIOUS
<1>2. {} \in SUBSET STRING
  OBVIOUS
<1> QED BY <1>1, <1>2, Zenon DEF PropertyMaps

LEMMA NodeMade ==
  ASSUME D!IsFdt(fdt), NEW n \in DOMAIN fdt.nodes
  PROVE  /\ D!Node(n) \in DtNode /\ D!Node(n).name = Info(n).name /\ D!Node(n).parent = Info(n).parent
         /\ D!Node(n).linked <=> n # 1 /\ D!Siblings(Info(n).parent, Info(n).name) = {}
<1>1. Info(n).name \in STRING /\ Info(n).parent \in Nat
  BY NodeFacts
<1>2. D!Node(n) = [name |-> Info(n).name, parent |-> Info(n).parent, properties |-> <<>>,
                   linked |-> n # 1 /\ D!Siblings(Info(n).parent, Info(n).name) = {}]
  BY DEF D!Node, Info, D!Root
<1> DEFINE l == n # 1 /\ D!Siblings(Info(n).parent, Info(n).name) = {}
           a == Info(n).name  b == Info(n).parent
<1>3. l \in BOOLEAN /\ a \in STRING /\ b \in Nat
  BY <1>1
<1>4. D!Node(n) = [name |-> a, parent |-> b, properties |-> <<>>, linked |-> l]
  BY <1>2
<1> HIDE DEF l, a, b
<1>5. /\ D!Node(n) \in DtNode /\ D!Node(n).name = a /\ D!Node(n).parent = b
      /\ D!Node(n).linked = l
  <2>1. <<>> \in PropertyMaps
    BY NoProperties
  <2> DEFINE e == <<>>
  <2>2. e \in PropertyMaps /\ D!Node(n) = [name |-> a, parent |-> b, properties |-> e, linked |-> l]
    BY <1>4, <2>1
  <2> HIDE DEF e
  <2> QED BY <1>3, <2>2 DEF DtNode
<1> QED BY <1>3, <1>5, Zenon DEF l, a, b

LEMMA NBuilds == ASSUME NInv, D!BuildTree PROVE NInv'
<1>1. /\ dpc = "memory" /\ dpc' = "tree" /\ UNCHANGED fdt /\ DOMAIN dt = {} /\ stack = <<>>
      /\ dt' = [k \in DOMAIN dt \cup {1} |-> IF k = 1 THEN D!Node(1) ELSE dt[k]]
      /\ stack' = Append(<<>>, D!Call(1)) /\ D!IsFdt(fdt)
  BY DEF D!BuildTree, D!Alloc, D!Root, NInv, NTypes
<1>2. DOMAIN dt' = {1} /\ dt'[1] = D!Node(1)
  BY <1>1
<1>3. D!Call(1) \in Frames /\ D!Call(1) = [node |-> 1, prop |-> 1, last |-> 1]
  BY DEF D!Call, Frames
<1>4. Len(stack') = 1 /\ stack'[1] = [node |-> 1, prop |-> 1, last |-> 1] /\ stack' \in Seq(Frames)
  BY <1>1, <1>3
<1>5. /\ 1 \in DOMAIN fdt.nodes /\ NumProps(1) \in Nat
      /\ \A n : Info(n)' = Info(n) /\ NumProps(n)' = NumProps(n)
      /\ \A m, n : ChildOf(m, n)' = ChildOf(m, n)
  BY <1>1, NodeFacts DEF Info, NumProps, ChildOf
<1>6. /\ D!Node(1) \in DtNode /\ D!Node(1).name = Info(1).name /\ D!Node(1).parent = Info(1).parent
      /\ ~D!Node(1).linked
  BY <1>1, <1>5, NodeMade
<1>7. \A m : ChildOf(m, 1) => m \in Nat /\ m > 1
  BY <1>1, NodeFacts DEF ChildOf
<1>8. OnStack(1)'
  BY <1>4 DEF OnStack
<1>9. NTypes'
  BY <1>1, <1>2, <1>4, <1>5, <1>6 DEF NTypes
<1>10. NStack' /\ NLinks'
  BY <1>2, <1>4, <1>5, <1>6 DEF NStack, NLinks
<1>11. NKids'
  BY <1>2, <1>4, <1>5, <1>7, <1>8 DEF NKids
<1>12. NProps'
  BY <1>2, <1>4, <1>8 DEF NProps, PropsRead
<1> QED BY <1>9, <1>10, <1>11, <1>12 DEF NInv

(* What the steps that go on with the node on top of the stack start from. *)
LEMMA NTop ==
  ASSUME NInv, D!Building
  PROVE  /\ dpc = "tree" /\ stack \in Seq(Frames) /\ stack # <<>> /\ D!IsFdt(fdt)
         /\ Len(stack) \in Nat \ {0} /\ D!Frame \in Frames /\ D!Frame = stack[Len(stack)]
         /\ D!Frame.node \in DOMAIN dt /\ D!Frame.node \in DOMAIN fdt.nodes
         /\ D!Frame.prop \in 1 .. NumProps(D!Frame.node) + 1
         /\ \A f \in 1 .. Len(stack) - 1 : stack[f].node # D!Frame.node
<1>1. dpc = "tree" /\ stack \in Seq(Frames) /\ stack # <<>> /\ D!IsFdt(fdt)
  BY DEF D!Building, NInv, NTypes
<1>2. Len(stack) \in Nat \ {0} /\ D!Frame \in Frames
  BY <1>1, StackTop
<1>3. D!Frame = stack[Len(stack)] /\ Len(stack) \in 1 .. Len(stack)
  BY <1>2 DEF D!Frame
<1> QED BY <1>1, <1>2, <1>3 DEF NInv, NTypes, NStack

LEMMA NDone == ASSUME NInv, D!NodeDone PROVE NInv'
<1> DEFINE F == D!Frame  L == Len(stack)
<1>1. /\ dpc = "tree" /\ stack \in Seq(Frames) /\ stack # <<>> /\ D!IsFdt(fdt)
      /\ L \in Nat \ {0} /\ F \in Frames /\ F = stack[L]
      /\ F.node \in DOMAIN dt /\ F.node \in DOMAIN fdt.nodes
      /\ F.prop \in 1 .. NumProps(F.node) + 1
      /\ \A f \in 1 .. L - 1 : stack[f].node # F.node
  BY NTop DEF D!NodeDone, D!PropertiesDone
<1>2. /\ stack' = D!Below /\ dpc' \in {"tree", "ready"} /\ (dpc' = "ready" => stack' = <<>>)
      /\ UNCHANGED <<fdt, dt>> /\ F.prop > NumProps(F.node) /\ D!Subnodes(F.node, F.last) = {}
  BY <1>1 DEF D!NodeDone, D!PropertiesDone, NumProps
<1>3. stack' \in Seq(Frames) /\ Len(stack') = L - 1 /\ \A f \in 1 .. L - 1 : stack'[f] = stack[f]
  BY <1>1, <1>2, StackTop
<1> HIDE DEF F, L
<1>4. /\ \A n : Info(n)' = Info(n) /\ NumProps(n)' = NumProps(n)
      /\ \A m, n : ChildOf(m, n)' = ChildOf(m, n)
      /\ \A n, k : PropsRead(n, k)' = PropsRead(n, k)
  BY <1>2 DEF Info, NumProps, ChildOf, PropsRead
<1>5. \A n : OnStack(n)' => OnStack(n)
  BY <1>1, <1>3 DEF OnStack, L
<1>6. \A n : OnStack(n) /\ ~OnStack(n)' => n = F.node
  <2> SUFFICES ASSUME NEW n, OnStack(n), ~OnStack(n)' PROVE n = F.node
    OBVIOUS
  <2>1. PICK f \in 1 .. L : stack[f].node = n
    BY DEF OnStack, L
  <2>2. f \notin 1 .. L - 1
    BY <1>3, <2>1 DEF OnStack
  <2> QED BY <1>1, <2>1, <2>2
<1>7. \A f \in 1 .. L - 1 : f \in 1 .. Len(stack)
  BY <1>1 DEF L
<1>8. NTypes'
  <2>1. 1 \in DOMAIN dt
    BY <1>1 DEF NInv, NTypes
  <2> QED BY <1>2, <1>3, <1>4, <2>1 DEF NInv, NTypes
<1>9. NStack' /\ NLinks'
  BY <1>2, <1>3, <1>4, <1>7 DEF NInv, NStack, NLinks
<1>10. \A m : ChildOf(m, F.node) => m \in DOMAIN dt
  <2> SUFFICES ASSUME NEW m, ChildOf(m, F.node) PROVE m \in DOMAIN dt
    OBVIOUS
  <2>1. m \in Nat /\ F.last \in Nat
    BY <1>1, NodeFacts DEF ChildOf, Frames
  <2>2. m <= F.last
    BY <1>2, <2>1 DEF ChildOf, D!Subnodes, Info
  <2>3. L \in 1 .. Len(stack)
    BY <1>1 DEF L
  <2> QED BY <1>1, <2>2, <2>3 DEF NInv, NKids
<1>11. NKids'
  <2>1. \A f \in 1 .. Len(stack') : \A m : ChildOf(m, stack'[f].node) =>
          (m \in DOMAIN dt <=> m <= stack'[f].last)
    BY <1>3, <1>7 DEF NInv, NKids
  <2>2. \A n \in DOMAIN dt : ~OnStack(n)' => \A m : ChildOf(m, n) => m \in DOMAIN dt
    BY <1>6, <1>10 DEF NInv, NKids
  <2> QED BY <1>2, <1>4, <2>1, <2>2 DEF NInv, NKids
<1>12. NProps'
  <2>1. PropsRead(F.node, NumProps(F.node))
    <3>0. NumProps(F.node) \in Nat
      BY <1>1, NodeFacts
    <3> DEFINE k == NumProps(F.node)
    <3>1. F.prop \in 1 .. k + 1 /\ F.prop > k /\ k \in Nat
      BY <1>1, <1>2, <3>0
    <3>2. F.prop - 1 = k
      <4> HIDE DEF k
      <4> QED BY <3>1
    <3>3. L \in 1 .. Len(stack)
      BY <1>1 DEF L
    <3> QED BY <1>1, <3>2, <3>3 DEF NInv, NProps
  <2>2. \A f \in 1 .. Len(stack') : PropsRead(stack'[f].node, stack'[f].prop - 1)
    BY <1>3, <1>7 DEF NInv, NProps
  <2>3. \A n \in DOMAIN dt : ~OnStack(n)' => PropsRead(n, NumProps(n))
    BY <1>6, <2>1 DEF NInv, NProps
  <2> QED BY <1>2, <1>4, <2>2, <2>3 DEF NProps
<1> QED BY <1>8, <1>9, <1>11, <1>12 DEF NInv

(* The frame on top of the stack, taken apart.                             *)
LEMMA FrameParts ==
  ASSUME NInv, D!Building
  PROVE  \E n \in DOMAIN dt, k \in Nat, l \in Nat :
           /\ D!Frame = [node |-> n, prop |-> k, last |-> l]
           /\ [D!Frame EXCEPT !.prop = k + 1] = [node |-> n, prop |-> k + 1, last |-> l]
           /\ \A m : [D!Frame EXCEPT !.last = m] = [node |-> n, prop |-> k, last |-> m]
<1>1. D!Frame \in Frames /\ D!Frame.node \in DOMAIN dt
  BY NTop
<1> DEFINE F == D!Frame
<1>2. F \in Frames /\ F.node \in DOMAIN dt
  BY <1>1
<1> HIDE DEF F
<1>3. PICK n, k \in Nat, l \in Nat : F = [node |-> n, prop |-> k, last |-> l]
  BY <1>2 DEF Frames
<1>4. n \in DOMAIN dt
  BY <1>2, <1>3
<1>5. /\ [F EXCEPT !.prop = k + 1] = [node |-> n, prop |-> k + 1, last |-> l]
      /\ \A m : [F EXCEPT !.last = m] = [node |-> n, prop |-> k, last |-> m]
  BY <1>3
<1> QED BY <1>3, <1>4, <1>5 DEF F

LEMMA NSets == ASSUME NInv, D!SetProperty PROVE NInv'
<1>1. PICK n \in DOMAIN dt, k \in Nat, l \in Nat :
        /\ D!Frame = [node |-> n, prop |-> k, last |-> l]
        /\ [D!Frame EXCEPT !.prop = k + 1] = [node |-> n, prop |-> k + 1, last |-> l]
        /\ \A m : [D!Frame EXCEPT !.last = m] = [node |-> n, prop |-> k, last |-> m]
  <2>1. D!Building
    BY DEF D!SetProperty
  <2> QED BY <2>1, FrameParts, Zenon
<1>2. D!Frame.node = n /\ D!Frame.prop = k
  BY <1>1
<1> DEFINE L == Len(stack)  p == Info(n).properties[k]  old == dt[n].properties
           new == [x \in DOMAIN old \cup {p[1]} |-> IF x = p[1] THEN p[2] ELSE old[x]]
           G == [node |-> n, prop |-> k + 1, last |-> l]
<1>3. /\ dpc = "tree" /\ stack \in Seq(Frames) /\ stack # <<>> /\ D!IsFdt(fdt)
      /\ L \in Nat \ {0} /\ stack[L] = [node |-> n, prop |-> k, last |-> l]
      /\ n \in DOMAIN fdt.nodes /\ n \in Nat
      /\ \A f \in 1 .. L - 1 : stack[f].node # n
  <2>1. D!Building
    BY DEF D!SetProperty
  <2> QED BY <1>1, <1>2, <2>1, NTop, NodeFacts
<1>4. /\ k <= NumProps(n) /\ UNCHANGED <<fdt, dpc>>
      /\ dt' = [dt EXCEPT ![n].properties = new]
      /\ stack' = Append(D!Below, [D!Frame EXCEPT !.prop = k + 1])
  BY <1>2, Zenon DEF D!SetProperty, NumProps, Info
<1>5. G \in Frames /\ G.node = n /\ G.last = l /\ G.prop = k + 1 /\ stack' = Append(D!Below, G)
  BY <1>1, <1>3, <1>4 DEF Frames
<1>6. /\ stack' \in Seq(Frames) /\ Len(stack') = L /\ \A f \in 1 .. L - 1 : stack'[f] = stack[f]
      /\ stack'[L] = G
  <2> HIDE DEF G
  <2> QED BY <1>3, <1>5, StackTop
<1>7. k \in 1 .. NumProps(n) /\ NumProps(n) \in Nat
  <2>1. NumProps(n) \in Nat
    BY <1>3, NodeFacts
  <2>2. L \in 1 .. Len(stack)
    BY <1>3
  <2>3. k >= 1
    BY <1>3, <2>1, <2>2 DEF NInv, NStack
  <2> QED BY <1>4, <2>1, <2>3
<1>8. p \in STRING \X Seq(Nat)
  <2>1. Info(n).properties \in Seq(STRING \X Seq(Nat))
    BY <1>3, NodeFacts
  <2> QED BY <1>7, <2>1 DEF NumProps, Info
<1>9. old \in PropertyMaps /\ dt[n] \in DtNode
  BY DEF NInv, NTypes, DtNode
<1>10. new \in PropertyMaps
  <2>1. PICK S \in SUBSET STRING : old \in [S -> Seq(Nat)]
    BY <1>9, Zenon DEF PropertyMaps
  <2>2. p[1] \in STRING /\ p[2] \in Seq(Nat)
    BY <1>8
  <2> HIDE DEF p, old
  <2>3. new \in [S \cup {p[1]} -> Seq(Nat)]
    BY <2>1, <2>2
  <2>4. S \cup {p[1]} \in SUBSET STRING
    BY <2>1, <2>2
  <2> HIDE DEF new
  <2> QED BY <2>3, <2>4, Zenon DEF PropertyMaps
<1>11. DOMAIN new = DOMAIN old \cup {p[1]} /\ \A x \in DOMAIN new : new[x] = IF x = p[1] THEN p[2] ELSE old[x]
  OBVIOUS
<1> HIDE DEF p, old, new, G, L
<1>12. /\ DOMAIN dt' = DOMAIN dt
       /\ \A m \in DOMAIN dt : m # n => dt'[m] = dt[m]
       /\ dt'[n] = [dt[n] EXCEPT !.properties = new]
  BY <1>4, Zenon
<1>13. /\ dt'[n] \in DtNode /\ dt'[n].properties = new
       /\ dt'[n].name = dt[n].name /\ dt'[n].parent = dt[n].parent
       /\ dt'[n].linked = dt[n].linked
  BY <1>9, <1>10, <1>12 DEF DtNode
<1>14. /\ \A m : Info(m)' = Info(m) /\ NumProps(m)' = NumProps(m)
       /\ \A m, q : ChildOf(m, q)' = ChildOf(m, q)
  BY <1>4 DEF Info, NumProps, ChildOf
<1>15. \A f \in 1 .. L : stack'[f].node = stack[f].node /\ stack'[f].last = stack[f].last
  <2> SUFFICES ASSUME NEW f \in 1 .. L
               PROVE  stack'[f].node = stack[f].node /\ stack'[f].last = stack[f].last
    OBVIOUS
  <2>1. f = L \/ f \in 1 .. L - 1
    BY <1>3
  <2> QED BY <1>3, <1>5, <1>6, <2>1
<1>16. \A m : OnStack(m)' = OnStack(m)
  BY <1>6, <1>15 DEF OnStack, L
<1>17. NTypes'
  BY <1>3, <1>4, <1>6, <1>12, <1>13, <1>14 DEF NInv, NTypes
<1>18. NStack'
  <2>1. ASSUME NEW f \in 1 .. L PROVE stack'[f].prop \in 1 .. NumProps(stack'[f].node) + 1
    <3>1. CASE f = L
      BY <1>5, <1>6, <1>7, <3>1
    <3>2. CASE f # L
      <4>1. f \in 1 .. L - 1
        BY <1>3, <3>2
      <4> QED BY <1>6, <4>1 DEF NInv, NStack, L
    <3> QED BY <3>1, <3>2
  <2> QED BY <1>6, <1>12, <1>14, <1>15, <2>1 DEF NInv, NStack, L
<1>19. NKids'
  BY <1>6, <1>12, <1>14, <1>15, <1>16 DEF NInv, NKids, L
<1>20. NLinks'
  <2>1. \A m \in DOMAIN dt : dt'[m].linked = dt[m].linked /\ dt'[m].parent = dt[m].parent /\ dt'[m].name = dt[m].name
    BY <1>12, <1>13
  <2> QED BY <1>12, <1>14, <2>1 DEF NInv, NLinks
<1>21. \A m \in DOMAIN dt : \A i : m # n => PropsRead(m, i)' = PropsRead(m, i)
  BY <1>12, <1>14 DEF PropsRead
<1>22. PropsRead(n, k)'
  <2>1. PropsRead(n, k - 1)
    <3>1. L \in 1 .. Len(stack)
      BY <1>3 DEF L
    <3>2. stack[L].node = n /\ stack[L].prop = k
      BY <1>3
    <3> QED BY <3>1, <3>2 DEF NInv, NProps
  <2> DEFINE q(i) == Info(n).properties[i]
  <2>2. p = q(k)
    BY DEF p
  <2>3. ASSUME NEW i \in 1 .. k, \A j \in 1 .. k : j > i => q(j)[1] # q(i)[1]
        PROVE  q(i)[1] \in DOMAIN new /\ new[q(i)[1]] = q(i)[2]
    <3>1. CASE i = k
      BY <1>11, <2>2, <3>1
    <3>2. CASE i # k
      <4>1. i \in 1 .. k - 1 /\ k \in 1 .. k /\ k > i
        BY <1>7, <3>2
      <4>2. q(i)[1] # p[1]
        BY <2>2, <2>3, <4>1
      <4>3. \A j \in 1 .. k - 1 : j \in 1 .. k
        BY <1>7
      <4>4. q(i)[1] \in DOMAIN old /\ old[q(i)[1]] = q(i)[2]
        BY <2>1, <2>3, <4>1, <4>3 DEF PropsRead, old
      <4> QED BY <1>11, <4>2, <4>4
    <3> QED BY <3>1, <3>2
  <2> QED BY <1>13, <1>14, <2>3 DEF PropsRead
<1>23. NProps'
  <2>1. ASSUME NEW f \in 1 .. L PROVE PropsRead(stack[f].node, stack[f].prop - 1)'
    <3>1. PICK a, b : a = stack'[f].node /\ b = stack'[f].prop - 1
      OBVIOUS
    <3>2. PropsRead(a, b)'
      <4>1. CASE f = L
        <5>1. stack'[f].node = n /\ stack'[f].prop = k + 1
          BY <1>5, <1>6, <4>1
        <5>2. a = n /\ b = k
          BY <1>1, <3>1, <5>1
        <5> QED BY <1>22, <5>2
      <4>2. CASE f # L
        <5>1. f \in 1 .. L - 1
          BY <1>3, <4>2
        <5>2. a \in DOMAIN dt /\ a # n /\ PropsRead(a, b)
          <6>1. a = stack[f].node /\ b = stack[f].prop - 1
            BY <1>6, <3>1, <5>1
          <6> QED BY <1>3, <5>1, <6>1 DEF NInv, NStack, NProps, L
        <5> QED BY <1>21, <5>2
      <4> QED BY <4>1, <4>2
    <3> QED BY <3>1, <3>2
  <2>2. ASSUME NEW m \in DOMAIN dt, ~OnStack(m) PROVE PropsRead(m, NumProps(m))
    BY <2>2 DEF NInv, NProps
  <2>3. ASSUME NEW m \in DOMAIN dt, ~OnStack(m) PROVE PropsRead(m, NumProps(m))'
    <3>1. m # n
      <4>1. L \in 1 .. Len(stack) /\ stack[L].node = n
        BY <1>3 DEF L
      <4> QED BY <2>3, <4>1 DEF OnStack
    <3>2. PICK b : b = NumProps(m)
      OBVIOUS
    <3>3. PropsRead(m, b)'
      BY <1>21, <2>2, <2>3, <3>1, <3>2
    <3> QED BY <1>14, <3>2, <3>3
  <2> QED BY <1>6, <1>12, <1>16, <2>1, <2>3 DEF NProps, L
<1> QED BY <1>17, <1>18, <1>19, <1>20, <1>23 DEF NInv

LEMMA NAdds == ASSUME NInv, D!AddSubnode PROVE NInv'
<1>0. D!Building
  BY DEF D!AddSubnode, D!PropertiesDone
<1>1. PICK n \in DOMAIN dt, k \in Nat, l \in Nat :
        /\ D!Frame = [node |-> n, prop |-> k, last |-> l]
        /\ [D!Frame EXCEPT !.prop = k + 1] = [node |-> n, prop |-> k + 1, last |-> l]
        /\ \A m : [D!Frame EXCEPT !.last = m] = [node |-> n, prop |-> k, last |-> m]
  BY <1>0, FrameParts, Zenon
<1>2. D!Frame.node = n /\ D!Frame.last = l /\ D!Frame.prop = k
  BY <1>1
<1> DEFINE L == Len(stack)
<1>3. /\ dpc = "tree" /\ stack \in Seq(Frames) /\ stack # <<>> /\ D!IsFdt(fdt)
      /\ L \in Nat \ {0} /\ stack[L] = [node |-> n, prop |-> k, last |-> l]
      /\ n \in DOMAIN fdt.nodes /\ n \in Nat /\ n >= 1
      /\ \A f \in 1 .. L - 1 : stack[f].node # n
  BY <1>0, <1>1, <1>2, NTop, NodeFacts
<1>4. PICK m \in D!Subnodes(n, l) :
        /\ \A c \in D!Subnodes(n, l) : m <= c
        /\ D!Alloc(m, Append(D!Below, [D!Frame EXCEPT !.last = m]))
  BY <1>2, Zenon DEF D!AddSubnode
<1> DEFINE G == [node |-> n, prop |-> k, last |-> m]
<1>5. /\ UNCHANGED <<fdt, dpc>>
      /\ dt' = [x \in DOMAIN dt \cup {m} |-> IF x = m THEN D!Node(m) ELSE dt[x]]
      /\ stack' = Append(Append(D!Below, G), D!Call(m))
  BY <1>1, <1>4 DEF D!AddSubnode, D!Alloc
<1>6. L \in 1 .. Len(stack) /\ l >= n
  BY <1>3 DEF NInv, NStack
<1>7. m \in DOMAIN fdt.nodes /\ m \in Nat /\ m > l /\ m > 1 /\ m > n /\ ChildOf(m, n) /\ Info(m).parent = n
  <2>1. m \in DOMAIN fdt.nodes /\ m \in Nat /\ m > l /\ Info(m).parent = n
    BY <1>3, <1>4, NodeFacts DEF D!Subnodes, Info
  <2>2. m > 1 /\ m > n
    BY <1>1, <1>3, <1>6, <2>1
  <2> QED BY <2>1, <2>2 DEF ChildOf
<1>8. \A c : ChildOf(c, n) => c \in Nat /\ (c \in DOMAIN dt <=> c <= l) /\ (c > l => m <= c)
  <2> SUFFICES ASSUME NEW c, ChildOf(c, n)
               PROVE  c \in Nat /\ (c \in DOMAIN dt <=> c <= l) /\ (c > l => m <= c)
    OBVIOUS
  <2>1. c \in DOMAIN fdt.nodes /\ Info(c).parent = n
    BY DEF ChildOf
  <2>2. c \in Nat
    BY <1>3, <2>1, NodeFacts
  <2>3. c \in DOMAIN dt <=> c <= l
    BY <1>3, <1>6 DEF NInv, NKids
  <2>4. c > l => c \in D!Subnodes(n, l)
    BY <2>1 DEF D!Subnodes, Info
  <2> QED BY <1>4, <2>2, <2>3, <2>4
<1>9. m \notin DOMAIN dt
  BY <1>1, <1>7, <1>8
<1>10. G \in Frames /\ D!Call(m) = [node |-> m, prop |-> 1, last |-> m] /\ D!Call(m) \in Frames
  BY <1>1, <1>3, <1>7 DEF Frames, D!Call
<1>11. /\ stack' \in Seq(Frames) /\ Len(stack') = L + 1
       /\ \A f \in 1 .. L - 1 : stack'[f] = stack[f]
       /\ stack'[L] = G /\ stack'[L + 1] = [node |-> m, prop |-> 1, last |-> m]
  <2> DEFINE s == Append(D!Below, G)
  <2>1. s \in Seq(Frames) /\ Len(s) = L /\ (\A f \in 1 .. L - 1 : s[f] = stack[f]) /\ s[L] = G
    <3> HIDE DEF G
    <3> QED BY <1>3, <1>10, StackTop
  <2> DEFINE d == D!Call(m)
  <2>2. stack' = Append(s, d) /\ d \in Frames
    BY <1>5, <1>10
  <2> HIDE DEF s, d, G, L
  <2>3. /\ stack' \in Seq(Frames) /\ Len(stack') = Len(s) + 1
        /\ \A f \in 1 .. Len(s) : stack'[f] = s[f]
        /\ stack'[Len(s) + 1] = d
    BY <2>1, <2>2, AppendProperties
  <2>4. \A f \in 1 .. L - 1 : f \in 1 .. L
    BY <1>3
  <2>5. L \in 1 .. L
    BY <1>3
  <2> QED BY <1>10, <2>1, <2>3, <2>4, <2>5 DEF d
<1>12. /\ DOMAIN dt' = DOMAIN dt \cup {m} /\ dt'[m] = D!Node(m)
       /\ \A x \in DOMAIN dt : dt'[x] = dt[x]
  BY <1>5, <1>9
<1>13. /\ D!Node(m) \in DtNode /\ D!Node(m).name = Info(m).name /\ D!Node(m).parent = Info(m).parent
       /\ D!Node(m).linked <=> D!Siblings(Info(m).parent, Info(m).name) = {}
  <2>1. m # 1
    BY <1>7
  <2> QED BY <1>3, <1>7, <2>1, NodeMade, Zenon
<1>14. /\ \A x : Info(x)' = Info(x) /\ NumProps(x)' = NumProps(x)
       /\ \A c, x : ChildOf(c, x)' = ChildOf(c, x)
  BY <1>5 DEF Info, NumProps, ChildOf
<1>15. \A f \in 1 .. L + 1 : f \in 1 .. L - 1 \/ f = L \/ f = L + 1
  BY <1>3
<1>16. \A f \in 1 .. L - 1 : f \in 1 .. Len(stack)
  BY <1>3
<1>17. /\ stack[L].node = n /\ stack[L].prop = k /\ stack[L].last = l
       /\ stack'[L].node = n /\ stack'[L].prop = k /\ stack'[L].last = m
       /\ stack'[L + 1].node = m /\ stack'[L + 1].prop = 1 /\ stack'[L + 1].last = m
  BY <1>3, <1>11
<1> HIDE DEF G, L
<1>18. \A x : OnStack(x)' <=> OnStack(x) \/ x = m
  <2>1. \A x : OnStack(x) <=> \E f \in 1 .. L : stack[f].node = x
    BY DEF OnStack, L
  <2>2. \A x : OnStack(x)' <=> \E f \in 1 .. L + 1 : stack'[f].node = x
    BY <1>11 DEF OnStack
  <2>3. \A f \in 1 .. L : stack'[f].node = stack[f].node
    <3> TAKE f \in 1 .. L
    <3>1. f = L \/ f \in 1 .. L - 1
      BY <1>3
    <3> QED BY <1>11, <1>17, <3>1
  <2>4. \A f \in 1 .. L + 1 : f \in 1 .. L \/ f = L + 1
    BY <1>3
  <2>5. L + 1 \in 1 .. L + 1 /\ \A f \in 1 .. L : f \in 1 .. L + 1
    BY <1>3
  <2> QED BY <1>17, <2>1, <2>2, <2>3, <2>4, <2>5
<1>19. NTypes'
  <2>1. \A x \in DOMAIN dt' : dt'[x] \in DtNode /\ dt'[x].name = Info(x).name /\ dt'[x].parent = Info(x).parent
    BY <1>12, <1>13 DEF NInv, NTypes
  <2>2. 1 \in DOMAIN dt /\ DOMAIN dt' \subseteq DOMAIN fdt.nodes
    BY <1>3, <1>7, <1>12 DEF NInv, NTypes
  <2> QED BY <1>3, <1>5, <1>11, <1>12, <1>14, <2>1, <2>2 DEF NInv, NTypes
<1>20. NStack'
  <2>1. NumProps(m) \in Nat
    BY <1>3, <1>7, NodeFacts
  <2>2. ASSUME NEW f \in 1 .. L + 1
        PROVE  /\ stack'[f].node \in DOMAIN dt' /\ stack'[f].last >= stack'[f].node
               /\ stack'[f].prop \in 1 .. NumProps(stack'[f].node) + 1
    <3>1. CASE f \in 1 .. L - 1
      BY <1>11, <1>12, <1>16, <3>1 DEF NInv, NStack
    <3>2. CASE f = L
      <4>1. k \in 1 .. NumProps(n) + 1
        BY <1>6, <1>17 DEF NInv, NStack
      <4> QED BY <1>1, <1>3, <1>7, <1>12, <1>17, <3>2, <4>1
    <3>3. CASE f = L + 1
      BY <1>7, <1>12, <1>17, <2>1, <3>3
    <3> QED BY <1>15, <3>1, <3>2, <3>3
  <2>3. ASSUME NEW f \in 1 .. L + 1, NEW g \in 1 .. L + 1, stack'[f].node = stack'[g].node
        PROVE  f = g
    <3>1. \A h \in 1 .. L - 1 : stack'[h].node \in DOMAIN dt /\ stack'[h].node # n
      BY <1>3, <1>11, <1>16 DEF NInv, NStack
    <3>2. CASE f \in 1 .. L - 1 /\ g \in 1 .. L - 1
      BY <1>11, <1>16, <2>3, <3>2 DEF NInv, NStack
    <3> QED BY <1>1, <1>9, <1>15, <1>17, <2>3, <3>1, <3>2
  <2> QED BY <1>11, <1>14, <2>2, <2>3 DEF NStack
<1>21. NKids'
  <2>1. ASSUME NEW f \in 1 .. L + 1, NEW c, ChildOf(c, stack'[f].node)
        PROVE  c \in DOMAIN dt' <=> c <= stack'[f].last
    <3>1. CASE f \in 1 .. L - 1
      <4>1. stack'[f] = stack[f] /\ stack[f].node # n
        BY <1>3, <1>11, <3>1
      <4>2. c # m
        BY <1>7, <2>1, <4>1 DEF ChildOf
      <4> QED BY <1>12, <1>16, <2>1, <3>1, <4>1, <4>2 DEF NInv, NKids
    <3>2. CASE f = L
      <4>1. ChildOf(c, n) /\ stack'[f].last = m
        BY <1>17, <2>1, <3>2
      <4>2. c \in Nat /\ (c \in DOMAIN dt <=> c <= l) /\ (c > l => m <= c)
        BY <1>8, <4>1
      <4>3. (c \in DOMAIN dt \/ c = m) <=> c <= m
        BY <1>1, <1>7, <4>2
      <4> QED BY <1>12, <4>1, <4>3
    <3>3. CASE f = L + 1
      <4>1. ChildOf(c, m) /\ stack'[f].last = m
        BY <1>17, <2>1, <3>3
      <4>2. c \in Nat /\ c # 1 /\ m < c /\ Info(c).parent = m
        <5>1. c \in DOMAIN fdt.nodes /\ c # 1 /\ Info(c).parent = m
          BY <4>1 DEF ChildOf
        <5>2. c \in Nat /\ m \in 1 .. c - 1
          BY <1>3, <5>1, NodeFacts
        <5> QED BY <5>1, <5>2
      <4>3. c \notin DOMAIN dt
        BY <1>9, <4>2 DEF NInv, NKids
      <4> QED BY <1>7, <1>12, <4>1, <4>2, <4>3
    <3> QED BY <1>15, <3>1, <3>2, <3>3
  <2>2. \A x \in DOMAIN dt' : ~OnStack(x)' => \A c : ChildOf(c, x) => c \in DOMAIN dt'
    BY <1>12, <1>18 DEF NInv, NKids
  <2>3. \A x \in DOMAIN dt' \ {1} : Info(x).parent \in DOMAIN dt'
    BY <1>1, <1>7, <1>12 DEF NInv, NKids
  <2> QED BY <1>11, <1>14, <2>1, <2>2, <2>3 DEF NKids
<1>22. NLinks'
  <2>1. \E x \in DOMAIN dt' :
          x <= m /\ dt'[x].linked /\ dt'[x].parent = Info(m).parent /\ dt'[x].name = Info(m).name
    <3>1. CASE D!Siblings(Info(m).parent, Info(m).name) = {}
      BY <1>7, <1>12, <1>13, <3>1
    <3>2. CASE D!Siblings(Info(m).parent, Info(m).name) # {}
      <4>1. PICK x \in DOMAIN dt : dt[x].parent = n /\ dt[x].name = Info(m).name /\ dt[x].linked
        BY <1>7, <3>2 DEF D!Siblings
      <4>2. x # 1
        BY <4>1 DEF NInv, NLinks
      <4>3. ChildOf(x, n)
        BY <4>1, <4>2 DEF NInv, NTypes, ChildOf
      <4>4. x <= m
        BY <1>1, <1>7, <1>8, <4>3
      <4> QED BY <1>7, <1>12, <4>1, <4>4
    <3> QED BY <3>1, <3>2
  <2>2. 1 \in DOMAIN dt /\ ~dt'[1].linked
    BY <1>3, <1>12 DEF NInv, NTypes, NLinks
  <2>3. ASSUME NEW x \in DOMAIN dt \ {1}
        PROVE \E y \in DOMAIN dt' :
                y <= x /\ dt'[y].linked /\ dt'[y].parent = Info(x).parent /\ dt'[y].name = Info(x).name
    <3>1. PICK y \in DOMAIN dt :
                y <= x /\ dt[y].linked /\ dt[y].parent = Info(x).parent /\ dt[y].name = Info(x).name
      BY DEF NInv, NLinks
    <3> QED BY <1>12, <3>1
  <2>4. \A x \in DOMAIN dt' \ {1} : \E y \in DOMAIN dt' :
                y <= x /\ dt'[y].linked /\ dt'[y].parent = Info(x).parent /\ dt'[y].name = Info(x).name
    BY <1>12, <2>1, <2>3
  <2> QED BY <1>14, <2>2, <2>4 DEF NLinks
<1>23. \A x \in DOMAIN dt : \A i : PropsRead(x, i)' = PropsRead(x, i)
  BY <1>12, <1>14 DEF PropsRead
<1>24. NProps'
  <2>1. ASSUME NEW f \in 1 .. L + 1 PROVE PropsRead(stack[f].node, stack[f].prop - 1)'
    <3>1. PICK a, b : a = stack'[f].node /\ b = stack'[f].prop - 1
      OBVIOUS
    <3>2. PropsRead(a, b)'
      <4>1. CASE f = L + 1
        <5>1. a = m /\ b = 0
          BY <1>17, <3>1, <4>1
        <5> QED BY <5>1 DEF PropsRead
      <4>2. CASE f # L + 1
        <5>1. f \in 1 .. Len(stack) /\ a = stack[f].node /\ b = stack[f].prop - 1
          BY <1>6, <1>11, <1>15, <1>16, <1>17, <3>1, <4>2
        <5>2. a \in DOMAIN dt /\ PropsRead(a, b)
          BY <5>1 DEF NInv, NStack, NProps
        <5> QED BY <1>23, <5>2
      <4> QED BY <4>1, <4>2
    <3> QED BY <3>1, <3>2
  <2>2. ASSUME NEW x \in DOMAIN dt', ~OnStack(x)' PROVE PropsRead(x, NumProps(x))'
    <3>1. x \in DOMAIN dt /\ ~OnStack(x)
      BY <1>12, <1>18, <2>2
    <3>2. PropsRead(x, NumProps(x))
      BY <3>1 DEF NInv, NProps
    <3>3. PICK b : b = NumProps(x)
      OBVIOUS
    <3>4. PropsRead(x, b)'
      BY <1>23, <3>1, <3>2, <3>3
    <3> QED BY <1>14, <3>3, <3>4
  <2> QED BY <1>11, <2>1, <2>2 DEF NProps
<1> QED BY <1>19, <1>20, <1>21, <1>22, <1>24 DEF NInv

(* What a step of another kind does to the tree: nothing.                  *)
LEMMA NOthers ==
  ASSUME NInv, D!CheckHeader \/ D!Reserve \/ D!FindMemory \/ D!AddMemory \/ D!OutOfMemory
               \/ \E n \in DOMAIN fdt.nodes : \/ D!AttachBus(n) \/ D!AttachLeaks(n) \/ D!AttachNull(n)
                                              \/ D!AttachFails(n) \/ D!AttachUart(n)
  PROVE  NInv'
<1>1. UNCHANGED <<fdt, stack, dt>>
  BY DEF D!CheckHeader, D!Reserve, D!FindMemory, D!AddMemory, D!OutOfMemory, D!Panic, D!tree,
         D!AttachBus, D!AttachLeaks, D!AttachNull, D!AttachFails, D!AttachUart, D!Bind
<1>2. \/ dpc' = dpc
      \/ /\ dpc' \notin {"tree", "ready"}
         /\ dpc' \in {"header", "rsv", "memory"} => dpc \in {"header", "rsv", "memory"}
  BY DEF D!CheckHeader, D!Reserve, D!FindMemory, D!AddMemory, D!OutOfMemory, D!Panic, D!tree,
         D!AttachBus, D!AttachLeaks, D!AttachNull, D!AttachFails, D!AttachUart, D!Bind
<1> QED BY <1>1, <1>2, NKept

LEMMA NSteps == ASSUME NInv, D!Next PROVE NInv'
  BY NOthers, NBuilds, NSets, NAdds, NDone DEF D!Next

LEMMA NStays == NInv /\ [Next]_vars => NInv'
<1>1. ASSUME NInv, UNCHANGED dtree PROVE NInv'
  BY <1>1, NKept DEF dtree
<1> QED BY <1>1, Steps, NSteps

(* When the recursion has come back from the root, no node is missing: the *)
(* first one would have a parent in the tree whose children are all done.  *)
LEMMA NoneMissing ==
  ASSUME NInv, dpc = "ready"
  PROVE  DOMAIN fdt.nodes \subseteq DOMAIN dt
<1> SUFFICES ASSUME ~(DOMAIN fdt.nodes \subseteq DOMAIN dt) PROVE FALSE
  OBVIOUS
<1> DEFINE S == DOMAIN fdt.nodes \ DOMAIN dt
<1>1. D!IsFdt(fdt) /\ stack = <<>> /\ 1 \in DOMAIN dt
  BY DEF NInv, NTypes
<1>2. S \in SUBSET Nat /\ S # {}
  BY <1>1, NodeFacts
<1>3. PICK n \in S : \A m \in S : n <= m
  <2> HIDE DEF S
  <2> QED BY <1>2, LeastNat
<1>4. n # 1 /\ Info(n).parent \in 1 .. n - 1 /\ n \in 1 .. Len(fdt.nodes)
  BY <1>1, <1>3, NodeFacts
<1>5. Info(n).parent \in DOMAIN dt
  <2>1. Info(n).parent \in 1 .. Len(fdt.nodes) /\ ~(n <= Info(n).parent)
    BY <1>1, <1>4, NodeFacts
  <2> QED BY <1>1, <1>3, <2>1, NodeFacts
<1>6. ~OnStack(Info(n).parent)
  BY <1>1 DEF OnStack
<1>7. ChildOf(n, Info(n).parent)
  BY <1>3, <1>4 DEF ChildOf
<1>8. n \in DOMAIN dt
  BY <1>5, <1>6, <1>7 DEF NInv, NKids
<1> QED BY <1>3, <1>8

(* The recursion of add_device_fdt leaves a node for every node of the     *)
(* flattened tree, below its parent and with the last value of each of its *)
(* properties.                                                             *)
THEOREM TreeMirrorsFdtAlways == Spec => []TreeMirrorsFdt
<1>1. NInv => TreeMirrorsFdt
  <2> SUFFICES ASSUME NInv, dpc = "ready", NEW n \in DOMAIN fdt.nodes
               PROVE  /\ n \in DOMAIN dt /\ dt[n].name = fdt.nodes[n].name
                      /\ n # 1 => \E m \in D!Siblings(fdt.nodes[n].parent, fdt.nodes[n].name) : m <= n
                      /\ \A i \in DOMAIN fdt.nodes[n].properties :
                           (\A j \in DOMAIN fdt.nodes[n].properties :
                              j > i => fdt.nodes[n].properties[j][1] # fdt.nodes[n].properties[i][1])
                             => /\ D!Has(n, fdt.nodes[n].properties[i][1])
                                /\ D!Value(n, fdt.nodes[n].properties[i][1]) = fdt.nodes[n].properties[i][2]
    BY Zenon DEF TreeMirrorsFdt, D!TreeMirrorsFdt, D!Root
  <2>1. n \in DOMAIN dt
    BY NoneMissing
  <2>2. ~OnStack(n) /\ D!IsFdt(fdt) /\ dt[n].name = fdt.nodes[n].name
    BY <2>1 DEF NInv, NTypes, OnStack, Info
  <2>3. n # 1 => \E m \in D!Siblings(fdt.nodes[n].parent, fdt.nodes[n].name) : m <= n
    BY <2>1 DEF NInv, NLinks, D!Siblings, Info
  <2>4. PropsRead(n, NumProps(n))
    BY <2>1, <2>2 DEF NInv, NProps
  <2>5. DOMAIN fdt.nodes[n].properties = 1 .. NumProps(n)
    BY <2>2, NodeFacts DEF Info, NumProps
  <2> QED BY <2>1, <2>2, <2>3, <2>4, <2>5 DEF PropsRead, Info, D!Has, D!Value
<1> QED BY <1>1, NInit, NStays, PTL DEF Spec

-----------------------------------------------------------------------------
(* Attaching drivers.  A node that is bound to a device is in the tree; it *)
(* is a UART, or its children can be given addresses.                      *)
BBound ==
  \A n \in DOMAIN fdt.nodes : bound[n] # -1 =>
    /\ n \in DOMAIN dt
    /\ dt[n].name = "uart" \/ (D!AddressCells(n) \in 1 .. 2 /\ D!SizeCells(n) \in 1 .. 2)

(* AttachedOrFreed, with the base of a UART's registers under a name.      *)
BaseOf(n) == IF D!SizeCells(D!Parent(n)) = 2 THEN D!FirstAddress(n) ELSE D!FirstSize(n)

BAttached ==
  \A n \in DOMAIN fdt.nodes :
    /\ bound[n] # -1 => n \in devices
    /\ n \in devices => bound[n] # -1 \/ (n = 1 /\ dt[n].name = "uart")
    /\ n \in devices /\ n # 1 /\ dt[n].name = "uart" => bound[n] = BaseOf(n)

BInv ==
  /\ NInv /\ DOMAIN bound = DOMAIN fdt.nodes
  /\ dpc \in {"header", "rsv", "memory", "tree"} =>
       devices = {} /\ \A n \in DOMAIN fdt.nodes : bound[n] = -1
  /\ BBound
  /\ BAttached

LEMMA BInit == Init => BInv
<1> SUFFICES ASSUME Init PROVE BInv
  OBVIOUS
<1>1. D!Begin /\ NInv
  BY NInit DEF Init
<1>2. devices = {} /\ bound = [n \in DOMAIN fdt.nodes |-> -1]
  BY <1>1 DEF D!Begin, D!Unbound
<1>3. \A n \in DOMAIN fdt.nodes : bound[n] = -1
  BY <1>2
<1> QED BY <1>1, <1>2, <1>3 DEF BInv, BBound, BAttached

(* Nothing is attached before the tree is ready.                           *)
LEMMA BEarly ==
  ASSUME BInv, NInv', UNCHANGED <<fdt, devices, bound>>, dpc \in {"header", "rsv", "memory", "tree"}
  PROVE  BInv'
<1>1. devices' = {} /\ \A n \in DOMAIN fdt.nodes : bound'[n] = -1
  BY DEF BInv
<1>2. DOMAIN bound' = DOMAIN fdt.nodes /\ fdt' = fdt
  BY DEF BInv
<1> QED BY <1>1, <1>2 DEF BInv, BBound, BAttached

LEMMA BKept ==
  ASSUME BInv, NInv', UNCHANGED <<fdt, dt, devices, bound>>,
         dpc' \in {"header", "rsv", "memory", "tree"} => dpc \in {"header", "rsv", "memory", "tree"}
  PROVE  BInv'
<1>1. \A n : /\ D!AddressCells(n)' = D!AddressCells(n) /\ D!SizeCells(n)' = D!SizeCells(n)
             /\ BaseOf(n)' = BaseOf(n)
  BY DEF D!AddressCells, D!SizeCells, D!Value, BaseOf, D!FirstAddress, D!FirstSize, D!Parent
<1>2. BBound'
  BY <1>1 DEF BInv, BBound
<1>3. BAttached'
  BY <1>1 DEF BInv, BAttached
<1> QED BY <1>2, <1>3 DEF BInv

(* Binding a node to a device.                                             *)
LEMMA BBinds ==
  ASSUME BInv, NInv', NEW n \in DOMAIN dt, NEW b \in Nat, D!Bind(n, b), dpc = "ready",
         dt[n].name = "uart" \/ (D!AddressCells(n) \in 1 .. 2 /\ D!SizeCells(n) \in 1 .. 2),
         dt[n].name = "uart" /\ n # 1 => b = BaseOf(n)
  PROVE  BInv'
<1>1. /\ devices' = devices \cup {n} /\ bound' = [bound EXCEPT ![n] = b]
      /\ UNCHANGED <<fdt, dpc, dt>>
  BY DEF D!Bind
<1>2. /\ DOMAIN bound' = DOMAIN fdt.nodes /\ n \in DOMAIN fdt.nodes /\ bound'[n] = b /\ b # -1
      /\ \A m \in DOMAIN fdt.nodes : m # n => bound'[m] = bound[m]
  BY <1>1 DEF BInv, NInv, NTypes
<1>3. \A m : /\ D!AddressCells(m)' = D!AddressCells(m) /\ D!SizeCells(m)' = D!SizeCells(m)
             /\ BaseOf(m)' = BaseOf(m)
  BY <1>1 DEF D!AddressCells, D!SizeCells, D!Value, BaseOf, D!FirstAddress, D!FirstSize, D!Parent
<1>4. BBound'
  BY <1>1, <1>2, <1>3 DEF BInv, BBound
<1>5. BAttached'
  <2> SUFFICES ASSUME NEW m \in DOMAIN fdt.nodes
               PROVE  /\ bound'[m] # -1 => m \in devices'
                      /\ m \in devices' => bound'[m] # -1 \/ (m = 1 /\ dt[m].name = "uart")
                      /\ m \in devices' /\ m # 1 /\ dt[m].name = "uart" => bound'[m] = BaseOf(m)
    BY <1>1, <1>3 DEF BAttached
  <2>1. CASE m = n
    BY <1>1, <1>2, <2>1
  <2>2. CASE m # n
    BY <1>1, <1>2, <2>2 DEF BInv, BAttached
  <2> QED BY <2>1, <2>2
<1> QED BY <1>1, <1>2, <1>4, <1>5 DEF BInv

(* What a node's parent that is bound says of its addresses.               *)
LEMMA UartOnBus ==
  ASSUME BInv, NEW n, D!OnBus(n)
  PROVE  /\ n \in DOMAIN dt /\ n \in DOMAIN fdt.nodes /\ n # 1 /\ dt[n].name = "uart" /\ bound[n] = -1
         /\ D!AddressCells(D!Parent(n)) \in 1 .. 2 /\ D!SizeCells(D!Parent(n)) \in 1 .. 2
<1>1. /\ n \in DOMAIN dt /\ n # 1 /\ dt[n].name = "uart" /\ bound[n] = -1
      /\ bound[D!Parent(n)] # -1
  BY DEF D!OnBus, D!Unattached, D!Unbound, D!Root
<1>2. n \in DOMAIN fdt.nodes /\ D!Parent(n) = Info(n).parent /\ Info(n).name = "uart" /\ D!IsFdt(fdt)
  BY <1>1 DEF BInv, NInv, NTypes, D!Parent
<1>3. D!Parent(n) \in DOMAIN fdt.nodes /\ Info(D!Parent(n)).name # "uart"
  <2>1. Info(n).parent \in 1 .. n - 1 /\ n \in 1 .. Len(fdt.nodes) /\ DOMAIN fdt.nodes = 1 .. Len(fdt.nodes)
    BY <1>1, <1>2, NodeFacts
  <2>2. Info(Info(n).parent).name # "uart"
    BY <1>1, <1>2 DEF D!IsFdt, D!Root, Info
  <2> QED BY <1>2, <2>1, <2>2
<1>4. dt[D!Parent(n)].name # "uart"
  BY <1>1, <1>3 DEF BInv, BBound, NInv, NTypes
<1> QED BY <1>1, <1>2, <1>3, <1>4 DEF BInv, BBound

LEMMA BUart == ASSUME BInv, NInv', NEW n \in DOMAIN fdt.nodes, D!AttachUart(n) PROVE BInv'
<1> DEFINE a == D!AddressCells(D!Parent(n))  s == D!SizeCells(D!Parent(n))
           regs == D!Value(n, "regs")
<1>1. D!OnBus(n) /\ D!Has(n, "regs") /\ D!RegInRange(n, 0) /\ dpc = "ready"
  BY DEF D!AttachUart, D!OnBus, D!Unattached
<1>2. n \in DOMAIN dt /\ dt[n].name = "uart" /\ n # 1 /\ a \in 1 .. 2 /\ s \in 1 .. 2
  BY <1>1, UartOnBus
<1>3. regs \in Seq(Nat)
  <2>1. dt[n].properties \in PropertyMaps
    BY <1>2 DEF BInv, NInv, NTypes, DtNode
  <2>2. PICK S \in SUBSET STRING : dt[n].properties \in [S -> Seq(Nat)]
    BY <2>1, Zenon DEF PropertyMaps
  <2> QED BY <1>1, <2>2 DEF D!Has, D!Value
<1>4. PICK r \in D!RegRange(n, 0) : IF r.sz < RegsSize THEN D!Panic ELSE D!Bind(n, r.ptr)
  BY DEF D!AttachUart
<1>5. r.ptr = IF s = 1 THEN regs[a + 1] ELSE D!Cell(regs, 0 * (a + s), a)
  BY <1>4 DEF D!RegRange, D!Parent
<1>6. a + s <= Len(regs)
  BY <1>1, <1>2 DEF D!RegInRange, D!Parent
<1> HIDE DEF a, s, regs
<1>7. D!Cell(regs, 0, a) \in Nat /\ regs[a + 1] \in Nat /\ 0 * (a + s) = 0
  <2>1. CellWord \in Nat
    BY SizesAssumption
  <2>2. regs[1] \in Nat /\ regs[2] \in Nat /\ regs[a + 1] \in Nat
    BY <1>2, <1>3, <1>6
  <2>3. regs[1] * CellWord \in Nat
    BY <2>1, <2>2
  <2>4. a = 1 \/ a = 2
    BY <1>2
  <2>5. 0 * (a + s) = 0
    BY <1>2
  <2> QED BY <2>2, <2>3, <2>4, <2>5 DEF D!Cell
<1>8. r.ptr \in Nat /\ r.ptr = BaseOf(n)
  <2>1. s = 1 => D!Cell(regs, a, s) = regs[a + 1]
    BY DEF D!Cell
  <2>2. BaseOf(n) = IF s = 2 THEN D!Cell(regs, 0, a) ELSE D!Cell(regs, a, s)
    BY DEF BaseOf, D!FirstAddress, D!FirstSize, s, a, regs
  <2> QED BY <1>2, <1>5, <1>7, <2>1, <2>2
<1>9. CASE D!Panic
  BY <1>1, <1>9, BKept DEF D!Panic, D!tree
<1>10. CASE D!Bind(n, r.ptr)
  <2>1. PICK b \in Nat : b = r.ptr
    BY <1>8
  <2> QED BY <1>1, <1>2, <1>8, <1>10, <2>1, BBinds
<1> QED BY <1>4, <1>9, <1>10

LEMMA BBus == ASSUME BInv, NInv', NEW n \in DOMAIN fdt.nodes, D!AttachBus(n) PROVE BInv'
<1>1. dpc = "ready" /\ n \in DOMAIN dt /\ dt[n].name = "bus"
  BY DEF D!AttachBus, D!Unattached
<1>2. CASE D!Panic
  BY <1>1, <1>2, BKept DEF D!Panic, D!tree
<1>3. CASE D!Bind(n, 0) /\ D!AddressCells(n) \in 1 .. 2 /\ D!SizeCells(n) \in 1 .. 2
  BY <1>1, <1>3, BBinds
<1> QED BY <1>2, <1>3 DEF D!AttachBus

(* A device that is not bound: of the root it stays in memory, of another  *)
(* node it is freed.                                                       *)
LEMMA BUnbound ==
  ASSUME BInv, NInv', NEW n \in DOMAIN fdt.nodes, D!AttachLeaks(n) \/ D!AttachFails(n)
  PROVE  BInv'
<1>1. /\ dpc = "ready" /\ UNCHANGED <<fdt, dpc, dt, bound>>
      /\ \A m \in DOMAIN fdt.nodes : m # 1 => (m \in devices' <=> m \in devices)
      /\ 1 \in devices => 1 \in devices'
      /\ 1 \in devices' => 1 \in devices \/ dt[1].name = "uart"
  <2>1. CASE D!AttachLeaks(n)
    BY <2>1 DEF D!AttachLeaks, D!Unattached, D!Root
  <2>2. CASE D!AttachFails(n)
    <3>1. D!OnBus(n) /\ devices' = devices \ {n} /\ UNCHANGED <<fdt, dpc, dt, bound>> /\ dpc = "ready"
      BY <2>2 DEF D!AttachFails, D!OnBus, D!Unattached
    <3>2. n # 1 /\ bound[n] = -1
      BY <3>1, UartOnBus
    <3>3. n \notin devices
      BY <3>2 DEF BInv, BAttached
    <3> QED BY <3>1, <3>2, <3>3
  <2> QED BY <2>1, <2>2
<1>2. BBound'
  BY <1>1 DEF BInv, BBound, D!AddressCells, D!SizeCells, D!Value
<1>3. \A m : BaseOf(m)' = BaseOf(m)
  BY <1>1 DEF D!AddressCells, D!SizeCells, D!Value, BaseOf, D!FirstAddress, D!FirstSize, D!Parent
<1>4. BAttached'
  BY <1>1, <1>3 DEF BInv, BAttached
<1> QED BY <1>1, <1>2, <1>4 DEF BInv

LEMMA BSteps == ASSUME BInv, D!Next PROVE BInv'
<1>1. NInv'
  BY NSteps DEF BInv
<1>2. CASE D!CheckHeader \/ D!Reserve \/ D!FindMemory \/ D!AddMemory \/ D!BuildTree \/ D!OutOfMemory
           \/ D!SetProperty \/ D!AddSubnode \/ D!NodeDone
  <2>1. UNCHANGED <<fdt, devices, bound>> /\ dpc \in {"header", "rsv", "memory", "tree"}
    BY <1>2 DEF D!CheckHeader, D!Reserve, D!FindMemory, D!AddMemory, D!OutOfMemory, D!BuildTree,
                D!SetProperty, D!AddSubnode, D!NodeDone, D!PropertiesDone, D!Building, D!Panic, D!tree
  <2> QED BY <1>1, <2>1, BEarly
<1>3. ASSUME NEW n \in DOMAIN fdt.nodes, D!AttachNull(n) PROVE BInv'
  BY <1>1, <1>3, BKept DEF D!AttachNull, D!tree
<1> QED BY <1>1, <1>2, <1>3, BBus, BUart, BUnbound DEF D!Next

(* A device is in memory exactly if its node is bound to it, but for that  *)
(* of a UART at the root, which is never freed; and the registers of a     *)
(* UART are taken to be at the address of its first range if its bus has   *)
(* two size cells, and at the size of that range if it has one.            *)
THEOREM AttachedOrFreedAlways == Spec => []AttachedOrFreed
<1>1. BInv /\ [Next]_vars => BInv'
  <2>1. ASSUME BInv, UNCHANGED dtree PROVE BInv'
    <3>1. NInv'
      BY <2>1, NKept DEF BInv, dtree
    <3> QED BY <2>1, <3>1, BKept DEF dtree
  <2> QED BY <2>1, Steps, BSteps
<1>2. BInv => AttachedOrFreed
  BY DEF BInv, BAttached, BaseOf, AttachedOrFreed, D!AttachedOrFreed, D!Unbound, D!Root
<1> QED BY <1>1, <1>2, BInit, PTL DEF Spec

=============================================================================
