------------------------------ MODULE Startup ------------------------------
(***************************************************************************)
(* What the boot abstraction layer does on each of its platforms after the *)
(* memory map of the BIOS (BiosMemory) or before anything at all:          *)
(*   stage 1 over a network (Pxe, and A20 for its a20_enable), which ends  *)
(*   by entering the layer;                                                *)
(*   bios/init.c: tables_init, then vbe_init; then a CD may be read, as a  *)
(*   device (Cdrom) or by the files on it (Iso9660);                       *)
(*   atf: Kickstart, then dt_platform_init_fdt and the attaching of        *)
(*   drivers (DeviceTree).                                                 *)
(* The components share no state but what is handed on: each starts when   *)
(* the one before has returned.                                            *)
(***************************************************************************)
EXTENDS Integers, Sequences

CONSTANTS
  Machines,   \* the inputs of every component
  RampBits,
  Sector, Scratch, Top, MaxBlocks, Room,
  Handles, Volume, Word, Lengths, Offsets, Whences, MaxOps,
  Chunk, Space,
  CellWord, NumPages, RegsSize, GarbageSizes,
  PACKET_SIZE, Load, Megabyte, NameLength

VARIABLES
  platform,  \* "pxe" (its stage 1), "bios" or "atf"
  cd,        \* how the CD is read: "none", "sectors" or "files"
  firmware, region, para, searching, rsdt_pointer, pc_pointer,
  video, vpc, new_mode, verdict, modes, palette, ramp, fb,
  request, nbytes, lba_packet, cpc, memory, nbytesread, status,
  allocated, opening, file, position, reply, ops,
  host, kpc, mem_mark, dtb_size, step, base, filepos, kmem,
  fdt, dpc, index, pages, stack, dt, devices, bound,
  server, long_mode, edition, ppc, api, want, file_size, session, edi, ecx, pmem, failed,
  board, apc, gate, inbuf, busy, outbuf, port, keyboard, saved

(* Init below gives the components their inputs, from one machine: their   *)
(* own sets of inputs are not used.                                        *)
T == INSTANCE Tables WITH Firmwares <- {}
V == INSTANCE Vbe WITH Videos <- {}, Garbage <- {}
C == INSTANCE Cdrom WITH Requests <- {}
I == INSTANCE Iso9660
K == INSTANCE Kickstart WITH Hosts <- {}
D == INSTANCE DeviceTree WITH Fdts <- {}, Word <- CellWord, Garbage <- GarbageSizes
X == INSTANCE Pxe WITH Servers <- {}
A == INSTANCE A20 WITH Boards <- {}

ASSUME SizesAssumption ==
  /\ Sector \in Nat \ {0} /\ Scratch \in Nat /\ Room \in Nat /\ MaxBlocks \in Nat /\ Top \in Nat
  /\ PACKET_SIZE \in Nat \ {0} /\ Load \in Nat /\ Megabyte \in Nat \ {0} /\ NameLength \in Nat
  /\ RampBits \subseteq 6 .. 8 /\ Chunk \in Nat \ {0} /\ Space \in Nat
  /\ CellWord \in Nat /\ NumPages \in Nat

(* No file object is the mark of "no openat under way"; callers of the     *)
(* files pass numbers and one of the three origins of a seek; and every    *)
(* byte of a file lies where an offset of 32 bits can name it.             *)
ASSUME VolumeAssumption ==
  /\ Handles # {} /\ "none" \notin Handles /\ Word \in Nat \ {0}
  /\ Lengths \subseteq Nat /\ Offsets \subseteq Int /\ Whences \subseteq {"SET", "CUR", "END"}
  /\ \A name \in DOMAIN Volume :
       /\ Volume[name] \in [lba : Nat, length : Nat]
       /\ Volume[name].lba * Sector + Volume[name].length <= Word

(* What the components are given has the types their code takes it to      *)
(* have; the video BIOS describes a mode by its number; the buffer of a    *)
(* read from the CD is as long as the caller says.                         *)
ASSUME MachinesAssumption ==
  \A m \in Machines :
    /\ \A n \in 1 .. 4 : T!Paragraphs(m.firmware, n) \in Seq(T!Paragraph)
    /\ m.video.version \in Nat /\ m.video.modes \in Seq(V!ModeInfo)
    /\ \A i, j \in DOMAIN m.video.modes :
         m.video.modes[i].id = m.video.modes[j].id => m.video.modes[i] = m.video.modes[j]
    /\ m.request \in [buf : Nat, nbytes : 0 .. Room, offset : Nat, packet : Nat]
    /\ m.server \in X!Server /\ m.long_mode \in BOOLEAN /\ m.board \in A!Board
    /\ K!IsHost(m.host) /\ D!IsFdt(m.fdt)

tables == <<firmware, region, para, searching, rsdt_pointer, pc_pointer>>
vbe    == <<video, vpc, new_mode, verdict, modes, palette, ramp, fb>>
cdrom  == <<request, nbytes, lba_packet, cpc, memory, nbytesread, status>>
iso    == <<allocated, opening, file, position, reply, ops>>
kick   == <<host, kpc, mem_mark, dtb_size, step, base, filepos, kmem>>
dtree  == <<fdt, dpc, index, pages, stack, dt, devices, bound>>
pxe    == <<server, long_mode, edition, ppc, api, want, file_size, session, edi, ecx, pmem, failed>>
a20    == <<board, apc, gate, inbuf, busy, outbuf, port, keyboard, saved>>
vars   == <<platform, cd, tables, vbe, cdrom, iso, kick, dtree, pxe, a20>>

Init ==
  /\ \E m \in Machines :
       /\ platform = m.platform /\ cd = m.cd /\ firmware = m.firmware
       /\ video = m.video /\ new_mode = m.new_mode /\ request = m.request
       /\ host = m.host /\ fdt = m.fdt /\ server = m.server /\ long_mode = m.long_mode
       /\ board = m.board
  /\ T!Begin /\ V!Begin /\ C!Begin /\ I!Init /\ K!Begin /\ D!Begin /\ X!Begin /\ A!Begin

others == <<platform, cd, tables, vbe, cdrom, iso, kick, dtree>>

(* Stage 1 leaves a20_enable when that has returned, or has given up.      *)
pxe_boot ==
  /\ platform = "pxe" /\ X!Stage1 /\ UNCHANGED <<others, a20>>
  /\ ppc = "a20" => apc = IF ppc' = "aborted" THEN "aborted" ELSE "returned"

FilesReplaced == platform = "pxe" /\ X!Replace /\ UNCHANGED <<others, a20>>

EnablingA20 == platform = "pxe" /\ ppc = "a20"

a20_enable == EnablingA20 /\ A!a20_enable /\ UNCHANGED <<others, pxe>>
Controller == EnablingA20 /\ A!Control /\ UNCHANGED <<others, pxe>>
KeyPressed == EnablingA20 /\ A!Key /\ UNCHANGED <<others, pxe>>

tables_init ==
  platform = "bios" /\ T!Next /\ UNCHANGED <<platform, cd, vbe, cdrom, iso, kick, dtree, pxe, a20>>

vbe_init ==
  /\ platform = "bios" /\ T!Ended
  /\ V!Next /\ UNCHANGED <<platform, cd, tables, cdrom, iso, kick, dtree, pxe, a20>>

ReadSectors ==
  /\ platform = "bios" /\ V!Ended /\ cd = "sectors"
  /\ C!Next /\ UNCHANGED <<platform, cd, tables, vbe, iso, kick, dtree, pxe, a20>>

UseFiles ==
  /\ platform = "bios" /\ V!Ended /\ cd = "files"
  /\ I!Next /\ UNCHANGED <<platform, cd, tables, vbe, cdrom, kick, dtree, pxe, a20>>

ks_main ==
  platform = "atf" /\ K!Next /\ UNCHANGED <<platform, cd, tables, vbe, cdrom, iso, dtree, pxe, a20>>

bal_main_atf ==
  /\ platform = "atf" /\ kpc = "entered"
  /\ D!Next /\ UNCHANGED <<platform, cd, tables, vbe, cdrom, iso, kick, pxe, a20>>

Start == pxe_boot \/ a20_enable \/ tables_init \/ vbe_init \/ ks_main \/ bal_main_atf

Next ==
  \/ Start \/ ReadSectors \/ UseFiles
  \/ FilesReplaced \/ Controller \/ KeyPressed

Spec == Init /\ [][Next]_vars

(* One processor runs one thread of code: what can go on does.  So does    *)
(* the keyboard controller, which is a processor of its own; nobody has to *)
(* press a key or to replace a file.                                       *)
FairSpec == Spec /\ WF_vars(Start) /\ WF_vars(ReadSectors) /\ WF_vars(Controller)

-----------------------------------------------------------------------------
FirstTablesReported == T!FirstTablesReported
ConsoleOnScreen     == V!ConsoleOnScreen
SkippedNotSet       == V!SkippedNotSet
PixelsShowColours   == V!PixelsShowColours
ReadsTheDisc        == C!ReadsTheDisc
ReadsIfPacketFound  == C!ReadsIfPacketFound
NoFileLeaks         == I!NoFileLeaks
ImplementsOpenFiles == I!ImplementsOpenFiles
ImplementsButPread  == I!ImplementsButPread
KickstartHandsOver  == K!KickstartHandsOver
MemoryOffered       == D!MemoryOffered
ImageNoted          == D!ImageNoted
TreeMirrorsFdt      == D!TreeMirrorsFdt
AttachedOrFreed     == D!AttachedOrFreed
RegistersFound      == D!RegistersFound
ReservationsObeyed  == D!ReservationsObeyed
SomeMemoryKept      == D!SomeMemoryKept
PxeHandsOver        == X!PxeHandsOver
WholeFileRead       == X!WholeFileRead

GateAsReported == A!GateAsReported

(* The platform's start comes to an end, with the console or without, in   *)
(* the BAL's main loop or stopped by an error, and so does a read of the   *)
(* CD, however often the BIOS fails: no search, loop over modes or chunks, *)
(* retry or recursion over the tree goes on for ever, and a20_enable does  *)
(* so only in kyb_wait_output_buf, with a byte in the output buffer that   *)
(* nobody reads.  (Over a network it may also end in a reset.)             *)
StartEnds ==
  \/ <>(IF platform = "pxe" THEN X!Ended \/ A!WasReset
        ELSE IF platform = "bios" THEN T!Ended /\ V!Ended /\ (cd = "sectors" => C!Ended)
        ELSE kpc = "halted" \/ (kpc = "entered" /\ dpc \in {"ready", "panic", "wild", "null"}))
  \/ <>[](EnablingA20 /\ A!WaitsForEver)

(* stage1/a20.S: "Try to enable A20.  \return Aborts boot on failure": it  *)
(* does one or the other, the gate open or boot given up.                  *)
A20Returns == EnablingA20 ~> ~EnablingA20

=============================================================================
