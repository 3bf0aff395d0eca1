------------------------------ MODULE ElTorito ------------------------------
(***************************************************************************)
(* Stage 1 started from a CD (bal/platform/bios/stage1/init.S with         *)
(* eltorito/storage.S): it loads the rest of itself, finds the directory   *)
(* "boot" in the root directory and the boot abstraction layer in that,    *)
(* loads it and enters it.                                                 *)
(*                                                                         *)
(* Every int 0x13 is one step, and so is every directory record looked at. *)
(* The BIOS is external: any read may fail, and one of several blocks may  *)
(* stop early.  A sector of a directory is a sequence of records with      *)
(* zeros after it, and every other sector is known by its number only.     *)
(* Sizes are in units that an instance chooses.  The processor is a 386 at *)
(* least.  Of a20_enable (A20) this module keeps how it ends: it returns,  *)
(* it gives boot up, or it does neither, waiting for ever or with a reset  *)
(* of the machine.                                                         *)
(***************************************************************************)
EXTENDS Integers, Sequences

CONSTANTS
  SECTOR_SIZE,  \* 2048
  Buffer,       \* PVD_BUFFER + SECTOR_SIZE, where directories are read to
  Half, Word,   \* 2^16 and 2^32
  MaxBlocks,    \* 0x7F
  Discs         \* the discs

ASSUME SizesAssumption ==
  /\ SECTOR_SIZE \in Nat \ {0} /\ MaxBlocks \in Nat \ {0}
  /\ Buffer \in Nat /\ Half \in Nat /\ Word \in Nat
  /\ SECTOR_SIZE <= Buffer /\ Buffer + SECTOR_SIZE <= Half /\ Half <= Word

VARIABLES
  disc, cpu64,  \* the disc and the processor
  offers,       \* the files gd_bal.64 and gd_bal.32 of the disc (history)
  pc,           \* the label stage 1 is at
  rd,           \* the storage_read under way
  mem,          \* what was read to where: sector numbers
  want,         \* the name looked for
  dir,          \* ebx and edx of find_directory_record
  di,           \* the record looked at, as an address
  boot_dir,     \* boot_dir_lba and boot_dir_len
  file_dir_rec, \* the address of the open file's record
  failed        \* the firmware let us down (history)

machine == <<disc, cpu64, offers>>
search == <<want, dir, di, boot_dir, file_dir_rec>>
vars == <<disc, cpu64, offers, pc, rd, mem, want, dir, di, boot_dir, file_dir_rec, failed>>

Blocks(size) == ((size + SECTOR_SIZE - 1) % Word) \div SECTOR_SIZE

(* Names.  The name looked for is compared in upper case, the one on the   *)
(* disc as it is.                                                          *)
Upper == [boot |-> "BOOT", bal64 |-> "GD_BAL.64;1", bal32 |-> "GD_BAL.32;1"]

(* An extent on the disc.                                                  *)
Extent(lba, len) == [lba |-> lba, len |-> len]
NoExtent == Extent(0, 0)
ExtentOf(r) == Extent(r.xar_length + r.lba, r.data_length)

-----------------------------------------------------------------------------
(***************************************************************************)
(* A directory by reference: its records in order, up to its length.       *)
(***************************************************************************)
Records(d, extent) ==
  {p \in (0 .. Blocks(extent.len) - 1) \X (0 .. SECTOR_SIZE - 1) :
     /\ p[2] \in DOMAIN d.sectors[extent.lba + p[1]]
     /\ p[1] * SECTOR_SIZE + p[2] < extent.len}

At(d, extent, p) == d.sectors[extent.lba + p[1]][p[2]]

Named(d, extent, name) ==
  {p \in Records(d, extent) : At(d, extent, p).name = Upper[name]}

(* The first record of that name.                                          *)
Lookup(d, extent, name) ==
  LET P == Named(d, extent, name)
  IN At(d, extent, CHOOSE p \in P :
       \A q \in P : p[1] < q[1] \/ (p[1] = q[1] /\ p[2] <= q[2]))

Has(d, extent, name) == Named(d, extent, name) # {}

BootExtent(d) == ExtentOf(Lookup(d, ExtentOf(d.root), "boot"))

HasBoot(d) ==
  /\ d.block_size = SECTOR_SIZE /\ ~d.root.bad
  /\ Has(d, ExtentOf(d.root), "boot")
  /\ Lookup(d, ExtentOf(d.root), "boot").is_dir
  /\ ~Lookup(d, ExtentOf(d.root), "boot").bad

IsFile(d, name) ==
  /\ HasBoot(d) /\ Has(d, BootExtent(d), name)
  /\ ~Lookup(d, BootExtent(d), name).is_dir

(* A disc: records of a directory follow each other in a sector from its   *)
(* start, the sectors of the two directories are known, and stage 1 has a  *)
(* size that can be rounded up in 32 bits.                                 *)
Record == [length : Nat \ {0}, name : STRING, lba : Nat, data_length : Nat,
           xar_length : Nat, is_dir : BOOLEAN, bad : BOOLEAN]

IsSector(s) ==
  /\ DOMAIN s \subseteq 0 .. SECTOR_SIZE - 1
  /\ DOMAIN s # {} => 0 \in DOMAIN s
  /\ \A o \in DOMAIN s :
       /\ s[o] \in Record
       /\ \A p \in DOMAIN s : p > o => p >= o + s[o].length /\ o + s[o].length \in DOMAIN s

IsDirectory(d, extent) ==
  \A i \in 0 .. Blocks(extent.len) - 1 :
    extent.lba + i \in DOMAIN d.sectors /\ IsSector(d.sectors[extent.lba + i])

IsDisc(d) ==
  /\ d.stage1.lba \in Nat /\ d.stage1.len \in Nat
  /\ d.stage1.len + SECTOR_SIZE - 1 < Word
  /\ d.root \in Record /\ IsDirectory(d, ExtentOf(d.root))
  /\ HasBoot(d) => IsDirectory(d, BootExtent(d))

ASSUME DiscsAssumption == \A d \in Discs : IsDisc(d)

(* The contents of a file, as sector numbers.                              *)
NoFile == <<-1>>
Content(d, name) ==
  IF ~IsFile(d, name) THEN NoFile
  ELSE LET f == ExtentOf(Lookup(d, BootExtent(d), name))
       IN [i \in 0 .. Blocks(f.len) - 1 |-> f.lba + i]

-----------------------------------------------------------------------------
(* The regions storage_read is asked to fill.                              *)
Region == {"stage1", "pvd", "dir", "bal"}
Nothing == [i \in {} |-> 0]
Junk == -1

NoRead == [region |-> "pvd", left |-> 0, lba |-> 0, to |-> 0, single |-> FALSE,
           then |-> "ext"]

Init ==
  /\ disc \in Discs /\ cpu64 \in BOOLEAN
  /\ offers = [b \in {32, 64} |->
                 Content(disc, IF b = 64 THEN "bal64" ELSE "bal32")]
  /\ pc = "ext" /\ rd = NoRead /\ mem = [r \in Region |-> Nothing]
  /\ want = "boot" /\ dir = NoExtent /\ di = Buffer
  /\ boot_dir = NoExtent /\ file_dir_rec = Buffer /\ failed = FALSE

Goto(label) == pc' = label /\ UNCHANGED <<rd, mem, failed>>

(* abort_boot.                                                             *)
Abort == Goto("aborted") /\ UNCHANGED search

-----------------------------------------------------------------------------
(***************************************************************************)
(* storage_read: as many blocks as are left, but at most MaxBlocks, at a   *)
(* time; after the first failure one at a time.                            *)
(***************************************************************************)
Read(region, blocks, lba, then) ==
  /\ rd' = [region |-> region, left |-> blocks, lba |-> lba, to |-> 0,
            single |-> FALSE, then |-> then]
  /\ pc' = "read"
  /\ UNCHANGED <<mem, failed>>

Request == IF rd.single THEN 1
           ELSE IF rd.left > MaxBlocks THEN MaxBlocks ELSE rd.left

(* What a call of int 0x13 for n blocks puts in the buffer.                *)
Blocks13(n) == [i \in rd.to .. rd.to + n - 1 |-> rd.lba + i - rd.to]
Junk13(n)   == [i \in rd.to .. rd.to + n - 1 |-> Junk]

(* A buffer that held g after f was put in it.                             *)
Over(f, g) == [i \in DOMAIN f \cup DOMAIN g |-> IF i \in DOMAIN f THEN f[i] ELSE g[i]]

(* Mutant of Transfer: the block number is not advanced.                   *)
TransferSame(k) ==
  LET left == (rd.left - k) % Word
  IN /\ pc = "read"
     /\ mem' = [mem EXCEPT ![rd.region] = Over(Blocks13(k), @)]
     /\ rd' = [rd EXCEPT !.left = left, !.to = @ + k]
     /\ pc' = IF left = 0 THEN rd.then ELSE "read"
     /\ UNCHANGED search /\ UNCHANGED machine /\ UNCHANGED failed

(* int13_ext_read transferred k blocks.                                    *)
Transfer(k) ==
  LET left == (rd.left - k) % Word
  IN /\ pc = "read"
     /\ mem' = [mem EXCEPT ![rd.region] = Over(Blocks13(k), @)]
     /\ rd' = [rd EXCEPT !.left = left, !.lba = @ + k, !.to = @ + k]
     /\ pc' = IF left = 0 THEN rd.then ELSE "read"
     /\ UNCHANGED search /\ UNCHANGED machine /\ UNCHANGED failed

(* It failed, and left anything in the buffer.                             *)
ReadFails ==
  /\ pc = "read" /\ ~rd.single
  /\ mem' = [mem EXCEPT ![rd.region] = Over(Junk13(Request), @)]
  /\ rd' = [rd EXCEPT !.single = TRUE]
  /\ UNCHANGED search /\ UNCHANGED machine /\ UNCHANGED <<pc, failed>>

(* int13_error.                                                            *)
ReadError ==
  /\ pc = "read" /\ rd.single
  /\ pc' = "aborted" /\ failed' = TRUE
  /\ UNCHANGED search /\ UNCHANGED machine /\ UNCHANGED <<rd, mem>>

(* A read that succeeds transfers a block at least, unless it asked for    *)
(* none.                                                                   *)
Int13 ==
  \/ \E k \in 0 .. Request : (k = 0 <=> Request = 0) /\ Transfer(k)
  \/ ReadFails \/ ReadError

-----------------------------------------------------------------------------
(***************************************************************************)
(* find_directory_record.                                                  *)
(***************************************************************************)
Find(name, extent) ==
  want' = name /\ dir' = extent /\ Goto("sector")

LoadSector ==
  /\ pc = "sector" /\ Read("dir", 1, dir.lba, "record")
  /\ di' = Buffer
  /\ UNCHANGED <<want, dir, boot_dir, file_dir_rec>> /\ UNCHANGED machine

(* The record at an address of the buffer: sector holds them by offset.    *)
InBuffer == disc.sectors[mem["dir"][0]]
HasRecord(addr) == addr - Buffer \in DOMAIN InBuffer
RecordAt(addr) == InBuffer[addr - Buffer]

Found    == Goto("found") /\ UNCHANGED search
NotFound == Goto("absent") /\ UNCHANGED search

(* Mutant of NextSector: the last sector is not looked at.                 *)
NextSectorShort ==
  IF dir.len <= 2 * SECTOR_SIZE THEN NotFound
  ELSE /\ dir' = Extent(dir.lba + 1, dir.len - SECTOR_SIZE)
       /\ Goto("sector") /\ UNCHANGED <<want, di, boot_dir, file_dir_rec>>

NextSector ==
  IF dir.len <= SECTOR_SIZE THEN NotFound
  ELSE /\ dir' = Extent(dir.lba + 1, dir.len - SECTOR_SIZE)
       /\ Goto("sector") /\ UNCHANGED <<want, di, boot_dir, file_dir_rec>>

(* The end of the directory is compared in 16 bits.                        *)
NextRecord ==
  LET next == di + RecordAt(di).length
  IN IF next >= Buffer + SECTOR_SIZE THEN NextSector
     ELSE IF next >= (Buffer + dir.len) % Half THEN NotFound
     ELSE /\ di' = next /\ Goto("record")
          /\ UNCHANGED <<want, dir, boot_dir, file_dir_rec>>

(* Mutant of SectorEnds: a record of length zero is stepped over.          *)
SectorEndsStays ==
  /\ pc = "record" /\ ~HasRecord(di)
  /\ Goto("record") /\ UNCHANGED search /\ UNCHANGED machine

(* A record of length zero: there are no more in this sector.              *)
SectorEnds ==
  pc = "record" /\ ~HasRecord(di) /\ NextSector /\ UNCHANGED machine

CheckRecord ==
  /\ pc = "record" /\ HasRecord(di)
  /\ LET r == RecordAt(di)
     IN \/ r.name # Upper[want] /\ NextRecord
        \/ r.name = Upper[want] /\ r.bad /\ Abort
        \/ r.name = Upper[want] /\ ~r.bad /\ Found
  /\ UNCHANGED machine

-----------------------------------------------------------------------------
(***************************************************************************)
(* storage_init.                                                           *)
(***************************************************************************)
NoExtensions ==
  /\ pc = "ext" /\ pc' = "aborted" /\ failed' = TRUE
  /\ UNCHANGED search /\ UNCHANGED machine /\ UNCHANGED <<rd, mem>>

(* Mutant of LoadRest: the size is not rounded up.                         *)
LoadRestShort ==
  /\ pc = "ext"
  /\ IF disc.stage1.len > SECTOR_SIZE
     THEN Read("stage1", disc.stage1.len \div SECTOR_SIZE - 1,
               disc.stage1.lba + 1, "pvd")
     ELSE Goto("pvd")
  /\ UNCHANGED search /\ UNCHANGED machine

(* The rest of stage 1: the first block was loaded by the firmware.        *)
LoadRest ==
  /\ pc = "ext"
  /\ IF disc.stage1.len > SECTOR_SIZE
     THEN Read("stage1", Blocks(disc.stage1.len) - 1, disc.stage1.lba + 1, "pvd")
     ELSE Goto("pvd")
  /\ UNCHANGED search /\ UNCHANGED machine

LoadPvd ==
  /\ pc = "pvd" /\ Read("pvd", 1, disc.pvd, "root")
  /\ UNCHANGED search /\ UNCHANGED machine

Root ==
  /\ pc = "root"
  /\ IF disc.block_size # SECTOR_SIZE \/ disc.root.bad THEN Abort
     ELSE /\ Find("boot", ExtentOf(disc.root))
          /\ UNCHANGED <<di, boot_dir, file_dir_rec>>
  /\ UNCHANGED machine

BootDir ==
  /\ want = "boot"
  /\ \/ pc = "absent" /\ Abort
     \/ pc = "found" /\ ~RecordAt(di).is_dir /\ Abort
     \/ /\ pc = "found" /\ RecordAt(di).is_dir
        /\ boot_dir' = ExtentOf(RecordAt(di))
        /\ Goto("a20") /\ UNCHANGED <<want, dir, di, file_dir_rec>>
  /\ UNCHANGED machine

(***************************************************************************)
(* The rest of init.S.                                                     *)
(***************************************************************************)
(* a20_enable gives boot up.                                               *)
A20Fails ==
  /\ pc = "a20" /\ pc' = "aborted" /\ failed' = TRUE
  /\ UNCHANGED search /\ UNCHANGED machine /\ UNCHANGED <<rd, mem>>

(* a20_enable returned: file_open of gd_bal.64, or gd_bal.32 without long  *)
(* mode.                                                                   *)
Choose ==
  /\ pc = "a20" /\ Find(IF cpu64 THEN "bal64" ELSE "bal32", boot_dir)
  /\ UNCHANGED <<di, boot_dir, file_dir_rec>> /\ UNCHANGED machine

(* file_open returned non-zero: gd_bal.32 is tried after gd_bal.64.        *)
FileAbsent ==
  \/ pc = "absent"
  \/ pc = "found" /\ RecordAt(di).is_dir

FallBack ==
  /\ want = "bal64" /\ FileAbsent /\ Find("bal32", boot_dir)
  /\ UNCHANGED <<di, boot_dir, file_dir_rec>> /\ UNCHANGED machine

NoBal == want = "bal32" /\ FileAbsent /\ Abort /\ UNCHANGED machine

(* file_open returned zero.                                                *)
Opened ==
  /\ want # "boot" /\ pc = "found" /\ ~RecordAt(di).is_dir
  /\ file_dir_rec' = di /\ Goto("bal")
  /\ UNCHANGED <<want, dir, di, boot_dir>> /\ UNCHANGED machine

(* file_read and file_close; the record is still in the buffer.            *)
ReadBal ==
  /\ pc = "bal"
  /\ LET file == ExtentOf(RecordAt(file_dir_rec))
     IN Read("bal", Blocks(file.len), file.lba, "entered")
  /\ UNCHANGED search /\ UNCHANGED machine

(* What goes on by itself, as a20_enable may not.                          *)
Going ==
  \/ Int13
  \/ LoadSector \/ SectorEnds \/ CheckRecord
  \/ NoExtensions \/ LoadRest \/ LoadPvd \/ Root \/ BootDir
  \/ FallBack \/ NoBal \/ Opened \/ ReadBal

Next == Going \/ A20Fails \/ Choose

Spec == Init /\ [][Next]_vars

(* The BIOS returns from every call.  Nothing is assumed of a20_enable.    *)
FairSpec == Spec /\ WF_vars(Going)

-----------------------------------------------------------------------------
(* Whatever the BIOS fails to read and wherever on the disc the files are, *)
(* Lgo_stage2 is reached with the right file and with all of it in memory. *)
BF == INSTANCE BootFile WITH
        outcome <- IF pc \in {"aborted", "entered"} THEN pc ELSE "loading",
        image <- IF pc = "entered" THEN mem["bal"] ELSE <<>>
ImplementsBootFile == BF!Spec

(* A reason to give boot up: the firmware failed, or the disc has no       *)
(* directory boot or no file for this processor in it, or uses a feature   *)
(* that is not supported.                                                  *)
Unsupported(d, extent, name) ==
  Has(d, extent, name) /\ Lookup(d, extent, name).bad

Reason ==
  \/ failed
  \/ ~HasBoot(disc)
  \/ cpu64 /\ Unsupported(disc, BootExtent(disc), "bal64")
  \/ ~(cpu64 /\ IsFile(disc, "bal64"))
       /\ (~IsFile(disc, "bal32") \/ Unsupported(disc, BootExtent(disc), "bal32"))

EndWraps(extent) == Buffer + extent.len >= Half

(* Boot is only given up for a reason, or because a directory is so long   *)
(* that the address of its end does not fit the 16 bits                    *)
(* find_directory_record compares.  In particular a file that is there is  *)
(* found, in whatever sector of the directory, and a read that fails once  *)
(* is made up for.                                                         *)
AbortsForReason ==
  pc = "aborted" => Reason \/ EndWraps(ExtentOf(disc.root)) \/ EndWraps(BootExtent(disc))

(* eltorito/storage.S: "eax ~0 on record not found, abort for disk         *)
(* failure": find_directory_record misses no record, in directories of any *)
(* length.                                                                 *)
FoundIfThere == pc = "aborted" => Reason

(* Code outside the first sector of stage 1 (the .text of init.S, from     *)
(* a20_enable on) only runs when all of stage 1 is in memory.              *)
RestLoaded ==
  pc \in {"a20", "bal", "entered"} =>
    \A i \in 1 .. Blocks(disc.stage1.len) - 1 :
      /\ i - 1 \in DOMAIN mem["stage1"]
      /\ mem["stage1"][i - 1] = disc.stage1.lba + i

(* Stage 1 comes to an end, one way or the other, unless it does not come *)
(* back from a20_enable: neither storage_read nor find_directory_record    *)
(* goes on for ever, whatever is on the disc and whatever the BIOS fails   *)
(* to read.                                                                *)
BootEnds == <>(pc \in {"aborted", "entered"}) \/ <>[](pc = "a20")

=============================================================================
