----------------------------- MODULE Kickstart -----------------------------
(***************************************************************************)
(* Kickstart (platform/atf/kickstart): loads the device tree and the boot  *)
(* abstraction layer by semihosting and enters the latter.                 *)
(*                                                                         *)
(* Each call of the semihosting host is a step; the host may refuse it and *)
(* may transfer less than was asked.  elfload is external: a file tells    *)
(* which reads the library makes and at which of them it finds fault.      *)
(* A byte of a file is known by its file and its offset, and memory is     *)
(* what lies from __startspace on.                                         *)
(***************************************************************************)
EXTENDS Integers, Sequences

CONSTANTS
  Hosts,   \* the files on the host
  Chunk,   \* 1024
  Space    \* how much of memory is looked at

VARIABLES
  host,      \* platform.dtb and gd_atf64.elf
  kpc,       \* where kickstart is
  mem_mark,
  dtb_size,  \* as io_len answered
  step,      \* the bytes of the device tree, or the library's reads, done
  base,      \* where the image is loaded
  filepos,   \* the file's position on the host
  kmem       \* memory

vars == <<host, kpc, mem_mark, dtb_size, step, base, filepos, kmem>>

Free == <<"free", 0>>
Absent == [length |-> -1]

Transfer == [offset : Nat, n : Nat, to : Nat]   \* a read of the library

(* A file whose segments do not overlap, as elfload reads it.              *)
IsElf(b) ==
  /\ b.length \in Nat /\ b.image \in Nat /\ b.align \in Nat \ {0}
  /\ b.reads \in Seq(Transfer) /\ b.init_reads \in 0 .. Len(b.reads)
  /\ \A i, j \in b.init_reads + 1 .. Len(b.reads) :
       \/ i = j \/ b.reads[i].to + b.reads[i].n <= b.reads[j].to
       \/ b.reads[j].to + b.reads[j].n <= b.reads[i].to

Begin ==
  /\ kpc = "dtb" /\ mem_mark = 0 /\ dtb_size = 0 /\ step = 0
  /\ base = 0 /\ filepos = 0 /\ kmem = [a \in 0 .. Space - 1 |-> Free]

Init == host \in Hosts /\ Begin

(* fail() halts.                                                           *)
Fail == kpc' = "halted" /\ UNCHANGED <<host, mem_mark, dtb_size, step, base, filepos, kmem>>

-----------------------------------------------------------------------------
(* What io_read makes of the number of bytes the host did not read.        *)
io_readTrusting(len, res) == len   \* mutant of io_read: no error is seen

io_read(len, res) == IF res = 0 THEN len ELSE IF res = len THEN -1 ELSE res

(* The host transfers the first k of n bytes of a file, from an offset on, *)
(* fewer than n if it fails or the file ends.                              *)
Transferred(name, offset, n) ==
  {k \in 0 .. n : k = 0 \/ offset + k <= host[name].length}

Loaded(name, offset, to, k) ==
  [a \in DOMAIN kmem |-> IF to <= a /\ a < to + k THEN <<name, offset + a - to>>
                         ELSE kmem[a]]

-----------------------------------------------------------------------------
(* ks_load_dtb.  io_len answers -1, a huge number, if it fails.            *)
Huge == 1000000

DtbMissing == kpc = "dtb" /\ Fail

OpenDtb ==
  /\ kpc = "dtb" /\ host.dtb # Absent /\ kpc' = "dtb_read"
  /\ dtb_size' \in {host.dtb.length, Huge}
  /\ mem_mark' = mem_mark + dtb_size' /\ filepos' = 0 /\ step' = 0
  /\ UNCHANGED <<host, base, kmem>>

ToRead == IF step + Chunk < dtb_size THEN Chunk ELSE dtb_size - step

ReadDtb ==
  /\ kpc = "dtb_read" /\ step < dtb_size
  /\ \E k \in Transferred("dtb", filepos, ToRead) :
       /\ kmem' = Loaded("dtb", filepos, step, k) /\ filepos' = filepos + k
       /\ IF io_read(ToRead, ToRead - k) = ToRead
          THEN step' = step + Chunk /\ UNCHANGED kpc
          ELSE kpc' = "halted" /\ UNCHANGED step
  /\ UNCHANGED <<host, mem_mark, dtb_size, base>>

DtbLoaded ==
  /\ kpc = "dtb_read" /\ step >= dtb_size /\ kpc' = "bal"
  /\ UNCHANGED <<host, mem_mark, dtb_size, step, base, filepos, kmem>>

-----------------------------------------------------------------------------
(* ks_load_bal.  The library's reads are numbered: those up to init_reads  *)
(* are made by el_init and el_finddyn, into variables, the others by       *)
(* el_load and el_relocate, into the image.                                *)
BalMissing == kpc = "bal" /\ Fail

OpenBal ==
  /\ kpc = "bal" /\ host.bal # Absent /\ kpc' = "init" /\ step' = 1
  /\ UNCHANGED <<host, mem_mark, dtb_size, base, filepos, kmem>>

Bal == host.bal
Reading ==
  \/ kpc = "init" /\ step <= Bal.init_reads
  \/ kpc = "load" /\ step <= Len(Bal.reads)

(* io_seek fails, or the library finds fault with the file.                *)
LibraryFails == kpc \in {"init", "load"} /\ Fail

(* ks_pread.                                                               *)
Pread ==
  /\ Reading
  /\ LET r == Bal.reads[step]
     IN \E k \in Transferred("bal", r.offset, r.n) :
          /\ kmem' = IF kpc = "init" THEN kmem
                     ELSE Loaded("bal", r.offset, base + r.to, k)
          /\ filepos' = r.offset + k
          /\ IF io_read(r.n, r.n - k) = r.n
             THEN step' = step + 1 /\ UNCHANGED kpc
             ELSE kpc' = "halted" /\ UNCHANGED step
  /\ UNCHANGED <<host, mem_mark, dtb_size, base>>

(* Mutant of Align: the image is put where the device tree starts.         *)
AlignDown(v, n) == (v \div n) * n

Align(v, n) == ((v + n - 1) \div n) * n

(* The files are there or not, no device tree is as long as an error's     *)
(* number, and memory has room for both.                                   *)
IsHost(h) ==
  /\ h.dtb = Absent \/ h.dtb.length \in 0 .. Huge - 1
  /\ h.bal = Absent \/ IsElf(h.bal)
  /\ h.dtb # Absent /\ h.bal # Absent => Align(h.dtb.length, h.bal.align) + h.bal.image <= Space

(* The image goes to the next aligned address if the ABI tag was found.    *)
Place ==
  /\ kpc = "init" /\ step = Bal.init_reads + 1 /\ Bal.has_tag /\ kpc' = "load"
  /\ mem_mark' = Align(mem_mark, Bal.align) /\ base' = mem_mark'
  /\ UNCHANGED <<host, dtb_size, step, filepos, kmem>>

(* ks_go.                                                                  *)
Enter ==
  /\ kpc = "load" /\ step > Len(Bal.reads) /\ kpc' = "entered"
  /\ UNCHANGED <<host, mem_mark, dtb_size, step, base, filepos, kmem>>

Next ==
  \/ DtbMissing \/ OpenDtb \/ ReadDtb \/ DtbLoaded
  \/ BalMissing \/ OpenBal \/ LibraryFails \/ Pread \/ Place \/ Enter

Spec == Init /\ [][Next]_vars

Ended == kpc \in {"halted", "entered"}

-----------------------------------------------------------------------------
(* The contents handed over: the device tree, and the image from its base. *)
Covers(r, i) == r.to <= i /\ i < r.to + r.n
WholeDtb == [i \in 0 .. host.dtb.length - 1 |-> <<"dtb", i>>]
WholeBal == [i \in 0 .. Bal.image - 1 |->
               LET R == {j \in Bal.init_reads + 1 .. Len(Bal.reads) : Covers(Bal.reads[j], i)}
               IN IF R = {} THEN Free
                  ELSE LET r == Bal.reads[CHOOSE j \in R : TRUE]
                       IN <<"bal", r.offset + i - r.to>>]

NoFile == <<>>
Offer == IF host.dtb = Absent \/ host.bal = Absent THEN NoFile
         ELSE <<WholeDtb, WholeBal>>

(* Kickstart halts, or enters the boot abstraction layer with all of its   *)
(* segments and all of the device tree in memory, neither over the other,  *)
(* however short the host's reads are.                                     *)
BF == INSTANCE BootFile WITH
        cpu64 <- TRUE, offers <- [b \in {32, 64} |-> IF b = 64 THEN Offer ELSE NoFile],
        outcome <- CASE kpc = "halted"  -> "aborted" [] kpc = "entered" -> "entered"
                     [] OTHER -> "loading",
        image <- IF kpc # "entered" THEN <<>>
                 ELSE <<[i \in 0 .. host.dtb.length - 1 |-> kmem[i]],
                        [i \in 0 .. Bal.image - 1 |-> kmem[base + i]]>>
KickstartHandsOver == BF!Spec

=============================================================================
