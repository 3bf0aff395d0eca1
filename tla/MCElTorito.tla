----------------------------- MODULE MCElTorito -----------------------------
(* Instances of ElTorito for TLC.  A sector is 4 units long, the rest is   *)
(* in proportion.                                                          *)
EXTENDS ElTorito

Rec(name, lba, size) ==
  [length |-> 2, name |-> name, lba |-> lba, data_length |-> size,
   xar_length |-> 0, is_dir |-> FALSE, bad |-> FALSE]

Other    == Rec("OTHER", 90, 4)
Lower    == Rec("gd_bal.64;1", 90, 4)
Bal64    == [Rec("GD_BAL.64;1", 40, 17) EXCEPT !.xar_length = 1]
Bal32    == Rec("GD_BAL.32;1", 50, 4)
Bal64Dir == [Rec("GD_BAL.64;1", 60, 4) EXCEPT !.is_dir = TRUE]
Bal32Bad == [Rec("GD_BAL.32;1", 70, 4) EXCEPT !.bad = TRUE]
Boot     == [Rec("BOOT", 30, 8) EXCEPT !.is_dir = TRUE]

Kinds == {Other, Lower, Bal64, Bal32, Bal64Dir, Bal32Bad}

(* Sectors with one long record and zeros, and with two.                   *)
One(r)    == [o \in {0} |-> [r EXCEPT !.length = 3]]
Two(r, s) == [o \in {0, 2} |-> IF o = 0 THEN r ELSE s]

(* A disc: the root directory in sector 20, boot from sector 30.           *)
Disc(block, root, boot, len, first, second) ==
  [pvd |-> 16, block_size |-> block, stage1 |-> Extent(10, 11),
   root |-> [Rec("", 20, 4) EXCEPT !.bad = root],
   sectors |-> [lba \in {20, 30, 31, 32} |->
     CASE lba = 20 -> Two(Other, [boot EXCEPT !.data_length = len])
       [] lba = 30 -> first
       [] lba = 31 -> second
       [] lba = 32 -> One(Other)]]

(* Every boot directory of three records, with its last one inside or      *)
(* outside its length, a stage 1 of one sector, directories whose end      *)
(* wraps around, and discs that cannot be booted from.                     *)
SomeDiscs ==
  {Disc(SECTOR_SIZE, FALSE, Boot, len, One(a), Two(b, c)) :
     len \in {6, 8}, a \in Kinds, b \in Kinds, c \in Kinds}
    \cup
  {Disc(SECTOR_SIZE, FALSE, b, 8, One(Bal64), Two(Bal32, Other)) :
     b \in {Other, [Boot EXCEPT !.is_dir = FALSE], [Boot EXCEPT !.bad = TRUE]}}
    \cup
  {[Disc(SECTOR_SIZE, FALSE, Boot, 8, One(Bal64), Two(Bal32, Other))
      EXCEPT !.stage1 = Extent(10, 4)],
   Disc(SECTOR_SIZE, FALSE, Boot, 12, One(Bal64), Two(Bal32, Other)),
   Disc(SECTOR_SIZE, FALSE, Boot, 12, One(Other), Two(Bal32, Other)),
   Disc(4 * SECTOR_SIZE, FALSE, Boot, 8, One(Bal64), Two(Bal32, Other)),
   Disc(SECTOR_SIZE, TRUE, Boot, 8, One(Bal64), Two(Bal32, Other))}
=============================================================================
