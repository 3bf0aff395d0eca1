---------------------------- MODULE ElToritoProofs ----------------------------
(***************************************************************************)
(* Proofs about ElTorito: all of stage 1 is in memory before code outside  *)
(* its first sector runs, and boot is only given up for a reason.          *)
(***************************************************************************)
EXTENDS ElTorito, WellFoundedInduction, TLAPS

LEMMA Division ==
  ASSUME NEW n \in Nat, NEW d \in Nat \ {0}
  PROVE  /\ n \div d \in Nat /\ n % d \in 0 .. d - 1
         /\ d * (n \div d) <= n /\ n < d * (n \div d) + d
  OBVIOUS

LEMMA BlocksOf ==
  ASSUME NEW n \in Nat, n + SECTOR_SIZE - 1 < Word
  PROVE  /\ Blocks(n) \in Nat /\ Blocks(n) < Word
         /\ SECTOR_SIZE * Blocks(n) < n + SECTOR_SIZE
         /\ n <= SECTOR_SIZE * Blocks(n)
         /\ n > SECTOR_SIZE => Blocks(n) >= 2
         /\ n <= SECTOR_SIZE => Blocks(n) <= 1
         /\ n > 0 => Blocks(n) >= 1
<1> USE SizesAssumption
<1> DEFINE x == n + SECTOR_SIZE - 1
           b == x \div SECTOR_SIZE
<1>1. x \in Nat /\ x % Word = x
  OBVIOUS
<1>2. b \in Nat /\ SECTOR_SIZE * b <= x /\ x < SECTOR_SIZE * b + SECTOR_SIZE
  BY <1>1, Division
<1>3. Blocks(n) = b
  BY <1>1 DEF Blocks
<1>4. b <= x
  <2>1. b <= SECTOR_SIZE * b
    BY <1>2, SMT
  <2> QED BY <2>1, <1>2, <1>1
<1>5. ASSUME b = 0 PROVE SECTOR_SIZE * b = 0
  BY <1>5
<1>6. ASSUME b = 1 PROVE SECTOR_SIZE * b = SECTOR_SIZE
  BY <1>6
<1>7. ASSUME b >= 2 PROVE SECTOR_SIZE * b >= 2 * SECTOR_SIZE
  BY <1>7, <1>2, SMT
<1> HIDE DEF b
<1> QED BY <1>1, <1>2, <1>3, <1>4, <1>5, <1>6, <1>7

-----------------------------------------------------------------------------
(* The read under way as a record.                                         *)
Shape ==
  /\ rd = [region |-> rd.region, left |-> rd.left, lba |-> rd.lba, to |-> rd.to,
           single |-> rd.single, then |-> rd.then]
  /\ rd.region \in Region
  /\ mem = [r \in Region |-> mem[r]]

LEMMA Transfers ==
  ASSUME Shape, NEW k, Transfer(k)
  PROVE  /\ Shape'
         /\ rd'.region = rd.region /\ rd'.left = (rd.left - k) % Word
         /\ rd'.lba = rd.lba + k /\ rd'.to = rd.to + k
         /\ rd'.single = rd.single /\ rd'.then = rd.then
         /\ \A r \in Region : mem'[r] = IF r = rd.region THEN Over(Blocks13(k), mem[r])
                                        ELSE mem[r]
<1> USE DEF Shape
<1>1. rd' = [rd EXCEPT !.left = (rd.left - k) % Word, !.lba = @ + k, !.to = @ + k]
  BY DEF Transfer
<1>2. mem' = [mem EXCEPT ![rd.region] = Over(Blocks13(k), @)]
  BY DEF Transfer
<1>3. rd' = [region |-> rd.region, left |-> (rd.left - k) % Word, lba |-> rd.lba + k,
             to |-> rd.to + k, single |-> rd.single, then |-> rd.then]
  BY <1>1
<1>4. \A r \in Region : mem'[r] = IF r = rd.region THEN Over(Blocks13(k), mem[r]) ELSE mem[r]
  BY <1>2
<1>5. mem' = [r \in Region |-> mem'[r]]
  BY <1>2
<1> QED BY <1>3, <1>4, <1>5
LEMMA Spoils ==
  ASSUME Shape, ReadFails
  PROVE  /\ Shape'
         /\ rd'.region = rd.region /\ rd'.left = rd.left /\ rd'.lba = rd.lba
         /\ rd'.to = rd.to /\ rd'.then = rd.then /\ rd'.single = TRUE
         /\ \A r \in Region : mem'[r] = IF r = rd.region THEN Over(Junk13(Request), mem[r])
                                        ELSE mem[r]
<1> USE DEF Shape
<1>1. rd' = [rd EXCEPT !.single = TRUE]
  BY DEF ReadFails
<1>2. mem' = [mem EXCEPT ![rd.region] = Over(Junk13(Request), @)]
  BY DEF ReadFails
<1>3. rd' = [region |-> rd.region, left |-> rd.left, lba |-> rd.lba,
             to |-> rd.to, single |-> TRUE, then |-> rd.then]
  BY <1>1
<1>4. \A r \in Region : mem'[r] = IF r = rd.region THEN Over(Junk13(Request), mem[r]) ELSE mem[r]
  BY <1>2
<1>5. mem' = [r \in Region |-> mem'[r]]
  BY <1>2
<1> QED BY <1>3, <1>4, <1>5

(* Steps outside storage_read: nothing is read, or a read begins.          *)
Begins(region) == \E n, lba, label : Read(region, n, lba, label)
Calm(region) == (UNCHANGED <<rd, mem>> /\ pc' # "read") \/ Begins(region)

LEMMA CalmShape ==
  ASSUME Shape, NEW r \in Region, Calm(r)
  PROVE  Shape' /\ UNCHANGED mem /\ (pc' = "read" => rd'.region = r)
<1>1. CASE UNCHANGED <<rd, mem>> /\ pc' # "read"
  BY <1>1 DEF Shape
<1>2. CASE Begins(r)
  <2>1. PICK n, lba, label : Read(r, n, lba, label)
    BY <1>2 DEF Begins
  <2>2. rd' = [region |-> r, left |-> n, lba |-> lba, to |-> 0, single |-> FALSE,
               then |-> label] /\ mem' = mem
    BY <2>1 DEF Read
  <2> QED BY <2>2 DEF Shape
<1> QED BY <1>1, <1>2 DEF Calm

(* What each action does to the read under way.                            *)
LEMMA Sectors == ASSUME LoadSector PROVE Calm("dir") /\ pc = "sector" /\ UNCHANGED disc
  BY DEF LoadSector, Calm, Begins, machine
LEMMA Looks ==
  ASSUME SectorEnds \/ CheckRecord PROVE Calm("pvd") /\ pc = "record" /\ UNCHANGED disc
  BY DEF SectorEnds, CheckRecord, NextRecord, NextSector, Goto, Found, NotFound, Abort, Calm,
         machine
LEMMA Starts ==
  ASSUME LoadPvd \/ Root PROVE Calm("pvd") /\ pc \in {"pvd", "root"} /\ UNCHANGED disc
  BY DEF LoadPvd, Root, Find, Goto, Abort, Calm, Begins, machine
LEMMA Finds ==
  ASSUME BootDir \/ FallBack \/ NoBal \/ Opened
  PROVE  Calm("pvd") /\ pc \in {"absent", "found"} /\ UNCHANGED disc
  BY DEF BootDir, FallBack, NoBal, Opened, FileAbsent, Find, Goto, Abort, Calm, machine
LEMMA Chooses ==
  ASSUME A20Fails \/ Choose PROVE Calm("pvd") /\ pc = "a20" /\ UNCHANGED disc
  BY DEF A20Fails, Choose, Find, Goto, Calm, machine
LEMMA Enters == ASSUME ReadBal PROVE Calm("bal") /\ pc = "bal" /\ UNCHANGED disc
  BY DEF ReadBal, Calm, Begins, machine

(* Every step outside storage_read and storage_init's first.               *)
Quiet ==
  /\ Calm("pvd") \/ Calm("dir") \/ Calm("bal")
  /\ pc \in {"sector", "record", "pvd", "root", "absent", "found", "a20", "bal"}
  /\ UNCHANGED disc

LEMMA NextCases ==
  ASSUME Next
  PROVE  Int13 \/ NoExtensions \/ LoadRest \/ Quiet
  BY Sectors, Looks, Starts, Finds, Chooses, Enters DEF Next, Going, Quiet
-----------------------------------------------------------------------------
(* The number of blocks of stage 1 that the firmware did not load, and the *)
(* first n of them in memory.                                              *)
Rest == Blocks(disc.stage1.len) - 1

Loaded(n) ==
  \A i \in 0 .. n - 1 :
    i \in DOMAIN mem["stage1"] /\ mem["stage1"][i] = disc.stage1.lba + 1 + i

LoadsRest == pc = "read" /\ rd.region = "stage1"

(* While the rest of stage 1 is read, what was read of it is in memory and *)
(* the request is for what is missing; later all of it is.                 *)
LInv ==
  /\ disc \in Discs /\ Shape
  /\ LoadsRest =>
       /\ rd.left \in Nat \ {0} /\ rd.to \in Nat /\ rd.to + rd.left = Rest
       /\ rd.left < Word
       /\ rd.lba = disc.stage1.lba + 1 + rd.to /\ rd.then = "pvd"
       /\ Loaded(rd.to)
  /\ ~LoadsRest /\ pc \notin {"ext", "aborted"} => Loaded(Rest)

LEMMA RestCounts ==
  ASSUME disc \in Discs
  PROVE  /\ disc.stage1.lba \in Nat /\ disc.stage1.len \in Nat
         /\ Rest \in Int /\ Rest < Word
         /\ disc.stage1.len > SECTOR_SIZE => Rest >= 1
         /\ disc.stage1.len <= SECTOR_SIZE => Rest <= 0
<1>1. disc.stage1.lba \in Nat /\ disc.stage1.len \in Nat
      /\ disc.stage1.len + SECTOR_SIZE - 1 < Word
  BY DiscsAssumption DEF IsDisc
<1> QED BY <1>1, BlocksOf, SizesAssumption DEF Rest

LEMMA LInit == ASSUME Init PROVE LInv
  BY DEF Init, LInv, Shape, NoRead, Region, LoadsRest

LEMMA LStarts == ASSUME LInv, LoadRest PROVE LInv'
<1>1. pc = "ext" /\ disc' = disc /\ disc \in Discs /\ Shape
  BY DEF LInv, LoadRest, machine
<1>2. CASE disc.stage1.len > SECTOR_SIZE
  <2>1. Read("stage1", Rest, disc.stage1.lba + 1, "pvd")
    BY <1>2 DEF LoadRest, Rest
  <2>2. /\ rd' = [region |-> "stage1", left |-> Rest, lba |-> disc.stage1.lba + 1, to |-> 0,
                  single |-> FALSE, then |-> "pvd"]
        /\ pc' = "read" /\ mem' = mem
    BY <2>1 DEF Read
  <2>3. Rest \in Nat \ {0} /\ Rest < Word /\ Rest' = Rest /\ disc.stage1.lba \in Nat
    BY <1>1, <1>2, RestCounts DEF Rest
  <2>4. Shape' /\ LoadsRest'
    BY <1>1, <2>2 DEF Shape, LoadsRest, Region
  <2>5. Loaded(rd.to)'
    BY <2>2 DEF Loaded
  <2> QED BY <1>1, <2>2, <2>3, <2>4, <2>5 DEF LInv
<1>3. CASE ~(disc.stage1.len > SECTOR_SIZE)
  <2>1. UNCHANGED <<rd, mem>> /\ pc' = "pvd"
    BY <1>3 DEF LoadRest, Goto
  <2>2. Rest \in Int /\ Rest <= 0 /\ Rest' = Rest
    BY <1>1, <1>3, RestCounts, SizesAssumption DEF Rest
  <2>3. Loaded(Rest)'
    BY <2>2 DEF Loaded
  <2> QED BY <1>1, <2>1, <2>3 DEF LInv, Shape, LoadsRest
<1> QED BY <1>2, <1>3

(* A transfer of k blocks to another place leaves stage 1 alone, one to    *)
(* stage 1 adds k blocks.                                                  *)
LEMMA LTransfers ==
  ASSUME LInv, NEW k \in 0 .. Request, k = 0 <=> Request = 0, Transfer(k) PROVE LInv'
<1>1. pc = "read" /\ disc' = disc /\ disc \in Discs /\ Shape
      /\ pc' = IF (rd.left - k) % Word = 0 THEN rd.then ELSE "read"
  BY DEF LInv, Transfer, machine
<1>2. Rest' = Rest
  BY <1>1 DEF Rest
<1>3. CASE rd.region # "stage1"
  <2>1. Loaded(Rest)
    BY <1>1, <1>3 DEF LInv, LoadsRest
  <2>2. mem'["stage1"] = mem["stage1"] /\ rd'.region = rd.region /\ Shape'
    BY <1>1, <1>3, Transfers DEF Region
  <2>3. Loaded(Rest)'
    BY <1>1, <1>2, <2>1, <2>2 DEF Loaded
  <2> QED BY <1>1, <1>3, <2>2, <2>3 DEF LInv, LoadsRest
<1>4. CASE rd.region = "stage1"
  <2>1. /\ rd.left \in Nat \ {0} /\ rd.to \in Nat /\ rd.to + rd.left = Rest
        /\ rd.left < Word /\ rd.lba = disc.stage1.lba + 1 + rd.to /\ rd.then = "pvd"
        /\ Loaded(rd.to)
    BY <1>1, <1>4 DEF LInv, LoadsRest
  <2>2. Request \in 1 .. rd.left
    BY <2>1, SizesAssumption DEF Request
  <2>3. k \in 1 .. rd.left
    BY <2>1, <2>2
  <2>4. (rd.left - k) % Word = rd.left - k
    BY <2>1, <2>3, SizesAssumption
  <2>5. /\ rd'.region = rd.region /\ rd'.left = rd.left - k /\ rd'.lba = rd.lba + k
        /\ rd'.to = rd.to + k /\ rd'.then = rd.then /\ Shape'
        /\ mem'["stage1"] = Over(Blocks13(k), mem["stage1"])
    BY <1>1, <1>4, <2>4, Transfers DEF Region
  <2>6. disc.stage1.lba \in Nat
    BY <1>1, RestCounts
  <2>0. PICK n \in Nat : n = rd.to + k
    BY <2>1, <2>3
  <2>7. Loaded(n)'
    <3>1. ASSUME NEW i \in 0 .. n - 1
          PROVE  i \in DOMAIN mem'["stage1"] /\ mem'["stage1"][i] = disc.stage1.lba + 1 + i
      <4>1. CASE i >= rd.to
        <5>1. i \in rd.to .. rd.to + k - 1
          BY <4>1, <2>0, <2>1, <2>3
        <5>2. Blocks13(k)[i] = rd.lba + i - rd.to /\ i \in DOMAIN Blocks13(k)
          BY <5>1 DEF Blocks13
        <5>3. rd.lba + i - rd.to = disc.stage1.lba + 1 + i
          BY <2>1, <2>6
        <5> QED BY <5>2, <5>3, <2>5 DEF Over
      <4>2. CASE i < rd.to
        <5>1. i \in 0 .. rd.to - 1 /\ i \notin rd.to .. rd.to + k - 1
          BY <4>2, <2>1, <2>3
        <5>2. i \in DOMAIN mem["stage1"] /\ mem["stage1"][i] = disc.stage1.lba + 1 + i
          BY <5>1, <2>1 DEF Loaded
        <5> QED BY <5>1, <5>2, <2>5 DEF Over, Blocks13
      <4> QED BY <4>1, <4>2, <2>1, <2>3
    <3> QED BY <3>1, <2>0, <1>1 DEF Loaded
  <2>8. CASE rd.left - k = 0
    <3>1. pc' = "pvd"
      BY <1>1, <2>1, <2>4, <2>8
    <3>2. Rest' = n
      BY <1>2, <2>0, <2>1, <2>3, <2>8
    <3>3. Loaded(Rest)'
      BY <3>2, <2>7 DEF Loaded
    <3> QED BY <1>1, <2>5, <3>1, <3>3 DEF LInv, LoadsRest
  <2>9. CASE rd.left - k # 0
    <3>1. pc' = "read" /\ LoadsRest'
      BY <1>1, <1>4, <2>4, <2>5, <2>9 DEF LoadsRest
    <3>2. /\ rd'.left \in Nat \ {0} /\ rd'.to \in Nat /\ rd'.to + rd'.left = Rest'
          /\ rd'.left < Word /\ rd'.then = "pvd"
      BY <1>2, <2>1, <2>3, <2>5, <2>9, SizesAssumption
    <3>4. rd'.lba = disc'.stage1.lba + 1 + rd'.to
      BY <1>1, <2>1, <2>3, <2>5, <2>6
    <3>3. Loaded(rd.to)'
      BY <2>7, <2>0, <2>5 DEF Loaded
    <3> QED BY <1>1, <2>5, <3>1, <3>2, <3>3, <3>4 DEF LInv
  <2> QED BY <2>8, <2>9
<1> QED BY <1>3, <1>4

(* A call that fails writes behind what was loaded.                        *)
LEMMA LFails == ASSUME LInv, ReadFails PROVE LInv'
<1>1. pc = "read" /\ pc' = pc /\ disc' = disc /\ disc \in Discs /\ Shape
  BY DEF LInv, ReadFails, machine
<1>2. Rest' = Rest
  BY <1>1 DEF Rest
<1>3. CASE rd.region # "stage1"
  <2>1. Loaded(Rest)
    BY <1>1, <1>3 DEF LInv, LoadsRest
  <2>2. mem'["stage1"] = mem["stage1"] /\ rd'.region = rd.region /\ Shape'
    BY <1>1, <1>3, Spoils DEF Region
  <2>3. Loaded(Rest)'
    BY <1>1, <1>2, <2>1, <2>2 DEF Loaded
  <2> QED BY <1>1, <1>3, <2>2, <2>3 DEF LInv, LoadsRest
<1>4. CASE rd.region = "stage1"
  <2>1. /\ rd.left \in Nat \ {0} /\ rd.to \in Nat /\ rd.to + rd.left = Rest
        /\ rd.left < Word /\ rd.lba = disc.stage1.lba + 1 + rd.to /\ rd.then = "pvd"
        /\ Loaded(rd.to)
    BY <1>1, <1>4 DEF LInv, LoadsRest
  <2>2. /\ rd'.region = rd.region /\ rd'.left = rd.left /\ rd'.lba = rd.lba
        /\ rd'.to = rd.to /\ rd'.then = rd.then /\ Shape'
        /\ mem'["stage1"] = Over(Junk13(Request), mem["stage1"])
    BY <1>1, <1>4, Spoils DEF Region
  <2>3. ASSUME NEW i \in 0 .. rd.to - 1
        PROVE  i \in DOMAIN mem'["stage1"] /\ mem'["stage1"][i] = disc.stage1.lba + 1 + i
    <3>1. i \notin rd.to .. rd.to + Request - 1
      BY <2>1
    <3>2. i \in DOMAIN mem["stage1"] /\ mem["stage1"][i] = disc.stage1.lba + 1 + i
      BY <2>1 DEF Loaded
    <3> QED BY <3>1, <3>2, <2>2 DEF Over, Junk13
  <2>4. Loaded(rd.to)'
    BY <2>2, <2>3, <1>1 DEF Loaded
  <2> QED BY <1>1, <1>2, <1>4, <2>1, <2>2, <2>4 DEF LInv, LoadsRest
<1> QED BY <1>3, <1>4

LEMMA LQuiet == ASSUME LInv, Quiet PROVE LInv'
<1>1. disc' = disc /\ disc \in Discs /\ Shape /\ Loaded(Rest)
  BY DEF LInv, Quiet, LoadsRest
<1>2. Shape' /\ UNCHANGED mem /\ (pc' = "read" => rd'.region # "stage1")
  BY <1>1, CalmShape DEF Quiet, Region
<1>3. Loaded(Rest)'
  BY <1>1, <1>2 DEF Loaded, Rest
<1> QED BY <1>1, <1>2, <1>3 DEF LInv, LoadsRest

LEMMA LStep == ASSUME LInv, [Next]_vars PROVE LInv'
<1>1. CASE UNCHANGED vars
  BY <1>1 DEF LInv, vars, Shape, LoadsRest, Loaded, Rest
<1>2. CASE Int13
  <2>1. CASE ReadError
    BY <2>1 DEF ReadError, LInv, machine, Shape, LoadsRest
  <2> QED BY <1>2, <2>1, LTransfers, LFails DEF Int13
<1>3. CASE NoExtensions
  BY <1>3 DEF NoExtensions, LInv, machine, Shape, LoadsRest
<1> QED BY <1>1, <1>2, <1>3, NextCases, LStarts, LQuiet

(* All of stage 1 is in memory whenever code outside its first sector      *)
(* runs, whatever int 0x13 fails, transfers or leaves in the buffer: for   *)
(* every size of stage 1 and of a sector and any number of blocks a call   *)
(* may transfer.                                                           *)
THEOREM RestAlwaysLoaded == Spec => []RestLoaded
<1>1. LInv => RestLoaded
  <2> SUFFICES ASSUME LInv, pc \in {"a20", "bal", "entered"},
                      NEW i \in 1 .. Blocks(disc.stage1.len) - 1
               PROVE  /\ i - 1 \in DOMAIN mem["stage1"]
                      /\ mem["stage1"][i - 1] = disc.stage1.lba + i
    BY DEF RestLoaded
  <2>1. Loaded(Rest) /\ disc \in Discs
    BY DEF LInv, LoadsRest
  <2>2. Rest \in Int /\ disc.stage1.lba \in Nat
    BY <2>1, RestCounts
  <2>3. i - 1 \in 0 .. Rest - 1 /\ i \in Int
    BY <2>2 DEF Rest
  <2>4. disc.stage1.lba + 1 + (i - 1) = disc.stage1.lba + i
    BY <2>2, <2>3
  <2> QED BY <2>1, <2>3, <2>4 DEF Loaded
<1> QED BY <1>1, LInit, LStep, PTL DEF Spec
-----------------------------------------------------------------------------
(***************************************************************************)
(* Looking through a directory.  All records of a name are at or behind    *)
(* offset o of sector i.                                                   *)
(***************************************************************************)
AllFrom(d, e, name, i, o) ==
  \A p \in Named(d, e, name) : p[1] > i \/ (p[1] = i /\ p[2] >= o)

Searchable(d, e) ==
  /\ e.lba \in Nat /\ e.len \in Nat \ {0} /\ Buffer + e.len < Half
  /\ IsDirectory(d, e)

LEMMA Product ==
  ASSUME NEW i \in Nat, NEW j \in Nat, i < j
  PROVE  i * SECTOR_SIZE + SECTOR_SIZE <= j * SECTOR_SIZE
<1> USE SizesAssumption
<1>1. PICK m \in Nat : j = i + 1 + m
  <2>1. j - i - 1 \in Nat /\ j = i + 1 + (j - i - 1)
    OBVIOUS
  <2> QED BY <2>1
<1>2. j * SECTOR_SIZE = i * SECTOR_SIZE + SECTOR_SIZE + m * SECTOR_SIZE
  BY <1>1
<1>3. m * SECTOR_SIZE \in Nat /\ i * SECTOR_SIZE \in Nat
  OBVIOUS
<1> QED BY <1>2, <1>3

LEMMA NamedIs ==
  ASSUME NEW d, NEW e, NEW name, NEW p \in Named(d, e, name)
  PROVE  /\ p[1] \in 0 .. Blocks(e.len) - 1 /\ p[2] \in 0 .. SECTOR_SIZE - 1
         /\ p = <<p[1], p[2]>>
         /\ p[2] \in DOMAIN d.sectors[e.lba + p[1]]
         /\ p[1] * SECTOR_SIZE + p[2] < e.len
         /\ d.sectors[e.lba + p[1]][p[2]].name = Upper[name]
  BY DEF Named, Records, At

LEMMA SectorKnown ==
  ASSUME NEW d, NEW e, Searchable(d, e), NEW i \in Nat, i * SECTOR_SIZE < e.len
  PROVE  i \in 0 .. Blocks(e.len) - 1 /\ IsSector(d.sectors[e.lba + i])
<1> USE SizesAssumption
<1>1. e.len \in Nat /\ e.len + SECTOR_SIZE - 1 < Word
  BY DEF Searchable
<1>2. Blocks(e.len) \in Nat /\ e.len <= SECTOR_SIZE * Blocks(e.len)
  BY <1>1, BlocksOf
<1>3. i < Blocks(e.len)
  <2> SUFFICES ASSUME ~(i < Blocks(e.len)) PROVE FALSE
    OBVIOUS
  <2>1. CASE i = Blocks(e.len)
    BY <2>1, <1>1, <1>2
  <2>2. CASE Blocks(e.len) < i
    <3> DEFINE a == Blocks(e.len) * SECTOR_SIZE
               b == i * SECTOR_SIZE
    <3>1. a + SECTOR_SIZE <= b
      BY <2>2, <1>2, Product
    <3>2. a \in Nat /\ b \in Nat /\ e.len <= a
      BY <1>2
    <3> HIDE DEF a
    <3> QED BY <3>1, <3>2, <1>1
  <2> QED BY <2>1, <2>2, <1>2
<1> QED BY <1>2, <1>3 DEF Searchable, IsDirectory

LEMMA NoneLeft ==
  ASSUME NEW d, NEW e, NEW name, Searchable(d, e), NEW i \in Nat, NEW o \in Nat,
         AllFrom(d, e, name, i, o), o <= SECTOR_SIZE, e.len <= i * SECTOR_SIZE + o
  PROVE  ~Has(d, e, name)
<1> USE SizesAssumption
<1> SUFFICES ASSUME NEW p \in Named(d, e, name) PROVE FALSE
  BY DEF Has
<1>1. p[1] \in Nat /\ p[2] \in Nat /\ p[1] * SECTOR_SIZE + p[2] < e.len
  BY NamedIs
<1>2. p[1] > i \/ (p[1] = i /\ p[2] >= o)
  BY DEF AllFrom
<1>3. e.len \in Nat
  BY DEF Searchable
<1> DEFINE a == i * SECTOR_SIZE
           b == p[1] * SECTOR_SIZE
<1>4. a \in Nat /\ b \in Nat
  BY <1>1
<1>5. CASE p[1] > i
  <2>1. a + SECTOR_SIZE <= b
    BY <1>5, <1>1, Product
  <2>2. b + p[2] < e.len /\ e.len <= a + o
    BY <1>1
  <2> HIDE DEF a, b
  <2> QED BY <2>1, <2>2, <1>1, <1>3, <1>4
<1>6. CASE p[1] = i /\ p[2] >= o
  <2>1. a = b
    BY <1>6
  <2>2. b + p[2] < e.len /\ e.len <= a + o
    BY <1>1
  <2> HIDE DEF a, b
  <2> QED BY <2>1, <2>2, <1>1, <1>3, <1>4, <1>6
<1> QED BY <1>2, <1>5, <1>6

(* A sector without records from o on is done with.                        *)
LEMMA SectorDone ==
  ASSUME NEW d, NEW e, NEW name, NEW i \in Nat, NEW o \in Nat,
         AllFrom(d, e, name, i, o), \A x \in DOMAIN d.sectors[e.lba + i] : x < o
  PROVE  AllFrom(d, e, name, i + 1, 0)
<1> SUFFICES ASSUME NEW p \in Named(d, e, name)
             PROVE  p[1] > i + 1 \/ (p[1] = i + 1 /\ p[2] >= 0)
  BY DEF AllFrom
<1>1. /\ p[1] \in Nat /\ p[2] \in Nat /\ p[2] \in DOMAIN d.sectors[e.lba + p[1]]
  BY NamedIs, SizesAssumption
<1>2. p[1] > i \/ (p[1] = i /\ p[2] >= o)
  BY DEF AllFrom
<1>3. p[1] # i
  BY <1>1, <1>2
<1> QED BY <1>1, <1>2, <1>3

(* A record of another name is stepped over, and what follows is a record  *)
(* or nothing.                                                             *)
LEMMA SteppedOver ==
  ASSUME NEW d, NEW e, NEW name, Searchable(d, e), NEW i \in Nat, NEW o \in Nat,
         i * SECTOR_SIZE < e.len, AllFrom(d, e, name, i, o),
         NEW s, s = d.sectors[e.lba + i], o \in DOMAIN s, s[o].name # Upper[name]
  PROVE  /\ s[o].length \in Nat \ {0}
         /\ AllFrom(d, e, name, i, o + s[o].length)
         /\ o + s[o].length \in DOMAIN s \/ \A x \in DOMAIN s : x < o + s[o].length
<1>1. IsSector(s)
  BY SectorKnown
<1>2. /\ s[o] \in Record /\ DOMAIN s \subseteq 0 .. SECTOR_SIZE - 1
      /\ \A p \in DOMAIN s : p > o => p >= o + s[o].length /\ o + s[o].length \in DOMAIN s
  BY <1>1 DEF IsSector
<1>3. s[o].length \in Nat \ {0}
  BY <1>2 DEF Record
<1>4. DOMAIN s \subseteq Nat
  BY <1>2, SizesAssumption
<1>5. ASSUME NEW p \in Named(d, e, name)
      PROVE  p[1] > i \/ (p[1] = i /\ p[2] >= o + s[o].length)
  <2>1. /\ p[1] \in Nat /\ p[2] \in Nat /\ p[2] \in DOMAIN d.sectors[e.lba + p[1]]
        /\ d.sectors[e.lba + p[1]][p[2]].name = Upper[name]
    BY NamedIs, SizesAssumption
  <2>2. p[1] > i \/ (p[1] = i /\ p[2] >= o)
    BY DEF AllFrom
  <2>3. CASE p[1] = i /\ p[2] >= o
    <3>1. p[2] \in DOMAIN s /\ p[2] # o
      BY <2>1, <2>3
    <3> QED BY <3>1, <2>1, <2>3, <1>2
  <2> QED BY <2>2, <2>3
<1>6. o + s[o].length \in DOMAIN s \/ \A x \in DOMAIN s : x < o + s[o].length
  <2> SUFFICES ASSUME NEW x \in DOMAIN s, ~(x < o + s[o].length)
               PROVE  o + s[o].length \in DOMAIN s
    OBVIOUS
  <2>1. x > o
    BY <1>3, <1>4
  <2> QED BY <2>1, <1>2
<1> QED BY <1>3, <1>5, <1>6 DEF AllFrom

(* The record found is the first of its name.                              *)
LEMMA FirstOfName ==
  ASSUME NEW d, NEW e, NEW name, Searchable(d, e), NEW i \in Nat, NEW o \in Nat,
         i * SECTOR_SIZE + o < e.len, AllFrom(d, e, name, i, o),
         o \in DOMAIN d.sectors[e.lba + i], d.sectors[e.lba + i][o].name = Upper[name]
  PROVE  Has(d, e, name) /\ Lookup(d, e, name) = d.sectors[e.lba + i][o]
<1> DEFINE a == i * SECTOR_SIZE
           N == Named(d, e, name)
           Ahead(p, q) == p[1] < q[1] \/ (p[1] = q[1] /\ p[2] <= q[2])
           f == CHOOSE p \in N : \A q \in N : Ahead(p, q)
           z == <<i, o>>
<1>1. a \in Nat /\ e.len \in Nat
  BY SizesAssumption DEF Searchable
<1>2. i * SECTOR_SIZE < e.len
  BY <1>1
<1>3. i \in 0 .. Blocks(e.len) - 1 /\ o \in 0 .. SECTOR_SIZE - 1
  BY <1>2, SectorKnown DEF IsSector
<1>4. z \in N
  BY <1>3 DEF Named, Records, At
<1>5. \A q \in N : Ahead(z, q)
  <2> SUFFICES ASSUME NEW q \in N PROVE Ahead(z, q)
    OBVIOUS
  <2>1. q[1] \in Int /\ q[2] \in Int
    BY NamedIs
  <2>2. q[1] > i \/ (q[1] = i /\ q[2] >= o)
    BY DEF AllFrom
  <2> QED BY <2>1, <2>2
<1>6. f \in N /\ \A q \in N : Ahead(f, q)
  BY <1>4, <1>5
<1>7. f = z
  <2> HIDE DEF f
  <2>1. f[1] \in Int /\ f[2] \in Int /\ f = <<f[1], f[2]>>
    BY <1>6, NamedIs
  <2>2. Ahead(f, z) /\ Ahead(z, f)
    BY <1>4, <1>5, <1>6
  <2>3. f[1] = i /\ f[2] = o
    BY <2>1, <2>2
  <2> QED BY <2>1, <2>3
<1>8. Lookup(d, e, name) = At(d, e, f)
  BY DEF Lookup
<1>9. At(d, e, f) = d.sectors[e.lba + i][o]
  <2> HIDE DEF f
  <2> QED BY <1>7 DEF At
<1> QED BY <1>4, <1>8, <1>9 DEF Has
(* A non-empty set of naturals has a least element.                        *)
LEMMA LeastNat ==
  ASSUME NEW S \in SUBSET Nat, S # {}
  PROVE  \E x \in S : \A y \in S : x <= y
<1> DEFINE R == OpToRel(<, Nat)
<1>1. \E x \in S : \A y \in S : ~(<<y, x>> \in R)
  BY WFMin, NatLessThanWellFounded
<1>2. \A x, y \in Nat : x < y => <<x, y>> \in R
  BY Zenon DEF OpToRel
<1> HIDE DEF R
<1>3. PICK x \in S : \A y \in S : ~(<<y, x>> \in R)
  BY <1>1
<1>4. \A y \in S : ~(y < x)
  BY <1>2, <1>3
<1> QED BY <1>4

(* A directory that has a record of a name has a first one.                *)
LEMMA LookupIs ==
  ASSUME NEW d, NEW e, NEW name, IsDirectory(d, e), Has(d, e, name)
  PROVE  Lookup(d, e, name) \in Record
<1> DEFINE N == Named(d, e, name)
           Ahead(p, q) == p[1] < q[1] \/ (p[1] = q[1] /\ p[2] <= q[2])
           f == CHOOSE p \in N : \A q \in N : Ahead(p, q)
           I == {p[1] : p \in N}
<1>1. \A p \in N : p[1] \in Nat /\ p[2] \in Nat
  BY NamedIs, SizesAssumption
<1>2. PICK a \in I : \A y \in I : a <= y
  BY <1>1, LeastNat DEF Has
<1> DEFINE O == {p[2] : p \in {q \in N : q[1] = a}}
<1>3. PICK b \in O : \A y \in O : b <= y
  <2>1. O \in SUBSET Nat /\ O # {}
    BY <1>1, <1>2
  <2> QED BY <2>1, LeastNat
<1>4. PICK z \in N : z[1] = a /\ z[2] = b
  BY <1>3
<1>5. \A q \in N : Ahead(z, q)
  BY <1>1, <1>2, <1>3, <1>4
<1>6. f \in N
  BY <1>5
<1>7. Lookup(d, e, name) = At(d, e, f)
  BY DEF Lookup
<1> HIDE DEF f
<1>8. f[1] \in 0 .. Blocks(e.len) - 1 /\ f[2] \in DOMAIN d.sectors[e.lba + f[1]]
  BY <1>6, NamedIs
<1>9. IsSector(d.sectors[e.lba + f[1]])
  BY <1>8 DEF IsDirectory
<1>10. d.sectors[e.lba + f[1]][f[2]] \in Record
  BY <1>8, <1>9 DEF IsSector
<1> QED BY <1>7, <1>10 DEF At

(* Why boot may be given up although nothing failed.                       *)
Excused(d, c) ==
  \/ ~HasBoot(d)
  \/ EndWraps(ExtentOf(d.root)) \/ EndWraps(BootExtent(d))
  \/ c /\ Unsupported(d, BootExtent(d), "bal64")
  \/ ~(c /\ IsFile(d, "bal64"))
       /\ (~IsFile(d, "bal32") \/ Unsupported(d, BootExtent(d), "bal32"))

(* The discs on which a lookup can only fail for want of a file: their     *)
(* directories are not empty, and not too long.                            *)
Regular(d) ==
  /\ ExtentOf(d.root).len > 0 /\ ~EndWraps(ExtentOf(d.root))
  /\ HasBoot(d) => BootExtent(d).len > 0 /\ ~EndWraps(BootExtent(d))

(* The directory a name is looked for in.                                  *)
To(d, name) == IF name = "boot" THEN ExtentOf(d.root) ELSE BootExtent(d)

LEMMA RootIs ==
  ASSUME NEW d \in Discs
  PROVE  /\ ExtentOf(d.root).lba \in Nat /\ ExtentOf(d.root).len \in Nat
         /\ IsDirectory(d, ExtentOf(d.root))
<1>1. IsDisc(d)
  BY DiscsAssumption
<1> QED BY <1>1 DEF IsDisc, Record, ExtentOf, Extent

LEMMA BootIs ==
  ASSUME NEW d \in Discs, HasBoot(d)
  PROVE  /\ BootExtent(d).lba \in Nat /\ BootExtent(d).len \in Nat
         /\ IsDirectory(d, BootExtent(d))
<1>1. Lookup(d, ExtentOf(d.root), "boot") \in Record
  BY RootIs, LookupIs DEF HasBoot
<1>2. IsDisc(d)
  BY DiscsAssumption
<1> QED BY <1>1, <1>2 DEF IsDisc, Record, BootExtent, ExtentOf, Extent

LEMMA EmptyHasNothing ==
  ASSUME NEW d, NEW e, NEW name, e.len = 0 PROVE ~Has(d, e, name)
<1> SUFFICES ASSUME NEW p \in Named(d, e, name) PROVE FALSE
  BY DEF Has
<1>1. p[1] \in Nat /\ p[2] \in Nat /\ p[1] * SECTOR_SIZE + p[2] < 0
  BY NamedIs, SizesAssumption
<1>2. p[1] * SECTOR_SIZE \in Nat
  BY <1>1, SizesAssumption
<1> QED BY <1>1, <1>2

LEMMA DirectoryIs ==
  ASSUME NEW d \in Discs, Regular(d), NEW name, name = "boot" \/ HasBoot(d)
  PROVE  Searchable(d, To(d, name))
<1>1. CASE name = "boot"
  BY <1>1, RootIs, SizesAssumption DEF Regular, Searchable, EndWraps, To
<1>2. CASE name # "boot"
  BY <1>2, BootIs, SizesAssumption DEF Regular, Searchable, EndWraps, To
<1> QED BY <1>1, <1>2

LEMMA OtherwiseExcused ==
  ASSUME NEW d \in Discs, NEW c, ~Regular(d) PROVE Excused(d, c)
<1>1. CASE ~(ExtentOf(d.root).len > 0)
  <2>1. ExtentOf(d.root).len = 0
    BY <1>1, RootIs
  <2> QED BY <2>1, EmptyHasNothing DEF HasBoot, Excused
<1>2. CASE HasBoot(d) /\ ~(BootExtent(d).len > 0)
  <2>1. BootExtent(d).len = 0
    BY <1>2, BootIs
  <2>2. ~IsFile(d, "bal64") /\ ~IsFile(d, "bal32")
    BY <2>1, EmptyHasNothing DEF IsFile
  <2> QED BY <2>2 DEF Excused
<1> QED BY <1>1, <1>2 DEF Excused, Regular

-----------------------------------------------------------------------------
(***************************************************************************)
(* The invariant.  Sect sectors of the directory are done with, what is    *)
(* left of it is not empty, and every record of the name looked for is     *)
(* where the search has not been.                                          *)
(***************************************************************************)
Sect == dir.lba - To(disc, want).lba

Searching ==
  /\ dir.lba \in Nat /\ Sect \in Nat /\ dir.len \in Nat \ {0}
  /\ To(disc, want).len = Sect * SECTOR_SIZE + dir.len

Searched(o) == AllFrom(disc, To(disc, want), want, Sect, o)

ReadsDir == pc = "read" /\ rd.region = "dir"

(* A sector of the directory is read, or about to be.                      *)
AtSector ==
  /\ pc = "sector" \/ ReadsDir => Searching /\ Searched(0)
  /\ ReadsDir => /\ rd.left = 1 /\ rd.to = 0 /\ rd.lba = dir.lba /\ rd.then = "record"
                 /\ di = Buffer

(* A record of the sector in the buffer is looked at.                      *)
AtRecord ==
  /\ pc \in {"record", "found"} =>
       /\ Searching /\ mem["dir"][0] = dir.lba
       /\ di \in Nat /\ Buffer <= di /\ di < Buffer + SECTOR_SIZE /\ di < Buffer + dir.len
       /\ Searched(di - Buffer)
  /\ pc = "record" => HasRecord(di) \/ \A x \in DOMAIN InBuffer : x < di - Buffer
  /\ pc = "found" =>
       HasRecord(di) /\ RecordAt(di).name = Upper[want] /\ ~RecordAt(di).bad

AtEnd == pc = "absent" => ~Has(disc, To(disc, want), want)

(* What is looked for, and why.                                            *)
Wanted ==
  /\ want \in {"boot", "bal64", "bal32"}
  /\ want # "boot" \/ pc = "a20" => HasBoot(disc) /\ boot_dir = BootExtent(disc)
  /\ pc \in {"sector", "record", "found"} \/ ReadsDir =>
       disc.block_size = SECTOR_SIZE /\ ~disc.root.bad
  /\ want = "bal64" => cpu64
  /\ want = "bal32" /\ cpu64 => ~IsFile(disc, "bal64")

SInv ==
  /\ disc \in Discs /\ Shape
  /\ pc = "read" /\ rd.region # "dir" => rd.then \in {"pvd", "root", "entered"}
  /\ pc = "aborted" => failed \/ Excused(disc, cpu64)
  /\ Regular(disc) => Wanted /\ AtSector /\ AtRecord /\ AtEnd
(* What every step keeps.                                                  *)
Common ==
  /\ disc' = disc /\ cpu64' = cpu64 /\ Shape'
  /\ pc' = "read" /\ rd'.region # "dir" => rd'.then \in {"pvd", "root", "entered"}

LEMMA SInit == ASSUME Init PROVE SInv
<1>1. disc \in Discs /\ Shape /\ pc = "ext" /\ want = "boot"
  BY DEF Init, Shape, NoRead, Region
<1> QED BY <1>1 DEF SInv, Wanted, AtSector, AtRecord, AtEnd, ReadsDir

LEMMA NotReading ==
  ASSUME Shape, UNCHANGED machine, UNCHANGED <<rd, mem>>, pc' # "read" PROVE Common
  BY DEF Shape, machine, Common

LEMMA ReadCommon ==
  ASSUME Shape, UNCHANGED machine, NEW r \in Region, NEW n, NEW lba, NEW label,
         Read(r, n, lba, label), r = "dir" \/ label \in {"pvd", "root", "entered"}
  PROVE  Common
<1>1. rd' = [region |-> r, left |-> n, lba |-> lba, to |-> 0, single |-> FALSE,
             then |-> label] /\ mem' = mem
  BY DEF Read
<1> QED BY <1>1 DEF Shape, machine, Common

LEMMA SCommon == ASSUME SInv, Next PROVE Common
<1>0. Shape
  BY DEF SInv
<1>1. CASE Int13
  <2>1. ASSUME NEW k, Transfer(k) PROVE Common
    <3>1. /\ disc' = disc /\ cpu64' = cpu64 /\ pc = "read"
      BY <2>1 DEF Transfer, machine
    <3>2. Shape' /\ rd'.region = rd.region /\ rd'.then = rd.then
      BY <2>1, <1>0, Transfers
    <3> QED BY <3>1, <3>2 DEF Common, SInv
  <2>2. CASE ReadFails
    <3>1. /\ disc' = disc /\ cpu64' = cpu64 /\ pc = "read"
      BY <2>2 DEF ReadFails, machine
    <3>2. Shape' /\ rd'.region = rd.region /\ rd'.then = rd.then
      BY <2>2, <1>0, Spoils
    <3> QED BY <3>1, <3>2 DEF Common, SInv
  <2>3. CASE ReadError
    BY <2>3, <1>0, NotReading DEF ReadError
  <2> QED BY <1>1, <2>1, <2>2, <2>3 DEF Int13
<1>2. CASE LoadSector
  BY <1>2, <1>0, ReadCommon DEF LoadSector, Region
<1>3. CASE SectorEnds
  BY <1>3, <1>0, NotReading DEF SectorEnds, NextSector, NotFound, Goto
<1>4. CASE CheckRecord
  BY <1>4, <1>0, NotReading DEF CheckRecord, NextRecord, NextSector, NotFound, Found, Abort, Goto
<1>5. CASE NoExtensions \/ A20Fails
  BY <1>5, <1>0, NotReading DEF NoExtensions, A20Fails
<1>6. CASE LoadRest
  <2>1. UNCHANGED machine
    BY <1>6 DEF LoadRest
  <2>2. CASE disc.stage1.len > SECTOR_SIZE
    <3>1. Read("stage1", Blocks(disc.stage1.len) - 1, disc.stage1.lba + 1, "pvd")
      BY <1>6, <2>2 DEF LoadRest
    <3> QED BY <3>1, <2>1, <1>0, ReadCommon DEF Region
  <2>3. CASE ~(disc.stage1.len > SECTOR_SIZE)
    BY <1>6, <2>1, <2>3, <1>0, NotReading DEF LoadRest, Goto
  <2> QED BY <2>2, <2>3
<1>7. CASE LoadPvd
  BY <1>7, <1>0, ReadCommon DEF LoadPvd, Region
<1>8. CASE Root \/ BootDir \/ Choose
  BY <1>8, <1>0, NotReading DEF Root, BootDir, Choose, Find, Abort, Goto
<1>9. CASE FallBack \/ NoBal \/ Opened
  BY <1>9, <1>0, NotReading DEF FallBack, NoBal, Opened, Find, Abort, Goto
<1>10. CASE ReadBal
  <2>1. UNCHANGED machine
    BY <1>10 DEF ReadBal
  <2>2. PICK n, lba : Read("bal", n, lba, "entered")
    BY <1>10 DEF ReadBal
  <2> QED BY <2>1, <2>2, <1>0, ReadCommon DEF Region
<1> QED BY <1>1, <1>2, <1>3, <1>4, <1>5, <1>6, <1>7, <1>8, <1>9, <1>10 DEF Next, Going

(* Steps on a disc where nothing is promised.                              *)
LEMMA SIrregular ==
  ASSUME SInv, Common, ~Regular(disc) PROVE SInv'
<1>1. disc \in Discs
  BY DEF SInv
<1>2. Excused(disc, cpu64)
  BY <1>1, OtherwiseExcused
<1> QED BY <1>1, <1>2 DEF SInv, Common

(* Steps to places where no search is under way.                           *)
LEMMA SElsewhere ==
  ASSUME SInv, Common, want' = want, boot_dir' = boot_dir,
         pc' \in {"pvd", "root", "entered", "bal", "read", "aborted"},
         pc' = "read" => rd'.region # "dir",
         pc' = "aborted" => failed' \/ Excused(disc, cpu64)
  PROVE  SInv'
<1>1. disc \in Discs
  BY DEF SInv
<1>2. Regular(disc) => Wanted'
  BY DEF SInv, Wanted, Common, ReadsDir
<1>3. AtSector' /\ AtRecord' /\ AtEnd'
  BY DEF AtSector, AtRecord, AtEnd, ReadsDir
<1> QED BY <1>1, <1>2, <1>3 DEF SInv, Common

(* A search begins.                                                        *)
LEMMA SFind ==
  ASSUME SInv, Common, NEW name, Find(name, To(disc, name)), Wanted'
  PROVE  SInv'
<1>0. CASE ~Regular(disc)
  BY <1>0, SIrregular
<1>1. CASE Regular(disc)
  <2>1. disc \in Discs /\ disc' = disc
    BY DEF SInv, Common
  <2>2. want' = name /\ dir' = To(disc, name) /\ pc' = "sector"
    BY DEF Find, Goto
  <2>3. Searchable(disc, To(disc, name))
    BY <1>1, <2>1, <2>2, DirectoryIs DEF Wanted
  <2>4. Sect' = 0
    BY <2>1, <2>2, <2>3 DEF Sect, Searchable
  <2>5. To(disc, want)' = To(disc, name)
    BY <2>1, <2>2
  <2>6. 0 * SECTOR_SIZE = 0
    BY SizesAssumption
  <2>7. Searching'
    BY <2>2, <2>3, <2>4, <2>5, <2>6 DEF Searching, Searchable
  <2>8. Searched(0)'
    <3>1. \A p \in Named(disc, To(disc, name), name) : p[1] \in Nat /\ p[2] \in Nat
      BY NamedIs, SizesAssumption
    <3>2. AllFrom(disc, To(disc, name), name, 0, 0)
      BY <3>1 DEF AllFrom
    <3> QED BY <3>2, <2>1, <2>2, <2>4, <2>5 DEF Searched
  <2>9. AtSector' /\ AtRecord' /\ AtEnd'
    BY <2>2, <2>7, <2>8 DEF AtSector, AtRecord, AtEnd, ReadsDir
  <2> QED BY <2>1, <2>2, <2>9 DEF SInv, Common
<1> QED BY <1>0, <1>1
LEMMA SRoot == ASSUME SInv, Common, Regular(disc), Root PROVE SInv'
<1>1. CASE disc.block_size # SECTOR_SIZE \/ disc.root.bad
  <2>1. Excused(disc, cpu64)
    BY <1>1 DEF Excused, HasBoot
  <2>2. pc' = "aborted" /\ want' = want /\ boot_dir' = boot_dir
    BY <1>1 DEF Root, Abort, Goto, search
  <2> QED BY <2>1, <2>2, SElsewhere
<1>2. CASE ~(disc.block_size # SECTOR_SIZE \/ disc.root.bad)
  <2>1. Find("boot", ExtentOf(disc.root))
    BY <1>2 DEF Root
  <2>2. Find("boot", To(disc, "boot"))
    BY <2>1 DEF To
  <2>3. want' = "boot" /\ pc' = "sector"
    BY <2>1 DEF Find, Goto
  <2>4. Wanted'
    BY <1>2, <2>3 DEF Wanted, Common
  <2> QED BY <2>2, <2>4, SFind
<1> QED BY <1>1, <1>2

(* What lies at di when a record was found.                                *)
LEMMA FoundIs ==
  ASSUME SInv, Regular(disc), pc \in {"record", "found"}, HasRecord(di),
         RecordAt(di).name = Upper[want]
  PROVE  /\ Has(disc, To(disc, want), want)
         /\ Lookup(disc, To(disc, want), want) = RecordAt(di)
<1> DEFINE e == To(disc, want)
           i == Sect
           o == di - Buffer
<1>1. /\ Searching /\ mem["dir"][0] = dir.lba /\ di \in Nat /\ Buffer <= di
      /\ di < Buffer + dir.len /\ Searched(o)
  BY DEF SInv, AtRecord
<1>2. Searchable(disc, e)
  BY DirectoryIs DEF SInv, Wanted
<1>3. i \in Nat /\ o \in Nat /\ AllFrom(disc, e, want, i, o)
  BY <1>1, SizesAssumption DEF Searching, Searched
<1>4. i * SECTOR_SIZE \in Nat
  BY <1>3, SizesAssumption
<1>5. i * SECTOR_SIZE + o < e.len
  BY <1>1, <1>3, <1>4, SizesAssumption DEF Searching
<1>6. e.lba + i = dir.lba
  <2>1. e.lba \in Nat
    BY <1>2 DEF Searchable
  <2>2. dir.lba - e.lba \in Nat
    BY <1>3 DEF Sect
  <2>3. dir.lba \in Int
    BY <1>1 DEF Searching
  <2> QED BY <2>1, <2>2, <2>3 DEF Sect
<1>7. InBuffer = disc.sectors[e.lba + i]
  BY <1>1, <1>6 DEF InBuffer
<1>8. o \in DOMAIN disc.sectors[e.lba + i] /\ RecordAt(di) = disc.sectors[e.lba + i][o]
  BY <1>7 DEF HasRecord, RecordAt
<1> HIDE DEF e, i, o
<1>9. Has(disc, e, want) /\ Lookup(disc, e, want) = disc.sectors[e.lba + i][o]
  BY <1>2, <1>3, <1>5, <1>8, FirstOfName
<1> QED BY <1>8, <1>9 DEF e
(* storage_init goes on if boot is there and is a directory.               *)
LEMMA SBootDir == ASSUME SInv, Common, Regular(disc), BootDir PROVE SInv'
<1>1. /\ want = "boot" /\ To(disc, want) = ExtentOf(disc.root)
      /\ disc \in Discs /\ Wanted /\ AtRecord /\ AtEnd
  BY DEF BootDir, SInv, To
<1>2. CASE pc = "absent"
  <2>1. Excused(disc, cpu64)
    BY <1>1, <1>2 DEF AtEnd, HasBoot, Excused
  <2>2. pc' = "aborted" /\ want' = want /\ boot_dir' = boot_dir
    BY <1>2 DEF BootDir, Abort, Goto, search
  <2> QED BY <2>1, <2>2, SElsewhere
<1>3. CASE pc = "found"
  <2>1. /\ Has(disc, To(disc, want), want) /\ Lookup(disc, To(disc, want), want) = RecordAt(di)
    BY <1>1, <1>3, FoundIs DEF AtRecord
  <2>2. CASE ~RecordAt(di).is_dir
    <3>1. Excused(disc, cpu64)
      BY <1>1, <2>1, <2>2 DEF HasBoot, Excused
    <3>2. pc' = "aborted" /\ want' = want /\ boot_dir' = boot_dir
      BY <1>3, <2>2 DEF BootDir, Abort, Goto, search
    <3> QED BY <3>1, <3>2, SElsewhere
  <2>3. CASE RecordAt(di).is_dir
    <3>1. boot_dir' = ExtentOf(RecordAt(di)) /\ pc' = "a20" /\ want' = want
      BY <1>3, <2>3 DEF BootDir, Goto
    <3>2. boot_dir' = BootExtent(disc)
      BY <1>1, <2>1, <3>1 DEF BootExtent
    <3>3. HasBoot(disc)
      BY <1>1, <1>3, <2>1, <2>3 DEF HasBoot, AtRecord, Wanted
    <3>4. Wanted'
      BY <1>1, <3>1, <3>2, <3>3 DEF Wanted, Common, ReadsDir
    <3>5. AtSector' /\ AtRecord' /\ AtEnd'
      BY <3>1 DEF AtSector, AtRecord, AtEnd, ReadsDir
    <3> QED BY <1>1, <3>1, <3>4, <3>5 DEF SInv, Common
  <2> QED BY <2>2, <2>3
<1> QED BY <1>2, <1>3 DEF BootDir

LEMMA SChoose == ASSUME SInv, Common, Regular(disc), Choose PROVE SInv'
<1>1. PICK name \in {"bal64", "bal32"} :
        Find(name, boot_dir) /\ name = IF cpu64 THEN "bal64" ELSE "bal32"
  BY DEF Choose
<1>2. boot_dir = To(disc, name) /\ boot_dir = BootExtent(disc) /\ HasBoot(disc)
  BY <1>1 DEF Choose, SInv, Wanted, To
<1>3. Find(name, To(disc, name)) /\ want' = name /\ boot_dir' = boot_dir
  BY <1>1, <1>2 DEF Find, Choose
<1>4. Wanted'
  BY <1>1, <1>2, <1>3 DEF Wanted, Common, HasBoot
<1> QED BY <1>3, <1>4, SFind

(* A name for which file_open returned non-zero is not that of a file.     *)
LEMMA FileAbsentIs ==
  ASSUME SInv, Regular(disc), FileAbsent, want \in {"bal64", "bal32"}
  PROVE  ~IsFile(disc, want)
<1>1. To(disc, want) = BootExtent(disc)
  BY DEF To
<1>2. CASE pc = "absent"
  BY <1>1, <1>2 DEF SInv, AtEnd, IsFile
<1>3. CASE pc = "found" /\ RecordAt(di).is_dir
  <2>1. Lookup(disc, To(disc, want), want) = RecordAt(di)
    BY <1>3, FoundIs DEF SInv, AtRecord
  <2> QED BY <1>1, <1>3, <2>1 DEF IsFile
<1> QED BY <1>2, <1>3 DEF FileAbsent

LEMMA SFallBack == ASSUME SInv, Common, Regular(disc), FallBack PROVE SInv'
<1>1. want = "bal64" /\ boot_dir = BootExtent(disc) /\ HasBoot(disc) /\ FileAbsent
  BY DEF FallBack, SInv, Wanted
<1>2. ~IsFile(disc, "bal64")
  BY <1>1, FileAbsentIs
<1>3. /\ Find("bal32", To(disc, "bal32")) /\ want' = "bal32" /\ boot_dir' = boot_dir
  BY <1>1 DEF FallBack, To, Find
<1>4. Wanted'
  BY <1>1, <1>2, <1>3 DEF Wanted, Common, HasBoot
<1> QED BY <1>3, <1>4, SFind

LEMMA SNoBal == ASSUME SInv, Common, Regular(disc), NoBal PROVE SInv'
<1>1. want = "bal32" /\ FileAbsent /\ Wanted
  BY DEF NoBal, SInv
<1>2. ~IsFile(disc, "bal32")
  BY <1>1, FileAbsentIs
<1>3. Excused(disc, cpu64)
  BY <1>1, <1>2 DEF Excused, Wanted
<1>4. pc' = "aborted" /\ want' = want /\ boot_dir' = boot_dir
  BY DEF NoBal, Abort, Goto, search
<1> QED BY <1>3, <1>4, SElsewhere

-----------------------------------------------------------------------------
(* find_directory_record goes on to the next sector, or has seen all.      *)
LEMMA SNextSector ==
  ASSUME SInv, Common, Regular(disc), pc = "record", Searching, NextSector,
         AllFrom(disc, To(disc, want), want, Sect + 1, 0)
  PROVE  SInv'
<1> DEFINE e == To(disc, want)
           a == Sect * SECTOR_SIZE
<1>1. disc \in Discs /\ disc' = disc /\ Searchable(disc, e)
  BY DirectoryIs DEF SInv, Common, Wanted
<1>2. /\ Sect \in Nat /\ dir.len \in Nat \ {0} /\ dir.lba \in Nat /\ e.len = a + dir.len
      /\ a \in Nat
  BY SizesAssumption DEF Searching
<1>3. Sect + 1 \in Nat /\ (Sect + 1) * SECTOR_SIZE = a + SECTOR_SIZE
  BY <1>2, SizesAssumption
<1>4. want' = want /\ boot_dir' = boot_dir
  BY DEF NextSector, NotFound, search
<1>6. CASE dir.len <= SECTOR_SIZE
  <2>1. pc' = "absent"
    BY <1>6 DEF NextSector, NotFound, Goto
  <2>2. e.len <= (Sect + 1) * SECTOR_SIZE + 0
    <3> HIDE DEF a, e
    <3> QED BY <1>2, <1>3, <1>6, SizesAssumption
  <2>3. ~Has(disc, e, want)
    BY <1>1, <1>3, <2>2, NoneLeft, SizesAssumption
  <2>4. Wanted' /\ AtSector' /\ AtRecord' /\ AtEnd'
    BY <1>1, <1>4, <2>1, <2>3 DEF Wanted, AtSector, AtRecord, AtEnd, ReadsDir, SInv, Common
  <2> QED BY <1>1, <2>1, <2>4 DEF SInv, Common
<1>7. CASE ~(dir.len <= SECTOR_SIZE)
  <2>1. /\ dir' = [lba |-> dir.lba + 1, len |-> dir.len - SECTOR_SIZE] /\ pc' = "sector"
    BY <1>7 DEF NextSector, Goto, Extent
  <2>2. Sect' = Sect + 1 /\ To(disc, want)' = e
    <3>1. e.lba \in Nat
      BY <1>1 DEF Searchable
    <3> QED BY <1>1, <1>2, <1>4, <2>1, <3>1 DEF Sect
  <2>3. dir'.len \in Nat \ {0} /\ e.len = (Sect + 1) * SECTOR_SIZE + dir'.len
    <3> HIDE DEF a, e
    <3> QED BY <1>2, <1>3, <1>7, <2>1, SizesAssumption
  <2>4. Searching'
    BY <1>2, <1>3, <2>1, <2>2, <2>3 DEF Searching
  <2>5. Searched(0)'
    BY <1>1, <1>4, <2>2 DEF Searched
  <2>6. Wanted' /\ AtSector' /\ AtRecord' /\ AtEnd'
    BY <1>1, <1>4, <2>1, <2>4, <2>5 DEF Wanted, AtSector, AtRecord, AtEnd, ReadsDir, SInv, Common
  <2> QED BY <1>1, <2>1, <2>6 DEF SInv, Common
<1> QED BY <1>6, <1>7
(* Where the record looked at is on the disc.                              *)
LEMMA RecordPlace ==
  ASSUME SInv, Regular(disc), pc = "record"
  PROVE  /\ disc \in Discs /\ Searchable(disc, To(disc, want)) /\ Searching
         /\ Sect \in Nat /\ di - Buffer \in Nat /\ di \in Nat /\ dir.len \in Nat
         /\ Sect * SECTOR_SIZE \in Nat /\ Sect * SECTOR_SIZE < To(disc, want).len
         /\ AllFrom(disc, To(disc, want), want, Sect, di - Buffer)
         /\ InBuffer = disc.sectors[To(disc, want).lba + Sect]
         /\ mem["dir"][0] = dir.lba
         /\ Buffer + dir.len < Half
<1> DEFINE e == To(disc, want)
<1>1. /\ Searching /\ mem["dir"][0] = dir.lba /\ di \in Nat /\ Buffer <= di
      /\ Searched(di - Buffer)
  BY DEF SInv, AtRecord
<1>2. disc \in Discs /\ Searchable(disc, e)
  BY DirectoryIs DEF SInv, Wanted
<1>3. /\ Sect \in Nat /\ di - Buffer \in Nat /\ dir.lba \in Nat /\ dir.len \in Nat \ {0}
      /\ e.len = Sect * SECTOR_SIZE + dir.len
  BY <1>1, SizesAssumption DEF Searching
<1>4. Sect * SECTOR_SIZE \in Nat
  BY <1>3, SizesAssumption
<1>5. Sect * SECTOR_SIZE < e.len /\ dir.len <= e.len
  BY <1>3, <1>4
<1>6. e.lba \in Nat /\ e.len \in Nat /\ Buffer + e.len < Half
  BY <1>2 DEF Searchable
<1>7. e.lba + Sect = dir.lba
  BY <1>3, <1>6 DEF Sect
<1>8. Buffer + dir.len < Half
  BY <1>3, <1>5, <1>6, SizesAssumption
<1> HIDE DEF e
<1>9. InBuffer = disc.sectors[e.lba + Sect]
  BY <1>1, <1>7 DEF InBuffer
<1> QED BY <1>1, <1>2, <1>3, <1>4, <1>5, <1>8, <1>9 DEF Searched, e

LEMMA SSectorEnds == ASSUME SInv, Common, Regular(disc), SectorEnds PROVE SInv'
<1>1. pc = "record" /\ ~HasRecord(di) /\ NextSector
  BY DEF SectorEnds
<1>2. \A x \in DOMAIN InBuffer : x < di - Buffer
  BY <1>1 DEF SInv, AtRecord
<1>3. AllFrom(disc, To(disc, want), want, Sect + 1, 0)
  BY <1>1, <1>2, RecordPlace, SectorDone
<1> QED BY <1>1, <1>3, RecordPlace, SNextSector

(* A record of another name.                                               *)
LEMMA SNextRecord ==
  ASSUME SInv, Common, Regular(disc), pc = "record", HasRecord(di),
         RecordAt(di).name # Upper[want], NextRecord
  PROVE  SInv'
<1> DEFINE e == To(disc, want)
           o == di - Buffer
           n == RecordAt(di).length
           next == di + n
<1>1. /\ disc \in Discs /\ Searchable(disc, e) /\ Searching /\ Sect \in Nat
      /\ o \in Nat /\ di \in Nat /\ dir.len \in Nat
      /\ Sect * SECTOR_SIZE \in Nat /\ Sect * SECTOR_SIZE < e.len
      /\ AllFrom(disc, e, want, Sect, o) /\ InBuffer = disc.sectors[e.lba + Sect]
      /\ mem["dir"][0] = dir.lba /\ Buffer + dir.len < Half
  BY RecordPlace
<1>2. o \in DOMAIN InBuffer /\ RecordAt(di) = InBuffer[o]
  BY DEF HasRecord, RecordAt
<1>3. /\ n \in Nat \ {0} /\ AllFrom(disc, e, want, Sect, o + n)
      /\ o + n \in DOMAIN InBuffer \/ \A x \in DOMAIN InBuffer : x < o + n
  <2>1. PICK s : s = InBuffer
    OBVIOUS
  <2>2. /\ s = disc.sectors[e.lba + Sect] /\ o \in DOMAIN s /\ s[o].name # Upper[want]
        /\ n = s[o].length
    BY <1>1, <1>2, <2>1
  <2> HIDE DEF e, o, n
  <2>3. /\ s[o].length \in Nat \ {0} /\ AllFrom(disc, e, want, Sect, o + s[o].length)
        /\ o + s[o].length \in DOMAIN s \/ \A x \in DOMAIN s : x < o + s[o].length
    BY <1>1, <2>2, SteppedOver
  <2> QED BY <2>1, <2>2, <2>3
<1>4. o + n = next - Buffer /\ o + n \in Nat /\ next \in Nat
  <2> HIDE DEF n
  <2> QED BY <1>1, <1>3, SizesAssumption
<1>5. (Buffer + dir.len) % Half = Buffer + dir.len
  <2>1. ASSUME NEW x \in Nat, x < Half PROVE x % Half = x
    BY <2>1, SizesAssumption
  <2>2. Buffer + dir.len \in Nat
    BY <1>1, SizesAssumption
  <2> QED BY <1>1, <2>1, <2>2
<1>6. CASE next >= Buffer + SECTOR_SIZE
  <2>1. NextSector
    BY <1>6 DEF NextRecord
  <2>2. IsSector(InBuffer)
    <3> HIDE DEF e
    <3> QED BY <1>1, SectorKnown
  <2>3. \A x \in DOMAIN InBuffer : x < o + n
    <3>1. o + n >= SECTOR_SIZE
      <4> HIDE DEF o, n, next
      <4> QED BY <1>4, <1>6, SizesAssumption
    <3>2. DOMAIN InBuffer \subseteq 0 .. SECTOR_SIZE - 1
      BY <2>2 DEF IsSector
    <3> HIDE DEF o, n
    <3> QED BY <3>1, <3>2, <1>4, SizesAssumption
  <2>4. AllFrom(disc, e, want, Sect + 1, 0)
    <3> HIDE DEF e, o, n
    <3> QED BY <1>1, <1>3, <1>4, <2>3, SectorDone
  <2> QED BY <1>1, <2>1, <2>4, SNextSector
<1>7. CASE next < Buffer + SECTOR_SIZE /\ next >= Buffer + dir.len
  <2>1. NotFound
    BY <1>1, <1>4, <1>5, <1>7, SizesAssumption DEF NextRecord
  <2>2. pc' = "absent" /\ want' = want /\ boot_dir' = boot_dir
    BY <2>1 DEF NotFound, Goto, search
  <2>3. e.len = Sect * SECTOR_SIZE + dir.len
    BY <1>1 DEF Searching
  <2>4. o + n <= SECTOR_SIZE /\ e.len <= Sect * SECTOR_SIZE + (o + n)
    <3> DEFINE a == Sect * SECTOR_SIZE
    <3>1. a \in Nat /\ e.len = a + dir.len
      BY <1>1, <2>3
    <3> HIDE DEF a, o, n, next
    <3>2. o + n <= SECTOR_SIZE /\ dir.len <= o + n
      BY <1>1, <1>4, <1>7, SizesAssumption
    <3>3. e.len <= a + (o + n)
      BY <1>1, <1>4, <3>1, <3>2
    <3> QED BY <3>2, <3>3 DEF a
  <2>5. ~Has(disc, e, want)
    <3> HIDE DEF e, o, n
    <3> QED BY <1>1, <1>3, <1>4, <2>4, NoneLeft
  <2>6. Wanted' /\ AtSector' /\ AtRecord' /\ AtEnd'
    BY <1>1, <2>2, <2>5 DEF Wanted, AtSector, AtRecord, AtEnd, ReadsDir, SInv, Common
  <2> QED BY <1>1, <2>2, <2>6 DEF SInv, Common
<1>8. CASE next < Buffer + SECTOR_SIZE /\ next < Buffer + dir.len
  <2>1. /\ di' = next /\ pc' = "record" /\ mem' = mem
        /\ want' = want /\ dir' = dir /\ boot_dir' = boot_dir
    BY <1>1, <1>4, <1>5, <1>8, SizesAssumption DEF NextRecord, Goto
  <2>2. Searching' /\ Sect' = Sect /\ InBuffer' = InBuffer /\ To(disc, want)' = e
    BY <1>1, <2>1 DEF Searching, Sect, InBuffer, Common
  <2>3. (di - Buffer)' = o + n
    BY <1>4, <2>1
  <2>4. Searched(di - Buffer)'
    <3>1. AllFrom(disc', To(disc, want)', want', Sect', (di - Buffer)')
      <4>1. disc' = disc
        BY DEF Common
      <4> HIDE DEF e, o, n
      <4> QED BY <4>1, <1>3, <2>1, <2>2, <2>3
    <3> QED BY <3>1 DEF Searched
  <2>5. HasRecord(di)' \/ \A x \in DOMAIN InBuffer' : x < (di - Buffer)'
    <3>1. HasRecord(di)' <=> (di - Buffer)' \in DOMAIN InBuffer'
      BY DEF HasRecord
    <3> HIDE DEF o, n
    <3> QED BY <3>1, <1>3, <2>2, <2>3
  <2>6. di' \in Nat /\ Buffer <= di' /\ di' < Buffer + SECTOR_SIZE /\ di' < Buffer + dir'.len
        /\ mem'["dir"][0] = dir'.lba
    <3> HIDE DEF o, n, next
    <3> QED BY <1>1, <1>4, <1>8, <2>1, SizesAssumption
  <2>7. AtRecord'
    BY <2>1, <2>2, <2>4, <2>5, <2>6 DEF AtRecord
  <2>8. Wanted' /\ AtSector' /\ AtEnd'
    BY <2>1 DEF Wanted, AtSector, AtEnd, ReadsDir, SInv, Common
  <2> QED BY <1>1, <2>1, <2>7, <2>8 DEF SInv, Common
<1>9. next \in Int /\ Buffer + SECTOR_SIZE \in Int /\ Buffer + dir.len \in Int
  BY <1>1, <1>4, SizesAssumption
<1> HIDE DEF next
<1> QED BY <1>6, <1>7, <1>8, <1>9
LEMMA SCheckRecord == ASSUME SInv, Common, Regular(disc), CheckRecord PROVE SInv'
<1>1. pc = "record" /\ HasRecord(di)
  BY DEF CheckRecord
<1>2. CASE RecordAt(di).name # Upper[want]
  BY <1>1, <1>2, SNextRecord DEF CheckRecord
<1>3. CASE RecordAt(di).name = Upper[want]
  <2>1. Has(disc, To(disc, want), want) /\ Lookup(disc, To(disc, want), want) = RecordAt(di)
    BY <1>1, <1>3, FoundIs
  <2>2. CASE RecordAt(di).bad
    <3>1. pc' = "aborted" /\ want' = want /\ boot_dir' = boot_dir
      BY <1>3, <2>2 DEF CheckRecord, Abort, Goto, search
    <3>2. Unsupported(disc, To(disc, want), want)
      BY <2>1, <2>2 DEF Unsupported
    <3>3. CASE want = "boot"
      <4>1. Excused(disc, cpu64)
        BY <2>1, <2>2, <3>3 DEF HasBoot, To, Excused
      <4> QED BY <3>1, <4>1, SElsewhere
    <3>4. CASE want # "boot"
      <4>1. To(disc, want) = BootExtent(disc) /\ Wanted
        BY <3>4 DEF To, SInv
      <4>2. Excused(disc, cpu64)
        BY <3>2, <3>4, <4>1 DEF Excused, Wanted
      <4> QED BY <3>1, <4>2, SElsewhere
    <3> QED BY <3>3, <3>4
  <2>3. CASE ~RecordAt(di).bad
    <3>1. /\ pc' = "found" /\ rd' = rd /\ mem' = mem /\ want' = want /\ dir' = dir /\ di' = di
          /\ boot_dir' = boot_dir
      BY <1>3, <2>3 DEF CheckRecord, Found, Goto, search
    <3>2. disc' = disc
      BY DEF Common
    <3>3. AtRecord'
      BY <1>1, <1>3, <2>3, <3>1, <3>2 DEF SInv, AtRecord, Searching, Searched, Sect, HasRecord,
                                    RecordAt, InBuffer
    <3>4. Wanted' /\ AtSector' /\ AtEnd'
      BY <1>1, <3>1 DEF Wanted, AtSector, AtEnd, ReadsDir, SInv, Common
    <3> QED BY <3>1, <3>3, <3>4 DEF SInv, Common
  <2> QED BY <2>2, <2>3
<1> QED BY <1>2, <1>3

-----------------------------------------------------------------------------
(* Reading a sector of the directory.                                      *)
LEMMA SLoadSector == ASSUME SInv, Common, Regular(disc), LoadSector PROVE SInv'
<1>1. /\ rd' = [region |-> "dir", left |-> 1, lba |-> dir.lba, to |-> 0, single |-> FALSE,
                then |-> "record"]
      /\ pc = "sector" /\ pc' = "read" /\ di' = Buffer /\ want' = want /\ dir' = dir
      /\ boot_dir' = boot_dir
  BY DEF LoadSector, Read
<1>2. disc' = disc
  BY DEF Common
<1>3. Searching' /\ Searched(0)'
  BY <1>1, <1>2 DEF SInv, AtSector, Searching, Searched, Sect
<1>4. AtSector'
  BY <1>1, <1>3 DEF AtSector, ReadsDir
<1>5. Wanted' /\ AtRecord' /\ AtEnd'
  BY <1>1 DEF Wanted, AtRecord, AtEnd, SInv, Common
<1> QED BY <1>1, <1>4, <1>5 DEF SInv, Common

(* A transfer of one sector completes the read.                            *)
LEMMA SectorRead ==
  ASSUME SInv, Common, Regular(disc), ReadsDir,
         NEW k \in 0 .. Request, k = 0 <=> Request = 0, Transfer(k)
  PROVE  SInv'
<1>1. /\ rd.left = 1 /\ rd.to = 0 /\ rd.lba = dir.lba /\ rd.then = "record" /\ di = Buffer
      /\ Searching /\ Searched(0) /\ Shape /\ rd.region = "dir" /\ disc \in Discs
  BY DEF SInv, AtSector, ReadsDir
<1>2. Request = 1
  BY <1>1, SizesAssumption DEF Request
<1>3. k = 1
  BY <1>2
<1>4. (rd.left - k) % Word = 0
  BY <1>1, <1>3, SizesAssumption
<1>5. /\ pc' = "record" /\ want' = want /\ dir' = dir /\ di' = di /\ boot_dir' = boot_dir
      /\ disc' = disc
  BY <1>1, <1>4 DEF Transfer, search, machine
<1>6. mem'["dir"] = Over(Blocks13(k), mem["dir"])
  BY <1>1, Transfers DEF Region
<1>7. mem'["dir"][0] = dir.lba
  <2>1. dir.lba \in Nat
    BY <1>1 DEF Searching
  <2>2. 0 \in DOMAIN Blocks13(k) /\ Blocks13(k)[0] = dir.lba
    BY <2>1, <1>1, <1>3 DEF Blocks13
  <2> QED BY <2>2, <1>6 DEF Over
<1>8. Searching' /\ Sect' = Sect /\ To(disc, want)' = To(disc, want)
  BY <1>1, <1>5 DEF Searching, Sect
<1>9. di - Buffer = 0 /\ (di - Buffer)' = 0
  BY <1>1, <1>5, SizesAssumption
<1>10. Searched(di - Buffer)'
  <2>1. AllFrom(disc', To(disc, want)', want', Sect', (di - Buffer)')
    BY <1>1, <1>5, <1>8, <1>9 DEF Searched
  <2> QED BY <2>1 DEF Searched
<1>11. HasRecord(di)' \/ \A x \in DOMAIN InBuffer' : x < (di - Buffer)'
  <2> DEFINE e == To(disc, want)
  <2>1. Searchable(disc, e)
    BY <1>1, DirectoryIs DEF SInv, Wanted
  <2>2. /\ Sect \in Nat /\ dir.lba \in Nat /\ dir.len \in Nat \ {0}
        /\ e.len = Sect * SECTOR_SIZE + dir.len /\ e.lba \in Nat
    BY <1>1, <2>1 DEF Searching, Searchable
  <2>3. Sect * SECTOR_SIZE \in Nat
    BY <2>2, SizesAssumption
  <2>4. Sect * SECTOR_SIZE < e.len
    BY <2>2, <2>3
  <2>5. e.lba + Sect = dir.lba
    BY <2>2 DEF Sect
  <2> HIDE DEF e
  <2>6. IsSector(disc.sectors[dir.lba])
    BY <2>1, <2>2, <2>4, <2>5, SectorKnown
  <2>7. InBuffer' = disc.sectors[dir.lba]
    BY <1>5, <1>7 DEF InBuffer
  <2>8. HasRecord(di)' <=> 0 \in DOMAIN InBuffer'
    BY <1>9 DEF HasRecord
  <2>9. DOMAIN InBuffer' # {} => 0 \in DOMAIN InBuffer'
    BY <2>6, <2>7 DEF IsSector
  <2> QED BY <2>8, <2>9
<1>12. di' \in Nat /\ Buffer <= di' /\ di' < Buffer + SECTOR_SIZE /\ di' < Buffer + dir'.len
  BY <1>1, <1>5, SizesAssumption DEF Searching
<1>13. AtRecord'
  BY <1>5, <1>7, <1>8, <1>10, <1>11, <1>12 DEF AtRecord
<1>14. Wanted' /\ AtSector' /\ AtEnd'
  BY <1>5 DEF Wanted, AtSector, AtEnd, ReadsDir, SInv, Common
<1> QED BY <1>1, <1>5, <1>13, <1>14 DEF SInv, Common

LEMMA SInt13 == ASSUME SInv, Common, Regular(disc), Int13 PROVE SInv'
<1>0. Shape
  BY DEF SInv
<1>1. ASSUME NEW k \in 0 .. Request, k = 0 <=> Request = 0, Transfer(k) PROVE SInv'
  <2>1. CASE rd.region = "dir"
    BY <1>1, <2>1, SectorRead DEF ReadsDir, Transfer
  <2>2. CASE rd.region # "dir"
    <3>1. /\ want' = want /\ boot_dir' = boot_dir /\ pc = "read" /\ pc' \in {rd.then, "read"}
      BY <1>1 DEF Transfer, search
    <3>2. rd'.region = rd.region
      BY <1>0, <1>1, Transfers
    <3>3. rd.then \in {"pvd", "root", "entered"}
      BY <2>2, <3>1 DEF SInv
    <3>4. pc' \in {"pvd", "root", "entered", "bal", "read", "aborted"} /\ pc' # "aborted"
      BY <3>1, <3>3
    <3> QED BY <2>2, <3>1, <3>2, <3>4, SElsewhere
  <2> QED BY <2>1, <2>2
<1>2. CASE ReadFails
  <2>1. /\ want' = want /\ boot_dir' = boot_dir /\ pc = "read" /\ pc' = "read" /\ di' = di
        /\ dir' = dir
    BY <1>2 DEF ReadFails, search
  <2>2. /\ rd'.region = rd.region /\ rd'.left = rd.left /\ rd'.lba = rd.lba
        /\ rd'.to = rd.to /\ rd'.then = rd.then
    BY <1>0, <1>2, Spoils
  <2>3. CASE rd.region # "dir"
    BY <2>1, <2>2, <2>3, SElsewhere
  <2>4. CASE rd.region = "dir"
    <3>1. disc' = disc
      BY DEF Common
    <3>2. Searching' /\ Searched(0)'
      BY <2>1, <2>4, <3>1 DEF SInv, AtSector, ReadsDir, Searching, Searched, Sect
    <3>3. AtSector'
      BY <2>1, <2>2, <2>4, <3>2 DEF SInv, AtSector, ReadsDir
    <3>4. Wanted' /\ AtRecord' /\ AtEnd'
      BY <2>1, <2>4 DEF Wanted, AtRecord, AtEnd, ReadsDir, SInv, Common
    <3> QED BY <2>1, <3>3, <3>4 DEF SInv, Common
  <2> QED BY <2>3, <2>4
<1>3. CASE ReadError
  BY <1>3, SElsewhere DEF ReadError, search
<1> QED BY <1>1, <1>2, <1>3 DEF Int13

LEMMA SStep == ASSUME SInv, [Next]_vars PROVE SInv'
<1>1. CASE UNCHANGED vars
  BY <1>1 DEF SInv, vars, Shape, Wanted, AtSector, AtRecord, AtEnd, ReadsDir, Searching,
              Searched, Sect, HasRecord, RecordAt, InBuffer
<1>2. CASE Next
  <2>1. Common
    BY <1>2, SCommon
  <2>2. CASE ~Regular(disc)
    BY <2>1, <2>2, SIrregular
  <2>3. CASE Regular(disc)
    <3>1. CASE NoExtensions \/ A20Fails
      BY <2>1, <3>1, SElsewhere DEF NoExtensions, A20Fails, search
    <3>2. CASE LoadRest
      <4>1. want' = want /\ boot_dir' = boot_dir
        BY <3>2 DEF LoadRest, search
      <4>2. CASE disc.stage1.len > SECTOR_SIZE
        <5>1. Read("stage1", Blocks(disc.stage1.len) - 1, disc.stage1.lba + 1, "pvd")
          BY <3>2, <4>2 DEF LoadRest
        <5> QED BY <2>1, <4>1, <5>1, SElsewhere DEF Read
      <4>3. CASE ~(disc.stage1.len > SECTOR_SIZE)
        <5>1. pc' = "pvd"
          BY <3>2, <4>3 DEF LoadRest, Goto
        <5> QED BY <2>1, <4>1, <5>1, SElsewhere
      <4> QED BY <4>2, <4>3
    <3>3. CASE LoadPvd
      BY <2>1, <3>3, SElsewhere DEF LoadPvd, Read, search
    <3>4. CASE Opened
      BY <2>1, <3>4, SElsewhere DEF Opened, Goto
    <3>5. CASE ReadBal
      <4>1. want' = want /\ boot_dir' = boot_dir
        BY <3>5 DEF ReadBal, search
      <4>2. PICK n, lba : Read("bal", n, lba, "entered")
        BY <3>5 DEF ReadBal
      <4> QED BY <2>1, <4>1, <4>2, SElsewhere DEF Read
    <3> QED BY <1>2, <2>1, <2>3, <3>1, <3>2, <3>3, <3>4, <3>5, SInt13, SLoadSector, SSectorEnds,
               SCheckRecord, SRoot, SBootDir, SChoose, SFallBack, SNoBal DEF Next, Going
  <2> QED BY <2>2, <2>3
<1> QED BY <1>1, <1>2

(* Boot is only given up for a reason, for every disc and every sequence   *)
(* of failing and short reads: find_directory_record misses no record of a *)
(* directory whose end it can address, finds the first of a name, and a    *)
(* read that failed once is made up for.                                   *)
THEOREM AbortsOnlyForReason == Spec => []AbortsForReason
<1>1. SInv => AbortsForReason
  BY DEF SInv, AbortsForReason, Reason, Excused
<1> QED BY <1>1, SInit, SStep, PTL DEF Spec
-----------------------------------------------------------------------------
(***************************************************************************)
(* What is entered.  Discs on which a lookup finds what there is, and      *)
(* whose files are not empty and can be rounded up in 32 bits.             *)
(***************************************************************************)
FileOf(d, name) == ExtentOf(Lookup(d, BootExtent(d), name))

Sound(d) ==
  /\ Regular(d)
  /\ \A name \in {"bal64", "bal32"} : IsFile(d, name) =>
       FileOf(d, name).len > 0 /\ FileOf(d, name).len + SECTOR_SIZE - 1 < Word

LoadsBal == pc = "read" /\ rd.region = "bal"

(* Part of the file is in memory, the rest is being read.                  *)
PartOfFile(f) ==
  /\ rd.left \in Nat \ {0} /\ rd.to \in Nat /\ rd.to + rd.left = Blocks(f.len)
  /\ rd.lba = f.lba + rd.to /\ rd.then = "entered"
  /\ DOMAIN mem["bal"] \subseteq 0 .. Blocks(f.len) - 1
  /\ \A i \in 0 .. rd.to - 1 : i \in DOMAIN mem["bal"] /\ mem["bal"][i] = f.lba + i

FileWanted == want \in {"bal64", "bal32"} /\ IsFile(disc, want)

FInv ==
  /\ SInv
  /\ offers = [b \in {32, 64} |-> Content(disc, IF b = 64 THEN "bal64" ELSE "bal32")]
  /\ pc = "bal" => FileWanted /\ RecordAt(file_dir_rec) = Lookup(disc, BootExtent(disc), want)
  /\ LoadsBal => FileWanted /\ PartOfFile(FileOf(disc, want))
  /\ pc = "read" /\ rd.then = "entered" => rd.region = "bal"
  /\ pc = "entered" => FileWanted /\ mem["bal"] = Content(disc, want)
  /\ ~LoadsBal /\ pc \notin {"entered", "aborted"} => DOMAIN mem["bal"] = {}

LEMMA FileIs ==
  ASSUME NEW d \in Discs, Sound(d), NEW name \in {"bal64", "bal32"}, IsFile(d, name)
  PROVE  /\ FileOf(d, name).lba \in Nat /\ FileOf(d, name).len \in Nat
         /\ Blocks(FileOf(d, name).len) \in Nat \ {0}
         /\ Blocks(FileOf(d, name).len) < Word
<1>1. Lookup(d, BootExtent(d), name) \in Record
  BY BootIs, LookupIs DEF IsFile
<1>2. FileOf(d, name).lba \in Nat /\ FileOf(d, name).len \in Nat
  BY <1>1 DEF FileOf, ExtentOf, Extent, Record
<1>3. FileOf(d, name).len > 0 /\ FileOf(d, name).len + SECTOR_SIZE - 1 < Word
  BY DEF Sound
<1> QED BY <1>2, <1>3, BlocksOf

LEMMA FInit == ASSUME Init PROVE FInv
<1>1. SInv
  BY SInit
<1>2. pc = "ext" /\ DOMAIN mem["bal"] = {}
  BY DEF Init, Region, Nothing
<1>3. offers = [b \in {32, 64} |-> Content(disc, IF b = 64 THEN "bal64" ELSE "bal32")]
  BY DEF Init
<1> QED BY <1>1, <1>2, <1>3 DEF FInv, LoadsBal

(* Steps that do not concern the file.                                     *)
LEMMA FIdle ==
  ASSUME FInv, SInv', UNCHANGED machine, mem'["bal"] = mem["bal"], ~LoadsBal,
         pc \notin {"entered", "aborted"}, pc' \notin {"entered", "bal"},
         pc' = "read" => rd'.region # "bal" /\ rd'.then # "entered"
  PROVE  FInv'
<1>1. offers' = offers /\ disc' = disc
  BY DEF machine
<1>2. DOMAIN mem'["bal"] = {}
  BY DEF FInv
<1> QED BY <1>1, <1>2 DEF FInv, LoadsBal

LEMMA FOpened == ASSUME FInv, SInv', Sound(disc), Opened PROVE FInv'
<1>1. /\ pc = "found" /\ want # "boot" /\ ~RecordAt(di).is_dir /\ pc' = "bal" /\ mem' = mem
      /\ file_dir_rec' = di /\ want' = want /\ UNCHANGED machine
  BY DEF Opened, Goto
<1>2. /\ SInv /\ Regular(disc) /\ Wanted /\ AtRecord
  BY DEF FInv, SInv, Sound
<1>3. To(disc, want) = BootExtent(disc)
  BY <1>1 DEF To
<1>4. /\ Has(disc, BootExtent(disc), want)
      /\ Lookup(disc, BootExtent(disc), want) = RecordAt(di)
  BY <1>1, <1>2, <1>3, FoundIs DEF AtRecord
<1>5. FileWanted
  BY <1>1, <1>2, <1>4 DEF FileWanted, Wanted, IsFile
<1>6. offers' = offers /\ disc' = disc
  BY <1>1 DEF machine
<1>7. RecordAt(file_dir_rec)' = RecordAt(di)
  BY <1>1, <1>6 DEF RecordAt, InBuffer
<1>8. DOMAIN mem'["bal"] = {}
  BY <1>1 DEF FInv, LoadsBal
<1> QED BY <1>1, <1>4, <1>5, <1>6, <1>7, <1>8 DEF FInv, FileWanted, LoadsBal

LEMMA FReadBal == ASSUME FInv, SInv', Sound(disc), ReadBal PROVE FInv'
<1> DEFINE f == FileOf(disc, want)
<1>1. /\ pc = "bal" /\ UNCHANGED machine /\ want' = want
      /\ Read("bal", Blocks(ExtentOf(RecordAt(file_dir_rec)).len),
              ExtentOf(RecordAt(file_dir_rec)).lba, "entered")
  BY DEF ReadBal, search
<1>2. /\ disc \in Discs /\ FileWanted /\ DOMAIN mem["bal"] = {}
      /\ RecordAt(file_dir_rec) = Lookup(disc, BootExtent(disc), want)
  BY <1>1 DEF FInv, SInv, LoadsBal
<1>3. Read("bal", Blocks(f.len), f.lba, "entered")
  BY <1>1, <1>2 DEF FileOf
<1>4. /\ rd' = [region |-> "bal", left |-> Blocks(f.len), lba |-> f.lba, to |-> 0,
                single |-> FALSE, then |-> "entered"]
      /\ pc' = "read" /\ mem' = mem
  BY <1>3 DEF Read
<1>5. f.lba \in Nat /\ Blocks(f.len) \in Nat \ {0}
  BY <1>2, FileIs DEF FileWanted
<1>6. offers' = offers /\ disc' = disc
  BY <1>1 DEF machine
<1>7. FileWanted' /\ FileOf(disc, want)' = f
  BY <1>1, <1>2, <1>6 DEF FileWanted
<1>8. PartOfFile(FileOf(disc, want))'
  <2> HIDE DEF f
  <2> QED BY <1>2, <1>4, <1>5, <1>7 DEF PartOfFile
<1> QED BY <1>4, <1>6, <1>7, <1>8 DEF FInv, LoadsBal

(* A transfer of k blocks of the file; the last one completes it.          *)
LEMMA FTransfers ==
  ASSUME FInv, SInv', Sound(disc), NEW k \in 0 .. Request, k = 0 <=> Request = 0, Transfer(k)
  PROVE  FInv'
<1>1. /\ pc = "read" /\ UNCHANGED machine /\ want' = want /\ Shape /\ disc \in Discs
      /\ pc' = IF (rd.left - k) % Word = 0 THEN rd.then ELSE "read"
  BY DEF Transfer, search, FInv, SInv
<1>2. offers' = offers /\ disc' = disc
  BY <1>1 DEF machine
<1>3. CASE rd.region # "bal"
  <2>1. /\ mem'["bal"] = mem["bal"] /\ rd'.region = rd.region /\ rd'.then = rd.then
    BY <1>1, <1>3, Transfers DEF Region
  <2>2. rd.then # "entered"
    BY <1>1, <1>3 DEF FInv
  <2>3. pc' # "bal"
    BY <1>1, <1>3 DEF FInv, SInv, AtSector, ReadsDir, Sound
  <2> QED BY <1>1, <1>3, <2>1, <2>2, <2>3, FIdle DEF LoadsBal
<1>4. CASE rd.region = "bal"
  <2>1. PICK f : f = FileOf(disc, want)
    OBVIOUS
  <2>2. FileWanted /\ PartOfFile(f)
    BY <1>1, <1>4, <2>1 DEF FInv, LoadsBal
  <2>3. PICK B : B = Blocks(f.len)
    OBVIOUS
  <2>4. f.lba \in Nat /\ B \in Nat \ {0} /\ B < Word
    BY <1>1, <2>1, <2>2, <2>3, FileIs DEF FileWanted
  <2>5. /\ rd.left \in Nat \ {0} /\ rd.to \in Nat /\ rd.to + rd.left = B
        /\ rd.lba = f.lba + rd.to /\ rd.then = "entered"
        /\ DOMAIN mem["bal"] \subseteq 0 .. B - 1
        /\ \A i \in 0 .. rd.to - 1 : i \in DOMAIN mem["bal"] /\ mem["bal"][i] = f.lba + i
    BY <2>2, <2>3 DEF PartOfFile
  <2>6. Request \in 1 .. rd.left
    BY <2>5, SizesAssumption DEF Request
  <2>7. k \in 1 .. rd.left
    BY <2>5, <2>6
  <2>8. (rd.left - k) % Word = rd.left - k
    BY <2>4, <2>5, <2>7, SizesAssumption
  <2>9. /\ rd'.region = "bal" /\ rd'.left = rd.left - k /\ rd'.lba = rd.lba + k
        /\ rd'.to = rd.to + k /\ rd'.then = "entered"
        /\ mem'["bal"] = Over(Blocks13(k), mem["bal"])
    BY <1>1, <1>4, <2>5, <2>8, Transfers DEF Region
  <2>10. PICK n \in Nat : n = rd.to + k
    BY <2>5, <2>7
  <2>11. n <= B
    BY <2>5, <2>7, <2>10
  <2>12. DOMAIN mem'["bal"] = (rd.to .. n - 1) \cup DOMAIN mem["bal"]
    <3>1. DOMAIN Blocks13(k) = rd.to .. rd.to + k - 1
      BY DEF Blocks13
    <3>2. DOMAIN mem'["bal"] = DOMAIN Blocks13(k) \cup DOMAIN mem["bal"]
      BY <2>9 DEF Over
    <3>3. rd.to + k - 1 = n - 1
      BY <2>5, <2>7, <2>10
    <3> QED BY ONLY <3>1, <3>2, <3>3, Zenon
  <2>13. DOMAIN mem'["bal"] \subseteq 0 .. B - 1
    BY <2>5, <2>10, <2>11, <2>12
  <2>14. ASSUME NEW i \in 0 .. n - 1
         PROVE  i \in DOMAIN mem'["bal"] /\ mem'["bal"][i] = f.lba + i
    <3>1. CASE i >= rd.to
      <4>1. i \in rd.to .. rd.to + k - 1
        BY <3>1, <2>5, <2>10
      <4>2. Blocks13(k)[i] = rd.lba + i - rd.to /\ i \in DOMAIN Blocks13(k)
        BY <4>1 DEF Blocks13
      <4>3. rd.lba + i - rd.to = f.lba + i
        BY <2>4, <2>5
      <4> QED BY <4>2, <4>3, <2>9 DEF Over
    <3>2. CASE i < rd.to
      <4>1. i \in 0 .. rd.to - 1 /\ i \notin rd.to .. rd.to + k - 1
        BY <3>2, <2>5, <2>7
      <4>2. i \in DOMAIN mem["bal"] /\ mem["bal"][i] = f.lba + i
        BY <4>1, <2>5
      <4> QED BY <4>1, <4>2, <2>9 DEF Over, Blocks13
    <3> QED BY <3>1, <3>2, <2>5
  <2>15. FileWanted' /\ FileOf(disc, want)' = f
    BY <1>1, <1>2, <2>1, <2>2 DEF FileWanted
  <2>16. CASE rd.left - k = 0
    <3>1. pc' = "entered" /\ n = B
      BY <1>1, <2>5, <2>7, <2>8, <2>10, <2>16
    <3>2. DOMAIN mem'["bal"] = 0 .. B - 1
      BY <2>13, <2>14, <3>1
    <3>3. mem'["bal"] = [i \in 0 .. B - 1 |-> f.lba + i]
      <4>1. mem'["bal"] = [i \in DOMAIN mem'["bal"] |-> mem'["bal"][i]]
        BY <2>9 DEF Over
      <4> QED BY <4>1, <3>1, <3>2, <2>14
    <3>4. Content(disc, want) = [i \in 0 .. B - 1 |-> f.lba + i]
      BY <2>1, <2>2, <2>3 DEF Content, FileWanted, FileOf
    <3>5. Content(disc, want)' = Content(disc, want)
      BY <1>1, <1>2
    <3> QED BY <1>2, <2>15, <3>1, <3>3, <3>4, <3>5 DEF FInv, LoadsBal
  <2>17. CASE rd.left - k # 0
    <3>1. pc' = "read"
      BY <1>1, <2>8, <2>17
    <3>2. /\ rd'.left \in Nat \ {0} /\ rd'.to \in Nat /\ rd'.to + rd'.left = B
          /\ rd'.lba = f.lba + rd'.to
      BY <2>4, <2>5, <2>7, <2>9, <2>17
    <3>3. PartOfFile(f)'
      BY <2>3, <2>9, <2>10, <2>13, <2>14, <3>2 DEF PartOfFile
    <3>4. PartOfFile(FileOf(disc, want))'
      BY <3>3, <2>15 DEF PartOfFile
    <3> QED BY <1>2, <2>9, <2>15, <3>1, <3>4 DEF FInv, LoadsBal
  <2> QED BY <2>16, <2>17
<1> QED BY <1>3, <1>4
(* A call that fails writes behind what was read, and no further than the  *)
(* file is long.                                                           *)
LEMMA FFails == ASSUME FInv, SInv', Sound(disc), ReadFails PROVE FInv'
<1>1. /\ pc = "read" /\ pc' = "read" /\ UNCHANGED machine /\ want' = want /\ Shape
      /\ disc \in Discs /\ ~rd.single
  BY DEF ReadFails, search, FInv, SInv
<1>2. offers' = offers /\ disc' = disc
  BY <1>1 DEF machine
<1>3. /\ rd'.region = rd.region /\ rd'.left = rd.left /\ rd'.lba = rd.lba
      /\ rd'.to = rd.to /\ rd'.then = rd.then
  BY <1>1, Spoils
<1>4. CASE rd.region # "bal"
  <2>1. mem'["bal"] = mem["bal"] /\ rd.then # "entered"
    BY <1>1, <1>4, Spoils DEF Region, FInv
  <2> QED BY <1>1, <1>3, <1>4, <2>1, FIdle DEF LoadsBal
<1>5. CASE rd.region = "bal"
  <2>1. PICK f : f = FileOf(disc, want)
    OBVIOUS
  <2>2. FileWanted /\ PartOfFile(f)
    BY <1>1, <1>5, <2>1 DEF FInv, LoadsBal
  <2>3. PICK B : B = Blocks(f.len)
    OBVIOUS
  <2>4. B \in Nat
    BY <1>1, <2>1, <2>2, <2>3, FileIs DEF FileWanted
  <2>5. /\ rd.left \in Nat \ {0} /\ rd.to \in Nat /\ rd.to + rd.left = B
        /\ rd.lba = f.lba + rd.to /\ rd.then = "entered"
        /\ DOMAIN mem["bal"] \subseteq 0 .. B - 1
        /\ \A i \in 0 .. rd.to - 1 : i \in DOMAIN mem["bal"] /\ mem["bal"][i] = f.lba + i
    BY <2>2, <2>3 DEF PartOfFile
  <2>6. Request \in 1 .. rd.left
    BY <1>1, <2>5, SizesAssumption DEF Request
  <2>7. mem'["bal"] = Over(Junk13(Request), mem["bal"])
    BY <1>1, <1>5, Spoils DEF Region
  <2>8. DOMAIN mem'["bal"] = (rd.to .. rd.to + Request - 1) \cup DOMAIN mem["bal"]
    <3>1. DOMAIN Junk13(Request) = rd.to .. rd.to + Request - 1
      BY DEF Junk13
    <3> QED BY <3>1, <2>7 DEF Over
  <2>9. DOMAIN mem'["bal"] \subseteq 0 .. B - 1
    BY <2>4, <2>5, <2>6, <2>8
  <2>10. ASSUME NEW i \in 0 .. rd.to - 1
         PROVE  i \in DOMAIN mem'["bal"] /\ mem'["bal"][i] = f.lba + i
    <3>1. i \notin rd.to .. rd.to + Request - 1
      BY <2>5, <2>6
    <3> QED BY <3>1, <2>5, <2>7 DEF Over, Junk13
  <2>11. FileWanted' /\ FileOf(disc, want)' = f
    BY <1>1, <1>2, <2>1, <2>2 DEF FileWanted
  <2>12. PartOfFile(f)'
    BY <1>3, <2>3, <2>5, <2>9, <2>10 DEF PartOfFile
  <2>13. PartOfFile(FileOf(disc, want))'
    BY <2>11, <2>12 DEF PartOfFile
  <2> QED BY <1>1, <1>2, <1>3, <1>5, <2>11, <2>13 DEF FInv, LoadsBal
<1> QED BY <1>4, <1>5

LEMMA FStep == ASSUME FInv, [Next]_vars, Sound(disc) PROVE FInv'
<1>0. SInv'
  BY SStep DEF FInv
<1>1. CASE UNCHANGED vars
  BY <1>0, <1>1 DEF FInv, vars, LoadsBal, PartOfFile, FileWanted, RecordAt, InBuffer
<1>2. CASE Int13
  <2>1. CASE ReadError
    BY <1>0, <2>1 DEF ReadError, FInv, machine, LoadsBal
  <2> QED BY <1>0, <1>2, <2>1, FTransfers, FFails DEF Int13
<1>3. CASE LoadSector
  <2>1. /\ rd' = [region |-> "dir", left |-> 1, lba |-> dir.lba, to |-> 0, single |-> FALSE,
                  then |-> "record"]
        /\ pc = "sector" /\ pc' = "read" /\ mem' = mem /\ UNCHANGED machine
    BY <1>3 DEF LoadSector, Read
  <2> QED BY <1>0, <2>1, FIdle DEF LoadsBal
<1>4. CASE SectorEnds \/ CheckRecord
  <2>1. pc = "record" /\ pc' \notin {"entered", "bal", "read"} /\ mem' = mem /\ UNCHANGED machine
    BY <1>4 DEF SectorEnds, CheckRecord, NextRecord, NextSector, NotFound, Found, Abort, Goto
  <2> QED BY <1>0, <2>1, FIdle DEF LoadsBal
<1>5. CASE NoExtensions \/ A20Fails
  <2>1. pc \in {"ext", "a20"} /\ pc' = "aborted" /\ mem' = mem /\ UNCHANGED machine
    BY <1>5 DEF NoExtensions, A20Fails
  <2> QED BY <1>0, <2>1, FIdle DEF LoadsBal
<1>6. CASE LoadRest
  <2>1. pc = "ext" /\ UNCHANGED machine
    BY <1>6 DEF LoadRest
  <2>2. CASE disc.stage1.len > SECTOR_SIZE
    <3>1. Read("stage1", Blocks(disc.stage1.len) - 1, disc.stage1.lba + 1, "pvd")
      BY <1>6, <2>2 DEF LoadRest
    <3>2. /\ rd' = [region |-> "stage1", left |-> Blocks(disc.stage1.len) - 1,
                    lba |-> disc.stage1.lba + 1, to |-> 0, single |-> FALSE, then |-> "pvd"]
          /\ pc' = "read" /\ mem' = mem
      BY <3>1 DEF Read
    <3> QED BY <1>0, <2>1, <3>2, FIdle DEF LoadsBal
  <2>3. CASE ~(disc.stage1.len > SECTOR_SIZE)
    <3>1. pc' = "pvd" /\ mem' = mem
      BY <1>6, <2>3 DEF LoadRest, Goto
    <3> QED BY <1>0, <2>1, <3>1, FIdle DEF LoadsBal
  <2> QED BY <2>2, <2>3
<1>7. CASE LoadPvd
  <2>1. /\ rd' = [region |-> "pvd", left |-> 1, lba |-> disc.pvd, to |-> 0, single |-> FALSE,
                  then |-> "root"]
        /\ pc = "pvd" /\ pc' = "read" /\ mem' = mem /\ UNCHANGED machine
    BY <1>7 DEF LoadPvd, Read
  <2> QED BY <1>0, <2>1, FIdle DEF LoadsBal
<1>8. CASE Root \/ BootDir \/ Choose
  <2>1. /\ pc \in {"root", "absent", "found", "a20"} /\ pc' \notin {"entered", "bal", "read"}
        /\ mem' = mem /\ UNCHANGED machine
    BY <1>8 DEF Root, BootDir, Choose, Find, Abort, Goto
  <2> QED BY <1>0, <2>1, FIdle DEF LoadsBal
<1>9. CASE FallBack \/ NoBal
  <2>1. /\ pc \in {"absent", "found"} /\ pc' \notin {"entered", "bal", "read"}
        /\ mem' = mem /\ UNCHANGED machine
    BY <1>9 DEF FallBack, NoBal, FileAbsent, Find, Abort, Goto
  <2> QED BY <1>0, <2>1, FIdle DEF LoadsBal
<1> QED BY <1>0, <1>1, <1>2, <1>3, <1>4, <1>5, <1>6, <1>7, <1>8, <1>9, FOpened, FReadBal DEF Next, Going

(* The file looked for last is the one BootFile calls the best.            *)
LEMMA BestIs ==
  ASSUME NEW d \in Discs, Sound(d), NEW name \in {"bal64", "bal32"}, IsFile(d, name),
         NEW c, name = "bal64" => c, name = "bal32" /\ c => ~IsFile(d, "bal64")
  PROVE  /\ Content(d, name) # NoFile
         /\ c /\ Content(d, "bal64") # NoFile <=> name = "bal64"
<1> DEFINE f == FileOf(d, name)
<1>1. Content(d, name) = [i \in 0 .. Blocks(f.len) - 1 |-> f.lba + i]
  BY DEF Content, FileOf
<1>2. Blocks(f.len) \in Nat \ {0}
  BY FileIs
<1>3. 0 \in DOMAIN Content(d, name)
  <2> HIDE DEF f
  <2> QED BY <1>1, <1>2
<1>4. 0 \notin DOMAIN NoFile
  BY DEF NoFile
<1>5. Content(d, name) # NoFile
  BY <1>3, <1>4
<1>6. CASE name = "bal64"
  BY <1>5, <1>6
<1>7. CASE name = "bal32"
  <2>1. ~c \/ Content(d, "bal64") = NoFile
    BY <1>7 DEF Content
  <2> QED BY <1>5, <1>7, <2>1
<1> QED BY <1>6, <1>7

LEMMA BootStep ==
  ASSUME FInv, FInv', Sound(disc), disc' = disc, [Next]_vars
  PROVE  [BF!Next]_(BF!vars)
<1>1. CASE UNCHANGED vars
  BY <1>1 DEF vars, BF!vars
<1>2. CASE Next
  <2>1. pc \notin {"aborted", "entered"} /\ offers' = offers /\ cpu64' = cpu64
    BY <1>2 DEF Next, Going, Int13, Transfer, ReadFails, ReadError, LoadSector, SectorEnds, CheckRecord,
                NoExtensions, LoadRest, LoadPvd, Root, BootDir, A20Fails, Choose, FallBack,
                FileAbsent, NoBal, Opened, ReadBal, machine
  <2>2. CASE pc' = "aborted"
    BY <2>1, <2>2 DEF BF!Next, BF!Abort
  <2>3. CASE pc' = "entered"
    <3>1. /\ want' \in {"bal64", "bal32"} /\ IsFile(disc, want')
          /\ mem'["bal"] = Content(disc, want')
          /\ offers = [b \in {32, 64} |-> Content(disc, IF b = 64 THEN "bal64" ELSE "bal32")]
          /\ want' = "bal64" => cpu64
          /\ want' = "bal32" /\ cpu64 => ~IsFile(disc, "bal64")
      BY <2>1, <2>3 DEF FInv, FileWanted, SInv, Sound, Wanted
    <3>2. offers[64] = Content(disc, "bal64") /\ offers[32] = Content(disc, "bal32")
      BY <3>1
    <3>3. PICK name \in {"bal64", "bal32"} : name = want'
      BY <3>1
    <3>4. /\ Content(disc, name) # NoFile
          /\ cpu64 /\ Content(disc, "bal64") # NoFile <=> name = "bal64"
      BY <3>1, <3>3, BestIs DEF FInv, SInv
    <3>5. offers[BF!Best] = Content(disc, name)
      BY <3>2, <3>3, <3>4 DEF BF!Best
    <3>6. mem'["bal"] = offers[BF!Best] /\ offers[BF!Best] # NoFile
      BY <3>1, <3>3, <3>4, <3>5
    <3> QED BY <2>1, <2>3, <3>6 DEF BF!Next, BF!Enter
  <2>4. CASE pc' \notin {"aborted", "entered"}
    BY <2>1, <2>4 DEF BF!vars
  <2> QED BY <2>2, <2>3, <2>4
<1> QED BY <1>1, <1>2

(* On every disc whose directories and files are of usual sizes, stage 1   *)
(* started from a CD enters the file it should, with all of it in memory   *)
(* and nothing else, or gives up: whichever reads fail or stop early, in   *)
(* whatever sector and behind whatever other records the file is, and if   *)
(* gd_bal.64 was looked for in vain before.                                *)
THEOREM BootsTheRightFile ==
  ASSUME \A d \in Discs : Sound(d)
  PROVE  Spec => ImplementsBootFile
<1>1. Init => BF!Init
  BY DEF Init, BF!Init, BF!NoImage
<1>2. FInv /\ [Next]_vars => FInv'
  <2> SUFFICES ASSUME FInv, [Next]_vars PROVE FInv'
    OBVIOUS
  <2>1. Sound(disc)
    BY DEF FInv, SInv
  <2> QED BY <2>1, FStep
<1>3. FInv /\ FInv' /\ [Next]_vars => [BF!Next]_(BF!vars)
  <2> SUFFICES ASSUME FInv, FInv', [Next]_vars PROVE [BF!Next]_(BF!vars)
    OBVIOUS
  <2>1. Sound(disc) /\ disc' = disc
    BY SCommon DEF FInv, SInv, Common, vars
  <2> QED BY <2>1, BootStep
<1> QED BY <1>1, <1>2, <1>3, FInit, PTL DEF Spec, ImplementsBootFile, BF!Spec
=============================================================================
