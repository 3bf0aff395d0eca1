----------------------------- MODULE BiosMemory -----------------------------
(***************************************************************************)
(* How the BIOS platform fills the memory map (mmap_init in                *)
(* bal/platform/bios/mmap.c): int 0x15 function 0xE820 one range at a      *)
(* time, or, if that is missing or breaks off, the older functions; then   *)
(* the memory the loader knows to be in use.                               *)
(*                                                                         *)
(* The BIOS is external: every answer the code can receive is a            *)
(* nondeterministic choice.  Addresses are constants in the order they     *)
(* have in the code, so that an instance can scale the first 16 MiB down   *)
(* to a few pages.                                                         *)
(***************************************************************************)
EXTENDS MemoryMap

CONSTANTS
  GandrStart, GandrEnd,    \* 0x8000 and 0x30000
  ExtStart,                \* 0x100000
  IsaStart, HighStart,     \* 0xF00000 and 0x1000000
  Word, HalfWord,          \* 2^32 and 2^16
  KiB, Block,              \* 1024 and 64 * 1024
  Ranges,                  \* the ranges 0xE820 may return
  BaseSizes,               \* the sizes int 0x12 may report, in bytes
  Counts,                  \* the numbers the older functions may report
  MaxRanges                \* bound on the ranges 0xE820 returns

LowSize == PageSize        \* IVT and BDA

ASSUME LayoutAssumption ==
  /\ {GandrStart, GandrEnd, ExtStart, IsaStart, HighStart} \subseteq Nat
  /\ LowSize < GandrStart /\ GandrStart < GandrEnd /\ GandrEnd < ExtStart
  /\ ExtStart < IsaStart /\ IsaStart < HighStart
  /\ Ranges \subseteq [start : Nat, size : Nat, type : Nat, present : BOOLEAN]
  /\ BaseSizes \subseteq Nat /\ Counts \subseteq Nat /\ MaxRanges \in Nat
  /\ {Word, HalfWord, KiB, Block} \subseteq Nat \ {0}

(* Everything the firmware can report lies in the address space modelled.  *)
ASSUME SpaceAssumption ==
  /\ HighStart + Word <= NumPages * PageSize
  /\ \A r \in Ranges : r.start + r.size <= NumPages * PageSize
  /\ \A size \in BaseSizes : size <= NumPages * PageSize

VARIABLES
  pc,       \* the call mmap_init makes next
  rest,     \* the entries to pass to mmap_add_entry when the call returns
  ranges,   \* ranges received from 0xE820 (bounded by MaxRanges)
  reported  \* what the firmware said since the map was last empty (history)

biosVars == <<pc, rest, ranges, reported>>
vars == <<mm, todo, freeing, status, before, pc, rest, ranges, reported>>

(* acpi_to_gd and the bounds check of add_acpi_range.                      *)
acpi_to_gd == <<"conventional", "unusable", "acpi_reclaim", "acpi_nvs",
                "unusable", "unusable">>

(* Mutant of AcpiType: a type outside the table reads its first element.   *)
AcpiTypeFirst(t) == acpi_to_gd[IF t \in DOMAIN acpi_to_gd THEN t ELSE 1]

AcpiType(t) == IF t \in DOMAIN acpi_to_gd THEN acpi_to_gd[t] ELSE "unusable"

(* The last call of mmap_add_entry has returned.                           *)
Ready == Idle /\ rest = <<>>

(* One or two calls of mmap_add_entry in a row.                            *)
AddAll(entries) == Ready /\ CallAdd(Head(entries)) /\ rest' = Tail(entries)

AddRest ==
  /\ rest # <<>> /\ CallAdd(Head(rest)) /\ rest' = Tail(rest)
  /\ UNCHANGED <<pc, ranges, reported>>

(* What the firmware said of a range: it can be used as memory, or not.    *)
Said(e, usable) == [start |-> e.start, size |-> e.size, usable |-> usable]

Usable(entries) ==
  reported' = reported \cup {Said(entries[i], TRUE) : i \in DOMAIN entries}

(* add_acpi_range.                                                         *)
AddRange(r) ==
  IF r.present
  THEN /\ AddAll(<<Region(r.start, r.size, AcpiType(r.type))>>)
       /\ reported' = reported \cup {Said(r, r.type = 1)}
  ELSE Ready /\ UNCHANGED mapVars /\ UNCHANGED <<rest, reported>>

-----------------------------------------------------------------------------
(* try_e820: the first call.  Carry or a bad answer: not supported.        *)
E820Unsupported ==
  /\ Ready /\ pc = "e820" /\ pc' = "base"
  /\ UNCHANGED mapVars /\ UNCHANGED <<rest, ranges, reported>>

(* The continuation value of the first answer is not looked at.            *)
E820First(r) ==
  /\ pc = "e820" /\ AddRange(r)
  /\ pc' = "e820more" /\ ranges' = ranges + 1

(* The loop: carry ends the list, ...                                      *)
E820End ==
  /\ Ready /\ pc = "e820more" /\ pc' = "known"
  /\ UNCHANGED mapVars /\ UNCHANGED <<rest, ranges, reported>>

(* ... a bad answer throws everything away, ...                            *)
E820Invalid ==
  /\ Ready /\ pc = "e820more" /\ CallClean
  /\ pc' = "base" /\ reported' = {} /\ UNCHANGED <<rest, ranges>>

(* ... another range is added; more is whether ebx is not zero.            *)
E820Next(r, more) ==
  /\ pc = "e820more" /\ (more => ranges < MaxRanges) /\ AddRange(r)
  /\ pc' = IF more THEN "e820more" ELSE "known"
  /\ ranges' = ranges + 1

(* The fallback: base memory of int 0x12 and the ISA hole.                 *)
Base(size) ==
  /\ pc = "base"
  /\ AddAll(<<Region(0, size, "conventional"),
              Region(IsaStart, HighStart - IsaStart, "unusable")>>)
  /\ pc' = "e881" /\ UNCHANGED ranges
  /\ reported' = {Said(Region(0, size, "conventional"), TRUE),
                  Said(Region(IsaStart, HighStart - IsaStart, "unusable"), FALSE)}

(* Memory above 1 MiB and above 16 MiB, as two sizes in bytes.             *)
AddExtended(low, high) ==
  LET entries == <<Region(ExtStart, low, "conventional"),
                   Region(HighStart, high, "conventional")>>
  IN /\ AddAll(entries) /\ Usable(entries)
     /\ pc' = "known" /\ UNCHANGED ranges

(* The call failed: the next one is tried.                                 *)
Failed(now, next) ==
  /\ Ready /\ pc = now /\ pc' = next
  /\ UNCHANGED mapVars /\ UNCHANGED <<rest, ranges, reported>>

(* try_e8x1.  cx and dx count; ax and bx do if cx is zero.  0xE801 counts  *)
(* in 16 bits.  The products are 32 bits wide.                             *)
E8x1(now, width, ax, bx, cx, dx) ==
  LET c == cx % width
      low  == IF c # 0 THEN c ELSE ax % width
      high == IF c # 0 THEN dx % width ELSE bx % width
  IN pc = now /\ AddExtended((low * KiB) % Word, (high * Block) % Word)

E881(ax, bx, cx, dx) == E8x1("e881", Word, ax, bx, cx, dx)
E801(ax, bx, cx, dx) == E8x1("e801", HalfWord, ax, bx, cx, dx)

(* try_c7.                                                                 *)
C7(low, high) ==
  pc = "c7" /\ AddExtended((low * KiB) % Word, (high * KiB) % Word)

(* get_extended_memory: functions 0xDA88, 0x88 and 0x8A, then the CMOS; of *)
(* these 0x88 and the CMOS count in 16 bits.                               *)
Extended(n) ==
  /\ pc = "extended"
  /\ \E size \in {(n * KiB) % Word, ((n % HalfWord) * KiB) % Word} :
       LET entries == <<Region(ExtStart, size, "conventional")>>
       IN AddAll(entries) /\ Usable(entries)
  /\ pc' = "known" /\ UNCHANGED ranges

(* The end of mmap_init: low memory and the loader itself.                 *)
LowMem   == Region(0, LowSize, "unusable")
GandrMem == Region(GandrStart, GandrEnd - GandrStart, "loader_code")

(* Mutant of Known: the loader's own memory is left out.                   *)
KnownLowOnly ==
  /\ pc = "known" /\ AddAll(<<LowMem>>)
  /\ pc' = "done" /\ UNCHANGED <<ranges, reported>>

Known ==
  /\ pc = "known" /\ AddAll(<<LowMem, GandrMem>>)
  /\ pc' = "done" /\ UNCHANGED <<ranges, reported>>

Run == Step /\ UNCHANGED biosVars

Init == MapInit /\ pc = "e820" /\ rest = <<>> /\ ranges = 0 /\ reported = {}

Next ==
  \/ Run \/ AddRest
  \/ E820Unsupported \/ E820End \/ E820Invalid
  \/ \E r \in Ranges : E820First(r) \/ \E more \in BOOLEAN : E820Next(r, more)
  \/ \E size \in BaseSizes : Base(size)
  \/ Failed("e881", "e801") \/ Failed("e801", "c7") \/ Failed("c7", "extended")
  \/ \E ax, bx, cx, dx \in Counts :
       E881(ax, bx, cx, dx) \/ E801(ax, bx, cx, dx)
  \/ \E low, high \in Counts : C7(low, high)
  \/ \E n \in Counts : Extended(n)
  \/ Known

Spec == Init /\ [][Next]_vars

(* The BAL runs on one processor with nothing to preempt it: a call that   *)
(* can go on does.                                                         *)
FairSpec == Spec /\ WF_vars(Run) /\ WF_vars(AddRest)

-----------------------------------------------------------------------------
Inside(r, p)  == r.start <= p /\ p + PageSize <= End(r)
Touching(r, p) == r.start < p + PageSize /\ p < End(r) /\ r.size > 0

(* A page is only ever offered as conventional memory if all of it lies in *)
(* a range the firmware called usable and none of it in a range the        *)
(* firmware called something else, in whatever order, alignment and        *)
(* overlap the ranges came, and whatever 0xE820 had returned before it     *)
(* broke off and the map was cleaned.                                      *)
HonoursFirmware ==
  Ready => \A p \in PageAddr :
             View(mm)[p] = "conventional" =>
               /\ \E r \in reported : r.usable /\ Inside(r, p)
               /\ \A r \in reported : Touching(r, p) => r.usable

(* When mmap_init is done, the interrupt vectors are unusable and no page  *)
(* of the loader is free for gd_alloc_pages or unknown, whatever the       *)
(* firmware reported over them.                                            *)
LoaderKept ==
  Ready /\ pc = "done" =>
    /\ View(mm)[0] = "unusable"
    /\ \A p \in PageAddr : Inside(GandrMem, p)
         => View(mm)[p] \notin {"conventional", "reserved", "none"}

(* Every call of mmap_add_entry returns, whatever it finds in the map: the *)
(* mutual recursion of mmap_add_entry and fix_overlap comes to an end, or  *)
(* to a panic.                                                             *)
CallsReturn == []<>(Ready \/ status # "ok")

-----------------------------------------------------------------------------
(* What docs say, and the code does not always do.                         *)

(* The memory map of low memory gives 0x600 to 0x7FFF to stage 1, which    *)
(* stays resident for its BIOS services: when mmap_init is done none of    *)
(* it is conventional memory.                                              *)
StageOneKept ==
  Ready /\ pc = "done" =>
    \A p \in PageAddr : p < GandrStart => View(mm)[p] # "conventional"

=============================================================================
