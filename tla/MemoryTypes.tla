---------------------------- MODULE MemoryTypes ----------------------------
(***************************************************************************)
(* The memory types of include/gd_common.h, the two precedence tables of   *)
(* bal/mmap.c and the page arithmetic shared by the memory map             *)
(* (MemoryMap), its abstract specification (PageMap) and the BIOS memory   *)
(* detection (BiosMemory).                                                 *)
(***************************************************************************)
EXTENDS Integers, Sequences

PageSize == 4096

Aligned(x) == x % PageSize = 0

(* gd_memory_type, without the gd_ prefix.                                 *)
Type == {"reserved", "loader_code", "loader_data", "boot_services_code",
         "boot_services_data", "runtime_services_code",
         "runtime_services_data", "conventional", "unusable",
         "acpi_reclaim", "acpi_nvs", "mmio", "mmio_port_space", "pal_code"}

(* A memory map entry.  attributes and virtual_start are left out: no      *)
(* decision of the allocator reads them.                                   *)
Entry == [start : Int, size : Int, type : Type]

End(e) == e.start + e.size

Region(a, n, t) == [start |-> a, size |-> n, type |-> t]

(* An entry with n bytes more or less at its end or at its start.          *)
Grow(e, n)      == Region(e.start, e.size + n, e.type)
GrowDown(e, n)  == Region(e.start - n, e.size + n, e.type)
DropFirst(e, n) == Region(e.start + n, e.size - n, e.type)
DropLast(e, n)  == Region(e.start, e.size - n, e.type)
(* Mutant of Retype: the promotion is computed and not stored.             *)
RetypeLost(e, t) == e

Retype(e, t)    == Region(e.start, e.size, t)

Overlapping(e, f) == e.start < End(f) /\ f.start < End(e)

(* overlap_precedence as it is initialized: an overlapping region is       *)
(* promoted to the type that comes earlier.                                *)
OverlapPrecedence ==
  <<"unusable", "pal_code", "mmio_port_space", "mmio", "acpi_nvs",
    "runtime_services_code", "runtime_services_data", "acpi_reclaim",
    "loader_code", "loader_data", "boot_services_code",
    "boot_services_data", "conventional", "reserved">>

(* The table gd_free_pages installs while it re-adds a range as            *)
(* conventional memory.                                                    *)
FreeOverlapPrecedence ==
  <<"unusable", "conventional", "pal_code", "mmio_port_space", "mmio",
    "acpi_nvs", "runtime_services_code", "runtime_services_data",
    "acpi_reclaim", "loader_code", "loader_data", "boot_services_code",
    "boot_services_data", "reserved">>

Position(table, t) == CHOOSE i \in DOMAIN table : table[i] = t

Rank     == [t \in Type |-> Position(OverlapPrecedence, t)]
FreeRank == [t \in Type |-> Position(FreeOverlapPrecedence, t)]

(* higher_precedence.  freeing says which of the tables is installed; both *)
(* hold every type, so the loop's fall-through is never reached.           *)
HigherPrecedence(freeing, a, b) ==
  LET rank == IF freeing THEN FreeRank ELSE Rank
  IN IF rank[a] <= rank[b] THEN a ELSE b

=============================================================================
