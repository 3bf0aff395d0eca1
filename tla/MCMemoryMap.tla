--------------------------- MODULE MCMemoryMap ---------------------------
(* Instances of MemoryMapClient for TLC.                                   *)
EXTENDS MemoryMapClient

Pages(n) == n * PageSize

Ranges(first, last, sizes, types) ==
  {Region(Pages(p), Pages(n), t) :
     p \in first .. last, n \in sizes, t \in types}

Within(n, E) == {e \in E : End(e) <= Pages(n)}

(* All page ranges of a five page memory, of three types, and ranges that  *)
(* start or end inside pages, that lie inside one, and an empty one.       *)
AllInputs ==
  Within(NumPages, Ranges(0, NumPages - 1, 1 .. NumPages,
                          {"conventional", "loader_data", "unusable"}))
    \cup {Region(2048, 1024, "conventional"), Region(2048, 6144, "acpi_nvs"),
          Region(4096, 6144, "conventional"), Region(2048, 8192, "conventional"),
          Region(10240, 2048, "reserved"), Region(4096, 0, "mmio")}

(* Few slots and a small memory above page 0, so that slots run out in     *)
(* the middle of mmap_add_entry and of gd_alloc_pages.                     *)
At4K(first, n, t) == Region(Pages(first), Pages(n), t)

ScavengeInputs ==
  {At4K(1, 5, "conventional"), At4K(1, 2, "conventional"),
   At4K(3, 4, "conventional"), At4K(2, 1, "unusable"),
   At4K(4, 2, "loader_data"), At4K(3, 1, "mmio"),
   At4K(5, 1, "conventional")}
=============================================================================
