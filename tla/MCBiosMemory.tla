---------------------------- MODULE MCBiosMemory ----------------------------
(* Instances of BiosMemory for TLC: the first 16 MiB scaled to 11 pages.   *)
EXTENDS BiosMemory

Pages(n) == n * PageSize

Reported(first, n, t) ==
  [start |-> first, size |-> n, type |-> t, present |-> TRUE]

(* Base memory up to the middle of a page, a reserved range from there on, *)
(* extended memory, ACPI tables inside it, a range of an unknown type that *)
(* overlaps both, and one that is not present.                             *)
SomeRanges ==
  {Reported(0, Pages(4) + 3072, 1),
   Reported(Pages(4) + 3072, 1024, 2),
   Reported(Pages(6), Pages(5), 1),
   Reported(Pages(7), Pages(1), 3),
   Reported(Pages(3), Pages(4), 9),
   [start |-> Pages(5), size |-> Pages(1), type |-> 1, present |-> FALSE]}
=============================================================================
