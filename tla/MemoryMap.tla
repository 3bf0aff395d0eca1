----------------------------- MODULE MemoryMap -----------------------------
(***************************************************************************)
(* The memory map and page allocator of the BAL (bal/mmap.c).              *)
(*                                                                         *)
(* The map is a red-black tree of mmap_entry slots keyed by physical       *)
(* start.  Slots come from a list of freed ones, from a static array and,  *)
(* when both are used up, from a page the allocator takes out of the map   *)
(* it is describing.                                                       *)
(*                                                                         *)
(* The C statics are the fields of one record, mm, so that the functions   *)
(* that do not recurse (merge_adjacent, mmap_alloc_entry, gd_alloc_pages)  *)
(* are operators from one value of it to the next.  mmap_add_entry and     *)
(* fix_overlap call each other: todo is their call stack, the calls still  *)
(* to be made with the slot pointers they hold, first one first, and every *)
(* call is one step.  A caller can only call in while todo is empty.       *)
(***************************************************************************)
EXTENDS MemoryTypes, FiniteSets

CONSTANTS
  StaticSlots,   \* MMAP_STATIC_SLOTS
  SlotsPerPage,  \* 4096 / sizeof(mmap_entry)
  NumPages,      \* the physical address space modelled is NumPages pages
  UINTPTR_MAX    \* the last address a pointer can hold

ASSUME SlotsAssumption ==
  /\ StaticSlots \in Nat \ {0}
  /\ SlotsPerPage \in Nat \ {0, 1}
ASSUME PagesAssumption ==
  /\ NumPages \in Nat \ {0}
  /\ UINTPTR_MAX \in Nat

VARIABLES
  mm,      \* the tree, the slots and the key
  todo,    \* the calls of mmap_add_entry and fix_overlap still to be made
  freeing, \* the table of gd_free_pages is installed in overlap_precedence
  status,  \* "ok", or what stopped the map: see Fault
  before   \* the page view and key when the current call came in (history)

PageAddr == {p * PageSize : p \in 0 .. NumPages - 1}

(***************************************************************************)
(* Slots: <<base, i>> is the i-th mmap_entry of the static array or of the *)
(* page at address base.  alloc_next may point one past the last.          *)
(***************************************************************************)
Static == -1
SlotMax == IF StaticSlots > SlotsPerPage THEN StaticSlots ELSE SlotsPerPage
Slot == ({Static} \cup PageAddr) \X (0 .. SlotMax)
NoSlot == <<-2, 0>>

(* The ways in which the map stops being usable.  After "oom" and "tree"   *)
(* the machine is in panic(); after the others what happens depends on     *)
(* memory contents the model does not have.                                *)
Fault == {
  "oom",      \* panic("Out of memory")
  "tree",     \* panic("Bad memory map tree?")
  "stale",    \* merge_adjacent used a freed slot: the tree's root is lost
  "tied",     \* two nodes of the tree have the same key
  "null",     \* slots were placed at address 0, where a pointer is NULL
  "wrong",    \* slots were placed in a page another entry also describes
  "reused",   \* slots were placed in a page that holds slots already
  "clobbered" \* the caller was given the page that holds the slots
}

Map == [entry : [Slot -> Entry], tree : SUBSET Slot, freed : Seq(Slot),
        next : Slot, left : Nat, key : Nat]

(* One pending call: mmap_add_entry(e), the two calls of fix_overlap that  *)
(* a new entry needs, merge_adjacent(s), ++mmap_key, and the restoring of  *)
(* overlap_precedence at the end of gd_free_pages.                         *)
AddCall(e)     == [op |-> "add", arg |-> e, slot |-> NoSlot]
NoEntry        == Region(0, 0, "reserved")
FixCall(s)     == [op |-> "fix", arg |-> NoEntry, slot |-> s]
FixPrevCall(s) == [op |-> "fixprev", arg |-> NoEntry, slot |-> s]
MergeCall(s)   == [op |-> "merge", arg |-> NoEntry, slot |-> s]
BumpCall       == [op |-> "bump", arg |-> NoEntry, slot |-> NoSlot]
RestoreCall    == [op |-> "restore", arg |-> NoEntry, slot |-> NoSlot]

Call == [op : {"add", "fix", "fixprev", "merge", "bump", "restore"},
         arg : Entry, slot : Slot \cup {NoSlot}]

-----------------------------------------------------------------------------
(***************************************************************************)
(* The tree.  Its order is the order of the keys, which in-place changes   *)
(* of physical_start must not disturb: a state where two keys are equal is *)
(* the fault "tied".  A freed slot keeps its contents; its rbe_left is the *)
(* next slot of the free list and its other links are NULL, so RB_PREV of  *)
(* it is that slot and RB_NEXT of it is NULL.                              *)
(***************************************************************************)
Key(m, s) == m.entry[s].start

First(m, S) == CHOOSE s \in S : \A t \in S : Key(m, s) <= Key(m, t)
Last(m, S)  == CHOOSE s \in S : \A t \in S : Key(m, t) <= Key(m, s)

Above(m, s) == {t \in m.tree : Key(m, s) < Key(m, t)}
Below(m, s) == {t \in m.tree : Key(m, t) < Key(m, s)}

FreedAfter(m, s) ==
  LET I == {i \in 1 .. Len(m.freed) - 1 : m.freed[i] = s}
  IN IF I = {} THEN NoSlot ELSE m.freed[(CHOOSE i \in I : TRUE) + 1]

RB_NEXT(m, s) ==
  IF s \in m.tree /\ Above(m, s) # {} THEN First(m, Above(m, s)) ELSE NoSlot

RB_PREV(m, s) ==
  IF s \notin m.tree THEN FreedAfter(m, s)
  ELSE IF Below(m, s) # {} THEN Last(m, Below(m, s)) ELSE NoSlot

Tied(m) == \E s, t \in m.tree : s # t /\ Key(m, s) = Key(m, t)

(* Mutant of FreeEntry: the entry is neither removed nor freed.            *)
FreeEntryForgotten(m, s) == m

(* RB_REMOVE followed by mmap_free_entry.                                  *)
FreeEntry(m, s) ==
  [m EXCEPT !.tree = @ \ {s}, !.freed = <<s>> \o @]

(* The neighbour test of merge_adjacent, mmap_alloc_entry and              *)
(* gd_alloc_pages: l ends where r starts and has the wanted type.          *)
Joins(m, l, r) == End(m.entry[l]) = m.entry[r].start

PrevJoins(m, s, type) ==
  LET p == RB_PREV(m, s)
  IN p # NoSlot /\ m.entry[p].type = type /\ Joins(m, p, s)

NextJoins(m, s, type) ==
  LET n == RB_NEXT(m, s)
  IN n # NoSlot /\ m.entry[n].type = type /\ Joins(m, s, n)

(* size of r is added to l and r is dropped.                               *)
Absorb(m, l, r) ==
  FreeEntry([m EXCEPT !.entry[l] = Grow(@, m.entry[r].size), !.key = @ + 1], r)

(* merge_adjacent(middle) for a middle that is in the tree.                *)
MergeAdjacent(m, middle) ==
  LET type == m.entry[middle].type
      withPrev == PrevJoins(m, middle, type)
      one == IF withPrev THEN Absorb(m, RB_PREV(m, middle), middle) ELSE m
      mid == IF withPrev THEN RB_PREV(m, middle) ELSE middle
      next == RB_NEXT(m, middle)
  IN IF next # NoSlot /\ one.entry[next].type = type /\ Joins(one, mid, next)
     THEN Absorb(one, mid, next)
     ELSE one

(* merge_adjacent(middle) for a middle that is not in the tree: the stale  *)
(* slot behind it on the free list passes for its predecessor.             *)
MergesStale(m, middle) ==
  middle \notin m.tree /\ PrevJoins(m, middle, m.entry[middle].type)

-----------------------------------------------------------------------------
(***************************************************************************)
(* Taking n bytes of the conventional entry v for another use: the four    *)
(* cases that mmap_alloc_entry and gd_alloc_pages share.  The whole entry  *)
(* changes type; or its first bytes go to the entry before it, or its last *)
(* bytes to the entry after it, if that has the type already; or they      *)
(* become a new entry, in slot s.                                          *)
(***************************************************************************)
(* Mutant of Way: an entry of exactly the wanted size is sliced too.       *)
WayNeverWhole(m, v, n, type) ==
  IF PrevJoins(m, v, type) THEN "first"
  ELSE IF NextJoins(m, v, type) THEN "last"
  ELSE "new"

Way(m, v, n, type) ==
  IF m.entry[v].size = n THEN "whole"
  ELSE IF PrevJoins(m, v, type) THEN "first"
  ELSE IF NextJoins(m, v, type) THEN "last"
  ELSE "new"

TakenAt(m, v, n, type) ==
  IF Way(m, v, n, type) = "last" THEN End(m.entry[v]) - n ELSE Key(m, v)

TakeWhole(m, v, type) ==
  MergeAdjacent([m EXCEPT !.entry[v] = Retype(@, type)], v)

(* Mutant of TakeFirst: the entry is not made smaller.                     *)
TakeFirstKeepsEntry(m, v, n) ==
  [m EXCEPT !.entry[RB_PREV(m, v)] = Grow(@, n)]

TakeFirst(m, v, n) ==
  [m EXCEPT !.entry[RB_PREV(m, v)] = Grow(@, n),
            !.entry[v] = DropFirst(@, n)]

TakeLast(m, v, n) ==
  [m EXCEPT !.entry[RB_NEXT(m, v)] = GrowDown(@, n),
            !.entry[v] = DropLast(@, n)]

TakeNew(m, v, n, type, s) ==
  [m EXCEPT !.entry[s] = Region(Key(m, v), n, type),
            !.entry[v] = DropFirst(@, n),
            !.tree = @ \cup {s}]

(* The RB_FOREACH loops stop at the first conventional entry of at least   *)
(* min bytes, if there is one; the walk is given up at the first address   *)
(* that a pointer cannot hold.                                             *)
(* Mutant of Conventional: entries of any type are taken.                  *)
ConventionalOrNot(m, min) == {s \in m.tree : m.entry[s].size >= min}

Conventional(m, min) ==
  {s \in m.tree : m.entry[s].type = "conventional" /\ m.entry[s].size >= min}

Victim(m, min) == First(m, Conventional(m, min))

Found(m, min, n, type) ==
  /\ Conventional(m, min) # {}
  /\ Key(m, Victim(m, min)) + n <= UINTPTR_MAX
  /\ Way(m, Victim(m, min), n, type) = "last"
       => End(m.entry[Victim(m, min)]) <= UINTPTR_MAX

(***************************************************************************)
(* mmap_alloc_entry.  With no freed slot and no slot left in the pool a    *)
(* page of the map becomes the new pool; if it needs an entry of its own,  *)
(* that entry is the first slot of the page.                               *)
(***************************************************************************)
Empty(m) == m.freed = <<>> /\ m.left = 0

(* Mutant of Scavenge: the page taken stays conventional.                  *)
ScavengeFree(m) ==
  LET v    == Victim(m, 0)
      page == Key(m, v)
  IN IF m.entry[v].size = PageSize
     THEN [m EXCEPT !.next = <<page, 0>>, !.left = SlotsPerPage, !.key = @ + 1]
     ELSE [TakeNew(m, v, PageSize, "conventional", <<page, 0>>) EXCEPT
             !.next = <<page, 1>>, !.left = SlotsPerPage - 1, !.key = @ + 1]

Scavenge(m) ==
  LET v    == Victim(m, 0)
      way  == Way(m, v, PageSize, "loader_data")
      page == TakenAt(m, v, PageSize, "loader_data")
      new  == <<page, 0>>
      took == CASE way = "whole" -> TakeWhole(m, v, "loader_data")
                [] way = "first" -> TakeFirst(m, v, PageSize)
                [] way = "last"  -> TakeLast(m, v, PageSize)
                [] way = "new"   -> TakeNew(m, v, PageSize, "loader_data", new)
  IN [took EXCEPT !.next = IF way = "new" THEN <<page, 1>> ELSE new,
                  !.left = IF way = "new" THEN SlotsPerPage - 1 ELSE SlotsPerPage,
                  !.key = @ + 1]

ScavengedPage(m) == TakenAt(m, Victim(m, 0), PageSize, "loader_data")

(* With the pool used up, the slots of a page are in the tree or free.     *)
InFreed(m, s) == \E i \in DOMAIN m.freed : m.freed[i] = s
HoldsSlots(m, page) == \E s \in Slot : /\ s[1] = page
                                       /\ s \in m.tree \/ InFreed(m, s)

(* The slots of the pool that were not handed out yet.                     *)
Pool(m) == {<<m.next[1], i>> : i \in m.next[2] .. m.next[2] + m.left - 1}

(* What is wrong with the next call of mmap_alloc_entry, if anything.      *)
AllocFault(m) ==
  IF ~Empty(m) THEN "ok"
  ELSE IF ~Found(m, 0, PageSize, "loader_data") THEN "oom"
  ELSE LET page == Region(ScavengedPage(m), PageSize, "loader_data")
       IN IF page.start = 0 THEN "null"
          ELSE IF \E t \in m.tree \ {Victim(m, 0)} :
                    Overlapping(m.entry[t], page)
          THEN "wrong"
          ELSE IF HoldsSlots(m, page.start) THEN "reused"
          ELSE IF Tied(Scavenge(m)) THEN "tied"
          ELSE "ok"

AllocSlot(m) ==
  IF m.freed # <<>> THEN Head(m.freed)
  ELSE IF m.left = 0 THEN Scavenge(m).next
  ELSE m.next

(* Mutants of AllocEntry: the pool's limit is not checked; the slot taken  *)
(* from the list of freed slots stays on it.                               *)
AllocEntryUnlimited(m) ==
  IF m.freed # <<>> THEN [m EXCEPT !.freed = Tail(@)]
  ELSE [m EXCEPT !.next = <<@[1], @[2] + 1>>, !.left = @ - 1]

AllocEntryKeepsFreed(m) ==
  IF m.freed # <<>> THEN m
  ELSE LET g == IF m.left = 0 THEN Scavenge(m) ELSE m
       IN [g EXCEPT !.next = <<@[1], @[2] + 1>>, !.left = @ - 1]

AllocEntry(m) ==
  IF m.freed # <<>> THEN [m EXCEPT !.freed = Tail(@)]
  ELSE LET g == IF m.left = 0 THEN Scavenge(m) ELSE m
       IN [g EXCEPT !.next = <<@[1], @[2] + 1>>, !.left = @ - 1]

-----------------------------------------------------------------------------
(***************************************************************************)
(* The steps of mmap_add_entry and fix_overlap.  Doing(op) is the call at  *)
(* the top of the stack; Return drops it, Then(calls) replaces it.         *)
(***************************************************************************)
mapVars == <<mm, todo, freeing, status, before>>

Doing(op) == status = "ok" /\ todo # <<>> /\ Head(todo).op = op
Arg == Head(todo).arg

(* The call at the top of the stack is replaced by calls.  before is       *)
(* history: it is only kept while a call is under way.                     *)
NoView == [p \in PageAddr |-> "none"]
Then(calls) ==
  /\ todo' = calls \o Tail(todo)
  /\ before' = IF todo' = <<>> THEN NoView ELSE before

Fail(fault) == status' = fault /\ UNCHANGED <<mm, todo, freeing, before>>

(* The step succeeded with memory map m, unless m has two equal keys.      *)
Settle(m) ==
  /\ mm' = m
  /\ status' = IF Tied(mm') THEN "tied" ELSE "ok"
  /\ UNCHANGED freeing

Unusable(start) == Region(start, PageSize, "unusable")

(* mmap_add_entry of nothing.                                              *)
AddEmpty ==
  /\ Doing("add") /\ Arg.size = 0
  /\ Then(<<>>) /\ UNCHANGED <<mm, freeing, status>>

(* An unaligned start: the page it lies in is unusable, the rest is added  *)
(* from the next page on.                                                  *)
AddUnalignedStart ==
  /\ Doing("add") /\ Arg.size # 0 /\ ~Aligned(Arg.start)
  /\ LET head == Arg.start % PageSize
         page == Unusable(Arg.start - head)
         rest == DropFirst(Arg, PageSize - head)
     IN Then(IF rest.size > 0 THEN <<AddCall(page), AddCall(rest)>>
                              ELSE <<AddCall(page)>>)
  /\ UNCHANGED <<mm, freeing, status>>

(* An unaligned end, likewise.                                             *)
AddUnalignedEnd ==
  /\ Doing("add") /\ Arg.size # 0 /\ Aligned(Arg.start) /\ ~Aligned(Arg.size)
  /\ LET tail == Arg.size % PageSize
         page == Unusable(End(Arg) - tail)
         rest == DropLast(Arg, tail)
     IN Then(IF rest.size > 0 THEN <<AddCall(page), AddCall(rest)>>
                              ELSE <<AddCall(page)>>)
  /\ UNCHANGED <<mm, freeing, status>>

(* Whole pages: a slot is taken and inserted.  What follows depends on the *)
(* entry RB_INSERT found at the same address, if any.                      *)
(* Mutant of AddsPages: alignment is not checked.                          *)
AddsAnything == Doing("add") /\ Arg.size # 0

AddsPages == /\ Doing("add") /\ Arg.size # 0
             /\ Aligned(Arg.start) /\ Aligned(Arg.size)

AddNoSlot ==
  /\ AddsPages /\ AllocFault(mm) # "ok"
  /\ Fail(AllocFault(mm))

Filled(m, s, e) == [m EXCEPT !.entry[s] = e]
Inserted(m, s)  == [m EXCEPT !.tree = @ \cup {s}]
At(m, addr)     == {s \in m.tree : Key(m, s) = addr}

AddNew ==
  /\ AddsPages /\ AllocFault(mm) = "ok"
  /\ At(AllocEntry(mm), Arg.start) = {}
  /\ LET s == AllocSlot(mm)
     IN /\ Settle(Inserted(Filled(AllocEntry(mm), s, Arg), s))
        /\ Then(<<FixCall(s), FixPrevCall(s), MergeCall(s), BumpCall>>)

(* RB_INSERT returned oldent.                                              *)
AddOver(old) ==
  LET s == AllocSlot(mm)
      m == Filled(AllocEntry(mm), s, Arg)
      o == m.entry[old]
      type == HigherPrecedence(freeing, o.type, Arg.type)
  IN \/ /\ o.size = Arg.size
        /\ Settle(FreeEntry([m EXCEPT !.entry[old] = Retype(@, type)], s))
        /\ Then(<<MergeCall(old), BumpCall>>)
     \/ /\ o.size > Arg.size
        /\ Settle(Inserted([m EXCEPT !.entry[s] = Retype(@, type),
                                     !.entry[old] = DropFirst(@, Arg.size)], s))
        /\ Then(<<MergeCall(s), BumpCall>>)
     \/ /\ o.size < Arg.size /\ At(m, End(o)) # {}
        /\ Fail("tree")
     \/ /\ o.size < Arg.size /\ At(m, End(o)) = {}
        /\ Settle(Inserted([m EXCEPT !.entry[old] = Retype(@, type),
                                     !.entry[s] = DropFirst(@, o.size)], s))
        /\ Then(<<FixCall(s), MergeCall(s), BumpCall>>)

AddAtOld ==
  /\ AddsPages /\ AllocFault(mm) = "ok"
  /\ \E old \in At(AllocEntry(mm), Arg.start) : AddOver(old)

(* fix_overlap(first).  first is NULL, or has no successor, or does not    *)
(* reach it: nothing to do.  Otherwise the part the two share goes to the  *)
(* type of higher precedence.                                              *)
Reaches(m, f, x) ==
  f # NoSlot /\ x # NoSlot /\ m.entry[x].start < End(m.entry[f])

FixShared(first, second) ==
  LET f == mm.entry[first]
      x == mm.entry[second]
      type == HigherPrecedence(freeing, f.type, x.type)
      shared == End(f) - x.start
  IN \/ /\ End(f) < End(x) /\ type = f.type
        /\ Settle([mm EXCEPT !.entry[second] = DropFirst(@, shared)])
        /\ Then(<<>>)
     \/ /\ End(f) < End(x) /\ type # f.type
        /\ Settle([mm EXCEPT !.entry[first] = DropLast(@, shared)])
        /\ Then(<<>>)
     \/ /\ End(f) > End(x) /\ type = f.type
        /\ Settle(FreeEntry(mm, second))
        /\ Then(<<FixCall(first)>>)
     \/ /\ End(f) > End(x) /\ type # f.type
        /\ Settle([mm EXCEPT !.entry[first] = DropLast(@, shared)])
        /\ Then(<<AddCall(Region(End(x), End(f) - End(x), f.type))>>)
     \/ /\ End(f) = End(x)
        /\ Settle([mm EXCEPT !.entry[second] = Retype(@, type),
                             !.entry[first] = DropLast(@, shared)])
        /\ Then(<<>>)

FixOverlap(first) ==
  IF Reaches(mm, first, RB_NEXT(mm, first))
  THEN FixShared(first, RB_NEXT(mm, first))
  ELSE Settle(mm) /\ Then(<<>>)

(* Mutant of FixPrev: overlap with the entry before the new one is kept.   *)
FixPrevSkipped == Doing("fixprev") /\ Settle(mm) /\ Then(<<>>)

Fix     == Doing("fix") /\ FixOverlap(Head(todo).slot)
FixPrev == Doing("fixprev") /\ FixOverlap(RB_PREV(mm, Head(todo).slot))

(* merge_adjacent(newent), as the tail of mmap_add_entry.                  *)
Merge ==
  /\ Doing("merge")
  /\ LET s == Head(todo).slot
     IN IF MergesStale(mm, s) THEN Fail("stale")
        ELSE /\ Settle(IF s \in mm.tree THEN MergeAdjacent(mm, s) ELSE mm)
             /\ Then(<<>>)

(* Mutant of Bump: the key is not incremented.                             *)
BumpSkipped == Doing("bump") /\ Then(<<>>) /\ UNCHANGED <<mm, freeing, status>>

Bump ==
  /\ Doing("bump")
  /\ mm' = [mm EXCEPT !.key = @ + 1]
  /\ Then(<<>>) /\ UNCHANGED <<freeing, status>>

(* Mutant of Restore: the table of gd_free_pages stays installed.          *)
RestoreSkipped ==
  Doing("restore") /\ Then(<<>>) /\ UNCHANGED <<mm, freeing, status>>

(* The end of gd_free_pages.                                               *)
Restore ==
  /\ Doing("restore")
  /\ freeing' = FALSE
  /\ Then(<<>>) /\ UNCHANGED <<mm, status>>

Step == \/ AddEmpty \/ AddUnalignedStart \/ AddUnalignedEnd
        \/ AddNoSlot \/ AddNew \/ AddAtOld
        \/ Fix \/ FixPrev \/ Merge \/ Bump \/ Restore

-----------------------------------------------------------------------------
(***************************************************************************)
(* The calls other parts of the BAL make.                                  *)
(***************************************************************************)
Idle == status = "ok" /\ todo = <<>>

(* What the map says of every page.                                        *)
Covering(m, p) == {s \in m.tree : Key(m, s) <= p /\ p < End(m.entry[s])}
View(m) == [p \in PageAddr |->
              IF Covering(m, p) = {} THEN "none"
              ELSE m.entry[First(m, Covering(m, p))].type]

(* mmap_add_entry(e), called from outside.                                 *)
CallAdd(e) ==
  /\ Idle
  /\ todo' = <<AddCall(e)>> /\ before' = View(mm)
  /\ UNCHANGED <<mm, freeing, status>>

(* gd_free_pages.                                                          *)
CallFree(start, count) ==
  /\ Idle
  /\ todo' = <<AddCall(Region(start, count * PageSize, "conventional")), RestoreCall>>
  /\ freeing' = TRUE /\ before' = View(mm)
  /\ UNCHANGED <<mm, status>>

(* gd_alloc_pages for count > 0 that finds memory.  The address for the    *)
(* caller is read from the entry before mmap_alloc_entry can change it.    *)
AllocFound(type, count) == Found(mm, count * PageSize, count * PageSize, type)

AllocResult(type, count) ==
  TakenAt(mm, Victim(mm, count * PageSize), count * PageSize, type)

CallAlloc(type, count) ==
  LET n   == count * PageSize
      v   == Victim(mm, n)
      way == Way(mm, v, n, type)
      m   == CASE way = "whole" -> TakeWhole(mm, v, type)
               [] way = "first" -> TakeFirst(mm, v, n)
               [] way = "last"  -> TakeLast(mm, v, n)
               [] way = "new"   -> TakeNew(AllocEntry(mm), v, n, type, AllocSlot(mm))
      result == AllocResult(type, count)
  IN /\ Idle /\ AllocFound(type, count)
     /\ UNCHANGED <<todo, freeing>>
     /\ IF way = "new" /\ AllocFault(mm) # "ok"
        THEN /\ status' = AllocFault(mm) /\ before' = View(mm)
             /\ UNCHANGED mm
        ELSE /\ mm' = [m EXCEPT !.key = @ + 1]
             /\ status' =
                  IF /\ way = "new" /\ Empty(mm)
                     /\ result <= ScavengedPage(mm) /\ ScavengedPage(mm) < result + n
                  THEN "clobbered"
                  ELSE IF Tied(m) THEN "tied" ELSE "ok"
             /\ before' = IF status' = "ok" THEN before ELSE View(mm)

(* mmap_clean.  Only the tree and the pool are reset.                      *)
CallClean ==
  /\ Idle
  /\ mm' = [mm EXCEPT !.tree = {}, !.freed = <<>>,
                      !.next = <<Static, 0>>, !.left = StaticSlots]
  /\ UNCHANGED <<todo, freeing, status, before>>

MapInit ==
  /\ mm = [entry |-> [s \in Slot |-> NoEntry], tree |-> {}, freed |-> <<>>,
           next |-> <<Static, 0>>, left |-> StaticSlots, key |-> 0]
  /\ todo = <<>>
  /\ freeing = FALSE
  /\ status = "ok"
  /\ before = NoView

=============================================================================
