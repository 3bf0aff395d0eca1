-------------------------- MODULE MemoryMapProofs --------------------------
(***************************************************************************)
(* Lemmas about the memory map, whoever calls it: types, whole pages, the  *)
(* accounting of mmap_entry slots, the key, overlaps, and what a call does *)
(* to every page, for any number of slots and any memory size.  The        *)
(* theorems about the map under its callers are in MemoryMapClientProofs   *)
(* and BiosMemoryProofs.                                                   *)
(***************************************************************************)
EXTENDS MemoryMap, WellFoundedInduction, SequenceTheorems, TLAPS


(* A non-empty set of naturals has a least element.                        *)
LEMMA NatMin ==
  ASSUME NEW T \in SUBSET Nat, T # {}
  PROVE  \E x \in T : \A y \in T : x <= y
<1> DEFINE R == OpToRel(<, Nat)
<1>1. \E x \in T : \A y \in T : ~(<<y, x>> \in R)
  BY WFMin, NatLessThanWellFounded
<1>2. \A x, y \in Nat : x < y => <<x, y>> \in R
  BY Zenon DEF OpToRel
<1> HIDE DEF R
<1>3. PICK x \in T : \A y \in T : ~(<<y, x>> \in R)
  BY <1>1
<1>4. \A y \in T : ~(y < x)
  BY <1>2, <1>3
<1> QED
  BY <1>4

(* The addresses of pages are the multiples of the page size in memory.    *)
LEMMA PageAddrIs ==
  \A a \in Int : a \in PageAddr <=> /\ 0 <= a /\ a < NumPages * PageSize
                                    /\ Aligned(a)
<1>1. ASSUME NEW a \in Int, 0 <= a, a < NumPages * 4096, a % 4096 = 0
      PROVE  a \in PageAddr
  <2>1. a = (a \div 4096) * 4096 /\ a \div 4096 \in 0 .. NumPages - 1
    BY <1>1, PagesAssumption
  <2> QED BY <2>1 DEF PageAddr, PageSize
<1> QED
  BY <1>1, PagesAssumption DEF PageAddr, PageSize, Aligned

-----------------------------------------------------------------------------
(***************************************************************************)
(* The inductive invariant.  Whether the page taken for slots exists       *)
(* depends on entries being whole pages inside memory; whether its slots   *)
(* are new depends on the accounting; so types, whole pages and accounting *)
(* are proved together.                                                    *)
(***************************************************************************)
Top == NumPages * PageSize

GoodEntry(e) ==
  /\ e \in Entry /\ e.start >= 0 /\ e.size > 0 /\ End(e) <= Top
  /\ Aligned(e.start) /\ Aligned(e.size)

GoodArg(e) == e \in Entry /\ e.start >= 0 /\ e.size >= 0 /\ End(e) <= Top

Unique(q) == \A i, j \in 1 .. Len(q) : q[i] = q[j] => i = j

Accounted(m) ==
  /\ \A s \in m.tree : s \notin Pool(m) /\ ~InFreed(m, s)
  /\ \A s \in Pool(m) : ~InFreed(m, s)
  /\ Unique(m.freed)

GoodMap(m) ==
  /\ m \in Map
  /\ m.next[2] + m.left <= SlotMax
  /\ \A s \in m.tree : GoodEntry(m.entry[s])
  /\ Accounted(m)

(* Slots that hold an entry, or held one.                                  *)
Used(m, s) == s \in m.tree \/ InFreed(m, s)

LEMMA SlotMaxNat == SlotMax \in Nat /\ StaticSlots <= SlotMax /\ SlotsPerPage <= SlotMax
BY SlotsAssumption DEF SlotMax

LEMMA TopNat == Top \in Nat
BY PagesAssumption DEF Top, PageSize

(* A slot of the tree is a slot, with typed contents.                      *)
LEMMA SlotEntry ==
  ASSUME NEW m \in Map, NEW s \in Slot
  PROVE  /\ m.entry[s] \in Entry
         /\ m.entry[s].start \in Int /\ m.entry[s].size \in Int
         /\ m.entry[s].type \in Type
BY DEF Map, Entry

(* What the operations on one entry do to it.                              *)
LEMMA EntryOps ==
  ASSUME NEW e \in Entry, NEW n \in Int
  PROVE  /\ Grow(e, n) \in Entry /\ Grow(e, n).start = e.start
         /\ Grow(e, n).size = e.size + n /\ Grow(e, n).type = e.type
         /\ GrowDown(e, n) \in Entry /\ GrowDown(e, n).start = e.start - n
         /\ GrowDown(e, n).size = e.size + n /\ GrowDown(e, n).type = e.type
         /\ DropFirst(e, n) \in Entry /\ DropFirst(e, n).start = e.start + n
         /\ DropFirst(e, n).size = e.size - n /\ DropFirst(e, n).type = e.type
         /\ DropLast(e, n) \in Entry /\ DropLast(e, n).start = e.start
         /\ DropLast(e, n).size = e.size - n /\ DropLast(e, n).type = e.type
BY DEF Entry, Region, Grow, GrowDown, DropFirst, DropLast

LEMMA RetypeIs ==
  ASSUME NEW e \in Entry, NEW t \in Type
  PROVE  /\ Retype(e, t) \in Entry /\ Retype(e, t).start = e.start
         /\ Retype(e, t).size = e.size /\ Retype(e, t).type = t
BY DEF Entry, Region, Retype

(* A good entry is an entry with integer bounds.                           *)
LEMMA GoodIs ==
  ASSUME NEW e, GoodEntry(e)
  PROVE  /\ e \in Entry /\ e.start \in Nat /\ e.size \in Nat /\ e.size > 0
         /\ e.type \in Type /\ End(e) = e.start + e.size /\ End(e) <= Top
         /\ Aligned(e.start) /\ Aligned(e.size)
BY DEF GoodEntry, Entry, End

LEMMA GrowGood ==
  ASSUME NEW e, GoodEntry(e), NEW n \in Nat, Aligned(n), End(e) + n <= Top
  PROVE  GoodEntry(Grow(e, n)) /\ Grow(e, n).type = e.type
<1>1. Aligned(e.size + n)
  <2>1. /\ e.start \in Nat /\ e.size \in Nat
        /\ e.start % 4096 = 0 /\ e.size % 4096 = 0 /\ n % 4096 = 0
    BY GoodIs DEF Aligned, PageSize
  <2> QED BY <2>1 DEF Aligned, PageSize
<1>2. /\ Grow(e, n) \in Entry /\ Grow(e, n).start = e.start
      /\ Grow(e, n).size = e.size + n /\ Grow(e, n).type = e.type
  BY GoodIs, EntryOps
<1>3. e.size + n > 0 /\ e.start + (e.size + n) <= Top
  BY GoodIs, TopNat
<1> QED BY <1>1, <1>2, <1>3, GoodIs DEF GoodEntry, End

LEMMA GrowDownGood ==
  ASSUME NEW e, GoodEntry(e), NEW n \in Nat, Aligned(n), n <= e.start
  PROVE  GoodEntry(GrowDown(e, n)) /\ GrowDown(e, n).type = e.type
<1>1. Aligned(e.size + n) /\ Aligned(e.start - n)
  <2>1. /\ e.start \in Nat /\ e.size \in Nat
        /\ e.start % 4096 = 0 /\ e.size % 4096 = 0 /\ n % 4096 = 0
    BY GoodIs DEF Aligned, PageSize
  <2> QED BY <2>1 DEF Aligned, PageSize
<1>2. /\ GrowDown(e, n) \in Entry /\ GrowDown(e, n).start = e.start - n
      /\ GrowDown(e, n).size = e.size + n /\ GrowDown(e, n).type = e.type
  BY GoodIs, EntryOps
<1>3. /\ e.size + n > 0 /\ e.start - n >= 0
      /\ (e.start - n) + (e.size + n) <= Top
  BY GoodIs, TopNat
<1> QED BY <1>1, <1>2, <1>3, GoodIs DEF GoodEntry, End

LEMMA DropGood ==
  ASSUME NEW e, GoodEntry(e), NEW n \in Nat, Aligned(n), n < e.size
  PROVE  /\ GoodEntry(DropFirst(e, n)) /\ DropFirst(e, n).type = e.type
         /\ GoodEntry(DropLast(e, n)) /\ DropLast(e, n).type = e.type
<1>1. Aligned(e.size - n) /\ Aligned(e.start + n)
  <2>1. /\ e.start \in Nat /\ e.size \in Nat
        /\ e.start % 4096 = 0 /\ e.size % 4096 = 0 /\ n % 4096 = 0
    BY GoodIs DEF Aligned, PageSize
  <2>2. (e.start + n) % 4096 = 0
    BY <2>1
  <2>3. (e.size - n) % 4096 = 0
    BY <2>1
  <2> QED BY <2>2, <2>3 DEF Aligned, PageSize
<1>2. /\ DropFirst(e, n) \in Entry /\ DropFirst(e, n).start = e.start + n
      /\ DropFirst(e, n).size = e.size - n /\ DropFirst(e, n).type = e.type
      /\ DropLast(e, n) \in Entry /\ DropLast(e, n).start = e.start
      /\ DropLast(e, n).size = e.size - n /\ DropLast(e, n).type = e.type
  BY GoodIs, EntryOps
<1>3. /\ e.size - n > 0 /\ e.start + n >= 0
      /\ (e.start + n) + (e.size - n) <= Top
      /\ e.start + (e.size - n) <= Top
  BY GoodIs, TopNat
<1> QED BY <1>1, <1>2, <1>3, GoodIs DEF GoodEntry, End

LEMMA RetypeGood ==
  ASSUME NEW e, GoodEntry(e), NEW t \in Type
  PROVE  GoodEntry(Retype(e, t)) /\ Retype(e, t).type = t
<1>1. /\ Retype(e, t) \in Entry /\ Retype(e, t).start = e.start
      /\ Retype(e, t).size = e.size /\ Retype(e, t).type = t
  BY GoodIs, RetypeIs
<1> QED BY <1>1 DEF GoodEntry, End

LEMMA NoSlotIsNoSlot == NoSlot \notin Slot
<1>1. \A a \in PageAddr : a # -2
  BY PagesAssumption DEF PageAddr, PageSize
<1> QED BY <1>1 DEF NoSlot, Slot, Static

(* The least and the greatest key of a non-empty part of the tree.         *)
LEMMA FirstIs ==
  ASSUME NEW m, GoodMap(m), NEW S \in SUBSET m.tree, S # {}
  PROVE  First(m, S) \in S /\ \A t \in S : Key(m, First(m, S)) <= Key(m, t)
<1> DEFINE K == {Key(m, s) : s \in S}
<1>1. \A s \in S : Key(m, s) \in Nat
  BY DEF GoodMap, GoodEntry, Key, Entry
<1>2. \E k \in K : \A y \in K : k <= y
  <2>1. K \in SUBSET Nat /\ K # {}
    BY <1>1
  <2> QED BY <2>1, NatMin
<1>3. \E s \in S : \A t \in S : Key(m, s) <= Key(m, t)
  BY <1>2
<1> QED BY <1>3 DEF First

LEMMA LastIs ==
  ASSUME NEW m, GoodMap(m), NEW S \in SUBSET m.tree, S # {}
  PROVE  Last(m, S) \in S /\ \A t \in S : Key(m, t) <= Key(m, Last(m, S))
<1> DEFINE K == {Top - Key(m, s) : s \in S}
<1>1. \A s \in S : Key(m, s) \in Int /\ Top - Key(m, s) \in Nat
  BY TopNat DEF GoodMap, GoodEntry, Key, Entry, End
<1>2. \E k \in K : \A y \in K : k <= y
  <2>1. K \in SUBSET Nat /\ K # {}
    BY <1>1
  <2> QED BY <2>1, NatMin
<1>3. \E s \in S : \A t \in S : Top - Key(m, s) <= Top - Key(m, t)
  BY <1>2
<1>4. \E s \in S : \A t \in S : Key(m, t) <= Key(m, s)
  BY <1>1, <1>3, TopNat
<1> QED BY <1>4 DEF Last

(* The neighbours of a node of the tree are nodes of the tree, on the      *)
(* right side of it.                                                       *)
LEMMA NextIs ==
  ASSUME NEW m, GoodMap(m), NEW s \in m.tree, RB_NEXT(m, s) # NoSlot
  PROVE  RB_NEXT(m, s) \in m.tree /\ Key(m, s) < Key(m, RB_NEXT(m, s))
<1>1. Above(m, s) # {} /\ RB_NEXT(m, s) = First(m, Above(m, s))
  BY DEF RB_NEXT
<1>2. First(m, Above(m, s)) \in Above(m, s)
  BY <1>1, FirstIs DEF Above
<1> QED BY <1>1, <1>2 DEF Above

LEMMA PrevIs ==
  ASSUME NEW m, GoodMap(m), NEW s \in m.tree, RB_PREV(m, s) # NoSlot
  PROVE  RB_PREV(m, s) \in m.tree /\ Key(m, RB_PREV(m, s)) < Key(m, s)
<1>1. Below(m, s) # {} /\ RB_PREV(m, s) = Last(m, Below(m, s))
  BY DEF RB_PREV
<1>2. Last(m, Below(m, s)) \in Below(m, s)
  BY <1>1, LastIs DEF Below
<1> QED BY <1>1, <1>2 DEF Below

-----------------------------------------------------------------------------
(* Putting a slot at the head of the list of freed slots.                  *)
LEMMA FreedCons ==
  ASSUME NEW q \in Seq(Slot), NEW s \in Slot
  PROVE  /\ <<s>> \o q \in Seq(Slot)
         /\ Len(<<s>> \o q) = Len(q) + 1
         /\ \A i \in 1 .. Len(q) + 1 :
              (<<s>> \o q)[i] = IF i = 1 THEN s ELSE q[i - 1]
<1>1. <<s>> \in Seq(Slot) /\ Len(<<s>>) = 1 /\ <<s>>[1] = s
  OBVIOUS
<1>2. /\ <<s>> \o q \in Seq(Slot)
      /\ Len(<<s>> \o q) = 1 + Len(q)
      /\ \A i \in 1 .. 1 + Len(q) :
           (<<s>> \o q)[i] = IF i <= 1 THEN <<s>>[i] ELSE q[i - 1]
  BY <1>1, ConcatProperties, Zenon
<1>3. Len(q) \in Nat
  BY LenProperties
<1> QED
  BY <1>1, <1>2, <1>3

(* mmap_free_entry keeps the accounts if the slot is neither free yet nor  *)
(* in the pool.                                                            *)
LEMMA FreeEntryGood ==
  ASSUME NEW m, GoodMap(m), NEW s \in Slot, s \notin Pool(m), ~InFreed(m, s)
  PROVE  /\ GoodMap(FreeEntry(m, s))
         /\ \A t : Used(FreeEntry(m, s), t) => t = s \/ Used(m, t)
<1> DEFINE f == FreeEntry(m, s)
<1>1. m \in Map /\ m.freed \in Seq(Slot) /\ Len(m.freed) \in Nat
  BY LenProperties DEF GoodMap, Map
<1>2. /\ f.entry = m.entry /\ f.tree = m.tree \ {s} /\ f.next = m.next
      /\ f.left = m.left /\ f.key = m.key /\ f.freed = <<s>> \o m.freed
  BY <1>1 DEF FreeEntry, Map
<1>3. f \in Map
  BY <1>1, FreedCons DEF FreeEntry, Map
<1>4. Pool(f) = Pool(m)
  BY <1>2 DEF Pool
<1> HIDE DEF f
<1> DEFINE n == Len(m.freed)
<1>5. /\ Len(f.freed) = n + 1 /\ DOMAIN f.freed = 1 .. n + 1
      /\ DOMAIN m.freed = 1 .. n
      /\ f.freed[1] = s /\ \A i \in 1 .. n : f.freed[i + 1] = m.freed[i]
      /\ \A i \in 2 .. n + 1 : f.freed[i] = m.freed[i - 1] /\ i - 1 \in 1 .. n
  BY <1>1, <1>2, <1>3, FreedCons, LenProperties
<1> HIDE DEF n
<1>n. n \in Nat
  BY <1>1 DEF n
<1>6. \A t : InFreed(f, t) <=> t = s \/ InFreed(m, t)
  <2>1. ASSUME NEW t, InFreed(f, t) PROVE t = s \/ InFreed(m, t)
    <3>1. PICK i \in 1 .. n + 1 : f.freed[i] = t
      BY <1>5, <2>1 DEF InFreed
    <3>2. CASE i = 1
      BY <1>5, <3>1, <3>2
    <3>3. CASE i \in 2 .. n + 1
      BY <1>5, <3>1, <3>3 DEF InFreed
    <3> QED BY <1>n, <3>2, <3>3
  <2>2. InFreed(f, s)
    BY <1>5, <1>n DEF InFreed
  <2>3. ASSUME NEW t, InFreed(m, t) PROVE InFreed(f, t)
    <3>1. PICK i \in 1 .. n : m.freed[i] = t
      BY <1>5, <2>3 DEF InFreed
    <3>2. i + 1 \in 1 .. n + 1 /\ f.freed[i + 1] = t
      BY <1>5, <1>n, <3>1
    <3> QED BY <1>5, <3>2 DEF InFreed
  <2> QED BY <2>1, <2>2, <2>3
<1>u. Unique(f.freed)
  <2>1. \A i \in 1 .. n : m.freed[i] # s
    BY <1>5 DEF InFreed
  <2>2. \A i, j \in 1 .. n : m.freed[i] = m.freed[j] => i = j
    BY DEF GoodMap, Accounted, Unique, n
  <2>3. SUFFICES ASSUME NEW i \in 1 .. n + 1, NEW j \in 1 .. n + 1,
                        f.freed[i] = f.freed[j]
                 PROVE  i = j
    BY <1>5 DEF Unique
  <2>4. CASE i = 1 \/ j = 1
    <3>1. \A k \in 2 .. n + 1 : f.freed[k] # s
      BY <1>5, <2>1
    <3>2. i = 1 => j \notin 2 .. n + 1
      BY <1>5, <2>3, <3>1
    <3>3. j = 1 => i \notin 2 .. n + 1
      BY <1>5, <2>3, <3>1
    <3> QED BY <1>n, <2>3, <2>4, <3>2, <3>3
  <2>5. CASE i \in 2 .. n + 1 /\ j \in 2 .. n + 1
    <3>1. m.freed[i - 1] = m.freed[j - 1]
      BY <1>5, <2>3, <2>5
    <3>2. i - 1 = j - 1
      BY <1>5, <2>2, <2>5, <3>1
    <3> QED BY <3>2
  <2> QED BY <1>n, <2>4, <2>5
<1>7. f.tree \subseteq Slot /\ Pool(m) \subseteq Slot
  <2>1. f.tree \subseteq Slot
    BY <1>1, <1>2 DEF Map
  <2>2. Pool(m) \subseteq Slot
    BY <1>1, SlotMaxNat DEF GoodMap, Map, Pool, Slot
  <2> QED BY <2>1, <2>2
<1>8. Accounted(f)
  BY <1>2, <1>4, <1>6, <1>u, <1>7 DEF GoodMap, Accounted
<1>9. GoodMap(f)
  BY <1>2, <1>3, <1>8 DEF GoodMap
<1>10. \A t : Used(f, t) => t = s \/ Used(m, t)
  BY <1>2, <1>6 DEF Used
<1> QED BY <1>9, <1>10 DEF f

(* The slots of the pool are slots.                                        *)
LEMMA PoolSlots == ASSUME NEW m, GoodMap(m) PROVE Pool(m) \subseteq Slot
BY SlotMaxNat DEF GoodMap, Map, Pool, Slot

(* Changing the contents of slots to good entries, and nothing else, keeps *)
(* a map good.                                                             *)
LEMMA ContentsGood ==
  ASSUME NEW m, GoodMap(m), NEW g, g \in Map,
         g.tree = m.tree, g.freed = m.freed, g.next = m.next, g.left = m.left,
         \A s \in m.tree : GoodEntry(g.entry[s])
  PROVE  GoodMap(g)
<1>1. Pool(g) = Pool(m) BY DEF Pool
<1>2. \A s : InFreed(g, s) <=> InFreed(m, s) BY DEF InFreed
<1> QED BY <1>1, <1>2 DEF GoodMap, Accounted

(* One entry takes over the next one.                                      *)
LEMMA AbsorbGood ==
  ASSUME NEW m, GoodMap(m), NEW l \in m.tree, NEW r \in m.tree, l # r,
         Joins(m, l, r)
  PROVE  /\ GoodMap(Absorb(m, l, r))
         /\ Absorb(m, l, r).tree = m.tree \ {r}
         /\ \A t \in m.tree \ {l} : Absorb(m, l, r).entry[t] = m.entry[t]
         /\ Absorb(m, l, r).entry[l].type = m.entry[l].type
         /\ Absorb(m, l, r).left = m.left /\ Absorb(m, l, r).next = m.next
         /\ \A t : Used(Absorb(m, l, r), t) => Used(m, t)
<1> DEFINE g == [m EXCEPT !.entry[l] = Grow(@, m.entry[r].size), !.key = @ + 1]
<1>1. m \in Map /\ l \in Slot /\ r \in Slot
  BY DEF GoodMap, Map
<1>2. m.entry \in [Slot -> Entry] /\ m.key \in Nat
  BY <1>1 DEF Map
<1>3. /\ g.tree = m.tree /\ g.freed = m.freed /\ g.next = m.next
      /\ g.left = m.left /\ g.key = m.key + 1
      /\ g.entry = [m.entry EXCEPT ![l] = Grow(@, m.entry[r].size)]
  BY <1>1 DEF Map
<1>4. g.entry[l] = Grow(m.entry[l], m.entry[r].size)
      /\ \A t \in Slot \ {l} : g.entry[t] = m.entry[t]
  BY <1>1, <1>2, <1>3
<1>5. GoodEntry(m.entry[l]) /\ GoodEntry(m.entry[r])
  BY DEF GoodMap
<1>6. GoodEntry(g.entry[l])
  <2>1. /\ m.entry[r].size \in Nat /\ Aligned(m.entry[r].size)
        /\ End(m.entry[l]) + m.entry[r].size <= Top
    BY <1>5 DEF GoodEntry, Entry, Joins, End
  <2> QED BY <1>4, <1>5, <2>1, GrowGood
<1>7. g \in Map
  <2>1. [m.entry EXCEPT ![l] = Grow(@, m.entry[r].size)] \in [Slot -> Entry]
    <3>1. Grow(m.entry[l], m.entry[r].size) \in Entry
      BY <1>4, <1>6 DEF GoodEntry
    <3> QED BY <1>1, <1>2, <3>1
  <2>2. g = [m EXCEPT !.entry = [m.entry EXCEPT ![l] = Grow(@, m.entry[r].size)],
                      !.key = m.key + 1]
    BY <1>1 DEF Map
  <2>3. m.key + 1 \in Nat
    BY <1>2
  <2> HIDE DEF g
  <2> QED BY <1>1, <2>1, <2>2, <2>3 DEF Map
<1>8. GoodMap(g)
  <2>1. \A s \in m.tree : GoodEntry(g.entry[s])
    BY <1>1, <1>4, <1>6 DEF GoodMap, Map
  <2> QED BY <1>3, <1>7, <2>1, ContentsGood
<1>9. r \notin Pool(g) /\ ~InFreed(g, r)
  BY <1>3, <1>8 DEF GoodMap, Accounted
<1>10. Absorb(m, l, r) = FreeEntry(g, r)
  BY DEF Absorb
<1>11. /\ GoodMap(FreeEntry(g, r))
       /\ \A t : Used(FreeEntry(g, r), t) => t = r \/ Used(g, t)
  BY <1>1, <1>8, <1>9, FreeEntryGood
<1>14. \A t : Used(g, t) => Used(m, t)
  BY <1>3 DEF Used, InFreed
<1>15. Used(m, r)
  BY DEF Used
<1>12. /\ FreeEntry(g, r).entry = g.entry /\ FreeEntry(g, r).tree = g.tree \ {r}
       /\ FreeEntry(g, r).left = g.left /\ FreeEntry(g, r).next = g.next
  BY <1>7 DEF FreeEntry, Map
<1>13. (\A t \in m.tree : t \in Slot) /\ g.entry[l].type = m.entry[l].type
  <2>1. g.entry[l].type = m.entry[l].type
    <3>1. m.entry[l] \in Entry /\ m.entry[r].size \in Int
      BY <1>5 DEF GoodEntry, Entry
    <3>2. Grow(m.entry[l], m.entry[r].size).type = m.entry[l].type
      BY <3>1, EntryOps
    <3> HIDE DEF g
    <3> QED BY <1>4, <3>2
  <2> QED BY <1>1, <2>1 DEF Map
<1> HIDE DEF g
<1> QED
  BY <1>3, <1>4, <1>10, <1>11, <1>12, <1>13, <1>14, <1>15

(* The effect of Absorb that its callers rely on: the pool is as before,   *)
(* and so are all entries of other types.                                  *)
Spares(m, g, type) ==
  /\ g.next = m.next /\ g.left = m.left
  /\ \A t : Used(g, t) => Used(m, t)
  /\ \A t \in m.tree : m.entry[t].type # type
                         => t \in g.tree /\ g.entry[t] = m.entry[t]

(* merge_adjacent keeps the map good.                                      *)
LEMMA MergeGood ==
  ASSUME NEW m, GoodMap(m), NEW s \in m.tree
  PROVE  /\ GoodMap(MergeAdjacent(m, s))
         /\ Spares(m, MergeAdjacent(m, s), m.entry[s].type)
<1> DEFINE type == m.entry[s].type
           p == RB_PREV(m, s)
           x == RB_NEXT(m, s)
           with == PrevJoins(m, s, type)
           one == IF with THEN Absorb(m, p, s) ELSE m
           mid == IF with THEN p ELSE s
           again == x # NoSlot /\ one.entry[x].type = type /\ Joins(one, mid, x)
<1>1. MergeAdjacent(m, s) = IF again THEN Absorb(one, mid, x) ELSE one
  BY DEF MergeAdjacent
<1>2. ASSUME with
      PROVE  /\ p \in m.tree /\ Key(m, p) < Key(m, s) /\ p # s
             /\ Joins(m, p, s) /\ m.entry[p].type = type
  BY <1>2, PrevIs, SlotEntry DEF PrevJoins, GoodMap, Map, Key
<1>3. ASSUME x # NoSlot
      PROVE  x \in m.tree /\ Key(m, s) < Key(m, x) /\ x # s
  BY <1>3, NextIs, SlotEntry DEF GoodMap, Map, Key
<1>4. /\ GoodMap(one) /\ mid \in one.tree /\ Spares(m, one, type)
      /\ x # NoSlot => x \in one.tree /\ x # mid
      /\ one.entry[mid].type = type
  <2>1. CASE with
    <3>1. one = Absorb(m, p, s) /\ mid = p
      BY <2>1
    <3>2. /\ GoodMap(one) /\ one.tree = m.tree \ {s}
          /\ \A t \in m.tree \ {p} : one.entry[t] = m.entry[t]
          /\ one.entry[p].type = m.entry[p].type
          /\ one.left = m.left /\ one.next = m.next
          /\ \A t : Used(one, t) => Used(m, t)
      BY <1>2, <2>1, <3>1, AbsorbGood
    <3>3. \A t \in m.tree : Key(m, t) \in Int
      BY SlotEntry DEF GoodMap, Map, Key
    <3>5. x # NoSlot => x \in one.tree /\ x # p
      BY <1>2, <1>3, <2>1, <3>2, <3>3
    <3> HIDE DEF one, p, x
    <3> QED BY <1>2, <2>1, <3>1, <3>2, <3>5 DEF Spares
  <2>2. CASE ~with
    BY <1>3, <2>2 DEF Spares
  <2> QED BY <2>1, <2>2
<1> HIDE DEF one, mid, x, p, with
<1>5. CASE again
  <2>1. /\ GoodMap(Absorb(one, mid, x))
        /\ Absorb(one, mid, x).tree = one.tree \ {x}
        /\ \A t \in one.tree \ {mid} : Absorb(one, mid, x).entry[t] = one.entry[t]
        /\ Absorb(one, mid, x).left = one.left
        /\ Absorb(one, mid, x).next = one.next
        /\ \A t : Used(Absorb(one, mid, x), t) => Used(one, t)
    <3>1. /\ GoodMap(one) /\ mid \in one.tree /\ x \in one.tree /\ mid # x
          /\ Joins(one, mid, x)
      BY <1>4, <1>5
    <3> QED BY <3>1, AbsorbGood
  <2>2. Spares(m, Absorb(one, mid, x), type)
    BY <1>4, <1>5, <2>1 DEF Spares
  <2> QED BY <1>1, <1>5, <2>1, <2>2
<1>6. CASE ~again
  BY <1>1, <1>4, <1>6
<1> QED BY <1>5, <1>6

-----------------------------------------------------------------------------
(* Replacing the contents of the slots.                                    *)
LEMMA WithEntries ==
  ASSUME NEW m, GoodMap(m), NEW h \in [Slot -> Entry],
         \A s \in m.tree : GoodEntry(h[s])
  PROVE  /\ GoodMap([m EXCEPT !.entry = h])
         /\ [m EXCEPT !.entry = h].entry = h
         /\ [m EXCEPT !.entry = h].tree = m.tree
         /\ [m EXCEPT !.entry = h].freed = m.freed
         /\ [m EXCEPT !.entry = h].next = m.next
         /\ [m EXCEPT !.entry = h].left = m.left
<1> DEFINE g == [m EXCEPT !.entry = h]
<1>1. m \in Map
  BY DEF GoodMap
<1>2. /\ g \in Map /\ g.entry = h /\ g.tree = m.tree /\ g.freed = m.freed
      /\ g.next = m.next /\ g.left = m.left
  BY <1>1 DEF Map
<1> HIDE DEF g
<1>3. GoodMap(g)
  BY <1>2, ContentsGood
<1> QED BY <1>2, <1>3 DEF g

(* An entry changes type and merges with its neighbours.                   *)
LEMMA TakeWholeGood ==
  ASSUME NEW m, GoodMap(m), NEW v \in m.tree, NEW type \in Type
  PROVE  /\ GoodMap(TakeWhole(m, v, type))
         /\ TakeWhole(m, v, type).next = m.next
         /\ TakeWhole(m, v, type).left = m.left
         /\ \A t : Used(TakeWhole(m, v, type), t) => Used(m, t)
         /\ \A t \in m.tree \ {v} :
              m.entry[t].type # type => /\ t \in TakeWhole(m, v, type).tree
                                        /\ TakeWhole(m, v, type).entry[t] = m.entry[t]
<1> DEFINE h == [m.entry EXCEPT ![v] = Retype(@, type)]
           g == [m EXCEPT !.entry = h]
<1>1. m \in Map /\ v \in Slot /\ m.entry \in [Slot -> Entry]
  BY DEF GoodMap, Map
<1>4. \A t \in m.tree : t \in Slot /\ GoodEntry(m.entry[t])
  BY <1>1 DEF GoodMap, Map
<1>3. h[v] = Retype(m.entry[v], type)
  BY <1>1
<1>5. GoodEntry(h[v]) /\ h[v].type = type
  BY <1>3, <1>4, RetypeGood
<1>2. h \in [Slot -> Entry] /\ \A t \in Slot \ {v} : h[t] = m.entry[t]
  BY <1>1, <1>3, <1>5 DEF GoodEntry
<1>6. TakeWhole(m, v, type) = MergeAdjacent(g, v)
  <2>1. [m EXCEPT !.entry[v] = Retype(@, type)] = g
    BY <1>1 DEF Map
  <2> QED BY <2>1 DEF TakeWhole
<1> HIDE DEF h
<1>7. \A t \in m.tree : GoodEntry(h[t])
  BY <1>2, <1>4, <1>5
<1>8. /\ GoodMap(g) /\ g.entry = h /\ g.tree = m.tree /\ g.freed = m.freed
      /\ g.next = m.next /\ g.left = m.left
  BY <1>2, <1>7, WithEntries
<1> HIDE DEF g
<1>9. GoodMap(MergeAdjacent(g, v)) /\ Spares(g, MergeAdjacent(g, v), type)
  BY <1>5, <1>8, MergeGood
<1>10. \A t : Used(g, t) => Used(m, t)
  BY <1>8 DEF Used, InFreed
<1> QED BY <1>2, <1>4, <1>6, <1>8, <1>9, <1>10 DEF Spares

(* The first n bytes of v go to the entry before it.                       *)
LEMMA TakeFirstGood ==
  ASSUME NEW m, GoodMap(m), NEW v \in m.tree, NEW type, PrevJoins(m, v, type),
         NEW n \in Nat, 0 < n, n < m.entry[v].size, Aligned(n)
  PROVE  /\ GoodMap(TakeFirst(m, v, n))
         /\ TakeFirst(m, v, n).tree = m.tree
         /\ TakeFirst(m, v, n).freed = m.freed
         /\ TakeFirst(m, v, n).next = m.next /\ TakeFirst(m, v, n).left = m.left
         /\ \A t \in m.tree \ {v} : m.entry[t].type # type
                                      => TakeFirst(m, v, n).entry[t] = m.entry[t]
<1> DEFINE p == RB_PREV(m, v)
           h == [m.entry EXCEPT ![p] = Grow(@, n), ![v] = DropFirst(@, n)]
<1>1. m \in Map /\ v \in Slot /\ m.entry \in [Slot -> Entry]
  BY DEF GoodMap, Map
<1>2. \A t \in m.tree : t \in Slot /\ GoodEntry(m.entry[t])
  BY <1>1 DEF GoodMap, Map
<1>3. /\ p \in m.tree /\ p # v /\ m.entry[p].type = type
      /\ Joins(m, p, v)
  <2>1. p \in m.tree /\ Key(m, p) < Key(m, v)
    BY PrevIs DEF PrevJoins
  <2> QED BY <1>1, <2>1, SlotEntry DEF PrevJoins, Key
<1>4. TakeFirst(m, v, n) = [m EXCEPT !.entry = h]
  BY <1>1 DEF TakeFirst, Map
<1> HIDE DEF p
<1>5. /\ h[p] = Grow(m.entry[p], n) /\ h[v] = DropFirst(m.entry[v], n)
      /\ \A t \in Slot \ {p, v} : h[t] = m.entry[t]
  BY <1>1, <1>2, <1>3
<1>6. GoodEntry(h[p]) /\ GoodEntry(h[v])
  <2>1. End(m.entry[p]) + n <= Top
    <3>1. End(m.entry[p]) = m.entry[v].start
      BY <1>3 DEF Joins
    <3> QED BY <1>2, <3>1, GoodIs, TopNat
  <2> QED BY <1>2, <1>3, <1>5, <2>1, GrowGood, DropGood
<1>h. h \in [Slot -> Entry]
  BY <1>1, <1>2, <1>3, <1>5, <1>6 DEF GoodEntry
<1> HIDE DEF h
<1>7. \A t \in m.tree : GoodEntry(h[t])
  BY <1>2, <1>3, <1>5, <1>6
<1> QED BY <1>2, <1>3, <1>4, <1>5, <1>h, <1>7, WithEntries

(* The last n bytes of v go to the entry after it.                         *)
LEMMA TakeLastGood ==
  ASSUME NEW m, GoodMap(m), NEW v \in m.tree, NEW type, NextJoins(m, v, type),
         NEW n \in Nat, 0 < n, n < m.entry[v].size, Aligned(n)
  PROVE  /\ GoodMap(TakeLast(m, v, n))
         /\ TakeLast(m, v, n).tree = m.tree
         /\ TakeLast(m, v, n).freed = m.freed
         /\ TakeLast(m, v, n).next = m.next /\ TakeLast(m, v, n).left = m.left
         /\ \A t \in m.tree \ {v} : m.entry[t].type # type
                                      => TakeLast(m, v, n).entry[t] = m.entry[t]
         /\ TakeLast(m, v, n).entry[v] = DropLast(m.entry[v], n)
         /\ \E t \in m.tree \ {v} :
              TakeLast(m, v, n).entry[t].start = End(m.entry[v]) - n
<1> DEFINE x == RB_NEXT(m, v)
           h == [m.entry EXCEPT ![x] = GrowDown(@, n), ![v] = DropLast(@, n)]
<1>1. m \in Map /\ v \in Slot /\ m.entry \in [Slot -> Entry]
  BY DEF GoodMap, Map
<1>2. \A t \in m.tree : t \in Slot /\ GoodEntry(m.entry[t])
  BY <1>1 DEF GoodMap, Map
<1>3. /\ x \in m.tree /\ x # v /\ m.entry[x].type = type
      /\ Joins(m, v, x)
  <2>1. x \in m.tree /\ Key(m, v) < Key(m, x)
    BY NextIs DEF NextJoins
  <2> QED BY <1>1, <2>1, SlotEntry DEF NextJoins, Key
<1>4. TakeLast(m, v, n) = [m EXCEPT !.entry = h]
  BY <1>1 DEF TakeLast, Map
<1> HIDE DEF x
<1>5. /\ h[x] = GrowDown(m.entry[x], n) /\ h[v] = DropLast(m.entry[v], n)
      /\ \A t \in Slot \ {x, v} : h[t] = m.entry[t]
  BY <1>1, <1>2, <1>3
<1>6. GoodEntry(h[x]) /\ GoodEntry(h[v])
  <2>1. n <= m.entry[x].start
    <3>1. End(m.entry[v]) = m.entry[x].start
      BY <1>3 DEF Joins
    <3> QED BY <1>2, <3>1, GoodIs
  <2> QED BY <1>2, <1>3, <1>5, <2>1, GrowDownGood, DropGood
<1>h. h \in [Slot -> Entry]
  BY <1>1, <1>2, <1>3, <1>5, <1>6 DEF GoodEntry
<1> HIDE DEF h
<1>7. \A t \in m.tree : GoodEntry(h[t])
  BY <1>2, <1>3, <1>5, <1>6
<1>8. h[x].start = End(m.entry[v]) - n
  <2>1. GrowDown(m.entry[x], n).start = m.entry[x].start - n
    <3>1. m.entry[x] \in Entry /\ n \in Int
      BY <1>1, <1>2, <1>3
    <3> QED BY <3>1, EntryOps
  <2> QED BY <1>3, <1>5, <2>1 DEF Joins
<1> QED BY <1>2, <1>3, <1>4, <1>5, <1>h, <1>7, <1>8, WithEntries

-----------------------------------------------------------------------------
(* A slot that is in use is a slot.                                        *)
LEMMA UsedIsSlot ==
  ASSUME NEW m, GoodMap(m), NEW s, Used(m, s) PROVE s \in Slot
<1>1. m.tree \subseteq Slot /\ m.freed \in Seq(Slot)
  BY DEF GoodMap, Map
<1>2. \A i \in DOMAIN m.freed : m.freed[i] \in Slot
  BY <1>1, ElementOfSeq, LenProperties
<1> QED BY <1>1, <1>2 DEF Used, InFreed

(* A slot that is not accounted for yet enters the tree.                   *)
Enter(m, h, s) == [m EXCEPT !.entry = h, !.tree = m.tree \cup {s}]

LEMMA InsertGood ==
  ASSUME NEW m, GoodMap(m), NEW s \in Slot, s \notin Pool(m), ~InFreed(m, s),
         NEW h \in [Slot -> Entry],
         \A t \in m.tree \cup {s} : GoodEntry(h[t])
  PROVE  /\ GoodMap(Enter(m, h, s)) /\ Enter(m, h, s).entry = h
         /\ Enter(m, h, s).tree = m.tree \cup {s}
         /\ Enter(m, h, s).freed = m.freed
         /\ Enter(m, h, s).next = m.next /\ Enter(m, h, s).left = m.left
<1> DEFINE g == Enter(m, h, s)
<1>1. m \in Map
  BY DEF GoodMap
<1>2. m.tree \cup {s} \in SUBSET Slot
  BY <1>1 DEF Map
<1>3. /\ g \in Map /\ g.entry = h /\ g.tree = m.tree \cup {s}
      /\ g.freed = m.freed /\ g.next = m.next /\ g.left = m.left
  BY <1>1, <1>2 DEF Map, Enter
<1> HIDE DEF g
<1>4. Pool(g) = Pool(m) /\ \A t : InFreed(g, t) <=> InFreed(m, t)
  BY <1>3 DEF Pool, InFreed
<1>5. Accounted(g)
  BY <1>3, <1>4 DEF Accounted, GoodMap
<1>6. GoodMap(g)
  BY <1>3, <1>5 DEF GoodMap
<1> QED BY <1>3, <1>6 DEF g

(* The first n bytes of v become an entry of their own.                    *)
LEMMA TakeNewGood ==
  ASSUME NEW m, GoodMap(m), NEW v \in m.tree, NEW type \in Type,
         NEW n \in Nat, 0 < n, n < m.entry[v].size, Aligned(n),
         NEW s \in Slot, s \notin Pool(m), ~Used(m, s)
  PROVE  /\ GoodMap(TakeNew(m, v, n, type, s))
         /\ TakeNew(m, v, n, type, s).tree = m.tree \cup {s}
         /\ TakeNew(m, v, n, type, s).freed = m.freed
         /\ TakeNew(m, v, n, type, s).next = m.next
         /\ TakeNew(m, v, n, type, s).left = m.left
         /\ \A t \in m.tree \ {v} :
              TakeNew(m, v, n, type, s).entry[t] = m.entry[t]
<1> DEFINE h == [m.entry EXCEPT ![s] = Region(Key(m, v), n, type),
                                ![v] = DropFirst(@, n)]
<1>1. m \in Map /\ v \in Slot /\ m.entry \in [Slot -> Entry] /\ v # s
  BY DEF GoodMap, Map, Used
<1>2. \A t \in m.tree : t \in Slot /\ t # s /\ GoodEntry(m.entry[t])
  BY <1>1 DEF GoodMap, Map, Used
<1>3. /\ h[s] = Region(Key(m, v), n, type) /\ h[v] = DropFirst(m.entry[v], n)
      /\ \A t \in Slot \ {s, v} : h[t] = m.entry[t]
  BY <1>1
<1>4. GoodEntry(h[s]) /\ GoodEntry(h[v])
  <2>1. /\ Region(Key(m, v), n, type) \in Entry
        /\ Region(Key(m, v), n, type).start = m.entry[v].start
        /\ Region(Key(m, v), n, type).size = n
    BY <1>2, GoodIs DEF Region, Key, Entry
  <2>2. m.entry[v].start >= 0 /\ m.entry[v].start + n <= Top
    BY <1>2, GoodIs, TopNat
  <2>3. GoodEntry(Region(Key(m, v), n, type))
    BY <1>2, <2>1, <2>2, GoodIs DEF GoodEntry, End
  <2> QED BY <1>2, <1>3, <2>3, DropGood
<1>h. h \in [Slot -> Entry]
  BY <1>1, <1>3, <1>4 DEF GoodEntry
<1>5. TakeNew(m, v, n, type, s) = Enter(m, h, s)
  BY <1>1 DEF TakeNew, Map, Enter
<1> HIDE DEF h
<1>6. \A t \in m.tree \cup {s} : GoodEntry(h[t])
  BY <1>2, <1>3, <1>4
<1>7. ~InFreed(m, s)
  BY DEF Used
<1>8. /\ GoodMap(Enter(m, h, s)) /\ Enter(m, h, s).entry = h
      /\ Enter(m, h, s).tree = m.tree \cup {s}
      /\ Enter(m, h, s).freed = m.freed
      /\ Enter(m, h, s).next = m.next /\ Enter(m, h, s).left = m.left
  BY <1>6, <1>7, <1>h, InsertGood
<1>9. \A t \in m.tree \ {v} : Enter(m, h, s).entry[t] = m.entry[t]
  BY <1>2, <1>3, <1>8
<1> QED BY <1>5, <1>8, <1>9

(* A pool that holds only slots that are not in use.                       *)
Repooled(m, page, i, l) ==
  [m EXCEPT !.next = <<page, i>>, !.left = l, !.key = @ + 1]

LEMMA NewPool ==
  ASSUME NEW m, GoodMap(m), NEW page \in PageAddr, NEW i \in Nat, NEW l \in Nat,
         i + l <= SlotMax,
         \A k \in i .. i + l - 1 : ~Used(m, <<page, k>>)
  PROVE  /\ GoodMap(Repooled(m, page, i, l))
         /\ Repooled(m, page, i, l).entry = m.entry
         /\ Repooled(m, page, i, l).tree = m.tree
         /\ Repooled(m, page, i, l).left = l
         /\ Repooled(m, page, i, l).key = m.key + 1
<1> DEFINE g == Repooled(m, page, i, l)
<1>1. m \in Map /\ m.key \in Nat
  BY DEF GoodMap, Map
<1>2. <<page, i>> \in Slot
  BY SlotMaxNat DEF Slot
<1> DEFINE x == <<page, i>>
           k1 == m.key + 1
<1>k. k1 \in Nat /\ x \in Slot /\ g = [m EXCEPT !.next = x, !.left = l, !.key = k1]
  BY <1>1, <1>2 DEF Repooled
<1> HIDE DEF x, k1, g
<1>3a. /\ g \in Map /\ g.entry = m.entry /\ g.tree = m.tree
       /\ g.freed = m.freed /\ g.next = x /\ g.left = l /\ g.key = k1
  BY <1>1, <1>k DEF Map
<1>3. /\ g \in Map /\ g.key = m.key + 1 /\ g.entry = m.entry /\ g.tree = m.tree
      /\ g.freed = m.freed /\ g.next = <<page, i>> /\ g.left = l
  BY <1>3a DEF x, k1
<1>4. \A s \in Pool(g) : ~Used(m, s)
  BY <1>3 DEF Pool
<1>5. \A s : InFreed(g, s) <=> InFreed(m, s)
  BY <1>3 DEF InFreed
<1>6. Accounted(g)
  BY <1>3, <1>4, <1>5 DEF Accounted, GoodMap, Used
<1>7. g.next[2] + g.left <= SlotMax
  BY <1>3
<1>8. GoodMap(g)
  BY <1>3, <1>6, <1>7 DEF GoodMap
<1> QED BY <1>3, <1>8 DEF g

(* The entry that memory is taken from.                                    *)
LEMMA VictimIs ==
  ASSUME NEW m, GoodMap(m), NEW n, Conventional(m, n) # {}
  PROVE  /\ Victim(m, n) \in m.tree /\ m.entry[Victim(m, n)].type = "conventional"
         /\ m.entry[Victim(m, n)].size >= n /\ GoodEntry(m.entry[Victim(m, n)])
         /\ m.entry[Victim(m, n)].size >= PageSize
<1>1. Victim(m, n) \in Conventional(m, n)
  BY FirstIs DEF Victim, Conventional
<1>2. /\ Victim(m, n) \in m.tree /\ m.entry[Victim(m, n)].type = "conventional"
      /\ m.entry[Victim(m, n)].size >= n
  BY <1>1 DEF Conventional
<1>3. GoodEntry(m.entry[Victim(m, n)])
  BY <1>2 DEF GoodMap
<1>4. ASSUME NEW k \in Nat, k > 0, k % 4096 = 0 PROVE k >= 4096
  BY <1>4
<1> QED BY <1>2, <1>3, <1>4, GoodIs DEF Aligned, PageSize

-----------------------------------------------------------------------------
(* The page scavenged by mmap_alloc_entry is a page of memory.             *)
LEMMA PageIs ==
  ASSUME NEW m, GoodMap(m), NEW v \in m.tree, NEW n \in Nat, Aligned(n), 0 < n,
         n <= m.entry[v].size, NEW type
  PROVE  /\ TakenAt(m, v, n, type) \in Nat /\ Aligned(TakenAt(m, v, n, type))
         /\ TakenAt(m, v, n, type) + n <= Top
<1>1. /\ m.entry[v].start \in Nat /\ m.entry[v].size \in Nat
      /\ End(m.entry[v]) = m.entry[v].start + m.entry[v].size
      /\ End(m.entry[v]) <= Top
      /\ m.entry[v].start % 4096 = 0 /\ m.entry[v].size % 4096 = 0 /\ n % 4096 = 0
  BY GoodIs DEF GoodMap, Aligned, PageSize
<1>2. (m.entry[v].start + m.entry[v].size) % 4096 = 0
  BY <1>1
<1>3. ((m.entry[v].start + m.entry[v].size) - n) % 4096 = 0
  BY <1>1, <1>2
<1>4. \/ TakenAt(m, v, n, type) = m.entry[v].start
      \/ TakenAt(m, v, n, type) = (m.entry[v].start + m.entry[v].size) - n
  BY <1>1 DEF TakenAt, Key
<1> QED BY <1>1, <1>3, <1>4, TopNat DEF Aligned, PageSize

(* Taking a page for slots, in each of the four ways.                      *)
Took(m, v, way, new) ==
  CASE way = "whole" -> TakeWhole(m, v, "loader_data")
    [] way = "first" -> TakeFirst(m, v, PageSize)
    [] way = "last"  -> TakeLast(m, v, PageSize)
    [] way = "new"   -> TakeNew(m, v, PageSize, "loader_data", new)

LEMMA PageSizeIs == PageSize \in Nat /\ 0 < PageSize /\ Aligned(PageSize)
BY DEF PageSize, Aligned

LEMMA WayIs ==
  ASSUME NEW m, NEW v, NEW n, NEW type
  PROVE  /\ Way(m, v, n, type) \in {"whole", "first", "last", "new"}
         /\ Way(m, v, n, type) = "whole" <=> m.entry[v].size = n
         /\ Way(m, v, n, type) = "first" => PrevJoins(m, v, type)
         /\ Way(m, v, n, type) = "last" => NextJoins(m, v, type)
BY DEF Way

LEMMA TookGood ==
  ASSUME NEW m, GoodMap(m), NEW v \in m.tree, NEW way, NEW new \in Slot,
         m.entry[v].size >= PageSize, way = Way(m, v, PageSize, "loader_data"),
         new \notin Pool(m), ~Used(m, new)
  PROVE  /\ GoodMap(Took(m, v, way, new))
         /\ \A t : Used(Took(m, v, way, new), t)
                     => Used(m, t) \/ (way = "new" /\ t = new)
         /\ \A t \in m.tree \ {v} :
              m.entry[t].type = "conventional"
                => /\ t \in Took(m, v, way, new).tree
                   /\ Took(m, v, way, new).entry[t] = m.entry[t]
<1> DEFINE g == Took(m, v, way, new)
<1>1. "loader_data" \in Type /\ "loader_data" # "conventional"
  BY DEF Type
<1>2. m.entry[v].size \in Nat
  BY GoodIs DEF GoodMap
<1>3. CASE way = "whole"
  <2>1. g = TakeWhole(m, v, "loader_data")
    BY <1>3 DEF Took
  <2> HIDE DEF g
  <2> QED BY <1>1, <1>3, <2>1, TakeWholeGood DEF g
<1>4. CASE way = "first"
  <2>1. g = TakeFirst(m, v, PageSize)
    BY <1>4 DEF Took
  <2>2. PrevJoins(m, v, "loader_data") /\ PageSize < m.entry[v].size
    BY <1>2, <1>4, WayIs, PageSizeIs
  <2>3. /\ GoodMap(g) /\ g.tree = m.tree /\ g.freed = m.freed
        /\ \A t \in m.tree \ {v} : m.entry[t].type # "loader_data"
                                     => g.entry[t] = m.entry[t]
    BY <2>1, <2>2, PageSizeIs, TakeFirstGood
  <2> HIDE DEF g
  <2>4. \A t : Used(g, t) => Used(m, t)
    BY <2>3 DEF Used, InFreed
  <2> QED BY <1>1, <2>3, <2>4 DEF g
<1>5. CASE way = "last"
  <2>1. g = TakeLast(m, v, PageSize)
    BY <1>5 DEF Took
  <2>2. NextJoins(m, v, "loader_data") /\ PageSize < m.entry[v].size
    BY <1>2, <1>5, WayIs, PageSizeIs
  <2>3. /\ GoodMap(g) /\ g.tree = m.tree /\ g.freed = m.freed
        /\ \A t \in m.tree \ {v} : m.entry[t].type # "loader_data"
                                     => g.entry[t] = m.entry[t]
    BY <2>1, <2>2, PageSizeIs, TakeLastGood
  <2> HIDE DEF g
  <2>4. \A t : Used(g, t) => Used(m, t)
    BY <2>3 DEF Used, InFreed
  <2> QED BY <1>1, <2>3, <2>4 DEF g
<1>6. CASE way = "new"
  <2>1. g = TakeNew(m, v, PageSize, "loader_data", new)
    BY <1>6 DEF Took
  <2>2. PageSize < m.entry[v].size
    BY <1>2, <1>6, WayIs, PageSizeIs
  <2>3. /\ GoodMap(g) /\ g.tree = m.tree \cup {new} /\ g.freed = m.freed
        /\ \A t \in m.tree \ {v} : g.entry[t] = m.entry[t]
    BY <1>1, <2>1, <2>2, PageSizeIs, TakeNewGood
  <2> HIDE DEF g
  <2>4. \A t : Used(g, t) => Used(m, t) \/ t = new
    BY <2>3 DEF Used, InFreed
  <2> QED BY <1>6, <2>3, <2>4 DEF g
<1> QED BY <1>3, <1>4, <1>5, <1>6, WayIs

(* The map once the page for slots is taken.                               *)
PageTaken(m) ==
  Took(m, Victim(m, 0), Way(m, Victim(m, 0), PageSize, "loader_data"),
       <<ScavengedPage(m), 0>>)

(* Scavenging a page leaves a good map with a pool that is not empty.      *)
LEMMA ScavengeGood ==
  ASSUME NEW m, GoodMap(m), Empty(m), AllocFault(m) = "ok"
  PROVE  /\ GoodMap(Scavenge(m)) /\ Scavenge(m).left > 0
         /\ Conventional(m, 0) # {}
         /\ \A t \in m.tree \ {Victim(m, 0)} :
              m.entry[t].type = "conventional"
                => t \in Scavenge(m).tree /\ Scavenge(m).entry[t] = m.entry[t]
         /\ GoodMap(PageTaken(m))
         /\ Scavenge(m).entry = PageTaken(m).entry
         /\ Scavenge(m).tree = PageTaken(m).tree
         /\ Scavenge(m).key = PageTaken(m).key + 1
         /\ <<ScavengedPage(m), 0>> \in Slot
         /\ <<ScavengedPage(m), 0>> \notin Pool(m)
         /\ ~Used(m, <<ScavengedPage(m), 0>>)
<1> DEFINE v    == Victim(m, 0)
           way  == Way(m, v, PageSize, "loader_data")
           page == TakenAt(m, v, PageSize, "loader_data")
           new  == <<page, 0>>
           took == Took(m, v, way, new)
           i    == IF way = "new" THEN 1 ELSE 0
           l    == IF way = "new" THEN SlotsPerPage - 1 ELSE SlotsPerPage
<1>1. Conventional(m, 0) # {} /\ ~HoldsSlots(m, page)
  BY DEF AllocFault, Found, ScavengedPage, Region
<1>2. v \in m.tree /\ m.entry[v].size >= PageSize
  BY <1>1, VictimIs
<1>3. page \in PageAddr
  <2>1. page \in Nat /\ Aligned(page) /\ page + PageSize <= Top
    BY <1>2, PageIs, PageSizeIs
  <2>2. 0 <= page /\ page < NumPages * PageSize
    BY <2>1, TopNat, PageSizeIs DEF Top
  <2> QED BY <2>1, <2>2, PageAddrIs
<1> HIDE DEF v, page
<1>4. \A k \in 0 .. SlotMax : <<page, k>> \in Slot /\ ~Used(m, <<page, k>>)
  BY <1>1, <1>3 DEF HoldsSlots, Used, Slot
<1>5. new \in Slot /\ ~Used(m, new) /\ new \notin Pool(m)
  <2>1. Pool(m) = {}
    <3>1. m.left = 0 /\ m.next[2] \in Nat
      BY DEF Empty, GoodMap, Map, Slot
    <3> QED BY <3>1 DEF Pool
  <2> QED BY <1>4, <2>1, SlotMaxNat
<1>6. /\ GoodMap(took)
      /\ \A t : Used(took, t) => Used(m, t) \/ (way = "new" /\ t = new)
      /\ \A t \in m.tree \ {v} :
           m.entry[t].type = "conventional"
             => t \in took.tree /\ took.entry[t] = m.entry[t]
  <2> HIDE DEF new, way
  <2> QED BY <1>2, <1>5, TookGood DEF way
<1>7. /\ i \in Nat /\ l \in Nat /\ l > 0 /\ i + l <= SlotMax
      /\ (way = "new" => i = 1) /\ (way # "new" => i = 0)
  BY SlotsAssumption, SlotMaxNat
<1>8. Scavenge(m) = Repooled(took, page, i, l)
  BY DEF Scavenge, Took, Repooled, v, page
<1> HIDE DEF way, took, i, l
<1>9. \A k \in i .. i + l - 1 : ~Used(took, <<page, k>>)
  <2>1. SUFFICES ASSUME NEW k \in i .. i + l - 1, Used(took, <<page, k>>)
                 PROVE  FALSE
    OBVIOUS
  <2>2. k \in 0 .. SlotMax
    BY <1>7, SlotMaxNat
  <2>3. way = "new" /\ k = 0
    BY <1>4, <1>6, <2>1, <2>2
  <2> QED BY <1>7, <2>3
<1>10. /\ GoodMap(Repooled(took, page, i, l))
       /\ Repooled(took, page, i, l).entry = took.entry
       /\ Repooled(took, page, i, l).tree = took.tree
       /\ Repooled(took, page, i, l).left = l
       /\ Repooled(took, page, i, l).key = took.key + 1
  <2>1. GoodMap(took) /\ i \in Nat /\ l \in Nat /\ i + l <= SlotMax
    BY <1>6, <1>7
  <2> QED BY <1>3, <1>9, <2>1, NewPool
<1> QED
  <2> DEFINE g == Scavenge(m)
  <2> HIDE DEF g
  <2>1. /\ GoodMap(g) /\ g.entry = took.entry /\ g.tree = took.tree /\ g.left = l
        /\ g.key = took.key + 1
    BY <1>8, <1>10, Zenon DEF g
  <2>2. /\ GoodMap(g) /\ g.left > 0
        /\ \A t \in m.tree \ {v} :
             m.entry[t].type = "conventional" => t \in g.tree /\ g.entry[t] = m.entry[t]
    BY <1>6, <1>7, <2>1
  <2>3. took = PageTaken(m) /\ page = ScavengedPage(m)
    BY DEF PageTaken, ScavengedPage, took, way, page, v
  <2> QED BY <1>1, <1>5, <1>6, <2>1, <2>2, <2>3 DEF g, v

(* What mmap_alloc_entry hands out is not in use, and the map stays good.  *)
LEMMA AllocGood ==
  ASSUME NEW m, GoodMap(m), AllocFault(m) = "ok"
  PROVE  /\ GoodMap(AllocEntry(m))
         /\ AllocSlot(m) \in Slot /\ AllocSlot(m) \notin Pool(AllocEntry(m))
         /\ AllocSlot(m) \notin AllocEntry(m).tree
         /\ ~InFreed(AllocEntry(m), AllocSlot(m))
<1> DEFINE g == AllocEntry(m)
           s == AllocSlot(m)
<1>1. CASE m.freed # <<>>
  <2>1. m \in Map /\ m.freed \in Seq(Slot) /\ Len(m.freed) \in Nat \ {0}
    BY <1>1, LenProperties, EmptySeq DEF GoodMap, Map
  <2> DEFINE n == Len(m.freed)
  <2>2. /\ Head(m.freed) = m.freed[1] /\ Tail(m.freed) \in Seq(Slot)
        /\ Len(Tail(m.freed)) = n - 1
        /\ \A i \in 1 .. n - 1 : Tail(m.freed)[i] = m.freed[i + 1]
        /\ DOMAIN Tail(m.freed) = 1 .. n - 1 /\ DOMAIN m.freed = 1 .. n
        /\ m.freed[1] \in Slot
    BY <1>1, <2>1, HeadTailProperties, LenProperties, ElementOfSeq
  <2>3. s = m.freed[1]
    BY <1>1, <2>2 DEF AllocSlot
  <2>4. /\ g \in Map /\ g.tree = m.tree /\ g.entry = m.entry /\ g.next = m.next
        /\ g.left = m.left /\ g.freed = Tail(m.freed)
    BY <1>1, <2>1, <2>2 DEF AllocEntry, Map
  <2> HIDE DEF g, s, n
  <2>n. n \in Nat \ {0}
    BY <2>1 DEF n
  <2>5. Pool(g) = Pool(m)
    BY <2>4 DEF Pool
  <2>6. \A t : InFreed(g, t) => InFreed(m, t) /\ t # s
    <3>1. SUFFICES ASSUME NEW t, InFreed(g, t) PROVE InFreed(m, t) /\ t # s
      OBVIOUS
    <3>2. PICK i \in 1 .. n - 1 : Tail(m.freed)[i] = t
      BY <2>2, <2>4, <3>1 DEF InFreed
    <3>3. i + 1 \in 1 .. n /\ i + 1 # 1 /\ m.freed[i + 1] = t /\ 1 \in 1 .. n
      BY <2>2, <2>n, <3>2
    <3>4. m.freed[i + 1] # m.freed[1]
      BY <3>3 DEF GoodMap, Accounted, Unique, n
    <3> QED BY <2>2, <2>3, <3>3, <3>4 DEF InFreed
  <2>7. InFreed(m, s)
    BY <2>2, <2>3, <2>n DEF InFreed
  <2>8. Unique(g.freed)
    <3>1. \A i, j \in 1 .. n : m.freed[i] = m.freed[j] => i = j
      BY DEF GoodMap, Accounted, Unique, n
    <3>2. SUFFICES ASSUME NEW i \in 1 .. n - 1, NEW j \in 1 .. n - 1,
                          Tail(m.freed)[i] = Tail(m.freed)[j]
                   PROVE  i = j
      BY <2>2, <2>4 DEF Unique
    <3>3. i + 1 \in 1 .. n /\ j + 1 \in 1 .. n /\ m.freed[i + 1] = m.freed[j + 1]
      BY <2>2, <2>n, <3>2
    <3>4. i + 1 = j + 1
      BY <3>1, <3>3
    <3> QED BY <3>4
  <2>9. Accounted(g)
    BY <2>4, <2>5, <2>6, <2>8 DEF GoodMap, Accounted
  <2>10. GoodMap(g)
    BY <2>4, <2>9 DEF GoodMap
  <2>11. s \notin Pool(m) /\ s \notin m.tree /\ s \in Slot
    BY <2>2, <2>3, <2>7 DEF GoodMap, Accounted
  <2> QED BY <2>4, <2>5, <2>6, <2>10, <2>11 DEF g, s
<1>2. CASE m.freed = <<>>
  <2> DEFINE f == IF m.left = 0 THEN Scavenge(m) ELSE m
  <2>1. GoodMap(f) /\ f.left > 0
    <3>1. CASE m.left = 0
      BY <1>2, <3>1, ScavengeGood DEF Empty
    <3>2. CASE m.left # 0
      BY <3>2 DEF GoodMap, Map
    <3> QED BY <3>1, <3>2
  <2>2. /\ s = f.next
        /\ g = [f EXCEPT !.next = <<@[1], @[2] + 1>>, !.left = @ - 1]
    BY <1>2 DEF AllocSlot, AllocEntry
  <2> HIDE DEF f, s, g
  <2>3. /\ f \in Map /\ f.next \in Slot /\ f.left \in Nat \ {0}
        /\ f.next[2] + f.left <= SlotMax
        /\ f.next = <<f.next[1], f.next[2]>> /\ f.next[2] \in Nat
        /\ f.next[1] \in {Static} \cup PageAddr
    BY <2>1 DEF GoodMap, Map, Slot
  <2> DEFINE x == <<f.next[1], f.next[2] + 1>>
             l == f.left - 1
  <2>4. x \in Slot /\ l \in Nat /\ g = [f EXCEPT !.next = x, !.left = l]
    BY <2>2, <2>3, SlotMaxNat DEF Slot
  <2> HIDE DEF x, l
  <2>5. /\ g \in Map /\ g.entry = f.entry /\ g.tree = f.tree
        /\ g.freed = f.freed /\ g.next = x /\ g.left = l
    BY <2>3, <2>4 DEF Map
  <2>6. f.next \in Pool(f) /\ \A t \in Pool(g) : t \in Pool(f) /\ t # f.next
    <3>1. \A b, c, d : <<b, c>> = <<b, d>> => c = d
      OBVIOUS
    <3> DEFINE b == f.next[1]
               k == f.next[2]
    <3>2. /\ k \in Nat /\ f.left \in Nat \ {0} /\ f.next = <<b, k>>
          /\ g.next[1] = b /\ g.next[2] = k + 1 /\ g.left = f.left - 1
      BY <2>3, <2>5 DEF x, l
    <3> HIDE DEF b, k
    <3>3. /\ Pool(f) = {<<b, i>> : i \in k .. k + f.left - 1}
          /\ Pool(g) = {<<b, i>> : i \in k + 1 .. k + 1 + (f.left - 1) - 1}
      BY <3>2 DEF Pool, b, k
    <3>4. k \in k .. k + f.left - 1
      BY <3>2
    <3>5. \A i \in k + 1 .. k + 1 + (f.left - 1) - 1 :
            i \in k .. k + f.left - 1 /\ i # k
      BY <3>2
    <3> QED BY <3>1, <3>2, <3>3, <3>4, <3>5, Zenon
  <2>7. \A t : InFreed(g, t) <=> InFreed(f, t)
    BY <2>5 DEF InFreed
  <2>8. Accounted(g)
    BY <2>1, <2>5, <2>6, <2>7 DEF GoodMap, Accounted
  <2>9. g.next[2] + g.left <= SlotMax
    BY <2>3, <2>5, SlotMaxNat DEF x, l
  <2>10. GoodMap(g)
    BY <2>1, <2>5, <2>8, <2>9 DEF GoodMap
  <2>11. s \in Slot /\ s \notin Pool(g) /\ s \notin g.tree /\ ~InFreed(g, s)
    BY <2>1, <2>2, <2>3, <2>5, <2>6, <2>7 DEF GoodMap, Accounted
  <2> QED BY <2>10, <2>11 DEF g, s
<1> QED BY <1>1, <1>2

-----------------------------------------------------------------------------
(***************************************************************************)
(* The steps of mmap_add_entry and fix_overlap.                            *)
(***************************************************************************)
Pending == {c \in Call : GoodArg(c.arg)}
PageView == [PageAddr -> Type \cup {"none"}]

MapInv ==
  /\ mm \in Map /\ (status = "ok" => GoodMap(mm))
  /\ todo \in Seq(Pending)
  /\ freeing \in BOOLEAN
  /\ status \in {"ok"} \cup Fault
  /\ before \in PageView

(* The arguments of pending calls.                                         *)
LEMMA PendingIs ==
  ASSUME NEW s \in Slot \cup {NoSlot}
  PROVE  /\ \A e : GoodArg(e) => AddCall(e) \in Pending
         /\ FixCall(s) \in Pending /\ FixPrevCall(s) \in Pending
         /\ MergeCall(s) \in Pending /\ BumpCall \in Pending
         /\ RestoreCall \in Pending
<1>1. GoodArg(NoEntry)
  BY TopNat DEF GoodArg, NoEntry, Region, Entry, End, Type
<1>2. NoEntry \in Entry /\ \A e : GoodArg(e) => e \in Entry
  BY <1>1 DEF GoodArg
<1>3. ASSUME NEW e, GoodArg(e) PROVE AddCall(e) \in Pending
  BY <1>2, <1>3 DEF Pending, Call, AddCall
<1>4. FixCall(s) \in Pending /\ FixPrevCall(s) \in Pending
      /\ MergeCall(s) \in Pending
  BY <1>1, <1>2 DEF Pending, Call, FixCall, FixPrevCall, MergeCall
<1>5. BumpCall \in Pending /\ RestoreCall \in Pending
  BY <1>1, <1>2 DEF Pending, Call, BumpCall, RestoreCall
<1> QED BY <1>3, <1>4, <1>5

(* The call stack after a call was replaced by others.                     *)
LEMMA ThenGood ==
  ASSUME MapInv, todo # <<>>, NEW calls0 \in Seq(Pending), Then(calls0)
  PROVE  todo' \in Seq(Pending) /\ before' \in PageView
<1>1. Tail(todo) \in Seq(Pending)
  BY HeadTailProperties DEF MapInv
<1>2. calls0 \o Tail(todo) \in Seq(Pending)
  BY <1>1, ConcatProperties
<1>3. NoView \in PageView
  BY DEF NoView, PageView
<1> QED BY <1>2, <1>3 DEF Then, MapInv

LEMMA TopCall ==
  ASSUME MapInv, NEW op, Doing(op)
  PROVE  /\ GoodMap(mm) /\ status = "ok" /\ todo # <<>> /\ GoodArg(Arg)
         /\ Head(todo) \in Pending /\ Head(todo).slot \in Slot \cup {NoSlot}
<1>1. Head(todo) \in Pending
  BY HeadTailProperties DEF MapInv, Doing
<1>2. GoodArg(Arg) /\ Head(todo).slot \in Slot \cup {NoSlot}
  BY <1>1 DEF Pending, Call, Arg
<1> QED BY <1>1, <1>2 DEF MapInv, Doing

LEMMA SettleGood ==
  ASSUME MapInv, NEW m, GoodMap(m), Settle(m)
  PROVE  /\ mm' \in Map /\ (status' = "ok" => GoodMap(mm'))
         /\ freeing' \in BOOLEAN /\ status' \in {"ok"} \cup Fault
BY DEF MapInv, Settle, GoodMap, Fault

(* Page arithmetic of unaligned ends.                                      *)
LEMMA PageFits ==
  ASSUME NEW b \in Nat, b % 4096 = 0, b < Top PROVE b + 4096 <= Top
<1>1. ASSUME NEW n \in Nat, b < n * 4096 PROVE b + 4096 <= n * 4096
  BY <1>1
<1> QED BY <1>1, PagesAssumption DEF Top, PageSize

LEMMA UnusableGood ==
  ASSUME NEW b \in Nat, b % 4096 = 0, b < Top PROVE GoodArg(Unusable(b))
<1>1. b + 4096 <= Top
  BY PageFits
<1> QED BY <1>1 DEF GoodArg, Unusable, Region, Entry, End, PageSize, Type

(* The parts of a range that starts, or ends, inside a page.               *)
LEMMA SplitStart ==
  ASSUME NEW e, GoodArg(e), e.size # 0
  PROVE  LET head == e.start % PageSize
             rest == DropFirst(e, PageSize - head)
         IN GoodArg(Unusable(e.start - head)) /\ (rest.size > 0 => GoodArg(rest))
<1>1. /\ e \in Entry /\ e.start \in Nat /\ e.size \in Nat
      /\ e.start + e.size <= Top
  BY DEF GoodArg, Entry, End
<1>2. PICK a \in Nat : a = e.start
  BY <1>1
<1>3. PICK n \in Nat : n = e.size
  BY <1>1
<1>4. /\ a % 4096 \in 0 .. 4095 /\ a - (a % 4096) \in Nat
      /\ (a - (a % 4096)) % 4096 = 0 /\ a - (a % 4096) < Top
  <2>1. a + n <= Top /\ n # 0
    BY <1>1, <1>2, <1>3
  <2>2. a % 4096 \in 0 .. 4095 /\ a - (a % 4096) \in Nat
    OBVIOUS
  <2>3. (a - (a % 4096)) % 4096 = 0
    OBVIOUS
  <2> QED BY <2>1, <2>2, <2>3, TopNat
<1>5. PICK b \in Nat : b = a - (a % 4096)
  BY <1>4
<1>6. GoodArg(Unusable(b))
  BY <1>4, <1>5, UnusableGood
<1>7. PICK k \in Int : k = 4096 - (a % 4096) /\ k > 0
  BY <1>4
<1>8. /\ DropFirst(e, k) \in Entry /\ DropFirst(e, k).start = a + k
      /\ DropFirst(e, k).size = n - k
  BY <1>1, <1>2, <1>3, EntryOps
<1>9. DropFirst(e, k).size > 0 => GoodArg(DropFirst(e, k))
  <2>1. ASSUME n - k > 0 PROVE a + k >= 0 /\ (a + k) + (n - k) <= Top
    BY <1>1, <1>2, <1>3, <1>7, TopNat
  <2> QED BY <1>8, <2>1 DEF GoodArg, End
<1> QED BY <1>2, <1>5, <1>6, <1>7, <1>9 DEF PageSize

LEMMA SplitEnd ==
  ASSUME NEW e, GoodArg(e), Aligned(e.start), ~Aligned(e.size)
  PROVE  LET tail == e.size % PageSize
             rest == DropLast(e, tail)
         IN GoodArg(Unusable(End(e) - tail)) /\ (rest.size > 0 => GoodArg(rest))
<1>1. /\ e \in Entry /\ e.start \in Nat /\ e.size \in Nat
      /\ e.start + e.size <= Top /\ End(e) = e.start + e.size
  BY DEF GoodArg, Entry, End
<1>2. PICK a \in Nat : a = e.start
  BY <1>1
<1>3. PICK n \in Nat : n = e.size
  BY <1>1
<1>4. /\ n % 4096 \in 1 .. 4095 /\ n - (n % 4096) \in Nat
      /\ a + n - (n % 4096) \in Nat
      /\ (a + n - (n % 4096)) % 4096 = 0 /\ a + n - (n % 4096) < Top
  <2>1. a % 4096 = 0 /\ n % 4096 # 0
    BY <1>2, <1>3 DEF Aligned, PageSize
  <2>2. a + n <= Top
    BY <1>1, <1>2, <1>3
  <2>3. n % 4096 \in 1 .. 4095 /\ n - (n % 4096) \in Nat
    BY <2>1
  <2>4. (n - (n % 4096)) % 4096 = 0
    OBVIOUS
  <2>5. (a + n - (n % 4096)) % 4096 = 0
    <3>1. PICK j \in Nat : j = n - (n % 4096)
      BY <2>3
    <3>2. j % 4096 = 0 /\ a + n - (n % 4096) = a + j
      BY <2>3, <2>4, <3>1
    <3>3. (a + j) % 4096 = 0
      BY <2>1, <3>2
    <3> QED BY <3>2, <3>3
  <2> QED BY <2>2, <2>3, <2>5, TopNat
<1>5. PICK b \in Nat : b = a + n - (n % 4096)
  BY <1>4
<1>6. GoodArg(Unusable(b))
  BY <1>4, <1>5, UnusableGood
<1>7. PICK k \in Nat : k = n % 4096
  BY <1>4
<1>8. /\ DropLast(e, k) \in Entry /\ DropLast(e, k).start = a
      /\ DropLast(e, k).size = n - k
  <2>1. k \in Int
    OBVIOUS
  <2>2. /\ DropLast(e, k) \in Entry /\ DropLast(e, k).start = e.start
        /\ DropLast(e, k).size = e.size - k
    BY <1>1, <2>1, EntryOps
  <2> QED BY <1>2, <1>3, <2>2
<1>9. DropLast(e, k).size > 0 => GoodArg(DropLast(e, k))
  <2>1. ASSUME n - k > 0 PROVE a >= 0 /\ a + (n - k) <= Top
    BY <1>1, <1>2, <1>3, <1>7, TopNat
  <2> QED BY <1>8, <2>1 DEF GoodArg, End
<1>10. End(e) - (e.size % PageSize) = b /\ e.size % PageSize = k
  BY <1>1, <1>2, <1>3, <1>5, <1>7 DEF PageSize
<1> QED BY <1>6, <1>9, <1>10

(* mmap_add_entry keeps the invariant while it splits unaligned ranges.    *)
LEMMA SplitGood ==
  ASSUME MapInv, AddEmpty \/ AddUnalignedStart \/ AddUnalignedEnd
  PROVE  MapInv'
<1>1. /\ GoodMap(mm) /\ status = "ok" /\ todo # <<>> /\ GoodArg(Arg)
      /\ UNCHANGED <<mm, freeing, status>>
  BY TopCall DEF AddEmpty, AddUnalignedStart, AddUnalignedEnd
<1>3. SUFFICES \E q \in Seq(Pending) : Then(q)
  BY <1>1, ThenGood DEF MapInv
<1>4. ASSUME NEW e, NEW f, GoodArg(e), f.size > 0 => GoodArg(f),
             Then(IF f.size > 0 THEN <<AddCall(e), AddCall(f)>> ELSE <<AddCall(e)>>)
      PROVE  \E q \in Seq(Pending) : Then(q)
  <2>1. AddCall(e) \in Pending /\ (f.size > 0 => AddCall(f) \in Pending)
    BY <1>4, PendingIs
  <2>2. (IF f.size > 0 THEN <<AddCall(e), AddCall(f)>> ELSE <<AddCall(e)>>)
          \in Seq(Pending)
    BY <2>1
  <2> QED BY <1>4, <2>2
<1>5. CASE AddEmpty
  <2>1. <<>> \in Seq(Pending)
    OBVIOUS
  <2> QED BY <1>5, <2>1 DEF AddEmpty
<1>6. CASE AddUnalignedStart
  <2> DEFINE head == Arg.start % PageSize
             page == Unusable(Arg.start - head)
             rest == DropFirst(Arg, PageSize - head)
  <2>1. /\ Arg.size # 0
        /\ Then(IF rest.size > 0 THEN <<AddCall(page), AddCall(rest)>>
                                 ELSE <<AddCall(page)>>)
    BY <1>6 DEF AddUnalignedStart
  <2>2. GoodArg(page) /\ (rest.size > 0 => GoodArg(rest))
    BY <1>1, <2>1, SplitStart
  <2> HIDE DEF page, rest
  <2> QED BY <1>4, <2>1, <2>2
<1>7. CASE AddUnalignedEnd
  <2> DEFINE tail == Arg.size % PageSize
             page == Unusable(End(Arg) - tail)
             rest == DropLast(Arg, tail)
  <2>1. /\ Aligned(Arg.start) /\ ~Aligned(Arg.size)
        /\ Then(IF rest.size > 0 THEN <<AddCall(page), AddCall(rest)>>
                                 ELSE <<AddCall(page)>>)
    BY <1>7 DEF AddUnalignedEnd
  <2>2. GoodArg(page) /\ (rest.size > 0 => GoodArg(rest))
    BY <1>1, <2>1, SplitEnd
  <2> HIDE DEF page, rest
  <2> QED BY <1>4, <2>1, <2>2
<1> QED BY <1>5, <1>6, <1>7

(* What mmap_alloc_entry can fail with.                                    *)
LEMMA AllocFaultIs == ASSUME NEW m PROVE AllocFault(m) \in {"ok"} \cup Fault
BY DEF AllocFault, Fault

(* The range that AddsPages adds is a good entry.                          *)
LEMMA ArgGood ==
  ASSUME MapInv, AddsPages
  PROVE  /\ GoodEntry(Arg) /\ GoodMap(mm) /\ status = "ok" /\ todo # <<>>
<1>1. /\ GoodMap(mm) /\ status = "ok" /\ todo # <<>> /\ GoodArg(Arg)
      /\ Arg.size # 0 /\ Aligned(Arg.start) /\ Aligned(Arg.size)
  BY TopCall DEF AddsPages
<1>2. Arg.size > 0
  BY <1>1 DEF GoodArg, Entry
<1> QED BY <1>1, <1>2 DEF GoodArg, GoodEntry

LEMMA PrecedenceType ==
  ASSUME NEW f, NEW a \in Type, NEW b \in Type
  PROVE  HigherPrecedence(f, a, b) \in Type
BY DEF HigherPrecedence

(* A step that settles on a good map and goes on with good calls.          *)
LEMMA StepGood ==
  ASSUME MapInv, todo # <<>>, NEW m, GoodMap(m), Settle(m),
         NEW q \in Seq(Pending), Then(q)
  PROVE  MapInv'
<1>1. todo' \in Seq(Pending) /\ before' \in PageView
  BY ThenGood
<1>2. /\ mm' \in Map /\ (status' = "ok" => GoodMap(mm'))
      /\ freeing' \in BOOLEAN /\ status' \in {"ok"} \cup Fault
  BY SettleGood
<1> QED BY <1>1, <1>2 DEF MapInv

LEMMA FailGood ==
  ASSUME MapInv, NEW f \in Fault, Fail(f) PROVE MapInv'
<1>1. "ok" \notin Fault
  BY DEF Fault
<1> QED BY <1>1 DEF MapInv, Fail

LEMMA AddNewGood == ASSUME MapInv, AddNew PROVE MapInv'
<1> DEFINE s == AllocSlot(mm)
           m == AllocEntry(mm)
           h == [m.entry EXCEPT ![s] = Arg]
<1>1. /\ GoodEntry(Arg) /\ GoodMap(mm) /\ todo # <<>>
      /\ AllocFault(mm) = "ok"
  BY ArgGood DEF AddNew
<1>2. GoodMap(m) /\ s \in Slot /\ s \notin Pool(m) /\ s \notin m.tree /\ ~InFreed(m, s)
  BY <1>1, AllocGood
<1>3. Settle(Inserted(Filled(m, s, Arg), s))
      /\ Then(<<FixCall(s), FixPrevCall(s), MergeCall(s), BumpCall>>)
  BY DEF AddNew
<1> HIDE DEF s, m
<1>4. m \in Map /\ m.entry \in [Slot -> Entry]
  BY <1>2 DEF GoodMap, Map
<1>5. Inserted(Filled(m, s, Arg), s) = Enter(m, h, s)
  BY <1>4 DEF Inserted, Filled, Enter, Map
<1>6. h \in [Slot -> Entry] /\ \A t \in m.tree \cup {s} : GoodEntry(h[t])
  <2>1. Arg \in Entry /\ \A t \in m.tree : t \in Slot /\ GoodEntry(m.entry[t])
    BY <1>1, <1>2 DEF GoodEntry, GoodMap, Map
  <2> QED BY <1>1, <1>2, <1>4, <2>1
<1> HIDE DEF h
<1>7. GoodMap(Enter(m, h, s))
  BY <1>2, <1>6, InsertGood
<1>8. <<FixCall(s), FixPrevCall(s), MergeCall(s), BumpCall>> \in Seq(Pending)
  <2>1. /\ FixCall(s) \in Pending /\ FixPrevCall(s) \in Pending
        /\ MergeCall(s) \in Pending /\ BumpCall \in Pending
    BY <1>2, PendingIs
  <2> QED BY <2>1
<1> QED BY <1>1, <1>3, <1>5, <1>7, <1>8, StepGood

(* A range that starts where an entry does: the three cases of AddOver.    *)
LEMMA AddAtOldGood == ASSUME MapInv, AddAtOld PROVE MapInv'
<1> DEFINE s == AllocSlot(mm)
           g == AllocEntry(mm)
           m == Filled(g, s, Arg)
<1>1. /\ GoodEntry(Arg) /\ GoodMap(mm) /\ todo # <<>>
      /\ AllocFault(mm) = "ok"
  BY ArgGood DEF AddAtOld
<1>2. GoodMap(g) /\ s \in Slot /\ s \notin Pool(g) /\ s \notin g.tree /\ ~InFreed(g, s)
  BY <1>1, AllocGood
<1>3. PICK old \in At(g, Arg.start) : AddOver(old)
  BY DEF AddAtOld
<1>4. old \in g.tree /\ old # s
  BY <1>2, <1>3 DEF At
<1> DEFINE o == m.entry[old]
           type == HigherPrecedence(freeing, o.type, Arg.type)
           same == FreeEntry([m EXCEPT !.entry[old] = Retype(@, type)], s)
           short == Inserted([m EXCEPT !.entry[s] = Retype(@, type),
                                       !.entry[old] = DropFirst(@, Arg.size)], s)
           long == Inserted([m EXCEPT !.entry[old] = Retype(@, type),
                                      !.entry[s] = DropFirst(@, o.size)], s)
<1>5. \/ o.size = Arg.size /\ Settle(same) /\ Then(<<MergeCall(old), BumpCall>>)
      \/ o.size > Arg.size /\ Settle(short) /\ Then(<<MergeCall(s), BumpCall>>)
      \/ Fail("tree")
      \/ /\ o.size < Arg.size /\ Settle(long)
         /\ Then(<<FixCall(s), MergeCall(s), BumpCall>>)
  BY <1>3 DEF AddOver
<1> HIDE DEF g, s
<1>6. g \in Map /\ g.entry \in [Slot -> Entry] /\ old \in Slot
      /\ \A t \in g.tree : t \in Slot /\ GoodEntry(g.entry[t])
  BY <1>2, <1>4 DEF GoodMap, Map
<1>7. /\ m.entry = [g.entry EXCEPT ![s] = Arg] /\ m.tree = g.tree
      /\ m.freed = g.freed /\ m.next = g.next /\ m.left = g.left
  BY <1>6 DEF Filled, Map
<1>m. m.entry \in [Slot -> Entry] /\ m = [g EXCEPT !.entry = m.entry] /\ m \in Map
  <2>1. Arg \in Entry
    BY <1>1, GoodIs
  <2>2. m.entry \in [Slot -> Entry]
    BY <1>2, <1>6, <1>7, <2>1
  <2>3. m = [g EXCEPT !.entry = m.entry]
    BY <1>6, <1>7 DEF Filled, Map
  <2> HIDE DEF m
  <2> QED BY <1>6, <2>2, <2>3 DEF Map
<1>8. /\ m.entry[s] = Arg /\ \A t \in g.tree : m.entry[t] = g.entry[t]
  BY <1>2, <1>6, <1>7
<1> HIDE DEF m
<1>9. GoodEntry(o) /\ o = g.entry[old] /\ type \in Type
  <2>1. GoodEntry(o) /\ o = g.entry[old]
    BY <1>4, <1>6, <1>8
  <2> QED BY <1>1, <2>1, GoodIs, PrecedenceType
<1>10. /\ o.size \in Nat /\ Arg.size \in Nat /\ Aligned(o.size) /\ Aligned(Arg.size)
  BY <1>1, <1>9, GoodIs
<1>11. /\ MergeCall(old) \in Pending /\ BumpCall \in Pending
       /\ MergeCall(s) \in Pending /\ FixCall(s) \in Pending
  BY <1>2, <1>6, PendingIs
<1> HIDE DEF o, type
<1>12. CASE o.size = Arg.size /\ Settle(same) /\ Then(<<MergeCall(old), BumpCall>>)
  <2> DEFINE h == [m.entry EXCEPT ![old] = Retype(@, type)]
             f == [g EXCEPT !.entry = h]
  <2>1. h[old] = Retype(o, type) /\ \A t \in Slot \ {old} : h[t] = m.entry[t]
    BY <1>6, <1>m DEF o
  <2>2. GoodEntry(h[old]) /\ h[old] \in Entry
    BY <1>9, <2>1, RetypeGood, GoodIs
  <2>3. h \in [Slot -> Entry] /\ \A t \in g.tree : GoodEntry(h[t])
    BY <1>6, <1>8, <1>m, <2>1, <2>2
  <2>4. [m EXCEPT !.entry[old] = Retype(@, type)] = f
    BY <1>6, <1>m DEF Map
  <2> HIDE DEF h
  <2>5. GoodMap(f) /\ f.freed = g.freed /\ f.next = g.next /\ f.left = g.left
    BY <1>2, <2>3, WithEntries
  <2> HIDE DEF f
  <2>6. s \notin Pool(f) /\ ~InFreed(f, s)
    BY <1>2, <2>5 DEF Pool, InFreed
  <2>7. GoodMap(same)
    BY <1>2, <2>4, <2>5, <2>6, FreeEntryGood
  <2>8. <<MergeCall(old), BumpCall>> \in Seq(Pending)
    BY <1>11
  <2> HIDE DEF same
  <2> QED BY <1>1, <1>12, <2>7, <2>8, StepGood
<1>13. CASE o.size > Arg.size /\ Settle(short) /\ Then(<<MergeCall(s), BumpCall>>)
  <2> DEFINE h == [m.entry EXCEPT ![s] = Retype(@, type),
                                  ![old] = DropFirst(@, Arg.size)]
  <2>1. /\ h[s] = Retype(Arg, type) /\ h[old] = DropFirst(o, Arg.size)
        /\ \A t \in Slot \ {s, old} : h[t] = m.entry[t]
    BY <1>2, <1>4, <1>6, <1>8, <1>m DEF o
  <2>2. GoodEntry(h[s]) /\ GoodEntry(h[old]) /\ h[s] \in Entry /\ h[old] \in Entry
    BY <1>1, <1>9, <1>10, <1>13, <2>1, RetypeGood, DropGood, GoodIs
  <2>3. h \in [Slot -> Entry] /\ \A t \in g.tree \cup {s} : GoodEntry(h[t])
    BY <1>2, <1>6, <1>8, <1>m, <2>1, <2>2
  <2>4. short = Enter(g, h, s)
    BY <1>6, <1>7, <1>m DEF Inserted, Enter, Map
  <2> HIDE DEF h
  <2>5. GoodMap(short)
    BY <1>2, <2>3, <2>4, InsertGood
  <2>6. <<MergeCall(s), BumpCall>> \in Seq(Pending)
    BY <1>11
  <2> HIDE DEF short
  <2> QED BY <1>1, <1>13, <2>5, <2>6, StepGood
<1>14. CASE /\ o.size < Arg.size /\ Settle(long)
            /\ Then(<<FixCall(s), MergeCall(s), BumpCall>>)
  <2> DEFINE h == [m.entry EXCEPT ![old] = Retype(@, type),
                                  ![s] = DropFirst(@, o.size)]
  <2>1. /\ h[s] = DropFirst(Arg, o.size) /\ h[old] = Retype(o, type)
        /\ \A t \in Slot \ {s, old} : h[t] = m.entry[t]
    BY <1>2, <1>4, <1>6, <1>8, <1>m DEF o
  <2>2. GoodEntry(h[s]) /\ GoodEntry(h[old]) /\ h[s] \in Entry /\ h[old] \in Entry
    BY <1>1, <1>9, <1>10, <1>14, <2>1, RetypeGood, DropGood, GoodIs
  <2>3. h \in [Slot -> Entry] /\ \A t \in g.tree \cup {s} : GoodEntry(h[t])
    BY <1>2, <1>6, <1>8, <1>m, <2>1, <2>2
  <2>4. long = Enter(g, h, s)
    BY <1>6, <1>7, <1>m DEF Inserted, Enter, Map
  <2> HIDE DEF h
  <2>5. GoodMap(long)
    BY <1>2, <2>3, <2>4, InsertGood
  <2>6. <<FixCall(s), MergeCall(s), BumpCall>> \in Seq(Pending)
    BY <1>11
  <2> HIDE DEF long
  <2> QED BY <1>1, <1>14, <2>5, <2>6, StepGood
<1>15. CASE Fail("tree")
  <2>1. "tree" \in Fault
    BY DEF Fault
  <2> QED BY <1>15, <2>1, FailGood
<1> QED BY <1>5, <1>12, <1>13, <1>14, <1>15

(* A step that changes the contents of slots to good entries.              *)
LEMMA EntriesStep ==
  ASSUME MapInv, status = "ok", todo # <<>>, NEW h \in [Slot -> Entry],
         \A t \in mm.tree : GoodEntry(h[t]),
         Settle([mm EXCEPT !.entry = h]), NEW q \in Seq(Pending), Then(q)
  PROVE  MapInv'
<1>1. GoodMap(mm)
  BY DEF MapInv
<1>2. GoodMap([mm EXCEPT !.entry = h])
  BY <1>1, WithEntries
<1> QED BY <1>2, StepGood

(* The part that two neighbours share, and what is left behind the second. *)
LEMMA SharedIs ==
  ASSUME NEW f, NEW x, GoodEntry(f), GoodEntry(x), f.start < x.start,
         x.start < End(f)
  PROVE  /\ End(f) - x.start \in Nat /\ Aligned(End(f) - x.start)
         /\ End(f) - x.start < f.size
         /\ End(f) < End(x) => End(f) - x.start < x.size
         /\ End(f) > End(x) => GoodArg(Region(End(x), End(f) - End(x), f.type))
<1>1. /\ f.start \in Nat /\ f.size \in Nat /\ x.start \in Nat /\ x.size \in Nat
      /\ End(f) = f.start + f.size /\ End(x) = x.start + x.size
      /\ End(f) <= Top /\ f.type \in Type
      /\ f.start % 4096 = 0 /\ f.size % 4096 = 0 /\ x.start % 4096 = 0
  BY GoodIs DEF Aligned, PageSize
<1>2. PICK a \in Nat, n \in Nat, b \in Nat, k \in Nat :
        a = f.start /\ n = f.size /\ b = x.start /\ k = x.size
  BY <1>1
<1>3. /\ End(f) = a + n /\ End(x) = b + k /\ a + n <= Top /\ a < b /\ b < a + n
      /\ a % 4096 = 0 /\ n % 4096 = 0 /\ b % 4096 = 0
  BY <1>1, <1>2
<1>4. (a + n) % 4096 = 0
  BY <1>3
<1>5. PICK c \in Nat : c = a + n
  OBVIOUS
<1>6. (c - b) % 4096 = 0
  BY <1>3, <1>4, <1>5
<1>7. /\ c - b \in Nat /\ c - b < n /\ (c < b + k => c - b < k)
  BY <1>3, <1>5
<1>8. ASSUME c > b + k PROVE GoodArg(Region(b + k, c - (b + k), f.type))
  <2>1. PICK p \in Nat, r \in Nat : p = b + k /\ r = c - (b + k) /\ p + r <= Top
    BY <1>3, <1>5, <1>8, TopNat
  <2>2. GoodArg(Region(p, r, f.type))
    BY <1>1, <2>1 DEF GoodArg, Region, Entry, End
  <2> QED BY <2>1, <2>2
<1> QED BY <1>2, <1>3, <1>5, <1>6, <1>7, <1>8 DEF Aligned, PageSize

(* fix_overlap(first) for any first.                                       *)
LEMMA FixGood ==
  ASSUME MapInv, status = "ok", todo # <<>>, NEW first, FixOverlap(first)
  PROVE  MapInv'
<1> DEFINE second == RB_NEXT(mm, first)
           f == mm.entry[first]
           x == mm.entry[second]
           type == HigherPrecedence(freeing, f.type, x.type)
           shared == End(f) - x.start
<1>1. GoodMap(mm) /\ mm \in Map /\ mm.entry \in [Slot -> Entry]
      /\ \A t \in mm.tree : t \in Slot /\ GoodEntry(mm.entry[t])
  BY DEF MapInv, GoodMap, Map
<1>2. <<>> \in Seq(Pending)
  OBVIOUS
<1>3. CASE ~Reaches(mm, first, second)
  <2>1. Settle(mm) /\ Then(<<>>)
    BY <1>3 DEF FixOverlap
  <2> QED BY <1>1, <1>2, <2>1, StepGood
<1>4. CASE Reaches(mm, first, second)
  <2>1. /\ FixShared(first, second) /\ x.start < End(f) /\ second # NoSlot
    BY <1>4 DEF FixOverlap, Reaches
  <2>2. first \in mm.tree
    BY <2>1 DEF RB_NEXT
  <2>3. second \in mm.tree /\ f.start < x.start
    BY <1>1, <2>1, <2>2, NextIs DEF Key
  <2>4. /\ GoodEntry(f) /\ GoodEntry(x) /\ f.start \in Nat /\ f.size \in Nat
        /\ x.start \in Nat /\ x.size \in Nat /\ f.type \in Type /\ x.type \in Type
        /\ End(f) = f.start + f.size /\ End(x) = x.start + x.size
        /\ End(f) <= Top
    BY <1>1, <2>2, <2>3, GoodIs
  <2>5. first # second /\ first \in Slot /\ second \in Slot
    BY <1>1, <2>2, <2>3, <2>4
  <2>6. type \in Type
    BY <2>4, PrecedenceType
  <2>7. FixCall(first) \in Pending
    BY <2>5, PendingIs
  <2>8. /\ shared \in Nat /\ Aligned(shared) /\ shared < f.size
        /\ End(f) < End(x) => shared < x.size
    BY <2>1, <2>3, <2>4, SharedIs
  <2> DEFINE less == [mm.entry EXCEPT ![first] = DropLast(@, shared)]
             cut == [mm.entry EXCEPT ![second] = DropFirst(@, shared)]
             both == [mm.entry EXCEPT ![second] = Retype(@, type),
                                      ![first] = DropLast(@, shared)]
  <2>9. GoodEntry(DropLast(f, shared))
    BY <2>4, <2>8, DropGood
  <2>10. less \in [Slot -> Entry] /\ \A t \in mm.tree : GoodEntry(less[t])
    <3>1. DropLast(f, shared) \in Entry
      BY <2>9, GoodIs
    <3> QED BY <1>1, <2>5, <2>9, <3>1
  <2>11. /\ [mm EXCEPT !.entry[first] = DropLast(@, shared)] = [mm EXCEPT !.entry = less]
         /\ [mm EXCEPT !.entry[second] = DropFirst(@, shared)] = [mm EXCEPT !.entry = cut]
         /\ [mm EXCEPT !.entry[second] = Retype(@, type),
                       !.entry[first] = DropLast(@, shared)] = [mm EXCEPT !.entry = both]
    BY <1>1 DEF Map
  <2> HIDE DEF less, cut, both
  <2>12. CASE End(f) < End(x) /\ Settle([mm EXCEPT !.entry = cut]) /\ Then(<<>>)
    <3>1. GoodEntry(DropFirst(x, shared)) /\ DropFirst(x, shared) \in Entry
      BY <2>4, <2>8, <2>12, DropGood, GoodIs
    <3>2. cut \in [Slot -> Entry] /\ \A t \in mm.tree : GoodEntry(cut[t])
      BY <1>1, <2>5, <3>1 DEF cut
    <3> QED BY <1>2, <2>12, <3>2, EntriesStep
  <2>13. CASE Settle([mm EXCEPT !.entry = less]) /\ Then(<<>>)
    BY <1>2, <2>10, <2>13, EntriesStep
  <2>14. CASE Settle(FreeEntry(mm, second)) /\ Then(<<FixCall(first)>>)
    <3>1. second \notin Pool(mm) /\ ~InFreed(mm, second)
      BY <1>1, <2>3 DEF GoodMap, Accounted
    <3>2. GoodMap(FreeEntry(mm, second))
      BY <1>1, <2>5, <3>1, FreeEntryGood
    <3>3. <<FixCall(first)>> \in Seq(Pending)
      BY <2>7
    <3> QED BY <2>14, <3>2, <3>3, StepGood
  <2>15. CASE /\ End(f) > End(x) /\ Settle([mm EXCEPT !.entry = less])
              /\ Then(<<AddCall(Region(End(x), End(f) - End(x), f.type))>>)
    <3> DEFINE e == Region(End(x), End(f) - End(x), f.type)
    <3>3. GoodArg(e)
      BY <2>1, <2>3, <2>4, <2>15, SharedIs
    <3> HIDE DEF e
    <3>4. AddCall(e) \in Pending
      BY <2>5, <3>3, PendingIs
    <3>5. <<AddCall(e)>> \in Seq(Pending)
      BY <3>4
    <3> QED BY <2>10, <2>15, <3>5, EntriesStep DEF e
  <2>16. CASE Settle([mm EXCEPT !.entry = both]) /\ Then(<<>>)
    <3>1. GoodEntry(Retype(x, type)) /\ Retype(x, type) \in Entry
          /\ DropLast(f, shared) \in Entry
      BY <2>4, <2>6, <2>9, RetypeGood, GoodIs
    <3>2. both \in [Slot -> Entry] /\ \A t \in mm.tree : GoodEntry(both[t])
      BY <1>1, <2>5, <2>9, <3>1 DEF both
    <3> QED BY <1>2, <2>16, <3>2, EntriesStep
  <2> QED BY <2>1, <2>11, <2>12, <2>13, <2>14, <2>15, <2>16 DEF FixShared
<1> QED BY <1>3, <1>4

(* Every step of a call keeps the invariant.                               *)
LEMMA StepsGood == ASSUME MapInv, Step PROVE MapInv'
<1>1. CASE AddEmpty \/ AddUnalignedStart \/ AddUnalignedEnd
  BY <1>1, SplitGood
<1>2. CASE AddNoSlot
  <2>1. AllocFault(mm) \in Fault /\ Fail(AllocFault(mm))
    BY <1>2, AllocFaultIs DEF AddNoSlot
  <2> QED BY <2>1, FailGood
<1>3. CASE AddNew
  BY <1>3, AddNewGood
<1>4. CASE AddAtOld
  BY <1>4, AddAtOldGood
<1>5. CASE Fix \/ FixPrev
  <2>1. status = "ok" /\ todo # <<>> /\ \E first : FixOverlap(first)
    BY <1>5 DEF Fix, FixPrev, Doing
  <2> QED BY <2>1, FixGood
<1>6. CASE Merge
  <2> DEFINE s == Head(todo).slot
  <2>1. GoodMap(mm) /\ todo # <<>>
    BY <1>6, TopCall DEF Merge
  <2>2. \/ Fail("stale")
        \/ s \in mm.tree /\ Settle(MergeAdjacent(mm, s)) /\ Then(<<>>)
        \/ Settle(mm) /\ Then(<<>>)
    BY <1>6 DEF Merge
  <2>3. "stale" \in Fault /\ <<>> \in Seq(Pending)
    BY DEF Fault
  <2>4. s \in mm.tree => GoodMap(MergeAdjacent(mm, s))
    BY <2>1, MergeGood
  <2> QED BY <2>1, <2>2, <2>3, <2>4, StepGood, FailGood
<1>7. CASE Bump
  <2>1. GoodMap(mm) /\ status = "ok" /\ todo # <<>>
    BY <1>7, TopCall DEF Bump
  <2>2. Then(<<>>) /\ UNCHANGED <<freeing, status>> /\ mm' = [mm EXCEPT !.key = @ + 1]
    BY <1>7 DEF Bump
  <2>3. mm \in Map /\ mm.key + 1 \in Nat
    BY <2>1 DEF GoodMap, Map
  <2>4. /\ mm' \in Map /\ mm'.tree = mm.tree /\ mm'.freed = mm.freed
        /\ mm'.next = mm.next /\ mm'.left = mm.left /\ mm'.entry = mm.entry
    BY <2>2, <2>3 DEF Map
  <2>5. GoodMap(mm')
    BY <2>1, <2>4, ContentsGood DEF GoodMap
  <2>6. todo' \in Seq(Pending) /\ before' \in PageView
    <3>1. <<>> \in Seq(Pending)
      OBVIOUS
    <3> QED BY <2>1, <2>2, <3>1, ThenGood
  <2> QED BY <2>2, <2>4, <2>5, <2>6 DEF MapInv
<1>8. CASE Restore
  <2>1. todo # <<>> /\ <<>> \in Seq(Pending) /\ Then(<<>>)
    BY <1>8 DEF Restore, Doing
  <2>2. todo' \in Seq(Pending) /\ before' \in PageView
    BY <2>1, ThenGood
  <2> QED BY <1>8, <2>2 DEF Restore, MapInv
<1> QED BY <1>1, <1>2, <1>3, <1>4, <1>5, <1>6, <1>7, <1>8 DEF Step

-----------------------------------------------------------------------------
(***************************************************************************)
(* gd_alloc_pages.  The entry v it found may be the one that               *)
(* mmap_alloc_entry then takes a page from.  Then either the caller's      *)
(* pages are the slots' pages ("clobbered"), or v lost its last page; and  *)
(* if nothing is left of v behind the caller's pages, v has the same start *)
(* as the entry after it ("tied").                                         *)
(***************************************************************************)
LEMMA AllocTree ==
  ASSUME NEW m, GoodMap(m), AllocFault(m) = "ok"
  PROVE  /\ ~Empty(m) => AllocEntry(m).tree = m.tree /\ AllocEntry(m).entry = m.entry
         /\ Empty(m) => /\ AllocEntry(m).tree = Scavenge(m).tree
                        /\ AllocEntry(m).entry = Scavenge(m).entry
<1>1. m \in Map /\ (Empty(m) => Scavenge(m) \in Map)
  BY ScavengeGood DEF GoodMap
<1>2. CASE m.freed # <<>>
  BY <1>1, <1>2 DEF AllocEntry, Empty, Map
<1>3. CASE m.freed = <<>> /\ m.left # 0
  BY <1>1, <1>3 DEF AllocEntry, Empty, Map
<1>4. CASE m.freed = <<>> /\ m.left = 0
  BY <1>1, <1>4 DEF AllocEntry, Empty, Map
<1> QED BY <1>2, <1>3, <1>4

LEMMA ScavengeLast ==
  ASSUME NEW m, GoodMap(m), Empty(m), AllocFault(m) = "ok",
         NEW v, v = Victim(m, 0), Way(m, v, PageSize, "loader_data") = "last"
  PROVE  /\ v \in Scavenge(m).tree
         /\ Scavenge(m).entry[v] = DropLast(m.entry[v], PageSize)
         /\ \E t \in Scavenge(m).tree \ {v} :
              Scavenge(m).entry[t].start = End(m.entry[v]) - PageSize
<1> DEFINE g == TakeLast(m, v, PageSize)
<1>1. Conventional(m, 0) # {}
  BY ScavengeGood
<1>2. v \in m.tree /\ m.entry[v].size >= PageSize /\ m.entry[v].size \in Nat
  BY <1>1, VictimIs, GoodIs
<1>3. NextJoins(m, v, "loader_data") /\ PageSize < m.entry[v].size
  BY <1>2, WayIs, PageSizeIs
<1>4. /\ GoodMap(g) /\ g.tree = m.tree
      /\ g.entry[v] = DropLast(m.entry[v], PageSize)
      /\ \E t \in m.tree \ {v} : g.entry[t].start = End(m.entry[v]) - PageSize
  BY <1>2, <1>3, PageSizeIs, TakeLastGood
<1>5. \E a, b : Scavenge(m) = [g EXCEPT !.next = a, !.left = b, !.key = @ + 1]
  BY DEF Scavenge
<1> HIDE DEF g
<1>6. Scavenge(m).tree = g.tree /\ Scavenge(m).entry = g.entry
  <2>1. g \in Map
    BY <1>4 DEF GoodMap
  <2> QED BY <1>5, <2>1 DEF Map
<1> QED BY <1>2, <1>4, <1>6

(* What mmap_alloc_entry leaves of the entry gd_alloc_pages found.         *)
Clobbers(m, v, n) ==
  /\ Empty(m) /\ Key(m, v) <= ScavengedPage(m)
  /\ ScavengedPage(m) < Key(m, v) + n

Shortened(m, g, v) ==
  /\ g.entry[v] = DropLast(m.entry[v], PageSize)
  /\ \E t \in g.tree \ {v} : g.entry[t].start = End(m.entry[v]) - PageSize

LEMMA VictimKept ==
  ASSUME NEW m, GoodMap(m), AllocFault(m) = "ok", NEW v \in m.tree,
         m.entry[v].type = "conventional",
         NEW n \in Nat, n >= PageSize, n < m.entry[v].size
  PROVE  \/ Clobbers(m, v, n)
         \/ /\ v \in AllocEntry(m).tree
            /\ \/ AllocEntry(m).entry[v] = m.entry[v]
               \/ Shortened(m, AllocEntry(m), v)
<1>1. CASE ~Empty(m)
  BY <1>1, AllocTree
<1>2. CASE Empty(m) /\ v # Victim(m, 0)
  <2>1. v \in Scavenge(m).tree /\ Scavenge(m).entry[v] = m.entry[v]
    BY <1>2, ScavengeGood
  <2> QED BY <1>2, <2>1, AllocTree
<1>3. CASE Empty(m) /\ v = Victim(m, 0)
  <2> DEFINE way == Way(m, v, PageSize, "loader_data")
  <2>1. ScavengedPage(m) = TakenAt(m, v, PageSize, "loader_data")
    BY <1>3 DEF ScavengedPage
  <2>2. m.entry[v].start \in Nat /\ m.entry[v].size \in Nat
    BY GoodIs DEF GoodMap
  <2>3. CASE way = "last"
    <3>1. /\ v \in Scavenge(m).tree
          /\ Scavenge(m).entry[v] = DropLast(m.entry[v], PageSize)
          /\ \E t \in Scavenge(m).tree \ {v} :
               Scavenge(m).entry[t].start = End(m.entry[v]) - PageSize
      BY <1>3, <2>3, ScavengeLast
    <3>2. AllocEntry(m).tree = Scavenge(m).tree /\ AllocEntry(m).entry = Scavenge(m).entry
      BY <1>3, AllocTree
    <3> QED BY <3>1, <3>2 DEF Shortened
  <2>4. CASE way # "last"
    <3>1. ScavengedPage(m) = Key(m, v)
      BY <2>1, <2>4 DEF TakenAt
    <3>2. Key(m, v) \in Nat /\ n > 0
      BY <2>2, PageSizeIs DEF Key
    <3>3. Clobbers(m, v, n)
      BY <1>3, <3>1, <3>2 DEF Clobbers
    <3> QED BY <3>3
  <2> QED BY <2>3, <2>4
<1> QED BY <1>1, <1>2, <1>3

(* gd_alloc_pages with a slot from mmap_alloc_entry.                       *)
Sliced(m, v, n, type) == TakeNew(AllocEntry(m), v, n, type, AllocSlot(m))

LEMMA SlicedGood ==
  ASSUME NEW m, GoodMap(m), AllocFault(m) = "ok", NEW v \in m.tree,
         m.entry[v].type = "conventional", NEW type \in Type,
         NEW n \in Nat, Aligned(n), n >= PageSize, n < m.entry[v].size
  PROVE  /\ Sliced(m, v, n, type) \in Map
         /\ \/ Clobbers(m, v, n)
            \/ Tied(Sliced(m, v, n, type))
            \/ GoodMap(Sliced(m, v, n, type))
<1> DEFINE a == AllocEntry(m)
           s == AllocSlot(m)
           g == Sliced(m, v, n, type)
           h == [a.entry EXCEPT ![s] = Region(Key(a, v), n, type),
                                ![v] = DropFirst(@, n)]
<1>1. GoodMap(a) /\ s \in Slot /\ s \notin Pool(a) /\ s \notin a.tree /\ ~InFreed(a, s)
  BY AllocGood
<1>2. g = TakeNew(a, v, n, type, s)
  BY DEF Sliced
<1> HIDE DEF a, s
<1>3. /\ a \in Map /\ a.entry \in [Slot -> Entry] /\ a.tree \subseteq Slot
      /\ v \in Slot
  BY <1>1 DEF GoodMap, Map
<1>4. GoodEntry(m.entry[v])
  BY DEF GoodMap
<1>5. 0 < n
  BY PageSizeIs
<1>6. a.entry[v] \in Entry /\ Key(a, v) \in Int
  BY <1>3, SlotEntry DEF Key
<1>7. h \in [Slot -> Entry]
  <2>1. Region(Key(a, v), n, type) \in Entry
    BY <1>6 DEF Region, Entry
  <2>2. /\ DropFirst(a.entry[v], n) \in Entry
        /\ DropFirst(Region(Key(a, v), n, type), n) \in Entry
    <3>1. n \in Int
      OBVIOUS
    <3> QED BY <1>6, <2>1, <3>1, EntryOps
  <2> QED BY <1>1, <1>3, <2>1, <2>2
<1>8. g = Enter(a, h, s)
  BY <1>2, <1>3 DEF TakeNew, Enter, Map
<1> HIDE DEF h, g
<1>9. g \in Map /\ g.tree = a.tree \cup {s} /\ g.entry = h
  <2>1. a.tree \cup {s} \in SUBSET Slot
    BY <1>1, <1>3
  <2> QED BY <1>3, <1>7, <1>8, <2>1 DEF Map, Enter
<1>10. \/ Clobbers(m, v, n)
       \/ v \in a.tree /\ (a.entry[v] = m.entry[v] \/ Shortened(m, a, v))
  BY VictimKept, PageSizeIs DEF a
<1>11. ASSUME v \in a.tree, n < a.entry[v].size PROVE GoodMap(g)
  <2>1. ~Used(a, s)
    BY <1>1 DEF Used
  <2> QED BY <1>1, <1>2, <1>5, <1>11, <2>1, TakeNewGood
<1>12. CASE v \in a.tree /\ a.entry[v] = m.entry[v]
  BY <1>9, <1>11, <1>12 DEF g
<1>13. CASE v \in a.tree /\ Shortened(m, a, v)
  <2>1. PICK t \in a.tree \ {v} : a.entry[t].start = End(m.entry[v]) - PageSize
    BY <1>13 DEF Shortened
  <2>2. a.entry[v].start = m.entry[v].start /\ a.entry[v].size = m.entry[v].size - PageSize
    <3>1. a.entry[v] = DropLast(m.entry[v], PageSize) /\ PageSize \in Int
      BY <1>13, PageSizeIs DEF Shortened
    <3>2. m.entry[v] \in Entry
      BY <1>4, GoodIs
    <3>3. /\ DropLast(m.entry[v], PageSize).start = m.entry[v].start
          /\ DropLast(m.entry[v], PageSize).size = m.entry[v].size - PageSize
      BY <3>1, <3>2, EntryOps
    <3> QED BY <3>1, <3>3
  <2>3. PICK b \in Nat, k \in Nat : b = m.entry[v].start /\ k = m.entry[v].size
    BY <1>4, GoodIs
  <2>4. k % 4096 = 0 /\ n % 4096 = 0 /\ n < k /\ End(m.entry[v]) = b + k
    BY <1>4, <2>3, GoodIs DEF Aligned, PageSize
  <2>5. n <= k - 4096
    BY <2>4
  <2>6. CASE n < k - 4096
    <3>1. n < a.entry[v].size
      BY <2>2, <2>3, <2>6 DEF PageSize
    <3> QED BY <1>9, <1>11, <1>13, <3>1 DEF g
  <2>7. CASE n = k - 4096
    <3>1. a.entry[t].start = b + n /\ a.entry[v].start = b
      BY <2>1, <2>2, <2>3, <2>4, <2>7 DEF PageSize
    <3>2. t # s /\ v # s /\ t # v /\ t \in Slot
      BY <1>1, <1>3, <1>13, <2>1
    <3>3. h[t] = a.entry[t] /\ h[v] = DropFirst(a.entry[v], n)
      BY <1>1, <1>3, <3>2 DEF h
    <3>4. DropFirst(a.entry[v], n).start = b + n
      <4>1. n \in Int
        OBVIOUS
      <4>2. DropFirst(a.entry[v], n).start = a.entry[v].start + n
        BY <1>6, <4>1, EntryOps
      <4> QED BY <3>1, <4>2
    <3>5. Tied(g)
      BY <1>9, <1>13, <2>1, <3>1, <3>2, <3>3, <3>4 DEF Tied, Key
    <3> QED BY <1>9, <3>5 DEF g
  <2> QED BY <2>5, <2>6, <2>7
<1>14. CASE Clobbers(m, v, n)
  BY <1>9, <1>14 DEF g
<1> QED BY <1>10, <1>12, <1>13, <1>14

(* What the map says of pages.                                             *)
LEMMA ViewIs == ASSUME NEW m, GoodMap(m) PROVE View(m) \in PageView
<1>1. ASSUME NEW p \in PageAddr, Covering(m, p) # {}
      PROVE  m.entry[First(m, Covering(m, p))].type \in Type
  <2>1. First(m, Covering(m, p)) \in m.tree
    BY <1>1, FirstIs DEF Covering
  <2> QED BY <2>1, GoodIs DEF GoodMap
<1> QED BY <1>1 DEF View, PageView

(* Bumping the key changes nothing else.                                   *)
LEMMA BumpedGood ==
  ASSUME NEW m \in Map
  PROVE  /\ [m EXCEPT !.key = @ + 1] \in Map
         /\ GoodMap(m) => GoodMap([m EXCEPT !.key = @ + 1])
<1> DEFINE g == [m EXCEPT !.key = @ + 1]
<1>1. m.key + 1 \in Nat
  BY DEF Map
<1>2. /\ g \in Map /\ g.tree = m.tree /\ g.freed = m.freed
      /\ g.next = m.next /\ g.left = m.left /\ g.entry = m.entry
  BY <1>1 DEF Map
<1> HIDE DEF g
<1>3. GoodMap(m) => GoodMap(g)
  BY <1>2, ContentsGood DEF GoodMap
<1> QED BY <1>2, <1>3 DEF g

(* gd_alloc_pages as a whole.                                              *)
LEMMA CallAllocGood ==
  ASSUME MapInv, NEW type \in Type, NEW count \in Nat, count # 0,
         CallAlloc(type, count)
  PROVE  /\ MapInv'
         /\ AllocResult(type, count) \in Nat
         /\ AllocResult(type, count) + count * PageSize <= Top
<1> DEFINE n   == count * PageSize
           v   == Victim(mm, n)
           way == Way(mm, v, n, type)
           m   == CASE way = "whole" -> TakeWhole(mm, v, type)
                    [] way = "first" -> TakeFirst(mm, v, n)
                    [] way = "last"  -> TakeLast(mm, v, n)
                    [] way = "new"   -> Sliced(mm, v, n, type)
           result == AllocResult(type, count)
<1>1. /\ status = "ok" /\ GoodMap(mm) /\ Conventional(mm, n) # {}
      /\ UNCHANGED <<todo, freeing>>
  BY DEF CallAlloc, Idle, AllocFound, Found, MapInv
<1>2. \/ /\ way = "new" /\ AllocFault(mm) # "ok" /\ status' = AllocFault(mm)
         /\ before' = View(mm) /\ mm' = mm
      \/ /\ way = "new" => AllocFault(mm) = "ok"
         /\ mm' = [m EXCEPT !.key = @ + 1]
         /\ status' = IF /\ way = "new" /\ Empty(mm)
                         /\ result <= ScavengedPage(mm) /\ ScavengedPage(mm) < result + n
                      THEN "clobbered"
                      ELSE IF Tied(m) THEN "tied" ELSE "ok"
         /\ before' = IF status' = "ok" THEN before ELSE View(mm)
  BY DEF CallAlloc, Sliced
<1>3. n \in Nat /\ Aligned(n) /\ n >= PageSize /\ 0 < n
  BY DEF Aligned, PageSize
<1>4. /\ v \in mm.tree /\ mm.entry[v].type = "conventional"
      /\ mm.entry[v].size >= n /\ mm.entry[v].size \in Nat
  BY <1>1, VictimIs, GoodIs
<1>5. /\ result = TakenAt(mm, v, n, type) /\ result \in Nat
      /\ result + n <= Top
  <2>1. result = TakenAt(mm, v, n, type)
    BY DEF AllocResult
  <2> HIDE DEF result, n, v
  <2> QED BY <1>1, <1>3, <1>4, <2>1, PageIs
<1>6. View(mm) \in PageView /\ before' \in PageView
  BY <1>1, <1>2, ViewIs DEF MapInv
<1> HIDE DEF n, v, result
<1>7. CASE way = "new" /\ AllocFault(mm) # "ok" /\ status' = AllocFault(mm) /\ mm' = mm
  BY <1>1, <1>5, <1>6, <1>7, AllocFaultIs DEF MapInv, n, result
<1>8. ASSUME way = "new" => AllocFault(mm) = "ok"
      PROVE  m \in Map /\ (GoodMap(m) \/ Tied(m) \/ (way = "new" /\ Clobbers(mm, v, n)))
  <2>1. way # "whole" => n < mm.entry[v].size
    BY <1>3, <1>4, WayIs
  <2>2. CASE way = "whole"
    <3>1. m = TakeWhole(mm, v, type)
      BY <2>2
    <3>2. GoodMap(TakeWhole(mm, v, type))
      BY <1>1, <1>4, TakeWholeGood
    <3> QED BY <3>1, <3>2 DEF GoodMap
  <2>3. CASE way = "first"
    <3>1. m = TakeFirst(mm, v, n) /\ PrevJoins(mm, v, type)
      BY <2>3, WayIs
    <3>2. GoodMap(TakeFirst(mm, v, n))
      BY <1>1, <1>3, <1>4, <2>1, <2>3, <3>1, TakeFirstGood
    <3> QED BY <3>1, <3>2 DEF GoodMap
  <2>4. CASE way = "last"
    <3>1. m = TakeLast(mm, v, n) /\ NextJoins(mm, v, type)
      BY <2>4, WayIs
    <3>2. GoodMap(TakeLast(mm, v, n))
      BY <1>1, <1>3, <1>4, <2>1, <2>4, <3>1, TakeLastGood
    <3> QED BY <3>1, <3>2 DEF GoodMap
  <2>5. CASE way = "new"
    <3>1. m = Sliced(mm, v, n, type)
      BY <2>5
    <3> QED BY <1>1, <1>3, <1>4, <1>8, <2>1, <2>5, <3>1, SlicedGood
  <2> QED BY <2>2, <2>3, <2>4, <2>5, WayIs
<1>9. way = "new" => result = Key(mm, v)
  BY <1>5 DEF TakenAt
<1> HIDE DEF way, m
<1>10. CASE /\ way = "new" => AllocFault(mm) = "ok"
            /\ mm' = [m EXCEPT !.key = @ + 1]
            /\ status' = IF /\ way = "new" /\ Empty(mm)
                            /\ result <= ScavengedPage(mm)
                            /\ ScavengedPage(mm) < result + n
                         THEN "clobbered"
                         ELSE IF Tied(m) THEN "tied" ELSE "ok"
  <2>1. m \in Map /\ (GoodMap(m) \/ Tied(m) \/ (way = "new" /\ Clobbers(mm, v, n)))
    BY <1>8, <1>10
  <2>2. mm' \in Map /\ (GoodMap(m) => GoodMap(mm'))
    BY <1>10, <2>1, BumpedGood
  <2>3. status' = "ok" => GoodMap(m)
    BY <1>9, <1>10, <2>1 DEF Clobbers
  <2>4. status' \in {"ok"} \cup Fault
    BY <1>10 DEF Fault
  <2> QED BY <1>1, <1>5, <1>6, <2>2, <2>3, <2>4 DEF MapInv, n, result
<1> QED BY <1>2, <1>7, <1>10

(* An empty map is good.                                                   *)
LEMMA EmptyGood ==
  ASSUME NEW m \in Map, m.tree = {}, m.freed = <<>>,
         m.next = <<Static, 0>>, m.left = StaticSlots
  PROVE  GoodMap(m)
<1>1. \A s : ~InFreed(m, s)
  BY DEF InFreed
<1>2. Unique(m.freed)
  BY DEF Unique
<1>3. m.next[2] + m.left <= SlotMax
  BY SlotMaxNat, SlotsAssumption
<1> QED BY <1>1, <1>2, <1>3 DEF GoodMap, Accounted


-----------------------------------------------------------------------------
(***************************************************************************)
(* The key.  No operation lowers it, and every call that changes the map   *)
(* without raising it has ++mmap_key still to come on the stack.           *)
(***************************************************************************)
LEMMA AbsorbKey ==
  ASSUME NEW m \in Map, NEW l, NEW r
  PROVE  Absorb(m, l, r).key = m.key + 1
BY DEF Absorb, FreeEntry, Map

LEMMA MergeKey ==
  ASSUME NEW m, GoodMap(m), NEW s \in m.tree
  PROVE  MergeAdjacent(m, s).key \in Nat /\ MergeAdjacent(m, s).key >= m.key
<1> DEFINE type == m.entry[s].type
           p == RB_PREV(m, s)
           x == RB_NEXT(m, s)
           with == PrevJoins(m, s, type)
           one == IF with THEN Absorb(m, p, s) ELSE m
           mid == IF with THEN p ELSE s
           again == x # NoSlot /\ one.entry[x].type = type /\ Joins(one, mid, x)
<1>1. MergeAdjacent(m, s) = IF again THEN Absorb(one, mid, x) ELSE one
  BY DEF MergeAdjacent
<1>2. m \in Map /\ m.key \in Nat
  BY DEF GoodMap, Map
<1>3. one \in Map /\ one.key \in Nat /\ one.key >= m.key
  <2>1. CASE with
    <3>1. p \in m.tree /\ Key(m, p) < Key(m, s) /\ p # s /\ Joins(m, p, s)
      BY <2>1, PrevIs, SlotEntry DEF PrevJoins, GoodMap, Map, Key
    <3>2. GoodMap(Absorb(m, p, s))
      BY <3>1, AbsorbGood
    <3> QED BY <1>2, <2>1, <3>2, AbsorbKey DEF GoodMap
  <2>2. CASE ~with
    BY <1>2, <2>2
  <2> QED BY <2>1, <2>2
<1> HIDE DEF one
<1> QED BY <1>1, <1>2, <1>3, AbsorbKey

(* Changing the contents of slots leaves the key.                          *)
LEMMA TookKey ==
  ASSUME NEW m, GoodMap(m), NEW v \in m.tree, NEW n, NEW type \in Type, NEW s
  PROVE  /\ TakeFirst(m, v, n).key = m.key
         /\ TakeLast(m, v, n).key = m.key
         /\ TakeNew(m, v, n, type, s).key = m.key
         /\ TakeWhole(m, v, type).key \in Nat
         /\ TakeWhole(m, v, type).key >= m.key
<1>1. m \in Map /\ v \in Slot /\ m.entry \in [Slot -> Entry]
  BY DEF GoodMap, Map
<1>2. /\ TakeFirst(m, v, n).key = m.key /\ TakeLast(m, v, n).key = m.key
      /\ TakeNew(m, v, n, type, s).key = m.key
  BY <1>1 DEF TakeFirst, TakeLast, TakeNew, Map
<1> DEFINE h == [m.entry EXCEPT ![v] = Retype(@, type)]
           g == [m EXCEPT !.entry = h]
<1>3. TakeWhole(m, v, type) = MergeAdjacent(g, v)
  <2>1. [m EXCEPT !.entry[v] = Retype(@, type)] = g
    BY <1>1 DEF Map
  <2> QED BY <2>1 DEF TakeWhole
<1>4. h \in [Slot -> Entry] /\ \A t \in m.tree : GoodEntry(h[t])
  <2>1. GoodEntry(m.entry[v]) /\ \A t \in m.tree : t \in Slot /\ GoodEntry(m.entry[t])
    BY <1>1 DEF GoodMap, Map
  <2>2. GoodEntry(Retype(m.entry[v], type)) /\ Retype(m.entry[v], type) \in Entry
    BY <2>1, RetypeGood, GoodIs
  <2> QED BY <1>1, <2>1, <2>2
<1> HIDE DEF h
<1>5. GoodMap(g) /\ g.tree = m.tree
  BY <1>4, WithEntries
<1>6. g.key = m.key
  BY <1>1 DEF Map
<1> HIDE DEF g
<1>7. MergeAdjacent(g, v).key \in Nat /\ MergeAdjacent(g, v).key >= m.key
  BY <1>5, <1>6, MergeKey
<1> QED BY <1>2, <1>3, <1>7

(* mmap_alloc_entry never lowers the key.                                  *)
LEMMA AllocKey ==
  ASSUME NEW m, GoodMap(m), AllocFault(m) = "ok"
  PROVE  AllocEntry(m).key \in Nat /\ AllocEntry(m).key >= m.key
<1>1. m \in Map /\ m.key \in Nat
  BY DEF GoodMap, Map
<1>2. CASE ~Empty(m)
  BY <1>1, <1>2 DEF AllocEntry, Empty, Map
<1>3. CASE Empty(m)
  <2> DEFINE v    == Victim(m, 0)
             way  == Way(m, v, PageSize, "loader_data")
             page == TakenAt(m, v, PageSize, "loader_data")
             new  == <<page, 0>>
             took == Took(m, v, way, new)
  <2>1. v \in m.tree /\ "loader_data" \in Type
    BY <1>3, ScavengeGood, VictimIs DEF Type
  <2>3. Scavenge(m) \in Map /\ Scavenge(m).key = took.key + 1
    BY <1>3, ScavengeGood DEF PageTaken, GoodMap, ScavengedPage
  <2>4. /\ TakeFirst(m, v, PageSize).key = m.key
        /\ TakeLast(m, v, PageSize).key = m.key
        /\ TakeNew(m, v, PageSize, "loader_data", new).key = m.key
        /\ TakeWhole(m, v, "loader_data").key \in Nat
        /\ TakeWhole(m, v, "loader_data").key >= m.key
    BY <2>1, TookKey
  <2>5. took.key \in Nat /\ took.key >= m.key
    <3>1. way \in {"whole", "first", "last", "new"}
      BY WayIs
    <3>2. /\ way = "whole" => took = TakeWhole(m, v, "loader_data")
          /\ way = "first" => took = TakeFirst(m, v, PageSize)
          /\ way = "last" => took = TakeLast(m, v, PageSize)
          /\ way = "new" => took = TakeNew(m, v, PageSize, "loader_data", new)
      BY DEF Took
    <3> HIDE DEF took, way, new, v
    <3> QED BY <1>1, <2>4, <3>1, <3>2
  <2>7. AllocEntry(m).key = Scavenge(m).key
    BY <1>3, <2>3 DEF AllocEntry, Empty, Map
  <2> HIDE DEF took
  <2> QED BY <1>1, <2>3, <2>5, <2>7
<1> QED BY <1>2, <1>3

-----------------------------------------------------------------------------
(***************************************************************************)
(* The call stack: the call at its top is replaced by the calls q.         *)
(***************************************************************************)
Replaced(old, q) == q \o Tail(old)

LEMMA StackIs ==
  ASSUME NEW old \in Seq(Pending), old # <<>>, NEW q \in Seq(Pending)
  PROVE  /\ Replaced(old, q) \in Seq(Pending)
         /\ Len(old) \in Nat \ {0} /\ Len(q) \in Nat
         /\ Len(Replaced(old, q)) = Len(q) + (Len(old) - 1)
         /\ \A i \in 1 .. Len(q) : Replaced(old, q)[i] = q[i]
         /\ \A i \in 2 .. Len(old) : /\ Replaced(old, q)[Len(q) + (i - 1)] = old[i]
                                     /\ Len(q) + (i - 1) \in 1 .. Len(Replaced(old, q))
         /\ \A i \in Len(q) + 1 .. Len(Replaced(old, q)) :
              /\ i - Len(q) + 1 \in 2 .. Len(old)
              /\ Replaced(old, q)[i] = old[i - Len(q) + 1]
<1> DEFINE t == Tail(old)
           n == Len(old)
           k == Len(q)
<1>1. /\ t \in Seq(Pending) /\ n \in Nat \ {0} /\ Len(t) = n - 1 /\ k \in Nat
      /\ \A i \in 1 .. n - 1 : t[i] = old[i + 1]
  BY HeadTailProperties, LenProperties, EmptySeq
<1>2. /\ Replaced(old, q) \in Seq(Pending) /\ Len(Replaced(old, q)) = k + (n - 1)
      /\ \A i \in 1 .. k + (n - 1) :
           Replaced(old, q)[i] = IF i <= k THEN q[i] ELSE t[i - k]
  BY <1>1, ConcatProperties DEF Replaced
<1> HIDE DEF t, n, k
<1>3. \A i \in 1 .. k : Replaced(old, q)[i] = q[i]
  BY <1>1, <1>2
<1>4. ASSUME NEW i \in 2 .. n
      PROVE  Replaced(old, q)[k + (i - 1)] = old[i] /\ k + (i - 1) \in 1 .. k + (n - 1)
  <2>1. k + (i - 1) \in 1 .. k + (n - 1) /\ ~(k + (i - 1) <= k)
    BY <1>1
  <2>2. (k + (i - 1)) - k = i - 1 /\ i - 1 \in 1 .. n - 1 /\ (i - 1) + 1 = i
    BY <1>1
  <2> QED BY <1>1, <1>2, <2>1, <2>2
<1>5. ASSUME NEW i \in k + 1 .. k + (n - 1)
      PROVE  i - k + 1 \in 2 .. n /\ Replaced(old, q)[i] = old[i - k + 1]
  <2>1. i \in 1 .. k + (n - 1) /\ ~(i <= k) /\ i - k \in 1 .. n - 1
        /\ i - k + 1 \in 2 .. n
    BY <1>1
  <2> QED BY <1>1, <1>2, <2>1
<1> QED BY <1>1, <1>2, <1>3, <1>4, <1>5 DEF n, k

Bumps(q) == \E i \in 1 .. Len(q) : q[i].op = "bump"

BumpFollows(q) ==
  \A i \in 1 .. Len(q) : q[i].op \in {"fix", "fixprev", "merge"}
                          => \E j \in i + 1 .. Len(q) : q[j].op = "bump"

(* The calls below the top keep what follows them.                         *)
LEMMA BumpKept ==
  ASSUME NEW old \in Seq(Pending), old # <<>>, BumpFollows(old),
         NEW q \in Seq(Pending),
         \/ BumpFollows(q)
         \/ old[1].op \in {"fix", "fixprev", "merge"}
  PROVE  /\ BumpFollows(Replaced(old, q))
         /\ Bumps(q) => Bumps(Replaced(old, q))
         /\ old[1].op \in {"fix", "fixprev", "merge"} => Bumps(Replaced(old, q))
         /\ old[1].op # "bump" /\ Bumps(old) => Bumps(Replaced(old, q))
<1> DEFINE r == Replaced(old, q)
           n == Len(old)
           k == Len(q)
           Three == {"fix", "fixprev", "merge"}
<1>1. /\ n \in Nat \ {0} /\ k \in Nat /\ Len(r) = k + (n - 1)
      /\ \A i \in 1 .. k : r[i] = q[i]
      /\ \A i \in 2 .. n : r[k + (i - 1)] = old[i] /\ k + (i - 1) \in 1 .. Len(r)
      /\ \A i \in k + 1 .. Len(r) : i - k + 1 \in 2 .. n /\ r[i] = old[i - k + 1]
  BY StackIs
<1> HIDE DEF r
<1>2. ASSUME NEW j \in 2 .. n, old[j].op = "bump"
      PROVE  k + (j - 1) \in k + 1 .. Len(r) /\ r[k + (j - 1)].op = "bump"
  BY <1>1, <1>2
<1>3. ASSUME NEW i \in 1 .. n, old[i].op \in Three
      PROVE  \E j \in 2 .. n : j > i /\ old[j].op = "bump"
  <2>1. PICK j \in i + 1 .. n : old[j].op = "bump"
    BY <1>3 DEF BumpFollows, n
  <2> QED BY <1>1, <2>1
<1> HIDE DEF n, k
<1>4. BumpFollows(r)
  <2>1. SUFFICES ASSUME NEW i \in 1 .. Len(r), r[i].op \in Three
                 PROVE  \E j \in i + 1 .. Len(r) : r[j].op = "bump"
    BY DEF BumpFollows
  <2>2. CASE i \in 1 .. k
    <3>1. CASE BumpFollows(q)
      <4>1. PICK j \in i + 1 .. k : q[j].op = "bump"
        BY <1>1, <2>1, <2>2, <3>1 DEF BumpFollows, k
      <4>2. j \in 1 .. k /\ j \in i + 1 .. Len(r)
        BY <1>1, <2>2, <4>1
      <4> QED BY <1>1, <4>1, <4>2
    <3>2. CASE old[1].op \in Three
      <4>1. PICK j \in 2 .. n : old[j].op = "bump"
        BY <1>1, <1>3, <3>2
      <4>2. k + (j - 1) \in i + 1 .. Len(r) /\ r[k + (j - 1)].op = "bump"
        BY <1>1, <1>2, <2>2, <4>1, SMTT(30)
      <4> QED BY <4>2
    <3> QED BY <3>1, <3>2
  <2>3. CASE i \in k + 1 .. Len(r)
    <3>1. i - k + 1 \in 2 .. n /\ old[i - k + 1].op \in Three
      BY <1>1, <2>1, <2>3
    <3>2. PICK j \in 2 .. n : j > i - k + 1 /\ old[j].op = "bump"
      BY <1>1, <1>3, <3>1
    <3>3. k + (j - 1) \in i + 1 .. Len(r) /\ r[k + (j - 1)].op = "bump"
      BY <1>1, <1>2, <2>3, <3>2
    <3> QED BY <3>3
  <2> QED BY <1>1, <2>1, <2>2, <2>3
<1>5. Bumps(q) => Bumps(r)
  BY <1>1 DEF Bumps, k
<1>6. ASSUME old[1].op \in Three PROVE Bumps(r)
  <2>1. PICK j \in 2 .. n : old[j].op = "bump"
    BY <1>1, <1>3, <1>6
  <2> QED BY <1>1, <1>2, <2>1 DEF Bumps
<1>7. ASSUME old[1].op # "bump", Bumps(old) PROVE Bumps(r)
  <2>1. PICK j \in 2 .. n : old[j].op = "bump"
    BY <1>1, <1>7 DEF Bumps, n
  <2> QED BY <1>1, <1>2, <2>1 DEF Bumps
<1> QED BY <1>4, <1>5, <1>6, <1>7 DEF r

-----------------------------------------------------------------------------
(***************************************************************************)
(* The extent of an entry, and what fix_overlap does to extents and types. *)
(***************************************************************************)
Hi(m, s) == End(m.entry[s])
Ty(m, s) == m.entry[s].type

LEMMA Extent ==
  ASSUME NEW m, GoodMap(m), NEW s \in m.tree
  PROVE  /\ s \in Slot /\ GoodEntry(m.entry[s])
         /\ Key(m, s) \in Nat /\ Hi(m, s) \in Nat /\ Ty(m, s) \in Type
         /\ Key(m, s) % 4096 = 0 /\ Hi(m, s) % 4096 = 0
         /\ Key(m, s) + 4096 <= Hi(m, s) /\ Hi(m, s) <= Top
         /\ m.entry[s].start = Key(m, s) /\ m.entry[s].size = Hi(m, s) - Key(m, s)
<1>1. s \in Slot /\ GoodEntry(m.entry[s])
  BY DEF GoodMap, Map
<1>2. PICK a \in Nat, n \in Nat : a = m.entry[s].start /\ n = m.entry[s].size
  BY <1>1, GoodIs
<1>3. /\ End(m.entry[s]) = a + n /\ a + n <= Top /\ n > 0 /\ m.entry[s].type \in Type
      /\ a % 4096 = 0 /\ n % 4096 = 0
  BY <1>1, <1>2, GoodIs DEF Aligned, PageSize
<1>4. (a + n) % 4096 = 0 /\ n >= 4096
  BY <1>3
<1> QED BY <1>1, <1>2, <1>3, <1>4 DEF Key, Hi, Ty

(* Entries other than those in S are as before.                            *)
Elsewhere(m, g, S) == \A t \in Slot \ S : g.entry[t] = m.entry[t]

(* The four things fix_overlap does: the second entry loses its first      *)
(* pages, the first one its last pages, the second one is freed.           *)
CutSecond(m, g, f, x) ==
  /\ g.tree = m.tree /\ Elsewhere(m, g, {x})
  /\ Key(g, x) = Hi(m, f) /\ Hi(g, x) = Hi(m, x) /\ Ty(g, x) = Ty(m, x)

CutFirst(m, g, f, x, type) ==
  /\ g.tree = m.tree /\ Elsewhere(m, g, {f, x})
  /\ Key(g, f) = Key(m, f) /\ Hi(g, f) = Key(m, x) /\ Ty(g, f) = Ty(m, f)
  /\ Key(g, x) = Key(m, x) /\ Hi(g, x) = Hi(m, x) /\ Ty(g, x) = type

DropSecond(m, g, f, x) == g.tree = m.tree \ {x} /\ g.entry = m.entry

Fixed(m, g, f, x, high, q) ==
  \/ /\ Hi(m, f) < Hi(m, x) /\ high = Ty(m, f)
     /\ CutSecond(m, g, f, x) /\ q = <<>>
  \/ /\ Hi(m, f) < Hi(m, x) /\ high # Ty(m, f)
     /\ CutFirst(m, g, f, x, Ty(m, x)) /\ q = <<>>
  \/ /\ Hi(m, f) > Hi(m, x) /\ high = Ty(m, f)
     /\ DropSecond(m, g, f, x) /\ q = <<FixCall(f)>>
  \/ /\ Hi(m, f) > Hi(m, x) /\ high # Ty(m, f)
     /\ CutFirst(m, g, f, x, Ty(m, x))
     /\ q = <<AddCall(Region(Hi(m, x), Hi(m, f) - Hi(m, x), Ty(m, f)))>>
  \/ /\ Hi(m, f) = Hi(m, x)
     /\ CutFirst(m, g, f, x, high) /\ q = <<>>

LEMMA FixIs ==
  ASSUME MapInv, status = "ok", todo # <<>>, NEW f, FixOverlap(f)
  PROVE  /\ \E q \in Seq(Pending) :
              /\ Then(q)
              /\ \/ ~Reaches(mm, f, RB_NEXT(mm, f)) /\ mm' = mm /\ q = <<>>
                 \/ /\ f \in mm.tree /\ RB_NEXT(mm, f) \in mm.tree
                    /\ Key(mm, f) < Key(mm, RB_NEXT(mm, f))
                    /\ Key(mm, RB_NEXT(mm, f)) < Hi(mm, f)
                    /\ Fixed(mm, mm', f, RB_NEXT(mm, f),
                             HigherPrecedence(freeing, Ty(mm, f),
                                              Ty(mm, RB_NEXT(mm, f))), q)
         /\ freeing' = freeing /\ (status' = "ok" => ~Tied(mm'))
<1> DEFINE x == RB_NEXT(mm, f)
<1>1. /\ GoodMap(mm) /\ mm \in Map /\ mm.entry \in [Slot -> Entry]
      /\ <<>> \in Seq(Pending)
  BY DEF MapInv, GoodMap, Map
<1>2. CASE ~Reaches(mm, f, x)
  BY <1>1, <1>2 DEF FixOverlap, Settle
<1>3. CASE Reaches(mm, f, x)
  <2> DEFINE e == mm.entry[f]
             d == mm.entry[x]
             type == HigherPrecedence(freeing, e.type, d.type)
             shared == End(e) - d.start
             less == [mm.entry EXCEPT ![f] = DropLast(@, shared)]
             cut == [mm.entry EXCEPT ![x] = DropFirst(@, shared)]
             both == [mm.entry EXCEPT ![x] = Retype(@, type),
                                      ![f] = DropLast(@, shared)]
             rest == Region(End(d), End(e) - End(d), e.type)
  <2>1. FixShared(f, x) /\ d.start < End(e) /\ x # NoSlot
    BY <1>3 DEF FixOverlap, Reaches
  <2>2. f \in mm.tree
    BY <2>1 DEF RB_NEXT
  <2>3. x \in mm.tree /\ Key(mm, f) < Key(mm, x)
    BY <1>1, <2>1, <2>2, NextIs
  <2>4. /\ f \in Slot /\ x \in Slot /\ e \in Entry /\ d \in Entry
        /\ GoodEntry(e) /\ GoodEntry(d)
        /\ Key(mm, f) \in Nat /\ Hi(mm, f) \in Nat /\ Ty(mm, f) \in Type
        /\ Key(mm, x) \in Nat /\ Hi(mm, x) \in Nat /\ Ty(mm, x) \in Type
        /\ e.start = Key(mm, f) /\ e.size = Hi(mm, f) - Key(mm, f)
        /\ d.start = Key(mm, x) /\ d.size = Hi(mm, x) - Key(mm, x)
    BY <1>1, <2>2, <2>3, Extent, GoodIs
  <2>5. /\ End(e) = Hi(mm, f) /\ End(d) = Hi(mm, x) /\ e.type = Ty(mm, f)
        /\ d.type = Ty(mm, x) /\ f # x
    BY <2>3, <2>4 DEF Hi, Ty
  <2>6. type \in Type
    BY <2>4, <2>5, PrecedenceType
  <2>7. /\ [mm EXCEPT !.entry[f] = DropLast(@, shared)] = [mm EXCEPT !.entry = less]
        /\ [mm EXCEPT !.entry[x] = DropFirst(@, shared)] = [mm EXCEPT !.entry = cut]
        /\ [mm EXCEPT !.entry[x] = Retype(@, type),
                      !.entry[f] = DropLast(@, shared)] = [mm EXCEPT !.entry = both]
    BY <1>1 DEF Map
  <2>8. \/ /\ End(e) < End(d) /\ type = e.type
           /\ mm' = [mm EXCEPT !.entry = cut] /\ Then(<<>>)
        \/ /\ End(e) < End(d) /\ type # e.type
           /\ mm' = [mm EXCEPT !.entry = less] /\ Then(<<>>)
        \/ /\ End(e) > End(d) /\ type = e.type
           /\ mm' = FreeEntry(mm, x) /\ Then(<<FixCall(f)>>)
        \/ /\ End(e) > End(d) /\ type # e.type
           /\ mm' = [mm EXCEPT !.entry = less] /\ Then(<<AddCall(rest)>>)
        \/ /\ End(e) = End(d)
           /\ mm' = [mm EXCEPT !.entry = both] /\ Then(<<>>)
    BY <2>1, <2>7 DEF FixShared, Settle
  <2>9. freeing' = freeing /\ (status' = "ok" => ~Tied(mm'))
    BY <2>1 DEF FixShared, Settle
  <2>10. shared \in Int /\ shared = Hi(mm, f) - Key(mm, x)
    BY <2>4, <2>5
  <2>11. /\ DropLast(e, shared).start = Key(mm, f)
         /\ End(DropLast(e, shared)) = Key(mm, x)
         /\ DropLast(e, shared).type = Ty(mm, f)
         /\ DropFirst(d, shared).start = Hi(mm, f)
         /\ End(DropFirst(d, shared)) = Hi(mm, x)
         /\ DropFirst(d, shared).type = Ty(mm, x)
    <3>1. /\ DropLast(e, shared).start = e.start
          /\ DropLast(e, shared).size = e.size - shared
          /\ DropLast(e, shared).type = e.type
          /\ DropFirst(d, shared).start = d.start + shared
          /\ DropFirst(d, shared).size = d.size - shared
          /\ DropFirst(d, shared).type = d.type
      BY <2>4, <2>10, EntryOps
    <3>2. PICK a \in Int, b \in Int, k \in Int, l \in Int :
            /\ a = Key(mm, f) /\ b = Hi(mm, f) /\ k = Key(mm, x) /\ l = Hi(mm, x)
      BY <2>4
    <3>3. e.start = a /\ e.size = b - a /\ d.start = k /\ d.size = l - k /\ shared = b - k
      BY <2>4, <2>10, <3>2
    <3> HIDE DEF shared, e, d
    <3>4. a + ((b - a) - (b - k)) = k /\ k + (b - k) = b
          /\ (k + (b - k)) + ((l - k) - (b - k)) = l
      BY <3>2
    <3> QED BY <2>5, <3>1, <3>2, <3>3, <3>4 DEF End
  <2>12. /\ Retype(d, type).start = Key(mm, x) /\ End(Retype(d, type)) = Hi(mm, x)
         /\ Retype(d, type).type = type
    BY <2>4, <2>5, <2>6, RetypeIs DEF End
  <2>13. FixCall(f) \in Pending /\ (End(e) > End(d) => AddCall(rest) \in Pending)
    <3>1. e.start < d.start
      BY <2>3, <2>4
    <3>2. End(e) > End(d) => GoodArg(rest)
      BY <2>1, <2>4, <3>1, SharedIs
    <3> HIDE DEF rest
    <3> QED BY <2>4, <3>2, PendingIs
  <2>14. less[f] = DropLast(e, shared) /\ \A t \in Slot \ {f} : less[t] = mm.entry[t]
    BY <1>1, <2>4
  <2>15. cut[x] = DropFirst(d, shared) /\ \A t \in Slot \ {x} : cut[t] = mm.entry[t]
    BY <1>1, <2>4
  <2>16. /\ both[f] = DropLast(e, shared) /\ both[x] = Retype(d, type)
         /\ \A t \in Slot \ {f, x} : both[t] = mm.entry[t]
    BY <1>1, <2>4, <2>5
  <2> HIDE DEF less, cut, both, shared, rest, type
  <2>17. ASSUME NEW h, mm' = [mm EXCEPT !.entry = h]
         PROVE  mm'.tree = mm.tree /\ mm'.entry = h
    BY <1>1, <2>17 DEF Map
  <2>18. mm' = [mm EXCEPT !.entry = cut] => CutSecond(mm, mm', f, x)
    <3>1. SUFFICES ASSUME mm' = [mm EXCEPT !.entry = cut] PROVE CutSecond(mm, mm', f, x)
      OBVIOUS
    <3>2. mm'.tree = mm.tree /\ mm'.entry = cut
      BY <2>17, <3>1
    <3> QED BY <2>4, <2>11, <2>15, <3>2 DEF CutSecond, Elsewhere, Key, Hi, Ty
  <2>19. mm' = [mm EXCEPT !.entry = less] => CutFirst(mm, mm', f, x, Ty(mm, x))
    <3>1. SUFFICES ASSUME mm' = [mm EXCEPT !.entry = less]
                   PROVE  CutFirst(mm, mm', f, x, Ty(mm, x))
      OBVIOUS
    <3>2. mm'.tree = mm.tree /\ mm'.entry = less
      BY <2>17, <3>1
    <3>3. less[x] = d
      BY <2>4, <2>5, <2>14
    <3> QED BY <2>4, <2>5, <2>11, <2>14, <3>2, <3>3 DEF CutFirst, Elsewhere, Key, Hi, Ty
  <2>20. mm' = [mm EXCEPT !.entry = both] => CutFirst(mm, mm', f, x, type)
    <3>1. SUFFICES ASSUME mm' = [mm EXCEPT !.entry = both]
                   PROVE  CutFirst(mm, mm', f, x, type)
      OBVIOUS
    <3>2. mm'.tree = mm.tree /\ mm'.entry = both
      BY <2>17, <3>1
    <3> QED BY <2>4, <2>5, <2>11, <2>12, <2>16, <3>2 DEF CutFirst, Elsewhere, Key, Hi, Ty
  <2>21. mm' = FreeEntry(mm, x) => DropSecond(mm, mm', f, x)
    BY <1>1 DEF FreeEntry, DropSecond, Map
  <2>22. /\ rest = Region(Hi(mm, x), Hi(mm, f) - Hi(mm, x), Ty(mm, f))
         /\ type = HigherPrecedence(freeing, Ty(mm, f), Ty(mm, x))
    BY <2>5 DEF rest, type
  <2>23. PICK q \in Seq(Pending) : Then(q) /\ Fixed(mm, mm', f, x, type, q)
    <3>1. <<FixCall(f)>> \in Seq(Pending)
          /\ (End(e) > End(d) => <<AddCall(rest)>> \in Seq(Pending))
      BY <2>13
    <3> HIDE DEF e, d, x
    <3> QED BY <1>1, <2>5, <2>8, <2>18, <2>19, <2>20, <2>21, <2>22, <3>1 DEF Fixed
  <2> QED BY <2>1, <2>2, <2>3, <2>4, <2>5, <2>9, <2>22, <2>23
<1> QED BY <1>2, <1>3

Upwards ==
  /\ mm'.key \in Nat /\ mm'.key >= mm.key
  /\ BumpFollows(todo')
  /\ status' = "ok" => \/ mm'.key > mm.key \/ Bumps(todo')
                       \/ mm' = mm /\ (Bumps(todo) => Bumps(todo'))

(* A failing call does not return.                                         *)
LEMMA FailUpwards ==
  ASSUME MapInv, BumpFollows(todo), NEW f \in Fault, Fail(f) PROVE Upwards
<1>1. f # "ok" /\ mm.key \in Nat
  BY DEF Fault, MapInv, Map
<1> QED BY <1>1 DEF Upwards, Fail

(* A step that pops the call or goes on with calls that end in BumpCall.   *)
LEMMA ThenUpwards ==
  ASSUME MapInv, todo # <<>>, BumpFollows(todo), NEW q \in Seq(Pending), Then(q),
         mm'.key \in Nat, mm'.key >= mm.key,
         \/ BumpFollows(q) /\ (Bumps(q) \/ (mm' = mm /\ Head(todo).op # "bump"))
         \/ Head(todo).op \in {"fix", "fixprev", "merge"}
  PROVE  Upwards
<1>1. todo \in Seq(Pending) /\ Head(todo) = todo[1] /\ todo' = Replaced(todo, q)
  BY HeadTailProperties DEF MapInv, Then, Replaced
<1> QED BY <1>1, BumpKept DEF Upwards

LEMMA AddNewUpwards == ASSUME MapInv, BumpFollows(todo), AddNew PROVE Upwards
<1> DEFINE s == AllocSlot(mm)
           m == AllocEntry(mm)
           q == <<FixCall(s), FixPrevCall(s), MergeCall(s), BumpCall>>
<1>1. GoodMap(mm) /\ todo # <<>> /\ AllocFault(mm) = "ok"
  BY ArgGood DEF AddNew
<1>2. GoodMap(m) /\ s \in Slot /\ m.key \in Nat /\ m.key >= mm.key
  BY <1>1, AllocGood, AllocKey
<1>3. mm' = Inserted(Filled(m, s, Arg), s) /\ Then(q)
  BY DEF AddNew, Settle
<1> HIDE DEF s, m
<1>4. mm'.key = m.key
  <2>1. m \in Map
    BY <1>2 DEF GoodMap
  <2> QED BY <1>3, <2>1 DEF Inserted, Filled, Map
<1>5. q \in Seq(Pending)
  <2>1. /\ FixCall(s) \in Pending /\ FixPrevCall(s) \in Pending
        /\ MergeCall(s) \in Pending /\ BumpCall \in Pending
    BY <1>2, PendingIs
  <2> QED BY <2>1
<1>6. BumpFollows(q) /\ Bumps(q)
  BY DEF BumpFollows, Bumps, BumpCall
<1> QED BY <1>1, <1>2, <1>3, <1>4, <1>5, <1>6, ThenUpwards

LEMMA AddAtOldUpwards == ASSUME MapInv, BumpFollows(todo), AddAtOld PROVE Upwards
<1> DEFINE s == AllocSlot(mm)
           g == AllocEntry(mm)
           m == Filled(g, s, Arg)
<1>1. GoodMap(mm) /\ todo # <<>> /\ AllocFault(mm) = "ok"
  BY ArgGood DEF AddAtOld
<1>2. GoodMap(g) /\ s \in Slot /\ g.key \in Nat /\ g.key >= mm.key
  BY <1>1, AllocGood, AllocKey
<1>3. PICK old \in At(g, Arg.start) : AddOver(old)
  BY DEF AddAtOld
<1>4. old \in Slot /\ g \in Map
  BY <1>2, <1>3 DEF At, GoodMap, Map
<1> DEFINE o == m.entry[old]
           type == HigherPrecedence(freeing, o.type, Arg.type)
           same == FreeEntry([m EXCEPT !.entry[old] = Retype(@, type)], s)
           short == Inserted([m EXCEPT !.entry[s] = Retype(@, type),
                                       !.entry[old] = DropFirst(@, Arg.size)], s)
           long == Inserted([m EXCEPT !.entry[old] = Retype(@, type),
                                      !.entry[s] = DropFirst(@, o.size)], s)
<1>5. \/ mm' = same /\ Then(<<MergeCall(old), BumpCall>>)
      \/ mm' = short /\ Then(<<MergeCall(s), BumpCall>>)
      \/ Fail("tree")
      \/ mm' = long /\ Then(<<FixCall(s), MergeCall(s), BumpCall>>)
  BY <1>3 DEF AddOver, Settle
<1> HIDE DEF g, s
<1>6. m.key = g.key /\ m = [g EXCEPT !.entry = m.entry]
  BY <1>4 DEF Filled, Map
<1>7. same.key = g.key /\ short.key = g.key /\ long.key = g.key
  BY <1>4 DEF FreeEntry, Inserted, Filled, Map
<1>8. /\ MergeCall(old) \in Pending /\ BumpCall \in Pending
      /\ MergeCall(s) \in Pending /\ FixCall(s) \in Pending
  BY <1>2, <1>4, PendingIs
<1> HIDE DEF same, short, long
<1>9. ASSUME NEW q, \/ q = <<MergeCall(old), BumpCall>>
                    \/ q = <<MergeCall(s), BumpCall>>
                    \/ q = <<FixCall(s), MergeCall(s), BumpCall>>,
             Then(q), mm'.key = g.key
      PROVE  Upwards
  <2>1. q \in Seq(Pending)
    <3>1. /\ <<MergeCall(old), BumpCall>> \in Seq(Pending)
          /\ <<MergeCall(s), BumpCall>> \in Seq(Pending)
      BY <1>8
    <3>2. <<FixCall(s), MergeCall(s), BumpCall>> \in Seq(Pending)
      BY <1>8
    <3> QED BY <1>9, <3>1, <3>2
  <2>2. BumpFollows(q) /\ Bumps(q)
    BY <1>9 DEF BumpFollows, Bumps, BumpCall
  <2> QED BY <1>1, <1>2, <1>9, <2>1, <2>2, ThenUpwards
<1>10. CASE Fail("tree")
  BY <1>10, FailUpwards DEF Fault
<1> QED BY <1>5, <1>7, <1>9, <1>10

(* No step of a call lowers the key, and one that changes the map raises   *)
(* it or has ++mmap_key still to come.                                     *)
LEMMA StepUpwards == ASSUME MapInv, BumpFollows(todo), Step PROVE Upwards
<1>0. mm \in Map /\ mm.key \in Nat
  BY DEF MapInv, Map
<1>1. CASE AddEmpty \/ AddUnalignedStart \/ AddUnalignedEnd
  <2>1. mm' = mm /\ todo # <<>> /\ Head(todo).op = "add"
    BY <1>1 DEF AddEmpty, AddUnalignedStart, AddUnalignedEnd, Doing
  <2>2. MapInv'
    BY <1>1, SplitGood
  <2>3. PICK q : Then(q) /\ q \in Seq(Pending) /\ BumpFollows(q)
    <3>1. BumpFollows(<<>>) /\ <<>> \in Seq(Pending)
      BY DEF BumpFollows
    <3>2. ASSUME NEW e, NEW f, GoodArg(e), f.size > 0 => GoodArg(f)
          PROVE  LET q == IF f.size > 0 THEN <<AddCall(e), AddCall(f)>> ELSE <<AddCall(e)>>
                 IN q \in Seq(Pending) /\ BumpFollows(q)
      <4>1. AddCall(e) \in Pending /\ (f.size > 0 => AddCall(f) \in Pending)
        BY <3>2, PendingIs
      <4> QED BY <4>1 DEF BumpFollows, AddCall
    <3>3. GoodArg(Arg)
      BY <1>1, TopCall DEF AddEmpty, AddUnalignedStart, AddUnalignedEnd
    <3>4. CASE AddEmpty
      BY <3>1, <3>4 DEF AddEmpty
    <3>5. CASE AddUnalignedStart
      <4> DEFINE head == Arg.start % PageSize
                 page == Unusable(Arg.start - head)
                 rest == DropFirst(Arg, PageSize - head)
      <4>1. /\ Arg.size # 0
            /\ Then(IF rest.size > 0 THEN <<AddCall(page), AddCall(rest)>>
                                     ELSE <<AddCall(page)>>)
        BY <3>5 DEF AddUnalignedStart
      <4>2. GoodArg(page) /\ (rest.size > 0 => GoodArg(rest))
        BY <3>3, <4>1, SplitStart
      <4> HIDE DEF page, rest
      <4> QED BY <3>2, <4>1, <4>2
    <3>6. CASE AddUnalignedEnd
      <4> DEFINE tail == Arg.size % PageSize
                 page == Unusable(End(Arg) - tail)
                 rest == DropLast(Arg, tail)
      <4>1. /\ Aligned(Arg.start) /\ ~Aligned(Arg.size)
            /\ Then(IF rest.size > 0 THEN <<AddCall(page), AddCall(rest)>>
                                     ELSE <<AddCall(page)>>)
        BY <3>6 DEF AddUnalignedEnd
      <4>2. GoodArg(page) /\ (rest.size > 0 => GoodArg(rest))
        BY <3>3, <4>1, SplitEnd
      <4> HIDE DEF page, rest
      <4> QED BY <3>2, <4>1, <4>2
    <3> QED BY <1>1, <3>4, <3>5, <3>6
  <2> QED BY <1>0, <2>1, <2>3, ThenUpwards
<1>2. CASE AddNoSlot
  <2>1. AllocFault(mm) \in Fault /\ Fail(AllocFault(mm))
    BY <1>2, AllocFaultIs DEF AddNoSlot
  <2> QED BY <2>1, FailUpwards
<1>3. CASE AddNew
  BY <1>3, AddNewUpwards
<1>4. CASE AddAtOld
  BY <1>4, AddAtOldUpwards
<1>5. CASE Fix \/ FixPrev
  <2>1. /\ status = "ok" /\ todo # <<>> /\ Head(todo).op \in {"fix", "fixprev"}
        /\ \E first : FixOverlap(first)
    BY <1>5 DEF Fix, FixPrev, Doing
  <2>2. PICK first : FixOverlap(first)
    BY <2>1
  <2> DEFINE second == RB_NEXT(mm, first)
  <2>3. mm'.key = mm.key
    <3>1. CASE Reaches(mm, first, second)
      BY <1>0, <2>2, <3>1 DEF FixOverlap, FixShared, Settle, FreeEntry, Map
    <3>2. CASE ~Reaches(mm, first, second)
      BY <2>2, <3>2 DEF FixOverlap, Settle
    <3> QED BY <3>1, <3>2
  <2>4. \E q \in Seq(Pending) : Then(q)
    BY <2>1, <2>2, FixIs
  <2> QED BY <1>0, <2>1, <2>3, <2>4, ThenUpwards
<1>6. CASE Merge
  <2> DEFINE s == Head(todo).slot
  <2>1. GoodMap(mm) /\ todo # <<>> /\ Head(todo).op = "merge"
    BY <1>6, TopCall DEF Merge, Doing
  <2>2. \/ Fail("stale")
        \/ s \in mm.tree /\ mm' = MergeAdjacent(mm, s) /\ Then(<<>>)
        \/ mm' = mm /\ Then(<<>>)
    BY <1>6 DEF Merge, Settle
  <2>3. "stale" \in Fault /\ <<>> \in Seq(Pending)
    BY DEF Fault
  <2>4. mm.key >= mm.key /\ (s \in mm.tree => /\ MergeAdjacent(mm, s).key \in Nat
                                              /\ MergeAdjacent(mm, s).key >= mm.key)
    BY <1>0, <2>1, MergeKey
  <2> QED BY <1>0, <2>1, <2>2, <2>3, <2>4, ThenUpwards, FailUpwards
<1>7. CASE Bump
  <2>1. /\ mm' = [mm EXCEPT !.key = @ + 1] /\ Then(<<>>) /\ todo # <<>>
        /\ <<>> \in Seq(Pending)
    BY <1>7 DEF Bump, Doing
  <2>2. mm'.key = mm.key + 1
    BY <1>0, <2>1 DEF Map
  <2>3. todo' = Replaced(todo, <<>>) /\ todo \in Seq(Pending) /\ BumpFollows(<<>>)
    BY <2>1 DEF Then, Replaced, MapInv, BumpFollows
  <2>4. BumpFollows(todo')
    BY <2>1, <2>3, BumpKept
  <2> QED BY <1>0, <2>2, <2>4 DEF Upwards
<1>8. CASE Restore
  <2>1. /\ todo # <<>> /\ <<>> \in Seq(Pending) /\ Then(<<>>) /\ mm' = mm
        /\ Head(todo).op = "restore" /\ BumpFollows(<<>>)
    BY <1>8 DEF Restore, Doing, BumpFollows
  <2>2. mm'.key \in Nat /\ mm'.key >= mm.key
    BY <1>0, <2>1
  <2> QED BY <2>1, <2>2, ThenUpwards
<1> QED BY <1>1, <1>2, <1>3, <1>4, <1>5, <1>6, <1>7, <1>8 DEF Step

(* gd_alloc_pages raises the key, or does not return.                      *)
LEMMA CallAllocUpwards ==
  ASSUME MapInv, NEW type \in Type, NEW count \in Nat, count # 0,
         CallAlloc(type, count)
  PROVE  /\ mm'.key \in Nat /\ mm'.key >= mm.key /\ todo' = todo
         /\ status' = "ok" => mm'.key > mm.key
<1> DEFINE n   == count * PageSize
           v   == Victim(mm, n)
           way == Way(mm, v, n, type)
           m   == CASE way = "whole" -> TakeWhole(mm, v, type)
                    [] way = "first" -> TakeFirst(mm, v, n)
                    [] way = "last"  -> TakeLast(mm, v, n)
                    [] way = "new"   -> Sliced(mm, v, n, type)
<1>1. /\ GoodMap(mm) /\ Conventional(mm, n) # {} /\ todo' = todo
  BY DEF CallAlloc, Idle, AllocFound, Found, MapInv
<1>2. \/ /\ way = "new" /\ AllocFault(mm) # "ok" /\ status' = AllocFault(mm)
         /\ mm' = mm
      \/ /\ way = "new" => AllocFault(mm) = "ok"
         /\ mm' = [m EXCEPT !.key = @ + 1]
  BY DEF CallAlloc, Sliced
<1>3. n \in Nat /\ Aligned(n) /\ n >= PageSize /\ 0 < n
  BY DEF Aligned, PageSize
<1>4. /\ v \in mm.tree /\ mm.entry[v].type = "conventional" /\ mm.entry[v].size >= n
      /\ mm.entry[v].size \in Nat
  BY <1>1, VictimIs, GoodIs
<1>5. mm \in Map /\ mm.key \in Nat
  BY DEF MapInv, Map
<1> HIDE DEF n, v
<1>6. ASSUME way = "new" => AllocFault(mm) = "ok"
      PROVE  m \in Map /\ m.key \in Nat /\ m.key >= mm.key
  <2>1. way # "whole" => n < mm.entry[v].size
    BY <1>3, <1>4, WayIs
  <2>2. CASE way = "whole"
    <3>1. m = TakeWhole(mm, v, type)
      BY <2>2
    <3>2. GoodMap(TakeWhole(mm, v, type))
      BY <1>1, <1>4, TakeWholeGood
    <3> QED BY <1>1, <1>4, <3>1, <3>2, TookKey DEF GoodMap
  <2>3. CASE way = "first"
    <3>1. m = TakeFirst(mm, v, n) /\ PrevJoins(mm, v, type)
      BY <2>3, WayIs
    <3>2. GoodMap(TakeFirst(mm, v, n))
      BY <1>1, <1>3, <1>4, <2>1, <2>3, <3>1, TakeFirstGood
    <3>3. TakeFirst(mm, v, n).key = mm.key
      BY <1>1, <1>4, TookKey
    <3> HIDE DEF m, way
    <3> QED BY <1>5, <3>1, <3>2, <3>3 DEF GoodMap
  <2>4. CASE way = "last"
    <3>1. m = TakeLast(mm, v, n) /\ NextJoins(mm, v, type)
      BY <2>4, WayIs
    <3>2. GoodMap(TakeLast(mm, v, n))
      BY <1>1, <1>3, <1>4, <2>1, <2>4, <3>1, TakeLastGood
    <3>3. TakeLast(mm, v, n).key = mm.key
      BY <1>1, <1>4, TookKey
    <3> HIDE DEF m, way
    <3> QED BY <1>5, <3>1, <3>2, <3>3 DEF GoodMap
  <2>5. CASE way = "new"
    <3>1. m = Sliced(mm, v, n, type)
      BY <2>5
    <3>2. AllocEntry(mm) \in Map /\ AllocEntry(mm).key \in Nat
          /\ AllocEntry(mm).key >= mm.key
      BY <1>1, <1>6, <2>5, AllocGood, AllocKey DEF GoodMap
    <3>3. Sliced(mm, v, n, type).key = AllocEntry(mm).key
      BY <3>2 DEF Sliced, TakeNew, Map
    <3>4. Sliced(mm, v, n, type) \in Map
      BY <1>1, <1>3, <1>4, <1>6, <2>1, <2>5, SlicedGood
    <3> QED BY <3>1, <3>2, <3>3, <3>4
  <2> QED BY <2>2, <2>3, <2>4, <2>5, WayIs
<1> HIDE DEF way, m
<1>7. CASE AllocFault(mm) # "ok" /\ status' = AllocFault(mm) /\ mm' = mm
  BY <1>1, <1>5, <1>7
<1>8. CASE (way = "new" => AllocFault(mm) = "ok") /\ mm' = [m EXCEPT !.key = @ + 1]
  <2>1. mm'.key = m.key + 1
    BY <1>6, <1>8 DEF Map
  <2> QED BY <1>1, <1>5, <1>6, <1>8, <2>1
<1> QED BY <1>2, <1>7, <1>8

-----------------------------------------------------------------------------
(***************************************************************************)
(* Overlaps in the middle of a call.  Two entries of the tree may overlap  *)
(* only if they are neighbours and fix_overlap is still to be called for   *)
(* the first of them: as fix_overlap(newent) at the top of the stack, or   *)
(* as fix_overlap(RB_PREV(newent)) of a call further down.  The overlaps   *)
(* that wait on the stack lie below each other in memory, so that neither  *)
(* the range being added nor the entry being fixed reaches into them.      *)
(***************************************************************************)
Meets(m, a, b) ==
  /\ a \in m.tree /\ b \in m.tree
  /\ Key(m, a) < Key(m, b) /\ Key(m, b) < Hi(m, a)

Beside(m, a, b) ==
  \A c \in m.tree : ~(Key(m, a) < Key(m, c) /\ Key(m, c) < Key(m, b))

Fixing(q, a) == q # <<>> /\ q[1].op = "fix" /\ q[1].slot = a
IsPrev(c, b) == c.op = "fixprev" /\ c.slot = b

(* a overlaps b and the next step is not fix_overlap(a).                   *)
Unfixed(m, q, a, b) == Meets(m, a, b) /\ ~Fixing(q, a)

FixOnTop(q) == \A i \in 2 .. Len(q) : q[i].op # "fix"

AddsLast(q) ==
  \A i, j \in 2 .. Len(q) : i < j /\ q[i].op = "add" => q[j].op # "fixprev"

PrevFollows(m, q) ==
  \A a, b \in m.tree :
    Unfixed(m, q, a, b) => /\ Beside(m, a, b)
                           /\ \E j \in 1 .. Len(q) : IsPrev(q[j], b)

(* A slot can be freed and used again while a call that holds it is on the *)
(* stack: only the first call that holds b counts.                         *)
Stacked(m, q) ==
  \A i, j \in 1 .. Len(q) : \A a, b, c, d \in m.tree :
    /\ i < j /\ IsPrev(q[i], d) /\ IsPrev(q[j], b)
    /\ Unfixed(m, q, a, b) /\ Unfixed(m, q, c, d)
    => Hi(m, a) <= Key(m, d) \/ \E k \in 1 .. i : IsPrev(q[k], b)

TopAdd(m, q) ==
  q # <<>> /\ q[1].op = "add" =>
    /\ \A a, b \in m.tree : Unfixed(m, q, a, b) => Hi(m, a) <= q[1].arg.start
    /\ (\E j \in 1 .. Len(q) : q[j].op = "fixprev")
         => Aligned(q[1].arg.start) /\ Aligned(q[1].arg.size)

TopFix(m, q) ==
  q # <<>> /\ q[1].op = "fix" =>
    /\ q[1].slot \in m.tree
    /\ \A a, b \in m.tree :
         Unfixed(m, q, a, b) => b = q[1].slot \/ Hi(m, a) <= Key(m, q[1].slot)

Orderly(m, q) ==
  /\ ~Tied(m) /\ FixOnTop(q) /\ AddsLast(q)
  /\ PrevFollows(m, q) /\ Stacked(m, q) /\ TopAdd(m, q) /\ TopFix(m, q)

(* The overlap of a and b in g was there in m, and was not the one that    *)
(* the call at the top of the stack was about.                             *)
Inherits(m, old, g, a, b) ==
  /\ ~IsPrev(old[1], b)
  /\ \E c \in m.tree :
       /\ Unfixed(m, old, c, b)
       /\ Hi(g, a) <= Hi(m, c) /\ Key(m, b) <= Key(g, b)
       /\ Beside(m, c, b) => Beside(g, a, b)

(* What a step that replaces the call at the top by the calls q has to     *)
(* show: they are in order and about the entry s, every overlap that is    *)
(* left was there before or has a call of its own in q, those below s are  *)
(* out of its way, and so it is for the new call at the top.               *)
InOrder(q, s) ==
  \A i \in 1 .. Len(q) : /\ q[i].op \in {"fix", "add"} => i = 1
                         /\ q[i].op = "fixprev" => q[i].slot = s

Explained(m, old, g, q, s) ==
  \A a, b \in g.tree :
    Unfixed(g, Replaced(old, q), a, b)
      => \/ Inherits(m, old, g, a, b)
         \/ b = s /\ Beside(g, a, s) /\ \E i \in 1 .. Len(q) : IsPrev(q[i], s)

OutOfTheWay(old, g, q, s) ==
  (\E i \in 1 .. Len(q) : q[i].op = "fixprev")
    => \A a, b \in g.tree : Unfixed(g, Replaced(old, q), a, b) /\ b # s
                              => Hi(g, a) <= Key(g, s)

TopReady(old, g, q) ==
  q # <<>> => TopAdd(g, Replaced(old, q)) /\ TopFix(g, Replaced(old, q))

LEMMA Onward ==
  ASSUME NEW m, GoodMap(m), NEW old \in Seq(Pending), old # <<>>, Orderly(m, old),
         NEW g, GoodMap(g), ~Tied(g), NEW q \in Seq(Pending), NEW s,
         InOrder(q, s), Explained(m, old, g, q, s),
         OutOfTheWay(old, g, q, s), TopReady(old, g, q)
  PROVE  Orderly(g, Replaced(old, q))
<1> DEFINE r == Replaced(old, q)
           n == Len(old)
           k == Len(q)
<1>1. /\ n \in Nat \ {0} /\ k \in Nat /\ Len(r) = k + (n - 1)
      /\ \A i \in 1 .. k : r[i] = q[i]
      /\ \A i \in 2 .. n : r[k + (i - 1)] = old[i] /\ k + (i - 1) \in 1 .. Len(r)
      /\ \A i \in k + 1 .. Len(r) : i - k + 1 \in 2 .. n /\ r[i] = old[i - k + 1]
      /\ r \in Seq(Pending)
  BY StackIs
<1>2. /\ FixOnTop(old) /\ AddsLast(old) /\ PrevFollows(m, old)
      /\ Stacked(m, old)
  BY DEF Orderly
<1>e. \A t \in m.tree : Key(m, t) \in Int /\ Hi(m, t) \in Int
  BY Extent
<1>f. \A t \in g.tree : Key(g, t) \in Int /\ Hi(g, t) \in Int
  BY Extent
<1>3. \A a, b \in g.tree : Unfixed(g, r, a, b)
        => \/ Inherits(m, old, g, a, b)
           \/ b = s /\ Beside(g, a, s) /\ \E i \in 1 .. k : IsPrev(q[i], s)
  BY DEF Explained
<1>4. (\E i \in 1 .. k : q[i].op = "fixprev")
        => \A a, b \in g.tree : Unfixed(g, r, a, b) /\ b # s => Hi(g, a) <= Key(g, s)
  BY DEF OutOfTheWay
<1>5. ASSUME NEW i \in 1 .. k
      PROVE  (i # 1 => q[i].op # "fix" /\ q[i].op # "add")
             /\ (q[i].op = "fixprev" => q[i].slot = s)
  <2>1. i \in 1 .. Len(q)
    OBVIOUS
  <2>2. (q[i].op \in {"fix", "add"} => i = 1) /\ (q[i].op = "fixprev" => q[i].slot = s)
    BY <2>1 DEF InOrder
  <2> QED BY <2>2
<1>6. q # <<>> => TopAdd(g, r) /\ TopFix(g, r)
  BY DEF TopReady
<1>7. (q = <<>> <=> k = 0) /\ (r = <<>> <=> Len(r) = 0)
  BY <1>1, EmptySeq DEF k
<1> HIDE DEF r, k
<1>n. \A i \in 1 .. n : i \in 1 .. Len(old)
  OBVIOUS
<1>8. FixOnTop(r) /\ AddsLast(r)
  <2>1. ASSUME NEW i \in 2 .. Len(r) PROVE r[i].op # "fix"
    <3>1. CASE i \in 1 .. k
      <4>1. r[i] = q[i] /\ i # 1
        BY <1>1, <2>1, <3>1
      <4> QED BY <1>5, <3>1, <4>1
    <3>2. CASE i \in k + 1 .. Len(r)
      <4>1. i - k + 1 \in 2 .. Len(old) /\ r[i] = old[i - k + 1]
        BY <1>1, <3>2
      <4> QED BY <1>2, <4>1 DEF FixOnTop
    <3> QED BY <1>1, <2>1, <3>1, <3>2
  <2>2. ASSUME NEW i \in 2 .. Len(r), NEW j \in 2 .. Len(r), i < j, r[i].op = "add"
        PROVE  r[j].op # "fixprev"
    <3>1. i \notin 1 .. k
      <4>1. SUFFICES ASSUME i \in 1 .. k PROVE FALSE
        OBVIOUS
      <4>2. r[i] = q[i] /\ i # 1
        BY <1>1, <2>2, <4>1
      <4> QED BY <1>5, <2>2, <4>1, <4>2
    <3>2. i \in k + 1 .. Len(r) /\ j \in k + 1 .. Len(r)
      BY <1>1, <2>2, <3>1
    <3>3. /\ i - k + 1 \in 2 .. n /\ j - k + 1 \in 2 .. n /\ i - k + 1 < j - k + 1
          /\ old[i - k + 1].op = "add" /\ r[j] = old[j - k + 1]
      BY <1>1, <2>2, <3>2
    <3> QED BY <1>2, <3>3 DEF AddsLast
  <2> QED BY <2>1, <2>2 DEF FixOnTop, AddsLast
<1>9. ASSUME NEW a \in g.tree, NEW b \in g.tree, Inherits(m, old, g, a, b)
      PROVE  /\ Beside(g, a, b)
             /\ \E j \in k + 1 .. Len(r) : IsPrev(r[j], b) /\ IsPrev(old[j - k + 1], b)
  <2>1. PICK c \in m.tree : Unfixed(m, old, c, b) /\ (Beside(m, c, b) => Beside(g, a, b))
    BY <1>9 DEF Inherits
  <2>2. b \in m.tree
    BY <2>1 DEF Unfixed, Meets
  <2>3. PICK j \in 1 .. n : IsPrev(old[j], b) /\ Beside(m, c, b)
    BY <1>2, <2>1, <2>2 DEF PrevFollows
  <2>4. j \in 2 .. n
    <3>1. j # 1
      BY <1>9, <2>3 DEF Inherits
    <3> QED BY <1>1, <2>3, <3>1
  <2>5. /\ k + (j - 1) \in k + 1 .. Len(r) /\ r[k + (j - 1)] = old[j]
        /\ (k + (j - 1)) - k + 1 = j
    BY <1>1, <2>4
  <2> QED BY <2>1, <2>3, <2>5
<1>10. PrevFollows(g, r)
  <2>1. SUFFICES ASSUME NEW a \in g.tree, NEW b \in g.tree, Unfixed(g, r, a, b)
                 PROVE  Beside(g, a, b) /\ \E j \in 1 .. Len(r) : IsPrev(r[j], b)
    BY DEF PrevFollows
  <2>2. CASE Inherits(m, old, g, a, b)
    <3>1. k + 1 .. Len(r) \subseteq 1 .. Len(r)
      BY <1>1
    <3> QED BY <1>9, <2>2, <3>1
  <2>3. CASE b = s /\ Beside(g, a, s) /\ \E i \in 1 .. k : IsPrev(q[i], s)
    BY <1>1, <2>3
  <2> QED BY <1>3, <2>1, <2>2, <2>3
<1>11. Stacked(g, r)
  <2>1. SUFFICES ASSUME NEW i \in 1 .. Len(r), NEW j \in 1 .. Len(r),
                        NEW a \in g.tree, NEW b \in g.tree,
                        NEW c \in g.tree, NEW d \in g.tree,
                        i < j, IsPrev(r[i], d), IsPrev(r[j], b),
                        Unfixed(g, r, a, b), Unfixed(g, r, c, d)
                 PROVE  Hi(g, a) <= Key(g, d) \/ \E l \in 1 .. i : IsPrev(r[l], b)
    BY DEF Stacked
  <2>2. CASE i \in 1 .. k
    <3>0. r[i] = q[i]
      BY <1>1, <2>2
    <3>1. IsPrev(q[i], d) /\ q[i].op = "fixprev" /\ d = s
      BY <1>5, <2>1, <2>2, <3>0 DEF IsPrev
    <3>2. CASE b = s
      BY <2>1, <3>1, <3>2
    <3>3. CASE b # s
      BY <1>4, <2>1, <2>2, <3>1, <3>3
    <3> QED BY <3>2, <3>3
  <2>3. CASE i \in k + 1 .. Len(r)
    <3>1. /\ i - k + 1 \in 2 .. n /\ j - k + 1 \in 2 .. n /\ i - k + 1 < j - k + 1
          /\ r[i] = old[i - k + 1] /\ r[j] = old[j - k + 1]
      <4>1. j \in k + 1 .. Len(r)
        BY <1>1, <2>1, <2>3
      <4>2. i - k + 1 \in 2 .. n /\ r[i] = old[i - k + 1]
        BY <1>1, <2>3
      <4>3. j - k + 1 \in 2 .. n /\ r[j] = old[j - k + 1]
        BY <1>1, <4>1
      <4>4. i - k + 1 < j - k + 1
        BY <1>1, <2>1
      <4> QED BY <4>2, <4>3, <4>4
    <3>2. CASE b = s /\ \E l \in 1 .. k : IsPrev(q[l], s)
      <4>1. PICK l \in 1 .. k : IsPrev(q[l], s)
        BY <3>2
      <4>2. l \in 1 .. i /\ IsPrev(r[l], b)
        BY <1>1, <2>1, <2>3, <3>2, <4>1
      <4> QED BY <4>2
    <3>3. CASE Inherits(m, old, g, a, b)
      <4>1. CASE d = s /\ \E l \in 1 .. k : IsPrev(q[l], s)
        <5>1. \E l \in 1 .. k : q[l].op = "fixprev"
          BY <4>1 DEF IsPrev
        <5> QED BY <1>4, <2>1, <4>1, <5>1
      <4>2. CASE Inherits(m, old, g, c, d)
        <5>1. PICK a1 \in m.tree : /\ Unfixed(m, old, a1, b) /\ Hi(g, a) <= Hi(m, a1)
          BY <3>3 DEF Inherits
        <5>2. PICK c1 \in m.tree : /\ Unfixed(m, old, c1, d) /\ Key(m, d) <= Key(g, d)
          BY <4>2 DEF Inherits
        <5>3. b \in m.tree /\ d \in m.tree
          BY <5>1, <5>2 DEF Unfixed, Meets
        <5>4. \/ Hi(m, a1) <= Key(m, d)
              \/ \E l \in 1 .. i - k + 1 : IsPrev(old[l], b)
          <6>1. i - k + 1 \in 1 .. Len(old) /\ j - k + 1 \in 1 .. Len(old)
            <7>1. \A l \in 2 .. n : l \in 1 .. Len(old)
              BY <1>1
            <7> QED BY <3>1, <7>1
          <6> QED BY <1>2, <2>1, <3>1, <5>1, <5>2, <5>3, <6>1 DEF Stacked
        <5>5. CASE Hi(m, a1) <= Key(m, d)
          BY <1>e, <1>f, <5>1, <5>2, <5>3, <5>5, SMTT(30)
        <5>6. CASE \E l \in 1 .. i - k + 1 : IsPrev(old[l], b)
          <6>1. PICK l \in 1 .. i - k + 1 : IsPrev(old[l], b)
            BY <5>6
          <6>2. l # 1
            BY <3>3, <6>1 DEF Inherits
          <6>3. l \in 2 .. n /\ k + (l - 1) \in 1 .. i
            <7>1. k \in Nat /\ n \in Nat /\ i \in Int
              BY <1>1, <2>3
            <7>2. l \in Int /\ 1 <= l /\ l <= i - k + 1 /\ i - k + 1 <= n
              BY <3>1, <6>1, <7>1
            <7> QED BY <6>2, <7>1, <7>2
          <6>4. IsPrev(r[k + (l - 1)], b)
            BY <1>1, <6>1, <6>3
          <6> QED BY <6>3, <6>4
        <5> QED BY <5>4, <5>5, <5>6
      <4> QED BY <1>3, <2>1, <4>1, <4>2
    <3> QED BY <1>3, <2>1, <3>2, <3>3
  <2> QED BY <1>1, <2>1, <2>2, <2>3
<1>12. ASSUME q = <<>> PROVE TopAdd(g, r) /\ TopFix(g, r)
  <2>1. k = 0
    BY <1>7, <1>12
  <2>2. CASE r = <<>>
    BY <2>2 DEF TopAdd, TopFix
  <2>3. CASE r # <<>>
    <3>1. 2 \in 2 .. n /\ r[1] = old[2] /\ Len(r) = n - 1
      BY <1>1, <1>7, <2>1, <2>3
    <3>2. TopFix(g, r)
      BY <1>2, <3>1 DEF TopFix, FixOnTop
    <3>3. ASSUME r[1].op = "add", NEW j \in 1 .. Len(r) PROVE r[j].op # "fixprev"
      <4>1. j + 1 \in 2 .. n /\ r[j] = old[j + 1]
        BY <1>1, <2>1, <3>1
      <4>2. CASE j = 1
        BY <3>3, <4>2
      <4>3. CASE 2 < j + 1
        BY <1>2, <3>1, <3>3, <4>1, <4>3 DEF AddsLast
      <4> QED BY <3>3, <4>2, <4>3
    <3>4. TopAdd(g, r)
      <4>1. SUFFICES ASSUME r[1].op = "add" PROVE TopAdd(g, r)
        BY DEF TopAdd
      <4>2. ASSUME NEW a \in g.tree, NEW b \in g.tree, Unfixed(g, r, a, b) PROVE FALSE
        BY <1>10, <3>3, <4>1, <4>2 DEF PrevFollows, IsPrev
      <4> QED BY <3>3, <4>1, <4>2 DEF TopAdd
    <3> QED BY <3>2, <3>4
  <2> QED BY <2>2, <2>3
<1> QED BY <1>6, <1>8, <1>10, <1>11, <1>12 DEF Orderly, r


-----------------------------------------------------------------------------
(***************************************************************************)
(* Operations that change the tree without adding an overlap: every one    *)
(* that is there afterwards is a part of one that was there before, with   *)
(* the same second entry.                                                  *)
(***************************************************************************)
Carried(m, g, c, a, b) ==
  /\ Meets(m, c, b) /\ Hi(g, a) <= Hi(m, c) /\ Key(m, b) <= Key(g, b)
  /\ Beside(m, c, b) => Beside(g, a, b)

Calm(m, g) ==
  \A a, b \in g.tree : Meets(g, a, b) => \E c \in m.tree : Carried(m, g, c, a, b)

LEMMA Extents ==
  ASSUME NEW m, GoodMap(m)
  PROVE  \A t \in m.tree : /\ Key(m, t) \in Int /\ Hi(m, t) \in Int
                           /\ Key(m, t) < Hi(m, t)
<1>1. ASSUME NEW t \in m.tree
      PROVE  Key(m, t) \in Int /\ Hi(m, t) \in Int /\ Key(m, t) < Hi(m, t)
  <2>1. /\ Key(m, t) \in Nat /\ Hi(m, t) \in Nat /\ Key(m, t) + 4096 <= Hi(m, t)
    BY Extent
  <2> QED BY <2>1
<1> QED BY <1>1

LEMMA CalmTrans ==
  ASSUME NEW m, NEW g, NEW h, GoodMap(m), GoodMap(g), GoodMap(h),
         Calm(m, g), Calm(g, h)
  PROVE  Calm(m, h)
<1>1. SUFFICES ASSUME NEW a \in h.tree, NEW b \in h.tree, Meets(h, a, b)
               PROVE  \E c \in m.tree : Carried(m, h, c, a, b)
  BY DEF Calm
<1>2. PICK c \in g.tree : Carried(g, h, c, a, b)
  BY <1>1 DEF Calm
<1>3. b \in g.tree /\ Meets(g, c, b)
  BY <1>2 DEF Carried, Meets
<1>4. PICK d \in m.tree : Carried(m, g, d, c, b)
  BY <1>3 DEF Calm
<1>5. b \in m.tree
  BY <1>4 DEF Carried, Meets
<1>6. /\ Hi(h, a) \in Int /\ Hi(g, c) \in Int /\ Hi(m, d) \in Int
      /\ Key(h, b) \in Int /\ Key(g, b) \in Int /\ Key(m, b) \in Int
  BY <1>1, <1>3, <1>5, Extents
<1> QED BY <1>2, <1>4, <1>6 DEF Carried

(* Entries that keep their extents.                                        *)
LEMMA SameCalm ==
  ASSUME NEW m, GoodMap(m), NEW g, g.tree = m.tree,
         \A t \in m.tree : Key(g, t) = Key(m, t) /\ Hi(g, t) = Hi(m, t)
  PROVE  Calm(m, g) /\ (~Tied(m) => ~Tied(g))
<1>1. \A t \in m.tree : Key(m, t) \in Int /\ Hi(m, t) \in Int
  BY Extents
<1>2. ASSUME NEW a \in g.tree, NEW b \in g.tree, Meets(g, a, b)
      PROVE  Carried(m, g, a, a, b)
  BY <1>1, <1>2 DEF Carried, Meets, Beside
<1> QED BY <1>2 DEF Calm, Tied

(* Two neighbours that join become one.                                    *)
LEMMA JoinCalm ==
  ASSUME NEW m, GoodMap(m), ~Tied(m), NEW g, GoodMap(g),
         NEW l \in m.tree, NEW r \in m.tree,
         Key(m, l) < Key(m, r), Hi(m, l) = Key(m, r), Beside(m, l, r),
         g.tree = m.tree \ {r}, Key(g, l) = Key(m, l), Hi(g, l) = Hi(m, r),
         \A t \in m.tree \ {l} : Key(g, t) = Key(m, t) /\ Hi(g, t) = Hi(m, t)
  PROVE  Calm(m, g) /\ ~Tied(g)
<1>1. \A t \in m.tree : Key(m, t) \in Int /\ Hi(m, t) \in Int
  BY Extents
<1>2. \A t \in g.tree : t \in m.tree /\ Key(g, t) = Key(m, t)
  OBVIOUS
<1>3. \A t \in g.tree : Key(m, l) < Key(m, t) => Key(m, r) < Key(m, t)
  BY <1>1 DEF Beside, Tied
<1>4. ASSUME NEW a \in g.tree, NEW b \in g.tree, Meets(g, a, b)
      PROVE  \E c \in m.tree : Carried(m, g, c, a, b)
  <2>1. CASE a = l
    <3>1. Meets(m, r, b) /\ Hi(g, a) = Hi(m, r)
      BY <1>1, <1>2, <1>3, <1>4, <2>1 DEF Meets
    <3>2. Beside(m, r, b) => Beside(g, a, b)
      BY <1>2, <1>3, <2>1 DEF Beside
    <3>3. Carried(m, g, r, a, b)
      BY <1>1, <1>2, <1>4, <3>1, <3>2 DEF Carried
    <3> QED BY <3>3
  <2>2. CASE a # l
    <3>1. Meets(m, a, b) /\ Hi(g, a) = Hi(m, a)
      BY <1>2, <1>4, <2>2 DEF Meets
    <3>2. Beside(m, a, b) => Beside(g, a, b)
      BY <1>2, <1>4 DEF Beside
    <3>3. Carried(m, g, a, a, b)
      BY <1>1, <1>2, <1>4, <3>1, <3>2 DEF Carried
    <3> QED BY <1>2, <3>3
  <2> QED BY <2>1, <2>2
<1> QED BY <1>2, <1>4 DEF Calm, Tied

(* No entry but v has a page of [lo, hi).                                  *)
Clear(m, v, lo, hi) ==
  \A t \in m.tree \ {v} : Hi(m, t) <= lo \/ hi <= Key(m, t)

(* The first bytes of v go to the entry before it.                         *)
LEMMA FirstCalm ==
  ASSUME NEW m, GoodMap(m), NEW g, GoodMap(g),
         NEW p \in m.tree, NEW v \in m.tree, NEW w \in Int,
         Key(m, p) < Key(m, v), Beside(m, p, v), Key(m, v) < w,
         Clear(m, v, Key(m, v), w), g.tree = m.tree,
         Key(g, p) = Key(m, p), Hi(g, p) = w, Key(g, v) = w, Hi(g, v) = Hi(m, v),
         \A t \in m.tree \ {p, v} : Key(g, t) = Key(m, t) /\ Hi(g, t) = Hi(m, t)
  PROVE  Calm(m, g)
<1>1. \A t \in m.tree : Key(m, t) \in Int /\ Hi(m, t) \in Int /\ Key(m, t) < Hi(m, t)
  BY Extents
<1>2. \A t \in m.tree \ {v} : Hi(m, t) <= Key(m, v) \/ w <= Key(m, t)
  BY DEF Clear
<1>3. \A t \in m.tree : Key(m, t) <= Key(g, t) /\ (t # v => Key(g, t) = Key(m, t))
  BY <1>1
<1>4. SUFFICES ASSUME NEW a \in m.tree, NEW b \in m.tree, Meets(g, a, b)
               PROVE  Carried(m, g, a, a, b)
  BY DEF Calm
<1>5. Key(g, a) < Key(g, b) /\ Key(g, b) < Hi(g, a)
  BY <1>4 DEF Meets
<1>6. a # p
  <2>1. SUFFICES ASSUME a = p PROVE FALSE
    OBVIOUS
  <2>2. Key(m, p) < Key(g, b) /\ Key(g, b) < w /\ b # v /\ b # p
    BY <1>1, <1>5, <2>1
  <2>3. Key(g, b) = Key(m, b) /\ Hi(m, b) <= Key(m, v)
    BY <1>1, <1>2, <2>2
  <2> QED BY <1>1, <2>2, <2>3 DEF Beside
<1>7. b # v
  <2>1. SUFFICES ASSUME b = v PROVE FALSE
    OBVIOUS
  <2>2. a # v /\ Key(m, a) < w /\ w < Hi(m, a)
    BY <1>1, <1>5, <1>6, <2>1
  <2> QED BY <1>1, <1>2, <2>2
<1>8. Meets(m, a, b) /\ Hi(g, a) <= Hi(m, a) /\ Key(m, b) <= Key(g, b)
  <2>1. Key(g, b) = Key(m, b) /\ Hi(g, a) = Hi(m, a) /\ Key(m, a) <= Key(g, a)
    BY <1>3, <1>6, <1>7
  <2> QED BY <1>1, <1>3, <1>5, <2>1 DEF Meets
<1>9. ASSUME Beside(m, a, b) PROVE Beside(g, a, b)
  <2>1. SUFFICES ASSUME NEW c \in m.tree, Key(g, a) < Key(g, c), Key(g, c) < Key(g, b)
                 PROVE  FALSE
    BY DEF Beside
  <2>2. Key(m, c) < Key(m, b)
    BY <1>1, <1>3, <1>7, <2>1
  <2>3. ~(Key(m, a) < Key(m, c))
    BY <1>9, <2>2 DEF Beside
  <2>4. c = v /\ a # v
    BY <1>1, <1>3, <2>1, <2>3
  <2> QED BY <1>1, <1>2, <1>3, <2>1, <2>3, <2>4
<1> QED BY <1>8, <1>9 DEF Carried

(* The last bytes of v go to the entry after it.                           *)
LEMMA LastCalm ==
  ASSUME NEW m, GoodMap(m), ~Tied(m), NEW g, GoodMap(g),
         NEW v \in m.tree, NEW x \in m.tree, NEW w \in Int,
         Key(m, v) < w, w < Hi(m, v), Hi(m, v) = Key(m, x),
         Clear(m, v, w, Hi(m, v)), g.tree = m.tree,
         Key(g, v) = Key(m, v), Hi(g, v) = w, Key(g, x) = w, Hi(g, x) = Hi(m, x),
         \A t \in m.tree \ {v, x} : Key(g, t) = Key(m, t) /\ Hi(g, t) = Hi(m, t)
  PROVE  Calm(m, g)
<1>1. \A t \in m.tree : Key(m, t) \in Int /\ Hi(m, t) \in Int /\ Key(m, t) < Hi(m, t)
  BY Extents
<1>2. \A t \in m.tree \ {v} : Hi(m, t) <= w \/ Key(m, x) <= Key(m, t)
  BY DEF Clear
<1>3. \A t \in m.tree \ {x} : Key(g, t) = Key(m, t) /\ Key(m, t) # Key(m, x)
  BY <1>1 DEF Tied
<1>4. \A t \in m.tree : Hi(g, t) <= Hi(m, t) /\ Key(g, t) <= Key(m, t)
  BY <1>1
<1>5. SUFFICES ASSUME NEW a \in m.tree, NEW b \in m.tree, Meets(g, a, b)
               PROVE  Carried(m, g, a, a, b)
  BY DEF Calm
<1>6. Key(g, a) < Key(g, b) /\ Key(g, b) < Hi(g, a)
  BY <1>5 DEF Meets
<1>7. b # x
  <2>1. SUFFICES ASSUME b = x PROVE FALSE
    OBVIOUS
  <2>2. a # x /\ a # v /\ Key(m, a) < w /\ w < Hi(m, a)
    BY <1>1, <1>3, <1>6, <2>1
  <2> QED BY <1>1, <1>2, <2>2
<1>8. Key(g, b) = Key(m, b)
  BY <1>3, <1>7
<1>9. Key(m, a) < Key(m, b)
  <2>1. CASE a = x
    <3>1. b # v /\ w < Key(m, b)
      BY <1>1, <1>6, <1>8, <2>1
    <3>2. Key(m, x) <= Key(m, b)
      BY <1>1, <1>2, <3>1
    <3> QED BY <1>1, <1>3, <1>7, <2>1, <3>2
  <2>2. CASE a # x
    BY <1>3, <1>6, <1>8, <2>2
  <2> QED BY <2>1, <2>2
<1>10. Key(m, b) < Hi(m, a) /\ Hi(g, a) <= Hi(m, a) /\ Hi(g, a) \in Int
  BY <1>1, <1>4, <1>6, <1>8
<1>11. ASSUME Beside(m, a, b) PROVE Beside(g, a, b)
  <2>1. SUFFICES ASSUME NEW c \in m.tree, Key(g, a) < Key(g, c), Key(g, c) < Key(m, b)
                 PROVE  FALSE
    BY <1>8 DEF Beside
  <2>2. Key(m, c) < Key(m, b)
    <3>1. CASE c = x
      <4>1. b # v /\ w < Key(m, b)
        BY <1>1, <2>1, <3>1
      <4>2. Key(m, x) <= Key(m, b)
        BY <1>1, <1>2, <4>1
      <4> QED BY <1>1, <1>3, <1>7, <3>1, <4>2
    <3>2. CASE c # x
      BY <1>3, <2>1, <3>2
    <3> QED BY <3>1, <3>2
  <2>3. Key(m, a) < Key(m, c)
    <3>1. CASE a = x
      <4>1. c # v /\ c # x /\ w < Key(m, c)
        BY <1>1, <1>3, <2>1, <3>1
      <4>2. Key(m, x) <= Key(m, c)
        BY <1>1, <1>2, <4>1
      <4> QED BY <1>1, <1>3, <3>1, <4>1, <4>2
    <3>2. CASE a # x
      BY <1>1, <1>3, <1>4, <2>1, <3>2
    <3> QED BY <3>1, <3>2
  <2> QED BY <1>11, <2>2, <2>3 DEF Beside
<1> QED BY <1>1, <1>8, <1>9, <1>10, <1>11 DEF Carried, Meets

(* The first bytes of v become the entry s.                                *)
LEMMA NewCalm ==
  ASSUME NEW m, GoodMap(m), NEW g, GoodMap(g),
         NEW v \in m.tree, NEW s, s \notin m.tree, NEW w \in Int,
         Key(m, v) < w, w < Hi(m, v), Clear(m, v, Key(m, v), w),
         g.tree = m.tree \cup {s}, Key(g, s) = Key(m, v), Hi(g, s) = w,
         Key(g, v) = w, Hi(g, v) = Hi(m, v),
         \A t \in m.tree \ {v} : Key(g, t) = Key(m, t) /\ Hi(g, t) = Hi(m, t)
  PROVE  Calm(m, g)
<1>1. \A t \in m.tree : Key(m, t) \in Int /\ Hi(m, t) \in Int /\ Key(m, t) < Hi(m, t)
  BY Extents
<1>2. \A t \in m.tree \ {v} : Hi(m, t) <= Key(m, v) \/ w <= Key(m, t)
  BY DEF Clear
<1>3. \A t \in m.tree : /\ Key(m, t) <= Key(g, t) /\ (t # v => Key(g, t) = Key(m, t))
                        /\ Hi(g, t) = Hi(m, t)
  BY <1>1
<1>4. SUFFICES ASSUME NEW a \in m.tree \cup {s}, NEW b \in m.tree \cup {s}, Meets(g, a, b)
               PROVE  a \in m.tree /\ Carried(m, g, a, a, b)
  BY DEF Calm
<1>5. Key(g, a) < Key(g, b) /\ Key(g, b) < Hi(g, a)
  BY <1>4 DEF Meets
<1>6. a \in m.tree
  <2>1. SUFFICES ASSUME a = s PROVE FALSE
    BY <1>4
  <2>2. b \in m.tree \ {v} /\ Key(m, v) < Key(m, b) /\ Key(m, b) < w
    BY <1>1, <1>3, <1>4, <1>5, <2>1
  <2> QED BY <1>1, <1>2, <2>2
<1>7. b \in m.tree \ {v}
  <2>1. SUFFICES ASSUME b = s \/ b = v PROVE FALSE
    BY <1>4
  <2>2. /\ a # v /\ Key(m, a) < w /\ Key(m, v) < Hi(m, a)
    BY <1>1, <1>3, <1>5, <1>6, <2>1
  <2> QED BY <1>1, <1>2, <1>6, <2>2
<1>8. Meets(m, a, b) /\ Hi(g, a) <= Hi(m, a) /\ Key(m, b) <= Key(g, b)
  BY <1>1, <1>3, <1>5, <1>6, <1>7 DEF Meets
<1>9. ASSUME Beside(m, a, b) PROVE Beside(g, a, b)
  <2>1. SUFFICES ASSUME NEW c \in m.tree \cup {s},
                        Key(g, a) < Key(g, c), Key(g, c) < Key(g, b)
                 PROVE  FALSE
    BY DEF Beside
  <2>2. CASE c \in m.tree \ {v}
    BY <1>1, <1>3, <1>6, <1>7, <1>9, <2>1, <2>2 DEF Beside
  <2>3. CASE c \in {s, v}
    <3>1. Key(m, v) < Key(m, b)
      BY <1>1, <1>3, <1>7, <2>1, <2>3
    <3>2. ~(Key(m, a) < Key(m, v))
      BY <1>9, <3>1 DEF Beside
    <3>3. CASE a = v
      BY <1>1, <2>1, <2>3, <3>3
    <3>4. CASE a # v
      BY <1>1, <1>2, <1>3, <1>6, <2>1, <2>3, <3>2, <3>4
    <3> QED BY <3>3, <3>4
  <2> QED BY <2>1, <2>2, <2>3
<1> QED BY <1>6, <1>8, <1>9 DEF Carried


-----------------------------------------------------------------------------
(***************************************************************************)
(* What the operations do to the extents and types of the entries.         *)
(***************************************************************************)
LEMMA PrevBeside ==
  ASSUME NEW m, GoodMap(m), NEW s \in m.tree
  PROVE  /\ RB_PREV(m, s) # NoSlot => /\ RB_PREV(m, s) \in m.tree
                                      /\ Key(m, RB_PREV(m, s)) < Key(m, s)
                                      /\ Beside(m, RB_PREV(m, s), s)
         /\ RB_PREV(m, s) = NoSlot => \A t \in m.tree : ~(Key(m, t) < Key(m, s))
<1>1. \A t \in m.tree : Key(m, t) \in Int
  BY Extents
<1>2. CASE Below(m, s) # {}
  <2> DEFINE p == Last(m, Below(m, s))
  <2>1. Below(m, s) \in SUBSET m.tree
    BY DEF Below
  <2>2. p \in Below(m, s) /\ \A t \in Below(m, s) : Key(m, t) <= Key(m, p)
    BY <1>2, <2>1, LastIs
  <2>3. RB_PREV(m, s) = p /\ p # NoSlot
    <3>1. p \in Slot
      BY <2>1, <2>2 DEF GoodMap, Map
    <3> HIDE DEF p
    <3> QED BY <1>2, <3>1, NoSlotIsNoSlot DEF RB_PREV, p
  <2> HIDE DEF p
  <2> QED BY <1>1, <2>2, <2>3 DEF Below, Beside
<1>3. CASE Below(m, s) = {}
  <2>1. RB_PREV(m, s) = NoSlot
    BY <1>3 DEF RB_PREV
  <2> QED BY <1>3, <2>1 DEF Below
<1> QED BY <1>2, <1>3

LEMMA NextBeside ==
  ASSUME NEW m, GoodMap(m), NEW s \in m.tree
  PROVE  /\ RB_NEXT(m, s) # NoSlot => /\ RB_NEXT(m, s) \in m.tree
                                      /\ Key(m, s) < Key(m, RB_NEXT(m, s))
                                      /\ Beside(m, s, RB_NEXT(m, s))
         /\ RB_NEXT(m, s) = NoSlot => \A t \in m.tree : ~(Key(m, s) < Key(m, t))
<1>1. \A t \in m.tree : Key(m, t) \in Int
  BY Extents
<1>2. CASE Above(m, s) # {}
  <2> DEFINE x == First(m, Above(m, s))
  <2>1. Above(m, s) \in SUBSET m.tree
    BY DEF Above
  <2>2. x \in Above(m, s) /\ \A t \in Above(m, s) : Key(m, x) <= Key(m, t)
    BY <1>2, <2>1, FirstIs
  <2>3. RB_NEXT(m, s) = x /\ x # NoSlot
    <3>1. x \in Slot
      BY <2>1, <2>2 DEF GoodMap, Map
    <3> HIDE DEF x
    <3> QED BY <1>2, <3>1, NoSlotIsNoSlot DEF RB_NEXT, x
  <2> HIDE DEF x
  <2> QED BY <1>1, <2>2, <2>3 DEF Above, Beside
<1>3. CASE Above(m, s) = {}
  <2>1. RB_NEXT(m, s) = NoSlot
    BY <1>3 DEF RB_NEXT
  <2> QED BY <1>3, <2>1 DEF Above
<1> QED BY <1>2, <1>3

(* s is an entry [lo, hi) of that type.                                    *)
Is(g, s, lo, hi, type) == Key(g, s) = lo /\ Hi(g, s) = hi /\ Ty(g, s) = type

LEMMA AbsorbIs ==
  ASSUME NEW m, GoodMap(m), NEW l \in m.tree, NEW r \in m.tree, l # r,
         Joins(m, l, r)
  PROVE  /\ GoodMap(Absorb(m, l, r)) /\ Absorb(m, l, r).tree = m.tree \ {r}
         /\ \A t \in m.tree \ {l} : Absorb(m, l, r).entry[t] = m.entry[t]
         /\ Is(Absorb(m, l, r), l, Key(m, l), Hi(m, r), Ty(m, l))
<1> DEFINE g == Absorb(m, l, r)
           h == [m.entry EXCEPT ![l] = Grow(@, m.entry[r].size)]
<1>1. m \in Map /\ m.entry \in [Slot -> Entry]
  BY DEF GoodMap, Map
<1>2. /\ l \in Slot /\ r \in Slot
      /\ Key(m, l) \in Int /\ Hi(m, l) \in Int /\ Key(m, r) \in Int /\ Hi(m, r) \in Int
      /\ m.entry[r].size = Hi(m, r) - Key(m, r) /\ m.entry[r].size \in Int
      /\ m.entry[l].size = Hi(m, l) - Key(m, l) /\ m.entry[l].size \in Int
      /\ m.entry[l] \in Entry
  BY Extent, GoodIs
<1>3. /\ GoodMap(g) /\ g.tree = m.tree \ {r}
      /\ \A t \in m.tree \ {l} : g.entry[t] = m.entry[t]
  BY AbsorbGood
<1>4. g.entry = h
  BY <1>1 DEF Absorb, FreeEntry, Map
<1>5. g.entry[l] = Grow(m.entry[l], m.entry[r].size)
  BY <1>1, <1>2, <1>4
<1>6. Hi(m, l) = Key(m, r)
  BY DEF Joins, Hi, Key
<1> HIDE DEF g
<1>7. /\ g.entry[l].start = m.entry[l].start
      /\ g.entry[l].size = m.entry[l].size + m.entry[r].size
      /\ g.entry[l].type = m.entry[l].type
  <2> DEFINE k == m.entry[r].size
             e == m.entry[l]
  <2>1. k \in Int /\ e \in Entry
    BY <1>2
  <2> HIDE DEF k, e
  <2>2. Grow(e, k).start = e.start /\ Grow(e, k).size = e.size + k
        /\ Grow(e, k).type = e.type
    BY <2>1, EntryOps
  <2> QED BY <1>5, <2>2 DEF k, e
<1>8. g.entry[l].start + g.entry[l].size = Hi(m, r)
  <2>1. g.entry[l].start = Key(m, l)
    BY <1>7 DEF Key
  <2> QED BY <1>2, <1>6, <1>7, <2>1
<1>9. Is(g, l, Key(m, l), Hi(m, r), Ty(m, l))
  BY <1>7, <1>8 DEF Is, Key, Hi, Ty, End
<1> QED BY <1>3, <1>9 DEF g

LEMMA AbsorbCalm ==
  ASSUME NEW m, GoodMap(m), ~Tied(m), NEW l \in m.tree, NEW r \in m.tree,
         Key(m, l) < Key(m, r), Joins(m, l, r), Beside(m, l, r)
  PROVE  GoodMap(Absorb(m, l, r)) /\ Calm(m, Absorb(m, l, r)) /\ ~Tied(Absorb(m, l, r))
<1> DEFINE g == Absorb(m, l, r)
<1>1. l # r
  BY Extents
<1>2. /\ GoodMap(g) /\ g.tree = m.tree \ {r}
      /\ \A t \in m.tree \ {l} : g.entry[t] = m.entry[t]
      /\ Is(g, l, Key(m, l), Hi(m, r), Ty(m, l))
  BY <1>1, AbsorbIs
<1> HIDE DEF g
<1>3. \A t \in m.tree \ {l} : Key(g, t) = Key(m, t) /\ Hi(g, t) = Hi(m, t)
  BY <1>2 DEF Key, Hi
<1>4. Key(g, l) = Key(m, l) /\ Hi(g, l) = Hi(m, r) /\ Hi(m, l) = Key(m, r)
  BY <1>2 DEF Is, Joins, Hi, Key
<1>5. Calm(m, g) /\ ~Tied(g)
  BY <1>2, <1>3, <1>4, JoinCalm
<1> QED BY <1>2, <1>5 DEF g

(* merge_adjacent adds no overlap.                                         *)
LEMMA MergeCalm ==
  ASSUME NEW m, GoodMap(m), ~Tied(m), NEW s \in m.tree
  PROVE  Calm(m, MergeAdjacent(m, s)) /\ ~Tied(MergeAdjacent(m, s))
<1> DEFINE type == m.entry[s].type
           p == RB_PREV(m, s)
           x == RB_NEXT(m, s)
           with == PrevJoins(m, s, type)
           one == IF with THEN Absorb(m, p, s) ELSE m
           mid == IF with THEN p ELSE s
           again == x # NoSlot /\ one.entry[x].type = type /\ Joins(one, mid, x)
<1>1. MergeAdjacent(m, s) = IF again THEN Absorb(one, mid, x) ELSE one
  BY DEF MergeAdjacent
<1>e. \A t \in m.tree : Key(m, t) \in Int /\ Hi(m, t) \in Int
  BY Extents
<1>2. x # NoSlot => x \in m.tree /\ Key(m, s) < Key(m, x) /\ Beside(m, s, x)
  BY NextBeside
<1>3. /\ GoodMap(one) /\ Calm(m, one) /\ ~Tied(one) /\ mid \in one.tree
      /\ x # NoSlot => x \in one.tree /\ Key(one, mid) < Key(one, x)
                       /\ Beside(one, mid, x)
  <2>1. CASE with
    <3>1. p # NoSlot /\ Joins(m, p, s)
      BY <2>1 DEF PrevJoins
    <3>2. p \in m.tree /\ Key(m, p) < Key(m, s) /\ Beside(m, p, s)
      BY <3>1, PrevBeside
    <3>3. GoodMap(Absorb(m, p, s)) /\ Calm(m, Absorb(m, p, s)) /\ ~Tied(Absorb(m, p, s))
      BY <3>1, <3>2, AbsorbCalm
    <3>4. p # s
      BY <1>e, <3>2
    <3>5. /\ Absorb(m, p, s).tree = m.tree \ {s}
          /\ \A t \in m.tree \ {p} : Absorb(m, p, s).entry[t] = m.entry[t]
          /\ Is(Absorb(m, p, s), p, Key(m, p), Hi(m, s), Ty(m, p))
      BY <3>1, <3>2, <3>4, AbsorbIs
    <3>6. one = Absorb(m, p, s) /\ mid = p
      BY <2>1
    <3> HIDE DEF one, mid, p, x
    <3>7. \A t \in one.tree : t \in m.tree /\ Key(one, t) = Key(m, t)
      BY <3>5, <3>6 DEF Is, Key
    <3>8. ASSUME x # NoSlot
          PROVE  x \in one.tree /\ Key(one, mid) < Key(one, x) /\ Beside(one, mid, x)
      <4>1. /\ x \in m.tree /\ x # s /\ Key(m, p) < Key(m, x)
            /\ x \in one.tree /\ p \in one.tree
        BY <1>e, <1>2, <3>2, <3>4, <3>5, <3>6, <3>8
      <4>2. \A t \in m.tree : Key(m, t) = Key(m, s) => t = s
        BY DEF Tied
      <4>3. \A t \in one.tree : ~(Key(m, p) < Key(m, t) /\ Key(m, t) < Key(m, x))
        BY <1>e, <1>2, <3>2, <3>5, <3>6, <3>8, <4>2 DEF Beside
      <4> QED BY <3>6, <3>7, <4>1, <4>3 DEF Beside
    <3> QED BY <3>2, <3>3, <3>4, <3>5, <3>6, <3>8
  <2>2. CASE ~with
    <3>1. Calm(m, m)
      BY SameCalm
    <3> QED BY <1>2, <2>2, <3>1
  <2> QED BY <2>1, <2>2
<1> HIDE DEF one, mid, x
<1>4. CASE again
  <2>1. GoodMap(Absorb(one, mid, x)) /\ Calm(one, Absorb(one, mid, x))
        /\ ~Tied(Absorb(one, mid, x))
    BY <1>3, <1>4, AbsorbCalm
  <2>2. Calm(m, Absorb(one, mid, x))
    BY <1>3, <2>1, CalmTrans
  <2> QED BY <1>1, <1>4, <2>1, <2>2
<1>5. CASE ~again
  BY <1>1, <1>3, <1>5
<1> QED BY <1>4, <1>5


(* An entry that is made longer or shorter.                                *)
LEMMA EntryExtents ==
  ASSUME NEW e \in Entry, NEW n \in Int
  PROVE  /\ Grow(e, n).start = e.start /\ End(Grow(e, n)) = End(e) + n
         /\ GrowDown(e, n).start = e.start - n /\ End(GrowDown(e, n)) = End(e)
         /\ DropFirst(e, n).start = e.start + n /\ End(DropFirst(e, n)) = End(e)
         /\ DropLast(e, n).start = e.start /\ End(DropLast(e, n)) = End(e) - n
         /\ Grow(e, n).type = e.type /\ GrowDown(e, n).type = e.type
         /\ DropFirst(e, n).type = e.type /\ DropLast(e, n).type = e.type
         /\ End(e) \in Int
<1>1. PICK a \in Int, k \in Int : a = e.start /\ k = e.size
  BY DEF Entry
<1> QED BY <1>1 DEF Grow, GrowDown, DropFirst, DropLast, Region, End

LEMMA TakeFirstIs ==
  ASSUME NEW m, GoodMap(m), NEW v \in m.tree, NEW type, PrevJoins(m, v, type),
         NEW n \in Nat
  PROVE  LET p == RB_PREV(m, v)
             g == TakeFirst(m, v, n)
         IN /\ g.tree = m.tree /\ p \in m.tree /\ p # v /\ Ty(m, p) = type
            /\ Key(m, p) < Key(m, v) /\ Hi(m, p) = Key(m, v) /\ Beside(m, p, v)
            /\ \A t \in m.tree \ {p, v} : g.entry[t] = m.entry[t]
            /\ Is(g, p, Key(m, p), Key(m, v) + n, Ty(m, p))
            /\ Is(g, v, Key(m, v) + n, Hi(m, v), Ty(m, v))
<1> DEFINE p == RB_PREV(m, v)
           h == [m.entry EXCEPT ![p] = Grow(@, n), ![v] = DropFirst(@, n)]
           g == TakeFirst(m, v, n)
<1>1. m \in Map /\ m.entry \in [Slot -> Entry] /\ m.tree \subseteq Slot /\ n \in Int
  BY DEF GoodMap, Map
<1>2. /\ p \in m.tree /\ Key(m, p) < Key(m, v) /\ Beside(m, p, v)
      /\ m.entry[p].type = type /\ Joins(m, p, v)
  BY PrevBeside DEF PrevJoins
<1>3. p # v
  BY <1>2, Extents
<1>4. g = [m EXCEPT !.entry = h]
  BY <1>1 DEF TakeFirst, Map
<1> HIDE DEF p
<1>5. /\ h[p] = Grow(m.entry[p], n) /\ h[v] = DropFirst(m.entry[v], n)
      /\ \A t \in Slot \ {p, v} : h[t] = m.entry[t]
  BY <1>1, <1>2, <1>3
<1> HIDE DEF h, g
<1>6. g.tree = m.tree /\ g.entry = h
  BY <1>1, <1>4 DEF Map
<1>7. m.entry[p] \in Entry /\ m.entry[v] \in Entry
  BY <1>1, <1>2
<1>8. /\ h[p].start = m.entry[p].start /\ End(h[p]) = End(m.entry[p]) + n
      /\ h[p].type = m.entry[p].type
  <2> DEFINE e == m.entry[p]
  <2>1. e \in Entry /\ n \in Int
    BY <1>1, <1>5, <1>7
  <2> HIDE DEF e
  <2>2. /\ Grow(e, n).start = e.start
        /\ End(Grow(e, n)) = End(e) + n
        /\ Grow(e, n).type = e.type
    BY <2>1, EntryExtents
  <2> QED BY <1>5, <2>2 DEF e
<1>9. /\ h[v].start = m.entry[v].start + n /\ End(h[v]) = End(m.entry[v])
      /\ h[v].type = m.entry[v].type
  <2> DEFINE e == m.entry[v]
  <2>1. e \in Entry /\ n \in Int
    BY <1>1, <1>5, <1>7
  <2> HIDE DEF e
  <2>2. /\ DropFirst(e, n).start = e.start + n
        /\ End(DropFirst(e, n)) = End(e)
        /\ DropFirst(e, n).type = e.type
    BY <2>1, EntryExtents
  <2> QED BY <1>5, <2>2 DEF e
<1>10. End(m.entry[p]) = m.entry[v].start
  BY <1>2 DEF Joins
<1>11. /\ Is(g, p, Key(m, p), Key(m, v) + n, Ty(m, p))
       /\ Is(g, v, Key(m, v) + n, Hi(m, v), Ty(m, v))
       /\ Hi(m, p) = Key(m, v) /\ Ty(m, p) = type
  BY <1>2, <1>6, <1>8, <1>9, <1>10 DEF Is, Key, Hi, Ty
<1> QED BY <1>1, <1>2, <1>3, <1>5, <1>6, <1>11 DEF p, g

LEMMA TakeLastIs ==
  ASSUME NEW m, GoodMap(m), NEW v \in m.tree, NEW type, NextJoins(m, v, type),
         NEW n \in Nat
  PROVE  LET x == RB_NEXT(m, v)
             g == TakeLast(m, v, n)
         IN /\ g.tree = m.tree /\ x \in m.tree /\ x # v /\ Ty(m, x) = type
            /\ Hi(m, v) = Key(m, x) /\ Beside(m, v, x)
            /\ \A t \in m.tree \ {v, x} : g.entry[t] = m.entry[t]
            /\ Is(g, v, Key(m, v), Hi(m, v) - n, Ty(m, v))
            /\ Is(g, x, Hi(m, v) - n, Hi(m, x), Ty(m, x))
<1> DEFINE x == RB_NEXT(m, v)
           h == [m.entry EXCEPT ![x] = GrowDown(@, n), ![v] = DropLast(@, n)]
           g == TakeLast(m, v, n)
<1>1. m \in Map /\ m.entry \in [Slot -> Entry] /\ m.tree \subseteq Slot /\ n \in Int
  BY DEF GoodMap, Map
<1>2. /\ x \in m.tree /\ Key(m, v) < Key(m, x) /\ Beside(m, v, x)
      /\ m.entry[x].type = type /\ Joins(m, v, x)
  BY NextBeside DEF NextJoins
<1>3. x # v
  BY <1>2, Extents
<1>4. g = [m EXCEPT !.entry = h]
  BY <1>1 DEF TakeLast, Map
<1> HIDE DEF x
<1>5. /\ h[x] = GrowDown(m.entry[x], n) /\ h[v] = DropLast(m.entry[v], n)
      /\ \A t \in Slot \ {v, x} : h[t] = m.entry[t]
  BY <1>1, <1>2, <1>3
<1> HIDE DEF h, g
<1>6. g.tree = m.tree /\ g.entry = h
  BY <1>1, <1>4 DEF Map
<1>7. m.entry[x] \in Entry /\ m.entry[v] \in Entry
  BY <1>1, <1>2
<1>8. /\ h[x].start = m.entry[x].start - n /\ End(h[x]) = End(m.entry[x])
      /\ h[x].type = m.entry[x].type
  <2> DEFINE e == m.entry[x]
  <2>1. e \in Entry /\ n \in Int
    BY <1>1, <1>5, <1>7
  <2> HIDE DEF e
  <2>2. /\ GrowDown(e, n).start = e.start - n
        /\ End(GrowDown(e, n)) = End(e)
        /\ GrowDown(e, n).type = e.type
    BY <2>1, EntryExtents
  <2> QED BY <1>5, <2>2 DEF e
<1>9. /\ h[v].start = m.entry[v].start /\ End(h[v]) = End(m.entry[v]) - n
      /\ h[v].type = m.entry[v].type
  <2> DEFINE e == m.entry[v]
  <2>1. e \in Entry /\ n \in Int
    BY <1>1, <1>5, <1>7
  <2> HIDE DEF e
  <2>2. /\ DropLast(e, n).start = e.start
        /\ End(DropLast(e, n)) = End(e) - n
        /\ DropLast(e, n).type = e.type
    BY <2>1, EntryExtents
  <2> QED BY <1>5, <2>2 DEF e
<1>10. End(m.entry[v]) = m.entry[x].start
  BY <1>2 DEF Joins
<1>11. /\ Is(g, v, Key(m, v), Hi(m, v) - n, Ty(m, v))
       /\ Is(g, x, Hi(m, v) - n, Hi(m, x), Ty(m, x))
       /\ Hi(m, v) = Key(m, x) /\ Ty(m, x) = type
  BY <1>2, <1>6, <1>8, <1>9, <1>10 DEF Is, Key, Hi, Ty
<1> QED BY <1>1, <1>2, <1>3, <1>5, <1>6, <1>11 DEF x, g

LEMMA TakeNewIs ==
  ASSUME NEW m, GoodMap(m), NEW v \in m.tree, NEW type, NEW n \in Nat,
         NEW s \in Slot, s \notin m.tree
  PROVE  LET g == TakeNew(m, v, n, type, s)
         IN /\ g.tree = m.tree \cup {s}
            /\ \A t \in m.tree \ {v} : g.entry[t] = m.entry[t]
            /\ Is(g, s, Key(m, v), Key(m, v) + n, type)
            /\ Is(g, v, Key(m, v) + n, Hi(m, v), Ty(m, v))
<1> DEFINE h == [m.entry EXCEPT ![s] = Region(Key(m, v), n, type),
                                ![v] = DropFirst(@, n)]
           g == TakeNew(m, v, n, type, s)
<1>1. /\ m \in Map /\ m.entry \in [Slot -> Entry] /\ m.tree \subseteq Slot /\ n \in Int
      /\ v # s
  BY DEF GoodMap, Map
<1>2. g = [m EXCEPT !.entry = h, !.tree = m.tree \cup {s}]
  BY <1>1 DEF TakeNew, Map
<1>3. /\ h[s] = Region(Key(m, v), n, type) /\ h[v] = DropFirst(m.entry[v], n)
      /\ \A t \in Slot \ {s, v} : h[t] = m.entry[t]
  BY <1>1
<1> HIDE DEF h, g
<1>4. g.tree = m.tree \cup {s} /\ g.entry = h
  BY <1>1, <1>2 DEF Map
<1>5. m.entry[v] \in Entry
  BY <1>1
<1>6. /\ h[v].start = m.entry[v].start + n /\ End(h[v]) = End(m.entry[v])
      /\ h[v].type = m.entry[v].type
  <2> DEFINE e == m.entry[v]
  <2>1. e \in Entry /\ n \in Int
    BY <1>1, <1>3, <1>5
  <2> HIDE DEF e
  <2>2. /\ DropFirst(e, n).start = e.start + n
        /\ End(DropFirst(e, n)) = End(e)
        /\ DropFirst(e, n).type = e.type
    BY <2>1, EntryExtents
  <2> QED BY <1>3, <2>2 DEF e
<1>7. /\ h[s].start = Key(m, v) /\ End(h[s]) = Key(m, v) + n /\ h[s].type = type
  BY <1>3 DEF Region, End
<1>8. /\ Is(g, s, Key(m, v), Key(m, v) + n, type)
      /\ Is(g, v, Key(m, v) + n, Hi(m, v), Ty(m, v))
  BY <1>4, <1>6, <1>7 DEF Is, Key, Hi, Ty
<1>9. \A t \in m.tree \ {v} : g.entry[t] = m.entry[t]
  BY <1>1, <1>3, <1>4
<1> QED BY <1>4, <1>8, <1>9 DEF g

(* A change of type.                                                       *)
LEMMA RetypedIs ==
  ASSUME NEW m, GoodMap(m), NEW v \in m.tree, NEW type \in Type,
         NEW g, g = [m EXCEPT !.entry[v] = Retype(@, type)]
  PROVE  /\ GoodMap(g) /\ g.tree = m.tree
         /\ \A t \in m.tree \ {v} : g.entry[t] = m.entry[t]
         /\ Is(g, v, Key(m, v), Hi(m, v), type)
<1> DEFINE h == [m.entry EXCEPT ![v] = Retype(@, type)]
<1>1. m \in Map /\ m.entry \in [Slot -> Entry] /\ m.tree \subseteq Slot
  BY DEF GoodMap, Map
<1>2. g = [m EXCEPT !.entry = h]
  BY <1>1 DEF Map
<1>3. h[v] = Retype(m.entry[v], type) /\ \A t \in Slot \ {v} : h[t] = m.entry[t]
  BY <1>1
<1>4. GoodEntry(m.entry[v]) /\ \A t \in m.tree : GoodEntry(m.entry[t])
  BY DEF GoodMap
<1>5. GoodEntry(h[v]) /\ h[v] \in Entry /\ h[v].type = type
  BY <1>3, <1>4, RetypeGood, GoodIs
<1>6. h \in [Slot -> Entry] /\ \A t \in m.tree : GoodEntry(h[t])
  BY <1>1, <1>3, <1>4, <1>5
<1>7. h[v].start = m.entry[v].start /\ End(h[v]) = End(m.entry[v])
  BY <1>3 DEF Retype, Region, End
<1> HIDE DEF h
<1>8. GoodMap(g) /\ g.tree = m.tree /\ g.entry = h
  <2>1. /\ GoodMap([m EXCEPT !.entry = h]) /\ [m EXCEPT !.entry = h].tree = m.tree
        /\ [m EXCEPT !.entry = h].entry = h
    BY <1>6, WithEntries
  <2> QED BY <1>2, <2>1
<1> QED BY <1>1, <1>3, <1>5, <1>7, <1>8 DEF Is, Key, Hi, Ty

LEMMA TakeWholeCalm ==
  ASSUME NEW m, GoodMap(m), ~Tied(m), NEW v \in m.tree, NEW type \in Type
  PROVE  Calm(m, TakeWhole(m, v, type)) /\ ~Tied(TakeWhole(m, v, type))
<1> DEFINE g == [m EXCEPT !.entry[v] = Retype(@, type)]
<1>1. /\ GoodMap(g) /\ g.tree = m.tree
      /\ \A t \in m.tree \ {v} : g.entry[t] = m.entry[t]
      /\ Is(g, v, Key(m, v), Hi(m, v), type)
  BY RetypedIs
<1>2. TakeWhole(m, v, type) = MergeAdjacent(g, v)
  BY DEF TakeWhole
<1> HIDE DEF g
<1>3. \A t \in m.tree : Key(g, t) = Key(m, t) /\ Hi(g, t) = Hi(m, t)
  BY <1>1 DEF Is, Key, Hi
<1>4. Calm(m, g) /\ ~Tied(g)
  BY <1>1, <1>3, SameCalm
<1>5. Calm(g, MergeAdjacent(g, v)) /\ ~Tied(MergeAdjacent(g, v))
  BY <1>1, <1>4, MergeCalm
<1>6. GoodMap(MergeAdjacent(g, v))
  BY <1>1, MergeGood
<1> QED BY <1>1, <1>2, <1>4, <1>5, <1>6, CalmTrans

(* Taking n bytes of v that no other entry describes adds no overlap.      *)
LEMMA TakeCalm ==
  ASSUME NEW m, GoodMap(m), ~Tied(m), NEW v \in m.tree, NEW type \in Type,
         NEW n \in Nat, 0 < n, n < m.entry[v].size, Aligned(n)
  PROVE  /\ PrevJoins(m, v, type) /\ Clear(m, v, Key(m, v), Key(m, v) + n)
              => Calm(m, TakeFirst(m, v, n))
         /\ NextJoins(m, v, type) /\ Clear(m, v, Hi(m, v) - n, Hi(m, v))
              => Calm(m, TakeLast(m, v, n))
         /\ \A s \in Slot :
              /\ s \notin m.tree /\ Clear(m, v, Key(m, v), Key(m, v) + n)
              /\ GoodMap(TakeNew(m, v, n, type, s))
              => Calm(m, TakeNew(m, v, n, type, s))
<1>1. /\ Key(m, v) \in Int /\ Hi(m, v) \in Int /\ Key(m, v) < Key(m, v) + n
      /\ Key(m, v) + n < Hi(m, v) /\ Key(m, v) + n \in Int
      /\ Hi(m, v) - n \in Int /\ Key(m, v) < Hi(m, v) - n /\ Hi(m, v) - n < Hi(m, v)
  <2>1. PICK a \in Int, b \in Int : a = Key(m, v) /\ b = Hi(m, v) /\ n < b - a
    BY Extent
  <2> QED BY <2>1
<1>2. ASSUME PrevJoins(m, v, type), Clear(m, v, Key(m, v), Key(m, v) + n)
      PROVE  Calm(m, TakeFirst(m, v, n))
  <2> DEFINE p == RB_PREV(m, v)
             g == TakeFirst(m, v, n)
  <2>1. /\ g.tree = m.tree /\ p \in m.tree
        /\ Key(m, p) < Key(m, v) /\ Beside(m, p, v)
        /\ \A t \in m.tree \ {p, v} : g.entry[t] = m.entry[t]
        /\ Is(g, p, Key(m, p), Key(m, v) + n, Ty(m, p))
        /\ Is(g, v, Key(m, v) + n, Hi(m, v), Ty(m, v))
    BY <1>2, TakeFirstIs
  <2>2. GoodMap(g)
    BY <1>2, TakeFirstGood
  <2> HIDE DEF p, g
  <2>3. \A t \in m.tree \ {p, v} : Key(g, t) = Key(m, t) /\ Hi(g, t) = Hi(m, t)
    BY <2>1 DEF Key, Hi
  <2>4. /\ Key(g, p) = Key(m, p) /\ Hi(g, p) = Key(m, v) + n
        /\ Key(g, v) = Key(m, v) + n /\ Hi(g, v) = Hi(m, v)
    BY <2>1 DEF Is
  <2>5. Calm(m, g)
    BY <1>1, <1>2, <2>1, <2>2, <2>3, <2>4, FirstCalm
  <2> QED BY <2>5 DEF g
<1>3. ASSUME NextJoins(m, v, type), Clear(m, v, Hi(m, v) - n, Hi(m, v))
      PROVE  Calm(m, TakeLast(m, v, n))
  <2> DEFINE x == RB_NEXT(m, v)
             g == TakeLast(m, v, n)
  <2>1. /\ g.tree = m.tree /\ x \in m.tree /\ Hi(m, v) = Key(m, x)
        /\ \A t \in m.tree \ {v, x} : g.entry[t] = m.entry[t]
        /\ Is(g, v, Key(m, v), Hi(m, v) - n, Ty(m, v))
        /\ Is(g, x, Hi(m, v) - n, Hi(m, x), Ty(m, x))
    BY <1>3, TakeLastIs
  <2>2. GoodMap(g)
    BY <1>3, TakeLastGood
  <2> HIDE DEF x, g
  <2>3. \A t \in m.tree \ {v, x} : Key(g, t) = Key(m, t) /\ Hi(g, t) = Hi(m, t)
    BY <2>1 DEF Key, Hi
  <2>4. /\ Key(g, v) = Key(m, v) /\ Hi(g, v) = Hi(m, v) - n
        /\ Key(g, x) = Hi(m, v) - n /\ Hi(g, x) = Hi(m, x)
    BY <2>1 DEF Is
  <2>5. Calm(m, g)
    BY <1>1, <1>3, <2>1, <2>2, <2>3, <2>4, LastCalm
  <2> QED BY <2>5 DEF g
<1>4. ASSUME NEW s \in Slot, s \notin m.tree, GoodMap(TakeNew(m, v, n, type, s)),
             Clear(m, v, Key(m, v), Key(m, v) + n)
      PROVE  Calm(m, TakeNew(m, v, n, type, s))
  <2> DEFINE g == TakeNew(m, v, n, type, s)
  <2>1. /\ g.tree = m.tree \cup {s}
        /\ \A t \in m.tree \ {v} : g.entry[t] = m.entry[t]
        /\ Is(g, s, Key(m, v), Key(m, v) + n, type)
        /\ Is(g, v, Key(m, v) + n, Hi(m, v), Ty(m, v))
    BY <1>4, TakeNewIs
  <2>2. GoodMap(g)
    BY <1>4
  <2> HIDE DEF g
  <2>3. \A t \in m.tree \ {v} : Key(g, t) = Key(m, t) /\ Hi(g, t) = Hi(m, t)
    BY <2>1 DEF Key, Hi
  <2>4. /\ Key(g, s) = Key(m, v) /\ Hi(g, s) = Key(m, v) + n
        /\ Key(g, v) = Key(m, v) + n /\ Hi(g, v) = Hi(m, v)
    BY <2>1 DEF Is
  <2>5. Calm(m, g)
    BY <1>1, <1>4, <2>1, <2>2, <2>3, <2>4, NewCalm
  <2> QED BY <2>5 DEF g
<1> QED BY <1>2, <1>3, <1>4


(* What mmap_alloc_entry relies on when it takes a page for slots.         *)
LEMMA PageFree ==
  ASSUME NEW m, GoodMap(m), Empty(m), AllocFault(m) = "ok"
  PROVE  LET v == Victim(m, 0)
             page == ScavengedPage(m)
             way == Way(m, v, PageSize, "loader_data")
         IN /\ v \in m.tree /\ Ty(m, v) = "conventional"
            /\ page \in Int /\ page # 0 /\ ~HoldsSlots(m, page)
            /\ page = IF way = "last" THEN Hi(m, v) - PageSize ELSE Key(m, v)
            /\ Clear(m, v, page, page + PageSize)
            /\ Key(m, v) + PageSize <= Hi(m, v)
            /\ m.entry[v].size = PageSize <=> Key(m, v) + PageSize = Hi(m, v)
            /\ ~Tied(Scavenge(m))
<1> DEFINE v == Victim(m, 0)
           page == ScavengedPage(m)
           way == Way(m, v, PageSize, "loader_data")
           e == Region(page, PageSize, "loader_data")
<1>1. v \in m.tree /\ m.entry[v].type = "conventional"
  BY ScavengeGood, VictimIs
<1>2. /\ e.start # 0 /\ ~HoldsSlots(m, e.start) /\ ~Tied(Scavenge(m))
      /\ ~\E t \in m.tree \ {Victim(m, 0)} : Overlapping(m.entry[t], e)
  BY DEF AllocFault
<1>3. page = IF way = "last" THEN End(m.entry[v]) - PageSize ELSE Key(m, v)
  BY DEF ScavengedPage, TakenAt
<1> HIDE DEF v, way, page
<1>4. e.start = page /\ End(e) = page + PageSize
  BY DEF Region, End
<1>5. /\ Key(m, v) \in Int /\ Hi(m, v) \in Int /\ Key(m, v) + 4096 <= Hi(m, v)
      /\ m.entry[v].size = Hi(m, v) - Key(m, v)
  BY <1>1, Extent
<1>6. page \in Int /\ PageSize = 4096 /\ page = IF way = "last" THEN Hi(m, v) - PageSize ELSE Key(m, v)
  BY <1>3, <1>5 DEF PageSize, Hi
<1> HIDE DEF e
<1>7. Clear(m, v, page, page + PageSize)
  <2>1. ASSUME NEW t \in m.tree \ {v}
        PROVE  Hi(m, t) <= page \/ page + PageSize <= Key(m, t)
    <3>1. ~Overlapping(m.entry[t], e)
      BY <1>2 DEF v
    <3>2. ~(Key(m, t) < page + PageSize /\ page < Hi(m, t))
      BY <1>4, <3>1 DEF Overlapping, Key, Hi
    <3>3. Key(m, t) \in Int /\ Hi(m, t) \in Int
      BY Extents
    <3> QED BY <1>6, <3>2, <3>3
  <2> QED BY <2>1 DEF Clear
<1>8. m.entry[v].size = PageSize <=> Key(m, v) + PageSize = Hi(m, v)
  BY <1>5, <1>6
<1>9. Key(m, v) + PageSize <= Hi(m, v)
  BY <1>5, <1>6
<1>10. page # 0 /\ ~HoldsSlots(m, page) /\ Ty(m, v) = "conventional"
  BY <1>1, <1>2, <1>4 DEF Ty
<1> QED BY <1>1, <1>2, <1>6, <1>7, <1>8, <1>9, <1>10 DEF v, way, page

(* mmap_alloc_entry adds no overlap.                                       *)
LEMMA AllocCalm ==
  ASSUME NEW m, GoodMap(m), ~Tied(m), AllocFault(m) = "ok"
  PROVE  Calm(m, AllocEntry(m)) /\ ~Tied(AllocEntry(m))
<1>1. CASE ~Empty(m)
  <2>1. AllocEntry(m).tree = m.tree /\ AllocEntry(m).entry = m.entry
    BY <1>1, AllocTree
  <2>2. \A t \in m.tree : Key(AllocEntry(m), t) = Key(m, t)
                          /\ Hi(AllocEntry(m), t) = Hi(m, t)
    BY <2>1 DEF Key, Hi
  <2> HIDE DEF AllocEntry
  <2> QED BY <2>1, <2>2, SameCalm
<1>2. CASE Empty(m)
  <2> DEFINE v == Victim(m, 0)
             page == ScavengedPage(m)
             way == Way(m, v, PageSize, "loader_data")
             new == <<page, 0>>
             g == PageTaken(m)
             f == AllocEntry(m)
  <2>1. /\ v \in m.tree /\ page \in Int
        /\ page = IF way = "last" THEN Hi(m, v) - PageSize ELSE Key(m, v)
        /\ Clear(m, v, page, page + PageSize)
        /\ Key(m, v) + PageSize <= Hi(m, v)
        /\ m.entry[v].size = PageSize <=> Key(m, v) + PageSize = Hi(m, v)
        /\ ~Tied(Scavenge(m))
    BY <1>2, PageFree
  <2>2. /\ GoodMap(g) /\ new \in Slot /\ new \notin m.tree
        /\ f.tree = g.tree /\ f.entry = g.entry
        /\ f.tree = Scavenge(m).tree /\ f.entry = Scavenge(m).entry
    BY <1>2, ScavengeGood, AllocTree DEF Used
  <2>3. ~Tied(f)
    BY <2>1, <2>2 DEF Tied, Key
  <2>4. g = Took(m, v, way, new)
    BY DEF PageTaken
  <2>5. "loader_data" \in Type /\ PageSize \in Nat /\ 0 < PageSize /\ Aligned(PageSize)
    BY PageSizeIs DEF Type
  <2>6. /\ way \in {"whole", "first", "last", "new"}
        /\ way = "whole" <=> m.entry[v].size = PageSize
        /\ way = "first" => PrevJoins(m, v, "loader_data")
        /\ way = "last" => NextJoins(m, v, "loader_data")
    BY WayIs
  <2> HIDE DEF v, page, way, new, g, f
  <2>7. way # "whole" => PageSize < m.entry[v].size
    <3>1. PICK a \in Int, b \in Int : /\ a = Key(m, v) /\ b = Hi(m, v)
                                      /\ m.entry[v].size = b - a
      BY <2>1, Extent
    <3> QED BY <2>1, <2>5, <2>6, <3>1
  <2>8. /\ way = "whole" => g = TakeWhole(m, v, "loader_data")
        /\ way = "first" => g = TakeFirst(m, v, PageSize)
        /\ way = "last" => g = TakeLast(m, v, PageSize)
        /\ way = "new" => g = TakeNew(m, v, PageSize, "loader_data", new)
    BY <2>4 DEF Took
  <2>9. Calm(m, g)
    <3>1. CASE way = "whole"
      BY <2>1, <2>5, <2>8, <3>1, TakeWholeCalm
    <3>2. CASE way = "first"
      <4>1. Clear(m, v, Key(m, v), Key(m, v) + PageSize)
        BY <2>1, <3>2
      <4> QED BY <2>1, <2>5, <2>6, <2>7, <2>8, <3>2, <4>1, TakeCalm
    <3>3. CASE way = "last"
      <4>1. Clear(m, v, Hi(m, v) - PageSize, Hi(m, v))
        <5>1. (Hi(m, v) - PageSize) + PageSize = Hi(m, v)
          BY <2>1, <2>5, Extents
        <5> QED BY <2>1, <3>3, <5>1
      <4> QED BY <2>1, <2>5, <2>6, <2>7, <2>8, <3>3, <4>1, TakeCalm
    <3>4. CASE way = "new"
      <4>1. Clear(m, v, Key(m, v), Key(m, v) + PageSize)
        BY <2>1, <3>4
      <4>2. g = TakeNew(m, v, PageSize, "loader_data", new)
        BY <2>8, <3>4
      <4>3. GoodMap(TakeNew(m, v, PageSize, "loader_data", new))
        BY <2>2, <4>2
      <4> QED BY <2>1, <2>2, <2>5, <2>7, <3>4, <4>1, <4>2, <4>3, TakeCalm
    <3> QED BY <2>6, <3>1, <3>2, <3>3, <3>4
  <2>10. Calm(g, f)
    <3>1. \A t \in g.tree : Key(f, t) = Key(g, t) /\ Hi(f, t) = Hi(g, t)
      BY <2>2 DEF Key, Hi
    <3> QED BY <2>2, <3>1, SameCalm
  <2>11. GoodMap(f)
    BY AllocGood DEF f
  <2>12. Calm(m, f)
    BY <2>2, <2>9, <2>10, <2>11, CalmTrans
  <2> QED BY <2>3, <2>12 DEF f
<1> QED BY <1>1, <1>2


-----------------------------------------------------------------------------
(***************************************************************************)
(* The steps of a call, one lemma for each kind.                           *)
(***************************************************************************)
Quiet(m) == ~Tied(m) /\ \A a, b \in m.tree : ~Meets(m, a, b)

LEMMA QuietOrderly ==
  ASSUME NEW m, Quiet(m), NEW q, FixOnTop(q), AddsLast(q),
         q = <<>> \/ q[1].op # "fix",
         \A i \in 1 .. Len(q) : q[i].op # "fixprev"
  PROVE  Orderly(m, q)
<1>1. \A a, b \in m.tree : ~Unfixed(m, q, a, b)
  BY DEF Quiet, Unfixed
<1>2. PrevFollows(m, q) /\ Stacked(m, q)
  BY <1>1 DEF PrevFollows, Stacked
<1>3. TopFix(m, q)
  BY DEF TopFix
<1> QED BY <1>2, <1>3 DEF Orderly, TopAdd, Quiet, Unfixed

LEMMA OrderlyQuiet ==
  ASSUME NEW m, NEW q, Orderly(m, q), q = <<>> \/ q[1].op # "fix",
         \A i \in 1 .. Len(q) : q[i].op # "fixprev"
  PROVE  Quiet(m)
<1>1. ASSUME NEW a \in m.tree, NEW b \in m.tree, Meets(m, a, b) PROVE FALSE
  <2>1. Unfixed(m, q, a, b)
    BY <1>1 DEF Unfixed, Fixing
  <2> QED BY <2>1 DEF Orderly, PrevFollows, IsPrev
<1> QED BY <1>1 DEF Quiet, Orderly

LEMMA TopIs ==
  ASSUME NEW old \in Seq(Pending), old # <<>>, NEW q \in Seq(Pending), q # <<>>
  PROVE  Replaced(old, q) # <<>> /\ Replaced(old, q)[1] = q[1] /\ 1 \in 1 .. Len(q)
<1>1. Len(q) \in Nat /\ Len(q) # 0
  BY EmptySeq
<1>2. Replaced(old, q)[1] = q[1] /\ 1 \in 1 .. Len(q)
  <2>1. \A i \in 1 .. Len(q) : Replaced(old, q)[i] = q[i]
    BY StackIs
  <2> QED BY <1>1, <2>1
<1>3. Replaced(old, q) # <<>>
  <2>1. /\ Len(old) \in Nat \ {0} /\ Len(Replaced(old, q)) = Len(q) + (Len(old) - 1)
    BY StackIs
  <2> QED BY <1>1, <2>1
<1> QED BY <1>2, <1>3

LEMMA CalmInherits ==
  ASSUME NEW m, GoodMap(m), NEW old, old # <<>>, Orderly(m, old),
         old[1].op \notin {"fix", "fixprev"},
         NEW g, GoodMap(g), Calm(m, g),
         NEW a \in g.tree, NEW b \in g.tree, Meets(g, a, b)
  PROVE  /\ Inherits(m, old, g, a, b)
         /\ old[1].op = "add" /\ old[1].arg.start \in Int => Hi(g, a) <= old[1].arg.start
<1>1. PICK c \in m.tree : Carried(m, g, c, a, b)
  BY DEF Calm
<1>2. Unfixed(m, old, c, b) /\ b \in m.tree
  BY <1>1 DEF Carried, Unfixed, Fixing, Meets
<1>3. Inherits(m, old, g, a, b)
  BY <1>1, <1>2 DEF Inherits, IsPrev, Carried
<1>4. ASSUME old[1].op = "add", old[1].arg.start \in Int
      PROVE  Hi(g, a) <= old[1].arg.start
  <2>1. Hi(m, c) <= old[1].arg.start
    BY <1>2, <1>4 DEF Orderly, TopAdd
  <2>2. Hi(g, a) <= Hi(m, c) /\ Hi(g, a) \in Int /\ Hi(m, c) \in Int
    BY <1>1, Extents DEF Carried
  <2> QED BY <1>4, <2>1, <2>2
<1> QED BY <1>3, <1>4

(* A step that adds no overlap and goes on with merging or nothing.        *)
LEMMA CalmOnward ==
  ASSUME NEW m, GoodMap(m), NEW old \in Seq(Pending), old # <<>>, Orderly(m, old),
         old[1].op \notin {"fix", "fixprev"},
         NEW g, GoodMap(g), ~Tied(g), Calm(m, g), NEW q \in Seq(Pending),
         \A i \in 1 .. Len(q) : q[i].op \in {"merge", "bump"}
  PROVE  Orderly(g, Replaced(old, q))
<1> DEFINE r == Replaced(old, q)
<1>1. InOrder(q, NoSlot)
  BY DEF InOrder
<1>2. ASSUME NEW a \in g.tree, NEW b \in g.tree, Unfixed(g, r, a, b)
      PROVE  Inherits(m, old, g, a, b)
  BY <1>2, CalmInherits DEF Unfixed
<1>3. q # <<>> => TopAdd(g, r) /\ TopFix(g, r)
  <2>1. ASSUME q # <<>> PROVE TopAdd(g, r) /\ TopFix(g, r)
    <3>1. r[1] = q[1] /\ 1 \in 1 .. Len(q)
      BY <2>1, TopIs
    <3>2. r[1].op \in {"merge", "bump"}
      BY <3>1
    <3> HIDE DEF r
    <3> QED BY <3>2 DEF TopAdd, TopFix
  <2> QED BY <2>1
<1>4. /\ Explained(m, old, g, q, NoSlot) /\ OutOfTheWay(old, g, q, NoSlot)
      /\ TopReady(old, g, q)
  BY <1>2, <1>3 DEF Explained, OutOfTheWay, TopReady
<1> QED BY <1>1, <1>4, Onward

(* mmap_add_entry inserted a new entry, that starts where nothing did.     *)
Adds(m, old, A, g, s) ==
  /\ GoodMap(m) /\ old \in Seq(Pending) /\ old # <<>> /\ Orderly(m, old)
  /\ old[1].op = "add" /\ A \in Int /\ A = old[1].arg.start
  /\ GoodMap(g) /\ Calm(m, g) /\ s \in Slot /\ s \notin g.tree

Inserts(g, A, s, h, q) ==
  /\ GoodMap(h) /\ ~Tied(h) /\ h.tree = g.tree \cup {s} /\ Key(h, s) = A
  /\ \A t \in g.tree : h.entry[t] = g.entry[t]
  /\ q \in Seq(Pending) /\ Len(q) = 4 /\ q[1] = FixCall(s)
  /\ q[2] = FixPrevCall(s) /\ q[3] = MergeCall(s) /\ q[4] = BumpCall

LEMMA InsertOnward ==
  ASSUME NEW m, NEW old, NEW A, NEW g, NEW s, NEW h, NEW q,
         Adds(m, old, A, g, s), Inserts(g, A, s, h, q)
  PROVE  Orderly(h, Replaced(old, q))
<1> USE DEF Adds, Inserts
<1> DEFINE r == Replaced(old, q)
<1>1. /\ Len(q) = 4 /\ q[1].op = "fix" /\ q[1].slot = s
      /\ q[2].op = "fixprev" /\ q[2].slot = s /\ q[3].op = "merge" /\ q[4].op = "bump"
      /\ q # <<>>
  <2>0. q \in Seq(Pending) /\ Len(q) = 4
    OBVIOUS
  <2>1. q # <<>>
    <3> HIDE DEF Adds, Inserts
    <3> QED BY <2>0, EmptySeq
  <2> QED BY <2>1 DEF FixCall, FixPrevCall, MergeCall, BumpCall
<1>2. r # <<>> /\ r[1].op = "fix" /\ r[1].slot = s
  BY <1>1, TopIs
<1>3. \A t \in g.tree : /\ Key(h, t) = Key(g, t) /\ Hi(h, t) = Hi(g, t)
                        /\ Key(g, t) \in Int /\ Hi(g, t) \in Int
  BY Extents DEF Key, Hi
<1>4. \A i \in 1 .. Len(q) : /\ q[i].op \in {"fix", "add"} => i = 1
                             /\ q[i].op = "fixprev" => q[i].slot = s
  BY <1>1
<1> HIDE DEF r
<1>5. ASSUME NEW a \in h.tree, NEW b \in h.tree, Unfixed(h, r, a, b)
      PROVE  a \in g.tree
  BY <1>2, <1>5 DEF Unfixed, Fixing
<1>6. ASSUME NEW a \in g.tree, NEW b \in g.tree, Meets(h, a, b)
      PROVE  Inherits(m, old, h, a, b) /\ Hi(h, a) <= A
  <2>1. Meets(g, a, b)
    BY <1>3, <1>6 DEF Meets
  <2>2. Inherits(m, old, g, a, b) /\ Hi(g, a) <= A
    BY <2>1, CalmInherits
  <2>3. Beside(g, a, b) => Beside(h, a, b)
    BY <1>3, <2>1, <2>2 DEF Beside, Meets
  <2> QED BY <1>3, <2>2, <2>3 DEF Inherits
<1>7. ASSUME NEW a \in g.tree, Meets(h, a, s)
      PROVE  Beside(h, a, s)
  <2>1. SUFFICES ASSUME NEW c \in h.tree, Key(h, a) < Key(h, c), Key(h, c) < Key(h, s)
                 PROVE  FALSE
    BY DEF Beside
  <2>2. c \in g.tree
    BY <1>3, <2>1
  <2>3. Meets(h, a, c)
    BY <1>3, <1>7, <2>1, <2>2 DEF Meets
  <2>4. Hi(h, a) <= A
    BY <1>6, <2>2, <2>3
  <2> QED BY <1>3, <1>7, <2>4 DEF Meets
<1>8. ASSUME NEW a \in h.tree, NEW b \in h.tree, Unfixed(h, r, a, b)
      PROVE  \/ Inherits(m, old, h, a, b)
             \/ b = s /\ Beside(h, a, s) /\ \E i \in 1 .. Len(q) : IsPrev(q[i], s)
  <2>1. a \in g.tree /\ Meets(h, a, b)
    BY <1>5, <1>8 DEF Unfixed
  <2>2. CASE b = s
    BY <1>1, <1>7, <2>1, <2>2 DEF IsPrev
  <2>3. CASE b \in g.tree
    BY <1>6, <2>1, <2>3
  <2> QED BY <2>2, <2>3
<1>9. \A a, b \in h.tree : Unfixed(h, r, a, b) /\ b # s => Hi(h, a) <= Key(h, s)
  BY <1>5, <1>6 DEF Unfixed
<1>10. TopAdd(h, r) /\ TopFix(h, r)
  BY <1>2, <1>9 DEF TopAdd, TopFix
<1>11. /\ InOrder(q, s) /\ Explained(m, old, h, q, s) /\ OutOfTheWay(old, h, q, s)
       /\ TopReady(old, h, q)
  BY <1>4, <1>8, <1>9, <1>10 DEF InOrder, Explained, OutOfTheWay, TopReady, r
<1> QED BY <1>11, Onward

(* mmap_add_entry inserted what a longer new entry has beyond an old one   *)
(* of the same start.                                                      *)
Prolongs(g, A, s, o, h, q) ==
  /\ ~Tied(g) /\ o \in g.tree /\ Key(g, o) = A
  /\ GoodMap(h) /\ ~Tied(h) /\ h.tree = g.tree \cup {s} /\ Key(h, s) = Hi(g, o)
  /\ \A t \in g.tree : Key(h, t) = Key(g, t) /\ Hi(h, t) = Hi(g, t)
  /\ q \in Seq(Pending) /\ q = <<FixCall(s), MergeCall(s), BumpCall>>

LEMMA BeyondOnward ==
  ASSUME NEW m, NEW old, NEW A, NEW g, NEW s, NEW o, NEW h, NEW q,
         Adds(m, old, A, g, s), Prolongs(g, A, s, o, h, q)
  PROVE  Orderly(h, Replaced(old, q))
<1> USE DEF Adds, Prolongs
<1> DEFINE r == Replaced(old, q)
<1>1. /\ Len(q) = 3 /\ q[1].op = "fix" /\ q[1].slot = s
      /\ q[2].op = "merge" /\ q[3].op = "bump" /\ q # <<>>
  BY DEF FixCall, MergeCall, BumpCall
<1>2. r # <<>> /\ r[1].op = "fix" /\ r[1].slot = s
  BY <1>1, TopIs
<1>3. \A t \in g.tree : /\ Key(h, t) = Key(g, t) /\ Hi(h, t) = Hi(g, t)
                        /\ Key(g, t) \in Int /\ Hi(g, t) \in Int /\ Key(g, t) < Hi(g, t)
  BY Extents
<1>4. \A i \in 1 .. Len(q) : /\ q[i].op \in {"fix", "add"} => i = 1
                             /\ q[i].op # "fixprev"
  BY <1>1
<1> HIDE DEF r
<1>5. ASSUME NEW a \in h.tree, NEW b \in h.tree, Unfixed(h, r, a, b)
      PROVE  a \in g.tree /\ Meets(h, a, b)
  BY <1>2, <1>5 DEF Unfixed, Fixing
<1>6. ASSUME NEW a \in g.tree, NEW b \in g.tree, Meets(h, a, b)
      PROVE  Inherits(m, old, h, a, b) /\ Hi(h, a) <= A
  <2>1. Meets(g, a, b)
    BY <1>3, <1>6 DEF Meets
  <2>2. Inherits(m, old, g, a, b) /\ Hi(g, a) <= A
    BY <2>1, CalmInherits
  <2>3. Beside(g, a, b) => Beside(h, a, b)
    BY <1>3, <2>1, <2>2 DEF Beside, Meets
  <2> QED BY <1>3, <2>2, <2>3 DEF Inherits
<1>7. ASSUME NEW a \in g.tree, Meets(h, a, s) PROVE FALSE
  <2>1. Key(h, a) < Hi(g, o) /\ Hi(g, o) < Hi(h, a) /\ a # o
    BY <1>3, <1>7 DEF Meets
  <2>2. CASE Key(g, a) < A
    <3>1. Meets(h, a, o)
      BY <1>3, <2>1, <2>2 DEF Meets
    <3> QED BY <1>3, <1>6, <2>1, <3>1
  <2>3. CASE A < Key(g, a)
    <3>1. Meets(h, o, a)
      BY <1>3, <2>1, <2>3 DEF Meets
    <3> QED BY <1>3, <1>6, <3>1
  <2>4. Key(g, a) # A
    BY <2>1 DEF Tied
  <2> QED BY <1>3, <2>2, <2>3, <2>4
<1>8. ASSUME NEW a \in h.tree, NEW b \in h.tree, Unfixed(h, r, a, b)
      PROVE  Inherits(m, old, h, a, b) /\ Hi(h, a) <= A
  BY <1>5, <1>6, <1>7, <1>8
<1>9. \A a, b \in h.tree : Unfixed(h, r, a, b) => Hi(h, a) <= Key(h, s)
  <2>1. ASSUME NEW a \in h.tree, NEW b \in h.tree, Unfixed(h, r, a, b)
        PROVE  Hi(h, a) <= Key(h, s)
    <3>1. Hi(h, a) <= A /\ Hi(h, a) \in Int
      BY <1>3, <1>5, <1>8, <2>1
    <3> QED BY <1>3, <3>1
  <2> QED BY <2>1
<1>10. TopAdd(h, r) /\ TopFix(h, r)
  BY <1>2, <1>9 DEF TopAdd, TopFix
<1>11. /\ InOrder(q, s) /\ Explained(m, old, h, q, s) /\ OutOfTheWay(old, h, q, s)
       /\ TopReady(old, h, q)
  BY <1>4, <1>8, <1>10 DEF InOrder, Explained, OutOfTheWay, TopReady, r
<1> QED BY <1>11, Onward


(* The overlaps that fix_overlap of f and its successor x is not about end *)
(* before x, and before f unless they are about f too.                     *)
Aside(m, old, f, x) ==
  \A a, b \in m.tree :
    Meets(m, a, b) /\ a # f
      => /\ Unfixed(m, old, a, b) /\ ~IsPrev(old[1], b)
         /\ Hi(m, a) <= Key(m, x) /\ (b = f \/ Hi(m, a) <= Key(m, f))

(* fix_overlap leaves no overlap of f with x but the one it goes on with.  *)
LEMMA FixedOnward ==
  ASSUME NEW m, GoodMap(m), NEW old \in Seq(Pending), old # <<>>, Orderly(m, old),
         NEW f \in m.tree, NEW x \in m.tree, Key(m, f) < Key(m, x),
         Key(m, x) < Hi(m, f), Beside(m, f, x), Aside(m, old, f, x),
         NEW g, GoodMap(g), ~Tied(g), NEW q \in Seq(Pending), NEW high,
         Fixed(m, g, f, x, high, q)
  PROVE  Orderly(g, Replaced(old, q))
<1> DEFINE r == Replaced(old, q)
<1>1. \A t \in m.tree : /\ Key(m, t) \in Int /\ Hi(m, t) \in Int
                        /\ Key(m, t) < Hi(m, t) /\ t \in Slot
  BY Extents, Extent
<1>2. ASSUME NEW a \in m.tree, NEW b \in m.tree, Meets(m, a, b), a # f
      PROVE  /\ Unfixed(m, old, a, b) /\ ~IsPrev(old[1], b)
             /\ Hi(m, a) <= Key(m, x) /\ (b = f \/ Hi(m, a) <= Key(m, f))
             /\ b # x
  <2>1. /\ Unfixed(m, old, a, b) /\ ~IsPrev(old[1], b)
        /\ Hi(m, a) <= Key(m, x) /\ (b = f \/ Hi(m, a) <= Key(m, f))
    BY <1>2 DEF Aside
  <2>2. b # x
    BY <1>1, <1>2, <2>1 DEF Meets
  <2> QED BY <2>1, <2>2
<1>3. f # x
  BY <1>1
<1>4. ASSUME NEW a \in m.tree, NEW b \in m.tree, Meets(m, a, b), a # f,
             Hi(g, a) = Hi(m, a), Key(g, b) = Key(m, b), Beside(m, a, b) => Beside(g, a, b)
      PROVE  Inherits(m, old, g, a, b)
  <2>1. Unfixed(m, old, a, b) /\ ~IsPrev(old[1], b)
    BY <1>2, <1>4
  <2>2. Hi(g, a) <= Hi(m, a) /\ Key(m, b) <= Key(g, b)
    BY <1>1, <1>4
  <2> QED BY <1>4, <2>1, <2>2 DEF Inherits
<1>5. CASE CutSecond(m, g, f, x) /\ Hi(m, f) < Hi(m, x) /\ q = <<>>
  <2>1. /\ g.tree = m.tree /\ Key(g, x) = Hi(m, f) /\ Hi(g, x) = Hi(m, x)
        /\ \A t \in m.tree \ {x} : Key(g, t) = Key(m, t) /\ Hi(g, t) = Hi(m, t)
    BY <1>1, <1>5 DEF CutSecond, Elsewhere, Key, Hi
  <2>2. ASSUME NEW a \in m.tree, NEW b \in m.tree, Meets(g, a, b)
        PROVE  Inherits(m, old, g, a, b)
    <3>1. Key(g, a) < Key(g, b) /\ Key(g, b) < Hi(g, a) /\ a # b
      BY <1>1, <2>1, <2>2 DEF Meets
    <3>2. \A t \in m.tree : ~Meets(m, x, t)
      BY <1>1, <1>2, <1>3
    <3>3. a # f
      <4>1. SUFFICES ASSUME a = f PROVE FALSE
        OBVIOUS
      <4>2. b # x /\ Key(m, f) < Key(m, b) /\ Key(m, b) < Hi(m, f)
        BY <1>1, <1>3, <2>1, <3>1, <4>1
      <4>3. Key(m, x) < Key(m, b)
        BY <1>1, <4>2 DEF Beside, Orderly, Tied
      <4>4. Meets(m, x, b)
        BY <1>1, <1>5, <4>2, <4>3 DEF Meets
      <4> QED BY <3>2, <4>4
    <3>4. a # x
      <4>1. SUFFICES ASSUME a = x PROVE FALSE
        OBVIOUS
      <4>2. Meets(m, x, b)
        BY <1>1, <2>1, <3>1, <4>1 DEF Meets
      <4> QED BY <3>2, <4>2
    <3>5. b # x
      <4>1. SUFFICES ASSUME b = x PROVE FALSE
        OBVIOUS
      <4>2. Key(m, a) < Hi(m, f) /\ Hi(m, f) < Hi(m, a)
        BY <2>1, <3>1, <3>4, <4>1
      <4>3. CASE Key(m, a) < Key(m, x)
        <5>1. Meets(m, a, x)
          BY <1>1, <4>2, <4>3 DEF Meets
        <5> QED BY <1>2, <3>3, <5>1
      <4>4. CASE Key(m, x) < Key(m, a)
        <5>1. Meets(m, x, a)
          BY <1>1, <1>5, <4>2, <4>4 DEF Meets
        <5> QED BY <3>2, <5>1
      <4>5. Key(m, a) # Key(m, x)
        BY <3>4 DEF Orderly, Tied
      <4> QED BY <1>1, <4>3, <4>4, <4>5
    <3>6. Meets(m, a, b) /\ Hi(g, a) = Hi(m, a) /\ Key(g, b) = Key(m, b)
      BY <2>1, <3>1, <3>4, <3>5 DEF Meets
    <3>7. ASSUME Beside(m, a, b) PROVE Beside(g, a, b)
      <4>1. SUFFICES ASSUME NEW c \in m.tree, Key(g, a) < Key(g, c), Key(g, c) < Key(g, b)
                     PROVE  FALSE
        BY <2>1 DEF Beside
      <4>2. CASE c = x
        <5>1. Hi(m, f) < Key(m, b) /\ Key(m, b) < Hi(m, a) /\ Hi(m, a) <= Key(m, x)
          BY <1>2, <2>1, <3>3, <3>6, <4>1, <4>2 DEF Meets
        <5> QED BY <1>1, <5>1
      <4>3. CASE c # x
        BY <2>1, <3>4, <3>5, <3>7, <4>1, <4>3 DEF Beside
      <4> QED BY <4>2, <4>3
    <3> QED BY <1>4, <3>3, <3>6, <3>7
  <2>3. InOrder(q, NoSlot) /\ OutOfTheWay(old, g, q, NoSlot) /\ TopReady(old, g, q)
    BY <1>5 DEF InOrder, OutOfTheWay, TopReady
  <2>4. Explained(m, old, g, q, NoSlot)
    BY <2>1, <2>2 DEF Explained, Unfixed
  <2> QED BY <2>3, <2>4, Onward
<1>6. ASSUME NEW type, CutFirst(m, g, f, x, type),
             \/ q = <<>>
             \/ q = <<AddCall(Region(Hi(m, x), Hi(m, f) - Hi(m, x), Ty(m, f)))>>
                /\ Hi(m, f) > Hi(m, x)
      PROVE  Orderly(g, Replaced(old, q))
  <2>1. /\ g.tree = m.tree /\ Hi(g, f) = Key(m, x)
        /\ \A t \in m.tree : Key(g, t) = Key(m, t) /\ (t # f => Hi(g, t) = Hi(m, t))
    BY <1>1, <1>3, <1>6 DEF CutFirst, Elsewhere, Key, Hi
  <2>2. ASSUME NEW a \in m.tree, NEW b \in m.tree, Meets(g, a, b)
        PROVE  Inherits(m, old, g, a, b) /\ Hi(g, a) <= Key(m, x)
    <3>1. Key(m, a) < Key(m, b) /\ Key(m, b) < Hi(g, a)
      BY <2>1, <2>2 DEF Meets
    <3>2. a # f
      BY <2>1, <3>1 DEF Beside
    <3>3. Meets(m, a, b) /\ Hi(g, a) = Hi(m, a) /\ Key(g, b) = Key(m, b)
      BY <2>1, <3>1, <3>2 DEF Meets
    <3>4. Beside(m, a, b) => Beside(g, a, b)
      BY <2>1 DEF Beside
    <3> QED BY <1>2, <1>4, <3>2, <3>3, <3>4
  <2>3. Explained(m, old, g, q, NoSlot)
    BY <2>1, <2>2 DEF Explained, Unfixed
  <2>4. InOrder(q, NoSlot) /\ OutOfTheWay(old, g, q, NoSlot)
    BY <1>6 DEF InOrder, OutOfTheWay, AddCall
  <2>5. TopReady(old, g, q)
    <3>1. CASE q = <<>>
      BY <3>1 DEF TopReady
    <3>2. CASE /\ q = <<AddCall(Region(Hi(m, x), Hi(m, f) - Hi(m, x), Ty(m, f)))>>
               /\ Hi(m, f) > Hi(m, x)
      <4> DEFINE e == Region(Hi(m, x), Hi(m, f) - Hi(m, x), Ty(m, f))
      <4>0. q # <<>> /\ q[1] = AddCall(e)
        BY <3>2
      <4>1. r # <<>> /\ r[1] = AddCall(e)
        BY <4>0, TopIs
      <4>2. /\ r[1].op = "add" /\ r[1].arg.start = Hi(m, x)
            /\ r[1].arg.size = Hi(m, f) - Hi(m, x)
        BY <4>1 DEF AddCall, Region
      <4>3. Aligned(Hi(m, x)) /\ Aligned(Hi(m, f) - Hi(m, x))
        <5>1. PICK i \in Nat, j \in Nat : /\ i = Hi(m, x) /\ j = Hi(m, f)
                                          /\ i % 4096 = 0 /\ j % 4096 = 0
          BY Extent
        <5>2. (j - i) % 4096 = 0
          BY <5>1
        <5> QED BY <5>1, <5>2 DEF Aligned, PageSize
      <4> HIDE DEF r, e
      <4>4. \A a, b \in g.tree : Unfixed(g, r, a, b) => Hi(g, a) <= Hi(m, x)
        <5>1. ASSUME NEW a \in g.tree, NEW b \in g.tree, Unfixed(g, r, a, b)
              PROVE  Hi(g, a) <= Hi(m, x)
          <6>1. Hi(g, a) <= Key(m, x) /\ Hi(g, a) \in Int
            BY <2>1, <2>2, <5>1, Extents DEF Unfixed
          <6> QED BY <1>1, <6>1
        <5> QED BY <5>1
      <4>5. TopAdd(g, r)
        BY <4>2, <4>3, <4>4 DEF TopAdd
      <4>6. TopFix(g, r)
        BY <4>2 DEF TopFix
      <4> QED BY <4>5, <4>6 DEF TopReady, r
    <3> QED BY <1>6, <3>1, <3>2
  <2> QED BY <2>3, <2>4, <2>5, Onward
<1>7. CASE DropSecond(m, g, f, x) /\ q = <<FixCall(f)>>
  <2>1. /\ g.tree = m.tree \ {x} /\ f \in g.tree
        /\ \A t \in m.tree : Key(g, t) = Key(m, t) /\ Hi(g, t) = Hi(m, t)
    BY <1>3, <1>7 DEF DropSecond, Key, Hi
  <2>0. q # <<>> /\ q[1] = FixCall(f) /\ Len(q) = 1
    BY <1>7
  <2>2. r # <<>> /\ r[1].op = "fix" /\ r[1].slot = f
    BY <2>0, TopIs DEF FixCall
  <2> HIDE DEF r
  <2>3. ASSUME NEW a \in g.tree, NEW b \in g.tree, Unfixed(g, r, a, b)
        PROVE  Inherits(m, old, g, a, b) /\ (b = f \/ Hi(g, a) <= Key(g, f))
    <3>1. a # f /\ Meets(m, a, b) /\ a \in m.tree /\ b \in m.tree
      BY <2>1, <2>2, <2>3 DEF Unfixed, Fixing, Meets
    <3>2. Beside(m, a, b) => Beside(g, a, b)
      BY <2>1 DEF Beside
    <3> QED BY <1>2, <1>4, <2>1, <3>1, <3>2
  <2>4. InOrder(q, NoSlot) /\ OutOfTheWay(old, g, q, NoSlot)
    BY <2>0 DEF InOrder, OutOfTheWay, FixCall
  <2>5. Explained(m, old, g, q, NoSlot)
    BY <2>3 DEF Explained, r
  <2>6. TopReady(old, g, q)
    BY <2>1, <2>2, <2>3 DEF TopReady, TopAdd, TopFix, r
  <2> QED BY <2>4, <2>5, <2>6, Onward
<1> QED BY <1>5, <1>6, <1>7 DEF Fixed

(* fix_overlap found nothing to do.                                        *)
LEMMA NothingOnward ==
  ASSUME NEW m, GoodMap(m), NEW old \in Seq(Pending), old # <<>>, Orderly(m, old),
         \A a, b \in m.tree : Meets(m, a, b) => /\ Unfixed(m, old, a, b)
                                                /\ ~IsPrev(old[1], b)
  PROVE  Orderly(m, Replaced(old, <<>>))
<1> DEFINE q == <<>>
<1>1. q \in Seq(Pending) /\ q = <<>> /\ Len(q) = 0
  OBVIOUS
<1> HIDE DEF q
<1>2. InOrder(q, NoSlot) /\ OutOfTheWay(old, m, q, NoSlot) /\ TopReady(old, m, q)
  BY <1>1 DEF InOrder, OutOfTheWay, TopReady
<1>3. \A t \in m.tree : Key(m, t) \in Int /\ Hi(m, t) \in Int
  BY Extents
<1>4. Explained(m, old, m, q, NoSlot)
  BY <1>3 DEF Explained, Unfixed, Inherits
<1>5. Orderly(m, Replaced(old, q))
  BY <1>1, <1>2, <1>4, Onward DEF Orderly
<1> QED BY <1>5 DEF q


LEMMA AsideFix ==
  ASSUME NEW m, GoodMap(m), NEW old, old # <<>>, Orderly(m, old),
         old[1].op = "fix", NEW x \in m.tree, Key(m, old[1].slot) < Key(m, x)
  PROVE  old[1].slot \in m.tree /\ Aside(m, old, old[1].slot, x)
<1> DEFINE f == old[1].slot
<1>1. f \in m.tree /\ \A a, b \in m.tree : Unfixed(m, old, a, b)
                                             => b = f \/ Hi(m, a) <= Key(m, f)
  BY DEF Orderly, TopFix
<1>2. \A t \in m.tree : Key(m, t) \in Int /\ Hi(m, t) \in Int
  BY Extents
<1>3. ASSUME NEW a \in m.tree, NEW b \in m.tree, Meets(m, a, b), a # f
      PROVE  Unfixed(m, old, a, b)
  BY <1>3 DEF Unfixed, Fixing
<1>4. ASSUME NEW a \in m.tree, NEW b \in m.tree, Meets(m, a, b), a # f
      PROVE  Hi(m, a) <= Key(m, x) /\ (b = f \/ Hi(m, a) <= Key(m, f))
  <2>1. CASE Hi(m, a) <= Key(m, f)
    BY <1>1, <1>2, <2>1
  <2>2. CASE b = f
    <3>1. SUFFICES ASSUME Key(m, x) < Hi(m, a) PROVE FALSE
      BY <1>2, <2>2
    <3>2. Meets(m, a, x) /\ x # f
      BY <1>1, <1>2, <1>4, <2>2, <3>1 DEF Meets
    <3>3. Hi(m, a) <= Key(m, f)
      BY <1>1, <1>3, <1>4, <3>2
    <3> QED BY <1>1, <1>2, <3>1, <3>3
  <2> QED BY <1>1, <1>3, <1>4, <2>1, <2>2
<1>5. \A b : ~IsPrev(old[1], b)
  BY DEF IsPrev
<1> HIDE DEF f
<1>6. Aside(m, old, f, x)
  BY <1>3, <1>4, <1>5 DEF Aside
<1> QED BY <1>1, <1>6 DEF f

LEMMA AsidePrev ==
  ASSUME NEW m, GoodMap(m), NEW old \in Seq(Pending), old # <<>>, Orderly(m, old),
         old[1].op = "fixprev", NEW x \in m.tree, x = old[1].slot,
         NEW f \in m.tree, Meets(m, f, x), Beside(m, f, x)
  PROVE  Aside(m, old, f, x)
<1>1. \A t \in m.tree : Key(m, t) \in Int /\ Hi(m, t) \in Int
  BY Extents
<1>2. \A a, b \in m.tree : Meets(m, a, b) => Unfixed(m, old, a, b)
  BY DEF Unfixed, Fixing
<1>3. /\ ~Tied(m) /\ PrevFollows(m, old) /\ Stacked(m, old)
  BY DEF Orderly
<1>4. 1 \in 1 .. Len(old) /\ Len(old) \in Nat
  BY EmptySeq
<1>5. ASSUME NEW a \in m.tree, NEW b \in m.tree, Meets(m, a, b), a # f
      PROVE  /\ ~IsPrev(old[1], b) /\ Hi(m, a) <= Key(m, x)
             /\ (b = f \/ Hi(m, a) <= Key(m, f))
  <2>1. PICK j \in 1 .. Len(old) : IsPrev(old[j], b) /\ Beside(m, a, b)
    BY <1>2, <1>3, <1>5 DEF PrevFollows
  <2>2. b # x
    <3>1. SUFFICES ASSUME b = x PROVE FALSE
      OBVIOUS
    <3>2. Key(m, a) = Key(m, f)
      BY <1>1, <1>5, <2>1, <3>1 DEF Beside, Meets
    <3> QED BY <1>3, <1>5, <3>2 DEF Tied
  <2>3. ~IsPrev(old[1], b) /\ IsPrev(old[1], x)
    BY <2>2 DEF IsPrev
  <2>4. 1 < j
    BY <1>4, <2>1, <2>3
  <2>5. Hi(m, a) <= Key(m, x)
    <3>1. Hi(m, a) <= Key(m, x) \/ \E l \in 1 .. 1 : IsPrev(old[l], b)
      BY <1>2, <1>3, <1>4, <1>5, <2>1, <2>3, <2>4 DEF Stacked
    <3> QED BY <2>3, <3>1
  <2>6. ASSUME b # f, Key(m, f) < Hi(m, a) PROVE FALSE
    <3>1. Key(m, a) # Key(m, f)
      BY <1>3, <1>5 DEF Tied
    <3>2. CASE Key(m, a) < Key(m, f)
      <4>1. Meets(m, a, f)
        BY <2>6, <3>2 DEF Meets
      <4>2. Beside(m, a, f)
        BY <1>2, <1>3, <4>1 DEF PrevFollows
      <4>3. Key(m, b) = Key(m, f)
        BY <1>1, <1>5, <2>1, <3>2, <4>2 DEF Beside, Meets
      <4> QED BY <1>3, <2>6, <4>3 DEF Tied
    <3>3. CASE Key(m, f) < Key(m, a)
      <4>1. ~(Key(m, a) < Key(m, x))
        BY <3>3 DEF Beside
      <4> QED BY <1>1, <1>5, <2>5, <4>1 DEF Meets
    <3> QED BY <1>1, <3>1, <3>2, <3>3
  <2> QED BY <1>1, <2>3, <2>5, <2>6
<1> QED BY <1>2, <1>5 DEF Aside

(* Neighbours in a tree with no two equal keys.                            *)
LEMMA Neighbours ==
  ASSUME NEW m, GoodMap(m), ~Tied(m), NEW a \in m.tree, NEW b \in m.tree,
         Key(m, a) < Key(m, b), Beside(m, a, b)
  PROVE  RB_NEXT(m, a) = b /\ RB_PREV(m, b) = a
<1>1. \A t \in m.tree : Key(m, t) \in Int
  BY Extents
<1>2. RB_NEXT(m, a) # NoSlot /\ RB_PREV(m, b) # NoSlot
  BY NextBeside, PrevBeside
<1> DEFINE x == RB_NEXT(m, a)
           p == RB_PREV(m, b)
<1>3. x \in m.tree /\ Key(m, a) < Key(m, x) /\ Beside(m, a, x)
  BY <1>2, NextBeside
<1>4. p \in m.tree /\ Key(m, p) < Key(m, b) /\ Beside(m, p, b)
  BY <1>2, PrevBeside
<1> HIDE DEF x, p
<1>5. Key(m, x) = Key(m, b)
  BY <1>1, <1>3 DEF Beside
<1>6. Key(m, p) = Key(m, a)
  BY <1>1, <1>4 DEF Beside
<1> QED BY <1>3, <1>4, <1>5, <1>6 DEF Tied, x, p

LEMMA FreedIsOut ==
  ASSUME NEW m, GoodMap(m), NEW s, s \notin m.tree
  PROVE  RB_PREV(m, s) \notin m.tree
<1>1. RB_PREV(m, s) = FreedAfter(m, s)
  BY DEF RB_PREV
<1> DEFINE J == {i \in 1 .. Len(m.freed) - 1 : m.freed[i] = s}
<1>2. FreedAfter(m, s) = IF J = {} THEN NoSlot ELSE m.freed[(CHOOSE i \in J : TRUE) + 1]
  BY DEF FreedAfter
<1>3. m.freed \in Seq(Slot) /\ m.tree \subseteq Slot /\ Len(m.freed) \in Nat
      /\ DOMAIN m.freed = 1 .. Len(m.freed)
  BY DEF GoodMap, Map
<1>4. CASE J = {}
  BY <1>1, <1>2, <1>3, <1>4, NoSlotIsNoSlot
<1>5. CASE J # {}
  <2> DEFINE c == CHOOSE i \in J : TRUE
  <2>1. c \in J
    BY <1>5
  <2>2. FreedAfter(m, s) = m.freed[c + 1]
    BY <1>2, <1>5
  <2> HIDE DEF c
  <2>3. c + 1 \in DOMAIN m.freed
    BY <1>3, <2>1
  <2>4. InFreed(m, m.freed[c + 1])
    BY <2>3 DEF InFreed
  <2> QED BY <1>1, <2>2, <2>4 DEF GoodMap, Accounted
<1> QED BY <1>4, <1>5

Ordered == status' = "ok" => Orderly(mm', todo')

LEMMA FixOrdered ==
  ASSUME MapInv, Orderly(mm, todo), Fix \/ FixPrev, MapInv'
  PROVE  Ordered
<1> DEFINE s == todo[1].slot
           f == IF todo[1].op = "fix" THEN s ELSE RB_PREV(mm, s)
           x == RB_NEXT(mm, f)
<1>1. /\ GoodMap(mm) /\ status = "ok" /\ todo # <<>> /\ todo \in Seq(Pending)
      /\ Head(todo) = todo[1]
  BY HeadTailProperties DEF Fix, FixPrev, Doing, MapInv
<1>2. todo[1].op \in {"fix", "fixprev"} /\ FixOverlap(f)
  BY <1>1 DEF Fix, FixPrev, Doing
<1>3. SUFFICES ASSUME status' = "ok" PROVE Orderly(mm', todo')
  BY DEF Ordered
<1>4. GoodMap(mm')
  BY <1>3 DEF MapInv
<1> HIDE DEF f
<1>5. PICK q \in Seq(Pending) :
        /\ Then(q)
        /\ \/ ~Reaches(mm, f, x) /\ mm' = mm /\ q = <<>>
           \/ /\ f \in mm.tree /\ x \in mm.tree
              /\ Key(mm, f) < Key(mm, x) /\ Key(mm, x) < Hi(mm, f)
              /\ Fixed(mm, mm', f, x, HigherPrecedence(freeing, Ty(mm, f), Ty(mm, x)), q)
  BY <1>1, <1>2, FixIs
<1>6. ~Tied(mm')
  BY <1>1, <1>2, <1>3, FixIs
<1>7. todo' = Replaced(todo, q)
  BY <1>5 DEF Then, Replaced
<1>8. ~Tied(mm) /\ PrevFollows(mm, todo) /\ TopFix(mm, todo)
  BY DEF Orderly
<1>9. \A t \in mm.tree : Key(mm, t) \in Int /\ Hi(mm, t) \in Int
  BY <1>1, Extents
<1>10. ASSUME NEW a \in mm.tree, NEW b \in mm.tree, Meets(mm, a, b), Beside(mm, a, b)
       PROVE  RB_NEXT(mm, a) = b /\ RB_PREV(mm, b) = a /\ Reaches(mm, a, b)
  <2>1. RB_NEXT(mm, a) = b /\ RB_PREV(mm, b) = a
    BY <1>1, <1>8, <1>10, Neighbours DEF Meets
  <2>2. a # NoSlot /\ b # NoSlot
    BY <1>1, NoSlotIsNoSlot DEF GoodMap, Map
  <2> QED BY <1>10, <2>1, <2>2 DEF Reaches, Meets, Key, Hi
<1>11. CASE /\ f \in mm.tree /\ x \in mm.tree
            /\ Key(mm, f) < Key(mm, x) /\ Key(mm, x) < Hi(mm, f)
            /\ Fixed(mm, mm', f, x, HigherPrecedence(freeing, Ty(mm, f), Ty(mm, x)), q)
  <2>1. Beside(mm, f, x)
    <3>1. x # NoSlot
      BY <1>1, <1>11, NoSlotIsNoSlot DEF GoodMap, Map
    <3> QED BY <1>1, <1>11, <3>1, NextBeside
  <2>2. Aside(mm, todo, f, x)
    <3>1. CASE todo[1].op = "fix"
      <4>1. f = s
        BY <3>1 DEF f
      <4> QED BY <1>1, <1>11, <3>1, <4>1, AsideFix
    <3>2. CASE todo[1].op = "fixprev"
      <4>1. f = RB_PREV(mm, s)
        BY <3>2 DEF f
      <4>2. s \in mm.tree
        BY <1>1, <1>11, <4>1, FreedIsOut
      <4>3. f # NoSlot
        BY <1>1, <1>11, NoSlotIsNoSlot DEF GoodMap, Map
      <4>4. Key(mm, f) < Key(mm, s) /\ Beside(mm, f, s)
        BY <1>1, <4>1, <4>2, <4>3, PrevBeside
      <4>5. x = s
        BY <1>1, <1>8, <1>11, <4>2, <4>4, Neighbours
      <4>6. Meets(mm, f, s)
        BY <1>11, <4>5 DEF Meets
      <4> QED BY <1>1, <1>11, <2>1, <3>2, <4>5, <4>6, AsidePrev
    <3> QED BY <1>2, <3>1, <3>2
  <2> HIDE DEF x
  <2>3. Orderly(mm', Replaced(todo, q))
    BY <1>1, <1>4, <1>6, <1>11, <2>1, <2>2, FixedOnward
  <2> QED BY <1>7, <2>3
<1>12. CASE ~Reaches(mm, f, x) /\ mm' = mm /\ q = <<>>
  <2>1. ASSUME NEW a \in mm.tree, NEW b \in mm.tree, Meets(mm, a, b)
        PROVE  Unfixed(mm, todo, a, b) /\ ~IsPrev(todo[1], b)
    <3>1. CASE todo[1].op = "fix"
      <4>1. f = s /\ s \in mm.tree
        BY <1>1, <1>8, <3>1 DEF f, TopFix
      <4>2. a # f
        <5>1. SUFFICES ASSUME a = f PROVE FALSE
          OBVIOUS
        <5>2. x # NoSlot
          BY <1>1, <2>1, <5>1, NextBeside DEF Meets
        <5>3. x \in mm.tree /\ Key(mm, f) < Key(mm, x) /\ Beside(mm, f, x)
          BY <1>1, <4>1, <5>2, NextBeside
        <5>4. Key(mm, x) <= Key(mm, b)
          BY <1>9, <2>1, <5>1, <5>3 DEF Beside, Meets
        <5>5. Key(mm, x) < Hi(mm, f)
          BY <1>9, <2>1, <4>1, <5>1, <5>3, <5>4 DEF Meets
        <5>6. f # NoSlot
          BY <1>1, <4>1, NoSlotIsNoSlot DEF GoodMap, Map
        <5> QED BY <1>12, <5>2, <5>5, <5>6 DEF Reaches, Key, Hi
      <4> QED BY <2>1, <3>1, <4>1, <4>2 DEF Unfixed, Fixing, IsPrev
    <3>2. CASE todo[1].op = "fixprev"
      <4>1. Unfixed(mm, todo, a, b) /\ f = RB_PREV(mm, s)
        BY <2>1, <3>2 DEF Unfixed, Fixing, f
      <4>2. Beside(mm, a, b)
        BY <1>8, <4>1 DEF PrevFollows
      <4>3. RB_NEXT(mm, a) = b /\ RB_PREV(mm, b) = a /\ Reaches(mm, a, b)
        BY <1>10, <2>1, <4>2
      <4>4. b # s
        BY <1>12, <4>1, <4>3
      <4> QED BY <4>1, <4>4 DEF IsPrev
    <3> QED BY <1>2, <3>1, <3>2
  <2>2. Orderly(mm, Replaced(todo, <<>>))
    BY <1>1, <2>1, NothingOnward
  <2> QED BY <1>7, <1>12, <2>2
<1> QED BY <1>5, <1>11, <1>12


-----------------------------------------------------------------------------
(***************************************************************************)
(* The steps of mmap_add_entry.                                            *)
(***************************************************************************)
LEMMA ArgIs ==
  ASSUME MapInv, AddsPages
  PROVE  /\ Arg = todo[1].arg /\ todo[1].op = "add" /\ todo \in Seq(Pending)
         /\ todo # <<>> /\ status = "ok" /\ GoodMap(mm) /\ GoodEntry(Arg) /\ Arg \in Entry
         /\ Arg.start \in Int /\ End(Arg) \in Int /\ Arg.start < End(Arg)
         /\ Arg.type \in Type /\ Arg.size = End(Arg) - Arg.start /\ Arg.size \in Nat
<1>1. /\ GoodEntry(Arg) /\ GoodMap(mm) /\ status = "ok" /\ todo # <<>>
      /\ todo \in Seq(Pending) /\ Head(todo).op = "add"
  BY ArgGood DEF AddsPages, Doing, MapInv
<1>2. Head(todo) = todo[1]
  BY <1>1
<1>3. PICK a \in Nat, n \in Nat : /\ a = Arg.start /\ n = Arg.size /\ n > 0
                                  /\ End(Arg) = a + n /\ Arg.type \in Type /\ Arg \in Entry
  BY <1>1, GoodIs
<1>4. a + n \in Int /\ a < a + n /\ n = (a + n) - a
  BY <1>3
<1> QED BY <1>1, <1>2, <1>3, <1>4 DEF Arg

(* g is the map with the slot s for the new entry taken, and h the map     *)
(* with the new entry in it.                                               *)
InsertedIn(g, h, s, e) ==
  /\ h.tree = g.tree \cup {s} /\ \A t \in g.tree : h.entry[t] = g.entry[t]
  /\ Is(h, s, e.start, End(e), e.type)

LEMMA AddNewIs ==
  ASSUME MapInv, AddNew
  PROVE  /\ AddsPages /\ AllocFault(mm) = "ok"
         /\ \A t \in AllocEntry(mm).tree : Key(AllocEntry(mm), t) # Arg.start
         /\ InsertedIn(AllocEntry(mm), mm', AllocSlot(mm), Arg)
         /\ Then(<<FixCall(AllocSlot(mm)), FixPrevCall(AllocSlot(mm)),
                   MergeCall(AllocSlot(mm)), BumpCall>>)
         /\ freeing' = freeing /\ (status' = "ok" => ~Tied(mm'))
<1> DEFINE s == AllocSlot(mm)
           g == AllocEntry(mm)
           q == <<FixCall(s), FixPrevCall(s), MergeCall(s), BumpCall>>
<1>1. /\ AddsPages /\ AllocFault(mm) = "ok" /\ At(g, Arg.start) = {}
      /\ mm' = Inserted(Filled(g, s, Arg), s) /\ Then(q)
      /\ freeing' = freeing /\ (status' = "ok" => ~Tied(mm'))
  BY DEF AddNew, Settle
<1>2. GoodMap(g) /\ s \in Slot /\ s \notin g.tree
  BY <1>1, ArgIs, AllocGood
<1> HIDE DEF s, g
<1>3. g \in Map /\ g.entry \in [Slot -> Entry] /\ g.tree \subseteq Slot
  BY <1>2 DEF GoodMap, Map
<1>4. mm'.entry = [g.entry EXCEPT ![s] = Arg] /\ mm'.tree = g.tree \cup {s}
  BY <1>1, <1>3 DEF Inserted, Filled, Map
<1>5. mm'.entry[s] = Arg /\ \A t \in g.tree : mm'.entry[t] = g.entry[t]
  BY <1>2, <1>3, <1>4
<1>6. InsertedIn(g, mm', s, Arg)
  BY <1>4, <1>5 DEF InsertedIn, Is, Key, Hi, Ty
<1>7. \A t \in g.tree : Key(g, t) # Arg.start
  BY <1>1 DEF At
<1> QED BY <1>1, <1>6, <1>7 DEF s, g

(* The three ways of adding e where o starts too.                          *)
AddedOver(g, h, s, o, e, type, q) ==
  \/ /\ Hi(g, o) = End(e) /\ h.tree = g.tree
     /\ \A t \in g.tree \ {o} : h.entry[t] = g.entry[t]
     /\ Is(h, o, Key(g, o), Hi(g, o), type)
     /\ q = <<MergeCall(o), BumpCall>>
  \/ /\ End(e) < Hi(g, o) /\ h.tree = g.tree \cup {s}
     /\ \A t \in g.tree \ {o} : h.entry[t] = g.entry[t]
     /\ Is(h, s, Key(g, o), End(e), type) /\ Is(h, o, End(e), Hi(g, o), Ty(g, o))
     /\ q = <<MergeCall(s), BumpCall>>
  \/ /\ Hi(g, o) < End(e) /\ h.tree = g.tree \cup {s}
     /\ \A t \in g.tree \ {o} : h.entry[t] = g.entry[t]
     /\ Is(h, o, Key(g, o), Hi(g, o), type) /\ Is(h, s, Hi(g, o), End(e), e.type)
     /\ q = <<FixCall(s), MergeCall(s), BumpCall>>

LEMMA AddAtOldIs ==
  ASSUME MapInv, AddAtOld
  PROVE  /\ AddsPages /\ AllocFault(mm) = "ok"
         /\ \/ status' = "tree"
            \/ /\ freeing' = freeing /\ (status' = "ok" => ~Tied(mm'))
               /\ \E o \in AllocEntry(mm).tree : \E q \in Seq(Pending) :
                    /\ Key(AllocEntry(mm), o) = Arg.start /\ Then(q)
                    /\ AddedOver(AllocEntry(mm), mm', AllocSlot(mm), o, Arg,
                                 HigherPrecedence(freeing, Ty(AllocEntry(mm), o), Arg.type), q)
<1> DEFINE s == AllocSlot(mm)
           g == AllocEntry(mm)
           m == Filled(g, s, Arg)
<1>1. AddsPages /\ AllocFault(mm) = "ok"
  BY DEF AddAtOld
<1>2. GoodMap(g) /\ s \in Slot /\ s \notin g.tree
  BY <1>1, ArgIs, AllocGood
<1>3. PICK o \in At(g, Arg.start) : AddOver(o)
  BY DEF AddAtOld
<1>4. o \in g.tree /\ o # s /\ Key(g, o) = Arg.start
  BY <1>2, <1>3 DEF At
<1> DEFINE e == m.entry[o]
           type == HigherPrecedence(freeing, e.type, Arg.type)
           same == FreeEntry([m EXCEPT !.entry[o] = Retype(@, type)], s)
           short == Inserted([m EXCEPT !.entry[s] = Retype(@, type),
                                       !.entry[o] = DropFirst(@, Arg.size)], s)
           long == Inserted([m EXCEPT !.entry[o] = Retype(@, type),
                                      !.entry[s] = DropFirst(@, e.size)], s)
<1>5. \/ e.size = Arg.size /\ Settle(same) /\ Then(<<MergeCall(o), BumpCall>>)
      \/ e.size > Arg.size /\ Settle(short) /\ Then(<<MergeCall(s), BumpCall>>)
      \/ Fail("tree")
      \/ /\ e.size < Arg.size /\ Settle(long)
         /\ Then(<<FixCall(s), MergeCall(s), BumpCall>>)
  BY <1>3 DEF AddOver
<1> HIDE DEF g, s
<1>6. g \in Map /\ g.entry \in [Slot -> Entry] /\ o \in Slot /\ g.tree \subseteq Slot
  BY <1>2, <1>4 DEF GoodMap, Map
<1>7. m.entry = [g.entry EXCEPT ![s] = Arg] /\ m.tree = g.tree /\ m \in Map
  <2>1. Arg \in Entry
    BY <1>1, ArgIs
  <2>2. m = [g EXCEPT !.entry = [g.entry EXCEPT ![s] = Arg]]
    BY <1>6 DEF Filled, Map
  <2>3. [g.entry EXCEPT ![s] = Arg] \in [Slot -> Entry]
    BY <1>2, <1>6, <2>1
  <2> HIDE DEF m
  <2> QED BY <1>6, <2>2, <2>3 DEF Map
<1>8. m.entry[s] = Arg /\ \A t \in g.tree : m.entry[t] = g.entry[t]
  BY <1>2, <1>6, <1>7
<1>9. m.entry \in [Slot -> Entry]
  BY <1>7 DEF Map
<1> HIDE DEF m
<1>10. /\ e = g.entry[o] /\ e \in Entry /\ e.type = Ty(g, o) /\ e.type \in Type
       /\ e.start = Key(g, o) /\ End(e) = Hi(g, o)
       /\ e.size = Hi(g, o) - Key(g, o) /\ Key(g, o) \in Int /\ Hi(g, o) \in Int
  <2>1. e = g.entry[o] /\ e \in Entry
    BY <1>4, <1>6, <1>8
  <2> QED BY <1>2, <1>4, <2>1, Extent DEF Ty, Key, Hi
<1>11. /\ Arg \in Entry /\ Arg.start \in Int /\ End(Arg) \in Int
       /\ Arg.size = End(Arg) - Arg.start /\ Arg.type \in Type
  BY <1>1, ArgIs
<1>12. type \in Type
  BY <1>10, <1>11, PrecedenceType
<1>t. type = HigherPrecedence(freeing, Ty(g, o), Arg.type)
  BY <1>10
<1>13. /\ MergeCall(o) \in Pending /\ BumpCall \in Pending
       /\ MergeCall(s) \in Pending /\ FixCall(s) \in Pending
  BY <1>2, <1>6, PendingIs
<1>14. /\ e.size = Arg.size => Hi(g, o) = End(Arg)
       /\ e.size > Arg.size => End(Arg) < Hi(g, o)
       /\ e.size < Arg.size => Hi(g, o) < End(Arg)
  BY <1>4, <1>10, <1>11
<1> HIDE DEF e, type
<1>15. /\ Retype(Arg, type).start = Key(g, o) /\ End(Retype(Arg, type)) = End(Arg)
       /\ Retype(Arg, type).type = type
       /\ Retype(e, type).start = Key(g, o) /\ End(Retype(e, type)) = Hi(g, o)
       /\ Retype(e, type).type = type
  <2>1. Key(g, o) = Arg.start /\ Key(g, o) = e.start /\ Hi(g, o) = End(e)
    BY <1>4, <1>10
  <2> QED BY <2>1 DEF Retype, Region, End
<1>16. /\ DropFirst(e, Arg.size).start = End(Arg) /\ End(DropFirst(e, Arg.size)) = Hi(g, o)
       /\ DropFirst(e, Arg.size).type = Ty(g, o)
  <2> DEFINE n == Arg.size
  <2>1. n \in Int /\ e.start + n = End(Arg)
    BY <1>4, <1>10, <1>11
  <2> HIDE DEF n
  <2>2. /\ DropFirst(e, n).start = e.start + n /\ End(DropFirst(e, n)) = End(e)
        /\ DropFirst(e, n).type = e.type
    BY <1>10, <2>1, EntryExtents
  <2> QED BY <1>10, <2>1, <2>2 DEF n
<1>17. /\ DropFirst(Arg, e.size).start = Hi(g, o) /\ End(DropFirst(Arg, e.size)) = End(Arg)
       /\ DropFirst(Arg, e.size).type = Arg.type
  <2> DEFINE n == e.size
             d == Arg
  <2>1. n \in Int /\ d \in Entry /\ d.start + n = Hi(g, o)
    BY <1>4, <1>10, <1>11
  <2> HIDE DEF n, d
  <2>2. /\ DropFirst(d, n).start = d.start + n /\ End(DropFirst(d, n)) = End(d)
        /\ DropFirst(d, n).type = d.type
    BY <2>1, EntryExtents
  <2> QED BY <2>1, <2>2 DEF n, d
<1> DEFINE Done == /\ freeing' = freeing /\ (status' = "ok" => ~Tied(mm'))
                   /\ \E q \in Seq(Pending) : /\ Then(q)
                                              /\ AddedOver(g, mm', s, o, Arg, type, q)
<1>18. CASE e.size = Arg.size /\ Settle(same) /\ Then(<<MergeCall(o), BumpCall>>)
  <2>1. mm' = same /\ freeing' = freeing /\ (status' = "ok" => ~Tied(mm'))
    BY <1>18 DEF Settle
  <2>2. mm'.entry = [m.entry EXCEPT ![o] = Retype(e, type)] /\ mm'.tree = g.tree \ {s}
    <3>1. [m EXCEPT !.entry[o] = Retype(@, type)]
            = [m EXCEPT !.entry = [m.entry EXCEPT ![o] = Retype(e, type)]]
      BY <1>6, <1>7, <1>9 DEF Map, e
    <3> QED BY <1>7, <2>1, <3>1 DEF FreeEntry, Map
  <2>3. mm'.entry[o] = Retype(e, type) /\ \A t \in g.tree \ {o} : mm'.entry[t] = g.entry[t]
    BY <1>6, <1>8, <1>9, <2>2
  <2>4. Is(mm', o, Key(g, o), Hi(g, o), type)
    BY <1>15, <2>3 DEF Is, Key, Hi, Ty
  <2>5. mm'.tree = g.tree
    BY <1>2, <2>2
  <2> DEFINE q == <<MergeCall(o), BumpCall>>
  <2>6. q \in Seq(Pending)
    BY <1>13
  <2>7. AddedOver(g, mm', s, o, Arg, type, q)
    BY <1>14, <1>18, <2>3, <2>4, <2>5 DEF AddedOver
  <2>8. Then(q)
    BY <1>18
  <2> HIDE DEF q, same
  <2>9. Done
    BY <2>1, <2>6, <2>7, <2>8
  <2> QED BY <1>1, <1>4, <2>9, <1>t DEF g, s
<1>19. CASE e.size > Arg.size /\ Settle(short) /\ Then(<<MergeCall(s), BumpCall>>)
  <2>1. mm' = short /\ freeing' = freeing /\ (status' = "ok" => ~Tied(mm'))
    BY <1>19 DEF Settle
  <2>2. /\ mm'.entry = [m.entry EXCEPT ![s] = Retype(@, type), ![o] = DropFirst(@, Arg.size)]
        /\ mm'.tree = g.tree \cup {s}
    BY <1>7, <2>1 DEF Inserted, Map
  <2>3. /\ mm'.entry[s] = Retype(Arg, type) /\ mm'.entry[o] = DropFirst(e, Arg.size)
        /\ \A t \in g.tree \ {o} : mm'.entry[t] = g.entry[t]
    BY <1>2, <1>4, <1>6, <1>8, <1>9, <2>2 DEF e
  <2>4. /\ Is(mm', s, Key(g, o), End(Arg), type)
        /\ Is(mm', o, End(Arg), Hi(g, o), Ty(g, o))
    BY <1>15, <1>16, <2>3 DEF Is, Key, Hi, Ty
  <2> DEFINE q == <<MergeCall(s), BumpCall>>
  <2>6. q \in Seq(Pending)
    BY <1>13
  <2>7. AddedOver(g, mm', s, o, Arg, type, q)
    BY <1>14, <1>19, <2>2, <2>3, <2>4 DEF AddedOver
  <2>8. Then(q)
    BY <1>19
  <2> HIDE DEF q, short
  <2>9. Done
    BY <2>1, <2>6, <2>7, <2>8
  <2> QED BY <1>1, <1>4, <2>9, <1>t DEF g, s
<1>20. CASE /\ e.size < Arg.size /\ Settle(long)
            /\ Then(<<FixCall(s), MergeCall(s), BumpCall>>)
  <2>1. mm' = long /\ freeing' = freeing /\ (status' = "ok" => ~Tied(mm'))
    BY <1>20 DEF Settle
  <2>2. /\ mm'.entry = [m.entry EXCEPT ![o] = Retype(@, type), ![s] = DropFirst(@, e.size)]
        /\ mm'.tree = g.tree \cup {s}
    BY <1>7, <2>1 DEF Inserted, Map
  <2>3. /\ mm'.entry[s] = DropFirst(Arg, e.size) /\ mm'.entry[o] = Retype(e, type)
        /\ \A t \in g.tree \ {o} : mm'.entry[t] = g.entry[t]
    BY <1>2, <1>4, <1>6, <1>8, <1>9, <2>2 DEF e
  <2>4. /\ Is(mm', o, Key(g, o), Hi(g, o), type)
        /\ Is(mm', s, Hi(g, o), End(Arg), Arg.type)
    BY <1>15, <1>17, <2>3 DEF Is, Key, Hi, Ty
  <2> DEFINE q == <<FixCall(s), MergeCall(s), BumpCall>>
  <2>6. q \in Seq(Pending)
    BY <1>13
  <2>7. AddedOver(g, mm', s, o, Arg, type, q)
    BY <1>14, <1>20, <2>2, <2>3, <2>4 DEF AddedOver
  <2>8. Then(q)
    BY <1>20
  <2> HIDE DEF q, long
  <2>9. Done
    BY <2>1, <2>6, <2>7, <2>8
  <2> QED BY <1>1, <1>4, <2>9, <1>t DEF g, s
<1>21. CASE Fail("tree")
  BY <1>1, <1>21 DEF Fail
<1> QED BY <1>5, <1>18, <1>19, <1>20, <1>21

(* mmap_add_entry split a range that is not whole pages: only calls from   *)
(* outside add those, and then no entries overlap.                         *)
LEMMA SplitOnward ==
  ASSUME NEW m, NEW old \in Seq(Pending), old # <<>>, Orderly(m, old),
         old[1].op = "add",
         ~(Aligned(old[1].arg.start) /\ Aligned(old[1].arg.size)),
         NEW q \in Seq(Pending), q # <<>>, \A i \in 1 .. Len(q) : q[i].op = "add"
  PROVE  Orderly(m, Replaced(old, q))
<1> DEFINE r == Replaced(old, q)
           n == Len(old)
           k == Len(q)
<1>1. /\ n \in Nat \ {0} /\ k \in Nat /\ Len(r) = k + (n - 1)
      /\ \A i \in 1 .. k : r[i] = q[i]
      /\ \A i \in 1 .. Len(r) : i \in 1 .. k \/ \E j \in 2 .. n : r[i] = old[j]
  <2>1. /\ n \in Nat \ {0} /\ k \in Nat /\ Len(r) = k + (n - 1)
        /\ \A i \in 1 .. k : r[i] = q[i]
        /\ \A i \in 2 .. n : r[k + (i - 1)] = old[i] /\ k + (i - 1) \in 1 .. Len(r)
    BY StackIs
  <2>2. ASSUME NEW i \in 1 .. Len(r), i \notin 1 .. k
        PROVE  \E j \in 2 .. n : r[i] = old[j]
    <3>1. i - k + 1 \in 2 .. n /\ k + ((i - k + 1) - 1) = i
      BY <2>1, <2>2
    <3> HIDE DEF r
    <3> QED BY <2>1, <3>1
  <2> QED BY <2>1, <2>2
<1>2. r # <<>> /\ r[1].op = "add"
  BY TopIs
<1>3. \A j \in 1 .. n : old[j].op # "fixprev"
  BY DEF Orderly, TopAdd
<1>4. Quiet(m)
  BY <1>3, OrderlyQuiet
<1>5. \A j \in 2 .. n : old[j].op # "fix"
  BY DEF Orderly, FixOnTop
<1> HIDE DEF r, n, k
<1>6. \A i \in 1 .. Len(r) : r[i].op \notin {"fix", "fixprev"}
  <2>1. ASSUME NEW i \in 1 .. Len(r) PROVE r[i].op \notin {"fix", "fixprev"}
    <3>1. CASE i \in 1 .. k
      BY <1>1, <3>1 DEF k
    <3>2. ASSUME NEW j \in 2 .. n, r[i] = old[j] PROVE r[i].op \notin {"fix", "fixprev"}
      <4>1. j \in 1 .. n
        BY <1>1
      <4> QED BY <1>3, <1>5, <3>2, <4>1
    <3> QED BY <1>1, <3>1, <3>2
  <2> QED BY <2>1
<1>7. Len(r) \in Nat
  BY <1>1
<1>8. FixOnTop(r) /\ AddsLast(r)
  <2>1. \A i \in 2 .. Len(r) : i \in 1 .. Len(r)
    BY <1>7
  <2> QED BY <1>6, <2>1 DEF FixOnTop, AddsLast
<1> QED BY <1>2, <1>4, <1>6, <1>8, QuietOrderly DEF r

LEMMA SplitOrdered ==
  ASSUME MapInv, Orderly(mm, todo), AddUnalignedStart \/ AddUnalignedEnd
  PROVE  Ordered
<1>1. Doing("add") /\ mm' = mm
  BY DEF AddUnalignedStart, AddUnalignedEnd
<1>2. todo # <<>> /\ todo \in Seq(Pending) /\ Head(todo) = todo[1] /\ todo[1].op = "add"
  BY <1>1, HeadTailProperties DEF Doing, MapInv
<1>3. Arg = todo[1].arg /\ GoodArg(Arg)
  BY <1>1, <1>2, TopCall DEF Arg
<1>4. ASSUME NEW e, NEW f, GoodArg(e), f.size > 0 => GoodArg(f),
             ~(Aligned(Arg.start) /\ Aligned(Arg.size)),
             Then(IF f.size > 0 THEN <<AddCall(e), AddCall(f)>> ELSE <<AddCall(e)>>)
      PROVE  Ordered
  <2> DEFINE q == IF f.size > 0 THEN <<AddCall(e), AddCall(f)>> ELSE <<AddCall(e)>>
  <2>1. AddCall(e) \in Pending /\ (f.size > 0 => AddCall(f) \in Pending)
    BY <1>4, PendingIs
  <2>2. q \in Seq(Pending) /\ q # <<>>
    BY <2>1
  <2>3. \A i \in 1 .. Len(q) : q[i].op = "add"
    BY DEF AddCall
  <2>4. todo' = Replaced(todo, q)
    BY <1>4 DEF Then, Replaced
  <2> HIDE DEF q
  <2>5. Orderly(mm, Replaced(todo, q))
    BY <1>2, <1>3, <1>4, <2>2, <2>3, SplitOnward
  <2> QED BY <1>1, <2>4, <2>5 DEF Ordered
<1>5. CASE AddUnalignedStart
  <2> DEFINE head == Arg.start % PageSize
             page == Unusable(Arg.start - head)
             rest == DropFirst(Arg, PageSize - head)
  <2>1. /\ Arg.size # 0 /\ ~Aligned(Arg.start)
        /\ Then(IF rest.size > 0 THEN <<AddCall(page), AddCall(rest)>>
                                 ELSE <<AddCall(page)>>)
    BY <1>5 DEF AddUnalignedStart
  <2>2. GoodArg(page) /\ (rest.size > 0 => GoodArg(rest))
    BY <1>3, <2>1, SplitStart
  <2> HIDE DEF page, rest
  <2> QED BY <1>4, <2>1, <2>2
<1>6. CASE AddUnalignedEnd
  <2> DEFINE tail == Arg.size % PageSize
             page == Unusable(End(Arg) - tail)
             rest == DropLast(Arg, tail)
  <2>1. /\ Aligned(Arg.start) /\ ~Aligned(Arg.size)
        /\ Then(IF rest.size > 0 THEN <<AddCall(page), AddCall(rest)>>
                                 ELSE <<AddCall(page)>>)
    BY <1>6 DEF AddUnalignedEnd
  <2>2. GoodArg(page) /\ (rest.size > 0 => GoodArg(rest))
    BY <1>3, <2>1, SplitEnd
  <2> HIDE DEF page, rest
  <2> QED BY <1>4, <2>1, <2>2
<1> QED BY <1>5, <1>6

(* A step that leaves the extents alone, or changes them calmly, and       *)
(* returns.                                                                *)
LEMMA ReturnOrdered ==
  ASSUME MapInv, Orderly(mm, todo), status = "ok", todo # <<>>,
         Head(todo).op \notin {"fix", "fixprev"},
         GoodMap(mm'), ~Tied(mm'), Calm(mm, mm'), Then(<<>>)
  PROVE  Ordered
<1>1. todo \in Seq(Pending) /\ Head(todo) = todo[1] /\ <<>> \in Seq(Pending)
  BY HeadTailProperties DEF MapInv
<1>2. GoodMap(mm) /\ todo' = Replaced(todo, <<>>)
  BY DEF MapInv, Then, Replaced
<1>3. \A i \in 1 .. Len(<<>>) : <<>>[i].op \in {"merge", "bump"}
  OBVIOUS
<1>4. Orderly(mm', Replaced(todo, <<>>))
  BY <1>1, <1>2, <1>3, CalmOnward
<1> QED BY <1>2, <1>4 DEF Ordered

LEMMA PlainOrdered ==
  ASSUME MapInv, Orderly(mm, todo), AddEmpty \/ Merge \/ Bump \/ Restore, MapInv'
  PROVE  Ordered
<1>1. /\ status = "ok" /\ todo # <<>> /\ GoodMap(mm)
      /\ Head(todo).op \in {"add", "merge", "bump", "restore"}
  BY DEF AddEmpty, Merge, Bump, Restore, Doing, MapInv
<1>2. ~Tied(mm) /\ Calm(mm, mm)
  BY <1>1, SameCalm DEF Orderly
<1>3. CASE AddEmpty \/ Restore
  <2>1. mm' = mm /\ Then(<<>>)
    BY <1>3 DEF AddEmpty, Restore
  <2> QED BY <1>1, <1>2, <2>1, ReturnOrdered
<1>4. CASE Bump
  <2>1. mm' = [mm EXCEPT !.key = @ + 1] /\ Then(<<>>) /\ status' = "ok" /\ mm \in Map
    BY <1>1, <1>4 DEF Bump, MapInv
  <2>2. mm'.tree = mm.tree /\ mm'.entry = mm.entry /\ GoodMap(mm')
    BY <2>1 DEF Map, MapInv
  <2>3. \A t \in mm.tree : Key(mm', t) = Key(mm, t) /\ Hi(mm', t) = Hi(mm, t)
    BY <2>2 DEF Key, Hi
  <2>4. Calm(mm, mm') /\ ~Tied(mm')
    BY <1>1, <1>2, <2>2, <2>3, SameCalm
  <2> QED BY <1>1, <2>1, <2>2, <2>4, ReturnOrdered
<1>5. CASE Merge
  <2> DEFINE s == Head(todo).slot
  <2>1. \/ Fail("stale")
        \/ s \in mm.tree /\ mm' = MergeAdjacent(mm, s) /\ Then(<<>>)
        \/ mm' = mm /\ Then(<<>>)
    BY <1>5 DEF Merge, Settle
  <2>2. CASE Fail("stale")
    BY <2>2 DEF Fail, Ordered
  <2>3. CASE s \in mm.tree /\ mm' = MergeAdjacent(mm, s) /\ Then(<<>>)
    <3>1. GoodMap(MergeAdjacent(mm, s))
      BY <1>1, <2>3, MergeGood
    <3>2. Calm(mm, MergeAdjacent(mm, s)) /\ ~Tied(MergeAdjacent(mm, s))
      BY <1>1, <1>2, <2>3, MergeCalm
    <3> QED BY <1>1, <2>3, <3>1, <3>2, ReturnOrdered
  <2>4. CASE mm' = mm /\ Then(<<>>)
    BY <1>1, <1>2, <2>4, ReturnOrdered
  <2> QED BY <2>1, <2>2, <2>3, <2>4
<1> QED BY <1>3, <1>4, <1>5

LEMMA AddNewOrdered ==
  ASSUME MapInv, Orderly(mm, todo), AddNew, MapInv'
  PROVE  Ordered
<1> DEFINE s == AllocSlot(mm)
           g == AllocEntry(mm)
           q == <<FixCall(s), FixPrevCall(s), MergeCall(s), BumpCall>>
<1>1. /\ AddsPages /\ AllocFault(mm) = "ok" /\ InsertedIn(g, mm', s, Arg) /\ Then(q)
      /\ (status' = "ok" => ~Tied(mm'))
  BY AddNewIs
<1>2. /\ Arg = todo[1].arg /\ todo[1].op = "add" /\ todo \in Seq(Pending)
      /\ todo # <<>> /\ GoodMap(mm) /\ Arg.start \in Int
  BY <1>1, ArgIs
<1>3. GoodMap(g) /\ s \in Slot /\ s \notin g.tree
  BY <1>1, <1>2, AllocGood
<1>4. Calm(mm, g)
  BY <1>1, <1>2, AllocCalm DEF Orderly
<1>5. SUFFICES ASSUME status' = "ok" PROVE Orderly(mm', todo')
  BY DEF Ordered
<1>6. GoodMap(mm') /\ ~Tied(mm')
  BY <1>1, <1>5 DEF MapInv
<1> HIDE DEF s, g
<1>7. /\ mm'.tree = g.tree \cup {s} /\ Key(mm', s) = Arg.start
      /\ \A t \in g.tree : mm'.entry[t] = g.entry[t]
  BY <1>1 DEF InsertedIn, Is
<1>8. /\ FixCall(s) \in Pending /\ FixPrevCall(s) \in Pending
      /\ MergeCall(s) \in Pending /\ BumpCall \in Pending
  BY <1>3, PendingIs
<1>9. q \in Seq(Pending)
  BY <1>8
<1>10. /\ Len(q) = 4 /\ q[1] = FixCall(s) /\ q[2] = FixPrevCall(s)
       /\ q[3] = MergeCall(s) /\ q[4] = BumpCall
  OBVIOUS
<1>11. todo' = Replaced(todo, q)
  BY <1>1 DEF Then, Replaced
<1> HIDE DEF q
<1>12. Orderly(mm', Replaced(todo, q))
  <2>1. PICK A \in Int : A = todo[1].arg.start
    BY <1>2
  <2>2. Adds(mm, todo, A, g, s)
    BY <1>2, <1>3, <1>4, <2>1 DEF Adds
  <2>3. Inserts(g, A, s, mm', q)
    BY <1>2, <1>6, <1>7, <1>9, <1>10, <2>1 DEF Inserts
  <2> QED BY <2>2, <2>3, InsertOnward
<1> QED BY <1>11, <1>12

LEMMA AddAtOldOrdered ==
  ASSUME MapInv, Orderly(mm, todo), AddAtOld, MapInv'
  PROVE  Ordered
<1> DEFINE s == AllocSlot(mm)
           g == AllocEntry(mm)
<1>1. SUFFICES ASSUME status' = "ok" PROVE Orderly(mm', todo')
  BY DEF Ordered
<1>2. AddsPages /\ AllocFault(mm) = "ok" /\ ~Tied(mm')
  BY <1>1, AddAtOldIs
<1>3. PICK o \in g.tree, q \in Seq(Pending) :
        /\ Key(g, o) = Arg.start /\ Then(q)
        /\ AddedOver(g, mm', s, o, Arg, HigherPrecedence(freeing, Ty(g, o), Arg.type), q)
  BY <1>1, AddAtOldIs
<1>4. /\ Arg = todo[1].arg /\ todo[1].op = "add" /\ todo \in Seq(Pending)
      /\ todo # <<>> /\ GoodMap(mm) /\ Arg.start \in Int /\ End(Arg) \in Int
      /\ Arg.start < End(Arg)
  BY <1>2, ArgIs
<1>5. GoodMap(g) /\ s \in Slot /\ s \notin g.tree
  BY <1>2, <1>4, AllocGood
<1>6. Calm(mm, g) /\ ~Tied(g)
  BY <1>2, <1>4, AllocCalm DEF Orderly
<1>7. GoodMap(mm')
  BY <1>1 DEF MapInv
<1> DEFINE type == HigherPrecedence(freeing, Ty(g, o), Arg.type)
           h == mm'
<1> HIDE DEF s, g, type
<1>8. todo' = Replaced(todo, q)
  BY <1>3 DEF Then, Replaced
<1>9. \A t \in g.tree : Key(g, t) \in Int /\ Hi(g, t) \in Int /\ Key(g, t) < Hi(g, t)
  BY <1>5, Extents
<1>10. ASSUME Calm(g, mm'), \A i \in 1 .. Len(q) : q[i].op \in {"merge", "bump"}
       PROVE  Orderly(mm', todo')
  <2>1. Calm(mm, mm')
    BY <1>4, <1>5, <1>6, <1>7, <1>10, CalmTrans
  <2>2. Orderly(mm', Replaced(todo, q))
    BY <1>2, <1>4, <1>7, <1>10, <2>1, CalmOnward
  <2> QED BY <1>8, <2>2
<1>11. CASE /\ Hi(g, o) = End(Arg) /\ mm'.tree = g.tree
            /\ \A t \in g.tree \ {o} : mm'.entry[t] = g.entry[t]
            /\ Is(mm', o, Key(g, o), Hi(g, o), type)
            /\ q = <<MergeCall(o), BumpCall>>
  <2>1. \A t \in g.tree : Key(mm', t) = Key(g, t) /\ Hi(mm', t) = Hi(g, t)
    BY <1>11 DEF Is, Key, Hi
  <2>2. Calm(g, mm')
    BY <1>5, <1>11, <2>1, SameCalm
  <2>3. \A i \in 1 .. Len(q) : q[i].op \in {"merge", "bump"}
    BY <1>11 DEF MergeCall, BumpCall
  <2> QED BY <1>10, <2>2, <2>3
<1>12. CASE /\ End(Arg) < Hi(g, o) /\ mm'.tree = g.tree \cup {s}
            /\ \A t \in g.tree \ {o} : mm'.entry[t] = g.entry[t]
            /\ Is(mm', s, Key(g, o), End(Arg), type)
            /\ Is(mm', o, End(Arg), Hi(g, o), Ty(g, o))
            /\ q = <<MergeCall(s), BumpCall>>
  <2>1. ASSUME NEW t \in g.tree \ {o} PROVE Hi(g, t) <= Key(g, o) \/ End(Arg) <= Key(g, t)
    <3>1. Key(g, t) # Key(g, o)
      BY <1>6 DEF Tied
    <3>2. CASE Key(g, t) < Key(g, o)
      <4>1. SUFFICES ASSUME Key(g, o) < Hi(g, t) PROVE FALSE
        BY <1>9
      <4>2. Meets(g, t, o)
        BY <3>2, <4>1 DEF Meets
      <4>3. Hi(g, t) <= Arg.start
        BY <1>4, <1>5, <1>6, <4>2, CalmInherits
      <4> QED BY <1>3, <1>9, <4>1, <4>3
    <3>3. CASE Key(g, o) < Key(g, t)
      <4>1. SUFFICES ASSUME Key(g, t) < End(Arg) PROVE FALSE
        BY <1>4, <1>9
      <4>2. Key(g, t) < Hi(g, o)
        BY <1>4, <1>9, <1>12, <4>1
      <4>3. Meets(g, o, t)
        BY <3>3, <4>2 DEF Meets
      <4>4. Hi(g, o) <= Arg.start
        BY <1>4, <1>5, <1>6, <4>3, CalmInherits
      <4> QED BY <1>3, <1>9, <4>4
    <3> QED BY <1>9, <3>1, <3>2, <3>3
  <2>2. Clear(g, o, Key(g, o), End(Arg))
    BY <2>1 DEF Clear
  <2>3. /\ Key(mm', s) = Key(g, o) /\ Hi(mm', s) = End(Arg)
        /\ Key(mm', o) = End(Arg) /\ Hi(mm', o) = Hi(g, o)
        /\ \A t \in g.tree \ {o} : Key(mm', t) = Key(g, t) /\ Hi(mm', t) = Hi(g, t)
    BY <1>12 DEF Is, Key, Hi
  <2>4. Key(g, o) < End(Arg)
    BY <1>3, <1>4
  <2>5. Calm(g, mm')
    <3>1. PICK w \in Int : w = End(Arg)
      BY <1>4
    <3> QED BY <1>5, <1>7, <1>12, <2>2, <2>3, <2>4, <3>1, NewCalm
  <2>6. \A i \in 1 .. Len(q) : q[i].op \in {"merge", "bump"}
    BY <1>12 DEF MergeCall, BumpCall
  <2> QED BY <1>10, <2>5, <2>6
<1>13. CASE /\ Hi(g, o) < End(Arg) /\ mm'.tree = g.tree \cup {s}
            /\ \A t \in g.tree \ {o} : mm'.entry[t] = g.entry[t]
            /\ Is(mm', o, Key(g, o), Hi(g, o), type)
            /\ Is(mm', s, Hi(g, o), End(Arg), Arg.type)
            /\ q = <<FixCall(s), MergeCall(s), BumpCall>>
  <2>1. /\ \A t \in g.tree : Key(mm', t) = Key(g, t) /\ Hi(mm', t) = Hi(g, t)
        /\ Key(mm', s) = Hi(g, o)
    BY <1>13 DEF Is, Key, Hi
  <2>2. PICK A \in Int : A = Arg.start
    BY <1>4
  <2>3. Adds(mm, todo, A, g, s)
    BY <1>4, <1>5, <1>6, <2>2 DEF Adds
  <2>4. Prolongs(g, A, s, o, mm', q)
    BY <1>2, <1>3, <1>6, <1>7, <1>13, <2>1, <2>2 DEF Prolongs
  <2>5. Orderly(mm', Replaced(todo, q))
    BY <2>3, <2>4, BeyondOnward
  <2> QED BY <1>8, <2>5
<1> QED BY <1>3, <1>11, <1>12, <1>13 DEF AddedOver, type

(* Every step of a call keeps the overlaps in order.                       *)
LEMMA StepOrdered ==
  ASSUME MapInv, Orderly(mm, todo), Step PROVE Ordered
<1>1. MapInv'
  BY StepsGood
<1>2. CASE AddNoSlot
  <2>1. status' # "ok"
    BY <1>2 DEF AddNoSlot, Fail
  <2> QED BY <2>1 DEF Ordered
<1> QED BY <1>1, <1>2, SplitOrdered, PlainOrdered, AddNewOrdered, AddAtOldOrdered,
           FixOrdered DEF Step

-----------------------------------------------------------------------------
(***************************************************************************)
(* The calls from outside, which find the map without overlaps.            *)
(***************************************************************************)
LEMMA CalmQuiet ==
  ASSUME NEW m, Quiet(m), NEW g, Calm(m, g), ~Tied(g) PROVE Quiet(g)
<1>1. ASSUME NEW a \in g.tree, NEW b \in g.tree, Meets(g, a, b) PROVE FALSE
  <2>1. PICK c \in m.tree : Carried(m, g, c, a, b)
    BY <1>1 DEF Calm
  <2> QED BY <2>1 DEF Carried, Quiet, Meets
<1> QED BY <1>1 DEF Quiet

LEMMA QuietClear ==
  ASSUME NEW m, GoodMap(m), Quiet(m), NEW v \in m.tree, NEW lo \in Int, NEW hi \in Int,
         Key(m, v) <= lo, hi <= Hi(m, v)
  PROVE  Clear(m, v, lo, hi)
<1>1. \A t \in m.tree : Key(m, t) \in Int /\ Hi(m, t) \in Int
  BY Extents
<1>2. SUFFICES ASSUME NEW t \in m.tree \ {v} PROVE Hi(m, t) <= lo \/ hi <= Key(m, t)
  BY DEF Clear
<1>3. Key(m, t) # Key(m, v) /\ ~Meets(m, t, v) /\ ~Meets(m, v, t)
  BY DEF Quiet, Tied
<1>4. CASE Key(m, t) < Key(m, v)
  BY <1>1, <1>3, <1>4 DEF Meets
<1>5. CASE Key(m, v) < Key(m, t)
  BY <1>1, <1>3, <1>5 DEF Meets
<1> QED BY <1>1, <1>3, <1>4, <1>5

(* gd_alloc_pages with a slot from mmap_alloc_entry.                       *)
LEMMA SlicedQuiet ==
  ASSUME NEW m, GoodMap(m), Quiet(m), AllocFault(m) = "ok", NEW v \in m.tree,
         m.entry[v].type = "conventional", NEW type \in Type,
         NEW n \in Nat, Aligned(n), n >= PageSize, n < m.entry[v].size,
         ~Clobbers(m, v, n), ~Tied(Sliced(m, v, n, type))
  PROVE  Quiet(Sliced(m, v, n, type))
<1> DEFINE a == AllocEntry(m)
           s == AllocSlot(m)
           g == Sliced(m, v, n, type)
<1>1. g = TakeNew(a, v, n, type, s)
  BY DEF Sliced
<1>2. GoodMap(a) /\ s \in Slot /\ s \notin a.tree
  BY AllocGood
<1>3. Calm(m, a) /\ ~Tied(a)
  BY AllocCalm DEF Quiet
<1>4. Quiet(a)
  BY <1>3, CalmQuiet
<1>5. v \in a.tree
  BY VictimKept
<1>6. GoodMap(g) /\ 0 < n
  BY SlicedGood, PageSizeIs
<1> HIDE DEF a, s, g
<1>7. a \in Map /\ a.entry \in [Slot -> Entry] /\ v \in Slot /\ v # s /\ a.entry[v] \in Entry
  BY <1>2, <1>5 DEF GoodMap, Map
<1>8. g.entry[v] = DropFirst(a.entry[v], n) /\ g.tree = a.tree \cup {s}
  BY <1>1, <1>2, <1>7 DEF TakeNew, Map
<1>9. n < a.entry[v].size
  <2>1. GoodEntry(g.entry[v])
    BY <1>5, <1>6, <1>8 DEF GoodMap
  <2>2. DropFirst(a.entry[v], n).size = a.entry[v].size - n /\ a.entry[v].size \in Nat
    <3>1. n \in Int
      OBVIOUS
    <3> QED BY <1>2, <1>5, <1>7, <3>1, EntryOps, GoodIs DEF GoodMap
  <2>3. g.entry[v].size > 0
    BY <2>1, GoodIs
  <2> QED BY <1>8, <2>2, <2>3
<1>10. Clear(a, v, Key(a, v), Key(a, v) + n)
  <2>1. PICK b \in Int, c \in Int : b = Key(a, v) /\ c = Hi(a, v) /\ n < c - b
    BY <1>2, <1>5, <1>9, Extent
  <2>2. b + n \in Int /\ b <= b /\ b + n <= c
    BY <2>1
  <2> QED BY <1>2, <1>4, <1>5, <2>1, <2>2, QuietClear
<1>11. Calm(a, g)
  BY <1>1, <1>2, <1>3, <1>5, <1>6, <1>9, <1>10, TakeCalm
<1> QED BY <1>4, <1>11, CalmQuiet DEF g

LEMMA CallAllocQuiet ==
  ASSUME MapInv, Quiet(mm), NEW type \in Type, NEW count \in Nat, count # 0,
         CallAlloc(type, count), status' = "ok"
  PROVE  Quiet(mm')
<1> DEFINE n   == count * PageSize
           v   == Victim(mm, n)
           way == Way(mm, v, n, type)
           m   == CASE way = "whole" -> TakeWhole(mm, v, type)
                    [] way = "first" -> TakeFirst(mm, v, n)
                    [] way = "last"  -> TakeLast(mm, v, n)
                    [] way = "new"   -> Sliced(mm, v, n, type)
           result == AllocResult(type, count)
<1>1. /\ GoodMap(mm) /\ Conventional(mm, n) # {} /\ ~Tied(mm)
  BY DEF CallAlloc, Idle, AllocFound, Found, MapInv, Quiet
<1>2. /\ way = "new" => AllocFault(mm) = "ok"
      /\ mm' = [m EXCEPT !.key = @ + 1] /\ ~Tied(m)
      /\ way = "new" => ~(/\ Empty(mm) /\ result <= ScavengedPage(mm)
                          /\ ScavengedPage(mm) < result + n)
  BY DEF CallAlloc, Sliced
<1>3. n \in Nat /\ Aligned(n) /\ n >= PageSize /\ 0 < n
  BY DEF Aligned, PageSize
<1>4. /\ v \in mm.tree /\ mm.entry[v].type = "conventional" /\ mm.entry[v].size >= n
      /\ mm.entry[v].size \in Nat
  BY <1>1, VictimIs, GoodIs
<1>5. way = "new" => result = Key(mm, v)
  <2>1. result = TakenAt(mm, v, n, type)
    BY DEF AllocResult
  <2> QED BY <2>1 DEF TakenAt
<1> HIDE DEF n, v, result
<1>6. way # "whole" => n < mm.entry[v].size
  BY <1>3, <1>4, WayIs
<1>7. Quiet(m) /\ m \in Map
  <2>1. ASSUME n < mm.entry[v].size
        PROVE  /\ Clear(mm, v, Key(mm, v), Key(mm, v) + n)
               /\ Clear(mm, v, Hi(mm, v) - n, Hi(mm, v))
    <3>1. PICK b \in Int, c \in Int : b = Key(mm, v) /\ c = Hi(mm, v) /\ n < c - b
      BY <1>1, <1>4, <2>1, Extent
    <3>2. /\ b + n \in Int /\ b <= b /\ b + n <= c
          /\ c - n \in Int /\ b <= c - n /\ c <= c
      BY <1>3, <3>1
    <3>3. Clear(mm, v, b, b + n)
      BY <1>1, <1>4, <3>1, <3>2, QuietClear
    <3>4. Clear(mm, v, c - n, c)
      BY <1>1, <1>4, <3>1, <3>2, QuietClear
    <3> QED BY <3>1, <3>3, <3>4
  <2>2. CASE way = "whole"
    <3>1. m = TakeWhole(mm, v, type)
      BY <2>2
    <3>2. GoodMap(TakeWhole(mm, v, type))
      BY <1>1, <1>4, TakeWholeGood
    <3>3. Calm(mm, TakeWhole(mm, v, type)) /\ ~Tied(TakeWhole(mm, v, type))
      BY <1>1, <1>4, TakeWholeCalm
    <3> HIDE DEF m
    <3> QED BY <3>1, <3>2, <3>3, CalmQuiet DEF GoodMap
  <2>3. CASE way = "first"
    <3>1. m = TakeFirst(mm, v, n) /\ PrevJoins(mm, v, type)
      BY <2>3, WayIs
    <3>2. GoodMap(TakeFirst(mm, v, n))
      BY <1>1, <1>3, <1>4, <1>6, <2>3, <3>1, TakeFirstGood
    <3>3. Calm(mm, TakeFirst(mm, v, n))
      BY <1>1, <1>3, <1>4, <1>6, <2>1, <2>3, <3>1, TakeCalm
    <3> HIDE DEF m
    <3> QED BY <1>2, <3>1, <3>2, <3>3, CalmQuiet DEF GoodMap
  <2>4. CASE way = "last"
    <3>1. m = TakeLast(mm, v, n) /\ NextJoins(mm, v, type)
      BY <2>4, WayIs
    <3>2. GoodMap(TakeLast(mm, v, n))
      BY <1>1, <1>3, <1>4, <1>6, <2>4, <3>1, TakeLastGood
    <3>3. Calm(mm, TakeLast(mm, v, n))
      BY <1>1, <1>3, <1>4, <1>6, <2>1, <2>4, <3>1, TakeCalm
    <3> HIDE DEF m
    <3> QED BY <1>2, <3>1, <3>2, <3>3, CalmQuiet DEF GoodMap
  <2>5. CASE way = "new"
    <3>1. m = Sliced(mm, v, n, type)
      BY <2>5
    <3>2. AllocFault(mm) = "ok" /\ ~Clobbers(mm, v, n)
      BY <1>2, <1>5, <2>5 DEF Clobbers
    <3>3. n < mm.entry[v].size
      BY <1>6, <2>5
    <3>4. Sliced(mm, v, n, type) \in Map
      BY <1>1, <1>3, <1>4, <3>2, <3>3, SlicedGood
    <3>5. Quiet(Sliced(mm, v, n, type))
      <4>1. ~Tied(Sliced(mm, v, n, type))
        BY <1>2, <3>1
      <4> HIDE DEF m
      <4> QED BY <1>1, <1>3, <1>4, <3>2, <3>3, <4>1, SlicedQuiet
    <3> QED BY <3>1, <3>4, <3>5
  <2> QED BY <2>2, <2>3, <2>4, <2>5, WayIs
<1> HIDE DEF m
<1>8. mm'.tree = m.tree /\ mm'.entry = m.entry
  BY <1>2, <1>7 DEF Map
<1> QED BY <1>7, <1>8 DEF Quiet, Tied, Meets, Key, Hi

-----------------------------------------------------------------------------
(***************************************************************************)
(* What a call does to each page.  In the middle of a call a page may be   *)
(* described by several entries, and by ranges that are still to be added. *)
(* The one of the highest precedence among all these is what the call will *)
(* make of the page, and no step of the recursion changes which one it is. *)
(***************************************************************************)
LEMMA Tables ==
  /\ \A t \in Type : \E i \in 1 .. 14 : OverlapPrecedence[i] = t
  /\ \A t \in Type : \E i \in 1 .. 14 : FreeOverlapPrecedence[i] = t
  /\ DOMAIN OverlapPrecedence = 1 .. 14 /\ DOMAIN FreeOverlapPrecedence = 1 .. 14
<1>1. DOMAIN OverlapPrecedence = 1 .. 14 /\ DOMAIN FreeOverlapPrecedence = 1 .. 14
  BY DEF OverlapPrecedence, FreeOverlapPrecedence
<1>2. ASSUME NEW t \in Type PROVE \E i \in 1 .. 14 : OverlapPrecedence[i] = t
  BY DEF OverlapPrecedence, Type
<1>3. ASSUME NEW t \in Type PROVE \E i \in 1 .. 14 : FreeOverlapPrecedence[i] = t
  BY DEF FreeOverlapPrecedence, Type
<1> QED BY <1>1, <1>2, <1>3

(* The rank that the installed table gives each type.                      *)
RankOf(fr) == IF fr THEN FreeRank ELSE Rank
IsRank(rk) == rk \in {Rank, FreeRank}
Higher(rk, a, b) == IF rk[a] <= rk[b] THEN a ELSE b

LEMMA Ranks ==
  /\ \A rk : IsRank(rk) => \A t \in Type : rk[t] \in Int
  /\ \A rk : IsRank(rk) => \A t, u \in Type : rk[t] = rk[u] => t = u
  /\ "loader_data" \in Type /\ "conventional" \in Type /\ "unusable" \in Type
  /\ "none" \notin Type
  /\ Rank["loader_data"] < Rank["conventional"]
  /\ FreeRank["conventional"] < FreeRank["loader_data"]
<1>1. ASSUME NEW t \in Type
      PROVE  /\ Rank[t] \in 1 .. 14 /\ OverlapPrecedence[Rank[t]] = t
             /\ FreeRank[t] \in 1 .. 14 /\ FreeOverlapPrecedence[FreeRank[t]] = t
  <2>1. /\ Rank[t] = CHOOSE i \in 1 .. 14 : OverlapPrecedence[i] = t
        /\ FreeRank[t] = CHOOSE i \in 1 .. 14 : FreeOverlapPrecedence[i] = t
    BY Tables DEF Rank, FreeRank, Position
  <2> QED BY <2>1, Tables
<1>2. "loader_data" \in Type /\ "conventional" \in Type /\ "unusable" \in Type /\ "none" \notin Type
  BY DEF Type
<1>3. \A i \in 1 .. 14 : /\ OverlapPrecedence[i] = "loader_data" => i = 10
                         /\ OverlapPrecedence[i] = "conventional" => i = 13
  BY DEF OverlapPrecedence
<1>4. \A i \in 1 .. 14 : /\ FreeOverlapPrecedence[i] = "loader_data" => i = 11
                         /\ FreeOverlapPrecedence[i] = "conventional" => i = 2
  BY DEF FreeOverlapPrecedence
<1>5. Rank["loader_data"] = 10 /\ Rank["conventional"] = 13
  BY <1>1, <1>2, <1>3
<1>6. FreeRank["loader_data"] = 11 /\ FreeRank["conventional"] = 2
  BY <1>1, <1>2, <1>4
<1>7. ASSUME NEW rk, IsRank(rk), NEW t \in Type, NEW u \in Type
      PROVE  rk[t] \in Int /\ (rk[t] = rk[u] => t = u)
  BY <1>1, <1>7 DEF IsRank
<1> QED BY <1>2, <1>5, <1>6, <1>7

LEMMA HigherIs ==
  /\ \A fr : IsRank(RankOf(fr))
  /\ \A fr, a, b : HigherPrecedence(fr, a, b) = Higher(RankOf(fr), a, b)
  /\ \A rk, a, b : IsRank(rk) /\ a \in Type /\ b \in Type =>
       /\ Higher(rk, a, b) \in {a, b} /\ Higher(rk, a, b) \in Type
       /\ rk[Higher(rk, a, b)] <= rk[a] /\ rk[Higher(rk, a, b)] <= rk[b]
<1>1. ASSUME NEW rk, IsRank(rk), NEW a \in Type, NEW b \in Type
      PROVE  /\ Higher(rk, a, b) \in {a, b} /\ Higher(rk, a, b) \in Type
             /\ rk[Higher(rk, a, b)] <= rk[a] /\ rk[Higher(rk, a, b)] <= rk[b]
  <2>1. rk[a] \in Int /\ rk[b] \in Int
    BY <1>1, Ranks
  <2> QED BY <2>1 DEF Higher
<1>2. \A fr : IsRank(RankOf(fr))
  BY DEF IsRank, RankOf
<1>3. \A fr, a, b : HigherPrecedence(fr, a, b) = Higher(RankOf(fr), a, b)
  BY DEF HigherPrecedence, Higher, RankOf
<1> QED BY <1>1, <1>2, <1>3

(* A type of highest precedence among S.                                   *)
Beats(rk, S, t) == t \in S /\ \A u \in S : rk[t] <= rk[u]

(* What adding a range of type new makes of a page of type old, and the    *)
(* types it may end up with if the call makes it f: mmap_alloc_entry can   *)
(* take a conventional page, as loader data.                               *)
Raised(rk, old, new) == IF old = "none" THEN new ELSE Higher(rk, old, new)
Allowed(old, f) ==
  {f} \cup IF "conventional" \in {old, f} THEN {Raised(Rank, f, "loader_data")} ELSE {}

Reached(rk, S, old, f) ==
  IF S = {} THEN f = "none" ELSE \E t \in S : Beats(rk, S, t) /\ t \in Allowed(old, f)

(* R has lost types of S, but none that no other one outranks.             *)
Dominates(rk, S, R) ==
  R \subseteq S /\ \A u \in S : \E t \in R : rk[t] <= rk[u]

(* Types that come before conventional memory: no mmap_add_entry makes a   *)
(* page of such a type conventional.                                       *)
Guarded(t) == t \in Type /\ Rank[t] < Rank["conventional"]

LEMMA GuardedIs ==
  /\ \A t \in Type : t \notin {"conventional", "reserved"} => Guarded(t)
  /\ \A t : Guarded(t) => t \notin {"conventional", "none"}
<1>1. ASSUME NEW t \in Type, t \notin {"conventional", "reserved"} PROVE Guarded(t)
  <2>1. Rank[t] \in 1 .. 14 /\ OverlapPrecedence[Rank[t]] = t
    <3>1. Rank[t] = CHOOSE i \in 1 .. 14 : OverlapPrecedence[i] = t
      BY Tables DEF Rank, Position
    <3> QED BY <3>1, Tables
  <2>2. Rank["conventional"] = 13
    <3>1. Rank["conventional"] = CHOOSE i \in 1 .. 14 : OverlapPrecedence[i] = "conventional"
      BY Tables, Ranks DEF Rank, Position
    <3>2. OverlapPrecedence[13] = "conventional"
          /\ \A i \in 1 .. 14 : OverlapPrecedence[i] = "conventional" => i = 13
      BY DEF OverlapPrecedence
    <3> QED BY <3>1, <3>2
  <2>3. OverlapPrecedence[13] = "conventional" /\ OverlapPrecedence[14] = "reserved"
    BY DEF OverlapPrecedence
  <2>4. Rank[t] # 13 /\ Rank[t] # 14
    BY <1>1, <2>1, <2>3
  <2> QED BY <2>1, <2>2, <2>4 DEF Guarded
<1>2. ASSUME NEW t, Guarded(t) PROVE t \notin {"conventional", "none"}
  <2>1. Rank["conventional"] \in Int /\ "none" \notin Type
    BY Ranks DEF IsRank
  <2> QED BY <1>2, <2>1 DEF Guarded
<1> QED BY <1>1, <1>2

LEMMA ReservedLast ==
  /\ ~Guarded("reserved")
  /\ \A t \in Type : FreeRank["reserved"] <= FreeRank[t] => t = "reserved"
<1>1. ASSUME NEW t \in Type
      PROVE  /\ Rank[t] \in 1 .. 14 /\ OverlapPrecedence[Rank[t]] = t
             /\ FreeRank[t] \in 1 .. 14 /\ FreeOverlapPrecedence[FreeRank[t]] = t
  <2>1. /\ Rank[t] = CHOOSE i \in 1 .. 14 : OverlapPrecedence[i] = t
        /\ FreeRank[t] = CHOOSE i \in 1 .. 14 : FreeOverlapPrecedence[i] = t
    BY Tables DEF Rank, FreeRank, Position
  <2> QED BY <2>1, Tables
<1>2. "reserved" \in Type /\ "conventional" \in Type
  BY DEF Type
<1>3. \A i \in 1 .. 14 : /\ OverlapPrecedence[i] = "reserved" => i = 14
                         /\ OverlapPrecedence[i] = "conventional" => i = 13
                         /\ FreeOverlapPrecedence[i] = "reserved" => i = 14
  BY DEF OverlapPrecedence, FreeOverlapPrecedence
<1>4. Rank["reserved"] = 14 /\ Rank["conventional"] = 13 /\ FreeRank["reserved"] = 14
  BY <1>1, <1>2, <1>3
<1>5. FreeOverlapPrecedence[14] = "reserved"
  BY DEF FreeOverlapPrecedence
<1>6. ASSUME NEW t \in Type, FreeRank["reserved"] <= FreeRank[t] PROVE t = "reserved"
  <2>1. FreeRank[t] = 14
    BY <1>1, <1>4, <1>6
  <2> QED BY <1>1, <1>5, <2>1
<1> QED BY <1>4, <1>6 DEF Guarded

(* A page with the types S, in the map or still to be given to it, stays   *)
(* guarded: one of S comes before conventional memory, and conventional is *)
(* only among them if the request, an mmap_add_entry, asks for that.       *)
SafeTypes(rk, S, A) ==
  /\ \E t \in S : Guarded(t)
  /\ "conventional" \in S => rk = Rank /\ "conventional" \in A

LEMMA SafeDominated ==
  ASSUME NEW rk, IsRank(rk), NEW S \in SUBSET Type, NEW R, Dominates(rk, S, R),
         NEW P \in SUBSET Type, NEW A, SafeTypes(rk, S \cup P, A)
  PROVE  SafeTypes(rk, R \cup P, A)
<1>1. R \subseteq S /\ \A u \in S : \E t \in R : rk[t] <= rk[u]
  BY DEF Dominates
<1>2. PICK u \in S \cup P : Guarded(u)
  BY DEF SafeTypes
<1>3. CASE u \in P
  BY <1>1, <1>2, <1>3 DEF SafeTypes
<1>4. CASE u \in S
  <2>1. PICK t \in R : rk[t] <= rk[u]
    BY <1>1, <1>4
  <2>2. t \in Type /\ u \in Type /\ t \in S
    BY <1>1, <1>4, <2>1
  <2>3. CASE rk = Rank
    <3>1. Rank[t] \in Int /\ Rank[u] \in Int /\ Rank["conventional"] \in Int
      BY <2>2, Ranks DEF IsRank
    <3>2. Guarded(t)
      BY <1>2, <2>1, <2>2, <2>3, <3>1 DEF Guarded
    <3> QED BY <1>1, <3>2 DEF SafeTypes
  <2>4. CASE rk # Rank
    <3>1. rk = FreeRank /\ t # "conventional"
      BY <2>2, <2>4 DEF IsRank, SafeTypes
    <3>2. u # "reserved"
      BY <1>2, ReservedLast
    <3>3. t # "reserved"
      BY <2>1, <2>2, <3>1, <3>2, ReservedLast
    <3>4. Guarded(t)
      BY <2>2, <3>1, <3>3, GuardedIs
    <3> QED BY <1>1, <3>4 DEF SafeTypes
  <2> QED BY <2>3, <2>4
<1> QED BY <1>2, <1>3, <1>4

LEMMA Dominated ==
  ASSUME NEW rk, IsRank(rk), NEW S \in SUBSET Type, NEW R, Dominates(rk, S, R),
         NEW P \in SUBSET Type, NEW old, NEW f, Reached(rk, S \cup P, old, f)
  PROVE  Reached(rk, R \cup P, old, f)
<1>1. R \subseteq S /\ \A u \in S : \E t \in R : rk[t] <= rk[u]
  BY DEF Dominates
<1>2. CASE S \cup P = {}
  BY <1>1, <1>2 DEF Reached
<1>3. CASE S \cup P # {}
  <2>1. PICK t \in S \cup P : Beats(rk, S \cup P, t) /\ t \in Allowed(old, f)
    BY <1>3 DEF Reached
  <2>2. t \in R \cup P
    <3>1. SUFFICES ASSUME t \in S PROVE t \in R
      BY <2>1
    <3>2. PICK u \in R : rk[u] <= rk[t]
      BY <1>1, <3>1
    <3>3. rk[t] <= rk[u] /\ u \in Type /\ t \in Type
      BY <1>1, <2>1, <3>1, <3>2 DEF Beats
    <3>4. rk[t] = rk[u]
      BY <3>2, <3>3, Ranks
    <3> QED BY <3>2, <3>3, <3>4, Ranks
  <2>3. Beats(rk, R \cup P, t)
    BY <1>1, <2>1, <2>2 DEF Beats
  <2> QED BY <2>1, <2>2, <2>3 DEF Reached
<1> QED BY <1>2, <1>3

(* A conventional page is taken for slots.  A is the type that the call    *)
(* gives the page, and P what is still to be added of it.                  *)
LEMMA Scavenging ==
  ASSUME NEW rk, IsRank(rk), NEW old \in Type \cup {"none"}, NEW A \in SUBSET Type,
         NEW f, A = {} => f = old, \A a \in A : A = {a} /\ f = Raised(rk, old, a),
         rk # Rank => A \subseteq {"conventional"}, NEW P, P \subseteq A,
         "conventional" \in {old} \cup A,
         Reached(rk, {"conventional"} \cup P, old, f)
  PROVE  Reached(rk, {"loader_data"} \cup P, old, f)
<1> DEFINE cv == "conventional"
           ld == "loader_data"
<1>1. /\ cv \in Type /\ ld \in Type /\ Rank[ld] < Rank[cv] /\ cv # "none" /\ "none" \notin Type
      /\ cv # ld /\ IsRank(Rank)
  BY Ranks DEF IsRank
<1>n. /\ \A t \in Type : Rank[t] \in Int /\ rk[t] \in Int
      /\ \A t, u \in Type : Rank[t] = Rank[u] => t = u
  BY <1>1, Ranks
<1>2. PICK w \in {cv} \cup P : Beats(rk, {cv} \cup P, w) /\ w \in Allowed(old, f)
  BY DEF Reached
<1>3. f \in Type \cup {"none"}
  <2>1. CASE A = {}
    BY <2>1
  <2>2. ASSUME NEW a \in A PROVE f \in Type \cup {"none"}
    BY <2>2, HigherIs DEF Raised
  <2> QED BY <2>1, <2>2
<1>4. ASSUME cv \in Allowed(old, f) PROVE f = cv
  <2>1. SUFFICES ASSUME cv = Raised(Rank, f, ld) PROVE f = cv
    BY <1>4 DEF Allowed
  <2> QED BY <1>1, <1>3, <2>1 DEF Raised, Higher
<1>5. ASSUME f = cv PROVE ld \in Allowed(old, f) /\ cv \in Allowed(old, f)
  <2>1. Higher(Rank, cv, ld) = ld
    BY <1>1, <1>n DEF Higher
  <2> QED BY <1>1, <1>5, <2>1 DEF Allowed, Raised
<1>6. ASSUME NEW t \in {ld} \cup P, Beats(rk, {ld} \cup P, t), t \in Allowed(old, f)
      PROVE  Reached(rk, {ld} \cup P, old, f)
  BY <1>6 DEF Reached
<1>7. CASE P = {}
  <2>1. w = cv /\ f = cv
    BY <1>2, <1>4, <1>7
  <2> QED BY <1>1, <1>n, <1>5, <1>6, <1>7, <2>1 DEF Beats
<1>8. ASSUME NEW a \in P PROVE Reached(rk, {ld} \cup P, old, f)
  <2>1. P = {a} /\ f = Raised(rk, old, a) /\ a \in Type /\ (rk # Rank => a = cv) /\ A = {a}
    BY <1>8
  <2>2. CASE a = cv
    <3>1. w = cv /\ f = cv
      BY <1>2, <1>4, <2>1, <2>2
    <3>2. CASE rk[ld] <= rk[cv]
      BY <1>1, <1>n, <1>5, <1>6, <2>1, <2>2, <3>1, <3>2 DEF Beats
    <3>3. CASE rk[cv] <= rk[ld]
      BY <1>1, <1>n, <1>5, <1>6, <2>1, <2>2, <3>1, <3>3 DEF Beats
    <3> QED BY <1>1, <1>n, <3>2, <3>3
  <2>3. CASE a # cv
    <3>1. old = cv /\ rk = Rank
      BY <1>1, <2>1, <2>3
    <3>2. CASE w = cv
      <4>1. f = cv /\ Rank[cv] <= Rank[a]
        BY <1>1, <1>2, <1>4, <2>1, <3>1, <3>2 DEF Beats
      <4>2. Beats(rk, {ld} \cup P, ld)
        BY <1>1, <1>n, <2>1, <3>1, <4>1 DEF Beats
      <4> QED BY <1>5, <1>6, <4>1, <4>2
    <3>3. CASE w = a
      <4>1. Rank[a] <= Rank[cv] /\ Rank[a] # Rank[cv]
        BY <1>1, <1>n, <1>2, <2>1, <2>3, <3>1, <3>3 DEF Beats
      <4>2. f = a
        BY <1>1, <1>n, <2>1, <3>1, <4>1 DEF Raised, Higher
      <4>3. Allowed(old, f) = {a, Higher(Rank, a, ld)}
        BY <1>1, <2>1, <3>1, <4>2 DEF Allowed, Raised
      <4>5. CASE Rank[a] <= Rank[ld]
        <5>1. Beats(rk, {ld} \cup P, a)
          BY <1>1, <1>n, <2>1, <3>1, <4>5 DEF Beats
        <5> QED BY <1>6, <2>1, <4>3, <5>1
      <4>6. CASE Rank[ld] < Rank[a]
        <5>1. Beats(rk, {ld} \cup P, ld)
          BY <1>1, <1>n, <2>1, <3>1, <4>6 DEF Beats
        <5>2. Higher(Rank, a, ld) = ld
          BY <1>1, <1>n, <2>1, <4>6 DEF Higher
        <5> QED BY <1>6, <4>3, <5>1, <5>2
      <4> QED BY <1>1, <1>n, <2>1, <4>5, <4>6
    <3> QED BY <1>2, <2>1, <3>2, <3>3
  <2> QED BY <2>2, <2>3
<1> QED BY <1>7, <1>8

-----------------------------------------------------------------------------
(***************************************************************************)
(* A request: the entry e is added to a map in which page p has type old.  *)
(***************************************************************************)
Full(e, p) == e.start <= p /\ p + PageSize <= End(e)
Part(e, p) == e.start < p + PageSize /\ p < End(e) /\ e.size > 0

(* The type that e gives page p, if it gives it one, and what p becomes.   *)
Given(e, p) == IF Full(e, p) THEN e.type ELSE "unusable"
Asked(e, p) == IF Part(e, p) THEN {Given(e, p)} ELSE {}
Goal(rk, old, e, p) == IF Part(e, p) THEN Raised(rk, old, Given(e, p)) ELSE old

(* The types page p has in the map, and those the calls on the stack are   *)
(* still to give it.                                                       *)
Types(m, p) == {Ty(m, t) : t \in Covering(m, p)}
AskedBy(c, p) == IF c.op = "add" THEN Asked(c.arg, p) ELSE {}
Pends(q, p) == UNION {AskedBy(q[i], p) : i \in 1 .. Len(q)}
Below1(q, p) == UNION {AskedBy(q[i], p) : i \in 2 .. Len(q)}

(* Ranges that fix_overlap puts back only cover pages that are described   *)
(* by nothing else, unless the request itself gives them that type; and    *)
(* where the entry being fixed overlaps another one, it is the request's.  *)
(* gd_free_pages adds one range of whole pages at a time, and if its pages *)
(* were not conventional before, one that is about to become so (again)    *)
(* has not become so in the meantime: it cannot have been scavenged.       *)
Returning(rk, old) == rk # Rank /\ old # "conventional"

AddReady(rk, old, m, a, e, p) ==
  /\ rk # Rank => Aligned(a.start) /\ Aligned(a.size)
  /\ Returning(rk, old) /\ Asked(a, p) # {} => "conventional" \notin Types(m, p)
  /\ \/ Asked(a, p) \subseteq Asked(e, p)
     \/ Aligned(a.start) /\ Aligned(a.size) /\ Types(m, p) = {}

FixReady(rk, old, m, s, e, p) ==
  \A t \in Covering(m, p) :
    Meets(m, s, t) /\ p < Hi(m, s) =>
      Ty(m, s) \in Asked(e, p) /\ (Returning(rk, old) => Ty(m, t) # "conventional")

LowerReady(rk, q, e, p) ==
  \A i \in 2 .. Len(q) : /\ AskedBy(q[i], p) \subseteq Asked(e, p)
                         /\ rk # Rank => q[i].op # "add"

TopPage(rk, old, m, q, e, p) ==
  q # <<>> => /\ q[1].op = "add" => AddReady(rk, old, m, q[1].arg, e, p)
              /\ q[1].op = "fix" => FixReady(rk, old, m, q[1].slot, e, p)

KnownTypes(m, q, old, e, p) ==
  Types(m, p) \cup Pends(q, p) \subseteq {old, "loader_data"} \cup Asked(e, p)

PageOk(rk, m, q, old, e, p) ==
  /\ Reached(rk, Types(m, p) \cup Pends(q, p), old, Goal(rk, old, e, p))
  /\ KnownTypes(m, q, old, e, p) /\ LowerReady(rk, q, e, p) /\ TopPage(rk, old, m, q, e, p)

(* The table of gd_free_pages is only installed for requests of            *)
(* conventional memory.                                                    *)
Asking(rk, old, e, p) ==
  /\ IsRank(rk) /\ old \in Type \cup {"none"} /\ e \in Entry /\ p \in PageAddr
  /\ rk # Rank => Asked(e, p) \subseteq {"conventional"}

LEMMA AskedType ==
  ASSUME NEW e \in Entry, NEW p
  PROVE  Asked(e, p) \subseteq Type /\ \A a \in Asked(e, p) : Asked(e, p) = {a} /\ Part(e, p)
<1>1. e.type \in Type /\ "unusable" \in Type
  BY DEF Entry, Type
<1> QED BY <1>1 DEF Asked, Given

LEMMA TypesType ==
  ASSUME NEW m, GoodMap(m), NEW p PROVE Types(m, p) \subseteq Type
<1>1. \A t \in m.tree : Ty(m, t) \in Type
  BY Extent
<1> QED BY <1>1 DEF Types, Covering

LEMMA PendsAre ==
  ASSUME NEW old \in Seq(Pending), old # <<>>, NEW q \in Seq(Pending), NEW p
  PROVE  /\ Pends(old, p) = AskedBy(old[1], p) \cup Below1(old, p)
         /\ Pends(Replaced(old, q), p) = Pends(q, p) \cup Below1(old, p)
         /\ Pends(old, p) \subseteq Type /\ Below1(old, p) \subseteq Type
         /\ Pends(q, p) \subseteq Type
<1> DEFINE r == Replaced(old, q)
           n == Len(old)
           k == Len(q)
<1>1. /\ n \in Nat \ {0} /\ k \in Nat /\ Len(r) = k + (n - 1)
      /\ \A i \in 1 .. k : r[i] = q[i]
      /\ \A i \in 2 .. n : r[k + (i - 1)] = old[i] /\ k + (i - 1) \in 1 .. Len(r)
      /\ \A i \in k + 1 .. Len(r) : i - k + 1 \in 2 .. n /\ r[i] = old[i - k + 1]
  BY StackIs
<1> HIDE DEF r
<1>2. 1 \in 1 .. n /\ \A i \in 1 .. n : i = 1 \/ i \in 2 .. n
  BY <1>1
<1>3. 2 .. n \subseteq 1 .. n /\ 1 .. k \subseteq 1 .. Len(r)
      /\ \A i \in 1 .. Len(r) : i \in 1 .. k \/ i \in k + 1 .. Len(r)
  BY <1>1
<1> HIDE DEF n, k
<1>4. Pends(old, p) = AskedBy(old[1], p) \cup Below1(old, p)
  BY <1>2, <1>3 DEF Pends, Below1, n
<1>5. Pends(r, p) = Pends(q, p) \cup Below1(old, p)
  <2>1. ASSUME NEW t \in Pends(r, p) PROVE t \in Pends(q, p) \cup Below1(old, p)
    <3>1. PICK i \in 1 .. Len(r) : t \in AskedBy(r[i], p)
      BY DEF Pends
    <3>2. CASE i \in 1 .. k
      BY <1>1, <3>1, <3>2 DEF Pends, k
    <3>3. CASE i \in k + 1 .. Len(r)
      <4>1. i - k + 1 \in 2 .. n /\ r[i] = old[i - k + 1]
        BY <1>1, <3>3
      <4> QED BY <3>1, <4>1 DEF Below1, n
    <3> QED BY <1>3, <3>2, <3>3
  <2>2. ASSUME NEW t \in Pends(q, p) PROVE t \in Pends(r, p)
    BY <1>1, <1>3 DEF Pends, k
  <2>3. ASSUME NEW t \in Below1(old, p) PROVE t \in Pends(r, p)
    <3>1. PICK i \in 2 .. n : t \in AskedBy(old[i], p)
      BY DEF Below1, n
    <3>2. r[k + (i - 1)] = old[i] /\ k + (i - 1) \in 1 .. Len(r)
      BY <1>1
    <3> QED BY <3>1, <3>2 DEF Pends
  <2> QED BY <2>1, <2>2, <2>3
<1>6. \A c \in Pending : AskedBy(c, p) \subseteq Type
  <2>1. \A c \in Pending : c.arg \in Entry
    BY DEF Pending, GoodArg
  <2> QED BY <2>1, AskedType DEF AskedBy
<1>7. (\A i \in 1 .. n : old[i] \in Pending) /\ (\A i \in 1 .. k : q[i] \in Pending)
  BY DEF n, k
<1>8. Pends(old, p) \subseteq Type /\ Pends(q, p) \subseteq Type
  BY <1>6, <1>7 DEF Pends, n, k
<1> QED BY <1>4, <1>5, <1>8 DEF r

(* A step that replaces the call at the top of the stack by the calls q,   *)
(* and makes g of the map m, is right for page p if the types it takes     *)
(* from the page are outranked by ones it leaves.                          *)
Improves(rk, m, st, g, q, p) ==
  Dominates(rk, Types(m, p) \cup AskedBy(st[1], p), Types(g, p) \cup Pends(q, p))

Going(rk, m, st, old, e, p) ==
  /\ Asking(rk, old, e, p) /\ GoodMap(m) /\ st \in Seq(Pending) /\ st # <<>>
  /\ FixOnTop(st) /\ PageOk(rk, m, st, old, e, p)

(* What a step does to page p; a page that was safe stays so.              *)
Safe(rk, m, q, e, p) ==
  SafeTypes(rk, Types(m, p) \cup Pends(q, p), Asked(e, p))

PageGoes(rk, m, st, g, r, old, e, p) ==
  PageOk(rk, g, r, old, e, p) /\ (Safe(rk, m, st, e, p) => Safe(rk, g, r, e, p))

LEMMA PageOnward ==
  ASSUME NEW rk, NEW m, NEW st, NEW old, NEW e, NEW p, Going(rk, m, st, old, e, p),
         NEW g, NEW q \in Seq(Pending), Improves(rk, m, st, g, q, p),
         LowerReady(rk, q, e, p), TopPage(rk, old, g, q, e, p)
  PROVE  PageGoes(rk, m, st, g, Replaced(st, q), old, e, p)
<1> USE DEF Going
<1> DEFINE r == Replaced(st, q)
           n == Len(st)
           k == Len(q)
           S == Types(m, p) \cup AskedBy(st[1], p)
           R == Types(g, p) \cup Pends(q, p)
           f == Goal(rk, old, e, p)
<1>1. /\ Pends(st, p) = AskedBy(st[1], p) \cup Below1(st, p)
      /\ Pends(r, p) = Pends(q, p) \cup Below1(st, p)
      /\ Pends(st, p) \subseteq Type /\ Below1(st, p) \subseteq Type
  BY PendsAre
<1>2. /\ r \in Seq(Pending) /\ n \in Nat \ {0} /\ k \in Nat /\ Len(r) = k + (n - 1)
      /\ \A i \in 1 .. k : r[i] = q[i]
      /\ \A i \in k + 1 .. Len(r) : i - k + 1 \in 2 .. n /\ r[i] = st[i - k + 1]
  BY StackIs
<1>3. IsRank(rk) /\ S \subseteq Type /\ Dominates(rk, S, R)
  BY <1>1, TypesType DEF Asking, Improves
<1> HIDE DEF S, R, f, r, n, k
<1>4. Reached(rk, S \cup Below1(st, p), old, f)
  <2>1. S \cup Below1(st, p) = Types(m, p) \cup Pends(st, p)
    BY <1>1 DEF S
  <2> QED BY <2>1 DEF PageOk, f
<1>5. Reached(rk, R \cup Below1(st, p), old, f)
  BY <1>1, <1>3, <1>4, Dominated
<1>6. R \cup Below1(st, p) = Types(g, p) \cup Pends(r, p)
  BY <1>1 DEF R
<1>7. KnownTypes(g, r, old, e, p)
  <2>1. S \cup Below1(st, p) \subseteq {old, "loader_data"} \cup Asked(e, p)
    BY <1>1 DEF PageOk, KnownTypes, S
  <2> QED BY <1>3, <1>6, <2>1 DEF KnownTypes, Dominates
<1>8. \A i \in 2 .. n : AskedBy(st[i], p) \subseteq Asked(e, p) /\ st[i].op # "fix"
      /\ (rk # Rank => st[i].op # "add")
  BY DEF PageOk, LowerReady, FixOnTop, n
<1>9. LowerReady(rk, r, e, p)
  <2>1. ASSUME NEW i \in 2 .. Len(r)
        PROVE  AskedBy(r[i], p) \subseteq Asked(e, p) /\ (rk # Rank => r[i].op # "add")
    <3>1. CASE i <= k
      <4>1. r[i] = q[i] /\ i \in 2 .. k
        BY <1>2, <3>1
      <4> QED BY <4>1 DEF LowerReady, k
    <3>2. CASE i > k
      <4>1. i - k + 1 \in 2 .. n /\ r[i] = st[i - k + 1]
        BY <1>2, <3>2
      <4> QED BY <1>8, <4>1
    <3> QED BY <1>2, <3>1, <3>2
  <2> QED BY <2>1 DEF LowerReady
<1>10. TopPage(rk, old, g, r, e, p)
  <2>1. CASE q # <<>>
    <3>1. r # <<>> /\ r[1] = q[1]
      BY <2>1, TopIs DEF r
    <3> QED BY <2>1, <3>1 DEF TopPage
  <2>2. CASE q = <<>>
    <3>1. SUFFICES ASSUME r # <<>> PROVE TopPage(rk, old, g, r, e, p)
      BY DEF TopPage
    <3>2. k = 0 /\ Len(r) # 0 /\ Len(r) \in Nat
      BY <1>2, <2>2, <3>1, EmptySeq DEF k
    <3>3. 1 \in k + 1 .. Len(r) /\ 1 - k + 1 = 2
      BY <3>2
    <3>4. 2 \in 2 .. n /\ r[1] = st[2]
      BY <1>2, <3>3
    <3>5. /\ AskedBy(r[1], p) \subseteq Asked(e, p) /\ r[1].op # "fix"
          /\ (rk # Rank => r[1].op # "add")
      BY <1>8, <3>4
    <3>6. r[1].op = "add" => Asked(r[1].arg, p) \subseteq Asked(e, p)
      BY <3>5 DEF AskedBy
    <3> HIDE DEF Going
    <3> QED BY <3>5, <3>6 DEF TopPage, AddReady, Returning
  <2> QED BY <2>1, <2>2
<1>11. PageOk(rk, g, r, old, e, p)
  BY <1>5, <1>6, <1>7, <1>9, <1>10 DEF PageOk, f
<1>12. ASSUME Safe(rk, m, st, e, p) PROVE Safe(rk, g, r, e, p)
  <2>1. SafeTypes(rk, S \cup Below1(st, p), Asked(e, p))
    <3>1. S \cup Below1(st, p) = Types(m, p) \cup Pends(st, p)
      BY <1>1 DEF S
    <3> QED BY <1>12, <3>1 DEF Safe
  <2>2. SafeTypes(rk, R \cup Below1(st, p), Asked(e, p))
    BY <1>1, <1>3, <2>1, SafeDominated
  <2> QED BY <1>6, <2>2 DEF Safe
<1> QED BY <1>11, <1>12 DEF PageGoes, r

(* mmap_alloc_entry, in the middle of mmap_add_entry, leaves the types of  *)
(* page p as they are or takes the page, which was conventional.           *)
PageTakenOrNot(m, g, p) ==
  \/ Types(g, p) = Types(m, p)
  \/ Types(m, p) = {"conventional"} /\ Types(g, p) = {"loader_data"}

LEMMA PageScavenged ==
  ASSUME NEW rk, NEW m, NEW st, NEW old, NEW e, NEW p, Going(rk, m, st, old, e, p),
         st[1].op = "add", NEW g, PageTakenOrNot(m, g, p)
  PROVE  PageOk(rk, g, st, old, e, p)
<1> USE DEF Going
<1> DEFINE P1 == Pends(st, p)
           f == Goal(rk, old, e, p)
           A == Asked(e, p)
<1>1. CASE Types(g, p) = Types(m, p)
  BY <1>1 DEF PageOk, KnownTypes, TopPage, AddReady
<1>2. CASE Types(m, p) = {"conventional"} /\ Types(g, p) = {"loader_data"}
  <2>1. AskedBy(st[1], p) \subseteq A
    BY <1>2 DEF PageOk, TopPage, AddReady, AskedBy
  <2>2. P1 \subseteq A
    <3>1. P1 = AskedBy(st[1], p) \cup Below1(st, p)
      BY PendsAre
    <3>2. Below1(st, p) \subseteq A
      BY DEF PageOk, LowerReady, Below1
    <3> QED BY <2>1, <3>1, <3>2
  <2>3. e \in Entry /\ IsRank(rk) /\ old \in Type \cup {"none"}
        /\ (rk # Rank => A \subseteq {"conventional"})
    BY DEF Asking
  <2>4. A \subseteq Type /\ (A = {} => f = old) /\ \A a \in A : A = {a} /\ f = Raised(rk, old, a)
    <3>1. A \subseteq Type /\ \A a \in A : A = {a} /\ Part(e, p)
      BY <2>3, AskedType
    <3>2. Part(e, p) => A = {Given(e, p)} /\ f = Raised(rk, old, Given(e, p))
      BY DEF Asked, Goal
    <3>3. ~Part(e, p) => f = old
      BY DEF Goal
    <3> HIDE DEF A, f
    <3> QED BY <3>1, <3>2, <3>3
  <2>5. /\ Reached(rk, {"conventional"} \cup P1, old, f)
        /\ {"conventional"} \cup P1 \subseteq {old, "loader_data"} \cup A
    BY <1>2 DEF PageOk, KnownTypes
  <2> HIDE DEF P1, f, A
  <2>6. Reached(rk, {"loader_data"} \cup P1, old, f)
    BY <2>2, <2>3, <2>4, <2>5, Scavenging
  <2>7. TopPage(rk, old, g, st, e, p)
    <3>1. Asked(st[1].arg, p) \subseteq Asked(e, p)
      BY <2>1 DEF AskedBy, A
    <3>2. AddReady(rk, old, g, st[1].arg, e, p)
      <4>1. /\ rk # Rank => Aligned(st[1].arg.start) /\ Aligned(st[1].arg.size)
            /\ "conventional" \notin Types(g, p)
        BY <1>2 DEF PageOk, TopPage, AddReady
      <4> QED BY <3>1, <4>1 DEF AddReady
    <3>3. st[1].op # "fix"
      OBVIOUS
    <3> HIDE DEF Going
    <3> QED BY <3>2, <3>3 DEF TopPage
  <2>8. KnownTypes(g, st, old, e, p)
    BY <1>2, <2>2 DEF KnownTypes, A, P1
  <2>9. Reached(rk, Types(g, p) \cup Pends(st, p), old, Goal(rk, old, e, p))
    BY <1>2, <2>6 DEF P1, f
  <2> QED BY <2>7, <2>8, <2>9 DEF PageOk
<1> QED BY <1>1, <1>2 DEF PageTakenOrNot

-----------------------------------------------------------------------------
(***************************************************************************)
(* What the operations on the tree do to the types of a page.              *)
(***************************************************************************)
LEMMA CoverIs ==
  ASSUME NEW m, NEW p
  PROVE  /\ \A t : t \in Covering(m, p) <=> t \in m.tree /\ Key(m, t) <= p /\ p < Hi(m, t)
         /\ \A u : u \in Types(m, p) <=> \E t \in Covering(m, p) : u = Ty(m, t)
BY DEF Covering, Hi, Types

LEMMA SameCover ==
  ASSUME NEW m, NEW g, NEW p, \A t : t \in Covering(g, p) <=> t \in Covering(m, p),
         \A t \in Covering(m, p) : Ty(g, t) = Ty(m, t)
  PROVE  Types(g, p) = Types(m, p)
BY CoverIs

(* Two entries of one type become one.                                     *)
LEMMA AbsorbTypes ==
  ASSUME NEW m, GoodMap(m), NEW l \in m.tree, NEW r \in m.tree, l # r, Joins(m, l, r),
         Ty(m, l) = Ty(m, r), NEW p \in Int
  PROVE  Types(Absorb(m, l, r), p) = Types(m, p)
<1> DEFINE g == Absorb(m, l, r)
<1>1. /\ g.tree = m.tree \ {r} /\ \A t \in m.tree \ {l} : g.entry[t] = m.entry[t]
      /\ Is(g, l, Key(m, l), Hi(m, r), Ty(m, l))
  BY AbsorbIs
<1>2. /\ Key(m, l) \in Int /\ Hi(m, l) \in Int /\ Key(m, r) \in Int /\ Hi(m, r) \in Int
      /\ Key(m, l) < Hi(m, l) /\ Key(m, r) < Hi(m, r)
  BY Extents
<1>3. Hi(m, l) = Key(m, r)
  BY DEF Joins, Hi, Key
<1> HIDE DEF g
<1>4. \A t \in m.tree \ {l} : Key(g, t) = Key(m, t) /\ Hi(g, t) = Hi(m, t) /\ Ty(g, t) = Ty(m, t)
  BY <1>1 DEF Key, Hi, Ty
<1>5. Key(g, l) = Key(m, l) /\ Hi(g, l) = Hi(m, r) /\ Ty(g, l) = Ty(m, l)
  BY <1>1 DEF Is
<1>6. ASSUME NEW t \in m.tree \ {l, r}
      PROVE  t \in Covering(g, p) <=> t \in Covering(m, p)
  BY <1>1, <1>4, CoverIs
<1>7. l \in Covering(g, p) <=> l \in Covering(m, p) \/ r \in Covering(m, p)
  <2>1. l \in Covering(g, p) <=> Key(m, l) <= p /\ p < Hi(m, r)
    BY <1>1, <1>5, CoverIs
  <2>2. l \in Covering(m, p) <=> Key(m, l) <= p /\ p < Hi(m, l)
    BY CoverIs
  <2>3. r \in Covering(m, p) <=> Key(m, r) <= p /\ p < Hi(m, r)
    BY CoverIs
  <2> QED BY <1>2, <1>3, <2>1, <2>2, <2>3
<1>8. r \notin Covering(g, p)
  BY <1>1, CoverIs
<1>9. Covering(g, p) \subseteq m.tree /\ Covering(m, p) \subseteq m.tree
  BY <1>1, CoverIs
<1>10. ASSUME NEW u \in Types(g, p) PROVE u \in Types(m, p)
  <2>1. PICK t \in Covering(g, p) : u = Ty(g, t)
    BY CoverIs
  <2>2. CASE t = l
    BY <1>5, <1>7, <2>1, <2>2, CoverIs
  <2>3. CASE t # l
    BY <1>4, <1>6, <1>8, <1>9, <2>1, <2>3, CoverIs
  <2> QED BY <2>2, <2>3
<1>11. ASSUME NEW u \in Types(m, p) PROVE u \in Types(g, p)
  <2>1. PICK t \in Covering(m, p) : u = Ty(m, t)
    BY CoverIs
  <2>2. CASE t \in {l, r}
    BY <1>5, <1>7, <2>1, <2>2, CoverIs
  <2>3. CASE t \notin {l, r}
    BY <1>4, <1>6, <1>9, <2>1, <2>3, CoverIs
  <2> QED BY <2>2, <2>3
<1> QED BY <1>10, <1>11 DEF g

(* merge_adjacent changes no page.                                         *)
LEMMA MergeTypes ==
  ASSUME NEW m, GoodMap(m), NEW s \in m.tree, NEW p \in Int
  PROVE  Types(MergeAdjacent(m, s), p) = Types(m, p)
<1> DEFINE type == m.entry[s].type
           l == RB_PREV(m, s)
           x == RB_NEXT(m, s)
           with == PrevJoins(m, s, type)
           one == IF with THEN Absorb(m, l, s) ELSE m
           mid == IF with THEN l ELSE s
           again == x # NoSlot /\ one.entry[x].type = type /\ Joins(one, mid, x)
<1>1. MergeAdjacent(m, s) = IF again THEN Absorb(one, mid, x) ELSE one
  BY DEF MergeAdjacent
<1>e. \A t \in m.tree : Key(m, t) \in Int /\ Hi(m, t) \in Int
  BY Extents
<1>2. x # NoSlot => x \in m.tree /\ Key(m, s) < Key(m, x)
  BY NextBeside
<1>3. /\ GoodMap(one) /\ Types(one, p) = Types(m, p) /\ mid \in one.tree /\ Ty(one, mid) = type
      /\ x # NoSlot => x \in one.tree /\ x # mid
  <2>1. CASE with
    <3>1. l # NoSlot /\ Joins(m, l, s) /\ Ty(m, l) = Ty(m, s)
      BY <2>1 DEF PrevJoins, Ty
    <3>2. l \in m.tree /\ Key(m, l) < Key(m, s)
      BY <3>1, PrevBeside
    <3>3. l # s
      BY <1>e, <3>2
    <3>4. /\ GoodMap(Absorb(m, l, s)) /\ Absorb(m, l, s).tree = m.tree \ {s}
          /\ Is(Absorb(m, l, s), l, Key(m, l), Hi(m, s), Ty(m, l))
      BY <3>1, <3>2, <3>3, AbsorbIs
    <3>5. Types(Absorb(m, l, s), p) = Types(m, p)
      BY <3>1, <3>2, <3>3, AbsorbTypes
    <3>6. one = Absorb(m, l, s) /\ mid = l
      BY <2>1
    <3>7. Ty(m, s) = type
      BY DEF Ty
    <3> HIDE DEF one, mid, l, x, type
    <3>8. ASSUME x # NoSlot PROVE x \in m.tree \ {s} /\ x # l
      BY <1>e, <1>2, <3>2, <3>8
    <3> QED BY <3>1, <3>2, <3>3, <3>4, <3>5, <3>6, <3>7, <3>8 DEF Is
  <2>2. CASE ~with
    <3>1. one = m /\ mid = s
      BY <2>2
    <3>2. Ty(m, s) = type
      BY DEF Ty
    <3> HIDE DEF one, mid, x, type
    <3> QED BY <1>e, <1>2, <3>1, <3>2
  <2> QED BY <2>1, <2>2
<1> HIDE DEF one, mid, x, with
<1>4. CASE again
  <2>1. Joins(one, mid, x) /\ Ty(one, x) = type /\ x # NoSlot
    BY <1>4 DEF Ty
  <2> HIDE DEF type
  <2>2. Types(Absorb(one, mid, x), p) = Types(one, p)
    BY <1>3, <2>1, AbsorbTypes
  <2> QED BY <1>1, <1>3, <1>4, <2>2
<1>5. CASE ~again
  BY <1>1, <1>3, <1>5
<1> QED BY <1>4, <1>5

(* The pages of [lo, hi) become pages of that type and only that type.     *)
TakenTypes(m, g, lo, hi, type, p) ==
  Types(g, p) = IF lo <= p /\ p < hi THEN {type} ELSE Types(m, p)

LEMMA ClearTypes ==
  ASSUME NEW m, GoodMap(m), NEW v \in m.tree, NEW lo \in Int, NEW hi \in Int,
         Key(m, v) <= lo, hi <= Hi(m, v), Clear(m, v, lo, hi),
         NEW p \in Int, lo <= p, p < hi
  PROVE  Covering(m, p) = {v} /\ Types(m, p) = {Ty(m, v)}
<1>1. \A t \in m.tree : Key(m, t) \in Int /\ Hi(m, t) \in Int
  BY Extents
<1>2. v \in Covering(m, p)
  BY <1>1, CoverIs
<1>3. ASSUME NEW t \in Covering(m, p) PROVE t = v
  <2>1. t \in m.tree /\ Key(m, t) <= p /\ p < Hi(m, t)
    BY CoverIs
  <2> QED BY <1>1, <2>1 DEF Clear
<1> QED BY <1>2, <1>3, CoverIs

(* v goes over to that type: p is a page of v, which no other entry        *)
(* describes, or of another one.                                           *)
LEMMA RetypedTypes ==
  ASSUME NEW m, GoodMap(m), NEW v \in m.tree, NEW type, NEW g, g.tree = m.tree,
         \A t \in m.tree \ {v} : g.entry[t] = m.entry[t],
         Is(g, v, Key(m, v), Hi(m, v), type), Clear(m, v, Key(m, v), Hi(m, v)),
         NEW p \in Int
  PROVE  TakenTypes(m, g, Key(m, v), Hi(m, v), type, p)
<1>1. \A t \in m.tree : Key(m, t) \in Int /\ Hi(m, t) \in Int
  BY Extents
<1>2. /\ \A t \in m.tree \ {v} : Key(g, t) = Key(m, t) /\ Hi(g, t) = Hi(m, t) /\ Ty(g, t) = Ty(m, t)
      /\ Key(g, v) = Key(m, v) /\ Hi(g, v) = Hi(m, v) /\ Ty(g, v) = type
  BY DEF Is, Key, Hi, Ty
<1>3. \A t : t \in Covering(g, p) <=> t \in Covering(m, p)
  BY <1>2, CoverIs
<1>4. CASE Key(m, v) <= p /\ p < Hi(m, v)
  <2>1. Covering(m, p) = {v}
    <3>1. PICK a \in Int, b \in Int : a = Key(m, v) /\ b = Hi(m, v)
      BY <1>1
    <3>2. a <= a /\ b <= b
      BY <3>1
    <3> QED BY <1>4, <3>1, <3>2, ClearTypes
  <2> QED BY <1>2, <1>3, <1>4, <2>1, CoverIs DEF TakenTypes
<1>5. CASE ~(Key(m, v) <= p /\ p < Hi(m, v))
  <2>1. v \notin Covering(m, p) /\ Covering(m, p) \subseteq m.tree
    BY <1>5, CoverIs
  <2>2. \A t \in Covering(m, p) : Ty(g, t) = Ty(m, t)
    BY <1>2, <2>1
  <2> QED BY <1>3, <1>5, <2>2, SameCover DEF TakenTypes
<1> QED BY <1>4, <1>5

(* Bytes of v move to or from a neighbour, or to a new entry: w is what    *)
(* describes [lo, hi) afterwards.                                          *)
Moved(m, g, v, w, lo, hi, type) ==
  /\ w # v /\ Ty(g, w) = type /\ Ty(g, v) = Ty(m, v) /\ v \in m.tree /\ w \in g.tree
  /\ g.tree = m.tree \cup {w}
  /\ \A t \in m.tree \ {v, w} : g.entry[t] = m.entry[t]
  /\ lo \in Int /\ hi \in Int /\ Clear(m, v, lo, hi)
  /\ \A p \in Int :
       /\ Key(g, v) <= p /\ p < Hi(g, v)
            <=> Key(m, v) <= p /\ p < Hi(m, v) /\ ~(lo <= p /\ p < hi)
       /\ Key(g, w) <= p /\ p < Hi(g, w)
            <=> \/ lo <= p /\ p < hi
                \/ w \in m.tree /\ Ty(m, w) = type /\ Key(m, w) <= p /\ p < Hi(m, w)
  /\ w \in m.tree => Ty(m, w) = type

LEMMA MovedTypes ==
  ASSUME NEW m, GoodMap(m), NEW g, NEW v, NEW w, NEW lo, NEW hi, NEW type,
         Moved(m, g, v, w, lo, hi, type), NEW p \in Int
  PROVE  TakenTypes(m, g, lo, hi, type, p)
<1> USE DEF Moved
<1>1. \A t \in m.tree : Key(m, t) \in Int /\ Hi(m, t) \in Int
  BY Extents
<1>2. \A t \in m.tree \ {v, w} : Key(g, t) = Key(m, t) /\ Hi(g, t) = Hi(m, t) /\ Ty(g, t) = Ty(m, t)
  BY DEF Key, Hi, Ty
<1>3. /\ v \in Covering(g, p) <=> Key(m, v) <= p /\ p < Hi(m, v) /\ ~(lo <= p /\ p < hi)
      /\ w \in Covering(g, p) <=> \/ lo <= p /\ p < hi
                                  \/ w \in m.tree /\ Key(m, w) <= p /\ p < Hi(m, w)
  BY CoverIs
<1>4. \A t \in m.tree \ {v, w} : t \in Covering(g, p) <=> t \in Covering(m, p)
  BY <1>2, CoverIs
<1>5. Covering(g, p) \subseteq m.tree \cup {w} /\ Covering(m, p) \subseteq m.tree
  BY CoverIs
<1>6. CASE lo <= p /\ p < hi
  <2>1. w \in Covering(g, p) /\ v \notin Covering(g, p)
    BY <1>3, <1>6
  <2>2. ASSUME NEW t \in Covering(g, p) PROVE t = w
    <3>1. SUFFICES ASSUME t # w PROVE FALSE
      OBVIOUS
    <3>2. t \in m.tree \ {v, w} /\ t \in Covering(m, p)
      BY <1>4, <1>5, <2>1, <3>1
    <3>3. Key(m, t) <= p /\ p < Hi(m, t)
      BY <3>2, CoverIs
    <3>4. Hi(m, t) <= lo \/ hi <= Key(m, t)
      BY <3>2 DEF Clear
    <3> QED BY <1>1, <1>6, <3>2, <3>3, <3>4
  <2> QED BY <1>6, <2>1, <2>2, CoverIs DEF TakenTypes
<1>7. CASE ~(lo <= p /\ p < hi)
  <2>1. \A t : t \in Covering(g, p) <=> t \in Covering(m, p)
    BY <1>3, <1>4, <1>5, <1>7, CoverIs
  <2>2. \A t \in Covering(m, p) : Ty(g, t) = Ty(m, t)
    BY <1>2, <1>5
  <2> QED BY <1>7, <2>1, <2>2, SameCover DEF TakenTypes
<1> QED BY <1>6, <1>7

(* Taking n bytes of v that no other entry describes.                      *)
LEMMA TakeTypes ==
  ASSUME NEW m, GoodMap(m), NEW v \in m.tree, NEW type \in Type,
         NEW n \in Nat, 0 < n, NEW p \in Int
  PROVE  /\ m.entry[v].size = n /\ Clear(m, v, Key(m, v), Key(m, v) + n)
              => TakenTypes(m, TakeWhole(m, v, type), Key(m, v), Key(m, v) + n, type, p)
         /\ /\ n < m.entry[v].size /\ PrevJoins(m, v, type)
            /\ Clear(m, v, Key(m, v), Key(m, v) + n)
            => TakenTypes(m, TakeFirst(m, v, n), Key(m, v), Key(m, v) + n, type, p)
         /\ /\ n < m.entry[v].size /\ NextJoins(m, v, type)
            /\ Clear(m, v, Hi(m, v) - n, Hi(m, v))
            => TakenTypes(m, TakeLast(m, v, n), Hi(m, v) - n, Hi(m, v), type, p)
         /\ \A s \in Slot :
              /\ n < m.entry[v].size /\ s \notin m.tree
              /\ Clear(m, v, Key(m, v), Key(m, v) + n)
              => TakenTypes(m, TakeNew(m, v, n, type, s), Key(m, v), Key(m, v) + n, type, p)
<1>1. PICK a \in Int, b \in Int : a = Key(m, v) /\ b = Hi(m, v) /\ m.entry[v].size = b - a
  BY Extent
<1>2. \A t \in m.tree : Key(m, t) \in Int /\ Hi(m, t) \in Int /\ Key(m, t) < Hi(m, t)
  BY Extents
<1>3. ASSUME m.entry[v].size = n, Clear(m, v, a, a + n)
      PROVE  TakenTypes(m, TakeWhole(m, v, type), a, a + n, type, p)
  <2> DEFINE g == [m EXCEPT !.entry[v] = Retype(@, type)]
  <2>1. /\ GoodMap(g) /\ g.tree = m.tree
        /\ \A t \in m.tree \ {v} : g.entry[t] = m.entry[t]
        /\ Is(g, v, Key(m, v), Hi(m, v), type)
    BY RetypedIs
  <2>2. TakeWhole(m, v, type) = MergeAdjacent(g, v)
    BY DEF TakeWhole
  <2> HIDE DEF g
  <2>3. a + n = b
    BY <1>1, <1>3
  <2>4. TakenTypes(m, g, Key(m, v), Hi(m, v), type, p)
    BY <1>1, <1>3, <2>1, <2>3, RetypedTypes
  <2>5. Types(MergeAdjacent(g, v), p) = Types(g, p)
    BY <2>1, MergeTypes
  <2> QED BY <1>1, <2>2, <2>3, <2>4, <2>5 DEF TakenTypes
<1>4. ASSUME n < m.entry[v].size, PrevJoins(m, v, type), Clear(m, v, a, a + n)
      PROVE  TakenTypes(m, TakeFirst(m, v, n), a, a + n, type, p)
  <2> DEFINE w == RB_PREV(m, v)
             g == TakeFirst(m, v, n)
  <2>1. /\ g.tree = m.tree /\ w \in m.tree /\ w # v /\ Ty(m, w) = type
        /\ Hi(m, w) = Key(m, v)
        /\ \A t \in m.tree \ {w, v} : g.entry[t] = m.entry[t]
        /\ Is(g, w, Key(m, w), Key(m, v) + n, Ty(m, w))
        /\ Is(g, v, Key(m, v) + n, Hi(m, v), Ty(m, v))
    BY <1>4, TakeFirstIs
  <2> HIDE DEF w, g
  <2>2. /\ Key(g, w) = Key(m, w) /\ Hi(g, w) = a + n /\ Ty(g, w) = type
        /\ Key(g, v) = a + n /\ Hi(g, v) = b /\ Ty(g, v) = Ty(m, v) /\ Hi(m, w) = a
        /\ Key(m, w) \in Int /\ Key(m, w) < a
    BY <1>1, <1>2, <2>1 DEF Is
  <2>3. ASSUME NEW i \in Int
        PROVE  /\ Key(g, v) <= i /\ i < Hi(g, v)
                    <=> Key(m, v) <= i /\ i < Hi(m, v) /\ ~(a <= i /\ i < a + n)
               /\ Key(g, w) <= i /\ i < Hi(g, w)
                    <=> (a <= i /\ i < a + n) \/ (Key(m, w) <= i /\ i < Hi(m, w))
    BY <1>1, <1>4, <2>2
  <2>4. Moved(m, g, v, w, a, a + n, type)
    BY <1>4, <2>1, <2>2, <2>3 DEF Moved
  <2>5. TakenTypes(m, g, a, a + n, type, p)
    BY <2>4, MovedTypes
  <2> QED BY <2>5 DEF g
<1>5. ASSUME n < m.entry[v].size, NextJoins(m, v, type), Clear(m, v, b - n, b)
      PROVE  TakenTypes(m, TakeLast(m, v, n), b - n, b, type, p)
  <2> DEFINE w == RB_NEXT(m, v)
             g == TakeLast(m, v, n)
  <2>1. /\ g.tree = m.tree /\ w \in m.tree /\ w # v /\ Ty(m, w) = type
        /\ Hi(m, v) = Key(m, w)
        /\ \A t \in m.tree \ {v, w} : g.entry[t] = m.entry[t]
        /\ Is(g, v, Key(m, v), Hi(m, v) - n, Ty(m, v))
        /\ Is(g, w, Hi(m, v) - n, Hi(m, w), Ty(m, w))
    BY <1>5, TakeLastIs
  <2> HIDE DEF w, g
  <2>2. /\ Key(g, w) = b - n /\ Hi(g, w) = Hi(m, w) /\ Ty(g, w) = type
        /\ Key(g, v) = a /\ Hi(g, v) = b - n /\ Ty(g, v) = Ty(m, v) /\ Key(m, w) = b
        /\ Hi(m, w) \in Int /\ b < Hi(m, w)
    BY <1>1, <1>2, <2>1 DEF Is
  <2>3. ASSUME NEW i \in Int
        PROVE  /\ Key(g, v) <= i /\ i < Hi(g, v)
                    <=> Key(m, v) <= i /\ i < Hi(m, v) /\ ~(b - n <= i /\ i < b)
               /\ Key(g, w) <= i /\ i < Hi(g, w)
                    <=> (b - n <= i /\ i < b) \/ (Key(m, w) <= i /\ i < Hi(m, w))
    BY <1>1, <1>5, <2>2
  <2>4. Moved(m, g, v, w, b - n, b, type)
    BY <1>5, <2>1, <2>2, <2>3 DEF Moved
  <2>5. TakenTypes(m, g, b - n, b, type, p)
    BY <2>4, MovedTypes
  <2> QED BY <2>5 DEF g
<1>6. ASSUME NEW s \in Slot, n < m.entry[v].size, s \notin m.tree, Clear(m, v, a, a + n)
      PROVE  TakenTypes(m, TakeNew(m, v, n, type, s), a, a + n, type, p)
  <2> DEFINE g == TakeNew(m, v, n, type, s)
  <2>1. /\ g.tree = m.tree \cup {s}
        /\ \A t \in m.tree \ {v} : g.entry[t] = m.entry[t]
        /\ Is(g, s, Key(m, v), Key(m, v) + n, type)
        /\ Is(g, v, Key(m, v) + n, Hi(m, v), Ty(m, v))
    BY <1>6, TakeNewIs
  <2> HIDE DEF g
  <2>2. /\ Key(g, s) = a /\ Hi(g, s) = a + n /\ Ty(g, s) = type /\ s # v
        /\ Key(g, v) = a + n /\ Hi(g, v) = b /\ Ty(g, v) = Ty(m, v)
    BY <1>1, <1>6, <2>1 DEF Is
  <2>3. ASSUME NEW i \in Int
        PROVE  /\ Key(g, v) <= i /\ i < Hi(g, v)
                    <=> Key(m, v) <= i /\ i < Hi(m, v) /\ ~(a <= i /\ i < a + n)
               /\ Key(g, s) <= i /\ i < Hi(g, s) <=> a <= i /\ i < a + n
    BY <1>1, <1>6, <2>2
  <2>4. Moved(m, g, v, s, a, a + n, type)
    BY <1>6, <2>1, <2>2, <2>3 DEF Moved
  <2>5. TakenTypes(m, g, a, a + n, type, p)
    BY <2>4, MovedTypes
  <2> QED BY <2>5 DEF g
<1>7. \A s \in Slot :
        /\ n < m.entry[v].size /\ s \notin m.tree /\ Clear(m, v, a, a + n)
        => TakenTypes(m, TakeNew(m, v, n, type, s), a, a + n, type, p)
  BY <1>6
<1> QED BY <1>1, <1>3, <1>4, <1>5, <1>7, Zenon

(* mmap_alloc_entry takes a conventional page for slots, or no page.       *)
LEMMA SlotTypes ==
  ASSUME NEW m, GoodMap(m), AllocFault(m) = "ok", NEW p \in Int
  PROVE  /\ PageTakenOrNot(m, AllocEntry(m), p)
         /\ ~Empty(m) => Types(AllocEntry(m), p) = Types(m, p)
         /\ Empty(m) => TakenTypes(m, AllocEntry(m), ScavengedPage(m),
                                   ScavengedPage(m) + PageSize, "loader_data", p)
<1>1. CASE ~Empty(m)
  <2>1. AllocEntry(m).tree = m.tree /\ AllocEntry(m).entry = m.entry
    BY <1>1, AllocTree
  <2>2. Types(AllocEntry(m), p) = Types(m, p)
    BY <2>1 DEF Types, Covering, Key, Ty
  <2> QED BY <1>1, <2>2 DEF PageTakenOrNot
<1>2. CASE Empty(m)
  <2> DEFINE v == Victim(m, 0)
             page == ScavengedPage(m)
             way == Way(m, v, PageSize, "loader_data")
             new == <<page, 0>>
             g == PageTaken(m)
             f == AllocEntry(m)
  <2>1. /\ v \in m.tree /\ page \in Int /\ Ty(m, v) = "conventional"
        /\ page = IF way = "last" THEN Hi(m, v) - PageSize ELSE Key(m, v)
        /\ Clear(m, v, page, page + PageSize)
        /\ Key(m, v) + PageSize <= Hi(m, v)
        /\ m.entry[v].size = PageSize <=> Key(m, v) + PageSize = Hi(m, v)
    BY <1>2, PageFree
  <2>2. /\ new \in Slot /\ new \notin m.tree
        /\ f.tree = g.tree /\ f.entry = g.entry
    BY <1>2, ScavengeGood, AllocTree DEF Used
  <2>4. g = Took(m, v, way, new)
    BY DEF PageTaken
  <2>5. "loader_data" \in Type /\ PageSize \in Nat /\ 0 < PageSize
    BY PageSizeIs DEF Type
  <2>6. /\ way \in {"whole", "first", "last", "new"}
        /\ way = "whole" <=> m.entry[v].size = PageSize
        /\ way = "first" => PrevJoins(m, v, "loader_data")
        /\ way = "last" => NextJoins(m, v, "loader_data")
    BY WayIs
  <2> HIDE DEF v, page, way, new, g, f
  <2>7. PICK a \in Int, b \in Int : a = Key(m, v) /\ b = Hi(m, v) /\ m.entry[v].size = b - a
    BY <2>1, Extent
  <2>8. /\ way # "whole" => PageSize < m.entry[v].size
        /\ way = "last" => page + PageSize = b /\ page = b - PageSize
        /\ way # "last" => page = a
        /\ a <= page /\ page + PageSize <= b /\ page + PageSize \in Int
    BY <2>1, <2>5, <2>6, <2>7
  <2>9. /\ way = "whole" => g = TakeWhole(m, v, "loader_data")
        /\ way = "first" => g = TakeFirst(m, v, PageSize)
        /\ way = "last" => g = TakeLast(m, v, PageSize)
        /\ way = "new" => g = TakeNew(m, v, PageSize, "loader_data", new)
    BY <2>4 DEF Took
  <2>10. TakenTypes(m, g, page, page + PageSize, "loader_data", p)
    <3>1. CASE way = "whole"
      BY <2>1, <2>5, <2>6, <2>7, <2>8, <2>9, <3>1, TakeTypes
    <3>2. CASE way = "first"
      BY <2>1, <2>5, <2>6, <2>7, <2>8, <2>9, <3>2, TakeTypes
    <3>3. CASE way = "last"
      BY <2>1, <2>5, <2>6, <2>7, <2>8, <2>9, <3>3, TakeTypes
    <3>4. CASE way = "new"
      BY <2>1, <2>2, <2>5, <2>7, <2>8, <2>9, <3>4, TakeTypes
    <3> QED BY <2>6, <3>1, <3>2, <3>3, <3>4
  <2>11. Types(f, p) = Types(g, p)
    BY <2>2 DEF Types, Covering, Key, Ty
  <2>12. TakenTypes(m, f, page, page + PageSize, "loader_data", p)
    BY <2>10, <2>11 DEF TakenTypes
  <2>13. page <= p /\ p < page + PageSize => Types(m, p) = {"conventional"}
    BY <2>1, <2>7, <2>8, ClearTypes
  <2>14. PageTakenOrNot(m, f, p)
    BY <2>12, <2>13 DEF TakenTypes, PageTakenOrNot
  <2> QED BY <1>2, <2>12, <2>14 DEF f, page
<1> QED BY <1>1, <1>2

-----------------------------------------------------------------------------
(***************************************************************************)
(* Pages and requests.                                                     *)
(***************************************************************************)
LEMMA PageNumber == ASSUME NEW p \in PageAddr PROVE p \in Nat /\ p % 4096 = 0 /\ p < Top
<1>1. PICK k \in 0 .. NumPages - 1 : p = k * 4096
  BY DEF PageAddr, PageSize
<1>2. k \in Nat /\ k < NumPages /\ NumPages \in Nat
  BY PagesAssumption
<1>3. k * 4096 \in Nat /\ (k * 4096) % 4096 = 0 /\ k * 4096 < NumPages * 4096
  BY <1>2
<1> QED BY <1>1, <1>3 DEF Top, PageSize

(* Whole pages: every page is asked for as it is, or not at all.           *)
LEMMA AskedWhole ==
  ASSUME NEW e \in Entry, e.start \in Nat, e.size \in Nat, Aligned(e.start), Aligned(e.size),
         NEW p \in PageAddr
  PROVE  Asked(e, p) = IF e.start <= p /\ p < End(e) THEN {e.type} ELSE {}
<1>1. PICK a \in Nat, n \in Nat : /\ a = e.start /\ n = e.size /\ End(e) = a + n
                                  /\ a % 4096 = 0 /\ n % 4096 = 0
  BY DEF End, Aligned, PageSize
<1>2. p \in Nat /\ p % 4096 = 0
  BY PageNumber
<1>3. /\ a < p + 4096 <=> a <= p
      /\ p < a + n <=> p + 4096 <= a + n
  <2>1. (a + n) % 4096 = 0
    BY <1>1
  <2> QED BY <1>1, <1>2, <2>1
<1>4. ASSUME a <= p, p < a + n PROVE n > 0
  <2>1. p \in Int
    BY <1>2
  <2> QED BY <1>4, <2>1
<1>5. Part(e, p) <=> a <= p /\ p < a + n
  BY <1>1, <1>3, <1>4 DEF Part, PageSize
<1>6. Full(e, p) <=> a <= p /\ p < a + n
  BY <1>1, <1>3 DEF Full, PageSize
<1>7. e.start <= p /\ p < End(e) <=> Part(e, p)
  BY <1>1, <1>5
<1>8. Part(e, p) => Full(e, p)
  BY <1>5, <1>6
<1> QED BY <1>7, <1>8, Zenon DEF Asked, Given

(* The parts of a range that starts, or ends, inside a page.               *)
LEMMA AskedStart ==
  ASSUME NEW e, GoodArg(e), e.size # 0, ~Aligned(e.start), NEW p \in PageAddr
  PROVE  LET head == e.start % PageSize
             page == Unusable(e.start - head)
             rest == DropFirst(e, PageSize - head)
         IN Asked(e, p) = Asked(page, p) \cup IF rest.size > 0 THEN Asked(rest, p) ELSE {}
<1> DEFINE head == e.start % PageSize
           page == Unusable(e.start - head)
           rest == DropFirst(e, PageSize - head)
<1>1. PICK a \in Nat, n \in Nat : a = e.start /\ n = e.size /\ n > 0 /\ a % 4096 # 0
                                  /\ End(e) = a + n
  BY DEF GoodArg, Entry, End, Aligned, PageSize
<1> DEFINE k == a % 4096
           b == a - k
<1>2. k \in 1 .. 4095 /\ b \in Nat /\ k = a % 4096 /\ b = a - k /\ b % 4096 = 0
  <2>1. a % 4096 \in 0 .. 4095 /\ a - (a % 4096) \in Nat
    OBVIOUS
  <2>2. (a - (a % 4096)) % 4096 = 0
    OBVIOUS
  <2>3. a % 4096 # 0
    BY <1>1
  <2>4. a % 4096 \in 1 .. 4095
    BY <2>1, <2>3
  <2> QED BY <2>1, <2>2, <2>4
<1>c. k \in Int /\ 0 < k /\ k < 4096 /\ b \in Nat /\ b = a - k
  <2>1. \A z \in 1 .. 4095 : z \in Int /\ 0 < z /\ z < 4096
    OBVIOUS
  <2> HIDE DEF k, b
  <2> QED BY <1>2, <2>1
<1>d. e.start = a /\ e.size = n /\ n > 0 /\ End(e) = a + n
  BY <1>1
<1>h. head = k
  BY <1>1 DEF PageSize
<1> HIDE DEF k, b
<1>3. /\ page.start = b /\ End(page) = b + 4096 /\ page.size = 4096 /\ page.type = "unusable"
      /\ rest.start = b + 4096 /\ rest.size = a + n - (b + 4096) /\ End(rest) = a + n
      /\ rest.type = e.type
  <2>2. e.start - head = b
    BY <1>c, <1>d, <1>h
  <2>3. /\ a + (4096 - k) = b + 4096 /\ n - (4096 - k) = a + n - (b + 4096)
        /\ (b + 4096) + (a + n - (b + 4096)) = a + n
    BY <1>c
  <2> QED BY <1>d, <1>h, <2>2, <2>3 DEF Unusable, Region, End, DropFirst, PageSize
<1>g. SUFFICES Asked(e, p) = Asked(page, p) \cup IF rest.size > 0 THEN Asked(rest, p) ELSE {}
  OBVIOUS
<1> HIDE DEF page, rest
<1>4. p \in Nat /\ p % 4096 = 0
  BY PageNumber
<1>5. p + 4096 <= b \/ p = b \/ b + 4096 <= p
  BY <1>2, <1>4
<1>b. /\ b \in Nat /\ b < a /\ a < b + 4096 /\ n > 0 /\ e.start = a /\ e.size = n
      /\ End(e) = a + n /\ p \in Nat
  <2>1. b < a /\ a < b + 4096
    BY <1>c
  <2> QED BY <1>c, <1>d, <1>4, <2>1
<1>6. CASE p + 4096 <= b
  <2>2. ~Part(e, p) /\ ~Part(page, p) /\ ~Part(rest, p)
    BY <1>3, <1>b, <1>6 DEF Part, PageSize
  <2> QED BY <2>2 DEF Asked
<1>7. CASE p = b
  <2>1. Part(e, p) /\ ~Full(e, p) /\ Part(page, p) /\ Full(page, p) /\ ~Part(rest, p)
    BY <1>3, <1>b, <1>7 DEF Part, Full, PageSize
  <2> QED BY <1>3, <2>1 DEF Asked, Given
<1>8. CASE b + 4096 <= p
  <2>1. ~Part(page, p)
    BY <1>3, <1>b, <1>8 DEF Part, PageSize
  <2>2. /\ Part(e, p) <=> p < a + n
        /\ Full(e, p) <=> p + 4096 <= a + n
    BY <1>3, <1>b, <1>8 DEF Part, Full, PageSize
  <2>3. /\ Part(rest, p) /\ rest.size > 0 <=> p < a + n
        /\ Full(rest, p) <=> p + 4096 <= a + n
    BY <1>3, <1>b, <1>8 DEF Part, Full, PageSize
  <2> QED BY <1>3, <2>1, <2>2, <2>3 DEF Asked, Given
<1> QED BY <1>5, <1>6, <1>7, <1>8

LEMMA AskedEnd ==
  ASSUME NEW e, GoodArg(e), Aligned(e.start), ~Aligned(e.size), NEW p \in PageAddr
  PROVE  LET tail == e.size % PageSize
             page == Unusable(End(e) - tail)
             rest == DropLast(e, tail)
         IN Asked(e, p) = Asked(page, p) \cup IF rest.size > 0 THEN Asked(rest, p) ELSE {}
<1> DEFINE tail == e.size % PageSize
           page == Unusable(End(e) - tail)
           rest == DropLast(e, tail)
<1>1. PICK a \in Nat, n \in Nat : a = e.start /\ n = e.size /\ n % 4096 # 0 /\ a % 4096 = 0
                                  /\ End(e) = a + n
  BY DEF GoodArg, Entry, End, Aligned, PageSize
<1> DEFINE k == n % 4096
           j == n - k
<1>2. k \in 1 .. 4095 /\ j \in Nat /\ k = n % 4096 /\ j = n - k /\ j % 4096 = 0
  <2>1. n % 4096 \in 0 .. 4095 /\ n - (n % 4096) \in Nat
    OBVIOUS
  <2>2. (n - (n % 4096)) % 4096 = 0
    OBVIOUS
  <2>3. n % 4096 # 0
    BY <1>1
  <2>4. n % 4096 \in 1 .. 4095
    BY <2>1, <2>3
  <2> QED BY <2>1, <2>2, <2>4
<1>c. k \in Int /\ 0 < k /\ k < 4096 /\ j \in Nat /\ j = n - k
  <2>1. \A z \in 1 .. 4095 : z \in Int /\ 0 < z /\ z < 4096
    OBVIOUS
  <2> HIDE DEF k, j
  <2> QED BY <1>2, <2>1
<1>d. e.start = a /\ e.size = n /\ End(e) = a + n
  BY <1>1
<1>h. tail = k
  BY <1>1 DEF PageSize
<1> HIDE DEF k, j
<1>l. n - k = j /\ (a + n) - k = a + j /\ a + n = (a + j) + k
  BY <1>c
<1>3. /\ page.start = a + j /\ End(page) = a + j + 4096 /\ page.size = 4096
      /\ page.type = "unusable"
      /\ rest.start = a /\ rest.size = j /\ End(rest) = a + j /\ rest.type = e.type
  <2>2. End(e) - tail = a + j
    BY <1>d, <1>h, <1>l
  <2> QED BY <1>d, <1>h, <1>l, <2>2 DEF Unusable, Region, End, DropLast, PageSize
<1>g. SUFFICES Asked(e, p) = Asked(page, p) \cup IF rest.size > 0 THEN Asked(rest, p) ELSE {}
  OBVIOUS
<1> HIDE DEF page, rest
<1>4. p \in Nat /\ p % 4096 = 0
  BY PageNumber
<1>5. PICK b \in Nat : b = a + j /\ b % 4096 = 0 /\ a + n = b + k
  <2>1. (a + j) % 4096 = 0
    <3>1. PICK y \in Nat : y = j /\ y % 4096 = 0
      BY <1>2
    <3>2. (a + y) % 4096 = 0
      BY <1>1, <3>1
    <3> QED BY <3>1, <3>2
  <2>2. a + j \in Nat
    BY <1>2
  <2> QED BY <1>l, <2>1, <2>2
<1>b. /\ j \in Nat /\ k > 0 /\ k < 4096 /\ n = j + k /\ k \in Int /\ e.start = a /\ e.size = n
      /\ End(e) = b + k /\ p \in Nat /\ b = a + j
      /\ page.start = b /\ End(page) = b + 4096 /\ End(rest) = b
  <2>1. n = j + k
    BY <1>c
  <2> QED BY <1>c, <1>d, <1>l, <1>3, <1>4, <1>5, <2>1
<1>6. p + 4096 <= b \/ p = b \/ b + 4096 <= p
  BY <1>4, <1>5
<1>7. CASE p + 4096 <= b
  <2>1. ~Part(page, p)
    BY <1>3, <1>b, <1>7 DEF Part, PageSize
  <2>2. /\ Part(e, p) <=> a < p + 4096
        /\ Full(e, p) <=> a <= p
    BY <1>3, <1>b, <1>7 DEF Part, Full, PageSize
  <2>3. /\ Part(rest, p) /\ rest.size > 0 <=> a < p + 4096
        /\ Full(rest, p) <=> a <= p
    BY <1>3, <1>b, <1>7 DEF Part, Full, PageSize
  <2> QED BY <1>3, <2>1, <2>2, <2>3 DEF Asked, Given
<1>8. CASE p = b
  <2>1. Part(e, p) /\ ~Full(e, p) /\ Part(page, p) /\ Full(page, p) /\ ~Part(rest, p)
    BY <1>3, <1>b, <1>8 DEF Part, Full, PageSize
  <2> QED BY <1>3, <2>1 DEF Asked, Given
<1>9. CASE b + 4096 <= p
  <2>2. ~Part(e, p) /\ ~Part(page, p) /\ ~Part(rest, p)
    BY <1>3, <1>b, <1>9 DEF Part, PageSize
  <2> QED BY <2>2 DEF Asked
<1> QED BY <1>6, <1>7, <1>8, <1>9

-----------------------------------------------------------------------------
(***************************************************************************)
(* The steps of a call, for one page.                                      *)
(***************************************************************************)
LEMMA SelfDominates ==
  ASSUME NEW rk, IsRank(rk), NEW S \in SUBSET Type PROVE Dominates(rk, S, S)
<1>1. \A t \in S : rk[t] <= rk[t]
  BY Ranks
<1> QED BY <1>1 DEF Dominates

LEMMA NoAdds ==
  ASSUME NEW q \in Seq(Pending), \A i \in 1 .. Len(q) : q[i].op # "add", NEW rk, NEW e, NEW p
  PROVE  Pends(q, p) = {} /\ LowerReady(rk, q, e, p)
<1>1. \A i \in 1 .. Len(q) : AskedBy(q[i], p) = {}
  BY DEF AskedBy
<1>2. \A i \in 2 .. Len(q) : i \in 1 .. Len(q)
  BY EmptySeq
<1> QED BY <1>1, <1>2 DEF Pends, LowerReady

(* The call at the top is about no page, and leaves the page as it is.     *)
LEMMA PageKept ==
  ASSUME NEW rk, NEW m, NEW st, NEW old, NEW e, NEW p, Going(rk, m, st, old, e, p),
         NEW g, Types(g, p) = Types(m, p), AskedBy(st[1], p) = {}
  PROVE  PageGoes(rk, m, st, g, Replaced(st, <<>>), old, e, p)
<1> DEFINE q == <<>>
<1>1. q \in Seq(Pending) /\ \A i \in 1 .. Len(q) : q[i].op # "add"
  OBVIOUS
<1>2. TopPage(rk, old, g, q, e, p)
  BY DEF TopPage
<1> HIDE DEF q
<1>3. Pends(q, p) = {} /\ LowerReady(rk, q, e, p)
  BY <1>1, NoAdds
<1>4. Types(m, p) \subseteq Type /\ IsRank(rk)
  BY TypesType DEF Going, Asking
<1>5. Improves(rk, m, st, g, q, p)
  BY <1>3, <1>4, SelfDominates DEF Improves
<1>6. PageGoes(rk, m, st, g, Replaced(st, q), old, e, p)
  BY <1>1, <1>2, <1>3, <1>5, PageOnward
<1> QED BY <1>6 DEF q

(* A range that is not whole pages is split.                               *)
LEMMA PageSplit ==
  ASSUME NEW rk, NEW m, NEW st, NEW old, NEW e, NEW p, Going(rk, m, st, old, e, p),
         st[1].op = "add", ~(Aligned(st[1].arg.start) /\ Aligned(st[1].arg.size)),
         NEW a, NEW b, NEW q \in Seq(Pending),
         q = IF b.size > 0 THEN <<AddCall(a), AddCall(b)>> ELSE <<AddCall(a)>>,
         Asked(st[1].arg, p) = Asked(a, p) \cup IF b.size > 0 THEN Asked(b, p) ELSE {}
  PROVE  PageGoes(rk, m, st, m, Replaced(st, q), old, e, p)
<1>1. /\ AskedBy(st[1], p) \subseteq Asked(e, p) /\ AskedBy(st[1], p) = Asked(st[1].arg, p)
      /\ rk = Rank
  BY DEF Going, PageOk, TopPage, AddReady, AskedBy
<1>2. /\ Pends(q, p) = AskedBy(st[1], p) /\ q # <<>> /\ q[1].op = "add" /\ q[1].arg = a
      /\ \A i \in 2 .. Len(q) : AskedBy(q[i], p) \subseteq AskedBy(st[1], p)
  <2>1. CASE b.size > 0
    <3>1. /\ Len(q) = 2 /\ q[1] = AddCall(a) /\ q[2] = AddCall(b) /\ q # <<>>
      BY <2>1
    <3>2. AskedBy(q[1], p) = Asked(a, p) /\ AskedBy(q[2], p) = Asked(b, p)
      BY <3>1 DEF AskedBy, AddCall
    <3>3. 1 .. 2 = {1, 2} /\ 2 .. 2 = {2}
      OBVIOUS
    <3>4. Pends(q, p) = Asked(a, p) \cup Asked(b, p)
      BY <3>1, <3>2, <3>3 DEF Pends
    <3> QED BY <1>1, <2>1, <3>1, <3>2, <3>3, <3>4 DEF AddCall
  <2>2. CASE ~(b.size > 0)
    <3>1. /\ Len(q) = 1 /\ q[1] = AddCall(a) /\ q # <<>>
      BY <2>2
    <3>2. AskedBy(q[1], p) = Asked(a, p)
      BY <3>1 DEF AskedBy, AddCall
    <3>3. 1 .. 1 = {1} /\ 2 .. 1 = {}
      OBVIOUS
    <3>4. Pends(q, p) = Asked(a, p)
      BY <3>1, <3>2, <3>3 DEF Pends
    <3> QED BY <1>1, <2>2, <3>1, <3>2, <3>3, <3>4 DEF AddCall
  <2> QED BY <2>1, <2>2
<1>3. LowerReady(rk, q, e, p)
  BY <1>1, <1>2 DEF LowerReady
<1>4. Asked(a, p) \subseteq Asked(e, p)
  BY <1>1
<1>5. AddReady(rk, old, m, q[1].arg, e, p)
  BY <1>1, <1>2, <1>4 DEF AddReady, Returning
<1>6. TopPage(rk, old, m, q, e, p)
  BY <1>2, <1>5 DEF TopPage
<1>7. Improves(rk, m, st, m, q, p)
  <2>1. Types(m, p) \cup AskedBy(st[1], p) \subseteq Type /\ IsRank(rk)
    BY TypesType, PendsAre DEF Going, Asking
  <2> QED BY <1>2, <2>1, SelfDominates DEF Improves
<1> QED BY <1>3, <1>6, <1>7, PageOnward

(* A new entry is inserted.                                                *)
LEMMA InsertedTypes ==
  ASSUME NEW g, NEW h, NEW s, s \notin g.tree, h.tree = g.tree \cup {s},
         \A t \in g.tree : h.entry[t] = g.entry[t], NEW p
  PROVE  /\ Types(h, p) = Types(g, p) \cup IF Key(h, s) <= p /\ p < Hi(h, s) THEN {Ty(h, s)} ELSE {}
         /\ \A t \in Covering(h, p) \ {s} : t \in Covering(g, p)
<1>1. \A t \in g.tree : Key(h, t) = Key(g, t) /\ Hi(h, t) = Hi(g, t) /\ Ty(h, t) = Ty(g, t)
  BY DEF Key, Hi, Ty
<1>2. \A t \in g.tree : t \in Covering(h, p) <=> t \in Covering(g, p)
  BY <1>1, CoverIs
<1>3. s \in Covering(h, p) <=> Key(h, s) <= p /\ p < Hi(h, s)
  BY CoverIs
<1>4. Covering(h, p) \subseteq g.tree \cup {s} /\ Covering(g, p) \subseteq g.tree
  BY CoverIs
<1> QED BY <1>1, <1>2, <1>3, <1>4, CoverIs

LEMMA PageInserted ==
  ASSUME NEW rk, NEW g, NEW st, NEW old, NEW e, NEW p, Going(rk, g, st, old, e, p),
         st[1].op = "add", NEW A, A = st[1].arg, GoodEntry(A), NEW h, NEW s, s \notin g.tree,
         InsertedIn(g, h, s, A), NEW q \in Seq(Pending), q # <<>>,
         \A i \in 1 .. Len(q) : q[i].op # "add", q[1].op = "fix", q[1].slot = s
  PROVE  PageGoes(rk, g, st, h, Replaced(st, q), old, e, p)
<1>0. GoodMap(g) /\ p \in PageAddr /\ IsRank(rk) /\ st \in Seq(Pending) /\ st # <<>>
  BY DEF Going, Asking
<1>1. Pends(q, p) = {} /\ LowerReady(rk, q, e, p)
  BY NoAdds
<1>2. /\ A \in Entry /\ A.start \in Nat /\ A.size \in Nat /\ Aligned(A.start) /\ Aligned(A.size)
  BY GoodIs
<1>3. AskedBy(st[1], p) = IF A.start <= p /\ p < End(A) THEN {A.type} ELSE {}
  BY <1>0, <1>2, AskedWhole DEF AskedBy
<1>4. Is(h, s, A.start, End(A), A.type)
  BY DEF InsertedIn
<1>5. /\ Types(h, p) = Types(g, p) \cup IF Key(h, s) <= p /\ p < Hi(h, s) THEN {Ty(h, s)} ELSE {}
      /\ \A t \in Covering(h, p) \ {s} : t \in Covering(g, p)
  BY InsertedTypes DEF InsertedIn
<1>6. Types(h, p) = Types(g, p) \cup AskedBy(st[1], p)
  BY <1>3, <1>4, <1>5 DEF Is
<1>7. Improves(rk, g, st, h, q, p)
  <2>1. Types(g, p) \cup AskedBy(st[1], p) \subseteq Type
    BY <1>0, TypesType, PendsAre
  <2> QED BY <1>0, <1>1, <1>6, <2>1, SelfDominates DEF Improves
<1>8. ASSUME NEW t \in Covering(h, p), Meets(h, s, t), p < Hi(h, s)
      PROVE  Ty(h, s) \in Asked(e, p) /\ (Returning(rk, old) => Ty(h, t) # "conventional")
  <2>1. /\ Key(h, s) < Key(h, t) /\ Key(h, t) <= p /\ t # s
        /\ Key(h, s) \in Int /\ Key(h, t) \in Int /\ p \in Int
    <3>1. Key(h, s) < Key(h, t) /\ Key(h, t) <= p
      BY <1>8, CoverIs DEF Meets
    <3>2. Key(h, s) \in Int /\ p \in Int
      BY <1>0, <1>2, <1>4, PageNumber DEF Is
    <3>3. t # s
      BY <3>1, <3>2
    <3>4. Key(h, t) \in Int
      <4>1. t \in g.tree /\ h.entry[t] = g.entry[t]
        BY <1>8, <3>3, CoverIs DEF InsertedIn
      <4> QED BY <1>0, <4>1, Extents DEF Key
    <3> QED BY <3>1, <3>2, <3>3, <3>4
  <2>2. Key(h, s) <= p
    BY <2>1
  <2>3. AskedBy(st[1], p) = {Ty(h, s)}
    BY <1>3, <1>4, <1>8, <2>2 DEF Is
  <2>4. Ty(h, t) \in Types(g, p)
    <3>1. t \in Covering(g, p) /\ t \in g.tree
      BY <1>5, <1>8, <2>1, CoverIs
    <3>2. Ty(h, t) = Ty(g, t)
      BY <3>1 DEF InsertedIn, Ty
    <3> QED BY <3>1, <3>2 DEF Types
  <2>5. /\ AskedBy(st[1], p) \subseteq Asked(e, p)
        /\ Returning(rk, old) => "conventional" \notin Types(g, p)
    BY <2>3, <2>4 DEF Going, PageOk, TopPage, AddReady, AskedBy
  <2> QED BY <2>3, <2>4, <2>5
<1>9. TopPage(rk, old, h, q, e, p)
  BY <1>8 DEF TopPage, FixReady
<1> QED BY <1>1, <1>7, <1>9, PageOnward

(* Two types of a page are replaced by the higher of them.                 *)
LEMMA HigherDominates ==
  ASSUME NEW rk, IsRank(rk), NEW a \in Type, NEW b \in Type
  PROVE  Dominates(rk, {a} \cup {b}, {Higher(rk, a, b)} \cup {})
<1>1. /\ Higher(rk, a, b) \in {a, b}
      /\ rk[Higher(rk, a, b)] <= rk[a] /\ rk[Higher(rk, a, b)] <= rk[b]
  BY HigherIs
<1> QED BY <1>1 DEF Dominates

(* The range A is added over the entry o, which starts at the same page    *)
(* and overlaps no other entry.                                            *)
AddsOver(rk, g, st, A, o, s, q) ==
  /\ st[1].op = "add" /\ A = st[1].arg /\ GoodEntry(A)
  /\ o \in g.tree /\ Key(g, o) = A.start /\ Clear(g, o, Key(g, o), Hi(g, o))
  /\ s \in Slot /\ s \notin g.tree /\ q \in Seq(Pending)

LEMMA PageAddedOver ==
  ASSUME NEW rk, NEW g, NEW st, NEW old, NEW e, NEW p, Going(rk, g, st, old, e, p),
         NEW A, NEW o, NEW s, NEW q, AddsOver(rk, g, st, A, o, s, q), NEW h,
         AddedOver(g, h, s, o, A, Higher(rk, Ty(g, o), A.type), q)
  PROVE  PageGoes(rk, g, st, h, Replaced(st, q), old, e, p)
<1> USE DEF AddsOver
<1> DEFINE type == Higher(rk, Ty(g, o), A.type)
<1>0. GoodMap(g) /\ p \in PageAddr /\ IsRank(rk) /\ st \in Seq(Pending) /\ st # <<>> /\ p \in Int
  BY PageNumber DEF Going, Asking
<1>1. /\ A \in Entry /\ A.start \in Nat /\ A.size \in Nat /\ Aligned(A.start) /\ Aligned(A.size)
      /\ A.type \in Type
  BY GoodIs
<1>2. AskedBy(st[1], p) = IF A.start <= p /\ p < End(A) THEN {A.type} ELSE {}
  BY <1>0, <1>1, AskedWhole DEF AskedBy
<1>3. PICK a \in Int, b \in Int, c \in Int :
         a = Key(g, o) /\ b = Hi(g, o) /\ c = End(A) /\ a = A.start /\ a < b /\ a < c
  <2>1. Key(g, o) \in Int /\ Hi(g, o) \in Int /\ Key(g, o) < Hi(g, o)
    BY <1>0, Extents
  <2>2. End(A) \in Int /\ A.start < End(A)
    <3>1. PICK i \in Nat, j \in Nat : i = A.start /\ j = A.size /\ j > 0 /\ End(A) = i + j
      BY GoodIs
    <3> QED BY <3>1
  <2> QED BY <2>1, <2>2
<1>4. Ty(g, o) \in Type /\ type \in Type
  <2>1. Ty(g, o) \in Type
    BY <1>0, Extent
  <2> QED BY <1>0, <1>1, <2>1, HigherIs
<1>5. Types(g, p) \subseteq Type /\ AskedBy(st[1], p) \subseteq Type
  BY <1>0, TypesType, PendsAre
<1>6. ASSUME a <= p, p < b PROVE Types(g, p) = {Ty(g, o)}
  <2>1. a <= a /\ b <= b
    BY <1>3
  <2> QED BY <1>0, <1>3, <1>6, <2>1, ClearTypes
<1> HIDE DEF type
<1>7. ASSUME Types(h, p) = IF a <= p /\ p < b /\ p < c THEN {type}
                           ELSE Types(g, p) \cup AskedBy(st[1], p),
             Pends(q, p) = {}
      PROVE  Improves(rk, g, st, h, q, p)
  <2>1. CASE a <= p /\ p < b /\ p < c
    <3>1. Types(g, p) = {Ty(g, o)} /\ AskedBy(st[1], p) = {A.type}
      BY <1>2, <1>3, <1>6, <2>1
    <3>2. Dominates(rk, {Ty(g, o)} \cup {A.type}, {type} \cup {})
      BY <1>0, <1>1, <1>4, HigherDominates DEF type
    <3> QED BY <1>7, <2>1, <3>1, <3>2 DEF Improves
  <2>2. CASE ~(a <= p /\ p < b /\ p < c)
    <3>1. Types(g, p) \cup AskedBy(st[1], p) \subseteq Type
      BY <1>5
    <3>2. Types(h, p) \cup Pends(q, p) = Types(g, p) \cup AskedBy(st[1], p)
      BY <1>7, <2>2
    <3> QED BY <1>0, <3>1, <3>2, SelfDominates DEF Improves
  <2> QED BY <2>1, <2>2
<1>8. ASSUME Improves(rk, g, st, h, q, p), \A i \in 1 .. Len(q) : q[i].op # "add",
             TopPage(rk, old, h, q, e, p)
      PROVE  PageGoes(rk, g, st, h, Replaced(st, q), old, e, p)
  <2>1. LowerReady(rk, q, e, p)
    BY <1>8, NoAdds
  <2> QED BY <1>8, <2>1, PageOnward
<1>9. CASE /\ Hi(g, o) = End(A) /\ h.tree = g.tree
           /\ \A t \in g.tree \ {o} : h.entry[t] = g.entry[t]
           /\ Is(h, o, Key(g, o), Hi(g, o), type)
           /\ q = <<MergeCall(o), BumpCall>>
  <2>1. q # <<>> /\ q[1].op = "merge" /\ \A i \in 1 .. Len(q) : q[i].op # "add"
    BY <1>9 DEF MergeCall, BumpCall
  <2>2. TopPage(rk, old, h, q, e, p)
    BY <2>1 DEF TopPage
  <2>3. Pends(q, p) = {}
    BY <2>1, NoAdds
  <2>4. TakenTypes(g, h, Key(g, o), Hi(g, o), type, p)
    BY <1>0, <1>9, RetypedTypes
  <2>5. Types(h, p) = IF a <= p /\ p < b /\ p < c THEN {type}
                      ELSE Types(g, p) \cup AskedBy(st[1], p)
    BY <1>2, <1>3, <1>9, <2>4 DEF TakenTypes
  <2> QED BY <1>7, <1>8, <2>1, <2>2, <2>3, <2>5
<1>10. CASE /\ End(A) < Hi(g, o) /\ h.tree = g.tree \cup {s}
            /\ \A t \in g.tree \ {o} : h.entry[t] = g.entry[t]
            /\ Is(h, s, Key(g, o), End(A), type) /\ Is(h, o, End(A), Hi(g, o), Ty(g, o))
            /\ q = <<MergeCall(s), BumpCall>>
  <2>1. q # <<>> /\ q[1].op = "merge" /\ \A i \in 1 .. Len(q) : q[i].op # "add"
    BY <1>10 DEF MergeCall, BumpCall
  <2>2. TopPage(rk, old, h, q, e, p)
    BY <2>1 DEF TopPage
  <2>3. Pends(q, p) = {}
    BY <2>1, NoAdds
  <2>4. Moved(g, h, o, s, a, c, type)
    <3>1. /\ Key(h, s) = a /\ Hi(h, s) = c /\ Ty(h, s) = type /\ s # o
          /\ Key(h, o) = c /\ Hi(h, o) = b /\ Ty(h, o) = Ty(g, o) /\ c < b
      BY <1>3, <1>10 DEF Is
    <3>2. ASSUME NEW i \in Int
          PROVE  /\ Key(h, o) <= i /\ i < Hi(h, o)
                      <=> Key(g, o) <= i /\ i < Hi(g, o) /\ ~(a <= i /\ i < c)
                 /\ Key(h, s) <= i /\ i < Hi(h, s) <=> a <= i /\ i < c
      BY <1>3, <3>1
    <3>3. Clear(g, o, a, c)
      <4>1. \A t \in g.tree : Key(g, t) \in Int /\ Hi(g, t) \in Int
        BY <1>0, Extents
      <4> QED BY <1>3, <3>1, <4>1 DEF Clear
    <3> QED BY <1>10, <3>1, <3>2, <3>3 DEF Moved
  <2>5. TakenTypes(g, h, a, c, type, p)
    BY <1>0, <2>4, MovedTypes
  <2>6. Types(h, p) = IF a <= p /\ p < b /\ p < c THEN {type}
                      ELSE Types(g, p) \cup AskedBy(st[1], p)
    <3>1. c < b /\ a = A.start /\ c = End(A)
      BY <1>3, <1>10
    <3>2. a <= p /\ p < b /\ p < c <=> a <= p /\ p < c
      BY <1>0, <1>3, <3>1
    <3>3. CASE a <= p /\ p < c
      BY <2>5, <3>2, <3>3 DEF TakenTypes
    <3>4. CASE ~(a <= p /\ p < c)
      <4>1. AskedBy(st[1], p) = {}
        BY <1>2, <3>1, <3>4
      <4>2. Types(h, p) = Types(g, p)
        BY <2>5, <3>4 DEF TakenTypes
      <4> QED BY <3>2, <3>4, <4>1, <4>2
    <3> QED BY <3>3, <3>4
  <2> QED BY <1>7, <1>8, <2>1, <2>2, <2>3, <2>6
<1>11. CASE /\ Hi(g, o) < End(A) /\ h.tree = g.tree \cup {s}
            /\ \A t \in g.tree \ {o} : h.entry[t] = g.entry[t]
            /\ Is(h, o, Key(g, o), Hi(g, o), type) /\ Is(h, s, Hi(g, o), End(A), A.type)
            /\ q = <<FixCall(s), MergeCall(s), BumpCall>>
  <2> DEFINE k == [entry |-> h.entry, tree |-> g.tree]
  <2>1. /\ q # <<>> /\ q[1].op = "fix" /\ q[1].slot = s
        /\ \A i \in 1 .. Len(q) : q[i].op # "add"
    BY <1>11 DEF FixCall, MergeCall, BumpCall
  <2>2. Pends(q, p) = {}
    BY <2>1, NoAdds
  <2>3. k.tree = g.tree /\ \A t : /\ k.entry[t] = h.entry[t] /\ Key(k, t) = Key(h, t)
                                  /\ Hi(k, t) = Hi(h, t) /\ Ty(k, t) = Ty(h, t)
    BY DEF Key, Hi, Ty
  <2> HIDE DEF k
  <2>4. Is(k, o, Key(g, o), Hi(g, o), type)
    BY <1>11, <2>3 DEF Is
  <2>5. TakenTypes(g, k, Key(g, o), Hi(g, o), type, p)
    BY <1>0, <1>11, <2>3, <2>4, RetypedTypes
  <2>6. /\ Types(h, p) = Types(k, p) \cup IF Key(h, s) <= p /\ p < Hi(h, s) THEN {Ty(h, s)} ELSE {}
        /\ \A t \in Covering(h, p) \ {s} : t \in Covering(k, p)
    BY <1>11, <2>3, InsertedTypes
  <2>7. Key(h, s) = b /\ Hi(h, s) = c /\ Ty(h, s) = A.type /\ b < c
    BY <1>3, <1>11 DEF Is
  <2>8. Types(h, p) = IF a <= p /\ p < b /\ p < c THEN {type}
                      ELSE Types(g, p) \cup AskedBy(st[1], p)
    <3>1. CASE a <= p /\ p < b
      BY <1>0, <1>3, <2>5, <2>6, <2>7, <3>1 DEF TakenTypes
    <3>2. CASE ~(a <= p /\ p < b)
      <4>1. b <= p /\ p < c <=> a <= p /\ p < c
        BY <1>0, <1>3, <3>2
      <4> QED BY <1>2, <1>3, <2>5, <2>6, <2>7, <3>2, <4>1 DEF TakenTypes
    <3> QED BY <3>1, <3>2
  <2>9. ASSUME NEW t \in Covering(h, p), Meets(h, s, t), p < Hi(h, s)
        PROVE  Ty(h, s) \in Asked(e, p) /\ (Returning(rk, old) => Ty(h, t) # "conventional")
    <3>1. Key(h, s) < Key(h, t) /\ Key(h, t) <= p /\ t \in h.tree
      BY <2>9, CoverIs DEF Meets
    <3>2. t # s
      BY <1>3, <2>7, <3>1
    <3>3. t \in g.tree /\ Key(h, t) = Key(g, t) /\ Hi(h, t) = Hi(g, t)
      <4>1. t \in g.tree
        BY <1>11, <3>1, <3>2
      <4>2. Key(h, o) = Key(g, o) /\ Hi(h, o) = Hi(g, o)
        BY <1>11 DEF Is
      <4> QED BY <1>11, <4>1, <4>2 DEF Key, Hi
    <3>4. Key(g, t) \in Int
      BY <1>0, <3>3, Extents
    <3>5. b <= p /\ p < c /\ a <= p
      BY <1>0, <1>3, <2>7, <2>9, <3>1, <3>3, <3>4
    <3>6. AskedBy(st[1], p) = {Ty(h, s)}
      BY <1>2, <1>3, <2>7, <3>5
    <3>7. t \in Covering(g, p)
      BY <2>9, <3>3, CoverIs
    <3>8. Ty(h, t) \in Types(g, p)
      <4>1. t # o
        BY <1>3, <2>7, <3>1, <3>3
      <4>2. Ty(h, t) = Ty(g, t)
        BY <1>11, <3>3, <4>1 DEF Ty
      <4> QED BY <3>7, <4>2, CoverIs
    <3>9. /\ AskedBy(st[1], p) \subseteq Asked(e, p)
          /\ Returning(rk, old) => "conventional" \notin Types(g, p)
      BY <3>6, <3>8 DEF Going, PageOk, TopPage, AddReady, AskedBy
    <3> QED BY <3>6, <3>8, <3>9
  <2>10. TopPage(rk, old, h, q, e, p)
    BY <2>1, <2>9 DEF TopPage, FixReady
  <2> QED BY <1>7, <1>8, <2>1, <2>2, <2>8, <2>10
<1> QED BY <1>9, <1>10, <1>11 DEF AddedOver, type

(* Two entries and the others: what each gives page p.                     *)
OnPage(m, t, p) == IF t \in m.tree /\ Key(m, t) <= p /\ p < Hi(m, t) THEN {Ty(m, t)} ELSE {}
Others(m, f, x, p) == {Ty(m, t) : t \in Covering(m, p) \ {f, x}}

LEMMA PairTypes ==
  ASSUME NEW m, NEW g, NEW f, NEW x, NEW p, g.tree \subseteq m.tree,
         \A t \in m.tree \ {f, x} : t \in g.tree /\ g.entry[t] = m.entry[t]
  PROVE  /\ Types(m, p) = Others(m, f, x, p) \cup (OnPage(m, f, p) \cup OnPage(m, x, p))
         /\ Types(g, p) = Others(m, f, x, p) \cup (OnPage(g, f, p) \cup OnPage(g, x, p))
<1>1. \A t \in m.tree \ {f, x} :
        Key(g, t) = Key(m, t) /\ Hi(g, t) = Hi(m, t) /\ Ty(g, t) = Ty(m, t) /\ t \in g.tree
  BY DEF Key, Hi, Ty
<1>2. \A t \in m.tree \ {f, x} : t \in Covering(g, p) <=> t \in Covering(m, p)
  BY <1>1, CoverIs
<1>3. Covering(m, p) \subseteq m.tree /\ Covering(g, p) \subseteq m.tree
  BY CoverIs
<1>4. \A t : OnPage(m, t, p) = IF t \in Covering(m, p) THEN {Ty(m, t)} ELSE {}
  BY CoverIs DEF OnPage
<1>5. \A t : OnPage(g, t, p) = IF t \in Covering(g, p) THEN {Ty(g, t)} ELSE {}
  BY CoverIs DEF OnPage
<1>6. \A u : u \in Others(m, f, x, p) <=> \E t \in Covering(m, p) \ {f, x} : u = Ty(m, t)
  BY DEF Others
<1>7. \A u : u \in Others(m, f, x, p) <=> \E t \in Covering(g, p) \ {f, x} : u = Ty(g, t)
  BY <1>1, <1>2, <1>3, <1>6
<1>8. ASSUME NEW u
      PROVE  u \in Types(m, p) <=> u \in Others(m, f, x, p) \cup (OnPage(m, f, p) \cup OnPage(m, x, p))
  BY <1>4, <1>6, CoverIs
<1>9. ASSUME NEW u
      PROVE  u \in Types(g, p) <=> u \in Others(m, f, x, p) \cup (OnPage(g, f, p) \cup OnPage(g, x, p))
  BY <1>5, <1>7, CoverIs
<1> QED BY <1>8, <1>9

LEMMA MoreDominates ==
  ASSUME NEW rk, IsRank(rk), NEW S, NEW R, Dominates(rk, S, R), NEW P \in SUBSET Type
  PROVE  Dominates(rk, P \cup S, P \cup R)
<1>1. \A t \in P : rk[t] <= rk[t]
  BY Ranks
<1> QED BY <1>1 DEF Dominates

(* fix_overlap of f and its successor x: the entry f is the request's on   *)
(* every page it shares with an entry other than x.                        *)
Overlap(rk, old, m, st, f, x, e, p) ==
  /\ ~Tied(m) /\ f \in m.tree /\ x \in m.tree /\ Key(m, f) < Key(m, x) /\ Key(m, x) < Hi(m, f)
  /\ Aside(m, st, f, x) /\ AskedBy(st[1], p) = {}
  /\ \A t \in Covering(m, p) \ {x} :
       Meets(m, f, t) /\ p < Hi(m, f) =>
         Ty(m, f) \in Asked(e, p) /\ (Returning(rk, old) => Ty(m, t) # "conventional")

LEMMA PageFixed ==
  ASSUME NEW rk, NEW m, NEW st, NEW old, NEW e, NEW p, Going(rk, m, st, old, e, p),
         NEW f, NEW x, Overlap(rk, old, m, st, f, x, e, p), NEW g, NEW q \in Seq(Pending),
         Fixed(m, g, f, x, Higher(rk, Ty(m, f), Ty(m, x)), q)
  PROVE  PageGoes(rk, m, st, g, Replaced(st, q), old, e, p)
<1> USE DEF Overlap
<1>0. GoodMap(m) /\ p \in PageAddr /\ IsRank(rk) /\ st \in Seq(Pending) /\ st # <<>> /\ p \in Int
  BY PageNumber DEF Going, Asking
<1> DEFINE high == Higher(rk, Ty(m, f), Ty(m, x))
           F == Ty(m, f)
           G == Ty(m, x)
           Q == Pends(q, p)
<1>1. F \in Type /\ G \in Type /\ f \in Slot /\ x \in Slot /\ m.tree \subseteq Slot
  BY <1>0, Extent
<1>2. PICK a \in Int, b \in Int, c \in Int, d \in Int :
        /\ a = Key(m, f) /\ b = Key(m, x) /\ c = Hi(m, f) /\ d = Hi(m, x)
        /\ a < b /\ b < c /\ b < d
  BY <1>0, Extents
<1>3. f # x
  BY <1>2
<1>4. high \in {F, G} /\ Dominates(rk, {F} \cup {G}, {high} \cup {})
  BY <1>0, <1>1, HigherIs, HigherDominates
<1>5. /\ OnPage(m, f, p) = IF a <= p /\ p < c THEN {F} ELSE {}
      /\ OnPage(m, x, p) = IF b <= p /\ p < d THEN {G} ELSE {}
  BY <1>2 DEF OnPage
<1>6. Others(m, f, x, p) \subseteq Type
  <2>1. Types(m, p) \subseteq Type
    BY <1>0, TypesType
  <2> QED BY <2>1 DEF Others, Types
<1>7. AskedBy(st[1], p) = {}
  OBVIOUS
<1> HIDE DEF F, G, high, Overlap, Q
(* What is left to show: the pages that both have go to the higher type.   *)
<1>8. ASSUME g.tree \subseteq m.tree,
             \A t \in m.tree \ {f, x} : t \in g.tree /\ g.entry[t] = m.entry[t],
             OnPage(g, f, p) \cup OnPage(g, x, p) \cup Q
               = IF b <= p /\ p < c /\ p < d THEN {high}
                 ELSE OnPage(m, f, p) \cup OnPage(m, x, p),
             LowerReady(rk, q, e, p), TopPage(rk, old, g, q, e, p)
      PROVE  PageGoes(rk, m, st, g, Replaced(st, q), old, e, p)
  <2> DEFINE S == OnPage(m, f, p) \cup OnPage(m, x, p)
             R == OnPage(g, f, p) \cup OnPage(g, x, p) \cup Q
             O == Others(m, f, x, p)
  <2>1. Dominates(rk, S, R)
    <3>1. CASE b <= p /\ p < c /\ p < d
      <4>1. a <= p
        BY <1>0, <1>2, <3>1
      <4>2. S = {F} \cup {G} /\ R = {high} \cup {}
        BY <1>5, <1>8, <3>1, <4>1
      <4> HIDE DEF S, R
      <4> QED BY <1>4, <4>2
    <3>2. CASE ~(b <= p /\ p < c /\ p < d)
      <4>1. S = R
        BY <1>8, <3>2
      <4>2. S \subseteq Type
        BY <1>1, <1>5
      <4> HIDE DEF S, R
      <4> QED BY <1>0, <4>1, <4>2, SelfDominates
    <3> QED BY <3>1, <3>2
  <2>2. Types(m, p) = O \cup S /\ Types(g, p) = O \cup (OnPage(g, f, p) \cup OnPage(g, x, p))
    BY <1>8, PairTypes
  <2>3. Types(m, p) \cup AskedBy(st[1], p) = O \cup S /\ Types(g, p) \cup Pends(q, p) = O \cup R
    BY <1>7, <2>2 DEF Q
  <2> HIDE DEF S, R, O
  <2>4. Dominates(rk, O \cup S, O \cup R)
    BY <1>0, <1>6, <2>1, MoreDominates DEF O
  <2>5. Improves(rk, m, st, g, q, p)
    BY <2>3, <2>4 DEF Improves
  <2> QED BY <1>8, <2>5, PageOnward
(* The cases that return.                                                  *)
<1>9. ASSUME q = <<>> PROVE Q = {} /\ LowerReady(rk, q, e, p) /\ TopPage(rk, old, g, q, e, p)
  <2>1. \A i \in 1 .. Len(q) : q[i].op # "add"
    BY <1>9
  <2> QED BY <1>9, <2>1, NoAdds DEF TopPage, Q
<1>10. ASSUME NEW type, CutFirst(m, g, f, x, type)
       PROVE  /\ g.tree \subseteq m.tree
              /\ \A t \in m.tree \ {f, x} : t \in g.tree /\ g.entry[t] = m.entry[t]
              /\ OnPage(g, f, p) = IF a <= p /\ p < b THEN {F} ELSE {}
              /\ OnPage(g, x, p) = IF b <= p /\ p < d THEN {type} ELSE {}
  <2>1. /\ g.tree = m.tree /\ \A t \in m.tree \ {f, x} : g.entry[t] = m.entry[t]
    BY <1>1, <1>10 DEF CutFirst, Elsewhere
  <2>2. /\ Key(g, f) = a /\ Hi(g, f) = b /\ Ty(g, f) = F
        /\ Key(g, x) = b /\ Hi(g, x) = d /\ Ty(g, x) = type /\ f \in g.tree /\ x \in g.tree
    BY <1>2, <1>10, <2>1 DEF CutFirst, F, Overlap
  <2> QED BY <2>1, <2>2 DEF OnPage
<1>11. CASE Hi(m, f) < Hi(m, x) /\ high = Ty(m, f) /\ CutSecond(m, g, f, x) /\ q = <<>>
  <2>1. /\ g.tree = m.tree /\ \A t \in m.tree \ {f, x} : g.entry[t] = m.entry[t]
        /\ g.entry[f] = m.entry[f] /\ f \in g.tree /\ x \in g.tree
    BY <1>1, <1>3, <1>11 DEF CutSecond, Elsewhere, Overlap
  <2>2. /\ Key(g, f) = a /\ Hi(g, f) = c /\ Ty(g, f) = F
    BY <1>2, <2>1 DEF F, Key, Hi, Ty
  <2>3. /\ Key(g, x) = c /\ Hi(g, x) = d /\ Ty(g, x) = G /\ high = F /\ c < d
    BY <1>2, <1>11 DEF F, G, CutSecond
  <2>4. /\ OnPage(g, f, p) = IF a <= p /\ p < c THEN {F} ELSE {}
        /\ OnPage(g, x, p) = IF c <= p /\ p < d THEN {G} ELSE {}
    BY <2>1, <2>2, <2>3 DEF OnPage
  <2>5. OnPage(g, f, p) \cup OnPage(g, x, p) \cup Q
               = IF b <= p /\ p < c /\ p < d THEN {high}
                 ELSE OnPage(m, f, p) \cup OnPage(m, x, p)
    BY <1>0, <1>2, <1>5, <1>9, <1>11, <2>3, <2>4
  <2> QED BY <1>8, <1>9, <1>11, <2>1, <2>5
<1>12. CASE Hi(m, f) < Hi(m, x) /\ high # Ty(m, f) /\ CutFirst(m, g, f, x, Ty(m, x)) /\ q = <<>>
  <2>1. high = G /\ c < d
    BY <1>2, <1>4, <1>12 DEF F
  <2>2. /\ OnPage(g, f, p) = IF a <= p /\ p < b THEN {F} ELSE {}
        /\ OnPage(g, x, p) = IF b <= p /\ p < d THEN {G} ELSE {}
    BY <1>10, <1>12 DEF G
  <2>3. OnPage(g, f, p) \cup OnPage(g, x, p) \cup Q
               = IF b <= p /\ p < c /\ p < d THEN {high}
                 ELSE OnPage(m, f, p) \cup OnPage(m, x, p)
    BY <1>0, <1>2, <1>5, <1>9, <1>12, <2>1, <2>2
  <2> QED BY <1>8, <1>9, <1>10, <1>12, <2>3
<1>13. CASE Hi(m, f) = Hi(m, x) /\ CutFirst(m, g, f, x, high) /\ q = <<>>
  <2>1. c = d
    BY <1>2, <1>13
  <2>2. /\ OnPage(g, f, p) = IF a <= p /\ p < b THEN {F} ELSE {}
        /\ OnPage(g, x, p) = IF b <= p /\ p < d THEN {high} ELSE {}
    BY <1>10, <1>13
  <2>3. OnPage(g, f, p) \cup OnPage(g, x, p) \cup Q
               = IF b <= p /\ p < c /\ p < d THEN {high}
                 ELSE OnPage(m, f, p) \cup OnPage(m, x, p)
    BY <1>0, <1>2, <1>5, <1>9, <1>13, <2>1, <2>2
  <2> QED BY <1>8, <1>9, <1>10, <1>13, <2>3
<1>14. CASE /\ Hi(m, f) > Hi(m, x) /\ high = Ty(m, f)
            /\ DropSecond(m, g, f, x) /\ q = <<FixCall(f)>>
  <2>1. g.tree = m.tree \ {x} /\ g.entry = m.entry /\ high = F /\ d < c
    BY <1>2, <1>14 DEF DropSecond, F
  <2>2. \A t : Key(g, t) = Key(m, t) /\ Hi(g, t) = Hi(m, t) /\ Ty(g, t) = Ty(m, t)
    BY <2>1 DEF Key, Hi, Ty
  <2>3. q # <<>> /\ q[1].op = "fix" /\ q[1].slot = f /\ \A i \in 1 .. Len(q) : q[i].op # "add"
    BY <1>14 DEF FixCall
  <2>4. Q = {} /\ LowerReady(rk, q, e, p)
    BY <2>3, NoAdds DEF Q
  <2>5. OnPage(g, f, p) = (IF a <= p /\ p < c THEN {F} ELSE {}) /\ OnPage(g, x, p) = {}
    <3>1. f \in g.tree /\ x \notin g.tree
      BY <1>3, <2>1 DEF Overlap
    <3>2. Key(g, f) = a /\ Hi(g, f) = c /\ Ty(g, f) = F
      BY <1>2, <2>2 DEF F
    <3> QED BY <3>1, <3>2 DEF OnPage
  <2>6. OnPage(g, f, p) \cup OnPage(g, x, p) \cup Q
               = IF b <= p /\ p < c /\ p < d THEN {high}
                 ELSE OnPage(m, f, p) \cup OnPage(m, x, p)
    <3>1. CASE b <= p /\ p < c /\ p < d
      <4>1. a <= p
        BY <1>0, <1>2, <3>1
      <4> QED BY <2>1, <2>4, <2>5, <3>1, <4>1
    <3>2. CASE ~(b <= p /\ p < c /\ p < d)
      <4>1. ~(b <= p /\ p < d)
        BY <1>0, <1>2, <2>1, <3>2
      <4> QED BY <1>5, <2>4, <2>5, <3>2, <4>1
    <3> QED BY <3>1, <3>2
  <2>7. FixReady(rk, old, g, f, e, p)
    <3>1. ASSUME NEW t \in Covering(g, p), Meets(g, f, t), p < Hi(g, f)
          PROVE  Ty(g, f) \in Asked(e, p) /\ (Returning(rk, old) => Ty(g, t) # "conventional")
      <4>1. t \in Covering(m, p) \ {x}
        BY <2>1, <2>2, CoverIs
      <4>2. Meets(m, f, t)
        BY <2>1, <2>2, <3>1 DEF Meets
      <4> QED BY <2>2, <3>1, <4>1, <4>2 DEF Overlap
    <3> QED BY <3>1 DEF FixReady
  <2>8. TopPage(rk, old, g, q, e, p)
    BY <2>3, <2>7 DEF TopPage
  <2> QED BY <1>8, <2>1, <2>4, <2>6, <2>8
<1>15. CASE /\ Hi(m, f) > Hi(m, x) /\ high # Ty(m, f)
            /\ CutFirst(m, g, f, x, Ty(m, x))
            /\ q = <<AddCall(Region(Hi(m, x), Hi(m, f) - Hi(m, x), Ty(m, f)))>>
  <2> DEFINE r == Region(Hi(m, x), Hi(m, f) - Hi(m, x), Ty(m, f))
  <2>1. high = G /\ d < c
    BY <1>2, <1>4, <1>15 DEF F
  <2>2. /\ OnPage(g, f, p) = IF a <= p /\ p < b THEN {F} ELSE {}
        /\ OnPage(g, x, p) = IF b <= p /\ p < d THEN {G} ELSE {}
    BY <1>10, <1>15 DEF G
  <2>3. /\ r \in Entry /\ r.start = d /\ r.size = c - d /\ r.type = F /\ End(r) = c
        /\ r.start \in Nat /\ r.size \in Nat /\ Aligned(r.start) /\ Aligned(r.size)
    <3>1. d \in Nat /\ d % 4096 = 0 /\ c % 4096 = 0
      BY <1>0, <1>2, Extent DEF Overlap
    <3>2. (c - d) % 4096 = 0 /\ c - d \in Nat /\ d + (c - d) = c
      BY <1>2, <2>1, <3>1
    <3> QED BY <1>1, <1>2, <3>1, <3>2 DEF Region, Entry, End, Aligned, PageSize, F
  <2>4. Asked(r, p) = IF d <= p /\ p < c THEN {F} ELSE {}
    <3> HIDE DEF r
    <3> QED BY <1>0, <2>3, AskedWhole
  <2> HIDE DEF r
  <2>5. Len(q) = 1 /\ q[1] = AddCall(r) /\ q # <<>>
    BY <1>15 DEF r
  <2>6. q[1].op = "add" /\ q[1].arg = r /\ AskedBy(q[1], p) = Asked(r, p)
    BY <2>5 DEF AddCall, AskedBy
  <2>7. Q = Asked(r, p) /\ LowerReady(rk, q, e, p)
    <3>1. 1 .. 1 = {1} /\ 2 .. 1 = {}
      OBVIOUS
    <3> QED BY <2>5, <2>6, <3>1 DEF Q, Pends, LowerReady
  <2>8. OnPage(g, f, p) \cup OnPage(g, x, p) \cup Q
               = IF b <= p /\ p < c /\ p < d THEN {high}
                 ELSE OnPage(m, f, p) \cup OnPage(m, x, p)
    BY <1>0, <1>2, <1>5, <2>1, <2>2, <2>4, <2>7
  <2>9. AddReady(rk, old, g, r, e, p)
    <3>1. SUFFICES ASSUME d <= p, p < c, NEW t \in Covering(g, p)
                   PROVE  F \in Asked(e, p) /\ (Returning(rk, old) => Ty(g, t) # "conventional")
      BY <2>3, <2>4, CoverIs DEF AddReady
    <3>2. t \in g.tree /\ Key(g, t) <= p /\ p < Hi(g, t)
      BY <3>1, CoverIs
    <3>3. /\ g.tree = m.tree /\ Hi(g, f) = b /\ Hi(g, x) = d
          /\ \A u \in m.tree \ {f, x} : g.entry[u] = m.entry[u]
      BY <1>1, <1>2, <1>15 DEF CutFirst, Elsewhere
    <3>4. t \in m.tree \ {f, x}
      BY <1>0, <1>2, <3>1, <3>2, <3>3
    <3>5. Key(m, t) <= p /\ p < Hi(m, t) /\ Ty(g, t) = Ty(m, t)
      BY <3>2, <3>3, <3>4 DEF Key, Hi, Ty
    <3>6. Key(m, t) \in Int /\ Hi(m, t) \in Int
      BY <1>0, <3>4, Extents
    <3>7. a < Key(m, t)
      <4>1. Key(m, t) # a
        BY <1>2, <3>4 DEF Overlap, Tied
      <4>2. SUFFICES ASSUME Key(m, t) < a PROVE FALSE
        BY <1>2, <3>6, <4>1
      <4>3. Meets(m, t, f)
        BY <1>0, <1>2, <3>1, <3>4, <3>5, <3>6, <4>2 DEF Meets, Overlap
      <4>4. Hi(m, t) <= b
        BY <1>2, <3>4, <4>3 DEF Overlap, Aside
      <4> QED BY <1>0, <1>2, <3>1, <3>5, <3>6, <4>4
    <3>8. Meets(m, f, t)
      BY <1>0, <1>2, <3>1, <3>4, <3>5, <3>6, <3>7 DEF Meets, Overlap
    <3>9. t \in Covering(m, p)
      BY <3>4, <3>5, CoverIs
    <3> QED BY <1>2, <3>1, <3>4, <3>5, <3>8, <3>9 DEF Overlap, F
  <2>10. TopPage(rk, old, g, q, e, p)
    BY <2>6, <2>9 DEF TopPage
  <2> QED BY <1>8, <1>10, <1>15, <2>7, <2>8, <2>10
<1> QED BY <1>11, <1>12, <1>13, <1>14, <1>15 DEF Fixed, high

-----------------------------------------------------------------------------
(***************************************************************************)
(* Every step of a call keeps what it will make of each page.  A step that *)
(* inserts an entry takes a slot first, and maybe a page for it.           *)
(***************************************************************************)
AfterSlot == IF AddsPages THEN AllocEntry(mm) ELSE mm

Paged(old, e, p) ==
  status' = "ok" => PageGoes(RankOf(freeing), AfterSlot, todo, mm', todo', old, e, p)

LEMMA FixPaged ==
  ASSUME MapInv, Orderly(mm, todo), Fix \/ FixPrev, NEW old, NEW e, NEW p,
         Going(RankOf(freeing), mm, todo, old, e, p)
  PROVE  Paged(old, e, p)
<1> DEFINE rk == RankOf(freeing)
           s == todo[1].slot
           f == IF todo[1].op = "fix" THEN s ELSE RB_PREV(mm, s)
           x == RB_NEXT(mm, f)
<1>1. /\ GoodMap(mm) /\ status = "ok" /\ todo # <<>> /\ todo \in Seq(Pending)
      /\ Head(todo) = todo[1]
  BY HeadTailProperties DEF Fix, FixPrev, Doing, MapInv
<1>2. todo[1].op \in {"fix", "fixprev"} /\ FixOverlap(f)
  BY <1>1 DEF Fix, FixPrev, Doing
<1>3. AskedBy(todo[1], p) = {} /\ AfterSlot = mm
  BY <1>1, <1>2 DEF AskedBy, AfterSlot, AddsPages, Doing
<1> HIDE DEF f
<1>5. PICK q \in Seq(Pending) :
        /\ Then(q)
        /\ \/ ~Reaches(mm, f, x) /\ mm' = mm /\ q = <<>>
           \/ /\ f \in mm.tree /\ x \in mm.tree
              /\ Key(mm, f) < Key(mm, x) /\ Key(mm, x) < Hi(mm, f)
              /\ Fixed(mm, mm', f, x, HigherPrecedence(freeing, Ty(mm, f), Ty(mm, x)), q)
  BY <1>1, <1>2, FixIs
<1>7. todo' = Replaced(todo, q)
  BY <1>5 DEF Then, Replaced
<1>8. ~Tied(mm) /\ PrevFollows(mm, todo) /\ TopFix(mm, todo)
  BY DEF Orderly
<1>9. \A t \in mm.tree : Key(mm, t) \in Int /\ Hi(mm, t) \in Int
  BY <1>1, Extents
<1>h. HigherPrecedence(freeing, Ty(mm, f), Ty(mm, x)) = Higher(rk, Ty(mm, f), Ty(mm, x))
  BY HigherIs
<1> HIDE DEF rk
<1>g. Going(rk, mm, todo, old, e, p)
  BY DEF rk
<1>11. CASE /\ f \in mm.tree /\ x \in mm.tree
            /\ Key(mm, f) < Key(mm, x) /\ Key(mm, x) < Hi(mm, f)
            /\ Fixed(mm, mm', f, x, HigherPrecedence(freeing, Ty(mm, f), Ty(mm, x)), q)
  <2>1. Beside(mm, f, x)
    <3>1. x # NoSlot
      BY <1>1, <1>11, NoSlotIsNoSlot DEF GoodMap, Map
    <3> QED BY <1>1, <1>11, <3>1, NextBeside
  <2>2. /\ Aside(mm, todo, f, x)
        /\ \A t \in Covering(mm, p) \ {x} :
             Meets(mm, f, t) /\ p < Hi(mm, f) =>
               Ty(mm, f) \in Asked(e, p) /\ (Returning(rk, old) => Ty(mm, t) # "conventional")
    <3>1. CASE todo[1].op = "fix"
      <4>1. f = s
        BY <3>1 DEF f
      <4>2. FixReady(rk, old, mm, s, e, p)
        BY <1>1, <1>g, <3>1 DEF Going, PageOk, TopPage
      <4>3. Aside(mm, todo, f, x)
        BY <1>1, <1>11, <3>1, <4>1, AsideFix
      <4> QED BY <4>1, <4>2, <4>3 DEF FixReady
    <3>2. CASE todo[1].op = "fixprev"
      <4>1. f = RB_PREV(mm, s)
        BY <3>2 DEF f
      <4>2. s \in mm.tree
        BY <1>1, <1>11, <4>1, FreedIsOut
      <4>3. f # NoSlot
        BY <1>1, <1>11, NoSlotIsNoSlot DEF GoodMap, Map
      <4>4. Key(mm, f) < Key(mm, s) /\ Beside(mm, f, s)
        BY <1>1, <4>1, <4>2, <4>3, PrevBeside
      <4>5. x = s
        BY <1>1, <1>8, <1>11, <4>2, <4>4, Neighbours
      <4>6. Meets(mm, f, s)
        BY <1>11, <4>5 DEF Meets
      <4>7. Aside(mm, todo, f, x)
        BY <1>1, <1>11, <2>1, <3>2, <4>5, <4>6, AsidePrev
      <4>8. ASSUME NEW t \in mm.tree, Meets(mm, f, t) PROVE t = x
        <5>1. Beside(mm, f, t)
          BY <1>8, <1>11, <3>2, <4>8 DEF PrevFollows, Unfixed, Fixing
        <5>2. ~(Key(mm, t) < Key(mm, x)) /\ ~(Key(mm, x) < Key(mm, t))
          BY <1>11, <2>1, <4>8, <5>1 DEF Beside, Meets
        <5>3. Key(mm, t) = Key(mm, x)
          BY <1>9, <1>11, <5>2
        <5> QED BY <1>8, <1>11, <5>3 DEF Tied
      <4> QED BY <4>7, <4>8, CoverIs
    <3> QED BY <1>2, <3>1, <3>2
  <2> HIDE DEF x
  <2>3. Overlap(rk, old, mm, todo, f, x, e, p)
    BY <1>3, <1>8, <1>11, <2>2 DEF Overlap
  <2>4. Fixed(mm, mm', f, x, Higher(rk, Ty(mm, f), Ty(mm, x)), q)
    BY <1>11, <1>h
  <2>5. PageGoes(rk, mm, todo, mm', Replaced(todo, q), old, e, p)
    BY <1>g, <2>3, <2>4, PageFixed
  <2> QED BY <1>3, <1>7, <2>5 DEF Paged, rk
<1>12. CASE ~Reaches(mm, f, x) /\ mm' = mm /\ q = <<>>
  <2>1. PageGoes(rk, mm, todo, mm, Replaced(todo, <<>>), old, e, p)
    BY <1>3, <1>g, PageKept
  <2> QED BY <1>3, <1>7, <1>12, <2>1 DEF Paged, rk
<1> QED BY <1>5, <1>11, <1>12

LEMMA SplitPaged ==
  ASSUME MapInv, Orderly(mm, todo), AddUnalignedStart \/ AddUnalignedEnd,
         NEW old, NEW e, NEW p, Going(RankOf(freeing), mm, todo, old, e, p)
  PROVE  Paged(old, e, p)
<1> DEFINE rk == RankOf(freeing)
<1>1. Doing("add") /\ mm' = mm /\ AfterSlot = mm
  BY DEF AddUnalignedStart, AddUnalignedEnd, AfterSlot, AddsPages
<1>2. todo # <<>> /\ todo \in Seq(Pending) /\ Head(todo) = todo[1] /\ todo[1].op = "add"
  BY <1>1, HeadTailProperties DEF Doing, MapInv
<1>3. Arg = todo[1].arg /\ GoodArg(Arg) /\ p \in PageAddr
  BY <1>1, <1>2, TopCall DEF Arg, Going, Asking
<1> HIDE DEF rk
<1>g. Going(rk, mm, todo, old, e, p)
  BY DEF rk
<1>4. ASSUME NEW a, NEW b, GoodArg(a), b.size > 0 => GoodArg(b),
             ~(Aligned(Arg.start) /\ Aligned(Arg.size)),
             Asked(Arg, p) = Asked(a, p) \cup IF b.size > 0 THEN Asked(b, p) ELSE {},
             Then(IF b.size > 0 THEN <<AddCall(a), AddCall(b)>> ELSE <<AddCall(a)>>)
      PROVE  Paged(old, e, p)
  <2> DEFINE q == IF b.size > 0 THEN <<AddCall(a), AddCall(b)>> ELSE <<AddCall(a)>>
  <2>1. AddCall(a) \in Pending /\ (b.size > 0 => AddCall(b) \in Pending)
    BY <1>4, PendingIs
  <2>2. q \in Seq(Pending)
    BY <2>1
  <2>3. todo' = Replaced(todo, q)
    BY <1>4 DEF Then, Replaced
  <2>4. q = IF b.size > 0 THEN <<AddCall(a), AddCall(b)>> ELSE <<AddCall(a)>>
    OBVIOUS
  <2> HIDE DEF q
  <2>5. PageGoes(rk, mm, todo, mm, Replaced(todo, q), old, e, p)
    BY <1>2, <1>3, <1>4, <1>g, <2>2, <2>4, PageSplit
  <2> QED BY <1>1, <2>3, <2>5 DEF Paged, rk
<1>5. CASE AddUnalignedStart
  <2> DEFINE head == Arg.start % PageSize
             page == Unusable(Arg.start - head)
             rest == DropFirst(Arg, PageSize - head)
  <2>1. /\ Arg.size # 0 /\ ~Aligned(Arg.start)
        /\ Then(IF rest.size > 0 THEN <<AddCall(page), AddCall(rest)>>
                                 ELSE <<AddCall(page)>>)
    BY <1>5 DEF AddUnalignedStart
  <2>2. GoodArg(page) /\ (rest.size > 0 => GoodArg(rest))
    BY <1>3, <2>1, SplitStart
  <2>3. Asked(Arg, p) = Asked(page, p) \cup IF rest.size > 0 THEN Asked(rest, p) ELSE {}
    BY <1>3, <2>1, AskedStart
  <2> HIDE DEF page, rest
  <2> QED BY <1>4, <2>1, <2>2, <2>3
<1>6. CASE AddUnalignedEnd
  <2> DEFINE tail == Arg.size % PageSize
             page == Unusable(End(Arg) - tail)
             rest == DropLast(Arg, tail)
  <2>1. /\ Aligned(Arg.start) /\ ~Aligned(Arg.size)
        /\ Then(IF rest.size > 0 THEN <<AddCall(page), AddCall(rest)>>
                                 ELSE <<AddCall(page)>>)
    BY <1>6 DEF AddUnalignedEnd
  <2>2. GoodArg(page) /\ (rest.size > 0 => GoodArg(rest))
    BY <1>3, <2>1, SplitEnd
  <2>3. Asked(Arg, p) = Asked(page, p) \cup IF rest.size > 0 THEN Asked(rest, p) ELSE {}
    BY <1>3, <2>1, AskedEnd
  <2> HIDE DEF page, rest
  <2> QED BY <1>4, <2>1, <2>2, <2>3
<1> QED BY <1>5, <1>6

LEMMA PlainPaged ==
  ASSUME MapInv, Orderly(mm, todo), AddEmpty \/ Merge \/ Bump \/ Restore,
         NEW old, NEW e, NEW p, Going(RankOf(freeing), mm, todo, old, e, p)
  PROVE  Paged(old, e, p)
<1> DEFINE rk == RankOf(freeing)
<1>1. /\ status = "ok" /\ todo # <<>> /\ GoodMap(mm) /\ Head(todo) = todo[1]
      /\ p \in PageAddr /\ p \in Int /\ AfterSlot = mm
  BY PageNumber, HeadTailProperties DEF AddEmpty, Merge, Bump, Restore, Doing, MapInv, Going, Asking,
     AfterSlot, AddsPages
<1>2. AskedBy(todo[1], p) = {}
  <2>1. CASE AddEmpty
    <3>1. todo[1].arg.size = 0
      BY <1>1, <2>1 DEF AddEmpty, Arg
    <3>2. ~Part(todo[1].arg, p)
      BY <3>1 DEF Part
    <3> QED BY <3>2 DEF AskedBy, Asked
  <2>2. CASE Merge \/ Bump \/ Restore
    <3>1. todo[1].op # "add"
      BY <1>1, <2>2 DEF Merge, Bump, Restore, Doing
    <3> QED BY <3>1 DEF AskedBy
  <2> QED BY <2>1, <2>2
<1> HIDE DEF rk
<1>g. Going(rk, mm, todo, old, e, p)
  BY DEF rk
<1>3. ASSUME Then(<<>>), Types(mm', p) = Types(mm, p) PROVE Paged(old, e, p)
  <2>1. todo' = Replaced(todo, <<>>)
    BY <1>3 DEF Then, Replaced
  <2>2. PageGoes(rk, mm, todo, mm', Replaced(todo, <<>>), old, e, p)
    BY <1>2, <1>3, <1>g, PageKept
  <2> QED BY <1>1, <2>1, <2>2 DEF Paged, rk
<1>4. CASE AddEmpty \/ Restore
  BY <1>3, <1>4 DEF AddEmpty, Restore
<1>5. CASE Bump
  <2>1. mm' = [mm EXCEPT !.key = @ + 1] /\ Then(<<>>) /\ mm \in Map
    BY <1>1, <1>5 DEF Bump, MapInv
  <2>2. mm'.tree = mm.tree /\ mm'.entry = mm.entry
    BY <2>1 DEF Map
  <2>3. Types(mm', p) = Types(mm, p)
    BY <2>2 DEF Types, Covering, Key, Ty
  <2> QED BY <1>3, <2>1, <2>3
<1>6. CASE Merge
  <2> DEFINE s == Head(todo).slot
  <2>1. \/ Fail("stale")
        \/ s \in mm.tree /\ mm' = MergeAdjacent(mm, s) /\ Then(<<>>)
        \/ mm' = mm /\ Then(<<>>)
    BY <1>6 DEF Merge, Settle
  <2>2. CASE Fail("stale")
    BY <2>2 DEF Fail, Paged
  <2>3. CASE s \in mm.tree /\ mm' = MergeAdjacent(mm, s) /\ Then(<<>>)
    <3>1. Types(MergeAdjacent(mm, s), p) = Types(mm, p)
      BY <1>1, <2>3, MergeTypes
    <3> QED BY <1>3, <2>3, <3>1
  <2>4. CASE mm' = mm /\ Then(<<>>)
    BY <1>3, <2>4
  <2> QED BY <2>1, <2>2, <2>3, <2>4
<1> QED BY <1>4, <1>5, <1>6

(* The slot is taken first; what that does to the page is settled before   *)
(* the new entry goes in.                                                  *)
LEMMA SlotPaged ==
  ASSUME MapInv, AddsPages, AllocFault(mm) = "ok", NEW rk, NEW old, NEW e, NEW p,
         Going(rk, mm, todo, old, e, p)
  PROVE  Going(rk, AllocEntry(mm), todo, old, e, p)
<1>1. GoodMap(mm) /\ todo[1].op = "add" /\ p \in Int
  BY ArgIs, PageNumber DEF Going, Asking
<1>2. PageTakenOrNot(mm, AllocEntry(mm), p) /\ GoodMap(AllocEntry(mm))
  BY <1>1, SlotTypes, AllocGood
<1>3. PageOk(rk, AllocEntry(mm), todo, old, e, p)
  BY <1>1, <1>2, PageScavenged
<1> QED BY <1>2, <1>3 DEF Going

LEMMA AddNewPaged ==
  ASSUME MapInv, Orderly(mm, todo), AddNew, NEW old, NEW e, NEW p,
         Going(RankOf(freeing), mm, todo, old, e, p)
  PROVE  Paged(old, e, p)
<1> DEFINE rk == RankOf(freeing)
           s == AllocSlot(mm)
           g == AllocEntry(mm)
           q == <<FixCall(s), FixPrevCall(s), MergeCall(s), BumpCall>>
<1>1. /\ AddsPages /\ AllocFault(mm) = "ok" /\ InsertedIn(g, mm', s, Arg) /\ Then(q)
      /\ AfterSlot = g
  BY AddNewIs DEF AfterSlot
<1>2. /\ Arg = todo[1].arg /\ todo[1].op = "add" /\ GoodEntry(Arg) /\ GoodMap(mm)
  BY <1>1, ArgIs
<1>3. GoodMap(g) /\ s \in Slot /\ s \notin g.tree
  BY <1>1, <1>2, AllocGood
<1> HIDE DEF s, rk
<1>4. Going(rk, g, todo, old, e, p)
  BY <1>1, SlotPaged DEF rk
<1> HIDE DEF g
<1>8. /\ FixCall(s) \in Pending /\ FixPrevCall(s) \in Pending
      /\ MergeCall(s) \in Pending /\ BumpCall \in Pending
  BY <1>3, PendingIs
<1>9. q \in Seq(Pending)
  BY <1>8
<1>10. /\ Len(q) = 4 /\ q[1] = FixCall(s) /\ q[2] = FixPrevCall(s)
       /\ q[3] = MergeCall(s) /\ q[4] = BumpCall /\ q # <<>>
  OBVIOUS
<1>11. todo' = Replaced(todo, q)
  BY <1>1 DEF Then, Replaced
<1> HIDE DEF q
<1>12. q[1].op = "fix" /\ q[1].slot = s /\ \A i \in 1 .. Len(q) : q[i].op # "add"
  <2>1. 1 .. 4 = {1, 2, 3, 4}
    OBVIOUS
  <2> QED BY <1>10, <2>1 DEF FixCall, FixPrevCall, MergeCall, BumpCall
<1>13. PageGoes(rk, g, todo, mm', Replaced(todo, q), old, e, p)
  BY <1>1, <1>2, <1>3, <1>4, <1>9, <1>10, <1>12, PageInserted
<1> QED BY <1>1, <1>11, <1>13 DEF Paged, rk

LEMMA AddAtOldPaged ==
  ASSUME MapInv, Orderly(mm, todo), AddAtOld, NEW old, NEW e, NEW p,
         Going(RankOf(freeing), mm, todo, old, e, p)
  PROVE  Paged(old, e, p)
<1> DEFINE rk == RankOf(freeing)
           s == AllocSlot(mm)
           g == AllocEntry(mm)
<1>1. SUFFICES ASSUME status' = "ok" PROVE PageGoes(rk, AfterSlot, todo, mm', todo', old, e, p)
  BY DEF Paged
<1>2. AddsPages /\ AllocFault(mm) = "ok" /\ AfterSlot = g
  BY <1>1, AddAtOldIs DEF AfterSlot
<1>3. PICK o \in g.tree, q \in Seq(Pending) :
        /\ Key(g, o) = Arg.start /\ Then(q)
        /\ AddedOver(g, mm', s, o, Arg, HigherPrecedence(freeing, Ty(g, o), Arg.type), q)
  BY <1>1, AddAtOldIs
<1>4. /\ Arg = todo[1].arg /\ todo[1].op = "add" /\ GoodEntry(Arg) /\ GoodMap(mm) /\ todo # <<>>
      /\ Arg.start \in Int
  BY <1>2, ArgIs
<1>5. GoodMap(g) /\ s \in Slot /\ s \notin g.tree
  BY <1>2, <1>4, AllocGood
<1>6. Calm(mm, g) /\ ~Tied(g)
  BY <1>2, <1>4, AllocCalm DEF Orderly
<1>h. HigherPrecedence(freeing, Ty(g, o), Arg.type) = Higher(rk, Ty(g, o), Arg.type)
  BY HigherIs
<1> HIDE DEF s, rk
<1>7. Going(rk, g, todo, old, e, p)
  BY <1>2, SlotPaged DEF rk
<1> HIDE DEF g
<1>8. todo' = Replaced(todo, q)
  BY <1>3 DEF Then, Replaced
<1>9. \A t \in g.tree : Key(g, t) \in Int /\ Hi(g, t) \in Int /\ Key(g, t) < Hi(g, t)
  BY <1>5, Extents
<1>10. Clear(g, o, Key(g, o), Hi(g, o))
  <2>1. ASSUME NEW t \in g.tree \ {o} PROVE Hi(g, t) <= Key(g, o) \/ Hi(g, o) <= Key(g, t)
    <3>1. Key(g, t) # Key(g, o)
      BY <1>6 DEF Tied
    <3>2. CASE Key(g, t) < Key(g, o)
      <4>1. SUFFICES ASSUME Key(g, o) < Hi(g, t) PROVE FALSE
        BY <1>9
      <4>2. Meets(g, t, o)
        BY <3>2, <4>1 DEF Meets
      <4>3. Hi(g, t) <= Arg.start
        BY <1>4, <1>5, <1>6, <4>2, CalmInherits
      <4> QED BY <1>3, <1>9, <4>1, <4>3
    <3>3. CASE Key(g, o) < Key(g, t)
      <4>1. SUFFICES ASSUME Key(g, t) < Hi(g, o) PROVE FALSE
        BY <1>9
      <4>2. Meets(g, o, t)
        BY <3>3, <4>1 DEF Meets
      <4>3. Hi(g, o) <= Arg.start
        BY <1>4, <1>5, <1>6, <4>2, CalmInherits
      <4> QED BY <1>3, <1>9, <4>3
    <3> QED BY <1>9, <3>1, <3>2, <3>3
  <2> QED BY <2>1 DEF Clear
<1>11. AddsOver(rk, g, todo, Arg, o, s, q)
  BY <1>3, <1>4, <1>5, <1>10 DEF AddsOver
<1>12. AddedOver(g, mm', s, o, Arg, Higher(rk, Ty(g, o), Arg.type), q)
  BY <1>3, <1>h
<1>13. PageGoes(rk, g, todo, mm', Replaced(todo, q), old, e, p)
  <2> DEFINE d == Arg
  <2>1. AddsOver(rk, g, todo, d, o, s, q) /\ AddedOver(g, mm', s, o, d, Higher(rk, Ty(g, o), d.type), q)
    BY <1>11, <1>12
  <2> HIDE DEF d
  <2> QED BY <1>7, <2>1, PageAddedOver
<1> QED BY <1>2, <1>8, <1>13

LEMMA StepPaged ==
  ASSUME MapInv, Orderly(mm, todo), Step, NEW old, NEW e, NEW p,
         Going(RankOf(freeing), mm, todo, old, e, p)
  PROVE  Paged(old, e, p)
<1>1. CASE AddNoSlot
  <2>1. status' # "ok"
    BY <1>1 DEF AddNoSlot, Fail
  <2> QED BY <2>1 DEF Paged
<1> QED BY <1>1, SplitPaged, PlainPaged, AddNewPaged, AddAtOldPaged, FixPaged DEF Step

-----------------------------------------------------------------------------
(***************************************************************************)
(* The call that is under way.                                             *)
(***************************************************************************)

(* Without overlaps, a page has the type the map shows, or none.           *)
LEMMA ViewTypes ==
  ASSUME NEW m, GoodMap(m), Quiet(m), NEW p \in PageAddr
  PROVE  /\ View(m)[p] \in Type \cup {"none"}
         /\ Types(m, p) = IF View(m)[p] = "none" THEN {} ELSE {View(m)[p]}
<1>0. View(m)[p] \in Type \cup {"none"} /\ "none" \notin Type
  BY ViewIs, Ranks DEF PageView
<1>1. View(m)[p] = IF Covering(m, p) = {} THEN "none"
                   ELSE m.entry[First(m, Covering(m, p))].type
  BY DEF View
<1>2. CASE Covering(m, p) = {}
  BY <1>0, <1>1, <1>2, CoverIs
<1>3. ASSUME NEW t \in Covering(m, p) PROVE Types(m, p) = {Ty(m, t)} /\ View(m)[p] = Ty(m, t)
  <2>1. t \in m.tree /\ Key(m, t) <= p /\ p < Hi(m, t) /\ p \in Int
    BY CoverIs, PageNumber
  <2>2. ASSUME NEW u \in Covering(m, p), u # t PROVE FALSE
    <3>1. u \in m.tree /\ Key(m, u) <= p /\ p < Hi(m, u)
      BY CoverIs
    <3>2. /\ Key(m, u) \in Int /\ Key(m, t) \in Int /\ Hi(m, u) \in Int /\ Hi(m, t) \in Int
      BY <2>1, <3>1, Extents
    <3>3. Key(m, u) # Key(m, t) /\ ~Meets(m, u, t) /\ ~Meets(m, t, u)
      BY <2>1, <2>2, <3>1 DEF Quiet, Tied
    <3> QED BY <2>1, <3>1, <3>2, <3>3 DEF Meets
  <2>3. Covering(m, p) = {t}
    BY <2>2
  <2>4. First(m, {t}) \in {t}
    BY <2>1, FirstIs
  <2> QED BY <1>1, <2>3, <2>4, CoverIs DEF Ty
<1>4. \A t \in Covering(m, p) : Ty(m, t) \in Type
  BY TypesType, CoverIs
<1> QED BY <1>0, <1>2, <1>3, <1>4

(* gd_free_pages restores the table at its end, and nobody else does.      *)
NoRestore(q) == \A i \in 1 .. Len(q) : q[i].op # "restore"
RestoreLast(q) ==
  /\ q # <<>> /\ q[Len(q)].op = "restore"
  /\ \A i \in 1 .. Len(q) : q[i].op = "restore" => i = Len(q)

LEMMA RestoreKept ==
  ASSUME NEW st \in Seq(Pending), st # <<>>, NEW q \in Seq(Pending), NoRestore(q)
  PROVE  /\ NoRestore(st) => NoRestore(Replaced(st, q))
         /\ RestoreLast(st) /\ st[1].op # "restore" => RestoreLast(Replaced(st, q))
         /\ RestoreLast(st) /\ st[1].op = "restore" /\ q = <<>> => Replaced(st, q) = <<>>
<1> DEFINE r == Replaced(st, q)
           n == Len(st)
           k == Len(q)
<1>1. /\ r \in Seq(Pending) /\ n \in Nat \ {0} /\ k \in Nat /\ Len(r) = k + (n - 1)
      /\ \A i \in 1 .. k : r[i] = q[i]
      /\ \A i \in 2 .. n : r[k + (i - 1)] = st[i] /\ k + (i - 1) \in 1 .. Len(r)
      /\ \A i \in k + 1 .. Len(r) : i - k + 1 \in 2 .. n /\ r[i] = st[i - k + 1]
  BY StackIs
<1> HIDE DEF r
<1>2. \A i \in 1 .. k : r[i].op # "restore"
  BY <1>1 DEF NoRestore
<1>3. \A i \in 1 .. Len(r) : i \in 1 .. k \/ i \in k + 1 .. Len(r)
  BY <1>1
<1> HIDE DEF n, k
<1>4. ASSUME NoRestore(st) PROVE NoRestore(r)
  <2>1. \A i \in 2 .. n : i \in 1 .. n
    BY <1>1
  <2>2. \A i \in k + 1 .. Len(r) : r[i].op # "restore"
    BY <1>1, <1>4, <2>1 DEF NoRestore, n
  <2> QED BY <1>2, <1>3, <2>2 DEF NoRestore
<1>5. ASSUME RestoreLast(st), st[1].op # "restore" PROVE RestoreLast(r)
  <2>1. st[n].op = "restore" /\ n # 1 /\ \A i \in 1 .. n : st[i].op = "restore" => i = n
    BY <1>5 DEF RestoreLast, n
  <2>2. n \in 2 .. n
    BY <1>1, <2>1
  <2>3. r[Len(r)] = st[n] /\ Len(r) # 0
    BY <1>1, <2>2
  <2>4. r # <<>>
    BY <2>3, EmptySeq
  <2>5. ASSUME NEW i \in 1 .. Len(r), r[i].op = "restore" PROVE i = Len(r)
    <3>1. i \in k + 1 .. Len(r)
      BY <1>2, <1>3, <2>5
    <3>2. i - k + 1 \in 2 .. n /\ st[i - k + 1].op = "restore"
      BY <1>1, <2>5, <3>1
    <3>3. i - k + 1 \in 1 .. n
      BY <1>1, <3>2
    <3>4. i - k + 1 = n
      BY <2>1, <3>2, <3>3
    <3> QED BY <1>1, <3>4
  <2> QED BY <2>1, <2>3, <2>4, <2>5 DEF RestoreLast
<1>6. ASSUME RestoreLast(st), st[1].op = "restore", q = <<>> PROVE r = <<>>
  <2>1. 1 \in 1 .. n /\ k = 0
    BY <1>1, <1>6 DEF k
  <2>2. n = 1
    BY <1>6, <2>1 DEF RestoreLast, n
  <2>3. Len(r) = 0
    BY <1>1, <2>1, <2>2
  <2> QED BY <1>1, <2>3, EmptySeq
<1> QED BY <1>4, <1>5, <1>6 DEF r

(* What a step that succeeds does to the stack and to the table.           *)
StackStep ==
  \E q \in Seq(Pending) :
    /\ Then(q) /\ NoRestore(q)
    /\ \/ todo[1].op # "restore" /\ freeing' = freeing
       \/ todo[1].op = "restore" /\ freeing' = FALSE /\ q = <<>>

LEMMA StepStack ==
  ASSUME MapInv, Step, status' = "ok" PROVE StackStep
<1>1. todo # <<>> /\ todo \in Seq(Pending) /\ Head(todo) = todo[1] /\ status = "ok"
  BY HeadTailProperties DEF MapInv, Step, AddEmpty, AddUnalignedStart, AddUnalignedEnd,
     AddNoSlot, AddNew, AddAtOld, AddsPages, Fix, FixPrev, Merge, Bump, Restore, Doing
<1>2. <<>> \in Seq(Pending) /\ NoRestore(<<>>)
  BY DEF NoRestore
<1>3. CASE AddEmpty \/ Merge \/ Bump
  <2>1. Then(<<>>) /\ freeing' = freeing /\ todo[1].op # "restore"
    BY <1>1, <1>3 DEF AddEmpty, Merge, Bump, Doing, Settle, Fail
  <2> QED BY <1>2, <2>1 DEF StackStep
<1>4. CASE Restore
  <2>1. Then(<<>>) /\ freeing' = FALSE /\ todo[1].op = "restore"
    BY <1>1, <1>4 DEF Restore, Doing
  <2> QED BY <1>2, <2>1 DEF StackStep
<1>5. ASSUME NEW a, NEW b, GoodArg(a), b.size > 0 => GoodArg(b), todo[1].op # "restore",
             freeing' = freeing,
             Then(IF b.size > 0 THEN <<AddCall(a), AddCall(b)>> ELSE <<AddCall(a)>>)
      PROVE  StackStep
  <2> DEFINE q == IF b.size > 0 THEN <<AddCall(a), AddCall(b)>> ELSE <<AddCall(a)>>
  <2>1. AddCall(a) \in Pending /\ (b.size > 0 => AddCall(b) \in Pending)
    BY <1>5, PendingIs
  <2>2. q \in Seq(Pending)
    BY <2>1
  <2>3. NoRestore(q)
    BY DEF NoRestore, AddCall
  <2>4. Then(q)
    BY <1>5
  <2> HIDE DEF q
  <2> QED BY <1>5, <2>2, <2>3, <2>4 DEF StackStep
<1>6. CASE AddUnalignedStart
  <2> DEFINE head == Arg.start % PageSize
             page == Unusable(Arg.start - head)
             rest == DropFirst(Arg, PageSize - head)
  <2>1. /\ Doing("add") /\ Arg.size # 0 /\ ~Aligned(Arg.start) /\ freeing' = freeing
        /\ Then(IF rest.size > 0 THEN <<AddCall(page), AddCall(rest)>>
                                 ELSE <<AddCall(page)>>)
    BY <1>6 DEF AddUnalignedStart
  <2>2. GoodArg(Arg) /\ todo[1].op # "restore"
    BY <1>1, <2>1, TopCall DEF Arg, Doing
  <2>3. GoodArg(page) /\ (rest.size > 0 => GoodArg(rest))
    BY <2>1, <2>2, SplitStart
  <2> HIDE DEF page, rest
  <2> QED BY <1>5, <2>1, <2>2, <2>3
<1>7. CASE AddUnalignedEnd
  <2> DEFINE tail == Arg.size % PageSize
             page == Unusable(End(Arg) - tail)
             rest == DropLast(Arg, tail)
  <2>1. /\ Doing("add") /\ Aligned(Arg.start) /\ ~Aligned(Arg.size) /\ freeing' = freeing
        /\ Then(IF rest.size > 0 THEN <<AddCall(page), AddCall(rest)>>
                                 ELSE <<AddCall(page)>>)
    BY <1>7 DEF AddUnalignedEnd
  <2>2. GoodArg(Arg) /\ todo[1].op # "restore"
    BY <1>1, <2>1, TopCall DEF Arg, Doing
  <2>3. GoodArg(page) /\ (rest.size > 0 => GoodArg(rest))
    BY <2>1, <2>2, SplitEnd
  <2> HIDE DEF page, rest
  <2> QED BY <1>5, <2>1, <2>2, <2>3
<1>8. CASE AddNew
  <2> DEFINE s == AllocSlot(mm)
             q == <<FixCall(s), FixPrevCall(s), MergeCall(s), BumpCall>>
  <2>1. AddsPages /\ AllocFault(mm) = "ok" /\ Then(q) /\ freeing' = freeing
    BY <1>8, AddNewIs
  <2>2. todo[1].op = "add" /\ GoodMap(mm)
    BY <2>1, ArgIs
  <2>3. s \in Slot
    BY <2>1, <2>2, AllocGood
  <2> HIDE DEF s
  <2>4. /\ FixCall(s) \in Pending /\ FixPrevCall(s) \in Pending
        /\ MergeCall(s) \in Pending /\ BumpCall \in Pending
    BY <2>3, PendingIs
  <2>5. q \in Seq(Pending)
    BY <2>4
  <2>6. NoRestore(q)
    <3>1. /\ Len(q) = 4 /\ q[1] = FixCall(s) /\ q[2] = FixPrevCall(s)
          /\ q[3] = MergeCall(s) /\ q[4] = BumpCall /\ 1 .. 4 = {1, 2, 3, 4}
      OBVIOUS
    <3> HIDE DEF q
    <3> QED BY <3>1 DEF NoRestore, FixCall, FixPrevCall, MergeCall, BumpCall
  <2> HIDE DEF q
  <2> QED BY <2>1, <2>2, <2>5, <2>6 DEF StackStep
<1>9. CASE AddAtOld
  <2> DEFINE s == AllocSlot(mm)
             g == AllocEntry(mm)
  <2>1. AddsPages /\ freeing' = freeing
    BY <1>9, AddAtOldIs
  <2>2. PICK o \in g.tree, q \in Seq(Pending) :
          /\ Then(q)
          /\ AddedOver(g, mm', s, o, Arg, HigherPrecedence(freeing, Ty(g, o), Arg.type), q)
    BY <1>9, AddAtOldIs
  <2>3. todo[1].op = "add"
    BY <2>1, ArgIs
  <2>4. \/ q = <<MergeCall(o), BumpCall>> \/ q = <<MergeCall(s), BumpCall>>
        \/ q = <<FixCall(s), MergeCall(s), BumpCall>>
    BY <2>2 DEF AddedOver
  <2>5. NoRestore(q)
    BY <2>4 DEF NoRestore, FixCall, MergeCall, BumpCall
  <2> QED BY <2>1, <2>2, <2>3, <2>5 DEF StackStep
<1>10. CASE Fix \/ FixPrev
  <2>1. PICK f : FixOverlap(f) /\ todo[1].op \in {"fix", "fixprev"}
    BY <1>1, <1>10 DEF Fix, FixPrev, Doing
  <2>2. freeing' = freeing
    BY <2>1 DEF FixOverlap, FixShared, Settle
  <2> DEFINE x == RB_NEXT(mm, f)
  <2>3. PICK q \in Seq(Pending) :
          /\ Then(q)
          /\ \/ q = <<>>
             \/ Fixed(mm, mm', f, x, HigherPrecedence(freeing, Ty(mm, f), Ty(mm, x)), q)
    BY <1>1, <2>1, FixIs
  <2>4. \/ q = <<>> \/ q = <<FixCall(f)>> \/ \E e : q = <<AddCall(e)>>
    BY <2>3 DEF Fixed
  <2>5. NoRestore(q)
    BY <2>4 DEF NoRestore, FixCall, AddCall
  <2> QED BY <2>1, <2>2, <2>3, <2>5 DEF StackStep
<1>11. ~AddNoSlot
  BY DEF AddNoSlot, Fail
<1> QED BY <1>3, <1>4, <1>6, <1>7, <1>8, <1>9, <1>10, <1>11 DEF Step

(* A step that fails leaves the history as it was: a tie is only found     *)
(* where calls are left to make.                                           *)
LEMMA FaultKeepsView ==
  ASSUME MapInv, BumpFollows(todo), Step, status' # "ok" PROVE before' = before
<1>1. todo # <<>> /\ todo \in Seq(Pending) /\ Head(todo) = todo[1]
  BY HeadTailProperties DEF MapInv, Step, AddEmpty, AddUnalignedStart, AddUnalignedEnd,
     AddNoSlot, AddNew, AddAtOld, AddsPages, Fix, FixPrev, Merge, Bump, Restore, Doing
<1>2. ASSUME NEW q \in Seq(Pending), Then(q), q # <<>> PROVE before' = before
  <2>1. todo' = Replaced(todo, q)
    BY <1>2 DEF Then, Replaced
  <2>2. todo' # <<>>
    BY <1>1, <1>2, <2>1, TopIs
  <2> QED BY <1>2, <2>2 DEF Then
<1>3. ASSUME NEW q \in Seq(Pending), Then(q), todo[1].op \in {"fix", "fixprev", "merge"}
      PROVE  before' = before
  <2>1. todo' = Replaced(todo, q)
    BY <1>3 DEF Then, Replaced
  <2>2. Bumps(todo')
    BY <1>1, <1>3, <2>1, BumpKept
  <2>3. todo' # <<>>
    <3>1. SUFFICES ASSUME todo' = <<>> PROVE FALSE
      OBVIOUS
    <3> QED BY <2>2, <3>1 DEF Bumps
  <2> QED BY <1>3, <2>3 DEF Then
<1>4. ASSUME NEW fault, Fail(fault) PROVE before' = before
  BY <1>4 DEF Fail
<1>5. CASE AddEmpty \/ AddUnalignedStart \/ AddUnalignedEnd \/ Bump \/ Restore
  BY <1>5 DEF AddEmpty, AddUnalignedStart, AddUnalignedEnd, Bump, Restore, Doing
<1>6. CASE AddNoSlot
  BY <1>4, <1>6 DEF AddNoSlot
<1>7. CASE AddNew
  <2> DEFINE s == AllocSlot(mm)
             q == <<FixCall(s), FixPrevCall(s), MergeCall(s), BumpCall>>
  <2>1. AddsPages /\ AllocFault(mm) = "ok" /\ Then(q)
    BY <1>7, AddNewIs
  <2>2. GoodMap(mm)
    BY <2>1, ArgIs
  <2>3. s \in Slot
    BY <2>1, <2>2, AllocGood
  <2> HIDE DEF s
  <2>4. /\ FixCall(s) \in Pending /\ FixPrevCall(s) \in Pending
        /\ MergeCall(s) \in Pending /\ BumpCall \in Pending
    BY <2>3, PendingIs
  <2>5. q \in Seq(Pending) /\ q # <<>>
    BY <2>4
  <2> HIDE DEF q
  <2> QED BY <1>2, <2>1, <2>5
<1>8. CASE AddAtOld
  <2> DEFINE s == AllocSlot(mm)
             g == AllocEntry(mm)
  <2>1. \/ status' = "tree"
        \/ \E o \in g.tree : \E q \in Seq(Pending) :
             /\ Then(q)
             /\ AddedOver(g, mm', s, o, Arg, HigherPrecedence(freeing, Ty(g, o), Arg.type), q)
    BY <1>8, AddAtOldIs
  <2>2. ASSUME NEW o \in g.tree, NEW q \in Seq(Pending), Then(q),
               AddedOver(g, mm', s, o, Arg, HigherPrecedence(freeing, Ty(g, o), Arg.type), q)
        PROVE  before' = before
    <3>1. q # <<>>
      BY <2>2 DEF AddedOver
    <3> QED BY <1>2, <2>2, <3>1
  <2>3. CASE status' = "tree"
    <3>1. PICK o \in At(g, Arg.start) : AddOver(o)
      BY <1>8 DEF AddAtOld
    <3>2. Fail("tree")
      BY <2>3, <3>1 DEF AddOver, Settle
    <3> QED BY <1>4, <3>2
  <2> QED BY <2>1, <2>2, <2>3
<1>9. CASE Fix \/ FixPrev
  <2>1. PICK f : FixOverlap(f) /\ todo[1].op \in {"fix", "fixprev"} /\ status = "ok"
    BY <1>1, <1>9 DEF Fix, FixPrev, Doing
  <2>2. PICK q \in Seq(Pending) : Then(q)
    BY <1>1, <2>1, FixIs
  <2> QED BY <1>3, <2>1, <2>2
<1>10. CASE Merge
  <2>1. \/ Fail("stale")
        \/ Then(<<>>) /\ todo[1].op = "merge"
    BY <1>1, <1>10 DEF Merge, Doing
  <2>2. <<>> \in Seq(Pending)
    OBVIOUS
  <2> QED BY <1>3, <1>4, <2>1, <2>2
<1> QED BY <1>5, <1>6, <1>7, <1>8, <1>9, <1>10 DEF Step

-----------------------------------------------------------------------------
(***************************************************************************)
(* gd_alloc_pages gives the caller conventional pages, and takes at most   *)
(* one more, for slots.                                                    *)
(***************************************************************************)
LEMMA SlicedTypes ==
  ASSUME NEW m, GoodMap(m), Quiet(m), AllocFault(m) = "ok", NEW v \in m.tree,
         m.entry[v].type = "conventional", NEW type \in Type,
         NEW n \in Nat, Aligned(n), n >= PageSize, n < m.entry[v].size,
         ~Clobbers(m, v, n), ~Tied(Sliced(m, v, n, type)), NEW p \in Int
  PROVE  /\ TakenTypes(AllocEntry(m), Sliced(m, v, n, type), Key(m, v), Key(m, v) + n, type, p)
         /\ PageTakenOrNot(m, AllocEntry(m), p)
<1> DEFINE a == AllocEntry(m)
           s == AllocSlot(m)
           g == Sliced(m, v, n, type)
<1>1. g = TakeNew(a, v, n, type, s)
  BY DEF Sliced
<1>2. GoodMap(a) /\ s \in Slot /\ s \notin a.tree
  BY AllocGood
<1>3. Calm(m, a) /\ ~Tied(a)
  BY AllocCalm DEF Quiet
<1>4. Quiet(a)
  BY <1>3, CalmQuiet
<1>5. v \in a.tree /\ (a.entry[v] = m.entry[v] \/ Shortened(m, a, v))
  BY VictimKept
<1>6. GoodMap(g) /\ 0 < n
  BY SlicedGood, PageSizeIs
<1>p. PageTakenOrNot(m, a, p)
  BY SlotTypes
<1> HIDE DEF a, s, g
<1>7. a \in Map /\ a.entry \in [Slot -> Entry] /\ v \in Slot /\ v # s /\ a.entry[v] \in Entry
  BY <1>2, <1>5 DEF GoodMap, Map
<1>8. g.entry[v] = DropFirst(a.entry[v], n) /\ g.tree = a.tree \cup {s}
  BY <1>1, <1>2, <1>7 DEF TakeNew, Map
<1>9. n < a.entry[v].size
  <2>1. GoodEntry(g.entry[v])
    BY <1>5, <1>6, <1>8 DEF GoodMap
  <2>2. DropFirst(a.entry[v], n).size = a.entry[v].size - n /\ a.entry[v].size \in Nat
    <3>1. n \in Int
      OBVIOUS
    <3> QED BY <1>2, <1>5, <1>7, <3>1, EntryOps, GoodIs DEF GoodMap
  <2>3. g.entry[v].size > 0
    BY <2>1, GoodIs
  <2> QED BY <1>8, <2>2, <2>3
<1>10. Clear(a, v, Key(a, v), Key(a, v) + n)
  <2>1. PICK b \in Int, c \in Int : b = Key(a, v) /\ c = Hi(a, v) /\ n < c - b
    BY <1>2, <1>5, <1>9, Extent
  <2>2. b + n \in Int /\ b <= b /\ b + n <= c
    BY <2>1
  <2> QED BY <1>2, <1>4, <1>5, <2>1, <2>2, QuietClear
<1>11. Key(a, v) = Key(m, v)
  BY <1>5 DEF Shortened, Key, DropLast, Region
<1>12. TakenTypes(a, g, Key(a, v), Key(a, v) + n, type, p)
  BY <1>1, <1>2, <1>5, <1>6, <1>9, <1>10, TakeTypes
<1> QED BY <1>11, <1>12, <1>p DEF a, g

Alloced(m, g, lo, hi, type, p) ==
  IF lo <= p /\ p < hi THEN Types(m, p) = {"conventional"} /\ Types(g, p) = {type}
  ELSE PageTakenOrNot(m, g, p)

LEMMA CallAllocTypes ==
  ASSUME MapInv, Quiet(mm), NEW type \in Type, NEW count \in Nat, count # 0,
         CallAlloc(type, count), status' = "ok", NEW p \in Int
  PROVE  Alloced(mm, mm', AllocResult(type, count),
                 AllocResult(type, count) + count * PageSize, type, p)
<1> DEFINE n   == count * PageSize
           v   == Victim(mm, n)
           way == Way(mm, v, n, type)
           m   == CASE way = "whole" -> TakeWhole(mm, v, type)
                    [] way = "first" -> TakeFirst(mm, v, n)
                    [] way = "last"  -> TakeLast(mm, v, n)
                    [] way = "new"   -> Sliced(mm, v, n, type)
           result == AllocResult(type, count)
<1>1. /\ GoodMap(mm) /\ Conventional(mm, n) # {} /\ ~Tied(mm)
  BY DEF CallAlloc, Idle, AllocFound, Found, MapInv, Quiet
<1>2. /\ way = "new" => AllocFault(mm) = "ok"
      /\ mm' = [m EXCEPT !.key = @ + 1] /\ ~Tied(m)
      /\ way = "new" => ~(/\ Empty(mm) /\ result <= ScavengedPage(mm)
                          /\ ScavengedPage(mm) < result + n)
  BY DEF CallAlloc, Sliced
<1>3. n \in Nat /\ Aligned(n) /\ n >= PageSize /\ 0 < n
  BY DEF Aligned, PageSize
<1>4. /\ v \in mm.tree /\ mm.entry[v].type = "conventional" /\ mm.entry[v].size >= n
      /\ mm.entry[v].size \in Nat
  BY <1>1, VictimIs, GoodIs
<1>5. result = IF way = "last" THEN Hi(mm, v) - n ELSE Key(mm, v)
  <2>1. result = TakenAt(mm, v, n, type)
    BY DEF AllocResult
  <2> QED BY <2>1 DEF TakenAt, Hi
<1>s. SUFFICES Alloced(mm, mm', result, result + n, type, p)
  OBVIOUS
<1> HIDE DEF n, v, result
<1>6. way # "whole" => n < mm.entry[v].size
  BY <1>3, <1>4, WayIs
<1>7. PICK b \in Int, c \in Int : /\ b = Key(mm, v) /\ c = Hi(mm, v) /\ n <= c - b
                                  /\ mm.entry[v].size = c - b
  BY <1>1, <1>4, Extent
<1>8. /\ b + n \in Int /\ b <= b /\ b + n <= c
      /\ c - n \in Int /\ b <= c - n /\ c <= c /\ (c - n) + n = c
  BY <1>3, <1>7
<1>9. /\ Clear(mm, v, Key(mm, v), Key(mm, v) + n)
      /\ Clear(mm, v, Hi(mm, v) - n, Hi(mm, v))
  <2>1. Clear(mm, v, b, b + n)
    BY <1>1, <1>4, <1>7, <1>8, QuietClear
  <2>2. Clear(mm, v, c - n, c)
    BY <1>1, <1>4, <1>7, <1>8, QuietClear
  <2> QED BY <1>7, <2>1, <2>2
<1>10. Ty(mm, v) = "conventional"
  BY <1>4 DEF Ty
<1>11. ASSUME result <= p, p < result + n PROVE Types(mm, p) = {"conventional"}
  <2>1. CASE way = "last"
    <3>1. c - n <= p /\ p < c
      BY <1>5, <1>7, <1>8, <1>11, <2>1
    <3> QED BY <1>1, <1>4, <1>7, <1>8, <1>9, <1>10, <3>1, ClearTypes
  <2>2. CASE way # "last"
    <3>1. b <= p /\ p < b + n
      BY <1>5, <1>7, <1>11, <2>2
    <3> QED BY <1>1, <1>4, <1>7, <1>8, <1>9, <1>10, <3>1, ClearTypes
  <2> QED BY <2>1, <2>2
<1>12. ASSUME NEW k, PageTakenOrNot(mm, k, p), TakenTypes(k, m, result, result + n, type, p)
       PROVE  Alloced(mm, m, result, result + n, type, p)
  <2> HIDE DEF m, way
  <2>1. CASE result <= p /\ p < result + n
    BY <1>11, <1>12, <2>1 DEF TakenTypes, Alloced
  <2>2. CASE ~(result <= p /\ p < result + n)
    BY <1>12, <2>2 DEF TakenTypes, Alloced, PageTakenOrNot
  <2> QED BY <2>1, <2>2
<1>13. PageTakenOrNot(mm, mm, p)
  BY DEF PageTakenOrNot
<1>14. Alloced(mm, m, result, result + n, type, p) /\ m \in Map
  <2>2. CASE way = "whole"
    <3>1. m = TakeWhole(mm, v, type) /\ result = Key(mm, v) /\ mm.entry[v].size = n
      BY <1>5, <2>2, WayIs
    <3>2. GoodMap(TakeWhole(mm, v, type))
      BY <1>1, <1>4, TakeWholeGood
    <3>3. TakenTypes(mm, TakeWhole(mm, v, type), Key(mm, v), Key(mm, v) + n, type, p)
      BY <1>1, <1>3, <1>4, <1>9, <3>1, TakeTypes
    <3> HIDE DEF m, way
    <3> QED BY <1>12, <1>13, <3>1, <3>2, <3>3 DEF GoodMap
  <2>3. CASE way = "first"
    <3>1. m = TakeFirst(mm, v, n) /\ PrevJoins(mm, v, type) /\ result = Key(mm, v)
      BY <1>5, <2>3, WayIs
    <3>2. GoodMap(TakeFirst(mm, v, n))
      BY <1>1, <1>3, <1>4, <1>6, <2>3, <3>1, TakeFirstGood
    <3>3. TakenTypes(mm, TakeFirst(mm, v, n), Key(mm, v), Key(mm, v) + n, type, p)
      BY <1>1, <1>3, <1>4, <1>6, <1>9, <2>3, <3>1, TakeTypes
    <3> HIDE DEF m, way
    <3> QED BY <1>12, <1>13, <3>1, <3>2, <3>3 DEF GoodMap
  <2>4. CASE way = "last"
    <3>1. m = TakeLast(mm, v, n) /\ NextJoins(mm, v, type) /\ result = Hi(mm, v) - n
      BY <1>5, <2>4, WayIs
    <3>2. GoodMap(TakeLast(mm, v, n))
      BY <1>1, <1>3, <1>4, <1>6, <2>4, <3>1, TakeLastGood
    <3>3. TakenTypes(mm, TakeLast(mm, v, n), Hi(mm, v) - n, Hi(mm, v), type, p)
      BY <1>1, <1>3, <1>4, <1>6, <1>9, <2>4, <3>1, TakeTypes
    <3>4. result + n = Hi(mm, v)
      BY <1>7, <1>8, <3>1
    <3> HIDE DEF m, way
    <3> QED BY <1>12, <1>13, <3>1, <3>2, <3>3, <3>4 DEF GoodMap
  <2>5. CASE way = "new"
    <3>1. m = Sliced(mm, v, n, type) /\ result = Key(mm, v)
      BY <1>5, <2>5
    <3>2. AllocFault(mm) = "ok" /\ ~Clobbers(mm, v, n)
      BY <1>2, <2>5, <3>1 DEF Clobbers
    <3>3. n < mm.entry[v].size
      BY <1>6, <2>5
    <3>4. Sliced(mm, v, n, type) \in Map
      BY <1>1, <1>3, <1>4, <3>2, <3>3, SlicedGood
    <3>5. ~Tied(Sliced(mm, v, n, type))
      BY <1>2, <3>1
    <3> HIDE DEF m, way
    <3>6. /\ TakenTypes(AllocEntry(mm), Sliced(mm, v, n, type), Key(mm, v), Key(mm, v) + n, type, p)
          /\ PageTakenOrNot(mm, AllocEntry(mm), p)
      BY <1>1, <1>3, <1>4, <3>2, <3>3, <3>5, SlicedTypes
    <3> QED BY <1>12, <3>1, <3>4, <3>6
  <2> QED BY <2>2, <2>3, <2>4, <2>5, WayIs
<1> HIDE DEF m
<1>15. mm'.tree = m.tree /\ mm'.entry = m.entry
  BY <1>2, <1>14 DEF Map
<1>16. Types(mm', p) = Types(m, p)
  BY <1>15 DEF Types, Covering, Key, Ty
<1> QED BY <1>14, <1>16 DEF Alloced, PageTakenOrNot

-----------------------------------------------------------------------------
(* A call that came in asks for its range, of a map without overlaps.      *)
LEMMA PageStart ==
  ASSUME NEW rk, IsRank(rk), NEW m, GoodMap(m), Quiet(m), NEW e \in Entry,
         NEW p \in PageAddr, NEW q, 1 \in 1 .. Len(q), q[1] = AddCall(e),
         \A i \in 1 .. Len(q) : i # 1 => q[i].op # "add",
         rk # Rank => Aligned(e.start) /\ Aligned(e.size)
  PROVE  PageOk(rk, m, q, View(m)[p], e, p)
<1> DEFINE old == View(m)[p]
           A == Asked(e, p)
<1>1. /\ old \in Type \cup {"none"} /\ "none" \notin Type
      /\ Types(m, p) = IF old = "none" THEN {} ELSE {old}
  BY ViewTypes, Ranks
<1>2. AskedBy(q[1], p) = A /\ q[1].op = "add" /\ q[1].arg = e
  BY DEF AskedBy, AddCall
<1>3. \A i \in 1 .. Len(q) : i # 1 => AskedBy(q[i], p) = {}
  BY DEF AskedBy
<1>4. Pends(q, p) = A
  BY <1>2, <1>3 DEF Pends
<1>5. LowerReady(rk, q, e, p)
  <2>1. ASSUME NEW i \in 2 .. Len(q) PROVE i \in 1 .. Len(q) /\ i # 1
    OBVIOUS
  <2> QED BY <1>3, <2>1 DEF LowerReady
<1>6. TopPage(rk, old, m, q, e, p)
  BY <1>1, <1>2 DEF TopPage, AddReady, Returning
<1>7. KnownTypes(m, q, old, e, p)
  BY <1>1, <1>4 DEF KnownTypes
<1>8. Reached(rk, Types(m, p) \cup A, old, Goal(rk, old, e, p))
  <2>1. CASE ~Part(e, p)
    <3>1. A = {} /\ Goal(rk, old, e, p) = old
      BY <2>1 DEF Asked, Goal
    <3> HIDE DEF old, A
    <3>2. CASE old = "none"
      BY <1>1, <3>1, <3>2 DEF Reached
    <3>3. CASE old # "none"
      <4>1. Types(m, p) \cup A = {old} /\ rk[old] <= rk[old]
        BY <1>1, <3>1, <3>3, Ranks
      <4> QED BY <3>1, <4>1 DEF Reached, Beats, Allowed
    <3> QED BY <3>2, <3>3
  <2>2. CASE Part(e, p)
    <3> DEFINE a == Given(e, p)
    <3>1. A = {a} /\ Goal(rk, old, e, p) = Raised(rk, old, a) /\ a \in Type
      BY <2>2, AskedType DEF Asked, Goal
    <3> HIDE DEF old, A, a
    <3>2. CASE old = "none"
      <4>1. Types(m, p) \cup A = {a} /\ rk[a] <= rk[a] /\ Raised(rk, old, a) = a
        BY <1>1, <3>1, <3>2, Ranks DEF Raised
      <4> QED BY <3>1, <4>1 DEF Reached, Beats, Allowed
    <3>3. CASE old # "none"
      <4> DEFINE h == Higher(rk, old, a)
      <4>1. Types(m, p) \cup A = {old, a} /\ Raised(rk, old, a) = h
        BY <1>1, <3>1, <3>3 DEF Raised
      <4>2. h \in {old, a} /\ rk[h] <= rk[old] /\ rk[h] <= rk[a]
        BY <1>1, <3>1, <3>3, HigherIs
      <4> HIDE DEF h
      <4> QED BY <3>1, <4>1, <4>2 DEF Reached, Beats, Allowed
    <3> QED BY <3>2, <3>3
  <2> QED BY <2>1, <2>2
<1> HIDE DEF old, A
<1>9. PageOk(rk, m, q, old, e, p)
  BY <1>4, <1>5, <1>6, <1>7, <1>8 DEF PageOk
<1> QED BY <1>9 DEF old
(* gd_alloc_pages returns the address of a page.                           *)
LEMMA ResultIsPage ==
  ASSUME MapInv, NEW type \in Type, NEW count \in Nat, count # 0, CallAlloc(type, count)
  PROVE  AllocResult(type, count) \in PageAddr
<1> DEFINE n == count * PageSize
           v == Victim(mm, n)
<1>1. GoodMap(mm) /\ Conventional(mm, n) # {}
  BY DEF CallAlloc, Idle, AllocFound, Found, MapInv
<1>2. n \in Nat /\ 0 < n /\ Aligned(n)
  <2>1. count * 4096 \in Nat /\ 0 < count * 4096 /\ (count * 4096) % 4096 = 0
    OBVIOUS
  <2> QED BY <2>1 DEF Aligned, PageSize
<1>3. AllocResult(type, count) = TakenAt(mm, v, n, type)
  BY DEF AllocResult
<1> HIDE DEF n
<1>4. v \in mm.tree /\ mm.entry[v].size >= n /\ mm.entry[v].size \in Nat
  BY <1>1, VictimIs, GoodIs
<1> HIDE DEF v
<1>5. n <= mm.entry[v].size
  BY <1>2, <1>4
<1>6. PICK a \in Nat : a = TakenAt(mm, v, n, type) /\ Aligned(a) /\ a + n <= Top
  BY <1>1, <1>2, <1>4, <1>5, PageIs
<1>7. a < Top
  BY <1>2, <1>6, TopNat
<1>8. a \in PageAddr
  BY <1>6, <1>7, PageAddrIs DEF Top
<1> QED BY <1>3, <1>6, <1>8

-----------------------------------------------------------------------------
(***************************************************************************)
(* The map's own invariant, whoever calls it, and what each call from      *)
(* outside and each step of a call does to it.                             *)
(***************************************************************************)
StackInv ==
  /\ BumpFollows(todo)
  /\ status = "ok" => (freeing => RestoreLast(todo)) /\ (~freeing => NoRestore(todo))

CallInv == MapInv /\ (status = "ok" => Orderly(mm, todo)) /\ StackInv

(* The call under way adds e, and every page is on its way to what that    *)
(* makes of it.                                                            *)
Ongoing(e) ==
  \A p \in PageAddr : /\ Asking(RankOf(freeing), before[p], e, p)
                      /\ PageOk(RankOf(freeing), mm, todo, before[p], e, p)

(* What a caller sees of the map: the map between calls, and what it was   *)
(* before the call that is under way.                                      *)
Seen == IF Idle THEN View(mm) ELSE before

LEMMA StepBegins ==
  ASSUME CallInv, Step
  PROVE  /\ status = "ok" /\ todo # <<>> /\ todo \in Seq(Pending) /\ GoodMap(mm)
         /\ MapInv /\ BumpFollows(todo) /\ Orderly(mm, todo) /\ FixOnTop(todo)
         /\ Seen = before
<1>1. todo # <<>> /\ status = "ok"
  BY DEF Step, AddEmpty, AddUnalignedStart, AddUnalignedEnd, AddNoSlot, AddNew, AddAtOld,
     AddsPages, Fix, FixPrev, Merge, Bump, Restore, Doing
<1> QED BY <1>1 DEF CallInv, StackInv, MapInv, Orderly, Seen, Idle

(* Between calls: no overlap, and the table is the usual one.              *)
LEMMA BetweenCalls ==
  ASSUME CallInv, Idle
  PROVE  /\ MapInv /\ GoodMap(mm) /\ Quiet(mm) /\ ~freeing /\ status = "ok" /\ todo = <<>>
         /\ Seen = View(mm) /\ View(mm) \in PageView
<1>1. MapInv /\ GoodMap(mm) /\ Orderly(mm, todo) /\ status = "ok" /\ todo = <<>>
  BY DEF CallInv, MapInv, Idle
<1>2. Quiet(mm)
  BY <1>1, OrderlyQuiet
<1>3. ~freeing
  BY <1>1 DEF CallInv, StackInv, RestoreLast
<1>4. View(mm) \in PageView
  BY <1>1, ViewIs
<1> QED BY <1>1, <1>2, <1>3, <1>4 DEF Seen, Idle

(* Nothing to do, in a map without overlaps.                               *)
LEMMA EmptyStack ==
  BumpFollows(<<>>) /\ NoRestore(<<>>) /\ \A m : Quiet(m) => Orderly(m, <<>>)
<1>1. /\ FixOnTop(<<>>) /\ AddsLast(<<>>) /\ BumpFollows(<<>>) /\ NoRestore(<<>>)
  BY DEF FixOnTop, AddsLast, BumpFollows, NoRestore
<1>2. ASSUME NEW m, Quiet(m) PROVE Orderly(m, <<>>)
  BY <1>1, <1>2, QuietOrderly
<1> QED BY <1>1, <1>2

LEMMA MapBegins == ASSUME MapInit PROVE CallInv /\ View(mm) = NoView /\ Idle
<1>2. NoEntry \in Entry
  BY DEF NoEntry, Region, Entry, Type
<1>3. <<Static, 0>> \in Slot /\ StaticSlots \in Nat
  BY SlotMaxNat, SlotsAssumption DEF Slot
<1>4. /\ mm \in Map /\ mm.tree = {} /\ mm.freed = <<>>
      /\ mm.next = <<Static, 0>> /\ mm.left = StaticSlots
  BY <1>2, <1>3 DEF MapInit, Map
<1>5. GoodMap(mm)
  BY <1>4, EmptyGood
<1>6. before \in PageView /\ todo \in Seq(Pending)
  BY DEF MapInit, NoView, PageView
<1>7. MapInv
  BY <1>4, <1>5, <1>6 DEF MapInit, MapInv
<1>8. Quiet(mm) /\ View(mm) = NoView
  BY <1>4 DEF Quiet, Tied, View, NoView, Covering
<1>9. CallInv
  BY <1>7, <1>8, EmptyStack DEF MapInit, CallInv, StackInv
<1> QED BY <1>8, <1>9 DEF MapInit, Idle

(* mmap_clean.                                                             *)
LEMMA Cleans ==
  ASSUME CallInv, CallClean PROVE CallInv' /\ View(mm') = NoView /\ Seen' = NoView /\ Idle'
<1>1. MapInv /\ Idle /\ ~freeing /\ status = "ok" /\ todo = <<>>
  BY BetweenCalls DEF CallClean
<1>2. mm \in Map /\ <<Static, 0>> \in Slot /\ StaticSlots \in Nat
  BY <1>1, SlotMaxNat, SlotsAssumption DEF MapInv, Slot
<1>3. /\ mm' \in Map /\ mm'.tree = {} /\ mm'.freed = <<>>
      /\ mm'.next = <<Static, 0>> /\ mm'.left = StaticSlots
  <2> DEFINE z == <<Static, 0>>
  <2>1. z \in Slot /\ <<>> \in Seq(Slot) /\ {} \in SUBSET Slot
    BY <1>2
  <2>2. mm' = [mm EXCEPT !.tree = {}, !.freed = <<>>, !.next = z, !.left = StaticSlots]
    BY DEF CallClean
  <2> HIDE DEF z
  <2>3. /\ mm' \in Map /\ mm'.tree = {} /\ mm'.freed = <<>>
        /\ mm'.next = z /\ mm'.left = StaticSlots
    BY <1>2, <2>1, <2>2 DEF Map
  <2> QED BY <2>3 DEF z
<1>4. GoodMap(mm')
  BY <1>3, EmptyGood
<1>5. UNCHANGED <<todo, freeing, status, before>>
  BY DEF CallClean
<1>6. MapInv'
  BY <1>1, <1>3, <1>4, <1>5 DEF MapInv
<1>7. Quiet(mm') /\ View(mm') = NoView
  BY <1>3 DEF Quiet, Tied, View, NoView, Covering
<1>8. CallInv'
  BY <1>1, <1>5, <1>6, <1>7, EmptyStack DEF CallInv, StackInv
<1> QED BY <1>1, <1>5, <1>7, <1>8 DEF Seen, Idle

(* mmap_add_entry(e) comes in.                                             *)
LEMMA AddComesIn ==
  ASSUME CallInv, NEW e, GoodArg(e), CallAdd(e)
  PROVE  CallInv' /\ Ongoing(e)' /\ Seen' = Seen /\ ~Idle' /\ freeing' = FALSE
<1>1. /\ Idle /\ todo' = <<AddCall(e)>> /\ before' = View(mm) /\ mm' = mm /\ freeing' = freeing
      /\ status' = status
  BY DEF CallAdd
<1>2. /\ MapInv /\ GoodMap(mm) /\ Quiet(mm) /\ ~freeing /\ status = "ok"
      /\ Seen = View(mm) /\ View(mm) \in PageView
  BY <1>1, BetweenCalls
<1>3. RankOf(freeing) = Rank /\ IsRank(Rank) /\ freeing = FALSE
  BY <1>2 DEF RankOf, IsRank, MapInv
<1>4. e \in Entry /\ AddCall(e) \in Pending
  BY PendingIs DEF GoodArg
<1>5. /\ Len(todo') = 1 /\ 1 \in 1 .. Len(todo') /\ todo'[1] = AddCall(e) /\ todo' # <<>>
      /\ todo' \in Seq(Pending) /\ AddCall(e).op = "add"
      /\ \A i \in 1 .. Len(todo') : i = 1
  BY <1>1, <1>4 DEF AddCall
<1>6. MapInv'
  BY <1>1, <1>2, <1>5 DEF MapInv
<1>7. BumpFollows(todo') /\ NoRestore(todo') /\ FixOnTop(todo') /\ AddsLast(todo')
  BY <1>5 DEF BumpFollows, NoRestore, FixOnTop, AddsLast
<1>8. Orderly(mm', todo')
  BY <1>1, <1>2, <1>5, <1>7, QuietOrderly
<1>9. CallInv'
  BY <1>1, <1>2, <1>6, <1>7, <1>8 DEF CallInv, StackInv
<1>10. ASSUME NEW p \in PageAddr
       PROVE  Asking(Rank, View(mm)[p], e, p) /\ PageOk(Rank, mm, todo', View(mm)[p], e, p)
  <2>1. Asking(Rank, View(mm)[p], e, p)
    BY <1>2, <1>3, <1>4, ViewTypes DEF Asking
  <2>2. \A i \in 1 .. Len(todo') : i # 1 => todo'[i].op # "add"
    BY <1>5
  <2>3. PageOk(Rank, mm, todo', View(mm)[p], e, p)
    BY <1>2, <1>3, <1>4, <1>5, <2>2, PageStart
  <2> QED BY <2>1, <2>3
<1>11. Ongoing(e)'
  BY <1>1, <1>3, <1>10 DEF Ongoing
<1> QED BY <1>1, <1>2, <1>3, <1>5, <1>9, <1>11 DEF Seen, Idle

(* gd_free_pages comes in.                                                 *)
LEMMA FreeComesIn ==
  ASSUME CallInv, NEW s \in PageAddr, NEW c \in Nat, s + c * PageSize <= Top,
         CallFree(s, c)
  PROVE  /\ CallInv' /\ Ongoing(Region(s, c * PageSize, "conventional"))'
         /\ Seen' = Seen /\ ~Idle' /\ freeing' = TRUE
<1> DEFINE e == Region(s, c * PageSize, "conventional")
<1>1. /\ Idle /\ todo' = <<AddCall(e), RestoreCall>> /\ before' = View(mm) /\ mm' = mm
      /\ freeing' = TRUE /\ status' = status
  BY DEF CallFree
<1>2. /\ MapInv /\ GoodMap(mm) /\ Quiet(mm) /\ status = "ok"
      /\ Seen = View(mm) /\ View(mm) \in PageView
  BY <1>1, BetweenCalls
<1>3. RankOf(freeing') = FreeRank /\ IsRank(FreeRank)
  BY <1>1 DEF RankOf, IsRank
<1>n. PICK k \in Nat : k = c * PageSize /\ Aligned(k) /\ s + k <= Top
  <2>1. c * 4096 \in Nat /\ (c * 4096) % 4096 = 0
    OBVIOUS
  <2> QED BY <2>1 DEF Aligned, PageSize
<1>4. /\ e \in Entry /\ GoodArg(e) /\ e.start = s /\ e.size = k
      /\ e.start \in Nat /\ e.size \in Nat /\ Aligned(e.start) /\ Aligned(e.size)
      /\ e.type = "conventional"
  <2>1. s \in Nat /\ Aligned(s) /\ e = Region(s, k, "conventional")
    BY <1>n, PageNumber DEF Aligned, PageSize
  <2> HIDE DEF e
  <2> QED BY <1>n, <2>1 DEF Region, Entry, Type, GoodArg, End
<1> HIDE DEF e
<1>5. AddCall(e) \in Pending /\ RestoreCall \in Pending
  BY <1>4, PendingIs
<1>6. /\ Len(todo') = 2 /\ 1 .. 2 = {1, 2} /\ todo'[1] = AddCall(e) /\ todo'[2] = RestoreCall
      /\ todo' # <<>> /\ todo' \in Seq(Pending) /\ AddCall(e).op = "add"
      /\ RestoreCall.op = "restore"
  BY <1>1, <1>5 DEF AddCall, RestoreCall
<1>7. MapInv'
  BY <1>1, <1>2, <1>6 DEF MapInv
<1>8. BumpFollows(todo') /\ RestoreLast(todo') /\ FixOnTop(todo') /\ AddsLast(todo')
  BY <1>6 DEF BumpFollows, RestoreLast, FixOnTop, AddsLast
<1>9. Orderly(mm', todo')
  BY <1>1, <1>2, <1>6, <1>8, QuietOrderly
<1>10. CallInv'
  BY <1>1, <1>7, <1>8, <1>9 DEF CallInv, StackInv
<1>11. ASSUME NEW p \in PageAddr
       PROVE  /\ Asking(FreeRank, View(mm)[p], e, p)
              /\ PageOk(FreeRank, mm, todo', View(mm)[p], e, p)
  <2>1. Asked(e, p) \subseteq {"conventional"}
    BY <1>4, AskedWhole
  <2>2. Asking(FreeRank, View(mm)[p], e, p)
    BY <1>2, <1>3, <1>4, <2>1, ViewTypes DEF Asking
  <2>3. PageOk(FreeRank, mm, todo', View(mm)[p], e, p)
    BY <1>2, <1>3, <1>4, <1>6, PageStart
  <2> QED BY <2>2, <2>3
<1>12. Ongoing(e)'
  BY <1>1, <1>3, <1>11 DEF Ongoing
<1> QED BY <1>1, <1>2, <1>6, <1>10, <1>12 DEF Seen, Idle, e

(* gd_alloc_pages.                                                         *)
LEMMA AllocGoesOn ==
  ASSUME CallInv, NEW type \in Type, NEW count \in Nat, count # 0, CallAlloc(type, count)
  PROVE  CallInv' /\ todo' = <<>>
<1>1. /\ Idle /\ MapInv /\ Quiet(mm) /\ ~freeing /\ todo = <<>> /\ todo' = todo
      /\ freeing' = freeing
  BY BetweenCalls DEF CallAlloc
<1>2. MapInv'
  BY <1>1, CallAllocGood
<1>3. status' = "ok" => Quiet(mm')
  BY <1>1, CallAllocQuiet
<1> QED BY <1>1, <1>2, <1>3, EmptyStack DEF CallInv, StackInv

(* A step of the call under way keeps every page on its way.               *)
Stays(e) ==
  \A p \in PageAddr : Asking(RankOf(freeing), before[p], e, p) /\ Paged(before[p], e, p)

LEMMA RunStays == ASSUME CallInv, Step, NEW e, Ongoing(e) PROVE Stays(e)
<1>1. /\ todo # <<>> /\ status = "ok" /\ MapInv /\ todo \in Seq(Pending) /\ GoodMap(mm)
      /\ Orderly(mm, todo) /\ FixOnTop(todo)
  BY StepBegins
<1>2. ASSUME NEW p \in PageAddr
      PROVE  Asking(RankOf(freeing), before[p], e, p) /\ Paged(before[p], e, p)
  <2>1. /\ Asking(RankOf(freeing), before[p], e, p)
        /\ PageOk(RankOf(freeing), mm, todo, before[p], e, p)
    BY DEF Ongoing
  <2>2. Going(RankOf(freeing), mm, todo, before[p], e, p)
    BY <1>1, <2>1 DEF Going
  <2> QED BY <1>1, <2>1, <2>2, StepPaged
<1> QED BY <1>2 DEF Stays

LEMMA RunKeeps ==
  ASSUME CallInv, Step
  PROVE  /\ CallInv'
         /\ status' = "ok" /\ todo' # <<>> =>
              /\ freeing' = freeing /\ before' = before
              /\ \A e : Ongoing(e) => Ongoing(e)'
<1>1. /\ todo # <<>> /\ status = "ok" /\ MapInv /\ todo \in Seq(Pending) /\ BumpFollows(todo)
      /\ Orderly(mm, todo)
  BY StepBegins
<1>2. MapInv' /\ BumpFollows(todo') /\ (status' = "ok" => Orderly(mm', todo'))
  BY <1>1, StepsGood, StepUpwards, StepOrdered DEF Upwards, Ordered
<1>3. CASE status' # "ok"
  BY <1>2, <1>3 DEF CallInv, StackInv
<1>4. CASE status' = "ok"
  <2>2. PICK q \in Seq(Pending) :
          /\ Then(q) /\ NoRestore(q)
          /\ \/ todo[1].op # "restore" /\ freeing' = freeing
             \/ todo[1].op = "restore" /\ freeing' = FALSE /\ q = <<>>
    BY <1>1, <1>4, StepStack DEF StackStep
  <2>3. todo' = Replaced(todo, q) /\ (todo' # <<>> => before' = before)
    BY <2>2 DEF Then, Replaced
  <2>4. freeing \in BOOLEAN /\ (freeing => RestoreLast(todo)) /\ (~freeing => NoRestore(todo))
    BY <1>1 DEF CallInv, StackInv, MapInv
  <2>5. CASE todo[1].op = "restore"
    <3>1. ~NoRestore(todo)
      <4>1. Len(todo) \in Nat /\ Len(todo) # 0
        BY <1>1, EmptySeq
      <4>2. 1 \in 1 .. Len(todo)
        BY <4>1
      <4> QED BY <2>5, <4>2 DEF NoRestore
    <3>2. RestoreLast(todo)
      BY <2>4, <3>1
    <3>3. todo' = <<>> /\ freeing' = FALSE
      BY <1>1, <2>2, <2>3, <2>5, <3>2, RestoreKept
    <3> QED BY <1>2, <3>3, EmptyStack DEF CallInv, StackInv
  <2>6. CASE todo[1].op # "restore"
    <3>1. freeing' = freeing
      BY <2>2, <2>6
    <3>2. /\ freeing => RestoreLast(todo')
          /\ ~freeing => NoRestore(todo')
      BY <1>1, <2>2, <2>3, <2>4, <2>6, RestoreKept
    <3>3. ASSUME todo' # <<>>, NEW e, Ongoing(e) PROVE Ongoing(e)'
      <4>1. Stays(e)
        BY <3>3, RunStays
      <4>2. before' = before
        BY <2>3, <3>3
      <4>3. \A p \in PageAddr : /\ Asking(RankOf(freeing'), before'[p], e, p)
                                /\ PageOk(RankOf(freeing'), mm', todo', before'[p], e, p)
        BY <1>4, <3>1, <4>1, <4>2 DEF Stays, Paged, PageGoes
      <4> QED BY <4>3 DEF Ongoing
    <3>4. CallInv'
      BY <1>2, <3>1, <3>2 DEF CallInv, StackInv
    <3> QED BY <2>3, <3>1, <3>3, <3>4
  <2> QED BY <2>5, <2>6
<1> QED BY <1>3, <1>4

(* A call that returns made of every page what its table says.             *)
Became(rk, e) ==
  \A p \in PageAddr : Seen'[p] \in Allowed(Seen[p], Goal(rk, Seen[p], e, p))

LEMMA ReachedView ==
  ASSUME NEW rk, NEW m, GoodMap(m), Quiet(m), NEW p \in PageAddr, NEW old, NEW f,
         Reached(rk, Types(m, p), old, f)
  PROVE  View(m)[p] \in Allowed(old, f)
<1>1. Types(m, p) = IF View(m)[p] = "none" THEN {} ELSE {View(m)[p]}
  BY ViewTypes
<1>2. f \in Allowed(old, f)
  BY DEF Allowed
<1> QED BY <1>1, <1>2 DEF Reached

Returns ==
  /\ status' = "ok" /\ todo' = <<>> /\ Seen' \in PageView
  /\ \A e : Ongoing(e) => Became(RankOf(freeing), e)

LEMMA RunDoes ==
  ASSUME CallInv, Step
  PROVE  /\ Seen = before /\ (Seen' = Seen \/ Returns)
         /\ status' = "ok" /\ todo' = <<>> => Returns
<1>1. /\ todo # <<>> /\ status = "ok" /\ MapInv /\ todo \in Seq(Pending) /\ BumpFollows(todo)
      /\ Seen = before
  BY StepBegins
<1>2. CallInv'
  BY RunKeeps
<1>3. CASE status' # "ok"
  <2>1. before' = before
    BY <1>1, <1>3, FaultKeepsView
  <2> QED BY <1>1, <1>3, <2>1 DEF Seen, Idle
<1>4. CASE status' = "ok" /\ todo' # <<>>
  <2>1. before' = before
    BY <1>4, RunKeeps
  <2> QED BY <1>1, <1>4, <2>1 DEF Seen, Idle
<1>5. CASE status' = "ok" /\ todo' = <<>>
  <2>1. Seen' = View(mm')
    BY <1>5 DEF Seen, Idle
  <2>2. GoodMap(mm') /\ Orderly(mm', todo')
    BY <1>2, <1>5 DEF CallInv, MapInv
  <2>3. Quiet(mm')
    BY <1>5, <2>2, OrderlyQuiet
  <2>4. Seen' \in PageView
    BY <2>1, <2>2, ViewIs
  <2>6. ASSUME NEW e, Ongoing(e) PROVE Became(RankOf(freeing), e)
    <3>s. Stays(e)
      BY <2>6, RunStays
    <3>1. ASSUME NEW p \in PageAddr
          PROVE  View(mm')[p] \in Allowed(before[p], Goal(RankOf(freeing), before[p], e, p))
      <4> DEFINE f == Goal(RankOf(freeing), before[p], e, p)
      <4>1. PageOk(RankOf(freeing), mm', todo', before[p], e, p)
        BY <1>5, <3>s DEF Stays, Paged, PageGoes
      <4>2. Pends(todo', p) = {}
        BY <1>5 DEF Pends
      <4>3. Reached(RankOf(freeing), Types(mm', p), before[p], f)
        BY <4>1, <4>2 DEF PageOk
      <4> HIDE DEF f
      <4>4. View(mm')[p] \in Allowed(before[p], f)
        BY <2>2, <2>3, <4>3, ReachedView
      <4> QED BY <4>4 DEF f
    <3> QED BY <1>1, <2>1, <3>1 DEF Became
  <2> QED BY <1>1, <1>5, <2>4, <2>6 DEF Returns
<1> QED BY <1>1, <1>3, <1>4, <1>5

(* mmap_add_entry leaves a guarded page guarded.                           *)
LEMMA AddGuards ==
  ASSUME NEW old, Guarded(old), NEW e \in Entry, NEW p, NEW t,
         t \in Allowed(old, Goal(Rank, old, e, p))
  PROVE  Guarded(t)
<1> DEFINE f == Goal(Rank, old, e, p)
<1>1. old \in Type /\ Rank[old] < Rank["conventional"] /\ old # "none" /\ old # "conventional"
  BY GuardedIs DEF Guarded
<1>2. Guarded(f)
  <2>1. CASE ~Part(e, p)
    BY <2>1 DEF Goal
  <2>2. CASE Part(e, p)
    <3> DEFINE a == Given(e, p)
               h == Higher(Rank, old, a)
    <3>1. a \in Type /\ f = h
      BY <1>1, <2>2, AskedType DEF Asked, Goal, Raised
    <3>2. h \in Type /\ Rank[h] <= Rank[old] /\ IsRank(Rank)
      BY <1>1, <3>1, HigherIs DEF IsRank
    <3>3. Rank[h] \in Int /\ Rank[old] \in Int /\ Rank["conventional"] \in Int
      BY <1>1, <3>2, Ranks
    <3> HIDE DEF f, h
    <3> QED BY <1>1, <3>1, <3>2, <3>3 DEF Guarded
  <2> QED BY <2>1, <2>2
<1> HIDE DEF f
<1>3. f # "conventional"
  BY <1>2, GuardedIs
<1>4. t = f
  BY <1>1, <1>3 DEF Allowed, f
<1> QED BY <1>2, <1>4

=============================================================================
