-------------------------- MODULE MemoryMapClient --------------------------
(***************************************************************************)
(* The memory map (MemoryMap) under arbitrary callers: any sequence of     *)
(* mmap_add_entry, gd_alloc_pages, gd_free_pages, mmap_clean and mmap_get, *)
(* where a caller only frees what it was given.                            *)
(***************************************************************************)
EXTENDS MemoryMap

CONSTANTS
  AddInputs,    \* the entries passed to mmap_add_entry
  AllocTypes,   \* the types passed to gd_alloc_pages
  AllocCounts,  \* the page counts passed to gd_alloc_pages
  GetSizes,     \* the table sizes passed to mmap_get
  CallKinds,    \* which of the five functions are called
  MaxCalls      \* bound on the number of calls

ASSUME InputsAssumption ==
  /\ \A e \in AddInputs : /\ e \in Entry /\ e.start >= 0 /\ e.size >= 0
                           /\ End(e) <= NumPages * PageSize
  /\ AllocTypes \subseteq Type \ {"conventional"}
  /\ AllocCounts \subseteq Nat /\ GetSizes \subseteq Nat
  /\ CallKinds \subseteq {"add", "alloc", "free", "clean", "get"}
  /\ MaxCalls \in Nat

VARIABLES
  granted,  \* the ranges gd_alloc_pages returned and nobody freed
  snapshot, \* what the last mmap_get returned
  calls,    \* calls made so far
  asked     \* the last call that changes the map, kept for PageMapCalls

vars == <<mm, todo, freeing, status, before, granted, snapshot, calls, asked>>

Grant == [start : Int, count : Nat, type : Type]
Whole == Region(0, NumPages * PageSize, "conventional")
NoSnapshot == [needed |-> 0, table |-> {}, key |-> -1]

Ask(kind, e) == asked' = [kind |-> kind, range |-> e]

Calling(kind) == kind \in CallKinds /\ calls < MaxCalls /\ calls' = calls + 1

Add(e) ==
  /\ Calling("add") /\ CallAdd(e) /\ Ask("add", e)
  /\ UNCHANGED <<granted, snapshot>>

AllocPages(type, count) ==
  /\ Calling("alloc") /\ count # 0 /\ CallAlloc(type, count)
  /\ Ask("alloc", Region(0, count * PageSize, type))
  /\ granted' = IF status' \in {"ok", "clobbered"}
                THEN granted \cup {[start |-> AllocResult(type, count),
                                    count |-> count, type |-> type]}
                ELSE granted
  /\ UNCHANGED snapshot

(* gd_alloc_pages of no pages returns 0 at once; without a large enough    *)
(* entry it returns ENOMEM.                                                *)
AllocNothing(type, count) ==
  /\ Idle /\ Calling("alloc") /\ (count = 0 \/ ~AllocFound(type, count))
  /\ UNCHANGED <<mm, todo, freeing, status, before, granted, snapshot, asked>>

FreePages(r) ==
  /\ Calling("free") /\ CallFree(r.start, r.count)
  /\ Ask("free", Region(r.start, r.count * PageSize, "conventional"))
  /\ granted' = granted \ {r}
  /\ UNCHANGED snapshot

(* The map is emptied: whoever called gd_alloc_pages lost its memory.      *)
Clean ==
  /\ Calling("clean") /\ CallClean /\ Ask("clean", Whole)
  /\ granted' = {}
  /\ UNCHANGED snapshot

(* mmap_get: the first n entries, how many there are, and the key.         *)
Table(m, n) ==
  {m.entry[s] : s \in {t \in m.tree : Cardinality(Below(m, t)) < n}}

Get(n) ==
  /\ Idle /\ Calling("get")
  /\ snapshot' = [needed |-> Cardinality(mm.tree), table |-> Table(mm, n),
                  key |-> mm.key]
  /\ UNCHANGED <<mm, todo, freeing, status, before, granted, asked>>

Run == Step /\ UNCHANGED <<granted, snapshot, calls, asked>>

Init ==
  /\ MapInit /\ granted = {} /\ snapshot = NoSnapshot /\ calls = 0
  /\ asked = [kind |-> "none", range |-> Whole]

Next ==
  \/ Run
  \/ \E e \in AddInputs : Add(e)
  \/ \E type \in AllocTypes, count \in AllocCounts :
       AllocPages(type, count) \/ AllocNothing(type, count)
  \/ \E r \in granted : FreePages(r)
  \/ Clean
  \/ \E n \in GetSizes : Get(n)

Spec == Init /\ [][Next]_vars

-----------------------------------------------------------------------------
(* Types.                                                                  *)
TypeOK ==
  /\ mm \in Map
  /\ todo \in Seq(Call)
  /\ freeing \in BOOLEAN
  /\ status \in {"ok"} \cup Fault
  /\ before \in [PageAddr -> Type \cup {"none"}]
  /\ granted \subseteq Grant
  /\ calls \in Nat

(* No mmap_entry is used twice: the tree, the list of freed entries and    *)
(* the pool share no slot and the list holds none twice.  Recursion,       *)
(* merging and scavenging all move slots between the three.                *)
SlotAccounting ==
  status = "ok" =>
    /\ \A s \in mm.tree : s \notin Pool(mm) /\ ~InFreed(mm, s)
    /\ \A s \in Pool(mm) : ~InFreed(mm, s)
    /\ \A i, j \in DOMAIN mm.freed : mm.freed[i] = mm.freed[j] => i = j

(* The pages scavenged for slots never come back as conventional memory,   *)
(* so none is scavenged twice while its slots are in use.                  *)
SlotPagesKept == status # "reused"

(* Every entry of the tree is a non-empty run of whole pages, in the       *)
(* middle of a call too: no subtraction of sizes in fix_overlap,           *)
(* mmap_add_entry or the slicing code goes to zero or below.               *)
WholePages ==
  status = "ok" =>
    \A s \in mm.tree : LET e == mm.entry[s]
                       IN e.size > 0 /\ Aligned(e.start) /\ Aligned(e.size)

(* Between calls no two entries overlap: the one fix_overlap for the new   *)
(* entry, the one for its predecessor and the calls these make are enough, *)
(* whatever was inserted over whatever was there.                          *)
NoOverlap ==
  Idle => \A s, t \in mm.tree :
            s # t => ~Overlapping(mm.entry[s], mm.entry[t])

(* A caller's pages are never conventional memory again (so no later       *)
(* gd_alloc_pages hands them out) until it frees them, and no two callers  *)
(* hold the same page.                                                     *)
GrantsHeld ==
  Idle => \A r \in granted :
            /\ \A p \in PageAddr :
                 r.start <= p /\ p < r.start + r.count * PageSize
                   => View(mm)[p] \notin {"conventional", "none"}
            /\ \A q \in granted \ {r} :
                 \/ q.start + q.count * PageSize <= r.start
                 \/ r.start + r.count * PageSize <= q.start

(* A table obtained with mmap_get is still the memory map as long as the   *)
(* key obtained with it is current (mmap_clean apart, which leaves the key *)
(* as it was).                                                             *)
KeyTracksMap ==
  Idle /\ snapshot.key = mm.key =>
    /\ snapshot.needed = Cardinality(mm.tree)
    /\ snapshot.table \subseteq {mm.entry[s] : s \in mm.tree}

(* The map does what PageMapCalls says: when a call returns, every page    *)
(* has the type the precedence tables promote it to for the range of that  *)
(* call, whatever entries, recursion, merging and scavenging it took to    *)
(* get there.  A call that ends in a fault never returns, so its caller    *)
(* sees nothing of it.                                                     *)
PM == INSTANCE PageMapCalls WITH
        pages <- IF Idle THEN View(mm) ELSE before, call <- asked, busy <- ~Idle
ImplementsPageMap == PM!Spec

-----------------------------------------------------------------------------
(* What comments and assertions of bal/mmap.c say, and the code does not   *)
(* always do.                                                              *)

(* The assertions panic("Bad memory map tree?") never fire: after a        *)
(* collision the rest of the new entry starts where nothing else does.     *)
TreeInsertSucceeds == status # "tree"

(* The pages gd_alloc_pages returned are the caller's: none of them holds  *)
(* entries of the map, in use or still in the pool.                        *)
GrantsExclusive ==
  \A r \in granted, s \in mm.tree \cup Pool(mm) :
    s[1] < r.start \/ s[1] >= r.start + r.count * PageSize

=============================================================================
