----------------------- MODULE MemoryMapClientProofs -----------------------
(***************************************************************************)
(* What the memory map does for its callers, for every number of pages and *)
(* of slots, any entries and any number of calls: types, whole pages, slot *)
(* accounting, the key of mmap_get, no overlap between calls, the          *)
(* refinement of PageMapCalls, the callers' ownership of their pages and   *)
(* the map's own of the pages it keeps its entries in.  The map's own      *)
(* invariant and what each step does to it are in MemoryMapProofs.         *)
(***************************************************************************)
EXTENDS MemoryMapClient, MemoryMapProofs

(* What gd_alloc_pages returned, and the range that the call under way     *)
(* adds, with which table.                                                 *)
GoodGrant(r) ==
  /\ r \in Grant /\ r.start \in PageAddr /\ r.count \in AllocCounts
  /\ r.start + r.count * PageSize <= Top

Requested(fr, e) ==
  /\ fr => \E s \in PageAddr, c \in AllocCounts :
             e = Region(s, c * PageSize, "conventional")
  /\ ~fr => e \in AddInputs

Underway ==
  /\ asked = [kind |-> IF freeing THEN "free" ELSE "add", range |-> asked.range]
  /\ Requested(freeing, asked.range) /\ Ongoing(asked.range)

IInv ==
  /\ CallInv
  /\ \A r \in granted : GoodGrant(r)
  /\ calls \in Nat
  /\ status = "ok" /\ todo # <<>> => Underway

LEMMA InitGood == Init => IInv
<1>1. SUFFICES ASSUME Init PROVE IInv
  OBVIOUS
<1>2. CallInv /\ Idle
  BY <1>1, MapBegins DEF Init
<1> QED BY <1>1, <1>2 DEF Init, IInv, Idle

LEMMA FreeUnderway ==
  ASSUME IInv, NEW r \in granted, FreePages(r)
  PROVE  LET e == Region(r.start, r.count * PageSize, "conventional")
         IN  /\ CallInv' /\ Requested(freeing', e) /\ Ongoing(e)'
             /\ Seen' = Seen /\ ~Idle' /\ freeing' = TRUE
             /\ asked' = [kind |-> "free", range |-> e]
<1> DEFINE e == Region(r.start, r.count * PageSize, "conventional")
<1>1. GoodGrant(r) /\ CallInv /\ CallFree(r.start, r.count)
  BY DEF IInv, FreePages
<1>2. /\ r.start \in PageAddr /\ r.count \in Nat /\ r.count \in AllocCounts
      /\ r.start + r.count * PageSize <= Top
  BY <1>1, InputsAssumption DEF GoodGrant
<1>3. CallInv' /\ Ongoing(e)' /\ Seen' = Seen /\ ~Idle' /\ freeing' = TRUE
  BY <1>1, <1>2, FreeComesIn
<1>4. Requested(freeing', e)
  BY <1>2, <1>3 DEF Requested
<1>5. asked' = [kind |-> "free", range |-> e]
  BY DEF FreePages, Ask
<1> QED BY <1>3, <1>4, <1>5

LEMMA AddUnderway ==
  ASSUME IInv, NEW e \in AddInputs, Add(e)
  PROVE  /\ CallInv' /\ Requested(freeing', e) /\ Ongoing(e)' /\ freeing' = FALSE
         /\ Seen' = Seen /\ ~Idle' /\ asked' = [kind |-> "add", range |-> e]
<1>1. CallInv /\ CallAdd(e) /\ GoodArg(e)
  BY InputsAssumption DEF IInv, Add, GoodArg, Top
<1>2. CallInv' /\ Ongoing(e)' /\ Seen' = Seen /\ ~Idle' /\ freeing' = FALSE
  BY <1>1, AddComesIn
<1>3. asked' = [kind |-> "add", range |-> e]
  BY DEF Add, Ask
<1> QED BY <1>2, <1>3 DEF Requested

LEMMA AllocGrants ==
  ASSUME IInv, NEW type \in AllocTypes, NEW count \in AllocCounts, AllocPages(type, count)
  PROVE  CallInv' /\ todo' = <<>> /\ \A r \in granted' : GoodGrant(r)
<1>1. type \in Type /\ count \in Nat /\ CallInv
  BY InputsAssumption DEF IInv
<1>2. /\ CallAlloc(type, count) /\ count # 0
      /\ \A r \in granted' : r \in granted
           \/ r = [start |-> AllocResult(type, count), count |-> count, type |-> type]
  BY DEF AllocPages
<1>3. CallInv' /\ todo' = <<>>
  BY <1>1, <1>2, AllocGoesOn
<1>4. /\ AllocResult(type, count) \in Nat /\ AllocResult(type, count) + count * PageSize <= Top
  BY <1>1, <1>2, CallAllocGood DEF CallInv
<1>5. AllocResult(type, count) \in PageAddr
  BY <1>1, <1>2, ResultIsPage DEF CallInv
<1>6. PICK a \in Nat : a = AllocResult(type, count) /\ a \in PageAddr /\ a + count * PageSize <= Top
  BY <1>4, <1>5
<1>7. GoodGrant([start |-> a, count |-> count, type |-> type])
  BY <1>1, <1>6 DEF GoodGrant, Grant
<1> QED BY <1>2, <1>3, <1>6, <1>7 DEF IInv

LEMMA RunGoesOn == ASSUME IInv, Run PROVE IInv'
<1>1. CallInv /\ Step /\ UNCHANGED <<granted, calls, asked>>
  BY DEF IInv, Run
<1>2. status = "ok" /\ todo # <<>> /\ CallInv'
  BY <1>1, StepBegins, RunKeeps
<1>3. Underway
  BY <1>2 DEF IInv
<1>4. ASSUME status' = "ok", todo' # <<>> PROVE Underway'
  <2>1. PICK e : e = asked.range /\ e = asked'.range
    BY <1>1
  <2>2. Ongoing(e)
    BY <1>3, <2>1 DEF Underway, Ongoing
  <2>3. freeing' = freeing /\ Ongoing(e)'
    BY <1>1, <1>4, <2>2, RunKeeps
  <2>4. Ongoing(asked.range)'
    BY <2>1, <2>3 DEF Ongoing
  <2> QED BY <1>1, <1>3, <2>3, <2>4 DEF Underway
<1> QED BY <1>1, <1>2, <1>4 DEF IInv

LEMMA NextGood == IInv /\ [Next]_vars => IInv'
<1>1. SUFFICES ASSUME IInv, [Next]_vars PROVE IInv'
  OBVIOUS
<1>2. CASE Run
  BY <1>1, <1>2, RunGoesOn
<1>3. ASSUME NEW e \in AddInputs, Add(e) PROVE IInv'
  <2>1. /\ CallInv' /\ Requested(freeing', e) /\ Ongoing(e)' /\ freeing' = FALSE
        /\ asked' = [kind |-> "add", range |-> e]
    BY <1>1, <1>3, AddUnderway
  <2>2. Ongoing(asked.range)'
    BY <2>1 DEF Ongoing
  <2>3. granted' = granted /\ calls' = calls + 1 /\ Underway'
    BY <1>3, <2>1, <2>2 DEF Add, Calling, Underway
  <2> QED BY <1>1, <2>1, <2>3 DEF IInv
<1>4. ASSUME NEW type \in AllocTypes, NEW count \in AllocCounts, AllocPages(type, count)
      PROVE  IInv'
  <2>1. CallInv' /\ todo' = <<>> /\ \A r \in granted' : GoodGrant(r)
    BY <1>1, <1>4, AllocGrants
  <2>2. calls' = calls + 1
    BY <1>4 DEF AllocPages, Calling
  <2> QED BY <1>1, <2>1, <2>2 DEF IInv
<1>5. ASSUME NEW r \in granted, FreePages(r) PROVE IInv'
  <2> DEFINE e == Region(r.start, r.count * PageSize, "conventional")
  <2>1. /\ CallInv' /\ Requested(freeing', e) /\ Ongoing(e)' /\ freeing' = TRUE
        /\ asked' = [kind |-> "free", range |-> e]
    BY <1>1, <1>5, FreeUnderway
  <2> HIDE DEF e
  <2>2. Ongoing(asked.range)'
    BY <2>1 DEF Ongoing
  <2>3. granted' \subseteq granted /\ calls' = calls + 1 /\ Underway'
    BY <1>5, <2>1, <2>2 DEF FreePages, Calling, Underway
  <2> QED BY <1>1, <2>1, <2>3 DEF IInv
<1>6. CASE Clean
  <2>1. CallClean /\ granted' = {} /\ calls' = calls + 1
    BY <1>6 DEF Clean, Calling
  <2>2. CallInv' /\ Idle'
    BY <1>1, <2>1, Cleans DEF IInv
  <2> QED BY <1>1, <2>1, <2>2 DEF IInv, Idle
<1>7. CASE \/ \E type \in AllocTypes, count \in AllocCounts : AllocNothing(type, count)
           \/ \E n \in GetSizes : Get(n)
           \/ UNCHANGED vars
  <2>1. UNCHANGED <<mm, todo, freeing, status, before, granted, asked>> /\ calls' \in Nat
    BY <1>1, <1>7 DEF AllocNothing, Get, Calling, vars, IInv
  <2>2. CallInv' = CallInv /\ Underway' = Underway
    BY <2>1 DEF CallInv, MapInv, StackInv, Underway, Ongoing
  <2> QED BY <1>1, <2>1, <2>2 DEF IInv
<1> QED BY <1>1, <1>2, <1>3, <1>4, <1>5, <1>6, <1>7 DEF Next

THEOREM Inductive == Spec => []IInv
BY InitGood, NextGood, PTL DEF Spec

(* mm, the call stack and the callers' ranges keep their types: slot       *)
(* pointers stay inside the static array or a page of memory, for any      *)
(* number of slots, any memory and any callers.                            *)
THEOREM TypeCorrect == Spec => []TypeOK
<1>1. IInv => TypeOK
  <2>1. SUFFICES ASSUME IInv PROVE TypeOK
    OBVIOUS
  <2>2. todo \in Seq(Call)
    <3>1. Pending \subseteq Call
      BY DEF Pending
    <3>2. todo \in Seq(Pending)
      BY <2>1 DEF IInv, CallInv, MapInv
    <3> QED BY <3>1, <3>2
  <2>3. granted \subseteq Grant
    BY <2>1 DEF IInv, GoodGrant
  <2>4. MapInv /\ calls \in Nat
    BY <2>1 DEF IInv, CallInv
  <2> QED BY <2>2, <2>3, <2>4 DEF MapInv, TypeOK, PageView
<1> QED BY <1>1, Inductive, PTL

(* mmap_add_entry, fix_overlap, merge_adjacent and the slicing of entries  *)
(* never leave an entry that is empty, negative or not a run of whole      *)
(* pages in the tree.                                                      *)
THEOREM WholePagesAlways == Spec => []WholePages
<1>1. IInv => WholePages
  BY GoodIs DEF IInv, CallInv, MapInv, WholePages, GoodMap
<1> QED BY <1>1, Inductive, PTL

(* No mmap_entry is in the tree, on the list of freed entries and in the   *)
(* pool, or in two of them, or on the list twice.                          *)
THEOREM SlotsAccounted == Spec => []SlotAccounting
<1>1. IInv => SlotAccounting
  <2>1. SUFFICES ASSUME GoodMap(mm)
                 PROVE  /\ \A s \in mm.tree : s \notin Pool(mm) /\ ~InFreed(mm, s)
                        /\ \A s \in Pool(mm) : ~InFreed(mm, s)
                        /\ \A i, j \in DOMAIN mm.freed : mm.freed[i] = mm.freed[j] => i = j
    BY DEF IInv, CallInv, MapInv, SlotAccounting
  <2>2. DOMAIN mm.freed = 1 .. Len(mm.freed)
    BY <2>1, LenProperties DEF GoodMap, Map
  <2> QED BY <2>1, <2>2 DEF GoodMap, Accounted, Unique
<1> QED BY <1>1, Inductive, PTL

-----------------------------------------------------------------------------
(***************************************************************************)
(* The key: no table of mmap_get is current by its key and stale.          *)
(***************************************************************************)
TableCurrent ==
  /\ snapshot.needed = Cardinality(mm.tree)
  /\ snapshot.table \subseteq {mm.entry[s] : s \in mm.tree}

KeyInv ==
  /\ snapshot.key \in Int /\ snapshot.key <= mm.key
  /\ BumpFollows(todo)
  /\ status = "ok" /\ snapshot.key = mm.key => Bumps(todo) \/ TableCurrent

LEMMA KeyInit == Init => KeyInv
BY DEF Init, MapInit, KeyInv, NoSnapshot, BumpFollows

LEMMA KeyNext ==
  ASSUME "clean" \notin CallKinds
  PROVE  IInv /\ KeyInv /\ [Next]_vars => KeyInv'
<1>1. SUFFICES ASSUME IInv, KeyInv, [Next]_vars PROVE KeyInv'
  OBVIOUS
<1>2. /\ MapInv /\ mm.key \in Nat
      /\ snapshot.key \in Int /\ snapshot.key <= mm.key /\ BumpFollows(todo)
      /\ (status = "ok" /\ snapshot.key = mm.key => Bumps(todo) \/ TableCurrent)
  BY <1>1 DEF IInv, CallInv, MapInv, Map, KeyInv
<1>3. CASE Run
  <2>1. Upwards /\ snapshot' = snapshot /\ status = "ok"
    BY <1>2, <1>3, StepUpwards DEF Run, Step, AddEmpty, AddUnalignedStart,
       AddUnalignedEnd, AddNoSlot, AddNew, AddAtOld, AddsPages, Fix, FixPrev,
       Merge, Bump, Restore, Doing
  <2>2. mm'.key \in Nat /\ mm'.key >= mm.key /\ BumpFollows(todo')
    BY <2>1 DEF Upwards
  <2>3. ASSUME status' = "ok", snapshot'.key = mm'.key PROVE Bumps(todo') \/ TableCurrent'
    <3>1. ~(mm'.key > mm.key)
      BY <1>2, <2>1, <2>2, <2>3
    <3>2. Bumps(todo') \/ (mm' = mm /\ (Bumps(todo) => Bumps(todo')))
      BY <2>1, <2>3, <3>1 DEF Upwards
    <3> QED BY <1>2, <2>1, <2>3, <3>2 DEF TableCurrent
  <2> QED BY <1>2, <2>1, <2>2, <2>3 DEF KeyInv
<1>4. ASSUME NEW type \in AllocTypes, NEW count \in AllocCounts,
             AllocPages(type, count)
      PROVE  KeyInv'
  <2>1. /\ type \in Type /\ count \in Nat /\ CallAlloc(type, count) /\ count # 0
        /\ snapshot' = snapshot
    BY <1>4, InputsAssumption DEF AllocPages
  <2>2. /\ mm'.key \in Nat /\ mm'.key >= mm.key /\ todo' = todo
        /\ status' = "ok" => mm'.key > mm.key
    BY <1>2, <2>1, CallAllocUpwards
  <2> QED BY <1>2, <2>1, <2>2 DEF KeyInv
<1>5. ASSUME Idle, mm' = mm, status' = status, snapshot' = snapshot,
             BumpFollows(todo')
      PROVE  KeyInv'
  <2>1. ~Bumps(todo)
    BY <1>5 DEF Idle, Bumps
  <2> QED BY <1>2, <1>5, <2>1 DEF KeyInv, TableCurrent
<1>6. CASE \/ \E e \in AddInputs : Add(e)
           \/ \E r \in granted : FreePages(r)
           \/ \E type \in AllocTypes, count \in AllocCounts : AllocNothing(type, count)
  <2>1. Idle /\ mm' = mm /\ status' = status /\ snapshot' = snapshot
    BY <1>6 DEF Add, CallAdd, FreePages, CallFree, AllocNothing
  <2>2. \/ todo' = todo \/ \E e : todo' = <<AddCall(e)>>
        \/ \E e : todo' = <<AddCall(e), RestoreCall>>
    BY <1>6 DEF Add, CallAdd, FreePages, CallFree, AllocNothing
  <2>3. \A e : BumpFollows(<<AddCall(e)>>) /\ BumpFollows(<<AddCall(e), RestoreCall>>)
    BY DEF BumpFollows, AddCall, RestoreCall
  <2> QED BY <1>2, <1>5, <2>1, <2>2, <2>3
<1>7. ASSUME NEW n \in GetSizes, Get(n) PROVE KeyInv'
  <2>1. /\ snapshot' = [needed |-> Cardinality(mm.tree), table |-> Table(mm, n),
                        key |-> mm.key]
        /\ mm' = mm /\ todo' = todo
    BY <1>7 DEF Get
  <2>2. Table(mm, n) \subseteq {mm.entry[s] : s \in mm.tree}
    BY DEF Table
  <2> QED BY <1>2, <2>1, <2>2 DEF KeyInv, TableCurrent
<1>8. CASE UNCHANGED vars
  BY <1>2, <1>8 DEF vars, KeyInv, TableCurrent
<1>9. ~Clean
  BY DEF Clean, Calling
<1> QED BY <1>1, <1>3, <1>4, <1>6, <1>7, <1>8, <1>9 DEF Next

(* A table obtained with mmap_get is the memory map for as long as its key *)
(* is mmap_key: whatever mmap_add_entry, gd_alloc_pages and gd_free_pages  *)
(* did in between raised the key.  mmap_clean, which does not touch the    *)
(* key, must not be called.                                                *)
THEOREM KeyTracksMapAlways ==
  ASSUME "clean" \notin CallKinds
  PROVE  Spec => []KeyTracksMap
<1>1. KeyInv => KeyTracksMap
  BY DEF KeyInv, KeyTracksMap, Idle, Bumps, TableCurrent
<1>2. Init => KeyInv
  BY KeyInit
<1>3. IInv /\ KeyInv /\ [Next]_vars => KeyInv'
  BY KeyNext
<1> QED BY <1>1, <1>2, <1>3, Inductive, PTL DEF Spec

(* Between calls no two entries of the map overlap, whatever was added     *)
(* over whatever was there, allocated, freed or scavenged: the calls of    *)
(* fix_overlap for the new entry and for its predecessor, and the calls    *)
(* these make, are enough.                                                 *)
THEOREM NoOverlapAlways == Spec => []NoOverlap
<1>1. IInv => NoOverlap
  <2>1. SUFFICES ASSUME IInv, Idle, NEW s \in mm.tree, NEW t \in mm.tree, s # t,
                        Overlapping(mm.entry[s], mm.entry[t])
                 PROVE  FALSE
    BY DEF NoOverlap
  <2>2. GoodMap(mm) /\ Quiet(mm)
    BY <2>1, BetweenCalls DEF IInv
  <2>4. /\ Key(mm, s) \in Int /\ Hi(mm, s) \in Int /\ Key(mm, t) \in Int /\ Hi(mm, t) \in Int
    BY <2>2, Extents
  <2>5. Key(mm, s) < Hi(mm, t) /\ Key(mm, t) < Hi(mm, s)
    BY <2>1 DEF Overlapping, Key, Hi
  <2>6. Key(mm, s) # Key(mm, t) /\ ~Meets(mm, s, t) /\ ~Meets(mm, t, s)
    BY <2>1, <2>2 DEF Quiet, Tied
  <2> QED BY <2>4, <2>5, <2>6 DEF Meets
<1> QED BY <1>1, Inductive, PTL

-----------------------------------------------------------------------------
(***************************************************************************)
(* The refinement of PageMapCalls: what a caller sees of the map (Seen).   *)
(***************************************************************************)
LEMMA SameNotions ==
  /\ PM!PageAddr = PageAddr /\ PM!PageType = Type \cup {"none"} /\ PM!PageSize = PageSize
  /\ \A e : PM!End(e) = End(e)
  /\ \A a, n, t : PM!Region(a, n, t) = Region(a, n, t)
  /\ \A fr, a, b : PM!HigherPrecedence(fr, a, b) = HigherPrecedence(fr, a, b)
<1>1. PM!PageAddr = PageAddr /\ PM!PageSize = PageSize
  BY DEF PM!PageAddr, PageAddr, PM!PageSize, PageSize
<1>2. PM!PageType = Type \cup {"none"} /\ PM!Type = Type
  BY DEF PM!PageType, PM!Type, Type
<1>3. \A e : PM!End(e) = End(e)
  BY DEF PM!End, End
<1>4. \A a, n, t : PM!Region(a, n, t) = Region(a, n, t)
  BY DEF PM!Region, Region
<1>5. \A w, t : PM!Position(w, t) = Position(w, t)
  BY DEF PM!Position, Position
<1>6. /\ PM!OverlapPrecedence = OverlapPrecedence
      /\ PM!FreeOverlapPrecedence = FreeOverlapPrecedence
  BY DEF PM!OverlapPrecedence, OverlapPrecedence, PM!FreeOverlapPrecedence,
     FreeOverlapPrecedence
<1>7. PM!Rank = Rank /\ PM!FreeRank = FreeRank
  BY <1>2, <1>5, <1>6 DEF PM!Rank, Rank, PM!FreeRank, FreeRank
<1>8. \A fr, a, b : PM!HigherPrecedence(fr, a, b) = HigherPrecedence(fr, a, b)
  BY <1>7 DEF PM!HigherPrecedence, HigherPrecedence
<1> QED BY <1>1, <1>2, <1>3, <1>4, <1>8

LEMMA SamePromotion ==
  /\ \A old, new : /\ PM!Promoted(FALSE, old, new) = Raised(Rank, old, new)
                   /\ PM!Promoted(TRUE, old, new) = Raised(FreeRank, old, new)
  /\ \A p, f : PM!OrScavenged(p, f) = Allowed(Seen[p], f)
<1>1. \A a, b : /\ PM!HigherPrecedence(FALSE, a, b) = Higher(Rank, a, b)
                /\ PM!HigherPrecedence(TRUE, a, b) = Higher(FreeRank, a, b)
  BY SameNotions, HigherIs DEF RankOf
<1>2. \A old, new : /\ PM!Promoted(FALSE, old, new) = Raised(Rank, old, new)
                    /\ PM!Promoted(TRUE, old, new) = Raised(FreeRank, old, new)
  BY <1>1 DEF PM!Promoted, Raised
<1>3. \A p, f : PM!OrScavenged(p, f) = Allowed(Seen[p], f)
  BY <1>2 DEF PM!OrScavenged, Allowed, Seen
<1> QED BY <1>2, <1>3

LEMMA SameGoal ==
  ASSUME NEW e \in Entry, NEW p \in PageAddr
  PROVE  /\ PM!With(FALSE, e, p) = Goal(Rank, Seen[p], e, p)
         /\ PM!With(TRUE, e, p) = Goal(FreeRank, Seen[p], e, p)
<1>1. PM!Covers(e, p) <=> Full(e, p)
  BY SameNotions DEF PM!Covers, Full
<1>2. PM!Touches(e, p) <=> Part(e, p)
  BY SameNotions DEF PM!Touches, Part
<1>3. Full(e, p) => Part(e, p)
  <2>1. PICK a \in Int, n \in Int, b \in Int :
          a = e.start /\ n = e.size /\ End(e) = a + n /\ b = p
    BY PageNumber DEF Entry, End
  <2> QED BY <2>1 DEF Full, Part, PageSize
<1> QED BY <1>1, <1>2, <1>3, SamePromotion DEF PM!With, Goal, Given, Seen

LEMMA AddAbstract ==
  ASSUME NEW e \in AddInputs, Seen' \in PageView, Became(Rank, e) PROVE PM!Add(e)
<1>1. e \in Entry
  BY InputsAssumption
<1>2. \A p \in PageAddr : Seen'[p] \in PM!OrScavenged(p, PM!With(FALSE, e, p))
  BY <1>1, SameGoal, SamePromotion DEF Became
<1> QED BY <1>2, SameNotions DEF PM!Add, PM!Becomes, PageView, Seen

LEMMA FreeAbstract ==
  ASSUME NEW s \in PageAddr, NEW c \in AllocCounts, Seen' \in PageView,
         Became(FreeRank, Region(s, c * PageSize, "conventional"))
  PROVE  PM!Free(Region(s, c * PageSize, "conventional"))
<1> DEFINE e == Region(s, c * PageSize, "conventional")
<1>1. e \in Entry
  <2>1. c * PageSize \in Int /\ s \in Int
    BY InputsAssumption, PageNumber DEF PageSize
  <2> QED BY <2>1 DEF Region, Entry, Type
<1>2. \A p \in PageAddr : Seen'[p] \in PM!OrScavenged(p, PM!With(TRUE, e, p))
  BY <1>1, SameGoal, SamePromotion DEF Became
<1> QED BY <1>2, SameNotions DEF PM!Free, PM!Becomes, PageView, Seen

Allotted(s, n, type) ==
  \A p \in PageAddr :
    IF s <= p /\ p < s + n THEN Seen[p] = "conventional" /\ Seen'[p] = type
    ELSE \/ Seen'[p] = Seen[p]
         \/ Seen[p] = "conventional" /\ Seen'[p] = "loader_data"

LEMMA AllocAbstract ==
  ASSUME NEW s \in PageAddr, NEW c \in AllocCounts, NEW type \in AllocTypes,
         Seen' \in PageView, Allotted(s, c * PageSize, type)
  PROVE  PM!Alloc(Region(s, c * PageSize, type))
<1> DEFINE e == Region(s, c * PageSize, type)
<1>1. ASSUME NEW p \in PageAddr
      PROVE  PM!Covers(e, p) <=> s <= p /\ p < s + c * PageSize
  <2>1. /\ c \in Nat /\ s \in Nat /\ s % 4096 = 0 /\ p \in Nat /\ p % 4096 = 0
    BY InputsAssumption, PageNumber
  <2>2. PICK n \in Nat : n = c * PageSize /\ n % 4096 = 0
    <3>1. c * 4096 \in Nat /\ (c * 4096) % 4096 = 0
      BY <2>1
    <3> QED BY <3>1 DEF PageSize
  <2>3. (s + n) % 4096 = 0
    BY <2>1, <2>2
  <2>4. p < s + n <=> p + 4096 <= s + n
    <3>1. PICK x \in Nat, y \in Nat : x = s + n /\ x % 4096 = 0 /\ y = p /\ y % 4096 = 0
      BY <2>1, <2>3
    <3>2. y < x <=> y + 4096 <= x
      BY <3>1
    <3> QED BY <3>1, <3>2
  <2>5. e.start = s /\ End(e) = s + n
    BY <2>2 DEF Region, End
  <2> QED BY <2>2, <2>4, <2>5, SameNotions DEF PM!Covers, PageSize
<1>2. Raised(Rank, "conventional", "loader_data") = "loader_data"
  <2>1. /\ Rank["loader_data"] \in Int /\ Rank["conventional"] \in Int
        /\ Rank["loader_data"] < Rank["conventional"]
    BY Ranks DEF IsRank
  <2> QED BY <2>1 DEF Raised, Higher
<1>3. e.type = type
  BY DEF Region
<1> HIDE DEF e
<1>4. ASSUME NEW p \in PageAddr
      PROVE  /\ PM!Covers(e, p) => Seen[p] = "conventional"
             /\ Seen'[p] \in PM!OrScavenged(p, IF PM!Covers(e, p) THEN type ELSE Seen[p])
  <2>1. CASE PM!Covers(e, p)
    <3>1. Seen[p] = "conventional" /\ Seen'[p] = type
      BY <1>1, <2>1 DEF Allotted
    <3> QED BY <2>1, <3>1, SamePromotion DEF Allowed
  <2>2. CASE ~PM!Covers(e, p)
    <3>1. \/ Seen'[p] = Seen[p]
          \/ Seen[p] = "conventional" /\ Seen'[p] = "loader_data"
      BY <1>1, <2>2 DEF Allotted
    <3>2. Seen'[p] \in Allowed(Seen[p], Seen[p])
      BY <1>2, <3>1 DEF Allowed
    <3> QED BY <2>2, <3>2, SamePromotion
  <2> QED BY <2>1, <2>2
<1>5. PM!Alloc(e)
  BY <1>3, <1>4, SameNotions DEF PM!Alloc, PM!Becomes, PageView, Seen
<1> QED BY <1>5 DEF e

LEMMA CleanAbstract == ASSUME Seen' = NoView PROVE PM!Clean
BY SameNotions DEF PM!Clean, Seen, NoView

LEMMA RequestKinds ==
  /\ \A e \in AddInputs : [kind |-> "add", range |-> e] \in PM!Requests
  /\ \A s \in PageAddr, c \in AllocCounts :
       [kind |-> "free", range |-> Region(s, c * PageSize, "conventional")] \in PM!Requests
  /\ \A c \in AllocCounts, t \in AllocTypes :
       [kind |-> "alloc", range |-> Region(0, c * PageSize, t)] \in PM!Requests
  /\ [kind |-> "clean", range |-> Whole] \in PM!Requests
<1>1. \A e \in AddInputs : [kind |-> "add", range |-> e] \in PM!Requests
  BY DEF PM!Requests
<1>2. \A s \in PageAddr, c \in AllocCounts :
        [kind |-> "free", range |-> Region(s, c * PageSize, "conventional")] \in PM!Requests
  <2> SUFFICES ASSUME NEW s \in PageAddr, NEW c \in AllocCounts
               PROVE  [kind |-> "free", range |-> Region(s, c * PageSize, "conventional")]
                        \in PM!Requests
    OBVIOUS
  <2>1. PM!Region(s, c * PM!PageSize, "conventional") = Region(s, c * PageSize, "conventional")
    BY SameNotions
  <2>2. s \in PM!PageAddr
    BY SameNotions
  <2> QED BY <2>1, <2>2 DEF PM!Requests
<1>3. \A c \in AllocCounts, t \in AllocTypes :
        [kind |-> "alloc", range |-> Region(0, c * PageSize, t)] \in PM!Requests
  <2> SUFFICES ASSUME NEW c \in AllocCounts, NEW t \in AllocTypes
               PROVE  [kind |-> "alloc", range |-> Region(0, c * PageSize, t)] \in PM!Requests
    OBVIOUS
  <2>1. PM!Region(0, c * PM!PageSize, t) = Region(0, c * PageSize, t)
    BY SameNotions
  <2> QED BY <2>1 DEF PM!Requests
<1>4. [kind |-> "clean", range |-> Whole] \in PM!Requests
  <2>1. PM!Whole = Whole
    BY SameNotions DEF PM!Whole, Whole
  <2> QED BY <2>1 DEF PM!Requests
<1> QED BY <1>1, <1>2, <1>3, <1>4

(* A call, a return, and a step a caller sees nothing of.                  *)
LEMMA Calls ==
  ASSUME asked' \in PM!Requests, Idle, ~Idle', Seen' = Seen PROVE PM!Next
<1>1. PM!Called(asked')
  BY DEF PM!Called, Seen
<1> QED BY <1>1 DEF PM!Next

LEMMA Comes ==
  ASSUME asked' \in PM!Requests, ~Idle => asked' = asked, Idle', PM!Effect(asked')
  PROVE  PM!Next
<1>1. PM!Returned(asked')
  BY DEF PM!Returned
<1> QED BY <1>1 DEF PM!Next

Hidden == Seen' = Seen /\ asked' = asked /\ (Idle' <=> Idle)

(* Every step of the memory map is a step of PageMapCalls, or is           *)
(* invisible: the step that ends a call is the return of that call.        *)
LEMMA RunAbstract == ASSUME IInv, Run PROVE PM!Next \/ Hidden
<1>1. CallInv /\ MapInv /\ status = "ok" /\ todo # <<>> /\ Step /\ asked' = asked /\ ~Idle
  BY StepBegins DEF IInv, Run, Idle
<1>2. CASE ~Idle'
  <2>1. Seen' = Seen
    BY <1>1, <1>2, RunDoes DEF Returns, Idle
  <2> QED BY <1>1, <1>2, <2>1 DEF Hidden
<1>3. CASE Idle'
  <2> DEFINE e == asked.range
  <2>1. /\ Requested(freeing, e) /\ Ongoing(e)
        /\ asked = [kind |-> IF freeing THEN "free" ELSE "add", range |-> e]
    BY <1>1 DEF IInv, Underway
  <2> HIDE DEF e
  <2>2. Seen' \in PageView /\ Became(RankOf(freeing), e)
    BY <1>1, <1>3, <2>1, RunDoes DEF Returns, Idle
  <2>3. freeing \in BOOLEAN
    BY <1>1 DEF MapInv
  <2>4. CASE freeing
    <3>1. RankOf(freeing) = FreeRank
      BY <2>4 DEF RankOf
    <3>2. PICK s \in PageAddr, c \in AllocCounts : e = Region(s, c * PageSize, "conventional")
      BY <2>1, <2>4 DEF Requested
    <3>3. PM!Free(e)
      BY <2>2, <3>1, <3>2, FreeAbstract
    <3>4. PM!Effect(asked')
      BY <1>1, <2>1, <2>4, <3>3 DEF PM!Effect
    <3>5. asked' \in PM!Requests
      BY <1>1, <2>1, <2>4, <3>2, RequestKinds
    <3> QED BY <1>1, <1>3, <3>4, <3>5, Comes
  <2>5. CASE ~freeing
    <3>1. RankOf(freeing) = Rank /\ e \in AddInputs
      BY <2>1, <2>5 DEF RankOf, Requested
    <3>2. PM!Add(e)
      BY <2>2, <3>1, AddAbstract
    <3>3. PM!Effect(asked')
      BY <1>1, <2>1, <2>5, <3>2 DEF PM!Effect
    <3>4. asked' \in PM!Requests
      BY <1>1, <2>1, <2>5, <3>1, RequestKinds
    <3> QED BY <1>1, <1>3, <3>3, <3>4, Comes
  <2> QED BY <2>3, <2>4, <2>5
<1> QED BY <1>2, <1>3

LEMMA AllocDoes ==
  ASSUME IInv, IInv', NEW type \in AllocTypes, NEW count \in AllocCounts,
         count # 0, CallAlloc(type, count)
  PROVE  /\ status' # "ok" => Seen' = Seen
         /\ status' = "ok" => /\ Seen' \in PageView /\ AllocResult(type, count) \in PageAddr
                              /\ Allotted(AllocResult(type, count), count * PageSize, type)
<1>1. type \in Type /\ count \in Nat /\ CallInv /\ CallInv' /\ MapInv /\ Idle
  BY InputsAssumption DEF IInv, CallInv, CallAlloc
<1>2. Seen = View(mm) /\ todo = <<>> /\ todo' = <<>> /\ status = "ok"
  BY <1>1 DEF Seen, Idle, CallAlloc
<1>3. GoodMap(mm) /\ Quiet(mm)
  BY <1>1, BetweenCalls
<1>4. CASE status' # "ok"
  <2>1. before' = View(mm)
    BY <1>4 DEF CallAlloc
  <2> QED BY <1>2, <1>4, <2>1 DEF Seen, Idle
<1>5. CASE status' = "ok"
  <2>1. Seen' = View(mm')
    BY <1>2, <1>5 DEF Seen, Idle
  <2>2. GoodMap(mm') /\ Quiet(mm')
    BY <1>1, <1>2, <1>5, OrderlyQuiet DEF CallInv, MapInv
  <2>3. Seen' \in PageView
    BY <2>1, <2>2, ViewIs
  <2> DEFINE s == AllocResult(type, count)
             n == count * PageSize
  <2>4. s \in PageAddr
    BY <1>1, ResultIsPage
  <2>5. ASSUME NEW p \in PageAddr PROVE Alloced(mm, mm', s, s + n, type, p)
    <3>1. p \in Int
      BY PageNumber
    <3> QED BY <1>1, <1>3, <1>5, <3>1, CallAllocTypes
  <2> HIDE DEF s, n
  <2>6. Allotted(s, n, type)
    <3>1. ASSUME NEW p \in PageAddr
          PROVE  IF s <= p /\ p < s + n THEN View(mm)[p] = "conventional" /\ View(mm')[p] = type
                 ELSE \/ View(mm')[p] = View(mm)[p]
                      \/ View(mm)[p] = "conventional" /\ View(mm')[p] = "loader_data"
      <4> DEFINE u == View(mm)[p]
                 w == View(mm')[p]
      <4>1. /\ Types(mm, p) = IF u = "none" THEN {} ELSE {u}
            /\ Types(mm', p) = IF w = "none" THEN {} ELSE {w}
        BY <1>3, <2>2, ViewTypes
      <4> HIDE DEF u, w
      <4>2. Alloced(mm, mm', s, s + n, type, p)
        BY <2>5
      <4>3. IF s <= p /\ p < s + n THEN u = "conventional" /\ w = type
            ELSE w = u \/ (u = "conventional" /\ w = "loader_data")
        <5>1. CASE s <= p /\ p < s + n
          BY <4>1, <4>2, <5>1 DEF Alloced
        <5>2. CASE ~(s <= p /\ p < s + n)
          BY <4>1, <4>2, <5>2 DEF Alloced, PageTakenOrNot
        <5> QED BY <5>1, <5>2
      <4> QED BY <4>3 DEF u, w
    <3> QED BY <1>2, <2>1, <3>1 DEF Allotted
  <2> QED BY <1>5, <2>3, <2>4, <2>6 DEF s, n
<1> QED BY <1>4, <1>5

LEMMA NextAbstract ==
  IInv /\ IInv' /\ [Next]_vars => PM!Next \/ Hidden
<1>1. SUFFICES ASSUME IInv, IInv', [Next]_vars PROVE PM!Next \/ Hidden
  OBVIOUS
<1>2. CASE Run
  BY <1>1, <1>2, RunAbstract
<1>3. ASSUME NEW type \in AllocTypes, NEW count \in AllocCounts, AllocPages(type, count)
      PROVE  PM!Next
  <2> DEFINE n == count * PageSize
             s == AllocResult(type, count)
  <2>1. /\ CallAlloc(type, count) /\ count # 0 /\ Idle /\ todo' = todo
        /\ asked' = [kind |-> "alloc", range |-> Region(0, n, type)]
    BY <1>3 DEF AllocPages, CallAlloc, Ask
  <2>2. asked' \in PM!Requests
    BY <2>1, RequestKinds
  <2>3. CASE status' = "ok"
    <3>1. /\ Seen' \in PageView /\ s \in PageAddr /\ Allotted(s, n, type)
      BY <1>1, <2>1, <2>3, AllocDoes
    <3> HIDE DEF s
    <3>2. PM!Alloc(Region(s, n, type))
      BY <3>1, AllocAbstract
    <3>3. asked'.kind = "alloc" /\ asked'.range.size = n /\ asked'.range.type = type
      BY <2>1 DEF Region
    <3> HIDE DEF n
    <3>4. PM!Effect(asked')
      BY <3>1, <3>2, <3>3, SameNotions DEF PM!Effect
    <3>5. Idle'
      BY <2>1, <2>3 DEF Idle
    <3> QED BY <2>1, <2>2, <3>4, <3>5, Comes
  <2>4. CASE status' # "ok"
    <3>1. Seen' = Seen /\ ~Idle'
      BY <1>1, <2>1, <2>4, AllocDoes DEF Idle
    <3> QED BY <2>1, <2>2, <3>1, Calls
  <2> QED BY <2>3, <2>4
<1>4. ASSUME NEW e \in AddInputs, Add(e) PROVE PM!Next
  <2>1. /\ Seen' = Seen /\ ~Idle' /\ asked' = [kind |-> "add", range |-> e]
    BY <1>1, <1>4, AddUnderway
  <2>2. Idle
    BY <1>4 DEF Add, CallAdd
  <2> QED BY <2>1, <2>2, RequestKinds, Calls
<1>5. ASSUME NEW r \in granted, FreePages(r) PROVE PM!Next
  <2> DEFINE e == Region(r.start, r.count * PageSize, "conventional")
  <2>1. /\ Seen' = Seen /\ ~Idle' /\ asked' = [kind |-> "free", range |-> e]
    BY <1>1, <1>5, FreeUnderway
  <2>2. Idle
    BY <1>5 DEF FreePages, CallFree
  <2>3. r.start \in PageAddr /\ r.count \in AllocCounts
    BY <1>1 DEF IInv, GoodGrant
  <2> QED BY <2>1, <2>2, <2>3, RequestKinds, Calls
<1>6. CASE Clean
  <2>1. CallClean /\ Idle /\ asked' = [kind |-> "clean", range |-> Whole]
    BY <1>6 DEF Clean, CallClean, Ask
  <2>2. Idle' /\ Seen' = NoView
    BY <1>1, <2>1, Cleans DEF IInv
  <2>3. PM!Effect(asked')
    BY <2>1, <2>2, CleanAbstract DEF PM!Effect
  <2> QED BY <2>1, <2>2, <2>3, RequestKinds, Comes
<1>7. CASE \/ \E type \in AllocTypes, count \in AllocCounts : AllocNothing(type, count)
           \/ \E n \in GetSizes : Get(n)
           \/ UNCHANGED vars
  <2>1. UNCHANGED <<mm, todo, status, before, asked>>
    BY <1>7 DEF AllocNothing, Get, vars
  <2> QED BY <2>1 DEF Hidden, Seen, Idle
<1> QED BY <1>1, <1>2, <1>3, <1>4, <1>5, <1>6, <1>7 DEF Next

(* The memory map does what PageMapCalls says: when a call returns, every  *)
(* page has the type the precedence tables promote it to for the range of  *)
(* that very call, for every number of pages, of slots and of calls, and   *)
(* whatever entries, recursion of fix_overlap, merging and scavenging it   *)
(* took to get there.                                                      *)
THEOREM MapImplementsPages == Spec => ImplementsPageMap
<1>1. Init => PM!CallsInit
  <2>1. SUFFICES ASSUME Init PROVE PM!CallsInit
    OBVIOUS
  <2>2. View(mm) = NoView /\ Idle
    BY <2>1, MapBegins DEF Init
  <2>3. PM!Init
    BY <2>2, SameNotions DEF PM!Init, NoView
  <2>4. asked = [kind |-> "none", range |-> PM!Whole]
    BY <2>1, SameNotions DEF Init, Whole, PM!Whole
  <2> QED BY <2>2, <2>3, <2>4 DEF PM!CallsInit
<1>2. IInv /\ IInv' /\ [Next]_vars
        => [PM!Next]_<<IF Idle THEN View(mm) ELSE before, asked, ~Idle>>
  BY NextAbstract DEF Hidden, Seen
<1> QED BY <1>1, <1>2, Inductive, PTL
        DEF Spec, ImplementsPageMap, PM!Spec

-----------------------------------------------------------------------------
(***************************************************************************)
(* What callers were given.  Their pages have types that come before       *)
(* conventional memory in the precedence table, so that no mmap_add_entry  *)
(* makes them conventional, and gd_free_pages is called for others.        *)
(***************************************************************************)
Within(r, p) == r.start <= p /\ p < r.start + r.count * PageSize
Apart(r, q) == \/ q.start + q.count * PageSize <= r.start
               \/ r.start + r.count * PageSize <= q.start

Held ==
  /\ \A r \in granted : \A p \in PageAddr : Within(r, p) => Guarded(Seen[p])
  /\ \A r, q \in granted : r # q => Apart(r, q)
  /\ \A r \in granted : r.count # 0

(* The range being freed is nobody's any more.                             *)
Leaves(e) == \A r \in granted : \/ End(e) <= r.start
                                \/ r.start + r.count * PageSize <= e.start

Freed == \E e : Requested(TRUE, e) /\ Ongoing(e) /\ Leaves(e)

GInv ==
  status = "ok" => Held /\ (todo # <<>> /\ freeing => Freed)

(* gd_free_pages leaves the pages of others as they are.                   *)
LEMMA FreeGuards ==
  ASSUME NEW old, Guarded(old), NEW rk, NEW s \in PageAddr, NEW c \in Nat, NEW p \in PageAddr,
         NEW e, e = Region(s, c * PageSize, "conventional"), ~(s <= p /\ p < End(e)),
         NEW t, t \in Allowed(old, Goal(rk, old, e, p))
  PROVE  t = old
<1>1. PICK n \in Nat : n = c * PageSize /\ Aligned(n)
  <2>1. c * 4096 \in Nat /\ (c * 4096) % 4096 = 0
    OBVIOUS
  <2> QED BY <2>1 DEF Aligned, PageSize
<1>2. /\ e \in Entry /\ e.start = s /\ e.start \in Nat /\ e.size \in Nat /\ Aligned(e.start)
      /\ Aligned(e.size)
  <2>1. s \in Nat /\ Aligned(s) /\ e = Region(s, n, "conventional")
    BY <1>1, PageNumber DEF Aligned, PageSize
  <2> QED BY <1>1, <2>1 DEF Region, Entry, Type
<1>3. Asked(e, p) = {}
  BY <1>2, AskedWhole
<1>4. ~Part(e, p)
  BY <1>3 DEF Asked
<1>5. old # "conventional"
  BY GuardedIs
<1> QED BY <1>4, <1>5 DEF Goal, Allowed

LEMMA GrantNumbers ==
  ASSUME IInv, NEW r \in granted
  PROVE  /\ r.start \in PageAddr /\ r.start \in Int /\ r.count \in Nat
         /\ r.start + r.count * PageSize \in Int
<1>1. r.start \in PageAddr /\ r.count \in Nat
  BY InputsAssumption DEF IInv, GoodGrant
<1>2. r.start \in Int
  BY <1>1, PageNumber
<1> QED BY <1>1, <1>2 DEF PageSize

LEMMA RunHolds ==
  ASSUME IInv, GInv, Step, granted' = granted, status' = "ok"
  PROVE  Held'
<1>1. status = "ok" /\ todo # <<>> /\ MapInv /\ CallInv
  BY StepBegins DEF IInv
<1>2. Held /\ freeing \in BOOLEAN
  BY <1>1 DEF GInv, MapInv
<1>3. CASE Seen' = Seen
  BY <1>2, <1>3 DEF Held
<1>4. CASE Returns
  <2>1. ASSUME NEW r \in granted, NEW p \in PageAddr, Within(r, p) PROVE Guarded(Seen'[p])
    <3>1. Guarded(Seen[p])
      BY <1>2, <2>1 DEF Held
    <3>2. CASE ~freeing
      <4>1. PICK e : Requested(freeing, e) /\ Ongoing(e)
        BY <1>1 DEF IInv, Underway
      <4>2. e \in AddInputs /\ RankOf(freeing) = Rank
        BY <3>2, <4>1 DEF Requested, RankOf
      <4>3. e \in Entry
        BY <4>2, InputsAssumption
      <4>4. Seen'[p] \in Allowed(Seen[p], Goal(Rank, Seen[p], e, p))
        BY <1>4, <4>1, <4>2 DEF Returns, Became
      <4> QED BY <3>1, <4>3, <4>4, AddGuards
    <3>3. CASE freeing
      <4>1. PICK e : Requested(TRUE, e) /\ Ongoing(e) /\ Leaves(e)
        BY <1>1, <3>3 DEF GInv, Freed
      <4>2. PICK s \in PageAddr, c \in AllocCounts : e = Region(s, c * PageSize, "conventional")
        BY <4>1 DEF Requested
      <4>3. c \in Nat /\ e.start = s
        BY <4>2, InputsAssumption DEF Region
      <4>4. ~(s <= p /\ p < End(e))
        <5>1. PICK a \in Int, b \in Int, x \in Int, y \in Int, z \in Int :
                /\ a = r.start /\ b = r.start + r.count * PageSize /\ x = p /\ y = s
                /\ z = End(e)
          <6>1. c * PageSize \in Int /\ s \in Int /\ p \in Int
            BY <4>3, PageNumber DEF PageSize
          <6>2. End(e) \in Int
            BY <4>2, <6>1 DEF End, Region
          <6> QED BY <6>1, <6>2, GrantNumbers
        <5>2. a <= x /\ x < b /\ (z <= a \/ b <= y)
          BY <2>1, <4>1, <4>3, <5>1 DEF Within, Leaves
        <5>3. ~(y <= x /\ x < z)
          BY <5>2
        <5> QED BY <5>1, <5>3
      <4>5. Seen'[p] \in Allowed(Seen[p], Goal(RankOf(freeing), Seen[p], e, p))
        BY <1>4, <4>1 DEF Returns, Became
      <4>6. Seen'[p] = Seen[p]
        BY <3>1, <4>2, <4>3, <4>4, <4>5, FreeGuards
      <4> QED BY <3>1, <4>6
    <3> QED BY <1>2, <3>2, <3>3
  <2> QED BY <1>2, <2>1 DEF Held
<1> QED BY <1>1, <1>3, <1>4, RunDoes

LEMMA AllocHolds ==
  ASSUME IInv, GInv, IInv', "reserved" \notin AllocTypes,
         NEW type \in AllocTypes, NEW count \in AllocCounts, AllocPages(type, count),
         status' = "ok"
  PROVE  Held'
<1> DEFINE s == AllocResult(type, count)
           w == [start |-> s, count |-> count, type |-> type]
           n == count * PageSize
<1>1. /\ CallAlloc(type, count) /\ count # 0 /\ status = "ok" /\ granted' = granted \cup {w}
  BY DEF AllocPages, CallAlloc, Idle
<1>2. Held /\ count \in Nat /\ Guarded(type)
  BY <1>1, GuardedIs, InputsAssumption DEF GInv
<1>3. s \in PageAddr /\ Allotted(s, n, type)
  BY <1>1, AllocDoes
<1>4. w.start = s /\ w.count = count
  OBVIOUS
<1> HIDE DEF s, w
<1>5. s \in Int /\ n \in Int /\ n > 0
  <2>1. count * 4096 > 0 /\ count * 4096 \in Int
    BY <1>1, <1>2
  <2> QED BY <1>3, <2>1, PageNumber DEF PageSize
<1> HIDE DEF n
<1>6. /\ \A p \in PageAddr : s <= p /\ p < s + n => Seen[p] = "conventional" /\ Seen'[p] = type
      /\ \A p \in PageAddr : Seen'[p] = Seen[p] \/ Seen[p] = "conventional"
  BY <1>3 DEF Allotted
<1>7. ASSUME NEW r \in granted, NEW p \in PageAddr, Within(r, p)
      PROVE  Guarded(Seen'[p]) /\ ~(s <= p /\ p < s + n)
  <2>1. Guarded(Seen[p]) /\ Seen[p] # "conventional"
    BY <1>2, <1>7, GuardedIs DEF Held
  <2> QED BY <1>6, <2>1
<1>8. ASSUME NEW p \in PageAddr, Within(w, p) PROVE Guarded(Seen'[p])
  BY <1>2, <1>4, <1>6, <1>8 DEF Within, n
<1>9. ASSUME NEW r \in granted PROVE Apart(r, w) /\ Apart(w, r)
  <2>1. PICK a \in Int, b \in Int : /\ a = r.start /\ b = r.start + r.count * PageSize
                                    /\ a < b /\ a \in PageAddr
    <3>1. /\ r.start \in PageAddr /\ r.start \in Int /\ r.count \in Nat /\ r.count # 0
      BY <1>2, GrantNumbers DEF Held
    <3>2. r.count * 4096 \in Int /\ r.count * 4096 > 0
      BY <3>1
    <3>3. r.start < r.start + r.count * 4096
      BY <3>1, <3>2
    <3> QED BY <3>1, <3>2, <3>3 DEF PageSize
  <2>2. s + n <= a \/ b <= s
    <3>1. SUFFICES ASSUME a < s + n, s < b PROVE FALSE
      BY <1>5, <2>1
    <3>2. CASE s <= a
      <4>1. Within(r, a)
        BY <2>1 DEF Within
      <4> QED BY <1>7, <2>1, <3>1, <3>2, <4>1
    <3>3. CASE a < s
      <4>1. Within(r, s) /\ s < s + n /\ s <= s
        BY <1>5, <2>1, <3>1, <3>3 DEF Within
      <4> QED BY <1>3, <1>7, <4>1
    <3> QED BY <1>5, <2>1, <3>2, <3>3
  <2> QED BY <1>4, <2>1, <2>2 DEF Apart, n
<1> QED BY <1>1, <1>2, <1>4, <1>7, <1>8, <1>9 DEF Held

LEMMA GrantsNext ==
  ASSUME "reserved" \notin AllocTypes
  PROVE  IInv /\ GInv /\ IInv' /\ [Next]_vars => GInv'
<1>1. SUFFICES ASSUME IInv, GInv, IInv', [Next]_vars, status' = "ok"
               PROVE  Held' /\ (todo' # <<>> /\ freeing' => Freed')
  BY DEF GInv
<1>2. CallInv /\ (status = "ok" => Held)
  BY <1>1 DEF IInv, GInv
<1>3. CASE Run
  <2>1. Step /\ granted' = granted /\ status = "ok" /\ todo # <<>>
    BY <1>2, <1>3, StepBegins DEF Run
  <2>2. Held'
    BY <1>1, <2>1, RunHolds
  <2>3. ASSUME todo' # <<>>, freeing' PROVE Freed'
    <3>1. freeing' = freeing /\ \A e : Ongoing(e) => Ongoing(e)'
      BY <1>1, <1>2, <2>1, <2>3, RunKeeps
    <3>2. PICK e : Requested(TRUE, e) /\ Ongoing(e) /\ Leaves(e)
      BY <1>1, <2>1, <2>3, <3>1 DEF GInv, Freed
    <3>3. Leaves(e)'
      BY <2>1, <3>2 DEF Leaves
    <3> QED BY <3>1, <3>2, <3>3 DEF Freed
  <2> QED BY <2>2, <2>3
<1>4. ASSUME Idle PROVE ~freeing /\ Seen = View(mm) /\ Held
  BY <1>2, <1>4, BetweenCalls
<1>5. ASSUME NEW e \in AddInputs, Add(e)
      PROVE  Held' /\ (todo' # <<>> /\ freeing' => Freed')
  <2>1. /\ Idle /\ ~Idle' /\ before' = View(mm) /\ freeing' = freeing /\ granted' = granted
    BY <1>5 DEF Add, CallAdd, Idle
  <2>2. Seen' = Seen /\ ~freeing' /\ Held
    BY <1>4, <2>1 DEF Seen
  <2>3. Held'
    BY <2>1, <2>2 DEF Held
  <2> QED BY <2>2, <2>3
<1>6. ASSUME NEW r \in granted, FreePages(r)
      PROVE  Held' /\ (todo' # <<>> /\ freeing' => Freed')
  <2> DEFINE e == Region(r.start, r.count * PageSize, "conventional")
  <2>1. /\ Idle /\ ~Idle' /\ before' = View(mm) /\ granted' = granted \ {r}
        /\ CallFree(r.start, r.count)
    BY <1>6 DEF FreePages, CallFree, Idle
  <2>2. Seen' = Seen /\ Held
    BY <1>4, <2>1 DEF Seen
  <2>3. Held'
    BY <2>1, <2>2 DEF Held
  <2>4. Requested(TRUE, e) /\ Ongoing(e)'
    <3>1. Requested(freeing', e) /\ Ongoing(e)'
      BY <1>1, <1>6, FreeUnderway
    <3>2. freeing' = TRUE
      BY <2>1 DEF CallFree
    <3> QED BY <3>1, <3>2
  <2>5. e.start = r.start /\ End(e) = r.start + r.count * PageSize
    BY DEF Region, End
  <2> HIDE DEF e
  <2>6. Leaves(e)'
    <3>1. ASSUME NEW q \in granted' PROVE End(e) <= q.start \/ q.start + q.count * PageSize <= e.start
      <4>1. q \in granted /\ q # r
        BY <2>1
      <4> QED BY <2>2, <2>5, <4>1 DEF Held, Apart
    <3> QED BY <3>1 DEF Leaves
  <2> QED BY <2>3, <2>4, <2>6 DEF Freed
<1>7. ASSUME NEW type \in AllocTypes, NEW count \in AllocCounts, AllocPages(type, count)
      PROVE  Held' /\ (todo' # <<>> /\ freeing' => Freed')
  <2>1. todo' = <<>>
    BY <1>7 DEF AllocPages, CallAlloc, Idle
  <2> QED BY <1>1, <1>7, <2>1, AllocHolds
<1>8. CASE Clean
  <2>1. todo' = <<>> /\ granted' = {}
    BY <1>8 DEF Clean, CallClean, Idle
  <2>2. Held'
    BY <2>1 DEF Held
  <2> QED BY <2>1, <2>2
<1>9. CASE \/ \E type \in AllocTypes, count \in AllocCounts : AllocNothing(type, count)
           \/ \E n \in GetSizes : Get(n)
           \/ UNCHANGED vars
  <2>1. UNCHANGED <<mm, todo, freeing, status, before, granted>>
    BY <1>9 DEF AllocNothing, Get, vars
  <2>2. Seen' = Seen
    BY <2>1 DEF Seen, Idle
  <2>3. Held'
    BY <1>1, <1>2, <2>1, <2>2 DEF Held
  <2>4. ASSUME todo' # <<>>, freeing' PROVE Freed'
    <3>1. PICK e : Requested(TRUE, e) /\ Ongoing(e) /\ Leaves(e)
      BY <1>1, <2>1, <2>4 DEF GInv, Freed
    <3>2. Ongoing(e)' /\ Leaves(e)'
      BY <2>1, <3>1 DEF Ongoing, Leaves
    <3> QED BY <3>1, <3>2 DEF Freed
  <2> QED BY <2>3, <2>4
<1> QED BY <1>1, <1>3, <1>5, <1>6, <1>7, <1>8, <1>9 DEF Next

(* What gd_alloc_pages returned is the caller's until it frees it: between *)
(* calls none of its pages is conventional memory, and no two callers hold *)
(* the same page.  A caller must not ask for memory of type gd_reserved,   *)
(* the one type that a range of conventional memory outranks.              *)
THEOREM GrantsHeldAlways ==
  ASSUME "reserved" \notin AllocTypes
  PROVE  Spec => []GrantsHeld
<1>1. GInv => GrantsHeld
  <2>1. SUFFICES ASSUME GInv, Idle PROVE GrantsHeld
    BY DEF GrantsHeld
  <2>2. Held /\ Seen = View(mm)
    BY <2>1 DEF GInv, Idle, Seen
  <2> QED BY <2>2, GuardedIs DEF Held, GrantsHeld, Within, Apart
<1>2. Init => GInv
  BY DEF Init, MapInit, GInv, Held
<1> QED BY <1>1, <1>2, Inductive, GrantsNext, PTL DEF Spec

-----------------------------------------------------------------------------
(***************************************************************************)
(* The pages that hold slots, which mmap_alloc_entry took as loader data:  *)
(* they stay ahead of conventional memory in the precedence table, in the  *)
(* middle of a call too (Safe), so none is taken a second time.            *)
(***************************************************************************)
(* Slots in use, freed or not handed out yet, and the pages they are in.   *)
Owned(m, s) == Used(m, s) \/ s \in Pool(m)
SlotPage(m, p) == \E s \in Slot : s[1] = p /\ Owned(m, s)

(* g has no slots that m does not have, those in S apart.                  *)
Owns(m, g, S) == \A t : Owned(g, t) => Owned(m, t) \/ t \in S

LEMMA SameOwned ==
  ASSUME NEW m, NEW g, g.tree \subseteq m.tree, g.freed = m.freed, g.next = m.next,
         g.left = m.left
  PROVE  Owns(m, g, {})
<1>1. Pool(g) = Pool(m) /\ \A t : InFreed(g, t) <=> InFreed(m, t)
  BY DEF Pool, InFreed
<1> QED BY <1>1 DEF Owns, Owned, Used

LEMMA EnteredOwned ==
  ASSUME NEW m, NEW g, NEW s, g.tree \subseteq m.tree \cup {s}, g.freed = m.freed,
         g.next = m.next, g.left = m.left
  PROVE  Owns(m, g, {s})
<1>1. Pool(g) = Pool(m) /\ \A t : InFreed(g, t) <=> InFreed(m, t)
  BY DEF Pool, InFreed
<1> QED BY <1>1 DEF Owns, Owned, Used

LEMMA FreedOwned ==
  ASSUME NEW m, m.freed \in Seq(Slot), NEW s \in Slot, NEW g, g.tree \subseteq m.tree,
         g.freed = <<s>> \o m.freed, g.next = m.next, g.left = m.left
  PROVE  Owns(m, g, {s})
<1>1. Pool(g) = Pool(m)
  BY DEF Pool
<1> DEFINE n == Len(m.freed)
<1>2. n \in Nat /\ DOMAIN m.freed = 1 .. n
  BY LenProperties
<1>3. /\ g.freed \in Seq(Slot) /\ Len(g.freed) = n + 1
      /\ \A i \in 1 .. n + 1 : g.freed[i] = IF i = 1 THEN s ELSE m.freed[i - 1]
  BY FreedCons
<1>4. DOMAIN g.freed = 1 .. n + 1
  BY <1>3, LenProperties
<1> HIDE DEF n
<1>5. ASSUME NEW t, InFreed(g, t) PROVE t = s \/ InFreed(m, t)
  <2>1. PICK i \in 1 .. n + 1 : g.freed[i] = t
    BY <1>4, <1>5 DEF InFreed
  <2>2. CASE i = 1
    BY <1>3, <2>1, <2>2
  <2>3. CASE i # 1
    <3>1. i - 1 \in 1 .. n /\ m.freed[i - 1] = t
      BY <1>2, <1>3, <2>1, <2>3
    <3> QED BY <1>2, <3>1 DEF InFreed
  <2> QED BY <2>2, <2>3
<1> QED BY <1>1, <1>5 DEF Owns, Owned, Used

(* The first slot of the pool is handed out.                               *)
LEMMA PoolOwned ==
  ASSUME NEW f, GoodMap(f), f.left > 0, NEW g,
         g = [f EXCEPT !.next = <<@[1], @[2] + 1>>, !.left = @ - 1]
  PROVE  Owned(f, f.next) /\ Owns(f, g, {})
<1>1. /\ f \in Map /\ f.next \in Slot /\ f.left \in Nat \ {0}
      /\ f.next = <<f.next[1], f.next[2]>> /\ f.next[2] \in Nat
  BY DEF GoodMap, Map, Slot
<1> DEFINE b == f.next[1]
           k == f.next[2]
<1>2. /\ g.tree = f.tree /\ g.freed = f.freed /\ g.next = <<b, k + 1>> /\ g.left = f.left - 1
  BY <1>1 DEF Map
<1>3. k \in Nat /\ f.next = <<b, k>>
  BY <1>1
<1>p. Pool(f) = {<<b, i>> : i \in k .. k + f.left - 1}
  BY DEF Pool
<1> HIDE DEF b, k
<1>4. Pool(g) = {<<b, i>> : i \in k + 1 .. k + 1 + (f.left - 1) - 1}
  BY <1>2 DEF Pool
<1>5. k \in k .. k + f.left - 1
  BY <1>1, <1>3
<1>6. \A i \in k + 1 .. k + 1 + (f.left - 1) - 1 : i \in k .. k + f.left - 1
  BY <1>1, <1>3
<1>7. f.next \in Pool(f) /\ Pool(g) \subseteq Pool(f)
  BY <1>3, <1>4, <1>5, <1>6, <1>p, Zenon
<1>8. \A t : InFreed(g, t) <=> InFreed(f, t)
  BY <1>2 DEF InFreed
<1> QED BY <1>2, <1>7, <1>8 DEF Owns, Owned, Used

(* The new pool, and the first slot if it holds the page's own entry, are  *)
(* the page's.                                                             *)
LEMMA ScavengeOwned ==
  ASSUME NEW m, GoodMap(m), Empty(m), AllocFault(m) = "ok",
         NEW t, Owned(Scavenge(m), t)
  PROVE  Used(m, t) \/ t[1] = ScavengedPage(m)
<1> DEFINE v    == Victim(m, 0)
           way  == Way(m, v, PageSize, "loader_data")
           page == ScavengedPage(m)
           new  == <<page, 0>>
           i    == IF way = "new" THEN 1 ELSE 0
           l    == IF way = "new" THEN SlotsPerPage - 1 ELSE SlotsPerPage
           g    == PageTaken(m)
<1>1. Conventional(m, 0) # {} /\ GoodMap(g) /\ new \in Slot /\ new \notin Pool(m) /\ ~Used(m, new)
  BY ScavengeGood
<1>2. v \in m.tree /\ m.entry[v].size >= PageSize
  BY <1>1, VictimIs
<1>3. g = Took(m, v, way, new) /\ Scavenge(m) = Repooled(g, page, i, l)
  BY DEF Scavenge, PageTaken, Took, Repooled, ScavengedPage
<1> HIDE DEF g, new, v, way, page, i, l
<1>4. Used(g, t) => Used(m, t) \/ t = new
  BY <1>1, <1>2, <1>3, TookGood DEF way
<1>5. /\ Scavenge(m).tree = g.tree /\ Scavenge(m).freed = g.freed
      /\ Scavenge(m).next = <<page, i>>
  BY <1>1, <1>3 DEF Repooled, GoodMap, Map
<1>6. Used(Scavenge(m), t) => Used(g, t)
  BY <1>5 DEF Used, InFreed
<1>7. t \in Pool(Scavenge(m)) => t[1] = page
  BY <1>5 DEF Pool
<1>8. new[1] = page
  BY DEF new
<1> QED BY <1>4, <1>6, <1>7, <1>8 DEF Owned, page

(* mmap_alloc_entry hands out a slot the map had, or one of the page it    *)
(* has just taken.                                                         *)
LEMMA AllocOwned ==
  ASSUME NEW m, GoodMap(m), AllocFault(m) = "ok",
         NEW t, Owned(AllocEntry(m), t) \/ t = AllocSlot(m)
  PROVE  Owned(m, t) \/ (Empty(m) /\ t[1] = ScavengedPage(m))
<1> DEFINE g == AllocEntry(m)
           s == AllocSlot(m)
<1>1. CASE m.freed # <<>>
  <2>1. m \in Map /\ m.freed \in Seq(Slot) /\ Len(m.freed) \in Nat \ {0}
    BY <1>1, LenProperties, EmptySeq DEF GoodMap, Map
  <2> DEFINE n == Len(m.freed)
  <2>2. /\ Head(m.freed) = m.freed[1]
        /\ \A i \in 1 .. n - 1 : Tail(m.freed)[i] = m.freed[i + 1]
        /\ DOMAIN Tail(m.freed) = 1 .. n - 1 /\ DOMAIN m.freed = 1 .. n
    BY <1>1, <2>1, HeadTailProperties, LenProperties
  <2>3. s = m.freed[1]
    BY <1>1, <2>2 DEF AllocSlot
  <2>4. /\ g.tree = m.tree /\ g.next = m.next
        /\ g.left = m.left /\ g.freed = Tail(m.freed)
    BY <1>1, <2>1 DEF AllocEntry, Map
  <2> HIDE DEF g, s, n
  <2>n. n \in Nat \ {0}
    BY <2>1 DEF n
  <2>5. Pool(g) = Pool(m)
    BY <2>4 DEF Pool
  <2>6. InFreed(g, t) => InFreed(m, t)
    <3>1. SUFFICES ASSUME InFreed(g, t) PROVE InFreed(m, t)
      OBVIOUS
    <3>2. PICK i \in 1 .. n - 1 : Tail(m.freed)[i] = t
      BY <2>2, <2>4, <3>1 DEF InFreed
    <3>3. i + 1 \in 1 .. n /\ m.freed[i + 1] = t
      BY <2>2, <2>n, <3>2
    <3> QED BY <2>2, <3>3 DEF InFreed
  <2>7. InFreed(m, s)
    BY <2>2, <2>3, <2>n DEF InFreed
  <2> QED BY <2>4, <2>5, <2>6, <2>7 DEF Owned, Used, g, s
<1>2. CASE m.freed = <<>> /\ m.left # 0
  <2>1. m.left > 0
    BY <1>2 DEF GoodMap, Map
  <2>2. g = [m EXCEPT !.next = <<@[1], @[2] + 1>>, !.left = @ - 1] /\ s = m.next
    BY <1>2 DEF AllocEntry, AllocSlot
  <2> HIDE DEF g, s
  <2>3. Owned(m, m.next) /\ Owns(m, g, {})
    BY <2>1, <2>2, PoolOwned
  <2> QED BY <2>2, <2>3 DEF Owns, g, s
<1>3. CASE Empty(m)
  <2> DEFINE f == Scavenge(m)
  <2>1. GoodMap(f) /\ f.left > 0
    BY <1>3, ScavengeGood
  <2>2. g = [f EXCEPT !.next = <<@[1], @[2] + 1>>, !.left = @ - 1] /\ s = f.next
    BY <1>3 DEF AllocEntry, AllocSlot, Empty
  <2> HIDE DEF f, g, s
  <2>3. Owned(f, f.next) /\ Owns(f, g, {})
    BY <2>1, <2>2, PoolOwned
  <2>4. Owned(f, t)
    BY <2>2, <2>3 DEF Owns, g, s
  <2> QED BY <1>3, <2>4, ScavengeOwned DEF f, Owned
<1> QED BY <1>1, <1>2, <1>3 DEF Empty

-----------------------------------------------------------------------------
LEMMA AddNewOwned ==
  ASSUME MapInv, AddNew PROVE Owns(AllocEntry(mm), mm', {AllocSlot(mm)})
<1> DEFINE s == AllocSlot(mm)
           g == AllocEntry(mm)
<1>1. AddsPages /\ AllocFault(mm) = "ok" /\ mm' = Inserted(Filled(g, s, Arg), s)
  BY DEF AddNew, Settle
<1>2. GoodMap(g) /\ s \in Slot
  BY <1>1, ArgIs, AllocGood
<1> HIDE DEF s, g
<1>3. g \in Map
  BY <1>2 DEF GoodMap
<1>4. /\ mm'.tree = g.tree \cup {s} /\ mm'.freed = g.freed /\ mm'.next = g.next
      /\ mm'.left = g.left
  BY <1>1, <1>3 DEF Inserted, Filled, Map
<1>5. Owns(g, mm', {s})
  BY <1>4, EnteredOwned
<1> QED BY <1>5 DEF s, g

LEMMA AddAtOldOwned ==
  ASSUME MapInv, AddAtOld, status' = "ok" PROVE Owns(AllocEntry(mm), mm', {AllocSlot(mm)})
<1> DEFINE s == AllocSlot(mm)
           g == AllocEntry(mm)
           m == Filled(g, s, Arg)
<1>1. AddsPages /\ AllocFault(mm) = "ok"
  BY DEF AddAtOld
<1>2. GoodMap(g) /\ s \in Slot
  BY <1>1, ArgIs, AllocGood
<1>3. PICK o \in At(g, Arg.start) : AddOver(o)
  BY DEF AddAtOld
<1> DEFINE e == m.entry[o]
           type == HigherPrecedence(freeing, e.type, Arg.type)
           h == [m.entry EXCEPT ![o] = Retype(@, type)]
           k == [m.entry EXCEPT ![s] = Retype(@, type), ![o] = DropFirst(@, Arg.size)]
           l == [m.entry EXCEPT ![o] = Retype(@, type), ![s] = DropFirst(@, e.size)]
<1>4. \/ mm' = FreeEntry([m EXCEPT !.entry[o] = Retype(@, type)], s)
      \/ mm' = Inserted([m EXCEPT !.entry[s] = Retype(@, type),
                                  !.entry[o] = DropFirst(@, Arg.size)], s)
      \/ mm' = Inserted([m EXCEPT !.entry[o] = Retype(@, type),
                                  !.entry[s] = DropFirst(@, e.size)], s)
  BY <1>3 DEF AddOver, Settle, Fail
<1> HIDE DEF g, s
<1>5. g \in Map /\ g.freed \in Seq(Slot)
  BY <1>2 DEF GoodMap, Map
<1>6. /\ m = [g EXCEPT !.entry = [g.entry EXCEPT ![s] = Arg]]
  BY <1>5 DEF Filled, Map
<1>7. /\ m.tree = g.tree /\ m.freed = g.freed /\ m.next = g.next /\ m.left = g.left
      /\ m = [entry |-> m.entry, tree |-> m.tree, freed |-> m.freed, next |-> m.next,
              left |-> m.left, key |-> m.key]
  <2> HIDE DEF m
  <2> QED BY <1>5, <1>6 DEF Map
<1> HIDE DEF m
<1>8. \/ mm' = FreeEntry([m EXCEPT !.entry = h], s)
      \/ mm' = Inserted([m EXCEPT !.entry = k], s)
      \/ mm' = Inserted([m EXCEPT !.entry = l], s)
  BY <1>4, <1>7
<1> HIDE DEF h, k, l
<1>9. CASE mm' = FreeEntry([m EXCEPT !.entry = h], s)
  <2>1. /\ mm'.tree \subseteq g.tree /\ mm'.freed = <<s>> \o g.freed /\ mm'.next = g.next
        /\ mm'.left = g.left
    BY <1>7, <1>9 DEF FreeEntry
  <2>2. Owns(g, mm', {s})
    BY <1>2, <1>5, <2>1, FreedOwned
  <2> QED BY <2>2 DEF g, s
<1>10. ASSUME NEW x, mm' = Inserted([m EXCEPT !.entry = x], s)
       PROVE  Owns(AllocEntry(mm), mm', {AllocSlot(mm)})
  <2>1. /\ mm'.tree = g.tree \cup {s} /\ mm'.freed = g.freed /\ mm'.next = g.next
        /\ mm'.left = g.left
    BY <1>7, <1>10 DEF Inserted
  <2>2. Owns(g, mm', {s})
    BY <2>1, EnteredOwned
  <2> QED BY <2>2 DEF g, s
<1> QED BY <1>8, <1>9, <1>10

LEMMA FixOwned ==
  ASSUME GoodMap(mm), NEW f, FixOverlap(f) PROVE Owns(mm, mm', {})
<1> DEFINE x == RB_NEXT(mm, f)
<1>1. mm \in Map /\ mm.freed \in Seq(Slot)
  BY DEF GoodMap, Map
<1>2. CASE ~Reaches(mm, f, x)
  BY <1>2, SameOwned DEF FixOverlap, Settle
<1>3. CASE Reaches(mm, f, x)
  <2> DEFINE e == mm.entry[f]
             d == mm.entry[x]
             type == HigherPrecedence(freeing, e.type, d.type)
             shared == End(e) - d.start
             less == [mm.entry EXCEPT ![f] = DropLast(@, shared)]
             cut == [mm.entry EXCEPT ![x] = DropFirst(@, shared)]
             both == [mm.entry EXCEPT ![x] = Retype(@, type),
                                      ![f] = DropLast(@, shared)]
  <2>1. FixShared(f, x) /\ x # NoSlot
    BY <1>3 DEF FixOverlap, Reaches
  <2>2. f \in mm.tree
    BY <2>1 DEF RB_NEXT
  <2>3. x \in mm.tree
    BY <1>1, <2>1, <2>2, NextIs
  <2>4. x \in Slot
    BY <1>1, <2>3 DEF Map
  <2>7. /\ [mm EXCEPT !.entry[f] = DropLast(@, shared)] = [mm EXCEPT !.entry = less]
        /\ [mm EXCEPT !.entry[x] = DropFirst(@, shared)] = [mm EXCEPT !.entry = cut]
        /\ [mm EXCEPT !.entry[x] = Retype(@, type),
                      !.entry[f] = DropLast(@, shared)] = [mm EXCEPT !.entry = both]
    BY <1>1 DEF Map
  <2>8. \/ mm' = [mm EXCEPT !.entry = cut]
        \/ mm' = [mm EXCEPT !.entry = less]
        \/ mm' = FreeEntry(mm, x)
        \/ mm' = [mm EXCEPT !.entry = both]
    BY <2>1, <2>7 DEF FixShared, Settle
  <2> HIDE DEF less, cut, both, x
  <2>9. ASSUME NEW h, mm' = [mm EXCEPT !.entry = h] PROVE Owns(mm, mm', {})
    <3>1. mm'.tree = mm.tree /\ mm'.freed = mm.freed /\ mm'.next = mm.next /\ mm'.left = mm.left
      BY <1>1, <2>9 DEF Map
    <3> QED BY <3>1, SameOwned
  <2>10. CASE mm' = FreeEntry(mm, x)
    <3>1. /\ mm'.tree \subseteq mm.tree /\ mm'.freed = <<x>> \o mm.freed /\ mm'.next = mm.next
          /\ mm'.left = mm.left
      BY <1>1, <2>10 DEF FreeEntry, Map
    <3>2. Owns(mm, mm', {x})
      BY <1>1, <2>4, <3>1, FreedOwned
    <3> QED BY <2>3, <3>2 DEF Owns, Owned, Used
  <2> QED BY <2>8, <2>9, <2>10
<1> QED BY <1>2, <1>3

(* A step of mmap_add_entry or fix_overlap adds no slots to those the map  *)
(* has, unless mmap_alloc_entry takes a page.                              *)
LEMMA StepOwned ==
  ASSUME MapInv, GoodMap(mm), Step, status' = "ok", NEW t, Owned(mm', t)
  PROVE  \/ Owned(mm, t)
         \/ AddsPages /\ AllocFault(mm) = "ok" /\ Empty(mm) /\ t[1] = ScavengedPage(mm)
<1>1. mm \in Map
  BY DEF GoodMap
<1>2. CASE AddEmpty \/ AddUnalignedStart \/ AddUnalignedEnd \/ Restore
  BY <1>2 DEF AddEmpty, AddUnalignedStart, AddUnalignedEnd, Restore
<1>3. CASE AddNoSlot
  BY <1>3 DEF AddNoSlot, Fail
<1>4. CASE AddNew \/ AddAtOld
  <2>1. AddsPages /\ AllocFault(mm) = "ok"
    BY <1>4 DEF AddNew, AddAtOld
  <2>2. Owned(AllocEntry(mm), t) \/ t = AllocSlot(mm)
    BY <1>4, AddNewOwned, AddAtOldOwned DEF Owns
  <2> QED BY <1>1, <2>1, <2>2, AllocOwned
<1>5. CASE Fix \/ FixPrev
  BY <1>5, FixOwned DEF Fix, FixPrev, Owns
<1>6. CASE Merge
  <2> DEFINE s == Head(todo).slot
  <2>1. mm' = IF s \in mm.tree THEN MergeAdjacent(mm, s) ELSE mm
    BY <1>6 DEF Merge, Settle, Fail
  <2> HIDE DEF s
  <2>2. CASE s \in mm.tree
    <3>1. Spares(mm, mm', mm.entry[s].type)
      BY <1>1, <2>1, <2>2, MergeGood
    <3> QED BY <3>1 DEF Spares, Owned, Pool
  <2> QED BY <2>1, <2>2
<1>7. CASE Bump
  <2>1. mm'.tree = mm.tree /\ mm'.freed = mm.freed /\ mm'.next = mm.next /\ mm'.left = mm.left
    BY <1>1, <1>7 DEF Bump, Map
  <2> QED BY <2>1, SameOwned DEF Owns
<1> QED BY <1>2, <1>3, <1>4, <1>5, <1>6, <1>7 DEF Step
-----------------------------------------------------------------------------
(* The page mmap_alloc_entry takes, or would take if it did not hold slots *)
(* already, is conventional memory.                                        *)
LEMMA ScavengedIs ==
  ASSUME NEW m, GoodMap(m), Empty(m), AllocFault(m) \in {"ok", "reused"}
  PROVE  /\ ScavengedPage(m) \in PageAddr
         /\ Types(m, ScavengedPage(m)) = {"conventional"}
         /\ AllocFault(m) = "reused" => HoldsSlots(m, ScavengedPage(m))
         /\ AllocFault(m) = "ok" => Types(AllocEntry(m), ScavengedPage(m)) = {"loader_data"}
<1> DEFINE v == Victim(m, 0)
           page == ScavengedPage(m)
           e == Region(page, PageSize, "loader_data")
<1>1. /\ Conventional(m, 0) # {}
      /\ ~\E t \in m.tree \ {v} : Overlapping(m.entry[t], e)
      /\ AllocFault(m) = "reused" => HoldsSlots(m, e.start)
  BY DEF AllocFault, Found
<1>2. v \in m.tree /\ m.entry[v].type = "conventional" /\ m.entry[v].size >= PageSize
  BY <1>1, VictimIs
<1>3. \/ page = End(m.entry[v]) - PageSize
      \/ page = Key(m, v)
  BY DEF ScavengedPage, TakenAt
<1>4. page \in Nat /\ Aligned(page) /\ page + PageSize <= Top
  BY <1>2, PageIs, PageSizeIs DEF ScavengedPage
<1>5. page \in PageAddr
  <2>1. 0 <= page /\ page < NumPages * PageSize
    BY <1>4, TopNat, PageSizeIs DEF Top
  <2> QED BY <1>4, <2>1, PageAddrIs
<1>6. e.start = page /\ End(e) = page + PageSize
  BY DEF Region, End
<1> HIDE DEF v, page, e
<1>7. PICK a \in Int, b \in Int : a = Key(m, v) /\ b = Hi(m, v) /\ a + 4096 <= b
  BY <1>2, Extent
<1>8. page \in Int /\ page + PageSize \in Int /\ a <= page /\ page + PageSize <= b /\ page < page + PageSize
  BY <1>3, <1>4, <1>7 DEF PageSize, Hi
<1>9. Clear(m, v, page, page + PageSize)
  <2>1. ASSUME NEW t \in m.tree \ {v}
        PROVE  Hi(m, t) <= page \/ page + PageSize <= Key(m, t)
    <3>1. ~(Key(m, t) < page + PageSize /\ page < Hi(m, t))
      BY <1>1, <1>6 DEF Overlapping, Key, Hi
    <3>2. Key(m, t) \in Int /\ Hi(m, t) \in Int
      BY Extents
    <3> QED BY <1>8, <3>1, <3>2
  <2> QED BY <2>1 DEF Clear
<1>10. Types(m, page) = {Ty(m, v)}
  BY <1>2, <1>7, <1>8, <1>9, ClearTypes
<1>11. ASSUME AllocFault(m) = "ok" PROVE Types(AllocEntry(m), page) = {"loader_data"}
  <2>1. TakenTypes(m, AllocEntry(m), page, page + PageSize, "loader_data", page)
    BY <1>8, <1>11, SlotTypes DEF page
  <2> QED BY <1>8, <2>1 DEF TakenTypes
<1> QED BY <1>1, <1>2, <1>5, <1>6, <1>10, <1>11 DEF page, Ty

(* In the middle of mmap_add_entry a conventional page is only still to be *)
(* given a type that the request asks for.                                 *)
LEMMA ConventionalPends ==
  ASSUME NEW rk, NEW m, NEW st, NEW old, NEW e, NEW p, Going(rk, m, st, old, e, p),
         st[1].op = "add", Types(m, p) = {"conventional"}
  PROVE  /\ Pends(st, p) \subseteq Asked(e, p)
         /\ Returning(rk, old) => "conventional" \notin Pends(st, p)
<1>1. st \in Seq(Pending) /\ st # <<>> /\ PageOk(rk, m, st, old, e, p)
  BY DEF Going
<1>2. Pends(st, p) = AskedBy(st[1], p) \cup Below1(st, p)
  BY <1>1, PendsAre
<1>3. AddReady(rk, old, m, st[1].arg, e, p) /\ LowerReady(rk, st, e, p)
  BY <1>1 DEF PageOk, TopPage
<1>4. AskedBy(st[1], p) = Asked(st[1].arg, p)
  BY DEF AskedBy
<1>5. Asked(st[1].arg, p) \subseteq Asked(e, p)
  BY <1>3 DEF AddReady
<1>6. Below1(st, p) \subseteq Asked(e, p) /\ (rk # Rank => Below1(st, p) = {})
  BY <1>3 DEF LowerReady, Below1, AskedBy
<1>7. Returning(rk, old) => Asked(st[1].arg, p) = {} /\ rk # Rank
  BY <1>3 DEF AddReady, Returning
<1> QED BY <1>2, <1>4, <1>5, <1>6, <1>7

LEMMA SafeNotTaken ==
  ASSUME NEW rk, NEW m, NEW st, NEW old, NEW e, NEW p, Going(rk, m, st, old, e, p),
         st[1].op = "add", Safe(rk, m, st, e, p)
  PROVE  Types(m, p) # {"conventional"}
<1>1. SUFFICES ASSUME Types(m, p) = {"conventional"} PROVE FALSE
  OBVIOUS
<1>2. Pends(st, p) \subseteq Asked(e, p) /\ e \in Entry
  BY <1>1, ConventionalPends DEF Going, Asking
<1>3. "conventional" \in Asked(e, p) /\ \E t \in {"conventional"} \cup Pends(st, p) : Guarded(t)
  BY <1>1 DEF Safe, SafeTypes
<1>4. Asked(e, p) = {"conventional"}
  BY <1>2, <1>3, AskedType
<1> QED BY <1>2, <1>3, <1>4, GuardedIs

LEMMA SafeTaken ==
  ASSUME NEW rk, NEW m, NEW st, NEW old, NEW e, NEW p, Going(rk, m, st, old, e, p),
         st[1].op = "add", Types(m, p) = {"conventional"},
         rk # Rank => (Asked(e, p) # {} => old # "conventional"),
         NEW g, Types(g, p) = {"loader_data"}
  PROVE  Safe(rk, g, st, e, p)
<1>1. /\ Pends(st, p) \subseteq Asked(e, p)
      /\ Returning(rk, old) => "conventional" \notin Pends(st, p)
  BY ConventionalPends
<1>2. Guarded("loader_data")
  BY Ranks, GuardedIs
<1>3. ASSUME "conventional" \in Pends(st, p) PROVE rk = Rank /\ "conventional" \in Asked(e, p)
  BY <1>1, <1>3 DEF Returning
<1> QED BY <1>2, <1>3 DEF Safe, SafeTypes
-----------------------------------------------------------------------------
(* A page that holds slots after a step and did not before is the one      *)
(* mmap_alloc_entry has just taken.                                        *)
LEMMA SlotPageNew ==
  ASSUME CallInv, Step, status' = "ok", NEW p, SlotPage(mm', p)
  PROVE  \/ SlotPage(mm, p)
         \/ AddsPages /\ AllocFault(mm) = "ok" /\ Empty(mm) /\ p = ScavengedPage(mm)
<1>1. PICK s \in Slot : s[1] = p /\ Owned(mm', s)
  BY DEF SlotPage
<1>2. MapInv /\ GoodMap(mm)
  BY StepBegins
<1>3. \/ Owned(mm, s)
      \/ AddsPages /\ AllocFault(mm) = "ok" /\ Empty(mm) /\ s[1] = ScavengedPage(mm)
  BY <1>1, <1>2, StepOwned
<1> QED BY <1>1, <1>3 DEF SlotPage

(* mmap_add_entry of whole pages that does not fail had its slot.          *)
LEMMA AddHadSlot ==
  ASSUME Step, AddsPages, status' = "ok" PROVE AllocFault(mm) = "ok"
<1>1. SUFFICES ASSUME AllocFault(mm) # "ok" PROVE FALSE
  OBVIOUS
<1>2. ~AddNew /\ ~AddAtOld
  BY <1>1 DEF AddNew, AddAtOld
<1>3. ~AddEmpty /\ ~AddUnalignedStart /\ ~AddUnalignedEnd
  BY DEF AddsPages, AddEmpty, AddUnalignedStart, AddUnalignedEnd
<1>4. ~Fix /\ ~FixPrev /\ ~Merge /\ ~Bump /\ ~Restore
  BY DEF AddsPages, Doing, Fix, FixPrev, Merge, Bump, Restore
<1>5. AddNoSlot
  BY <1>2, <1>3, <1>4 DEF Step
<1> QED BY <1>1, <1>5 DEF AddNoSlot, Fail

LEMMA OngoingGoes ==
  ASSUME CallInv, Step, NEW e, Ongoing(e), NEW p \in PageAddr
  PROVE  Going(RankOf(freeing), mm, todo, before[p], e, p)
<1>1. todo # <<>> /\ todo \in Seq(Pending) /\ GoodMap(mm) /\ FixOnTop(todo)
  BY StepBegins
<1> QED BY <1>1 DEF Ongoing, Going

(* A step leaves a safe page safe; the page it takes for slots becomes so, *)
(* unless gd_free_pages is about to return it.                             *)
LEMMA StepSafe ==
  ASSUME CallInv, Step, status' = "ok", NEW e, Ongoing(e), NEW p \in PageAddr,
         freeing => (Asked(e, p) # {} => before[p] # "conventional"),
         \/ Safe(RankOf(freeing), mm, todo, e, p)
         \/ SlotPage(mm', p) /\ ~SlotPage(mm, p)
  PROVE  Safe(RankOf(freeing), mm', todo', e, p)
<1> DEFINE rk == RankOf(freeing)
<1>1. Going(rk, mm, todo, before[p], e, p) /\ MapInv /\ GoodMap(mm) /\ p \in Int
  BY OngoingGoes, StepBegins, PageNumber
<1>2. PageGoes(rk, AfterSlot, todo, mm', todo', before[p], e, p)
  BY RunStays DEF Stays, Paged
<1>3. rk # Rank => freeing
  BY DEF RankOf
<1> HIDE DEF rk
<1>4. Safe(rk, AfterSlot, todo, e, p)
  <2>1. CASE ~AddsPages
    BY <2>1, SlotPageNew DEF AfterSlot, rk
  <2>2. CASE AddsPages
    <3>1. AllocFault(mm) = "ok" /\ todo[1].op = "add" /\ AfterSlot = AllocEntry(mm)
      BY <1>1, <2>2, AddHadSlot, ArgIs DEF AfterSlot
    <3>2. CASE Safe(rk, mm, todo, e, p)
      <4>1. Types(mm, p) # {"conventional"}
        BY <1>1, <3>1, <3>2, SafeNotTaken
      <4>2. PageTakenOrNot(mm, AllocEntry(mm), p)
        BY <1>1, <3>1, SlotTypes
      <4>3. Types(AllocEntry(mm), p) = Types(mm, p)
        BY <4>1, <4>2 DEF PageTakenOrNot
      <4> QED BY <3>1, <3>2, <4>3 DEF Safe
    <3>3. CASE SlotPage(mm', p) /\ ~SlotPage(mm, p)
      <4>1. Empty(mm) /\ p = ScavengedPage(mm)
        BY <3>3, SlotPageNew
      <4>2. Types(mm, p) = {"conventional"} /\ Types(AllocEntry(mm), p) = {"loader_data"}
        BY <1>1, <3>1, <4>1, ScavengedIs
      <4> QED BY <1>1, <1>3, <3>1, <4>2, SafeTaken
    <3> QED BY <3>2, <3>3 DEF rk
  <2> QED BY <2>1, <2>2
<1> QED BY <1>2, <1>4 DEF PageGoes, rk

(* A step takes no safe page for slots, and none that holds slots.         *)
LEMMA StepTakes ==
  ASSUME CallInv, Step, NEW e, Ongoing(e)
  PROVE  /\ \A p \in PageAddr :
              Safe(RankOf(freeing), mm, todo, e, p) /\ status' = "ok" /\ SlotPage(mm', p)
                => SlotPage(mm, p)
         /\ status' = "reused" => \E p \in PageAddr : /\ SlotPage(mm, p)
                                                      /\ ~Safe(RankOf(freeing), mm, todo, e, p)
<1>1. MapInv /\ GoodMap(mm) /\ status = "ok"
  BY StepBegins
<1>2. ASSUME NEW p \in PageAddr, Safe(RankOf(freeing), mm, todo, e, p), AddsPages
      PROVE  Types(mm, p) # {"conventional"}
  <2>1. todo[1].op = "add"
    BY <1>1, <1>2, ArgIs
  <2> QED BY <1>2, <2>1, OngoingGoes, SafeNotTaken
<1>3. ASSUME NEW p \in PageAddr, Safe(RankOf(freeing), mm, todo, e, p), status' = "ok",
             SlotPage(mm', p), ~SlotPage(mm, p)
      PROVE  FALSE
  <2>1. AddsPages /\ AllocFault(mm) = "ok" /\ Empty(mm) /\ p = ScavengedPage(mm)
    BY <1>3, SlotPageNew
  <2> QED BY <1>1, <1>2, <1>3, <2>1, ScavengedIs
<1>4. ASSUME status' = "reused"
      PROVE  \E p \in PageAddr : SlotPage(mm, p) /\ ~Safe(RankOf(freeing), mm, todo, e, p)
  <2>1. AddsPages /\ AllocFault(mm) = "reused"
    <3>1. CASE AddNoSlot
      BY <1>4, <3>1 DEF AddNoSlot, Fail
    <3>2. ~AddNoSlot => status' \in {"ok", "tied", "tree", "stale"}
      <4>1. AddEmpty \/ AddUnalignedStart \/ AddUnalignedEnd \/ Bump \/ Restore
              => status' = "ok"
        BY <1>1 DEF AddEmpty, AddUnalignedStart, AddUnalignedEnd, Bump, Restore
      <4>2. AddNew \/ AddAtOld => status' \in {"ok", "tied", "tree"}
        BY DEF AddNew, AddAtOld, AddOver, Settle, Fail
      <4>3. Fix \/ FixPrev => status' \in {"ok", "tied"}
        BY DEF Fix, FixPrev, FixOverlap, FixShared, Settle
      <4>4. Merge => status' \in {"ok", "tied", "stale"}
        BY DEF Merge, Settle, Fail
      <4> QED BY <4>1, <4>2, <4>3, <4>4 DEF Step
    <3> QED BY <1>4, <3>1, <3>2
  <2>2. Empty(mm)
    BY <2>1 DEF AllocFault
  <2> DEFINE p == ScavengedPage(mm)
  <2>3. p \in PageAddr /\ Types(mm, p) = {"conventional"} /\ HoldsSlots(mm, p)
    BY <1>1, <2>1, <2>2, ScavengedIs
  <2>4. SlotPage(mm, p)
    BY <2>3 DEF HoldsSlots, SlotPage, Owned, Used
  <2> HIDE DEF p
  <2> QED BY <1>2, <2>1, <2>3, <2>4
<1> QED BY <1>3, <1>4
-----------------------------------------------------------------------------
(* A page that holds slots after gd_alloc_pages and did not before is one  *)
(* that mmap_alloc_entry took, and none of the pages the caller gets.      *)
LEMMA CallAllocOwned ==
  ASSUME CallInv, NEW type \in Type, NEW count \in Nat, count # 0,
         CallAlloc(type, count), status' = "ok", NEW p, SlotPage(mm', p)
  PROVE  \/ SlotPage(mm, p)
         \/ /\ p \in PageAddr
            /\ Types(mm, p) = {"conventional"} /\ Types(mm', p) = {"loader_data"}
            /\ ~(AllocResult(type, count) <= p /\ p < AllocResult(type, count) + count * PageSize)
<1> DEFINE n   == count * PageSize
           v   == Victim(mm, n)
           way == Way(mm, v, n, type)
           m   == CASE way = "whole" -> TakeWhole(mm, v, type)
                    [] way = "first" -> TakeFirst(mm, v, n)
                    [] way = "last"  -> TakeLast(mm, v, n)
                    [] way = "new"   -> Sliced(mm, v, n, type)
           result == AllocResult(type, count)
<1>1. /\ GoodMap(mm) /\ Quiet(mm) /\ Conventional(mm, n) # {}
  BY BetweenCalls DEF CallAlloc, AllocFound, Found
<1>2. /\ way = "new" => AllocFault(mm) = "ok"
      /\ mm' = [m EXCEPT !.key = @ + 1] /\ ~Tied(m)
      /\ way = "new" => ~(/\ Empty(mm) /\ result <= ScavengedPage(mm)
                          /\ ScavengedPage(mm) < result + n)
  BY DEF CallAlloc, Sliced
<1>3. n \in Nat /\ Aligned(n) /\ n >= PageSize /\ 0 < n
  BY DEF Aligned, PageSize
<1>4. /\ v \in mm.tree /\ mm.entry[v].type = "conventional" /\ mm.entry[v].size >= n
      /\ mm.entry[v].size \in Nat
  BY <1>1, VictimIs, GoodIs
<1>5. result = IF way = "last" THEN Hi(mm, v) - n ELSE Key(mm, v)
  <2>1. result = TakenAt(mm, v, n, type)
    BY DEF AllocResult
  <2> QED BY <2>1 DEF TakenAt, Hi
<1>s. SUFFICES \/ SlotPage(mm, p)
               \/ /\ p \in PageAddr
                  /\ Types(mm, p) = {"conventional"} /\ Types(mm', p) = {"loader_data"}
                  /\ ~(result <= p /\ p < result + n)
  OBVIOUS
<1> HIDE DEF n, v, result
<1>6. way # "whole" => n < mm.entry[v].size
  BY <1>3, <1>4, WayIs
<1>7. PICK s \in Slot : s[1] = p /\ Owned(mm', s)
  BY DEF SlotPage
<1>8. ASSUME m \in Map
      PROVE  /\ mm'.tree = m.tree /\ mm'.entry = m.entry /\ mm'.freed = m.freed
             /\ mm'.next = m.next /\ mm'.left = m.left
  <2> HIDE DEF m, way
  <2> QED BY <1>2, <1>8 DEF Map
<1>9. ASSUME m \in Map PROVE Owned(m, s) /\ Types(mm', p) = Types(m, p)
  <2> HIDE DEF m, way
  <2>1. Owns(m, mm', {})
    BY <1>8, <1>9, SameOwned
  <2> QED BY <1>7, <1>8, <1>9, <2>1 DEF Owns, Types, Covering, Key, Ty
<1>10. ASSUME way # "new" PROVE Owned(mm, s)
  <2>1. CASE way = "whole"
    <3>1. m = TakeWhole(mm, v, type)
      BY <2>1
    <3>2. /\ GoodMap(TakeWhole(mm, v, type))
          /\ TakeWhole(mm, v, type).next = mm.next /\ TakeWhole(mm, v, type).left = mm.left
          /\ \A t : Used(TakeWhole(mm, v, type), t) => Used(mm, t)
      BY <1>1, <1>4, TakeWholeGood
    <3> HIDE DEF m, way
    <3> QED BY <1>9, <3>1, <3>2 DEF GoodMap, Owned, Pool
  <2>2. CASE way = "first"
    <3>1. m = TakeFirst(mm, v, n) /\ PrevJoins(mm, v, type)
      BY <2>2, WayIs
    <3>2. /\ GoodMap(TakeFirst(mm, v, n))
          /\ TakeFirst(mm, v, n).tree = mm.tree
          /\ TakeFirst(mm, v, n).freed = mm.freed
          /\ TakeFirst(mm, v, n).next = mm.next /\ TakeFirst(mm, v, n).left = mm.left
      BY <1>1, <1>3, <1>4, <1>6, <2>2, <3>1, TakeFirstGood
    <3> HIDE DEF m, way
    <3> QED BY <1>9, <3>1, <3>2, SameOwned DEF GoodMap, Owns
  <2>3. CASE way = "last"
    <3>1. m = TakeLast(mm, v, n) /\ NextJoins(mm, v, type)
      BY <2>3, WayIs
    <3>2. /\ GoodMap(TakeLast(mm, v, n))
          /\ TakeLast(mm, v, n).tree = mm.tree
          /\ TakeLast(mm, v, n).freed = mm.freed
          /\ TakeLast(mm, v, n).next = mm.next /\ TakeLast(mm, v, n).left = mm.left
      BY <1>1, <1>3, <1>4, <1>6, <2>3, <3>1, TakeLastGood
    <3> HIDE DEF m, way
    <3> QED BY <1>9, <3>1, <3>2, SameOwned DEF GoodMap, Owns
  <2> QED BY <1>10, <2>1, <2>2, <2>3, WayIs
<1>11. CASE way # "new"
  BY <1>7, <1>10, <1>11 DEF SlotPage
<1>12. CASE way = "new" /\ ~SlotPage(mm, p)
  <2>1. m = Sliced(mm, v, n, type) /\ result = Key(mm, v)
    BY <1>5, <1>12
  <2>2. AllocFault(mm) = "ok" /\ ~Clobbers(mm, v, n)
    BY <1>2, <1>12, <2>1 DEF Clobbers
  <2>3. n < mm.entry[v].size /\ ~Tied(Sliced(mm, v, n, type))
    BY <1>2, <1>6, <1>12, <2>1
  <2>4. m \in Map
    BY <1>1, <1>3, <1>4, <2>1, <2>2, <2>3, SlicedGood
  <2>a. Empty(mm) => ~(result <= ScavengedPage(mm) /\ ScavengedPage(mm) < result + n)
    BY <1>2, <1>12
  <2> HIDE DEF m, way
  <2> DEFINE a == AllocEntry(mm)
             x == AllocSlot(mm)
  <2>5. a \in Map /\ a.entry \in [Slot -> Entry]
    BY <1>1, <2>2, AllocGood DEF GoodMap, Map
  <2>6. Owned(a, s) \/ s = x
    <3>1. m = TakeNew(a, v, n, type, x)
      BY <2>1 DEF Sliced
    <3> HIDE DEF a, x
    <3>2. m.tree = a.tree \cup {x} /\ m.freed = a.freed /\ m.next = a.next /\ m.left = a.left
      BY <2>5, <3>1 DEF TakeNew, Map
    <3>3. Owns(a, m, {x})
      BY <3>2, EnteredOwned
    <3> QED BY <1>9, <2>4, <3>3 DEF Owns
  <2>7. Owned(mm, s) \/ (Empty(mm) /\ s[1] = ScavengedPage(mm))
    BY <1>1, <2>2, <2>6, AllocOwned
  <2>8. Empty(mm) /\ p = ScavengedPage(mm)
    BY <1>7, <1>12, <2>7 DEF SlotPage
  <2>9. /\ p \in PageAddr /\ Types(mm, p) = {"conventional"}
        /\ Types(AllocEntry(mm), p) = {"loader_data"}
    BY <1>1, <2>2, <2>8, ScavengedIs
  <2>10. p \in Int /\ ~(result <= p /\ p < result + n)
    BY <2>a, <2>8, <2>9, PageNumber
  <2>11. TakenTypes(AllocEntry(mm), Sliced(mm, v, n, type), Key(mm, v), Key(mm, v) + n, type, p)
    BY <1>1, <1>3, <1>4, <2>2, <2>3, <2>10, SlicedTypes
  <2>12. Types(mm', p) = {"loader_data"}
    BY <1>9, <2>1, <2>4, <2>9, <2>10, <2>11 DEF TakenTypes
  <2> QED BY <2>9, <2>10, <2>12
<1> QED BY <1>11, <1>12

(* gd_alloc_pages finds no page that holds slots to take.                  *)
LEMMA CallAllocReuses ==
  ASSUME CallInv, NEW type, NEW count, CallAlloc(type, count), status' = "reused"
  PROVE  \E p \in PageAddr : SlotPage(mm, p) /\ View(mm)[p] = "conventional"
<1>1. GoodMap(mm) /\ Quiet(mm)
  BY BetweenCalls DEF CallAlloc
<1>2. AllocFault(mm) = "reused"
  BY DEF CallAlloc
<1>3. Empty(mm)
  BY <1>2 DEF AllocFault
<1> DEFINE p == ScavengedPage(mm)
<1>4. p \in PageAddr /\ Types(mm, p) = {"conventional"} /\ HoldsSlots(mm, p)
  BY <1>1, <1>2, <1>3, ScavengedIs
<1>5. SlotPage(mm, p)
  BY <1>4 DEF HoldsSlots, SlotPage, Owned, Used
<1> HIDE DEF p
<1>6. View(mm)[p] = "conventional"
  BY <1>1, <1>4, ViewTypes
<1> QED BY <1>4, <1>5, <1>6
-----------------------------------------------------------------------------
(* Pages in use: those with slots and those of callers.                    *)
Kept(m, g, p) == SlotPage(m, p) \/ \E r \in g : Within(r, p)

(* The call under way takes away no page in use: what a page is going to   *)
(* be comes before conventional memory, and gd_free_pages only frees what  *)
(* was not conventional.                                                   *)
Firm(e) ==
  /\ \A p \in PageAddr : Kept(mm, granted, p) => Safe(RankOf(freeing), mm, todo, e, p)
  /\ freeing => \A p \in PageAddr : Asked(e, p) # {} => before[p] # "conventional"

(* No caller has a page with slots, and such pages are not conventional.   *)
NoneShared == \A r \in granted, p \in PageAddr : Within(r, p) => ~SlotPage(mm, p)
SlotsGuarded == \A p \in PageAddr : SlotPage(mm, p) => Guarded(Seen[p])

SInv ==
  /\ status # "reused"
  /\ status = "ok" => /\ NoneShared
                      /\ Idle => SlotsGuarded
                      /\ todo # <<>> => \E e : /\ Requested(freeing, e) /\ Ongoing(e)
                                               /\ Firm(e)

(* The static slots are in no page.                                        *)
LEMMA NoSlotPages ==
  ASSUME NEW m, m.tree = {}, m.freed = <<>>, m.next = <<Static, 0>>, NEW p \in PageAddr
  PROVE  ~SlotPage(m, p)
<1>1. SUFFICES ASSUME NEW s \in Slot, s[1] = p, Owned(m, s) PROVE FALSE
  BY DEF SlotPage
<1>2. ~Used(m, s)
  BY DEF Used, InFreed
<1>3. s \in Pool(m)
  BY <1>1, <1>2 DEF Owned
<1>4. s[1] = Static
  BY <1>3 DEF Pool
<1>5. p \in Nat
  BY PageNumber
<1> QED BY <1>1, <1>4, <1>5 DEF Static

(* Guarded pages that nothing is asked for, or that mmap_add_entry comes   *)
(* in for, are safe.                                                       *)
LEMMA GuardedSafe ==
  ASSUME NEW m, GoodMap(m), Quiet(m), NEW p \in PageAddr, Guarded(View(m)[p]),
         NEW q, NEW e, NEW rk, Pends(q, p) = Asked(e, p),
         rk = Rank \/ Asked(e, p) = {}
  PROVE  Safe(rk, m, q, e, p)
<1> DEFINE t == View(m)[p]
<1>1. t # "none" /\ t # "conventional"
  BY GuardedIs
<1>2. Types(m, p) = {t}
  BY <1>1, ViewTypes
<1> HIDE DEF t
<1>3. Guarded(t)
  BY DEF t
<1> QED BY <1>1, <1>2, <1>3 DEF Safe, SafeTypes

LEMMA RunFirm ==
  ASSUME IInv, SInv, Step, granted' = granted PROVE SInv'
<1>1. /\ CallInv /\ status = "ok" /\ todo # <<>> /\ CallInv'
  BY StepBegins, RunKeeps DEF IInv
<1>2. PICK e : Requested(freeing, e) /\ Ongoing(e) /\ Firm(e)
  BY <1>1 DEF SInv
<1>3. NoneShared
  BY <1>1 DEF SInv
<1>4. status' # "reused"
  <2>1. \A p \in PageAddr : SlotPage(mm, p) => Safe(RankOf(freeing), mm, todo, e, p)
    BY <1>2 DEF Firm, Kept
  <2> QED BY <1>1, <1>2, <2>1, StepTakes
<1>5. SUFFICES ASSUME status' = "ok"
               PROVE  /\ NoneShared'
                      /\ Idle' => SlotsGuarded'
                      /\ todo' # <<>> => \E x : /\ Requested(freeing', x) /\ Ongoing(x)'
                                                /\ Firm(x)'
  BY <1>4 DEF SInv
<1>6. ASSUME NEW r \in granted, NEW p \in PageAddr, Within(r, p), SlotPage(mm', p)
      PROVE  FALSE
  <2>1. Safe(RankOf(freeing), mm, todo, e, p)
    BY <1>2, <1>6 DEF Firm, Kept
  <2>2. SlotPage(mm, p)
    BY <1>1, <1>2, <1>5, <1>6, <2>1, StepTakes
  <2> QED BY <1>3, <1>6, <2>2 DEF NoneShared
<1>7. ASSUME NEW p \in PageAddr, Kept(mm', granted, p)
      PROVE  Safe(RankOf(freeing), mm', todo', e, p)
  <2>1. freeing => (Asked(e, p) # {} => before[p] # "conventional")
    BY <1>2 DEF Firm
  <2>2. \/ Safe(RankOf(freeing), mm, todo, e, p)
        \/ SlotPage(mm', p) /\ ~SlotPage(mm, p)
    BY <1>2, <1>7 DEF Firm, Kept
  <2> QED BY <1>1, <1>2, <1>5, <2>1, <2>2, StepSafe
<1>8. NoneShared'
  BY <1>6 DEF NoneShared
<1>9. ASSUME Idle' PROVE SlotsGuarded'
  <2>1. todo' = <<>> /\ GoodMap(mm') /\ Quiet(mm') /\ Seen' = View(mm')
    <3>1. todo' = <<>> /\ GoodMap(mm') /\ Orderly(mm', todo')
      BY <1>1, <1>9 DEF CallInv, MapInv, Idle
    <3> QED BY <1>9, <3>1, OrderlyQuiet DEF Seen
  <2>2. ASSUME NEW p \in PageAddr, SlotPage(mm', p) PROVE Guarded(Seen'[p])
    <3>1. Safe(RankOf(freeing), mm', <<>>, e, p)
      BY <1>7, <2>1, <2>2 DEF Kept
    <3>2. Pends(<<>>, p) = {}
      BY DEF Pends
    <3>3. PICK t \in Types(mm', p) : Guarded(t)
      BY <3>1, <3>2 DEF Safe, SafeTypes
    <3>4. View(mm')[p] = t
      BY <2>1, <3>3, ViewTypes
    <3> QED BY <2>1, <3>3, <3>4
  <2> QED BY <2>2 DEF SlotsGuarded
<1>10. ASSUME todo' # <<>> PROVE Requested(freeing', e) /\ Ongoing(e)' /\ Firm(e)'
  <2>1. freeing' = freeing /\ before' = before /\ Ongoing(e)'
    BY <1>1, <1>2, <1>5, <1>10, RunKeeps
  <2>2. Firm(e)'
    <3>1. /\ \A p \in PageAddr : Kept(mm', granted', p)
                                   => Safe(RankOf(freeing'), mm', todo', e, p)
      BY <1>7, <2>1
    <3>2. freeing' => \A p \in PageAddr : Asked(e, p) # {} => before'[p] # "conventional"
      BY <1>2, <2>1 DEF Firm
    <3> QED BY <3>1, <3>2 DEF Firm
  <2> QED BY <1>2, <2>1, <2>2
<1> QED BY <1>8, <1>9, <1>10

LEMMA CallPends ==
  ASSUME NEW e, NEW p
  PROVE  /\ Pends(<<AddCall(e)>>, p) = Asked(e, p)
         /\ Pends(<<AddCall(e), RestoreCall>>, p) = Asked(e, p)
<1>1. AskedBy(AddCall(e), p) = Asked(e, p) /\ AskedBy(RestoreCall, p) = {}
  BY DEF AskedBy, AddCall, RestoreCall
<1> DEFINE a == <<AddCall(e)>>
           b == <<AddCall(e), RestoreCall>>
<1>2. Len(a) = 1 /\ a[1] = AddCall(e) /\ Len(b) = 2 /\ b[1] = AddCall(e) /\ b[2] = RestoreCall
  OBVIOUS
<1>3. 1 .. 1 = {1} /\ 1 .. 2 = {1, 2}
  OBVIOUS
<1> HIDE DEF a, b
<1>4. Pends(a, p) = Asked(e, p)
  BY <1>1, <1>2, <1>3 DEF Pends
<1>5. Pends(b, p) = Asked(e, p)
  BY <1>1, <1>2, <1>3 DEF Pends
<1> QED BY <1>4, <1>5 DEF a, b

LEMMA AddFirm ==
  ASSUME IInv, GInv, SInv, NEW e \in AddInputs, Add(e) PROVE SInv'
<1>1. /\ CallInv' /\ Requested(freeing', e) /\ Ongoing(e)' /\ freeing' = FALSE /\ Seen' = Seen
      /\ ~Idle'
  BY AddUnderway
<1>2. /\ Idle /\ mm' = mm /\ status' = status /\ todo' = <<AddCall(e)>> /\ granted' = granted
  BY DEF Add, CallAdd
<1>3. GoodMap(mm) /\ Quiet(mm) /\ Seen = View(mm) /\ status = "ok"
  BY <1>2, BetweenCalls DEF IInv
<1>4. NoneShared /\ SlotsGuarded /\ Held
  BY <1>2, <1>3 DEF SInv, GInv
<1>5. ASSUME NEW p \in PageAddr, Kept(mm, granted, p)
      PROVE  Safe(Rank, mm, <<AddCall(e)>>, e, p)
  <2>1. Guarded(View(mm)[p])
    BY <1>3, <1>4, <1>5 DEF Kept, SlotsGuarded, Held
  <2> QED BY <1>3, <2>1, CallPends, GuardedSafe
<1>6. RankOf(freeing') = Rank
  BY <1>1 DEF RankOf
<1>7. Firm(e)'
  BY <1>1, <1>2, <1>5, <1>6 DEF Firm
<1>8. NoneShared'
  BY <1>2, <1>4 DEF NoneShared
<1> QED BY <1>1, <1>2, <1>3, <1>7, <1>8 DEF SInv

LEMMA FreeAsks ==
  ASSUME NEW s \in PageAddr, NEW c \in Nat, NEW p \in PageAddr,
         NEW e, e = Region(s, c * PageSize, "conventional"), Asked(e, p) # {}
  PROVE  s <= p /\ p < s + c * PageSize
<1>1. PICK n \in Nat : n = c * PageSize /\ Aligned(n)
  <2>1. c * 4096 \in Nat /\ (c * 4096) % 4096 = 0
    OBVIOUS
  <2> QED BY <2>1 DEF Aligned, PageSize
<1>2. /\ e \in Entry /\ e.start = s /\ e.start \in Nat /\ e.size \in Nat /\ Aligned(e.start)
      /\ Aligned(e.size) /\ End(e) = s + n
  <2>1. s \in Nat /\ Aligned(s) /\ e = Region(s, n, "conventional")
    BY <1>1, PageNumber DEF Aligned, PageSize
  <2> QED BY <1>1, <2>1 DEF Region, Entry, Type, End
<1>3. s <= p /\ p < End(e)
  BY <1>2, AskedWhole
<1> QED BY <1>1, <1>2, <1>3

LEMMA FreeFirm ==
  ASSUME IInv, GInv, SInv, NEW r \in granted, FreePages(r) PROVE SInv'
<1> DEFINE e == Region(r.start, r.count * PageSize, "conventional")
<1>1. CallInv' /\ Requested(freeing', e) /\ Ongoing(e)' /\ Seen' = Seen /\ ~Idle'
  BY FreeUnderway
<1>2. /\ Idle /\ mm' = mm /\ status' = status /\ todo' = <<AddCall(e), RestoreCall>>
      /\ granted' = granted \ {r} /\ before' = View(mm)
  BY DEF FreePages, CallFree
<1>3. GoodMap(mm) /\ Quiet(mm) /\ Seen = View(mm) /\ status = "ok"
  BY <1>2, BetweenCalls DEF IInv
<1>4. NoneShared /\ SlotsGuarded /\ Held
  BY <1>2, <1>3 DEF SInv, GInv
<1>5. ASSUME NEW p \in PageAddr, Asked(e, p) # {} PROVE Within(r, p)
  <2>1. r.start \in PageAddr /\ r.count \in Nat
    BY GrantNumbers
  <2> QED BY <1>5, <2>1, FreeAsks DEF Within
<1> HIDE DEF e
<1>6. ASSUME NEW p \in PageAddr, Kept(mm, granted \ {r}, p) PROVE ~Within(r, p)
  <2>1. CASE SlotPage(mm, p)
    BY <1>4, <1>6, <2>1 DEF NoneShared
  <2>2. ASSUME NEW q \in granted \ {r}, Within(q, p), Within(r, p) PROVE FALSE
    <3>1. Apart(r, q)
      BY <1>4, <2>2 DEF Held
    <3>2. PICK a \in Int, b \in Int, x \in Int, y \in Int, z \in Int :
            /\ a = r.start /\ b = r.start + r.count * PageSize
            /\ x = q.start /\ y = q.start + q.count * PageSize /\ z = p
      BY GrantNumbers, PageNumber
    <3>3. (y <= a \/ b <= x) /\ a <= z /\ z < b /\ x <= z /\ z < y
      BY <2>2, <3>1, <3>2 DEF Apart, Within
    <3> QED BY <3>2, <3>3
  <2> QED BY <1>6, <2>1, <2>2 DEF Kept
<1>7. ASSUME NEW p \in PageAddr, Kept(mm, granted \ {r}, p)
      PROVE  Safe(RankOf(freeing'), mm, <<AddCall(e), RestoreCall>>, e, p)
  <2>1. Guarded(View(mm)[p])
    BY <1>3, <1>4, <1>7 DEF Kept, SlotsGuarded, Held
  <2>2. Asked(e, p) = {}
    BY <1>5, <1>6, <1>7
  <2> QED BY <1>3, <2>1, <2>2, CallPends, GuardedSafe
<1>8. ASSUME NEW p \in PageAddr, Asked(e, p) # {} PROVE before'[p] # "conventional"
  <2>1. Guarded(View(mm)[p])
    BY <1>3, <1>4, <1>5, <1>8 DEF Held
  <2> QED BY <1>2, <2>1, GuardedIs
<1>9. Firm(e)'
  BY <1>2, <1>7, <1>8 DEF Firm
<1>10. NoneShared'
  BY <1>2, <1>4 DEF NoneShared
<1> QED BY <1>1, <1>2, <1>3, <1>9, <1>10 DEF SInv

LEMMA AllocFirm ==
  ASSUME IInv, GInv, SInv, IInv', "reserved" \notin AllocTypes,
         NEW type \in AllocTypes, NEW count \in AllocCounts, AllocPages(type, count)
  PROVE  SInv'
<1> DEFINE s == AllocResult(type, count)
           w == [start |-> s, count |-> count, type |-> type]
           n == count * PageSize
<1>1. /\ CallAlloc(type, count) /\ count # 0 /\ Idle
      /\ status' = "ok" => granted' = granted \cup {w}
  BY DEF AllocPages, CallAlloc
<1>2. type \in Type /\ count \in Nat /\ CallInv
  BY InputsAssumption DEF IInv
<1>3. GoodMap(mm) /\ Quiet(mm) /\ Seen = View(mm) /\ status = "ok" /\ todo' = <<>>
  BY <1>1, <1>2, BetweenCalls, AllocGoesOn
<1>4. NoneShared /\ SlotsGuarded /\ Held
  BY <1>1, <1>3 DEF SInv, GInv
<1>5. status' # "reused"
  <2>1. ASSUME NEW p \in PageAddr, SlotPage(mm, p) PROVE View(mm)[p] # "conventional"
    BY <1>3, <1>4, <2>1, GuardedIs DEF SlotsGuarded
  <2> QED BY <1>1, <1>2, <2>1, CallAllocReuses
<1>6. CASE status' # "ok"
  BY <1>5, <1>6 DEF SInv
<1>7. CASE status' = "ok"
  <2>1. s \in PageAddr /\ Allotted(s, n, type)
    BY <1>1, <1>7, AllocDoes
  <2>2. GoodMap(mm') /\ Quiet(mm') /\ Seen' = View(mm')
    <3>1. GoodMap(mm') /\ Orderly(mm', todo') /\ Idle'
      BY <1>3, <1>7 DEF IInv, CallInv, MapInv, Idle
    <3> QED BY <1>3, <3>1, OrderlyQuiet DEF Seen
  <2>3. ASSUME NEW p, SlotPage(mm', p)
        PROVE  \/ SlotPage(mm, p)
               \/ /\ p \in PageAddr
                  /\ Types(mm, p) = {"conventional"} /\ Types(mm', p) = {"loader_data"}
                  /\ ~(s <= p /\ p < s + n)
    BY <1>1, <1>2, <1>7, <2>3, CallAllocOwned
  <2>4. \A p : Within(w, p) <=> s <= p /\ p < s + n
    BY DEF Within
  <2>5. granted' = granted \cup {w}
    BY <1>1, <1>7
  <2> HIDE DEF s, w, n
  <2>6. ASSUME NEW p \in PageAddr, SlotPage(mm', p)
        PROVE  Guarded(Seen'[p]) /\ ~Within(w, p) /\ \A r \in granted : ~Within(r, p)
    <3>1. CASE SlotPage(mm, p)
      <4>1. Guarded(Seen[p]) /\ Seen[p] # "conventional"
        BY <1>4, <3>1, GuardedIs DEF SlotsGuarded
      <4>2. Seen'[p] = Seen[p] /\ ~(s <= p /\ p < s + n)
        BY <2>1, <4>1 DEF Allotted
      <4> QED BY <1>4, <2>4, <3>1, <4>1, <4>2 DEF NoneShared
    <3>2. CASE /\ Types(mm, p) = {"conventional"} /\ Types(mm', p) = {"loader_data"}
               /\ ~(s <= p /\ p < s + n)
      <4>1. Seen[p] = "conventional" /\ Seen'[p] = "loader_data"
        BY <1>3, <2>2, <3>2, ViewTypes
      <4>2. \A r \in granted : ~Within(r, p)
        BY <1>4, <4>1, GuardedIs DEF Held
      <4>3. Guarded("loader_data")
        BY Ranks, GuardedIs
      <4> QED BY <2>4, <3>2, <4>1, <4>2, <4>3
    <3> QED BY <2>3, <2>6, <3>1, <3>2
  <2>7. NoneShared' /\ SlotsGuarded'
    BY <2>5, <2>6 DEF NoneShared, SlotsGuarded
  <2> QED BY <1>3, <1>5, <2>7 DEF SInv
<1> QED BY <1>6, <1>7

LEMMA SlotsInit == Init => SInv
<1>1. SUFFICES ASSUME Init PROVE SInv
  OBVIOUS
<1>2. /\ mm.tree = {} /\ mm.freed = <<>> /\ mm.next = <<Static, 0>>
      /\ granted = {} /\ status = "ok" /\ todo = <<>>
  BY <1>1 DEF Init, MapInit
<1>3. \A p \in PageAddr : ~SlotPage(mm, p)
  BY <1>2, NoSlotPages
<1> QED BY <1>2, <1>3 DEF SInv, NoneShared, SlotsGuarded

LEMMA CleanFirm ==
  ASSUME IInv, Clean PROVE SInv'
<1>1. CallClean /\ granted' = {} /\ mm \in Map
  BY DEF Clean, IInv, CallInv, MapInv
<1>2. Idle' /\ Idle
  BY <1>1, Cleans DEF IInv, CallClean
<1>3. mm'.tree = {} /\ mm'.freed = <<>> /\ mm'.next = <<Static, 0>>
  <2> DEFINE z == <<Static, 0>>
  <2>1. mm' = [mm EXCEPT !.tree = {}, !.freed = <<>>, !.next = z, !.left = StaticSlots]
    BY <1>1 DEF CallClean
  <2> HIDE DEF z
  <2>2. mm'.tree = {} /\ mm'.freed = <<>> /\ mm'.next = z
    BY <1>1, <2>1 DEF Map
  <2> QED BY <2>2 DEF z
<1>4. \A p \in PageAddr : ~SlotPage(mm', p)
  BY <1>3, NoSlotPages
<1> QED BY <1>1, <1>2, <1>4 DEF SInv, NoneShared, SlotsGuarded, Idle

LEMMA SlotsNext ==
  ASSUME "reserved" \notin AllocTypes
  PROVE  IInv /\ GInv /\ SInv /\ IInv' /\ [Next]_vars => SInv'
<1>1. SUFFICES ASSUME IInv, GInv, SInv, IInv', [Next]_vars PROVE SInv'
  OBVIOUS
<1>2. CASE Run
  BY <1>1, <1>2, RunFirm DEF Run
<1>3. ASSUME NEW e \in AddInputs, Add(e) PROVE SInv'
  BY <1>1, <1>3, AddFirm
<1>4. ASSUME NEW r \in granted, FreePages(r) PROVE SInv'
  BY <1>1, <1>4, FreeFirm
<1>5. ASSUME NEW type \in AllocTypes, NEW count \in AllocCounts, AllocPages(type, count)
      PROVE  SInv'
  BY <1>1, <1>5, AllocFirm
<1>6. CASE Clean
  BY <1>1, <1>6, CleanFirm
<1>7. CASE \/ \E type \in AllocTypes, count \in AllocCounts : AllocNothing(type, count)
           \/ \E n \in GetSizes : Get(n)
           \/ UNCHANGED vars
  <2>1. UNCHANGED <<mm, todo, freeing, status, before, granted>>
    BY <1>7 DEF AllocNothing, Get, vars
  <2>2. Seen' = Seen /\ Idle' = Idle /\ \A e : Ongoing(e)' = Ongoing(e) /\ Firm(e)' = Firm(e)
    BY <2>1 DEF Seen, Idle, Ongoing, Firm
  <2> QED BY <1>1, <2>1, <2>2 DEF SInv, NoneShared, SlotsGuarded
<1> QED BY <1>1, <1>2, <1>3, <1>4, <1>5, <1>6, <1>7 DEF Next

(* A page that mmap_alloc_entry took for mmap_entry structures is never    *)
(* conventional memory again while they are in use, whatever is added,     *)
(* allocated and freed: it is never taken a second time, and no caller is  *)
(* given it.  A caller must not ask for memory of type gd_reserved, the    *)
(* one type that a range of conventional memory outranks.                  *)
THEOREM SlotPagesAlwaysKept ==
  ASSUME "reserved" \notin AllocTypes
  PROVE  Spec => []SlotPagesKept
<1>1. SInv => SlotPagesKept
  BY DEF SInv, SlotPagesKept
<1>2. Init => GInv
  BY DEF Init, MapInit, GInv, Held
<1> QED BY <1>1, <1>2, Inductive, GrantsNext, SlotsInit, SlotsNext, PTL DEF Spec

(* As long as nothing has failed, the pages gd_alloc_pages returned and    *)
(* those with mmap_entry structures, in use or in the pool, are different  *)
(* pages: the one way to hand out a page with slots is the slicing that    *)
(* leaves status "clobbered".                                              *)
THEOREM GrantsExclusiveUntilFault ==
  ASSUME "reserved" \notin AllocTypes
  PROVE  Spec => [](status = "ok" => GrantsExclusive)
<1>1. IInv /\ SInv => (status = "ok" => GrantsExclusive)
  <2>1. SUFFICES ASSUME IInv, SInv, status = "ok", NEW r \in granted,
                        NEW s \in mm.tree \cup Pool(mm)
                 PROVE  s[1] < r.start \/ s[1] >= r.start + r.count * PageSize
    BY DEF GrantsExclusive
  <2>2. GoodMap(mm) /\ NoneShared
    BY <2>1 DEF IInv, CallInv, MapInv, SInv
  <2>3. s \in Slot
    BY <2>2, PoolSlots DEF GoodMap, Map
  <2>4. Owned(mm, s)
    BY DEF Owned, Used
  <2>5. s[1] \in PageAddr \/ s[1] = Static
    BY <2>3 DEF Slot
  <2>6. PICK a \in Nat, b \in Int, x \in Int :
          a = r.start /\ b = r.start + r.count * PageSize /\ x = s[1]
    BY <2>1, <2>5, GrantNumbers, PageNumber DEF Static
  <2>7. CASE s[1] = Static
    BY <2>6, <2>7 DEF Static
  <2>8. CASE s[1] \in PageAddr
    <3>1. ~Within(r, s[1])
      BY <2>2, <2>3, <2>4, <2>8 DEF NoneShared, SlotPage
    <3>2. ~(a <= x /\ x < b)
      BY <2>6, <3>1 DEF Within
    <3> QED BY <2>6, <3>2
  <2> QED BY <2>5, <2>7, <2>8
<1>2. Init => GInv
  BY DEF Init, MapInit, GInv, Held
<1> QED BY <1>1, <1>2, Inductive, GrantsNext, SlotsInit, SlotsNext, PTL DEF Spec
=============================================================================
