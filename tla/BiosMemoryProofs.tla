-------------------------- MODULE BiosMemoryProofs --------------------------
(***************************************************************************)
(* mmap_init, for any memory, any number of slots, any layout of the first *)
(* 16 MiB and anything the BIOS may report: HonoursFirmware, LoaderKept.   *)
(***************************************************************************)
EXTENDS BiosMemory, MemoryMapProofs

Elems(q) == {q[i] : i \in 1 .. Len(q)}
Addable == {e \in Entry : GoodArg(e)}

(* In e page p is, or is partly, something else than conventional memory.  *)
Guards(e, p) == Part(e, p) /\ Guarded(Given(e, p))

(***************************************************************************)
(* The map S, the reports R and the point c of mmap_init agree, when the   *)
(* entries of L are still to be added: conventional memory, in the map or  *)
(* to come, was reported as usable, and every page reported otherwise, and *)
(* in the end every page known to be in use, is guarded or about to be.    *)
(***************************************************************************)
Offered(R, p) == \E r \in R : r.usable /\ Inside(r, p)
Kept(S, L, p) == Guarded(S[p]) \/ \E e \in L : Guards(e, p)

Promised(R, L) == \A e \in L : e.type = "conventional" => Said(e, TRUE) \in R
Backed(S, R) == \A p \in PageAddr : S[p] = "conventional" => Offered(R, p)
Withheld(S, R, L) ==
  \A r \in R, p \in PageAddr : ~r.usable /\ Touching(r, p) => Kept(S, L, p)
KnownKept(S, L) ==
  /\ S[0] = "unusable" \/ LowMem \in L
  /\ \A p \in PageAddr : Inside(GandrMem, p) => Kept(S, L, p)

Agree(S, R, c, L) ==
  /\ Promised(R, L) /\ Backed(S, R) /\ Withheld(S, R, L)
  /\ c = "done" => KnownKept(S, L)

(* The entries still to be added: the one of the call under way, and rest. *)
Coming(L) ==
  IF todo = <<>> THEN L = Elems(rest)
  ELSE \E e \in Addable : Ongoing(e) /\ L = {e} \cup Elems(rest)

BInv ==
  /\ CallInv /\ rest \in Seq(Addable)
  /\ pc \in {"e820", "base"} => rest = <<>> /\ todo = <<>> /\ Seen = NoView
  /\ status = "ok" => /\ freeing = FALSE
                      /\ \E L : Coming(L) /\ Agree(Seen, reported, pc, L)

-----------------------------------------------------------------------------
LEMMA Precedes ==
  /\ \A t : Guarded(t) => t \notin {"conventional", "reserved", "none"}
  /\ \A t \in {"unusable", "acpi_reclaim", "acpi_nvs", "loader_code"} : t \in Type /\ Guarded(t)
  /\ \A t \in Type : Rank[t] \in Int /\ Rank["unusable"] <= Rank[t]
<1>1. \A t \in Type : Rank[t] \in 1 .. 14 /\ OverlapPrecedence[Rank[t]] = t
  <2>1. ASSUME NEW t \in Type PROVE Rank[t] \in 1 .. 14 /\ OverlapPrecedence[Rank[t]] = t
    <3>1. Rank[t] = CHOOSE i \in 1 .. 14 : OverlapPrecedence[i] = t
      BY Tables DEF Rank, Position
    <3> QED BY <3>1, Tables
  <2> QED BY <2>1
<1>2. {"unusable", "acpi_reclaim", "acpi_nvs", "loader_code", "reserved", "conventional"} \subseteq Type
  BY DEF Type
<1>3. /\ \A i \in 1 .. 14 : /\ OverlapPrecedence[i] = "unusable" => i = 1
                            /\ OverlapPrecedence[i] = "conventional" => i = 13
                            /\ OverlapPrecedence[i] = "reserved" => i = 14
  BY DEF OverlapPrecedence
<1>4. Rank["unusable"] = 1 /\ Rank["conventional"] = 13 /\ Rank["reserved"] = 14
  BY <1>1, <1>2, <1>3
<1>5. \A t : Guarded(t) => t \notin {"conventional", "reserved", "none"}
  BY <1>4, GuardedIs DEF Guarded
<1>6. \A t \in {"unusable", "acpi_reclaim", "acpi_nvs", "loader_code"} : t \in Type /\ Guarded(t)
  BY <1>2, GuardedIs
<1>7. \A t \in Type : Rank[t] \in Int /\ Rank["unusable"] <= Rank[t]
  BY <1>1, <1>4
<1> QED BY <1>5, <1>6, <1>7

(* What a type is raised to is no lower than either.                       *)
LEMMA RaisedIs ==
  ASSUME NEW old \in Type \cup {"none"}, NEW g \in Type
  PROVE  /\ Raised(Rank, old, g) \in Type /\ Raised(Rank, old, g) \in {old, g}
         /\ Guarded(g) => Guarded(Raised(Rank, old, g))
         /\ Guarded(old) => Guarded(Raised(Rank, old, g))
         /\ "unusable" \in {old, g} => Raised(Rank, old, g) = "unusable"
<1> DEFINE h == Higher(Rank, old, g)
<1>1. CASE old = "none"
  BY <1>1, Precedes DEF Raised
<1>2. CASE old \in Type
  <2>1. old # "none" /\ Raised(Rank, old, g) = h
    BY <1>2, Ranks DEF Raised
  <2>2. /\ h \in {old, g} /\ h \in Type /\ Rank[h] <= Rank[old] /\ Rank[h] <= Rank[g]
    BY <1>2, HigherIs DEF IsRank
  <2>3. /\ Rank[h] \in Int /\ Rank[old] \in Int /\ Rank[g] \in Int /\ Rank["conventional"] \in Int
        /\ Rank["unusable"] <= Rank[h] /\ Rank["unusable"] \in Int /\ "unusable" \in Type
    BY <1>2, <2>2, Precedes, Ranks
  <2> HIDE DEF h
  <2>4. (Guarded(g) => Guarded(h)) /\ (Guarded(old) => Guarded(h))
    BY <2>2, <2>3 DEF Guarded
  <2>5. ASSUME "unusable" \in {old, g} PROVE h = "unusable"
    <3>1. Rank[h] = Rank["unusable"]
      BY <2>2, <2>3, <2>5
    <3> QED BY <2>2, <2>3, <3>1, Ranks DEF IsRank
  <2> QED BY <2>1, <2>2, <2>4, <2>5
<1> QED BY <1>1, <1>2

(* What mmap_add_entry(e) makes of a page: it keeps or puts guards, it     *)
(* keeps or puts what is unusable, and conventional is what was or what    *)
(* all of is in a conventional e.                                          *)
LEMMA AddMakes ==
  ASSUME NEW e \in Entry, NEW p, NEW old \in Type \cup {"none"},
         NEW t, t \in Allowed(old, Goal(Rank, old, e, p))
  PROVE  /\ Guarded(old) => Guarded(t)
         /\ Guards(e, p) => Guarded(t)
         /\ old = "unusable" \/ (Part(e, p) /\ Given(e, p) = "unusable") => t = "unusable"
         /\ t = "conventional" => \/ old = "conventional"
                                  \/ Full(e, p) /\ e.type = "conventional"
<1> DEFINE g == Given(e, p)
           f == Goal(Rank, old, e, p)
           h == Raised(Rank, f, "loader_data")
<1>1. g \in Type /\ "loader_data" \in Type
  BY Ranks DEF Given, Entry
<1>2. /\ f \in Type \cup {"none"} /\ f \in {old, g}
      /\ ~Part(e, p) => f = old
      /\ Guarded(old) \/ Guards(e, p) => Guarded(f)
      /\ old = "unusable" \/ (Part(e, p) /\ g = "unusable") => f = "unusable"
      /\ f = "conventional" => old = "conventional" \/ g = "conventional"
  <2>1. CASE ~Part(e, p)
    BY <2>1 DEF Goal, Guards
  <2>2. CASE Part(e, p)
    <3>1. f = Raised(Rank, old, g)
      BY <2>2 DEF Goal
    <3>2. /\ Raised(Rank, old, g) \in Type /\ Raised(Rank, old, g) \in {old, g}
          /\ Guarded(g) => Guarded(Raised(Rank, old, g))
          /\ Guarded(old) => Guarded(Raised(Rank, old, g))
          /\ "unusable" \in {old, g} => Raised(Rank, old, g) = "unusable"
      BY <1>1, RaisedIs
    <3> HIDE DEF f
    <3> QED BY <2>2, <3>1, <3>2 DEF Guards
  <2> QED BY <2>1, <2>2
<1>3. g = "conventional" => Full(e, p) /\ e.type = "conventional"
  BY DEF Given
<1>4. /\ h \in Type /\ (Guarded(f) => Guarded(h)) /\ Guarded(h)
      /\ f = "unusable" => h = "unusable"
  <2>1. Guarded("loader_data")
    BY <1>1, GuardedIs
  <2> HIDE DEF f
  <2> QED BY <1>1, <1>2, <2>1, RaisedIs
<1>5. t = f \/ t = h
  BY DEF Allowed
<1>6. ~Part(e, p) /\ f = "conventional" => old = "conventional"
  BY <1>2
<1> HIDE DEF f, h, g
<1>7. t = "conventional" => t = f
  BY <1>4, <1>5, Precedes
<1> QED BY <1>2, <1>3, <1>4, <1>5, <1>6, <1>7 DEF g

-----------------------------------------------------------------------------
(* A call of mmap_add_entry that returns: its entry is in the map.         *)
LEMMA AddAgrees ==
  ASSUME NEW S, NEW U, NEW R, NEW c, NEW e \in Entry, NEW L,
         \A p \in PageAddr : /\ S[p] \in Type \cup {"none"}
                             /\ U[p] \in Allowed(S[p], Goal(Rank, S[p], e, p)),
         Agree(S, R, c, {e} \cup L)
  PROVE  Agree(U, R, c, L)
<1>1. ASSUME NEW p \in PageAddr
      PROVE  /\ Guarded(S[p]) => Guarded(U[p])
             /\ Guards(e, p) => Guarded(U[p])
             /\ S[p] = "unusable" \/ (Part(e, p) /\ Given(e, p) = "unusable") => U[p] = "unusable"
             /\ U[p] = "conventional" => \/ S[p] = "conventional"
                                         \/ Full(e, p) /\ e.type = "conventional"
  BY AddMakes
<1>2. Promised(R, L)
  BY DEF Agree, Promised
<1>3. Backed(U, R)
  <2>1. ASSUME NEW p \in PageAddr, Full(e, p), e.type = "conventional" PROVE Offered(R, p)
    <3>1. Said(e, TRUE) \in R
      BY <2>1 DEF Agree, Promised
    <3>2. Said(e, TRUE).usable /\ Inside(Said(e, TRUE), p)
      BY <2>1 DEF Said, Inside, Full, End
    <3> QED BY <3>1, <3>2 DEF Offered
  <2> QED BY <1>1, <2>1 DEF Agree, Backed
<1>4. ASSUME NEW p \in PageAddr, Kept(S, {e} \cup L, p) PROVE Kept(U, L, p)
  BY <1>1, <1>4 DEF Kept
<1>5. Withheld(U, R, L)
  BY <1>4 DEF Agree, Withheld
<1>6. ASSUME c = "done" PROVE KnownKept(U, L)
  <2>1. KnownKept(S, {e} \cup L)
    BY <1>6 DEF Agree
  <2>2. 0 \in PageAddr /\ Part(LowMem, 0) /\ Given(LowMem, 0) = "unusable"
    <3>1. 0 \in PageAddr
      BY PagesAssumption DEF PageAddr, PageSize
    <3>2. LowMem.start = 0 /\ LowMem.size = 4096 /\ End(LowMem) = 4096
      BY DEF LowMem, LowSize, Region, End, PageSize
    <3>3. LowMem.type = "unusable"
      BY DEF LowMem, Region
    <3> QED BY <3>1, <3>2, <3>3 DEF Part, Given, PageSize
  <2>3. U[0] = "unusable" \/ LowMem \in L
    BY <1>1, <2>1, <2>2 DEF KnownKept
  <2> QED BY <1>4, <2>1, <2>3 DEF KnownKept
<1> QED BY <1>2, <1>3, <1>5, <1>6 DEF Agree

(* The calls of mmap_add_entry still to be made.                           *)
LEMMA FirstAndRest ==
  ASSUME NEW q \in Seq(Addable), q # <<>>
  PROVE  /\ Head(q) \in Addable /\ Tail(q) \in Seq(Addable)
         /\ Elems(q) = {Head(q)} \cup Elems(Tail(q))
<1>1. Len(q) \in Nat /\ Len(q) # 0
  BY EmptySeq
<1>2. /\ Head(q) = q[1] /\ Tail(q) \in Seq(Addable) /\ Len(Tail(q)) = Len(q) - 1
      /\ \A i \in 1 .. Len(q) - 1 : Tail(q)[i] = q[i + 1]
  BY <1>1
<1>3. ASSUME NEW i \in 1 .. Len(q) PROVE q[i] \in {Head(q)} \cup Elems(Tail(q))
  <2>1. CASE i = 1
    BY <1>2, <2>1
  <2>2. CASE i # 1
    <3>1. i - 1 \in 1 .. Len(q) - 1 /\ (i - 1) + 1 = i
      BY <1>1, <2>2
    <3>2. Tail(q)[i - 1] = q[i]
      BY <1>2, <3>1
    <3> QED BY <1>2, <3>1, <3>2 DEF Elems
  <2> QED BY <2>1, <2>2
<1>4. ASSUME NEW i \in 1 .. Len(Tail(q)) PROVE Tail(q)[i] \in Elems(q)
  <2>1. i + 1 \in 1 .. Len(q) /\ Tail(q)[i] = q[i + 1]
    BY <1>1, <1>2
  <2> QED BY <2>1 DEF Elems
<1>5. Head(q) \in Elems(q) /\ Head(q) \in Addable
  <2>1. 1 \in 1 .. Len(q)
    BY <1>1
  <2> QED BY <1>2, <2>1 DEF Elems
<1> QED BY <1>2, <1>3, <1>4, <1>5 DEF Elems

(* What may be assumed between calls, and what makes BInv then.            *)
LEMMA AtRest ==
  ASSUME BInv, Ready
  PROVE  /\ CallInv /\ Idle /\ rest = <<>> /\ freeing = FALSE
         /\ Agree(Seen, reported, pc, {})
<1>1. CallInv /\ Idle /\ rest = <<>> /\ todo = <<>> /\ status = "ok"
  BY DEF BInv, Ready, Idle
<1>2. Elems(rest) = {}
  BY <1>1 DEF Elems
<1> QED BY <1>1, <1>2 DEF BInv, Coming

LEMMA RestBegins ==
  ASSUME CallInv, NEW q \in Seq(Addable), q # <<>>, CallAdd(Head(q)), rest' = Tail(q),
         Agree(Seen, reported', pc', Elems(q)), pc' \notin {"e820", "base"}
  PROVE  BInv'
<1>1. /\ Head(q) \in Addable /\ Tail(q) \in Seq(Addable)
      /\ Elems(q) = {Head(q)} \cup Elems(Tail(q))
  BY FirstAndRest
<1>2. GoodArg(Head(q))
  BY <1>1 DEF Addable
<1>3. CallInv' /\ Ongoing(Head(q))' /\ Seen' = Seen /\ ~Idle' /\ freeing' = FALSE
  BY <1>2, AddComesIn
<1>4. todo' # <<>>
  BY DEF CallAdd
<1>5. Coming(Elems(q))'
  <2>1. Elems(q) = {Head(q)} \cup Elems(rest')
    BY <1>1
  <2> QED BY <1>1, <1>3, <1>4, <2>1 DEF Coming
<1> QED BY <1>1, <1>3, <1>5 DEF BInv

LEMMA AddAllBegins ==
  ASSUME BInv, NEW q \in Seq(Addable), q # <<>>, AddAll(q),
         Agree(Seen, reported', pc', Elems(q)), pc' \notin {"e820", "base"}
  PROVE  BInv'
BY RestBegins DEF AddAll, BInv

(* A step of the call under way.                                           *)
LEMMA RunAgrees == ASSUME BInv, Run PROVE BInv'
<1>1. CallInv /\ Step /\ UNCHANGED <<pc, rest, reported>>
  BY DEF BInv, Run, biosVars
<1>2. /\ status = "ok" /\ todo # <<>> /\ CallInv' /\ MapInv /\ Seen = before
  BY <1>1, StepBegins, RunKeeps
<1>3. PICK e \in Addable : /\ Ongoing(e) /\ freeing = FALSE
                           /\ Agree(Seen, reported, pc, {e} \cup Elems(rest))
  BY <1>2 DEF BInv, Coming
<1>4. rest' \in Seq(Addable) /\ pc' \notin {"e820", "base"}
  BY <1>1, <1>2 DEF BInv
<1>5. CASE status' # "ok"
  BY <1>2, <1>4, <1>5 DEF BInv
<1>6. CASE status' = "ok" /\ todo' # <<>>
  <2>1. freeing' = FALSE /\ before' = before /\ Ongoing(e)'
    BY <1>1, <1>3, <1>6, RunKeeps
  <2>2. Seen' = Seen
    BY <1>2, <1>6, <2>1 DEF Seen, Idle
  <2>3. Coming({e} \cup Elems(rest))'
    BY <1>1, <1>6, <2>1 DEF Coming
  <2>4. Agree(Seen', reported', pc', {e} \cup Elems(rest))
    BY <1>1, <1>3, <2>2
  <2> QED BY <1>1, <1>2, <1>4, <2>1, <2>3, <2>4 DEF BInv
<1>7. CASE status' = "ok" /\ todo' = <<>>
  <2>1. Became(Rank, e)
    BY <1>1, <1>3, <1>7, RunDoes DEF Returns, RankOf
  <2>2. ASSUME NEW p \in PageAddr
        PROVE  /\ Seen[p] \in Type \cup {"none"}
               /\ Seen'[p] \in Allowed(Seen[p], Goal(Rank, Seen[p], e, p))
    BY <1>2, <2>1 DEF Became, MapInv, PageView
  <2>3. e \in Entry
    BY DEF Addable
  <2>4. Agree(Seen', reported, pc, Elems(rest))
    BY <1>3, <2>2, <2>3, AddAgrees
  <2>5. ~freeing' /\ freeing' \in BOOLEAN
    BY <1>2, <1>7 DEF CallInv, StackInv, RestoreLast, MapInv
  <2>6. Coming(Elems(rest))'
    BY <1>1, <1>7 DEF Coming
  <2> QED BY <1>1, <1>2, <1>4, <2>4, <2>5, <2>6 DEF BInv
<1> QED BY <1>5, <1>6, <1>7

LEMMA AddRestAgrees == ASSUME BInv, AddRest PROVE BInv'
<1>1. /\ rest # <<>> /\ CallAdd(Head(rest)) /\ rest' = Tail(rest) /\ UNCHANGED <<pc, reported>>
      /\ CallInv /\ rest \in Seq(Addable) /\ pc \notin {"e820", "base"}
  BY DEF AddRest, BInv
<1>2. Idle /\ todo = <<>> /\ status = "ok"
  BY <1>1 DEF CallAdd, Idle
<1>3. Agree(Seen, reported, pc, Elems(rest))
  BY <1>2 DEF BInv, Coming
<1> QED BY <1>1, <1>3, RestBegins
-----------------------------------------------------------------------------
(* The entries that mmap_init makes.                                       *)
LEMMA ElemsOf ==
  /\ \A x : x \in Addable => <<x>> \in Seq(Addable) /\ <<x>> # <<>> /\ Elems(<<x>>) = {x}
  /\ \A x, y : x \in Addable /\ y \in Addable =>
       <<x, y>> \in Seq(Addable) /\ <<x, y>> # <<>> /\ Elems(<<x, y>>) = {x, y}
<1>1. ASSUME NEW x \in Addable
      PROVE  <<x>> \in Seq(Addable) /\ <<x>> # <<>> /\ Elems(<<x>>) = {x}
  <2>1. <<x>> \in Seq(Addable) /\ Len(<<x>>) = 1 /\ <<x>>[1] = x /\ 1 .. 1 = {1}
    OBVIOUS
  <2> QED BY <2>1 DEF Elems
<1>2. ASSUME NEW x \in Addable, NEW y \in Addable
      PROVE  <<x, y>> \in Seq(Addable) /\ <<x, y>> # <<>> /\ Elems(<<x, y>>) = {x, y}
  <2>1. /\ <<x, y>> \in Seq(Addable) /\ Len(<<x, y>>) = 2 /\ <<x, y>>[1] = x /\ <<x, y>>[2] = y
        /\ 1 .. 2 = {1, 2}
    OBVIOUS
  <2> QED BY <2>1 DEF Elems
<1> QED BY <1>1, <1>2

LEMMA RegionIs ==
  ASSUME NEW a \in Nat, NEW n \in Nat, NEW t \in Type, a + n <= NumPages * PageSize
  PROVE  /\ Region(a, n, t) \in Addable /\ Region(a, n, t) \in Entry
         /\ Region(a, n, t).start = a /\ Region(a, n, t).size = n /\ Region(a, n, t).type = t
         /\ End(Region(a, n, t)) = a + n
<1>1. Region(a, n, t) \in Entry
  BY DEF Region, Entry
<1>2. /\ Region(a, n, t).start = a /\ Region(a, n, t).size = n /\ Region(a, n, t).type = t
      /\ End(Region(a, n, t)) = a + n
  BY DEF Region, End
<1>3. GoodArg(Region(a, n, t))
  BY <1>1, <1>2 DEF GoodArg, Top
<1> QED BY <1>1, <1>2, <1>3 DEF Addable

LEMMA Layout ==
  /\ \A m \in Nat : m < Word => /\ ExtStart + m <= NumPages * PageSize
                                /\ HighStart + m <= NumPages * PageSize
  /\ LowMem \in Addable /\ GandrMem \in Addable
  /\ Region(IsaStart, HighStart - IsaStart, "unusable") \in Addable
<1>1. PICK top \in Int : top = NumPages * PageSize
  BY PagesAssumption DEF PageSize
<1>2. /\ GandrStart \in Nat /\ GandrEnd \in Nat /\ ExtStart \in Nat /\ IsaStart \in Nat
      /\ HighStart \in Nat /\ Word \in Nat /\ 4096 < GandrStart /\ GandrStart < GandrEnd
      /\ GandrEnd < ExtStart /\ ExtStart < IsaStart /\ IsaStart < HighStart
      /\ HighStart + Word <= top
  BY <1>1, LayoutAssumption, SpaceAssumption DEF LowSize, PageSize
<1>3. \A m \in Nat : m < Word => ExtStart + m <= top /\ HighStart + m <= top
  BY <1>2
<1>4. {"unusable", "loader_code"} \subseteq Type
  BY DEF Type
<1>5. LowMem \in Addable
  <2>1. 0 + 4096 <= NumPages * PageSize
    BY <1>1, <1>2
  <2> QED BY <1>4, <2>1, RegionIs DEF LowMem, LowSize, PageSize
<1>6. GandrMem \in Addable
  <2>1. /\ GandrEnd - GandrStart \in Nat
        /\ GandrStart + (GandrEnd - GandrStart) <= NumPages * PageSize
    BY <1>1, <1>2
  <2> QED BY <1>2, <1>4, <2>1, RegionIs DEF GandrMem
<1>7. Region(IsaStart, HighStart - IsaStart, "unusable") \in Addable
  <2>1. /\ HighStart - IsaStart \in Nat
        /\ IsaStart + (HighStart - IsaStart) <= NumPages * PageSize
    BY <1>1, <1>2
  <2> QED BY <1>2, <1>4, <2>1, RegionIs
<1> QED BY <1>1, <1>3, <1>5, <1>6, <1>7

(* A product of register contents, 32 bits wide.                           *)
LEMMA Product ==
  ASSUME NEW a \in Nat, NEW b \in Nat
  PROVE  (a * b) % Word \in Nat /\ (a * b) % Word < Word
<1>1. a * b \in Nat
  OBVIOUS
<1>2. Word \in Nat \ {0}
  BY LayoutAssumption
<1>3. \A n \in Nat : (n % Word) \in Nat /\ (n % Word) < Word
  BY <1>2
<1> QED BY <1>1, <1>3

-----------------------------------------------------------------------------
(* Reports that come with the entries L agree with them.                   *)
LEMMA AgreeGrows ==
  ASSUME NEW S, NEW R, NEW c, Agree(S, R, c, {}), NEW Q, R \subseteq Q, NEW d, d # "done",
         NEW L, Promised(Q, L),
         \A r \in Q \ R, p \in PageAddr : ~r.usable /\ Touching(r, p) => Kept(S, L, p)
  PROVE  Agree(S, Q, d, L)
<1>1. Backed(S, Q)
  BY DEF Agree, Backed, Offered
<1>2. ASSUME NEW p \in PageAddr, Kept(S, {}, p) PROVE Kept(S, L, p)
  BY <1>2 DEF Kept
<1>3. Withheld(S, Q, L)
  BY <1>2 DEF Agree, Withheld
<1> QED BY <1>1, <1>3 DEF Agree

(* A step that leaves the map alone.                                       *)
LEMMA Skips ==
  ASSUME BInv, Ready, UNCHANGED mapVars, rest' = rest, reported' = reported, pc' # "done",
         pc' \in {"e820", "base"} => Seen = NoView
  PROVE  BInv'
<1>1. /\ CallInv /\ Idle /\ rest = <<>> /\ freeing = FALSE /\ todo = <<>>
      /\ Agree(Seen, reported, pc, {})
  BY AtRest DEF Idle
<1>2. Seen' = Seen /\ CallInv' /\ todo' = <<>> /\ freeing' = FALSE
  BY <1>1 DEF mapVars, Seen, Idle, CallInv, MapInv, StackInv
<1>3. Promised(reported, {})
  BY DEF Promised
<1>4. Agree(Seen, reported, pc', {})
  BY <1>1, <1>3, AgreeGrows
<1>5. Elems(rest') = {} /\ rest' \in Seq(Addable)
  BY <1>1 DEF Elems
<1>6. Coming({})'
  BY <1>2, <1>5 DEF Coming
<1> QED BY <1>1, <1>2, <1>4, <1>5, <1>6 DEF BInv

(* add_acpi_range.                                                         *)
LEMMA AcpiTypes ==
  ASSUME NEW t \in Nat
  PROVE  /\ AcpiType(t) \in Type
         /\ t = 1 => AcpiType(t) = "conventional"
         /\ t # 1 => Guarded(AcpiType(t))
<1>1. DOMAIN acpi_to_gd = 1 .. 6
  BY DEF acpi_to_gd
<1>2. \A i \in 1 .. 6 : i # 1 => acpi_to_gd[i] \in {"unusable", "acpi_reclaim", "acpi_nvs"}
  BY DEF acpi_to_gd
<1>3. acpi_to_gd[1] = "conventional"
  BY DEF acpi_to_gd
<1>4. AcpiType(1) = "conventional" /\ "conventional" \in Type
  BY <1>1, <1>3, Ranks DEF AcpiType
<1>5. t # 1 => AcpiType(t) \in {"unusable", "acpi_reclaim", "acpi_nvs"}
  BY <1>1, <1>2 DEF AcpiType
<1> QED BY <1>4, <1>5, Precedes

LEMMA RangeAgrees ==
  ASSUME BInv, NEW r \in Ranges, AddRange(r), pc' \in {"e820more", "known"}
  PROVE  BInv'
<1>1. /\ r.start \in Nat /\ r.size \in Nat /\ r.type \in Nat /\ r.present \in BOOLEAN
      /\ r.start + r.size <= NumPages * PageSize
  BY LayoutAssumption, SpaceAssumption
<1>2. CASE ~r.present
  BY <1>2, Skips DEF AddRange
<1>3. CASE r.present
  <2> DEFINE e == Region(r.start, r.size, AcpiType(r.type))
             s == Said(r, r.type = 1)
  <2>1. AddAll(<<e>>) /\ reported' = reported \cup {s}
    BY <1>3 DEF AddRange
  <2>2. /\ AcpiType(r.type) \in Type /\ (r.type = 1 => AcpiType(r.type) = "conventional")
        /\ (r.type # 1 => Guarded(AcpiType(r.type)))
    BY <1>1, AcpiTypes
  <2>3. /\ e \in Addable /\ e.start = r.start /\ e.size = r.size /\ e.type = AcpiType(r.type)
    BY <1>1, <2>2, RegionIs
  <2>4. /\ s.start = r.start /\ s.size = r.size /\ (s.usable <=> r.type = 1)
    BY DEF Said
  <2>5. e.type = "conventional" => Said(e, TRUE) = s
    <3>1. e.type = "conventional" => r.type = 1
      BY <2>2, <2>3, Precedes
    <3>2. r.type = 1 => Said(e, TRUE) = s
      BY <2>3 DEF Said
    <3> QED BY <3>1, <3>2
  <2>6. ASSUME NEW p \in PageAddr, ~s.usable, Touching(s, p) PROVE Guards(e, p)
    <3>1. Part(e, p)
      BY <2>3, <2>4, <2>6 DEF Touching, Part, End
    <3>2. Guarded(Given(e, p))
      BY <2>2, <2>3, <2>4, <2>6, Precedes DEF Given
    <3> QED BY <3>1, <3>2 DEF Guards
  <2> HIDE DEF e, s
  <2>7. /\ <<e>> \in Seq(Addable) /\ <<e>> # <<>> /\ Elems(<<e>>) = {e}
    BY <2>3, ElemsOf
  <2>8. Ready /\ Agree(Seen, reported, pc, {})
    BY <2>1, AtRest DEF AddAll
  <2>9. Agree(Seen, reported', pc', {e})
    <3>1. Promised(reported', {e})
      BY <2>1, <2>5 DEF Promised
    <3>2. \A x \in reported' \ reported, p \in PageAddr :
            ~x.usable /\ Touching(x, p) => Kept(Seen, {e}, p)
      BY <2>1, <2>6 DEF Kept
    <3> QED BY <2>1, <2>8, <3>1, <3>2, AgreeGrows
  <2> QED BY <2>1, <2>7, <2>9, AddAllBegins
<1> QED BY <1>1, <1>2, <1>3
(* The older functions report nothing but usable memory.                   *)
LEMMA UsableAgrees ==
  ASSUME BInv, NEW q \in Seq(Addable), q # <<>>, AddAll(q), pc' = "known",
         NEW Q, reported' = reported \cup Q,
         \A e \in Elems(q) : Said(e, TRUE) \in Q, \A r \in Q : r.usable
  PROVE  BInv'
<1>1. Agree(Seen, reported, pc, {})
  BY AtRest DEF AddAll
<1>2. Promised(reported', Elems(q))
  BY DEF Promised
<1>3. Agree(Seen, reported', pc', Elems(q))
  BY <1>1, <1>2, AgreeGrows
<1> QED BY <1>3, AddAllBegins

LEMMA ExtendedAgrees ==
  ASSUME BInv, NEW low \in Nat, NEW high \in Nat, low < Word, high < Word,
         AddExtended(low, high)
  PROVE  BInv'
<1> DEFINE x == Region(ExtStart, low, "conventional")
           y == Region(HighStart, high, "conventional")
           Q == {Said(x, TRUE), Said(y, TRUE)}
<1>1. x \in Addable /\ y \in Addable
  BY LayoutAssumption, Layout, RegionIs, Ranks
<1>2. /\ AddAll(<<x, y>>) /\ pc' = "known"
      /\ reported' = reported \cup {Said(<<x, y>>[i], TRUE) : i \in DOMAIN <<x, y>>}
  BY DEF AddExtended, Usable
<1> HIDE DEF x, y
<1>3. {Said(<<x, y>>[i], TRUE) : i \in DOMAIN <<x, y>>} = Q
  <2>1. DOMAIN <<x, y>> = {1, 2} /\ <<x, y>>[1] = x /\ <<x, y>>[2] = y
    OBVIOUS
  <2> QED BY <2>1
<1>4. <<x, y>> \in Seq(Addable) /\ <<x, y>> # <<>> /\ Elems(<<x, y>>) = {x, y}
  BY <1>1, ElemsOf
<1>5. \A r \in Q : r.usable
  BY DEF Said
<1>6. \A e \in {x, y} : Said(e, TRUE) \in Q
  OBVIOUS
<1> HIDE DEF Q
<1> QED BY <1>2, <1>3, <1>4, <1>5, <1>6, UsableAgrees

LEMMA OneExtendedAgrees ==
  ASSUME BInv, NEW n \in Counts, Extended(n)
  PROVE  BInv'
<1>1. n \in Nat /\ n % HalfWord \in Nat /\ KiB \in Nat
  <2>1. n \in Nat /\ HalfWord \in Nat \ {0} /\ KiB \in Nat
    BY LayoutAssumption
  <2> QED BY <2>1
<1>2. PICK size \in {(n * KiB) % Word, ((n % HalfWord) * KiB) % Word} :
        /\ AddAll(<<Region(ExtStart, size, "conventional")>>)
        /\ Usable(<<Region(ExtStart, size, "conventional")>>)
  BY DEF Extended
<1>3. size \in Nat /\ size < Word
  BY <1>1, <1>2, Product
<1> DEFINE x == Region(ExtStart, size, "conventional")
           Q == {Said(x, TRUE)}
<1>4. x \in Addable
  BY <1>3, LayoutAssumption, Layout, RegionIs, Ranks
<1>5. /\ AddAll(<<x>>) /\ pc' = "known"
      /\ reported' = reported \cup {Said(<<x>>[i], TRUE) : i \in DOMAIN <<x>>}
  BY <1>2 DEF Extended, Usable
<1> HIDE DEF x
<1>6. {Said(<<x>>[i], TRUE) : i \in DOMAIN <<x>>} = Q
  <2>1. DOMAIN <<x>> = {1} /\ <<x>>[1] = x
    OBVIOUS
  <2> QED BY <2>1
<1>7. <<x>> \in Seq(Addable) /\ <<x>> # <<>> /\ Elems(<<x>>) = {x}
  BY <1>4, ElemsOf
<1>8. \A r \in Q : r.usable
  BY DEF Said
<1>9. \A e \in {x} : Said(e, TRUE) \in Q
  OBVIOUS
<1> HIDE DEF Q
<1> QED BY <1>5, <1>6, <1>7, <1>8, <1>9, UsableAgrees

LEMMA FallbackAgrees ==
  ASSUME BInv, NEW ax \in Counts, NEW bx \in Counts, NEW cx \in Counts, NEW dx \in Counts,
         E881(ax, bx, cx, dx) \/ E801(ax, bx, cx, dx) \/ C7(ax, bx)
  PROVE  BInv'
<1>1. /\ ax \in Nat /\ bx \in Nat /\ cx \in Nat /\ dx \in Nat /\ KiB \in Nat /\ Block \in Nat
      /\ Word \in Nat \ {0} /\ HalfWord \in Nat \ {0}
  BY LayoutAssumption
<1>2. ASSUME NEW now, NEW width \in Nat \ {0}, E8x1(now, width, ax, bx, cx, dx) PROVE BInv'
  <2> DEFINE c    == cx % width
             low  == IF c # 0 THEN c ELSE ax % width
             high == IF c # 0 THEN dx % width ELSE bx % width
  <2>1. AddExtended((low * KiB) % Word, (high * Block) % Word)
    BY <1>2 DEF E8x1
  <2>2. low \in Nat /\ high \in Nat
    BY <1>1
  <2> HIDE DEF low, high
  <2>3. /\ (low * KiB) % Word \in Nat /\ (low * KiB) % Word < Word
        /\ (high * Block) % Word \in Nat /\ (high * Block) % Word < Word
    BY <1>1, <2>2, Product
  <2> QED BY <2>1, <2>3, ExtendedAgrees
<1>3. CASE C7(ax, bx)
  <2>1. AddExtended((ax * KiB) % Word, (bx * KiB) % Word)
    BY <1>3 DEF C7
  <2>2. /\ (ax * KiB) % Word \in Nat /\ (ax * KiB) % Word < Word
        /\ (bx * KiB) % Word \in Nat /\ (bx * KiB) % Word < Word
    BY <1>1, Product
  <2> QED BY <2>1, <2>2, ExtendedAgrees
<1> QED BY <1>1, <1>2, <1>3 DEF E881, E801

(* The fallback starts from an empty map.                                  *)
LEMMA BaseAgrees ==
  ASSUME BInv, NEW size \in BaseSizes, Base(size)
  PROVE  BInv'
<1> DEFINE x == Region(0, size, "conventional")
           y == Region(IsaStart, HighStart - IsaStart, "unusable")
<1>1. AddAll(<<x, y>>) /\ pc' = "e881" /\ reported' = {Said(x, TRUE), Said(y, FALSE)}
  BY DEF Base
<1>2. Seen = NoView
  BY DEF Base, BInv
<1>3. x \in Addable /\ y \in Addable
  <2>1. size \in Nat /\ 0 + size <= NumPages * PageSize
    BY LayoutAssumption, SpaceAssumption
  <2> QED BY <2>1, Layout, RegionIs, Ranks
<1>4. y.type = "unusable"
  BY DEF Region
<1> HIDE DEF x, y
<1>5. <<x, y>> \in Seq(Addable) /\ <<x, y>> # <<>> /\ Elems(<<x, y>>) = {x, y}
  BY <1>3, ElemsOf
<1>6. Promised(reported', {x, y})
  BY <1>1, <1>4 DEF Promised
<1>7. Backed(Seen, reported')
  BY <1>2 DEF Backed, NoView
<1>8. Withheld(Seen, reported', {x, y})
  <2>1. ASSUME NEW p \in PageAddr, Touching(Said(y, FALSE), p) PROVE Guards(y, p)
    <3>1. Part(y, p)
      BY <2>1 DEF Touching, Part, Said, End
    <3>2. Given(y, p) = "unusable"
      BY <1>4 DEF Given
    <3> QED BY <3>1, <3>2, Precedes DEF Guards
  <2>2. Said(x, TRUE).usable
    BY DEF Said
  <2> QED BY <1>1, <2>1, <2>2 DEF Withheld, Kept
<1>9. Agree(Seen, reported', pc', {x, y})
  BY <1>1, <1>6, <1>7, <1>8 DEF Agree
<1> QED BY <1>1, <1>5, <1>9, AddAllBegins

(* A bad answer of 0xE820: the map is emptied.                             *)
LEMMA InvalidAgrees == ASSUME BInv, E820Invalid PROVE BInv'
<1>1. Ready /\ CallClean /\ pc' = "base" /\ reported' = {} /\ rest' = rest
  BY DEF E820Invalid
<1>2. CallInv /\ rest = <<>> /\ freeing = FALSE
  BY <1>1, AtRest
<1>3. CallInv' /\ Seen' = NoView /\ Idle' /\ freeing' = FALSE
  BY <1>1, <1>2, Cleans DEF CallClean
<1>4. Agree(NoView, {}, "base", {})
  BY DEF Agree, Promised, Backed, Withheld, NoView
<1>5. Elems(rest') = {} /\ rest' \in Seq(Addable) /\ todo' = <<>> /\ rest' = <<>>
  BY <1>1, <1>2, <1>3 DEF Elems, Idle
<1>6. Coming({})'
  BY <1>5 DEF Coming
<1> QED BY <1>1, <1>3, <1>4, <1>5, <1>6 DEF BInv

(* The end of mmap_init.                                                   *)
LEMMA KnownAgrees == ASSUME BInv, Known PROVE BInv'
<1>1. AddAll(<<LowMem, GandrMem>>) /\ pc' = "done" /\ reported' = reported
  BY DEF Known
<1>2. Agree(Seen, reported, pc, {})
  BY <1>1, AtRest DEF AddAll
<1> DEFINE L == {LowMem, GandrMem}
<1>3. /\ <<LowMem, GandrMem>> \in Seq(Addable) /\ <<LowMem, GandrMem>> # <<>>
      /\ Elems(<<LowMem, GandrMem>>) = L
  BY Layout, ElemsOf
<1>4. Promised(reported, L)
  BY DEF Promised, LowMem, GandrMem, Region
<1>5. Backed(Seen, reported) /\ Withheld(Seen, reported, L)
  BY <1>2 DEF Agree, Withheld, Kept
<1>6. ASSUME NEW p \in PageAddr, Inside(GandrMem, p) PROVE Guards(GandrMem, p)
  <2>1. PICK a \in Int, n \in Int, b \in Int :
          /\ a = GandrMem.start /\ n = GandrMem.size /\ End(GandrMem) = a + n /\ b = p
    BY Layout, PageNumber DEF Addable, Entry, End
  <2>2. Full(GandrMem, p) /\ Part(GandrMem, p)
    BY <1>6, <2>1 DEF Inside, Full, Part, PageSize
  <2>3. Given(GandrMem, p) = "loader_code"
    BY <2>2 DEF Given, GandrMem, Region
  <2> QED BY <2>2, <2>3, Precedes DEF Guards
<1>7. KnownKept(Seen, L)
  BY <1>6 DEF KnownKept, Kept
<1> HIDE DEF L
<1>8. Agree(Seen, reported', pc', L)
  BY <1>1, <1>4, <1>5, <1>7 DEF Agree
<1> QED BY <1>1, <1>3, <1>8, AddAllBegins

-----------------------------------------------------------------------------
LEMMA BiosInit == Init => BInv
<1>1. SUFFICES ASSUME Init PROVE BInv
  OBVIOUS
<1>2. /\ CallInv /\ Idle /\ Seen = NoView /\ rest = <<>> /\ reported = {} /\ pc = "e820"
      /\ freeing = FALSE
  BY <1>1, MapBegins DEF Init, MapInit, Seen
<1>3. Agree(NoView, {}, "e820", {})
  BY DEF Agree, Promised, Backed, Withheld, NoView
<1>4. Coming({}) /\ rest \in Seq(Addable)
  BY <1>2 DEF Coming, Elems, Idle
<1> QED BY <1>2, <1>3, <1>4 DEF BInv, Idle

LEMMA BiosNext == BInv /\ [Next]_vars => BInv'
<1>1. SUFFICES ASSUME BInv, [Next]_vars PROVE BInv'
  OBVIOUS
<1>2. CASE Run
  BY <1>1, <1>2, RunAgrees
<1>3. CASE AddRest
  BY <1>1, <1>3, AddRestAgrees
<1>4. CASE E820Unsupported
  <2>1. /\ Ready /\ UNCHANGED mapVars /\ rest' = rest /\ reported' = reported
        /\ pc = "e820" /\ pc' = "base"
    BY <1>4 DEF E820Unsupported
  <2>2. Seen = NoView
    BY <1>1, <2>1 DEF BInv
  <2> QED BY <1>1, <2>1, <2>2, Skips
<1>5. CASE \/ E820End \/ Failed("e881", "e801") \/ Failed("e801", "c7")
           \/ Failed("c7", "extended")
  <2>1. /\ Ready /\ UNCHANGED mapVars /\ rest' = rest /\ reported' = reported
        /\ pc' \in {"known", "e801", "c7", "extended"}
    BY <1>5 DEF E820End, Failed
  <2> QED BY <1>1, <2>1, Skips
<1>6. CASE E820Invalid
  BY <1>1, <1>6, InvalidAgrees
<1>7. ASSUME NEW r \in Ranges, E820First(r) \/ \E more \in BOOLEAN : E820Next(r, more)
      PROVE  BInv'
  <2>1. AddRange(r) /\ pc' \in {"e820more", "known"}
    BY <1>7 DEF E820First, E820Next
  <2> QED BY <1>1, <2>1, RangeAgrees
<1>8. ASSUME NEW size \in BaseSizes, Base(size) PROVE BInv'
  BY <1>1, <1>8, BaseAgrees
<1>9. ASSUME NEW ax \in Counts, NEW bx \in Counts, NEW cx \in Counts, NEW dx \in Counts,
             E881(ax, bx, cx, dx) \/ E801(ax, bx, cx, dx)
      PROVE  BInv'
  BY <1>1, <1>9, FallbackAgrees
<1>10. ASSUME NEW low \in Counts, NEW high \in Counts, C7(low, high) PROVE BInv'
  BY <1>1, <1>10, FallbackAgrees
<1>11. ASSUME NEW n \in Counts, Extended(n) PROVE BInv'
  BY <1>1, <1>11, OneExtendedAgrees
<1>12. CASE Known
  BY <1>1, <1>12, KnownAgrees
<1>13. CASE UNCHANGED vars
  <2>1. /\ UNCHANGED <<mm, todo, freeing, status, before, pc, rest, reported>>
    BY <1>13 DEF vars
  <2>2. /\ CallInv' = CallInv /\ Seen' = Seen /\ \A L : Coming(L)' = Coming(L)
    BY <2>1 DEF CallInv, MapInv, StackInv, Seen, Idle, Coming, Ongoing
  <2> QED BY <1>1, <2>1, <2>2 DEF BInv
<1> QED BY <1>1, <1>2, <1>3, <1>4, <1>5, <1>6, <1>7, <1>8, <1>9, <1>10, <1>11, <1>12, <1>13
        DEF Next

THEOREM BiosInductive == Spec => []BInv
BY BiosInit, BiosNext, PTL DEF Spec

(* A page is conventional memory only if all of it lies in a range the     *)
(* firmware called usable and none of it in one the firmware called        *)
(* something else, whatever 0xE820 and the older functions of int 0x15     *)
(* reported, in whatever order, alignment and overlap.                     *)
THEOREM FirmwareHonoured == Spec => []HonoursFirmware
<1>1. BInv => HonoursFirmware
  <2>1. SUFFICES ASSUME BInv, Ready, NEW p \in PageAddr, View(mm)[p] = "conventional"
                 PROVE  /\ \E r \in reported : r.usable /\ Inside(r, p)
                        /\ \A r \in reported : Touching(r, p) => r.usable
    BY DEF HonoursFirmware
  <2>2. Agree(View(mm), reported, pc, {})
    BY <2>1, AtRest DEF Seen
  <2>3. Offered(reported, p)
    BY <2>1, <2>2 DEF Agree, Backed
  <2>4. ~Kept(View(mm), {}, p)
    BY <2>1, Precedes DEF Kept
  <2> QED BY <2>2, <2>3, <2>4 DEF Agree, Withheld, Offered
<1> QED BY <1>1, BiosInductive, PTL

(* When mmap_init is done the interrupt vectors are unusable and no page   *)
(* of the loader is conventional, reserved or unknown, whatever the        *)
(* firmware reported over them.                                            *)
THEOREM LoaderAlwaysKept == Spec => []LoaderKept
<1>1. BInv => LoaderKept
  <2>1. SUFFICES ASSUME BInv, Ready, pc = "done"
                 PROVE  /\ View(mm)[0] = "unusable"
                        /\ \A p \in PageAddr : Inside(GandrMem, p)
                             => View(mm)[p] \notin {"conventional", "reserved", "none"}
    BY DEF LoaderKept
  <2>2. Agree(View(mm), reported, pc, {})
    BY <2>1, AtRest DEF Seen
  <2>3. KnownKept(View(mm), {})
    BY <2>1, <2>2 DEF Agree
  <2> QED BY <2>3, Precedes DEF KnownKept, Kept
<1> QED BY <1>1, BiosInductive, PTL
=============================================================================
