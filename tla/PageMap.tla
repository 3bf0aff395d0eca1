------------------------------ MODULE PageMap ------------------------------
(***************************************************************************)
(* What the memory map promises: every page has one type or is unknown.    *)
(* Adding a range promotes each of its pages to the type that comes        *)
(* earlier in the precedence table, a page that is covered only in part to *)
(* unusable; allocating takes conventional pages; freeing makes pages      *)
(* conventional, unusable ones excepted.  Any of these may also take       *)
(* conventional pages for the map's own entries, as loader data.           *)
(*                                                                         *)
(* There are no entries, slots, trees or keys here, and a call is one      *)
(* step.  PageMapCalls tells calls from returns.                           *)
(***************************************************************************)
EXTENDS MemoryTypes

CONSTANT NumPages

VARIABLE pages

PageAddr == {p * PageSize : p \in 0 .. NumPages - 1}
PageType == Type \cup {"none"}

Promoted(freeing, old, new) ==
  IF old = "none" THEN new ELSE HigherPrecedence(freeing, old, new)

(* The type that adding e gives page p.                                    *)
Touches(e, p) == e.start < p + PageSize /\ p < End(e) /\ e.size > 0
Covers(e, p)  == e.start <= p /\ p + PageSize <= End(e)

With(freeing, e, p) ==
  IF Covers(e, p) THEN Promoted(freeing, pages[p], e.type)
  ELSE IF Touches(e, p) THEN Promoted(freeing, pages[p], "unusable")
  ELSE pages[p]

(* A page that is conventional before or after the call may be taken for   *)
(* the map's own entries.                                                  *)
OrScavenged(p, type) ==
  {type} \cup IF "conventional" \in {pages[p], type}
              THEN {Promoted(FALSE, type, "loader_data")}
              ELSE {}

Becomes(f(_)) ==
  /\ pages' \in [PageAddr -> PageType]
  /\ \A p \in PageAddr : pages'[p] \in OrScavenged(p, f(p))

Init == pages = [p \in PageAddr |-> "none"]

Add(e) == LET f(p) == With(FALSE, e, p) IN Becomes(f)

Free(e) == LET f(p) == With(TRUE, e, p) IN Becomes(f)

Alloc(e) ==
  LET f(p) == IF Covers(e, p) THEN e.type ELSE pages[p]
  IN /\ \A p \in PageAddr : Covers(e, p) => pages[p] = "conventional"
     /\ Becomes(f)

Clean == pages' = [p \in PageAddr |-> "none"]

=============================================================================
