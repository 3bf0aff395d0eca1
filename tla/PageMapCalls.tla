---------------------------- MODULE PageMapCalls ----------------------------
(***************************************************************************)
(* What the memory map promises its callers: a call that returns has done  *)
(* to the pages what PageMap says of this very call, and nothing happens   *)
(* to them in between.  A call need not return: the machine may stop.      *)
(*                                                                         *)
(* MemoryMapClient is shown to implement this specification.               *)
(***************************************************************************)
EXTENDS PageMap

CONSTANTS AddInputs, AllocTypes, AllocCounts

VARIABLES
  call,  \* the last call made
  busy   \* it has not returned

Whole == Region(0, NumPages * PageSize, "conventional")

(* A caller of gd_alloc_pages names a size and a type, not the address.    *)
Requests ==
  {[kind |-> "add", range |-> e] : e \in AddInputs}
    \cup {[kind |-> "free", range |-> Region(start, count * PageSize, "conventional")] :
             start \in PageAddr, count \in AllocCounts}
    \cup {[kind |-> "alloc", range |-> Region(0, count * PageSize, type)] :
             count \in AllocCounts, type \in AllocTypes}
    \cup {[kind |-> "clean", range |-> Whole]}

CallsInit == Init /\ call = [kind |-> "none", range |-> Whole] /\ busy = FALSE

Called(c) == call' = c /\ ~busy /\ busy' = TRUE /\ UNCHANGED pages

Effect(c) ==
  \/ c.kind = "add" /\ Add(c.range)
  \/ c.kind = "free" /\ Free(c.range)
  \/ c.kind = "alloc" /\ \E start \in PageAddr :
                             Alloc(Region(start, c.range.size, c.range.type))
  \/ c.kind = "clean" /\ Clean

(* The return of the call under way, or a call and its return in one step. *)
Returned(c) == call' = c /\ (busy => call = c) /\ busy' = FALSE /\ Effect(c)

Next == \E c \in Requests : Called(c) \/ Returned(c)

Spec == CallsInit /\ [][Next]_<<pages, call, busy>>

=============================================================================
