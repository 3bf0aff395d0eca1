------------------------------- MODULE Tables -------------------------------
(***************************************************************************)
(* The search for firmware tables on the BIOS platform (bios/tables.c):    *)
(* four regions are searched, one 16 byte paragraph after the other, and   *)
(* what an earlier region yielded decides what a later one is searched     *)
(* for.                                                                    *)
(*                                                                         *)
(* Addresses are in KiB.  Of a paragraph only counts which signature it    *)
(* starts with and which checksums add up; a table is known by its place.  *)
(***************************************************************************)
EXTENDS Integers, Sequences

CONSTANTS Firmwares   \* the machines

VARIABLES
  firmware,      \* memory, and what the BIOS data area says of it
  region, para,  \* the call of search_region, and its paragraph
  searching,     \* rsdp_search, mpfp_search and smbios_search
  rsdt_pointer,  \* gd_rsdt_pointer_table
  pc_pointer     \* gd_pc_pointer_table

vars == <<firmware, region, para, searching, rsdt_pointer, pc_pointer>>

Paragraph == [signature : {"none", "rsdp", "mpfp", "smbios"}, sum : BOOLEAN,
              revision : Nat, extended_sum : BOOLEAN, length : Nat]

(* Places of tables; none is at 0.                                         *)
Null == <<0, 0>>
NoRsdt == [length |-> 0, rsdt_address |-> Null, xsdt_address |-> Null]
NoPc   == [length |-> 0, mpfp |-> Null, mpfp_length |-> 0, smbios |-> Null]

(* The EBDA if the BIOS data area has a plausible pointer, the end of base *)
(* memory if not.                                                          *)
EbdaOrEnd(f) ==
  IF f.ebda # 0 /\ f.ebda > f.base_memory /\ f.ebda < 640
  THEN f.ebda ELSE f.base_memory

Where(f) == <<EbdaOrEnd(f), f.base_memory - 1, 896, 960>>

Paragraphs(f, n) ==
  IF Where(f)[n] \in DOMAIN f.memory THEN f.memory[Where(f)[n]] ELSE <<>>

(* Mutant of Flags: what was found is searched for again.                  *)
FlagsForgetful(n, rsdt, pc) ==
  CASE n = 1 -> {"rsdp", "mpfp"} [] n = 2 -> {"mpfp"}
    [] n = 3 -> {"rsdp", "mpfp"} [] n = 4 -> {"rsdp", "mpfp", "smbios"}

(* The flags of the n-th call of search_region.                            *)
Flags(n, rsdt, pc) ==
  (IF n = 1 \/ (n > 2 /\ rsdt.length = 0) THEN {"rsdp"} ELSE {})
    \cup (IF n = 1 \/ pc.mpfp_length = 0 THEN {"mpfp"} ELSE {})
    \cup (IF n = 4 THEN {"smbios"} ELSE {})

Begin ==
  /\ region = 1 /\ para = 1
  /\ rsdt_pointer = NoRsdt /\ pc_pointer = NoPc
  /\ searching = Flags(1, rsdt_pointer, pc_pointer)

Init == firmware \in Firmwares /\ Begin

-----------------------------------------------------------------------------
Matches(p, kind) == kind \in searching /\ p.signature = kind /\ p.sum

Size == 1   \* sizeof rsdt_pointer and sizeof pc_pointer: not zero

FoundRsdp(p, at) ==
  [length |-> Size, rsdt_address |-> at,
   xsdt_address |-> IF p.revision > 0 /\ p.extended_sum THEN at
                    ELSE rsdt_pointer.xsdt_address]

(* Of an MP structure that says it has no length, nothing is copied.       *)
FoundMpfp(p, at) ==
  [length |-> Size, smbios |-> pc_pointer.smbios,
   mpfp |-> IF p.length = 0 THEN pc_pointer.mpfp ELSE at,
   mpfp_length |-> IF p.length = 0 THEN pc_pointer.mpfp_length ELSE p.length]

FoundSmbios(p, at) ==
  [length |-> Size, smbios |-> at, mpfp |-> pc_pointer.mpfp,
   mpfp_length |-> pc_pointer.mpfp_length]

SearchParagraph ==
  /\ region <= 4 /\ searching # {} /\ para <= Len(Paragraphs(firmware, region))
  /\ LET p  == Paragraphs(firmware, region)[para]
         at == <<Where(firmware)[region], para>>
     IN /\ rsdt_pointer' = IF Matches(p, "rsdp") THEN FoundRsdp(p, at) ELSE rsdt_pointer
        /\ pc_pointer' = CASE Matches(p, "mpfp")   -> FoundMpfp(p, at)
                           [] Matches(p, "smbios") -> FoundSmbios(p, at)
                           [] OTHER -> pc_pointer
        /\ searching' = {k \in searching : ~Matches(p, k)}
  /\ para' = para + 1 /\ UNCHANGED <<firmware, region>>

NextRegion ==
  /\ region <= 4
  /\ searching = {} \/ para > Len(Paragraphs(firmware, region))
  /\ region' = region + 1 /\ para' = 1
  /\ searching' = IF region = 4 THEN {} ELSE Flags(region + 1, rsdt_pointer, pc_pointer)
  /\ UNCHANGED <<firmware, rsdt_pointer, pc_pointer>>

Next == SearchParagraph \/ NextRegion

Spec == Init /\ [][Next]_vars

Ended == region > 4

-----------------------------------------------------------------------------
(* The places where a valid table of a kind is, as the comment in          *)
(* tables_init lists the regions for each kind, in the order of the        *)
(* regions.                                                                *)
Valid(kind) ==
  LET regions == CASE kind = "rsdp" -> {1, 3, 4} [] kind = "mpfp" -> 1 .. 4
                   [] kind = "smbios" -> {4}
  IN {p \in UNION {{n} \X DOMAIN Paragraphs(firmware, n) : n \in regions} :
        LET found == Paragraphs(firmware, p[1])[p[2]]
        IN found.signature = kind /\ found.sum}

FirstOf(P) == CHOOSE p \in P :
                \A q \in P : p[1] < q[1] \/ (p[1] = q[1] /\ p[2] <= q[2])

At(P) == IF P = {} THEN Null
         ELSE <<Where(firmware)[FirstOf(P)[1]], FirstOf(P)[2]>>

Described(p) == Paragraphs(firmware, p[1])[p[2]]

(* Each table reported is the first valid one in the order of the regions, *)
(* a table that is not there is reported as null, the XSDT only if the     *)
(* extended checksum of that same RSDP holds, and each of the two pointer  *)
(* tables has a length exactly if something it describes was located.      *)
(* (Of MP structures without length, which the code takes for found and    *)
(* not found at once, nothing is said.)                                    *)
FirstTablesReported ==
  Ended =>
    LET rsdp == Valid("rsdp")  mpfp == Valid("mpfp")  smbios == Valid("smbios")
    IN /\ rsdt_pointer.rsdt_address = At(rsdp)
       /\ rsdt_pointer.length # 0 <=> rsdp # {}
       /\ rsdt_pointer.xsdt_address =
            IF rsdp # {} /\ Described(FirstOf(rsdp)).revision > 0
                         /\ Described(FirstOf(rsdp)).extended_sum
            THEN At(rsdp) ELSE Null
       /\ pc_pointer.smbios = At(smbios)
       /\ pc_pointer.length # 0 <=> mpfp \cup smbios # {}
       /\ (\A p \in mpfp : Described(p).length # 0) => pc_pointer.mpfp = At(mpfp)

=============================================================================
