----------------------------- MODULE DeviceTree -----------------------------
(***************************************************************************)
(* The BAL with a device tree (bal/device/dt, simple-bus.c and the attach  *)
(* function of arm_pl011.c): dt_platform_init_fdt enters the reservations  *)
(* and the memory of a flattened tree in the memory map and builds a tree  *)
(* of nodes from it; drivers are attached to nodes.                        *)
(*                                                                         *)
(* mmap_add_entry does here what PageMap promises of it, with slots to     *)
(* spare.  libfdt is external, and so is whoever calls the drivers' attach *)
(* functions and stores what they return in bound_device.  A property is a *)
(* sequence of cells, numbers below Word.  Whatever stops the machine      *)
(* (panic) or is undefined (a read past a property, a null device) ends a  *)
(* behaviour.                                                              *)
(***************************************************************************)
EXTENDS MemoryTypes

CONSTANTS
  Fdts,      \* the flattened trees
  Word,      \* 2^32
  NumPages,  \* how many pages of memory are looked at
  RegsSize,  \* UART_DMACR * 4
  Garbage    \* what an uninitialized size may hold

VARIABLES
  fdt,      \* reservations, cells and memory of the root, and nodes; and
            \* where it and the image of the layer lie
  dpc,      \* where dt_platform_init_fdt is, or what stopped it
  index,    \* i of its loops
  pages,    \* the memory map
  stack,    \* the calls of add_device_fdt under way
  dt,       \* the dt_nodes, by number of the node in the flattened tree
  devices,  \* the devices in memory, by the number of their node
  bound     \* bound_device: the base of the device's registers

vars == <<fdt, dpc, index, pages, stack, dt, devices, bound>>

P == INSTANCE PageMap

Unbound == -1
Root == 1

Begin ==
  /\ dpc = "header" /\ index = 0 /\ stack = <<>>
  /\ pages = [p \in P!PageAddr |-> "none"] /\ dt = <<>>
  /\ devices = {} /\ bound = [n \in DOMAIN fdt.nodes |-> Unbound]

Init == fdt \in Fdts /\ Begin

tree == <<stack, dt, devices, bound>>

Panic == dpc' = "panic" /\ UNCHANGED <<fdt, index, pages, tree>>

-----------------------------------------------------------------------------
(* dt_platform_init_fdt: the header, the reservations, the memory node.    *)
CheckHeader ==
  /\ dpc = "header"
  /\ \/ ~fdt.valid /\ Panic
     \/ fdt.valid /\ dpc' = "rsv" /\ UNCHANGED <<fdt, index, pages, tree>>

mmap_add_entry(e) == pages' = [p \in P!PageAddr |-> P!With(FALSE, e, p)]

Reserve ==
  /\ dpc = "rsv" /\ index < Len(fdt.rsv)
  /\ LET r == fdt.rsv[index + 1] IN mmap_add_entry(Region(r[1], r[2], "reserved"))
  /\ index' = index + 1 /\ UNCHANGED <<fdt, dpc, tree>>

FindMemory ==
  /\ dpc = "rsv" /\ index = Len(fdt.rsv)
  /\ \/ ~fdt.has_memory /\ Panic
     \/ fdt.has_memory /\ dpc' = "memory" /\ index' = 0 /\ UNCHANGED <<fdt, pages, tree>>

(* The number in n cells from the i-th on, counted from 0.                 *)
Cell(words, i, n) ==
  CASE n = 1 -> words[i + 1]
    [] n = 2 -> words[i + 1] * Word + words[i + 2]
    [] OTHER -> 0

Cells == fdt.address_cells + fdt.size_cells

(* Mutant of MemoryRange: the size is taken one cell after the address.    *)
MemoryRangeOneCell(i) ==
  Region(Cell(fdt.reg, i, fdt.address_cells), Cell(fdt.reg, i + 1, fdt.size_cells),
         "conventional")

MemoryRange(i) ==
  Region(Cell(fdt.reg, i, fdt.address_cells),
         Cell(fdt.reg, i + fdt.address_cells, fdt.size_cells), "conventional")

(* The last range may lack cells, which are then read from what follows.   *)
AddMemory ==
  /\ dpc = "memory" /\ index < Len(fdt.reg)
  /\ \/ /\ index + Cells <= Len(fdt.reg) /\ mmap_add_entry(MemoryRange(index))
        /\ index' = index + Cells /\ UNCHANGED dpc
     \/ index + Cells > Len(fdt.reg) /\ dpc' = "wild" /\ UNCHANGED <<index, pages>>
  /\ UNCHANGED <<fdt, tree>>

-----------------------------------------------------------------------------
(* add_device_fdt.                                                         *)
Call(n) == [node |-> n, prop |-> 1, last |-> n]
Frame == stack[Len(stack)]
Below == SubSeq(stack, 1, Len(stack) - 1)

Siblings(parent, name) ==
  {m \in DOMAIN dt : dt[m].parent = parent /\ dt[m].name = name /\ dt[m].linked}

(* dt_node_alloc: RB_INSERT keeps a node of a name its parent has already  *)
(* out of the parent's children.                                           *)
Node(n) ==
  [name |-> fdt.nodes[n].name, parent |-> fdt.nodes[n].parent, properties |-> <<>>,
   linked |-> n # Root /\ Siblings(fdt.nodes[n].parent, fdt.nodes[n].name) = {}]

(* Mutant of Alloc: every node is put below the root.                      *)
AllocFlat(n, frames) ==
  /\ dt' = [m \in DOMAIN dt \cup {n} |->
              IF m = n THEN [Node(n) EXCEPT !.parent = Root] ELSE dt[m]]
  /\ stack' = Append(frames, Call(n))

Alloc(n, frames) ==
  /\ dt' = [m \in DOMAIN dt \cup {n} |-> IF m = n THEN Node(n) ELSE dt[m]]
  /\ stack' = Append(frames, Call(n))

BuildTree ==
  /\ dpc = "memory" /\ index >= Len(fdt.reg) /\ dpc' = "tree" /\ Alloc(Root, <<>>)
  /\ UNCHANGED <<fdt, index, pages, devices, bound>>

Building == dpc = "tree" /\ stack # <<>>

OutOfMemory == Building /\ Panic

(* dt_node_set_property: a new property, or another value of an old one.   *)
SetProperty ==
  /\ Building /\ Frame.prop <= Len(fdt.nodes[Frame.node].properties)
  /\ LET p == fdt.nodes[Frame.node].properties[Frame.prop]
         old == dt[Frame.node].properties
     IN dt' = [dt EXCEPT ![Frame.node].properties =
                 [x \in DOMAIN old \cup {p[1]} |-> IF x = p[1] THEN p[2] ELSE old[x]]]
  /\ stack' = Append(Below, [Frame EXCEPT !.prop = @ + 1])
  /\ UNCHANGED <<fdt, dpc, index, pages, devices, bound>>

Subnodes(n, last) == {m \in DOMAIN fdt.nodes : fdt.nodes[m].parent = n /\ m > last}

PropertiesDone == Building /\ Frame.prop > Len(fdt.nodes[Frame.node].properties)

AddSubnode ==
  /\ PropertiesDone
  /\ \E m \in Subnodes(Frame.node, Frame.last) :
       /\ \A k \in Subnodes(Frame.node, Frame.last) : m <= k
       /\ Alloc(m, Append(Below, [Frame EXCEPT !.last = m]))
  /\ UNCHANGED <<fdt, dpc, index, pages, devices, bound>>

NodeDone ==
  /\ PropertiesDone /\ Subnodes(Frame.node, Frame.last) = {}
  /\ stack' = Below /\ dpc' = IF Below = <<>> THEN "ready" ELSE dpc
  /\ UNCHANGED <<fdt, index, pages, dt, devices, bound>>

-----------------------------------------------------------------------------
(* Properties of nodes.                                                    *)
Has(n, name) == name \in DOMAIN dt[n].properties
Value(n, name) == dt[n].properties[name]

(* dt_node_get_address_cells and dt_node_get_size_cells panic without a    *)
(* property of one cell.                                                   *)
HasCells(n) ==
  \A name \in {"#address_cells", "#size_cells"} : Has(n, name) /\ Len(Value(n, name)) = 1

AddressCells(n) == Value(n, "#address_cells")[1]
SizeCells(n) == Value(n, "#size_cells")[1]

(* dt_node_get_reg_range(n, idx) for a node with regs: out of range, or    *)
(* what is stored in *ptr and *sz.  One size cell goes to *ptr and leaves  *)
(* *sz as it was; two are read from where the address is.                  *)
RegInRange(n, idx) ==
  LET cells == AddressCells(dt[n].parent) + SizeCells(dt[n].parent)
  IN (idx + 1) * cells <= Len(Value(n, "regs"))

RegRange(n, idx) ==
  LET a == AddressCells(dt[n].parent)  s == SizeCells(dt[n].parent)
      regs == Value(n, "regs")  first == idx * (a + s)
  IN {[ptr |-> IF s = 1 THEN regs[a + 1] ELSE Cell(regs, first, a), sz |-> sz] :
        sz \in IF s = 2 THEN {Cell(regs, first, 2)} ELSE Garbage}

(* sb_driver_attach.                                                       *)
Unattached(n, kind) ==
  dpc = "ready" /\ n \in DOMAIN dt /\ dt[n].name = kind /\ bound[n] = Unbound

Bind(n, base) ==
  /\ devices' = devices \cup {n} /\ bound' = [bound EXCEPT ![n] = base]
  /\ UNCHANGED <<fdt, dpc, index, pages, stack, dt>>

AttachBus(n) ==
  /\ Unattached(n, "bus")
  /\ IF HasCells(n) /\ AddressCells(n) \in 1 .. 2 /\ SizeCells(n) \in 1 .. 2
     THEN Bind(n, 0) ELSE Panic

(* arm_pl011_dt_driver_attach.  Without memory nothing happens.            *)
Parent(n) == dt[n].parent

(* The root has no parent: the device is not freed.                        *)
AttachLeaks(n) ==
  /\ Unattached(n, "uart") /\ n = Root
  /\ devices' = devices \cup {n} /\ UNCHANGED <<fdt, dpc, index, pages, stack, dt, bound>>

(* The parent has no device.                                               *)
AttachNull(n) ==
  /\ Unattached(n, "uart") /\ n # Root /\ bound[Parent(n)] = Unbound
  /\ dpc' = "null" /\ UNCHANGED <<fdt, index, pages, tree>>

OnBus(n) == Unattached(n, "uart") /\ n # Root /\ bound[Parent(n)] # Unbound

(* Mutant of AttachFails: the device is not freed on any path.             *)
AttachFailsLeaking(n) ==
  /\ OnBus(n) /\ ~(Has(n, "regs") /\ RegInRange(n, 0))
  /\ devices' = devices \cup {n}
  /\ UNCHANGED <<fdt, dpc, index, pages, stack, dt, bound>>

(* The device is freed again.                                              *)
AttachFails(n) ==
  /\ OnBus(n) /\ ~(Has(n, "regs") /\ RegInRange(n, 0))
  /\ devices' = devices \ {n}
  /\ UNCHANGED <<fdt, dpc, index, pages, stack, dt, bound>>

AttachUart(n) ==
  /\ OnBus(n) /\ Has(n, "regs") /\ RegInRange(n, 0)
  /\ \E r \in RegRange(n, 0) : IF r.sz < RegsSize THEN Panic ELSE Bind(n, r.ptr)

Next ==
  \/ CheckHeader \/ Reserve \/ FindMemory \/ AddMemory
  \/ BuildTree \/ OutOfMemory \/ SetProperty \/ AddSubnode \/ NodeDone
  \/ \E n \in DOMAIN fdt.nodes :
       \/ AttachBus(n) \/ AttachLeaks(n) \/ AttachNull(n)
       \/ AttachFails(n) \/ AttachUart(n)

Spec == Init /\ [][Next]_vars

-----------------------------------------------------------------------------
(* The ranges of the memory node by reference: the cells of a range are    *)
(* its address and its size, in digits to the base Word.                   *)
Digits(f, from, n) == IF n = 1 THEN f.reg[from] ELSE f.reg[from] * Word + f.reg[from + 1]

CellsOf(f) == f.address_cells + f.size_cells

RangesOf(f) == 0 .. Len(f.reg) \div CellsOf(f) - 1

Declared(f, i) ==
  Region(Digits(f, i * CellsOf(f) + 1, f.address_cells),
         Digits(f, i * CellsOf(f) + f.address_cells + 1, f.size_cells), "conventional")

InMemory(p) == \E i \in RangesOf(fdt) : P!Covers(Declared(fdt, i), p)

IsReserved(p) ==
  \E i \in DOMAIN fdt.rsv : fdt.rsv[i][1] < p + PageSize /\ p < fdt.rsv[i][1] + fdt.rsv[i][2]

(* The layer's image, or the flattened tree itself, lies in the page.      *)
Occupied(p) == \E r \in {fdt.image, fdt.dtb} : r[1] < p + PageSize /\ p < r[1] + r[2]

MemoryKnown == dpc \in {"tree", "ready"}

(* A flattened tree as the specification of device trees has it: one cell  *)
(* or two for addresses and for sizes, ranges of memory that do not        *)
(* overlap, parents before their children; and no UART below a UART.       *)
NodeInfo == [name : STRING, parent : Nat, properties : Seq(STRING \X Seq(Nat))]

IsFdt(f) ==
  /\ f.rsv \in Seq(Nat \X Nat) /\ f.reg \in Seq(Nat)
  /\ f.image \in Nat \X Nat /\ f.dtb \in Nat \X Nat
  /\ f.address_cells \in 1 .. 2 /\ f.size_cells \in 1 .. 2
  /\ \A i, j \in RangesOf(f) : i # j => ~Overlapping(Declared(f, i), Declared(f, j))
  /\ f.nodes \in Seq(NodeInfo) /\ Root \in DOMAIN f.nodes
  /\ \A n \in DOMAIN f.nodes \ {Root} :
       /\ f.nodes[n].parent \in 1 .. n - 1
       /\ f.nodes[n].name = "uart" => f.nodes[f.nodes[n].parent].name # "uart"

(* Of the pages the tree does not reserve and the layer and the tree do    *)
(* not lie in, those are offered that the tree describes as memory, and no *)
(* other: the cells of every range, whichever number of cells the root     *)
(* gives addresses and sizes, are put together the right way.              *)
MemoryOffered ==
  MemoryKnown =>
    \A p \in P!PageAddr : ~IsReserved(p) /\ ~Occupied(p) =>
                             (pages[p] = "conventional" <=> InMemory(p))

(* platform/atf/README.md: "it will note the memory occupied by its' own   *)
(* image and by the device tree binary": that memory is not offered.       *)
ImageNoted ==
  MemoryKnown => \A p \in P!PageAddr : Occupied(p) => pages[p] # "conventional"

(* The tree of nodes is the flattened tree: every node hangs below its     *)
(* parent and dt_node_find_child finds it there (or the first of its       *)
(* name), with the last value given for each of its properties.            *)
TreeMirrorsFdt ==
  dpc = "ready" => \A n \in DOMAIN fdt.nodes :
    LET node == fdt.nodes[n]
    IN /\ n \in DOMAIN dt /\ dt[n].name = node.name
       /\ n # Root => \E m \in Siblings(node.parent, node.name) : m <= n
       /\ \A i \in DOMAIN node.properties :
            (\A j \in DOMAIN node.properties :
               j > i => node.properties[j][1] # node.properties[i][1])
              => /\ Has(n, node.properties[i][1])
                 /\ Value(n, node.properties[i][1]) = node.properties[i][2]

(* The first range of a UART's registers by reference.                     *)
FirstAddress(n) == Cell(Value(n, "regs"), 0, AddressCells(Parent(n)))
FirstSize(n)    == Cell(Value(n, "regs"), AddressCells(Parent(n)), SizeCells(Parent(n)))

(* Attaching leaves a device in memory exactly if its node is bound to it, *)
(* but for a UART that is the root of the tree, whose device nobody has    *)
(* and nobody frees.  A UART on a bus with two size cells gets the address *)
(* of its first range as the base of its registers, and one on a bus with  *)
(* one size cell the size of that range.                                   *)
AttachedOrFreed ==
  \A n \in DOMAIN fdt.nodes :
    /\ bound[n] # Unbound => n \in devices
    /\ n \in devices => bound[n] # Unbound \/ (n = Root /\ dt[n].name = "uart")
    /\ n \in devices \ {Root} /\ dt[n].name = "uart" =>
         bound[n] = IF SizeCells(Parent(n)) = 2 THEN FirstAddress(n) ELSE FirstSize(n)

(* "bus_get_child_reg_addr(gd_device_t child, unsigned idx, gio_addr *addr,*)
(* size_t *len)": the base a UART is given is the address of its range.    *)
RegistersFound ==
  \A n \in devices \ {Root} : dt[n].name = "uart" => bound[n] = FirstAddress(n)

(* platform/atf/README.md: "The BAL will obey the memory and memory        *)
(* reservation declarations inside the device tree binary."                *)
ReservationsObeyed ==
  MemoryKnown => \A p \in P!PageAddr : IsReserved(p) => pages[p] # "conventional"

(* Of these two promises at least one is kept.  A state in which this is   *)
(* false refutes both.                                                     *)
SomeMemoryKept == ReservationsObeyed \/ ImageNoted

=============================================================================
