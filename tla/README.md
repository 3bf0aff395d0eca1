# A TLA+ model of the Gandr boot loader

Gandr is a boot loader. Its BAL (boot abstraction layer) runs right after the
firmware, on one processor with interrupts off, finds out what memory there is,
hands out pages of it, drives the console and the storage devices and offers
them to the next stage through ioctls and system calls. This directory holds
TLA+ specifications of its parts, TLC configurations that check them on small
instances, and TLAPS proofs for instances of every size.

Nothing in the BAL runs concurrently with the BAL. What makes it hard are
recursion over a structure that is being changed (the memory map), an allocator
that allocates from itself, devices and firmware that move at their own pace or
answer as they like, and buffers whose bookkeeping spans many calls.

## 1. Inventory

| part | source | state | operations | who it talks to |
|---|---|---|---|---|
| memory map and page allocator | `bal/mmap.c` | tree of entries, list of freed slots, pool of slots, key, installed precedence table | `mmap_add_entry`, `gd_alloc_pages`, `gd_free_pages`, `mmap_clean`, `mmap_get` | called by every platform, by malloc and by system calls |
| BIOS memory detection | `bal/platform/bios/mmap.c` | none of its own | `mmap_init` | BIOS int 0x12 and 0x15, CMOS; fills the memory map |
| framebuffer console | `bal/device/fb/fb.c` | cursor, circular back buffer, dirty lines, display | `fb_init`, `fb_write` | stdout and stderr; malloc |
| NS16C550 UART | `bal/device/uart/ns16c550/ns16c550.c` | count of free FIFO space | init, `read`, `write` | the chip |
| ARM PL011 UART | `bal/device/uart/arm_pl011/arm_pl011.c` | clock; the device's registers | init, read, write, `pl011_set_config`, attach | the device; the device tree |
| red-black tree, queues | `include/gd_tree.h`, `gd_queue.h` | links in the nodes | BSD macros | the memory map; VBE |
| VBE | `bal/platform/bios/vbe.c` | the mode under examination, list of modes, palette | `vbe_init`, `vbe_switch_mode` | BIOS int 0x10; the framebuffer console |
| firmware tables | `bal/platform/bios/tables.c` | pointers to the RSDP, XSDT, MP and SMBIOS tables | `tables_init` | low memory |
| BIOS CD-ROM | `bal/platform/bios/device/cdrom.c` | packet, scratch buffer | `pread` | BIOS int 0x13 |
| ISO 9660 | `bal/fs/iso9660/iso9660.c` | open files with offsets | openat, read, pread, seek, close | the CD-ROM device; lib9660 |
| device tree | `bal/device/dt/*.c`, `bal/device/bus/simple-bus` | tree of nodes, list of drivers, buses | building, binding, address translation | libfdt; drivers |
| stage 1 | `bal/platform/bios/stage1/**.S` | the directory sector last read, the record of the open file; TFTP session; A20 gate | start-up, mode switching, opening and reading files | BIOS, PXE; enters the BAL |
| ATF platform, kickstart | `bal/platform/atf/**` | the mark of used memory, the files' positions | start-up, loading by semihosting | semihosting; elfload; PL011; the device tree |
| I/O accessors, panic, stubs, SoC code | various | none | | |

Which behaviours are hard, and the properties that make each part correct:

* **Memory map.** Adding an entry over others promotes the shared pages to the
  type that comes earlier in a precedence table, by splitting, merging and
  recursive adding. Slots for the entries come from a pool which, when empty,
  takes a page out of the map in the middle of such an operation. Correct
  means: between calls no two entries overlap; every page has the type the
  precedence table gives it; entries are whole pages; no slot is in use twice;
  pages that were handed out stay out of the conventional memory until they
  are freed; the key changes with the map; the recursion ends.
* **BIOS memory.** The firmware reports ranges in any order, overlap and
  alignment and may break off. Correct means: nothing is offered that the
  firmware did not call usable, and nothing the loader itself occupies.
* **Framebuffer console.** The back buffer is circular and only dirty lines
  are copied. Correct means: when a write returns, the display shows the text,
  and no copy leaves the buffers.
* **UARTs.** The devices send and receive while the driver polls. Correct
  means: bytes accepted leave once and in order, a change of the line
  parameters hits no byte on its way, the divisor is the one asked for, and a
  write returns.
* **Stage 1.** Reads fail, stop early and are retried, directories span
  sectors, and the rest of stage 1 is itself loaded by stage 1. Correct means:
  the BAL is entered with the right file, all of it in memory, or boot is given
  up for a reason, and one or the other happens. To open the gate of address
  line A20 it talks to a keyboard controller that works at its own pace: correct
  means that A20 is enabled or boot given up, as is the case.
* **Storage of the BAL** (CD-ROM, ISO 9660). Retried reads through a bounce
  buffer, file offsets that pread must leave alone. Correct means: the bytes
  returned are those of the file at the offset asked for.
* **Discovery** (VBE, tables, device tree). What is found in one place decides
  what is looked for in the next. Correct means: the mode, table or driver
  chosen is one that was really found, and failures leave nothing half done;
  the memory a device tree describes is offered, what it reserves is not.
* **Kickstart.** The host may read less than it is asked to, anywhere. Correct
  means: the BAL is entered with all of its image and all of the device tree in
  memory, neither over the other, or the machine halts.

## 2. Modules

| module | models | remarks |
|---|---|---|
| `MemoryTypes` | types, precedence tables, entry arithmetic | shared |
| `MemoryMap` | all of `bal/mmap.c` | one record `mm` for the C statics; `todo` is the call stack |
| `MemoryMapClient` | the callers of the map | bounded number of calls; the properties |
| `PageMap` | what a call makes of the pages | one type per page; no entries, slots or tree |
| `PageMapCalls` | what the map promises its callers | calls and returns: a call that returns did what `PageMap` says of this very call, and nothing else happens to the pages. `MemoryMapClient` keeps the call it makes in `asked`, which no action reads, for this refinement |
| `BiosMemory` | `bal/platform/bios/mmap.c` | extends `MemoryMap`; BIOS answers are choices |
| `FbConsole` | `bal/device/fb/fb.c` | buffers of pixel rows |
| `TextScreen` | what a console promises | cells and a cursor; no pixels |
| `Ns16c550`, `Pl011` | the UART drivers and their devices | devices are external |
| `SerialPort` | what a serial port promises | numbered bytes |
| `ElTorito` | `stage1/init.S` with `stage1/eltorito/storage.S` | the BIOS is external |
| `A20` | `stage1/a20.S` | the keyboard controller is a process of its own, external |
| `Pxe` | `stage1/init.S` with `stage1/pxe/storage.S` | the PXE API and the server are external |
| `BootFile` | what stage 1 and kickstart promise | no sectors or directories |
| `Tables` | `bal/platform/bios/tables.c` | a paragraph of memory at a time |
| `Vbe` | `bal/platform/bios/vbe.c` | the video BIOS is external |
| `Cdrom` | `bal/platform/bios/device/cdrom.c` | the BIOS is external |
| `Iso9660` | `bal/fs/iso9660/iso9660.c` | lib9660 is external |
| `OpenFiles` | what a file system promises of open files | no sectors, no drive |
| `Kickstart` | `bal/platform/atf/kickstart` | the host and elfload are external |
| `DeviceTree` | `bal/device/dt`, simple-bus, attaching a PL011 | libfdt is external; uses `PageMap` as the memory map |
| `Startup` | `bios/init.c`, `atf/main.c` | composes these components, `Pxe` with `A20` included; their properties |
| `MC*` | instances for TLC | |
| `*Proofs` | theorems and proofs | |

### Memory map

`mm` has the contents of every slot, the set of slots in the tree, the list of
freed slots, the pool (`next`, `left`) and the key. The tree is a set ordered
by key. Balancing is not modelled, but what `RB_PREV` and `RB_NEXT` return for
a slot that is no longer in the tree is: its `rbe_left` is the link of the free
list, so `RB_PREV` of it is the next freed slot.

`mmap_add_entry` and `fix_overlap` call each other. Each call is one step, and
`todo` holds the calls that remain with the slot pointers they hold; a pointer
may therefore be stale when it is used, as in the code. The functions that do
not recurse are operators from one `mm` to the next. `gd_free_pages` installs
another precedence table (`freeing`) around its call of `mmap_add_entry`.

Where the code panics or goes on with memory that is no longer what it takes it
for, `status` says so and the map stops; each such state is named in `Fault`.
Two of them, which contradict an assertion or a comment of the source, are the
subject of runs of their own (section 5).

### BIOS memory

`mmap_init` is a program counter over its BIOS calls. Each answer the code
distinguishes (carry, bad signature, end of list, a range, sizes in registers)
is an action or a choice. The addresses (0x8000, 0x30000, 0x100000, 0xF00000,
0x1000000) and the widths of the products are constants, so that an instance
scales 16 MiB down to a dozen pages and wraps products at a small word.
An answer may lead to several calls of `mmap_add_entry`: `rest` holds the
entries of those that follow the one under way, `AddRest` makes the next call
when the one before has returned, and the next BIOS call waits until none is
left (`Ready`).

### Framebuffer console

A buffer maps pixel rows to what each character column shows there: background
or row j of the glyph of c. That is enough to see a glyph cut off, shifted or
drawn on the wrong line. Colour conversion and the four pixel depths are left
out: `fb_write_char_8` to `_32` differ in the width of a pixel only. memcpy of
overlapping ranges, which scrolling the display itself does, is taken to copy
upwards.

### UARTs

The chips are external: FIFOs of `depth` bytes which they empty and fill at any
time; a byte that comes to a full FIFO is dropped. Bytes are numbered, so that
loss, duplication and reordering are visible. `fifo_space` of the NS16C550
driver is carried from call to call. The PL011 driver looks at the flag register
before each byte. It turns the device off to change the line parameters, which
are three registers, each a step; the byte in the device's shift register goes
on leaving meanwhile, as the driver does not wait for it, and `disturbed` is the
set of bytes this happened to. The device is found out of reset or as firmware
left it, with bytes of its own in it. With a divisor of integer part 0 it does
not send (`Clocked`).

### Stage 1 from a CD

`pc` is the label stage 1 is at. Every int 0x13 is a step with three outcomes:
it transfers some of the blocks asked for, it fails and leaves anything in the
buffer (`storage_read` then goes on block by block), or it fails for a single
block and boot is given up. `mem` holds for each place that is read to the
sector numbers that came to lie there. The directory buffer holds the last
directory sector, and the open file is an address in it, as in the code. Every
directory record looked at is a step. The names compared are abstracted to
three strings, in upper case on the disc and in lower case in init.S. Of
`a20_enable` the module keeps how it ends: it returns (`Choose`), it gives up
(`A20Fails`), or neither ever happens; which of these, module `A20` says.

### Stage 1 from a network

`ppc` is the label. Every call of the PXE API is a step that may fail, and
between any two the files on the server may be replaced by longer or shorter
ones or be removed. A unit of a file is known by file, edition and offset, so
that a mixture of files, a gap or an overrun is visible in `pmem`. The limit of
the name's length is whatever lies at address 122 (section 5), and the segment
of the buffer has 16 bits, here `Megabyte`. Signatures and checksums of the two
PXE structures are attributes; the copying of the server's address is left out.

### A20

`apc` is where `a20_enable` is: it looks whether the gate is open, asks the BIOS
(which may open it, refuse, or say it did and not have done it), then the
keyboard controller, then port 0x92. Every access to the controller's ports is a
step, and between any two the controller may take the byte in its input buffer,
carry out what it took, or receive a key; reading its output buffer gives the
last byte put there. Of a byte written to its output port the two bits that
matter are kept: A20 and the one that, when clear, resets the processor. A key
is only of interest while interrupts are off, as the BIOS reads it otherwise.

`Startup` runs `A20` while `Pxe` is at its `a20_enable`, which it leaves when
that has returned or given up.

### After the memory map, and before it

`Startup` puts these components in the order of the two platforms' main
functions. On a machine started from a network: stage 1 with `a20_enable`, up to its end.
On the BIOS platform: `tables_init`, `vbe_init`, then a read of the
CD, as sectors or as files. On ATF: kickstart, and when it has entered the BAL,
`dt_platform_init_fdt` and the attaching of drivers. The components share no
state but what is handed on, so each machine of the instance gives one of them
something to do and the others next to nothing.

* *Tables.* Signature, checksums, revision and length are attributes of a
  paragraph of 16 bytes. Regions are known by their address in KiB; two
  of them may be the same, as in the code.
* *VBE.* Every int 0x10 is a step with each of its outcomes. There is one
  `new_mode`, declared outside the loop: a mode that is skipped leaves in it
  what had been filled in, and before the first mode it holds anything;
  `verdict` remembers which it was.
  Character cells, pixel clocks and reserved fields, which nothing reads, are
  left out.
* *CD.* A sector is a few units long, a unit of the disc is its number, and
  memory is what lies in the caller's and in the scratch buffer. A failed call
  may leave junk in any number of the sectors asked for. Where in its paragraph
  the linker put the packet is part of the request: only at its start does the
  BIOS find it (`PacketFound`), and elsewhere it may do anything (`BiosAstray`).
  `pread`'s call of itself goes back to the beginning with one sector.
* *ISO 9660.* Between `malloc` and the answer of `openat` there is a step for
  each call that may fail. Reads of lib9660 move the position as far as they
  got. Positions and the product of `read_sector` have 32 bits, here `Word`.
* *Kickstart.* A byte of a file is its name and its offset. The reads elfload
  makes are part of the file; at any of them it may find fault.
* *Device tree.* The recursion of `add_device_fdt` is a stack. A property is a
  sequence of cells. The nodes' names stand for their `compatible` strings, and
  whoever calls attach functions and stores `bound_device`, which the
  repository does not have, is external. Where the image of the BAL and the
  flattened tree lie is part of the tree. A panic, a read past the end of a
  property and a null device end a behaviour.

## 3. Runs that pass

| run | bounds | shows |
|---|---|---|
| `mmap_add` | 5 pages, 3 calls, any page range of 3 types, 6 ranges that are not whole pages and `mmap_clean`, slots to spare | `WholePages`, `NoOverlap`, `ImplementsPageMap`: any three ranges are combined as the precedence table says |
| `mmap_scavenge` | 7 pages, 2 static slots, 2 per page, 7 ranges, 5 calls that add, allocate, free or look at the map | `TypeOK`, `SlotAccounting`, `SlotPagesKept`, `WholePages`, `NoOverlap`, `GrantsHeld`, `KeyTracksMap`, `ImplementsPageMap` while slots run out again and again |
| `bios_memory` | 18 pages, 6 kinds of range, at most 3 in a sequence, all fallbacks | `HonoursFirmware`, `LoaderKept`; `CallsReturn`: the recursion ends |
| `fb_console` | 3 by 3 characters of 2 rows on 7 pixel rows, 9 characters | `TypeOK`, `InBounds`, `ImplementsTextScreen`, with and without back buffer and padding |
| `ns16c550` | FIFO of 2, writes of 0, 1 and 3 bytes, 5 out and 3 in | `SpaceIsFree`, `ImplementsSerialPort`, `WriteReturns` |
| `pl011` | FIFO of 2, 4 out and 2 in, up to 2 bytes of the firmware to send and 1 to read, 2 valid and 2 invalid settings | `ImplementsSerialPort`, `DisturbsOneByte`, `WriteReturns` |
| `eltorito` | all boot directories of 3 records of 6 kinds over 2 sectors, and discs that cannot be booted; with and without long mode; 2 blocks per read | `AbortsForReason`, `RestLoaded`, `ImplementsBootFile`, `BootEnds` |
| `startup` | firmware of up to 2 paragraphs in each of 4 regions; adapters of 4 VBE versions with 1 or 2 modes; 180 requests to a CD of 2 units a sector; 5 operations on 2 files; 50 pairs of files for kickstart read 2 bytes at a time; trees of 1 and 2 cells with reservations and a UART on a bus; about 360 servers with files of up to 6 packets of 2 units; boards of every kind `A20` tells apart | `PxeHandsOver`, `GateAsReported`, `FirstTablesReported`, `ConsoleOnScreen`, `PixelsShowColours`, `ReadsIfPacketFound`, `NoFileLeaks`, `ImplementsButPread`, `KickstartHandsOver`, `MemoryOffered`, `TreeMirrorsFdt`, `AttachedOrFreed`, `StartEnds` |

What the properties of `startup` say, in short, and where they end; section 5
says what happens beyond each of these limits.

* `PxeHandsOver`: the file entered is the one the processor should have, of one
  edition, all of it or as much as the server said there was, in memory if it
  fits below the first megabyte; boot is given up only for a reason.
* `GateAsReported`: `a20_enable` returns only with the gate open, and gives up
  only if no method opens it; in particular it does not look before the
  controller is done.
* `FirstTablesReported`: each table reported is the first valid one in the order
  of the regions searched, the XSDT is that of the same RSDP, and a length tells
  whether there is something.
* `ConsoleOnScreen`, `PixelsShowColours`: if the last mode was taken, the frame
  buffer the console was given is that of the mode that was set, and the palette
  shows the colours it composes; if it was skipped, the console was given
  address 0.
* `ReadsIfPacketFound`: if the BIOS finds the packet, then, after whatever
  failed, what `pread` says it read is what the disc has there, and nothing else
  was written to.
* `NoFileLeaks`, `ImplementsButPread`: every file in memory can be closed, and
  reads and seeks on several files answer as an abstract file system would; a
  pread moves no position, and its bytes are those at the position.
* `KickstartHandsOver`: kickstart implements `BootFile`.
* `MemoryOffered`, `TreeMirrorsFdt`, `AttachedOrFreed`: outside reservations, the
  image and the tree itself, exactly the memory described is offered; the tree
  built is the tree described; a device is in memory exactly if it is bound, but
  for a UART at the root, and a UART's base is the address of its registers on a
  bus with two size cells and their size on one with one.
* `StartEnds`: all of it comes to an end, unless `a20_enable` waits for ever in
  `kyb_wait_output_buf` with a byte in the output buffer; a reset by the keyboard
  controller counts as an end.

`BootEnds` of `eltorito` likewise: stage 1 ends, or stays in `a20_enable`.
`WriteReturns` of `pl011` speaks of a divisor the device works with.
`DisturbsOneByte`: however many bytes are in the FIFO, `pl011_set_config` writes
the line parameters under one of them at most, the one in the shift register.

Why the bounds are enough to be interesting. Three overlapping ranges are what
`fix_overlap` needs for each of its five cases and for one level of recursion
below each; five pages give every relative position of the ends. With two
static slots the third entry already scavenges. On the console nine characters
fill the screen of three lines, wrap and scroll more than once with the start
of the circular buffer at every line, and a height of 7 rows leaves a
row below the last character line. A FIFO of 2 with a write of 3 makes the
driver return early and come back to a FIFO in any state. A file of 5 blocks
read 2 at a time has a first, a middle and a last read, each of which may fail
or stop early; two sectors with a short and a full one have all three ways in
which a sector's records end. In `startup` the inputs of a component are the
combinations its code tells apart: a valid, an invalid and a missing table in
every region, since each region's result decides the next search; two modes,
since the second one finds what the first left in `new_mode`; requests on both
sides of the address up to which the BIOS can write and of the scratch
buffer's size; device trees whose length is and is not a multiple of a chunk;
one and two cells for addresses and for sizes; files on a server that are
missing, empty, shorter than a packet, a multiple of it and longer than memory.

Constants that are not bounds: the clock of the PL011 instance is that of the
ATF platform (24 MHz); `Word` there stands for a number above all products of
the instance, as TLC's integers have 32 bits.

CHECK_DEADLOCK is off because every instance ends when its bounded number of
calls was made, and because a panic stops the machine.

### Fairness

`bios_memory` assumes that a call that can go on does, and that `mmap_init` goes
on to its next entry when `mmap_add_entry` returned (`AddRest`): there is one
processor and nothing preempts it. `startup` assumes the same of start-up and of
a read of the CD, and that the BIOS, the semihosting host and the PXE API return
from every call, with success or without. It also assumes that the keyboard
controller, a processor of its own, goes on; nobody has to press a key or to
replace a file on the server, and nothing is assumed of whoever uses files. The
UART runs assume the same of the driver and that the chip keeps sending what it
holds (the PL011 only while it is on, or completes a byte, and only with a
divisor that is not 0). `eltorito` assumes that the BIOS returns from every call
and that a read it calls successful transferred a block at least; that it ever
succeeds is not assumed, and nothing is assumed of `a20_enable`. Nothing is
assumed about data coming in, so reads may wait for ever, as they do in the code.

## 4. Proofs

| theorem | says | for all |
|---|---|---|
| `MemoryMapClientProofs!Inductive` | the inductive invariant below | numbers of slots and pages, inputs, calls |
| `MemoryMapClientProofs!TypeCorrect` | `Spec => []TypeOK` | |
| `MemoryMapClientProofs!WholePagesAlways` | `Spec => []WholePages` | |
| `MemoryMapClientProofs!SlotsAccounted` | `Spec => []SlotAccounting` | |
| `MemoryMapClientProofs!NoOverlapAlways` | `Spec => []NoOverlap` | |
| `MemoryMapClientProofs!KeyTracksMapAlways` | `Spec => []KeyTracksMap` | where `mmap_clean` is not called |
| `MemoryMapClientProofs!MapImplementsPages` | `Spec => PageMapCalls!Spec` under the mapping | maps, inputs, numbers of slots |
| `MemoryMapClientProofs!GrantsHeldAlways` | `Spec => []GrantsHeld` | where no caller asks for memory of type `gd_reserved` |
| `MemoryMapClientProofs!SlotPagesAlwaysKept` | `Spec => []SlotPagesKept` | the same |
| `MemoryMapClientProofs!GrantsExclusiveUntilFault` | `Spec => [](status = "ok" => GrantsExclusive)` | the same |
| `BiosMemoryProofs!FirmwareHonoured` | `Spec => []HonoursFirmware` | answers of the BIOS, layouts of the first 16 MiB, numbers of pages and slots |
| `BiosMemoryProofs!LoaderAlwaysKept` | `Spec => []LoaderKept` | answers of the BIOS, as above |
| `FbConsoleProofs!TypeCorrect`, `RenderInBounds` | `TypeOK`, `InBounds` | screen and font sizes, texts |
| `FbConsoleProofs!ImplementsScreen` | `Spec => TextScreen!Spec` under the mapping | screen and font sizes, texts |
| `Ns16c550Proofs!TypeCorrect`, `NeverOverfills` | `TypeOK`, `SpaceIsFree` | FIFO sizes |
| `Ns16c550Proofs!Implements`, `Pl011Proofs!Implements` | `Spec => SerialPort!Spec` under the mapping | FIFO depths, settings, lengths of calls |
| `Pl011Proofs!DisturbsOneByteAlways` | `[]DisturbsOneByte` | FIFO depths, clocks, settings, calls |
| `ElToritoProofs!RestAlwaysLoaded` | `Spec => []RestLoaded` | sizes, discs, failures |
| `ElToritoProofs!AbortsOnlyForReason` | `Spec => []AbortsForReason` | directories of any number of sectors and records |
| `ElToritoProofs!BootsTheRightFile` | `Spec => BootFile!Spec` | discs on which directories and files are not empty and not too long (`Sound`) |
| `StartupProofs!ReadsIfPacketFoundAlways` | `[]ReadsIfPacketFound` | sizes of sectors, scratch buffer and memory, requests, failures |
| `StartupProofs!PxeHandsOverAlways` | `[]PxeHandsOver` | servers, packets, editions |
| `StartupProofs!GateAsReportedAlways` | `[]GateAsReported` | boards, interleavings with the controller and the keyboard |
| `StartupProofs!FirstTablesReportedAlways` | `[]FirstTablesReported` | contents and lengths of the regions |
| `StartupProofs!ConsoleOnScreenAlways`, `PixelsShowColoursAlways` | `[]ConsoleOnScreen`, `[]PixelsShowColours` | adapters with any number of modes, widths of the colour registers |
| `StartupProofs!NoFileLeaksAlways`, `ImplementsButPreadAlways` | `[]NoFileLeaks`, `Spec => OpenFiles!SpecHere` | volumes, numbers of files, calls, failures |
| `StartupProofs!KickstartHandsOverAlways` | `Spec => BootFile!Spec` | files, chunks, short reads |
| `StartupProofs!MemoryOfferedAlways`, `TreeMirrorsFdtAlways`, `AttachedOrFreedAlways` | the three invariants of the device tree | trees of any size and shape |

*Memory map.* `MemoryMapProofs` has what holds of the map whoever calls it: the
invariant `CallInv` and, for each call that comes in (`AddComesIn`,
`FreeComesIn`, `AllocGoesOn`, `Cleans`) and each step of the recursion
(`RunKeeps`, `RunDoes`), that it is kept and what becomes of the pages.
`MemoryMapClientProofs` and `BiosMemoryProofs` use these lemmas for two kinds of
callers.

None of the first three properties is inductive: a slot's
accounting depends on what the pool can reach, a size's sign on how the call at
the top of the stack was made. The invariant states, while no fault has
happened: slots in the tree, freed slots and pool are disjoint and the pool
lies inside one array; entries of the tree are whole pages in the address
space; pending calls of `mmap_add_entry` have arguments inside the address
space; no two entries have the same start (`MapInv`); what was granted lies in
the address space (`GoodGrant`). Each operation is a lemma: removing an entry, merging, the
four ways of slicing, scavenging, taking a slot; then one step per action.
The assumptions are `SlotsAssumption` (at least one static slot, at least two
per page), `PagesAssumption` and `InputsAssumption` (inputs inside the address
space).

`NoOverlapAlways` needs to know which overlaps there may be in the middle of the
mutual recursion. `Orderly` says: two entries of the tree overlap only if they
are neighbours and `fix_overlap` is still to be called for the first of them, as
`fix_overlap(newent)` at the top of the stack or as
`fix_overlap(RB_PREV(newent))` of a call further down (`PrevFollows`); the
overlaps that wait lie below each other in memory, in the order of the stack
(`Stacked`), and below the range being added (`TopAdd`) or the entry being fixed
(`TopFix`), so that no step reaches into an overlap it is not about. As a slot
can be freed and used again while a call that holds it is on the stack, only the
first call that holds it counts. `Onward` reduces a step to what it does
to the entries it touches; merging and slicing are `Calm`, which is to say that
every overlap they leave is part of one that was there. TLC found the invariant
to hold on the instances of section 3 before it was proved.

`KeyTracksMapAlways` rests on `KeyInv`: a step that changes the map raises the
key, or a call that raises it is still on the stack. `mmap_clean` does neither,
hence its assumption.

`MapImplementsPages` needs to know what each page will be when the calls on the
stack have been made. Take the types of the entries that cover a page (`Types`)
and those that pending calls of `mmap_add_entry` will give it (`Pends`): the one
of highest precedence is what the call makes of the page (`PageOk`), and no step
of the recursion changes it (`Dominates`): slicing keeps the type that wins,
merging joins equal types, and the ends that are cut off and added again are
pending in between. Where the precedence table is another one, as in
`gd_free_pages`, the page of the freed range is conventional in the end
although its type had precedence. Scavenged pages become loader data, which is a
step `PageMap` allows of conventional pages only (`Improves`). The table for
`gd_free_pages` is back in place when the calls have returned (`RestoreLast`,
`NoRestore`). `Ongoing` ties this to the snapshot the mapping is taken from
while a call is under way, and `Underway` ties the range in it to the request in
`asked`: the step that empties the stack is the return of the call that was made,
with its range, and not just some step that some call could have taken.

`GrantsHeldAlways` follows from it: pages a caller was given have types that have
precedence over conventional memory (`Guarded`), so no range added makes them
conventional again, and the range that is being freed is nobody else's
(`Leaves`). Memory of type `gd_reserved`, were it allocated, would become
conventional when a range of conventional memory is added over it: hence the
assumption.

`SlotPagesAlwaysKept` needs more, as `mmap_alloc_entry` takes pages in the middle
of a call, when a page's type is not settled. A page is `Safe` if one of the
types it has or is still to be given precedes conventional memory, and
conventional is among them only if the `mmap_add_entry` under way asks for it.
`PageGoes` shows that no step makes a safe page unsafe, and `SafeNotTaken` that
`mmap_alloc_entry` never takes one. `Firm`, the conjunct of `SInv` that speaks of
the middle of a call, says that every page with slots and every caller's page is
safe. That leaves the page just taken (`SafeTaken`). In `mmap_add_entry` it
was conventional and becomes loader data. In `gd_free_pages` it may
belong to the very range that is being freed: then the range was the caller's,
hence not conventional before, and once the page is conventional nothing left on
the stack makes it so again (`Returning`, which is part of what `AddReady` says
of every pending `mmap_add_entry`). `Owned` and its lemmas follow the slots
themselves: a step adds none except those of the page it takes (`StepOwned`,
`CallAllocOwned`). Since no page with slots is a caller's (`NoneShared`), freeing a
range never frees such a page, and `GrantsExclusiveUntilFault` follows from the
same invariant: the slicing that section 5 shows (`mmap_grant`, status
"clobbered") is the one way to hand out a page with slots.

*BIOS memory.* `HonoursFirmware` speaks of the time between calls, when
everything reported is in the map. `BInv` follows a report on its way there:
with `L` the entries still to be added (`Coming`: the one of the call under way
and `rest`), conventional memory in the map was reported as usable (`Backed`),
conventional entries of `L` were too (`Promised`), and each page of which the
firmware said something else has a type that precedes conventional memory or
gets one from an entry of `L` (`Withheld`). At the end of `mmap_init` the same
is said of page 0 and of the loader's pages (`KnownKept`). `AddAgrees` is the
step that matters: when a call returns, what `PageMap` says it made of each
page (`Became`) lets its entry be struck from `L`. An entry that covers a page
in part makes it unusable and not conventional, which both halves of the property rest
on. After a bad answer of 0xE820 the map is empty again, and only because of
that the fallback may forget what was reported. `SpaceAssumption` says
that ranges, and 4 GiB from 16 MiB on (`HighStart + Word`), lie in the address
space modelled; `LayoutAssumption` gives the order of the addresses.

*Framebuffer.* `fb_render` is only right because dirty lines always start at
line 0 and because a scrolled buffer is dirty to the last line. That is the
strengthening: `front_dirty_start = 0`, and `back_buffer_start > 0` implies
`front_dirty_end = max_height`. The refinement adds `Clean`: lines that are not
dirty are the same in both buffers, and without a back buffer the rows below the
last line are blank, which the scrolling of a contiguous frame buffer moves up
into the last line. Drawing, clearing and copying are lemmas about whole cells
(`DrawnCells`, `ClearedCells`, `LinesCopied`), turning the circular buffer is
`TurnsAround`. `BackgroundAssumption` says that a glyph's row can be told from
the background.

*UARTs.* For the NS16C550, the bytes in the FIFO and the space the driver knows
of together do not exceed the FIFO; the proof needs that the FIFO was cleared at
initialization. Both refinement proofs map each step to a step or a stutter of
`SerialPort`. A byte of the firmware may still be in the NS16C550's shift
register after `ns16c550_init`: the mapping does not count it, and the proof
shows that it is the only one. The PL011 is not initialized if the firmware left
it on: its mapping counts the firmware's bytes. `DisturbsOneByte` rests on the
device being off while the driver is between `Disable` and `Enable`, so that no
byte enters the shift register: what is in it is disturbed already, or nothing
was yet.

*Stage 1 from a CD.* There are three invariants, one on top of the other.
`LInv`: while the rest of stage 1 is read, the blocks before `rd.to` are in
memory and the request is for exactly the missing ones; a failed call writes
behind them. `SInv`: while a directory is searched, the sectors behind are done
with (`Sect`), the rest of the directory is not empty, every record of the name
looked for is where the search has not been (`AllFrom`), and the address looked
at holds a record, or the sector has no more; and it says why the name at
hand is looked for (`gd_bal.32` on a 64-bit processor only if `gd_bal.64` is not
a file). It is promised of discs that are `Regular`; on any other disc
`AbortsForReason` holds because of what the disc is. `FInv`: part of the file is
in memory, nothing lies beyond its end, and the rest is being read. The lemmas
about looking through a directory (`SteppedOver`, `SectorDone`, `NoneLeft`,
`FirstOfName`) speak of a disc alone. The assumption `DiscsAssumption` is the
format of a directory: records follow each other from the start of a sector, do
not overlap and are not empty; sectors of the two directories are known; the
size of stage 1 can be rounded up in 32 bits. `BootsTheRightFile` also assumes
that directories and files are not empty, and that the end of a directory fits
the 16 bits it is compared in: otherwise the theorem is false (section 5).

*CD.* `ReadsIfPacketFound`
speaks of the end of `pread` and of single packets; the
invariant carries it from one to the other: memory and counts have their types;
the packet fits where it goes and what was asked for; the rest of the buffer is
untouched; while a sector is in the scratch buffer or the BIOS has read into the
caller's, what lies there is the disc's. The retry is the hard step, as it goes
back to the beginning with a buffer a failed call may have scribbled over. It
needs that a sector is not empty and that requests are no longer than the
buffer (`SizesAssumption`).

*Start-up.* Each component of `Startup` has an invariant of its own, kept by the
steps of the others because they leave its variables alone.

* `XInv` (network): while a file comes in, memory holds the bytes sent so far of
  one edition, if they end below the first megabyte, and `edi` and `ecx` count
  them; at the end all bytes were sent, or as many as the size was. Of each file
  given up, it remembers that the server lacked it.
* `AInv` (A20): before the controller was sent the byte for its output port none
  is on its way; after the command that follows was taken, it was carried out;
  in between it is in one of the two buffers or was carried out. Hence at the
  last look the gate is open if the controller's line is wired to it.
* `TInv` (tables): what is reported of each kind is the first table in what was
  searched, nothing was found before it where something is still searched for,
  and the flags say which kinds that are.
* `VInv` (video): a mode that was taken was filled in from one description of
  the BIOS, one that was skipped was given no address, and after the switch the
  palette is that mode's. It needs that the BIOS gives each mode one
  description.
* `FInv` (files): the object of an `openat` under way is the only one that is in
  memory and not open; positions are numbers.
  For the refinement, a read never leaves the file, and the product of
  `read_sector` does not wrap where a file's bytes are: `VolumeAssumption`.
* `KInv` (kickstart): memory holds the device tree up to what was read, then
  the segments loaded so far and nothing else. It needs that segments do not
  overlap and that both files fit the memory (`IsHost`); a device tree shorter
  than an error's number cannot be taken for one.
* `MInv` (memory node): after n ranges the pages of these n ranges are
  conventional, except reserved ones. It needs that ranges do not overlap.
  The image and the tree are not excepted: their pages are conventional too.
* `NInv` (tree): the stack is a path of the flattened tree, the nodes visited
  are those of its left side, each with the properties read so far, the latest
  value of each name. It needs that parents come before their children.
* `BInv` (drivers) extends `NInv` by what is bound, and that a bound bus has
  cells its children can be given addresses by.

`SizesAssumption`, `VolumeAssumption` and `MachinesAssumption` give the types of
what the firmware, the server, the host and the flattened tree hold, and the
conditions just named, which the formats prescribe. TLC evaluates all of
them on the instances.

*Only model-checked.* All liveness (`CallsReturn`, `WriteReturns`, `BootEnds`,
`StartEnds`: the prover has no ENABLED), and the violations of section 5. Every invariant that a passing run
checks is a theorem, three of them under an assumption on callers that the table
names.

## 5. Where the code and its comments disagree

Each of these is a run in which TLC finds the stated property violated.

| run | property | what happens |
|---|---|---|
| `mmap_bad_tree` | `TreeInsertSucceeds` | adding a larger entry at the address of a smaller one that has a neighbour right behind it ends in `panic("Bad memory map tree?")` |
| `mmap_grant` | `GrantsExclusive` | `gd_alloc_pages` returns the page that the allocation of its own entry has just filled with slots |
| `bios_stage1` | `StageOneKept` | the memory of stage 1 stays conventional |
| `dt_reserved` | `SomeMemoryKept` | of the memory that `platform/atf/README.md` says is kept, nothing is. What the device tree reserves becomes conventional when the memory node that contains it is added, as the precedence table ranks reserved memory below conventional memory, in whatever order they are added (`ReservationsObeyed`). The BAL's image and the device tree binary are not entered in the map at all (`ImageNoted`). The property is the disjunction of the two, so that one state refutes both. |

The next ones limit what a property of a passing run says. The full statement is
in the modules next to the one that is checked; put in the place of the
properties of the run's cfg, TLC refutes it within a minute. What the passing
run shows is either the statement with the case left out, or what the code does
instead.

| full statement | run and property that pass | what happens |
|---|---|---|
| `DivisorRounded` (`arm_pl011.c:119`: "Calculate and correctly round that") | `pl011`, `WriteReturns`: of divisors the device works with | the code divides by 128 where it has to multiply: at 24 MHz and 115200 baud the divisor is 0, the device sends nothing and `pl011_write` polls for ever |
| `A20Returns` (`a20.S:33`: "Try to enable A20", "Aborts boot on failure") | `startup`, `StartEnds`: waiting for ever is one of the ends it names | `kyb_wait_output_buf` waits until the output buffer is empty; if the controller has answered before it looks, that is for ever |
| `ReadsTheDisc` (`ioctl.txt:7`: "ioctl pread(...)") | `startup`, `ReadsIfPacketFound`: of a packet at the start of a paragraph | `pread` passes the packet's offset in EDI where int 0x13, function 0x42, takes SI, so that the BIOS finds the packet only there |
| `ImplementsOpenFiles` (`ioctl.txt:7`: "uint64_t offset") | `startup`, `ImplementsButPread`: the bytes of a pread are those at the position | `file_pread` reads at the file's position and not at the offset it is passed |
| `RegistersFound` (`ioctl.txt:24`: "gio_addr *addr, size_t *len") | `startup`, `AttachedOrFreed`: the base is the size there | on a bus with one size cell `dt_node_get_reg_range` stores the size over the address, and the UART is driven there |
| `WholeFileRead` (`pxe/storage.S:483`: "Reads the currently open file.") | `startup`, `PxeHandsOver`: as much as the server said there was, in memory if it fits below the first megabyte | a file that grew between the question for its size and its opening loses its end; one that does not fit below the first megabyte goes on at address 0; both are entered |
| `SkippedNotSet` (`vbe.c:166`: "no planar modes supported") | `startup`, `ConsoleOnScreen`: a skipped mode comes with address 0 | after the loop `vbe_init` switches to the mode examined last, though it was skipped, as planar modes are |
| `FoundIfThere` (`eltorito/storage.S:303`: "eax ~0 on record not found") | `eltorito`, `AbortsForReason`: the wrapped end is one of its reasons | `find_directory_record` compares the end of a directory in 16 bits: a directory of 0xD800 bytes or more loses files |

The models reach further states of this kind:

* *Memory map.* `mmap_add_entry` goes on with an entry that the recursion freed
  (status "stale"); scavenging while entries still overlap takes a page that is
  also something else; `mmap_clean` empties the map and leaves the key as it
  was; with more BIOS ranges than static slots the first page scavenged is page
  0, where a slot pointer can be a null pointer ("null"). In the passing runs a
  fault ends the behaviour, so their properties are about the calls that
  return; `KeyTracksMap` is checked where `mmap_clean` is not called.
* *A20.* If `kyb_wait_output_buf` looks before the controller has answered, the
  byte it then reads is an old one, or a key. Written back to the output port it
  may reset the processor (`WasReset`); no comment or test speaks of it.
* *Network.* The limit of the name's length is loaded from address 122 and not
  the number 122 (`pxe/storage.S:411` has no dollar sign), so that a small number
  there cuts the name off; `PxeHandsOver` names it as a reason to give up. The
  pointer to the !PXE structure is loaded into ES and BX in the order segment,
  offset, where the PXE ROM leaves offset, segment on the stack; in the model
  this is a machine on which !PXE is not found.
* *PL011.* The byte in the shift register is not waited for when the line
  parameters are changed; `DisturbsOneByte` bounds the damage to it.
* *VBE.* If the BIOS described no mode at all, `vbe_switch_mode` is called with
  an uninitialized one. `window_size`, which is in KiB, is compared with bytes,
  so that windowed modes are refused that would fit. The mode is copied over the
  list entry's link and not into its `entry`.
* *Tables.* An MP structure that gives its length as 0 ends the search of its
  region and does not count as found in the next.
* *ISO 9660.* `sector * 2048` has 32 bits.
* *Device tree.* `dt_node_get_reg_range` reads a size of two cells from where the
  address is; the properties it looks for ("regs", "#address_cells",
  "#size_cells") have other names in device trees ("reg", "#address-cells",
  "#size-cells"). `arm_pl011_dt_driver_attach` does not free the device if there
  is no parent (`AttachLeaks`), and nothing in the repository sets
  `bound_device`.

## 6. Not modelled, and the plan

Not modelled because there is no state to go wrong: I/O accessors, the ioctl and
syscall stubs and their generator, the AM33xx and BeagleBone code, kickstart's
polled UART and its `printf`, headers of constants, font data, the build. The
BIOS text console makes one BIOS call per character. The queue macros of
`gd_queue.h` and the balancing of `gd_tree.h` are BSD code: the models use a
sequence and an ordered set. Arithmetic that wraps in the memory map (sizes near
2^32 or 2^64) is outside a model with a few pages. In stage 1, an empty file and
what the BIOS does with a read of no blocks are left out, and so is whether
stage 1 as linked reaches up to the directory buffer at 0x2000.

Planned, in this order:

1. The BIOS call gate: `bios_services.c` with `modeswitch.S` and `api.S`, the
   registers and the stack that are handed from protected to real mode and back.
2. `RbTree`: the tree macros against an ordered set, on small trees.
