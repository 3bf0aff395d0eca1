----------------------------- MODULE MCStartup -----------------------------
(* Instances of Startup for TLC.  In each machine one component is given   *)
(* something to do and the others next to nothing: they share no state.    *)
EXTENDS Startup

(* Firmware: paragraphs in the regions searched.  The EBDA is at 639 KiB   *)
(* or where base memory ends, at 638.                                      *)
Para(s, sum, rev, ext, len) ==
  [signature |-> s, sum |-> sum, revision |-> rev, extended_sum |-> ext, length |-> len]
Empty == Para("none", FALSE, 0, FALSE, 0)
Rsdp1 == Para("rsdp", TRUE, 0, TRUE, 0)    Rsdp2 == Para("rsdp", TRUE, 2, TRUE, 0)
BadRsdp == Para("rsdp", FALSE, 2, TRUE, 0) BadXsdt == Para("rsdp", TRUE, 2, FALSE, 0)
Mpfp == Para("mpfp", TRUE, 0, FALSE, 1)    NoMpfp == Para("mpfp", TRUE, 0, FALSE, 0)
Smbios == Para("smbios", TRUE, 0, FALSE, 0)

Firmware(ebda, a, b, c, d) ==
  [ebda |-> ebda, base_memory |-> 638,
   memory |-> [k \in {637, 638, 639, 896, 960} |->
                 CASE k = 637 -> b [] k = 638 -> IF ebda = 639 THEN <<>> ELSE a
                   [] k = 639 -> a [] k = 896 -> c [] k = 960 -> d]]

SomeFirmwares ==
  {Firmware(ebda, <<a>>, <<b>>, <<c>>, <<d>>) :
     ebda \in {0, 639}, a \in {Empty, Rsdp2, BadXsdt, Mpfp, NoMpfp, Smbios},
     b \in {Empty, Rsdp2, Mpfp}, c \in {Empty, Rsdp1, BadRsdp, Mpfp},
     d \in {Empty, Rsdp2, Mpfp, NoMpfp, Smbios}}
    \cup
  {Firmware(ebda, <<a, b>>, <<>>, <<c>>, <<d, f>>) :
     ebda \in {638, 700}, a \in {Empty, BadRsdp, Mpfp}, b \in {Rsdp1, BadXsdt, Mpfp},
     c \in {Empty, Rsdp2}, d \in {Rsdp2, Mpfp, Smbios}, f \in {Empty, Rsdp1, Smbios}}

NoFirmware == Firmware(0, <<>>, <<>>, <<>>, <<>>)

(* Video adapters.  Screens are a few lines long.                          *)
Masks(n) == [red |-> <<n, 0>>, green |-> <<n, 0>>, blue |-> <<n, 0>>]
Win(attr, seg) == [attr |-> attr, seg |-> seg]
All == {"supported", "readable", "writeable"}
Mode(id, attr, model, bpp, a, b, size) ==
  [id |-> id, attributes |-> attr, ramp_programmable |-> id % 2 = 0,
   window_a |-> a, window_b |-> b, window_size |-> size,
   bytes_per_scanline |-> 5, lin_bytes_per_scanline |-> 6, width |-> 800, height |-> 4,
   memory_planes |-> IF model = "planar" THEN 4 ELSE 1, bpp |-> bpp,
   memory_model |-> model, masks |-> Masks(5), lin_masks |-> Masks(6),
   lfb_address |-> 1000000 + id]

Plain == {"supported", "color", "extended"}
Windows ==
  {<<Win(All, 10), Win({}, 11)>>, <<Win({"supported"}, 10), Win(All, 11)>>,
   <<Win({}, 10), Win({"supported"}, 11)>>, <<Win(All, 0), Win({}, 11)>>,
   <<Win(All, 0), Win({"supported"}, 11)>>}

ExtendedModes ==
  {Mode(id, attr, m[1], m[2], w[1], w[2], 32) :
     id \in {259, 300}, w \in Windows,
     attr \in {{"color"}, Plain, Plain \cup {"linear"}, Plain \cup {"linear", "not_vga"}},
     m \in {<<"direct", 32>>, <<"packed", 8>>, <<"packed", 15>>, <<"text", 4>>,
            <<"planar", 4>>}}

PredefinedModes ==
  {Mode(id, {"supported", "color"}, "packed", 15, w[1], w[2], 1024 * 4) :
     id \in {258, 259, 264, 300}, w \in Windows}

FewModes ==
  {Mode(259, attr, m[1], m[2], Win(All, 10), Win({}, 0), size) :
     size \in {8, 32}, attr \in {Plain, Plain \cup {"linear", "not_vga"}},
     m \in {<<"direct", 32>>, <<"packed", 8>>, <<"text", 4>>, <<"planar", 4>>}}

Video(version, list) ==
  [vga |-> TRUE, signature |-> "VESA", version |-> version, modes |-> list]
NoVideo == [Video(0, <<>>) EXCEPT !.vga = FALSE]

SomeVideos ==
  {NoVideo, [NoVideo EXCEPT !.vga = TRUE, !.signature = "VBE2"]}
    \cup {Video(v, <<m>>) : v \in {257, 512, 768}, m \in ExtendedModes}
    \cup {Video(v, <<m>>) : v \in {257, 258}, m \in PredefinedModes}
    \cup {Video(v, <<m, [n EXCEPT !.id = 260]>>) : v \in {257, 512}, m \in FewModes,
                                                   n \in FewModes}

OneMode == CHOOSE m \in FewModes : m.bpp = 32
Uninitialized == {V!ZeroMode, [V!ZeroMode EXCEPT !.depth = 8, !.type = "packed"]}

(* Requests to the CD: below and above what the BIOS can address.          *)
SomeRequests ==
  {[buf |-> buf, nbytes |-> n, offset |-> offset, packet |-> packet] :
     buf \in {4, 9, 13, 14, 15, 20}, n \in 0 .. 9, offset \in {0, 3, 4}, packet \in {0, 6}}
NoRequest == [buf |-> 0, nbytes |-> 0, offset |-> 0, packet |-> 0]

SomeVolume == [a |-> [lba |-> 3, length |-> 5], b |-> [lba |-> 9, length |-> 2]]

(* Files for kickstart: the image of two segments with a hole.             *)
Elf(align, tag) ==
  [length |-> 9, align |-> align, has_tag |-> tag, init_reads |-> 2, image |-> 6,
   reads |-> <<[offset |-> 0, n |-> 2, to |-> 0], [offset |-> 2, n |-> 1, to |-> 0],
               [offset |-> 3, n |-> 3, to |-> 0], [offset |-> 7, n |-> 2, to |-> 4]>>]
Dtb(n) == [length |-> n]
SomeHosts ==
  {[dtb |-> Dtb(n), bal |-> Elf(align, tag)] :
     n \in 1 .. 6, align \in {1, 2, 4, 8}, tag \in BOOLEAN}
    \cup {[dtb |-> K!Absent, bal |-> Elf(1, TRUE)], [dtb |-> Dtb(2), bal |-> K!Absent]}
NoHost == [dtb |-> K!Absent, bal |-> K!Absent]
OneHost == [dtb |-> Dtb(1), bal |-> [Elf(1, TRUE) EXCEPT !.reads = <<>>,
                                     !.init_reads = 0, !.image = 0]]

(* Flattened trees: reservations, memory, and a UART on a bus.             *)
Number(n, cells) == IF cells = 1 THEN <<n>> ELSE <<n \div CellWord, n % CellWord>>
Range(start, size, a, s) == Number(start, a) \o Number(size, s)

TreeNode(name, parent, props) == [name |-> name, parent |-> parent, properties |-> props]
BusCells(a, s) == << <<"#address_cells", <<a>> >>, <<"#size_cells", <<s>> >> >>
SomeTrees ==
  {<<TreeNode("", 0, <<>>), TreeNode("bus", 1, c), TreeNode("uart", 2, r),
     TreeNode("uart", 2, <<>>), TreeNode("clock", 1, << <<"x", <<1>> >>, <<"x", <<2>> >> >>)>> :
     c \in {BusCells(a, s) : a \in 1 .. 3, s \in 1 .. 2} \cup
           {<< <<"#address-cells", <<2>> >> >>},
     r \in {<< <<"regs", <<1, 5, 1, 7>> >> >>, << <<"regs", <<9>> >> >>, <<>>}}
    \cup {<<TreeNode("uart", 0, <<>>)>>}
OneTree == <<TreeNode("", 0, <<>>)>>

Fdt(rsv, a, s, reg, nodes) ==
  [valid |-> TRUE, rsv |-> rsv, address_cells |-> a, size_cells |-> s,
   has_memory |-> TRUE, reg |-> reg, nodes |-> nodes,
   dtb |-> <<16384, 100>>, image |-> <<16484, 300>>]
SomeFdts ==
  {Fdt(rsv, a, s, Range(4096 * m[1], 4096 * m[2], a, s) \o Range(4096 * m[3], m[4], a, s), OneTree) :
     rsv \in {<<>>, << <<12288, 4096>> >>, << <<0, 4096>>, <<4096, 8192>> >>},
     a \in 1 .. 2, s \in 1 .. 2,
     m \in {<<0, 2, 3, 8192>>, <<2, 3, 0, 6144>>, <<1, 4, 0, 0>>}}
    \cup {Fdt(<<>>, 1, 1, <<4096, 8192>>, nodes) : nodes \in SomeTrees}
    \cup {Fdt(<<>>, 2, 1, <<0, 0, 8192, 1>>, OneTree),
          [Fdt(<<>>, 1, 1, <<>>, OneTree) EXCEPT !.has_memory = FALSE],
          [Fdt(<<>>, 1, 1, <<>>, OneTree) EXCEPT !.valid = FALSE]}
NoFdt == Fdt(<<>>, 1, 1, <<>>, OneTree)

(* Networks: files of less than a packet, of whole packets and of more     *)
(* than memory, absent, and replaced by shorter and longer ones.           *)
Files(n64, n32) == [bits \in {32, 64} |-> IF bits = 64 THEN n64 ELSE n32]
Server(limit, files, later) ==
  [pxenv |-> TRUE, version |-> 513, pxe |-> TRUE, limit |-> limit,
   files |-> files, later |-> later]
SomeServers ==
  {Server(limit, Files(a, b), Files(c, d)) :
     limit \in {0, 9}, a \in {-1, 0, 3, 4, 11}, b \in {-1, 1, 2, 5}, c \in {-1, 2, 6}, d \in {-1, 2, 3}}
    \cup {Server(8, Files(2, 2), Files(2, 2))}
NoServer == [Server(0, Files(-1, -1), Files(-1, -1)) EXCEPT !.pxenv = FALSE]
OddServers ==
  {NoServer, [Server(0, Files(1, 1), Files(1, 1)) EXCEPT !.pxe = FALSE],
   [Server(0, Files(1, 1), Files(1, 1)) EXCEPT !.version = 512]}

(* Boards: with the gate open, and closed with each way of opening it      *)
(* there, lying or missing.  Servers: with nothing to wait for.            *)
Board(open, bios, wired, query, fast, stale) ==
  [gate |-> open, bios |-> bios, wired |-> wired, query |-> query, fast |-> fast,
   stale |-> stale]
OpenBoard == Board(TRUE, "refuses", FALSE, FALSE, "dead", {})
SomeBoards ==
  {Board(FALSE, bios, wired, query, fast, stale) :
     bios \in {"opens", "refuses", "lies"}, wired \in BOOLEAN, query \in BOOLEAN,
     fast \in {"opens", "dead", "set"}, stale \in SUBSET A!Bit}
OneServer == Server(0, Files(1, 1), Files(1, 1))

-----------------------------------------------------------------------------
Machine ==
  [platform |-> "bios", firmware |-> NoFirmware, video |-> NoVideo, new_mode |-> V!ZeroMode,
   cd |-> "none",
   request |-> NoRequest, host |-> NoHost, fdt |-> NoFdt,
   server |-> NoServer, long_mode |-> FALSE, board |-> OpenBoard]

A20Machines ==
  {[Machine EXCEPT !.platform = "pxe", !.server = OneServer, !.board = b] : b \in SomeBoards}

CdMachines == {[Machine EXCEPT !.cd = "sectors", !.request = r] : r \in SomeRequests}

FileMachines == {[Machine EXCEPT !.cd = "files"]}

PxeMachines(servers) ==
  {[Machine EXCEPT !.platform = "pxe", !.server = v, !.long_mode = l] :
     v \in servers, l \in BOOLEAN}

AtfMachines == {[Machine EXCEPT !.platform = "atf", !.host = OneHost, !.fdt = f] : f \in SomeFdts}

SomeMachines ==
  {[Machine EXCEPT !.firmware = f] : f \in SomeFirmwares}
    \cup {[Machine EXCEPT !.video = v] : v \in SomeVideos}
    \cup {[Machine EXCEPT !.video = Video(512, <<OneMode>>), !.new_mode = g] :
            g \in Uninitialized}
    \cup CdMachines \cup FileMachines
    \cup {[Machine EXCEPT !.platform = "atf", !.host = h] : h \in SomeHosts}
    \cup AtfMachines
    \cup PxeMachines(SomeServers \cup OddServers)
    \cup A20Machines
=============================================================================
