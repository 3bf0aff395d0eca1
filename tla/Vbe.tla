-------------------------------- MODULE Vbe --------------------------------
(***************************************************************************)
(* Choosing a video mode on the BIOS platform (bios/vbe.c): vbe_init asks  *)
(* the video BIOS for its modes, puts the ones it can use on a list, stops *)
(* at the first one of 32 bits that is wide enough, and switches to the    *)
(* mode new_mode holds then.                                               *)
(*                                                                         *)
(* Every int 0x10 is a step whose outcome the video BIOS chooses.  One     *)
(* variable new_mode serves all modes, so that a mode that is skipped      *)
(* leaves in it what was filled in so far.                                 *)
(***************************************************************************)
EXTENDS Integers, Sequences

CONSTANTS
  Videos,   \* the video adapters
  Garbage,  \* what new_mode may hold before anything is stored in it
  RampBits  \* what function 0x4F08 may answer

VARIABLES
  video,     \* the adapter: its VBE version and its modes
  vpc,       \* where vbe_init is
  new_mode,
  verdict,   \* what became of the mode in new_mode: "taken", put on the
             \* list; "skipped"; or "none", it is uninitialized (history)
  modes,     \* the list of modes
  palette,   \* the colour registers, or <<>>
  ramp,      \* bits_per_color
  fb         \* the mode fb_init was called with, or NoMode

vars == <<video, vpc, new_mode, verdict, modes, palette, ramp, fb>>

(* A mode as the VBE describes it (struct vbe_mode_info), its flags as     *)
(* sets of names, the two sets of colour fields under "masks".             *)
Fields == [red : Nat \X Nat, green : Nat \X Nat, blue : Nat \X Nat]
Attribute == {"supported", "extended", "color", "not_vga", "linear"}
Window == [attr : SUBSET {"supported", "readable", "writeable"}, seg : Nat]
ModeInfo ==
  [id : Nat, attributes : SUBSET Attribute, ramp_programmable : BOOLEAN,
   window_a : Window, window_b : Window, window_size : Nat,
   bytes_per_scanline : Nat, lin_bytes_per_scanline : Nat,
   width : Nat, height : Nat, memory_planes : Nat, bpp : Nat,
   memory_model : {"text", "planar", "packed", "direct"},
   masks : Fields, lin_masks : Fields, lfb_address : Nat]

(* struct mode_info.  A field is a pair of its size and its position.      *)
NoFields == [red |-> <<0, 0>>, green |-> <<0, 0>>, blue |-> <<0, 0>>]
ZeroMode == [id |-> 0, use_lfb |-> FALSE, type |-> "direct", vga |-> FALSE,
             width |-> 0, height |-> 0, depth |-> 0, bytes_per_scanline |-> 0,
             masks |-> NoFields, lfb_address |-> 0]
NoMode == [ZeroMode EXCEPT !.type = "none"]

(* vesa_defined_modes, from 0x100 on: width, height, bpp.                  *)
vesa_defined_modes ==
  << <<640, 400, 8>>, <<640, 480, 8>>, <<800, 600, 4>>, <<800, 600, 8>>,
     <<1024, 768, 4>>, <<1024, 768, 8>>, <<1280, 1024, 4>>, <<1280, 1024, 8>>,
     <<80, 60, 0>>, <<132, 25, 0>>, <<132, 43, 0>>, <<132, 50, 0>>, <<132, 60, 0>>,
     <<320, 200, 15>>, <<320, 200, 16>>, <<320, 200, 24>>,
     <<640, 480, 15>>, <<640, 480, 16>>, <<640, 480, 24>>,
     <<800, 600, 15>>, <<800, 600, 16>>, <<800, 600, 24>>,
     <<1024, 768, 15>>, <<1024, 768, 16>>, <<1024, 768, 24>>,
     <<1280, 1024, 15>>, <<1280, 1024, 16>>, <<1280, 1024, 24>> >>

vga_modes == <<[ZeroMode EXCEPT !.id = 3, !.type = "text", !.width = 80,
                !.height = 25, !.bytes_per_scanline = 160,
                !.lfb_address = 753664]>>

-----------------------------------------------------------------------------
(* The tests of the loop, in its order.                                    *)
Displayable(info) == {"supported", "color"} \subseteq info.attributes

Predefined(v, info) == v < 258 /\ "extended" \notin info.attributes

Number(info) == info.id - 255

HasShape(v, info) ==
  IF Predefined(v, info)
  THEN /\ Number(info) \in DOMAIN vesa_defined_modes
       /\ vesa_defined_modes[Number(info)][3] # 4
  ELSE /\ info.memory_planes = 1
       /\ info.memory_model \in {"text", "packed", "direct"}
       /\ info.memory_model = "text" \/ info.bpp \in {8, 15, 16, 24, 32}

(* What is known of every mode, and then its shape.                        *)
Outline(info) ==
  [ZeroMode EXCEPT !.id = info.id, !.vga = TRUE,
                   !.bytes_per_scanline = info.bytes_per_scanline]

Shaped(v, info) ==
  IF Predefined(v, info)
  THEN LET d == vesa_defined_modes[Number(info)]
       IN [Outline(info) EXCEPT !.width = d[1], !.height = d[2], !.depth = d[3],
             !.type = IF d[3] = 0 THEN "text" ELSE "packed"]
  ELSE [Outline(info) EXCEPT !.width = info.width, !.height = info.height,
          !.depth = IF info.memory_model = "text" THEN 0 ELSE info.bpp,
          !.type = info.memory_model, !.vga = "not_vga" \notin info.attributes]

(* A palette is needed that nobody can set.                                *)
RampMissing(v, info) ==
  LET m == Shaped(v, info)
  IN /\ ~Predefined(v, info) /\ ~m.vga /\ m.depth = 8 /\ m.type = "packed"
     /\ ~info.ramp_programmable

PackedFields(depth) ==
  CASE depth = 8  -> [red |-> <<3, 5>>, green |-> <<3, 2>>, blue |-> <<2, 0>>]
    [] depth = 15 -> [red |-> <<5, 10>>, green |-> <<5, 5>>, blue |-> <<5, 0>>]
    [] depth = 16 -> [red |-> <<5, 11>>, green |-> <<6, 5>>, blue |-> <<5, 0>>]
    [] depth \in {24, 32} ->
         [red |-> <<8, 16>>, green |-> <<8, 8>>, blue |-> <<8, 0>>]

Coloured(v, info) ==
  LET m == Shaped(v, info)
  IN [m EXCEPT !.depth = IF @ = 15 THEN 16 ELSE @,
               !.masks = CASE m.type = "direct" -> info.masks
                           [] m.type = "packed" -> PackedFields(m.depth)
                           [] m.type = "text"   -> NoFields]

(* Mutant of Linear: a VBE below 2.0, which has no such address, is asked. *)
LinearAlways(v, info) == "linear" \in info.attributes

Linear(v, info) == v >= 512 /\ "linear" \in info.attributes

Flat(v, info) ==
  LET m == Coloured(v, info)
  IN [m EXCEPT !.use_lfb = TRUE, !.lfb_address = info.lfb_address,
        !.bytes_per_scanline = IF v >= 768 THEN info.lin_bytes_per_scanline ELSE @,
        !.masks = IF v >= 768 /\ m.type = "direct" THEN info.lin_masks ELSE @]

(* The windows in the order of preference; window_size is in KiB and is    *)
(* compared with a number of bytes.                                        *)
Full(w)    == w.attr = {"supported", "readable", "writeable"} /\ w.seg # 0
Shifted(w) == "supported" \notin w.attr /\ w.seg # 0

WindowSegment(info) ==
  CASE Full(info.window_a) -> info.window_a.seg
    [] ~Full(info.window_a) /\ Full(info.window_b) -> info.window_b.seg
    [] ~Full(info.window_a) /\ ~Full(info.window_b) /\ Shifted(info.window_a) ->
         info.window_a.seg
    [] OTHER -> IF Shifted(info.window_b) THEN info.window_b.seg ELSE 0

FitsWindow(m, info) == m.height * m.bytes_per_scanline <= info.window_size

Examined(v, info) ==
  LET skip(m) == [mode |-> m, taken |-> FALSE]
      take(m) == [mode |-> m, taken |-> TRUE]
      m == Coloured(v, info)
  IN IF ~Displayable(info) THEN skip(ZeroMode)
     ELSE IF ~HasShape(v, info) THEN skip(Outline(info))
     ELSE IF RampMissing(v, info) THEN skip(Shaped(v, info))
     ELSE IF Linear(v, info) THEN take(Flat(v, info))
     ELSE IF ~FitsWindow(m, info) \/ WindowSegment(info) = 0 THEN skip(m)
     ELSE take([m EXCEPT !.lfb_address = WindowSegment(info) * 16])

-----------------------------------------------------------------------------
Begin ==
  /\ vpc = <<"card", 0>> /\ verdict = "none"
  /\ modes = <<>> /\ palette = <<>> /\ ramp = 6 /\ fb = NoMode

Init == video \in Videos /\ new_mode \in Garbage /\ Begin

Goto(label, n) == vpc' = <<label, n>>
Return == Goto("returned", 0)
Switching == <<palette, ramp, fb>>

CheckCard ==
  /\ vpc[1] = "card"
  /\ \/ video.vga /\ Goto("info", 0) /\ modes' = vga_modes
     \/ ~video.vga /\ Return /\ UNCHANGED modes
  /\ UNCHANGED <<video, new_mode, verdict, Switching>>

GetInfo ==
  /\ vpc[1] = "info"
  /\ IF video.signature = "VESA" THEN Goto("mode", 1) ELSE Return
  /\ UNCHANGED <<video, new_mode, verdict, modes, Switching>>

(* The BIOS cannot describe modes, or not this one.                        *)
ModeUnsupported ==
  /\ vpc[1] = "mode" /\ vpc[2] <= Len(video.modes) /\ Return
  /\ UNCHANGED <<video, new_mode, verdict, modes, Switching>>

ModeUnsuccessful ==
  /\ vpc[1] = "mode" /\ vpc[2] <= Len(video.modes)
  /\ Goto("mode", vpc[2] + 1)
  /\ UNCHANGED <<video, new_mode, verdict, modes, Switching>>

Enough(m) == m.width > 700 /\ m.depth = 32

(* The mode is copied over the list entry's links and what follows them,   *)
(* not into the entry's mode: its fields are not where they should be.     *)
Entry(m) == <<"shifted", m>>

GetMode ==
  /\ vpc[1] = "mode" /\ vpc[2] <= Len(video.modes)
  /\ LET x == Examined(video.version, video.modes[vpc[2]])
     IN /\ new_mode' = x.mode /\ verdict' = IF x.taken THEN "taken" ELSE "skipped"
        /\ \/ ~x.taken /\ Goto("mode", vpc[2] + 1) /\ UNCHANGED modes
           \/ x.taken /\ Return /\ UNCHANGED modes  \* malloc failed
           \/ /\ x.taken /\ modes' = <<Entry(x.mode)>> \o modes
              /\ IF Enough(x.mode) THEN Goto("set", 0) ELSE Goto("mode", vpc[2] + 1)
  /\ UNCHANGED <<video, Switching>>

EndOfModes ==
  /\ vpc[1] = "mode" /\ vpc[2] > Len(video.modes) /\ Goto("set", 0)
  /\ UNCHANGED <<video, new_mode, verdict, modes, Switching>>

-----------------------------------------------------------------------------
(* vbe_switch_mode(new_mode).                                              *)
Indexed(m) == m.depth = 8 /\ m.type = "packed"

SetMode ==
  /\ vpc[1] = "set"
  /\ \/ Return /\ UNCHANGED fb
     \/ Indexed(new_mode) /\ Goto("ramp", 0) /\ UNCHANGED fb
     \/ ~Indexed(new_mode) /\ Return /\ fb' = new_mode
  /\ UNCHANGED <<video, new_mode, verdict, modes, palette, ramp>>

GetRamp ==
  /\ vpc[1] = "ramp" /\ Goto("palette", 0)
  /\ ramp' \in {6} \cup RampBits
  /\ UNCHANGED <<video, new_mode, verdict, modes, palette, fb>>

(* The level of field f of pixel i: moved to the top of a byte, and down   *)
(* to the width of the colour registers.                                   *)
LevelLow(i, f, bits) == (i \div 2^f[2]) % 2^f[1]   \* mutant of Level: not moved

Level(i, f, bits) ==
  ((((i \div 2^f[2]) % 2^f[1]) * 2^(8 - f[1])) % 256) \div 2^(8 - bits)

Colours(m, bits) ==
  [i \in 0 .. 255 |-> <<Level(i, m.masks.red, bits), Level(i, m.masks.green, bits),
                        Level(i, m.masks.blue, bits)>>]

(* By the VGA's ports, or by the BIOS, which may fail.                     *)
SetPalette ==
  /\ vpc[1] = "palette" /\ Return
  /\ \/ palette' = Colours(new_mode, ramp) /\ fb' = new_mode
     \/ ~new_mode.vga /\ UNCHANGED <<palette, fb>>
  /\ UNCHANGED <<video, new_mode, verdict, modes, ramp>>

Next ==
  \/ CheckCard \/ GetInfo \/ ModeUnsupported \/ ModeUnsuccessful \/ GetMode
  \/ EndOfModes \/ SetMode \/ GetRamp \/ SetPalette

Spec == Init /\ [][Next]_vars

Ended == vpc[1] = "returned"

-----------------------------------------------------------------------------
InfoOf(m) == CHOOSE info \in {video.modes[i] : i \in DOMAIN video.modes} :
               info.id = m.id

(* The console draws where the mode is.  If the last mode described was    *)
(* taken, the address and the length of a line fb_init was given are those *)
(* of the linear frame buffer exactly when the mode was set with one, and  *)
(* otherwise those of a window of the adapter that the whole screen fits   *)
(* in.  If it was skipped, the console is given no address.  Nothing is    *)
(* said of a new_mode nothing was ever stored in.                          *)
ConsoleOnScreen ==
  fb # NoMode =>
    /\ verdict = "taken" =>
         LET info == InfoOf(fb)
         IN IF fb.use_lfb
            THEN /\ video.version >= 512 /\ "linear" \in info.attributes
                 /\ fb.lfb_address = info.lfb_address
                 /\ fb.bytes_per_scanline = IF video.version >= 768
                      THEN info.lin_bytes_per_scanline ELSE info.bytes_per_scanline
            ELSE /\ fb.lfb_address \in {16 * info.window_a.seg, 16 * info.window_b.seg} \ {0}
                 /\ fb.bytes_per_scanline = info.bytes_per_scanline
                 /\ fb.height * fb.bytes_per_scanline <= 1024 * info.window_size
    /\ verdict = "skipped" => ~fb.use_lfb /\ fb.lfb_address = 0

(* "no planar modes supported", and likewise the other modes the loop goes *)
(* past: vbe_init does not switch to a mode it skipped.                    *)
SkippedNotSet == fb # NoMode => verdict # "skipped"

(* With a palette, in a mode that was taken, the pixel the console         *)
(* composes from the fields of a colour is shown in that colour: the top   *)
(* bits of each colour register are the field, at whatever width the BIOS  *)
(* says the registers have.                                                *)
PixelsShowColours ==
  fb # NoMode /\ verdict = "taken" /\ Indexed(fb) =>
    \A r, g \in 0 .. 7, b \in 0 .. 3 :
      LET c == palette[r * 2^fb.masks.red[2] + g * 2^fb.masks.green[2]
                         + b * 2^fb.masks.blue[2]]
      IN /\ c[1] \div 2^(ramp - 3) = r /\ c[2] \div 2^(ramp - 3) = g
         /\ c[3] \div 2^(ramp - 2) = b

=============================================================================
