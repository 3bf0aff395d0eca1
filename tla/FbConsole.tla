----------------------------- MODULE FbConsole -----------------------------
(***************************************************************************)
(* The framebuffer console (bal/device/fb/fb.c).                           *)
(*                                                                         *)
(* Text is drawn into a back buffer used as a circular buffer of character *)
(* lines, and the lines marked dirty are copied to the display at the end  *)
(* of fb_write.  If malloc had no memory for the back buffer, text is      *)
(* drawn into the display itself.                                          *)
(*                                                                         *)
(* The struct fb_dev is the record fb.  A buffer is a function from pixel  *)
(* rows to what each character column shows in that row: the background,   *)
(* or row j of the glyph of character c.  Colours and depths do not        *)
(* matter: the four fb_write_char_depth functions draw the same rows.      *)
(***************************************************************************)
EXTENDS Integers, Sequences

CONSTANTS
  font_height,
  MaxWidth,       \* max_width, cur_mode.width / font_width
  Height,         \* cur_mode.height, in pixel rows
  TabStop,        \* 8
  Chars,          \* the printable characters
  Background,     \* a pixel row of a cell in the background colour
  MaxChars        \* bound on the characters written

ASSUME FontAssumption   == font_height \in Nat \ {0}
ASSUME WidthAssumption  == MaxWidth \in Nat \ {0} /\ TabStop \in Nat \ {0}
ASSUME HeightAssumption == Height \in Nat /\ Height >= font_height
ASSUME BoundAssumption  == MaxChars \in Nat
ASSUME BackgroundAssumption ==
  Background \notin Chars \X (0 .. font_height - 1)

MaxHeight == Height \div font_height

VARIABLES
  fb,       \* the device
  writing,  \* fb_write is under way
  count     \* characters written

vars == <<fb, writing, count>>

Columns == 0 .. MaxWidth - 1
Lines   == 0 .. MaxHeight - 1
BackRows  == 0 .. MaxHeight * font_height - 1
FrontRows == 0 .. Height - 1

Row == [Columns -> {Background} \cup (Chars \X (0 .. font_height - 1))]
BlankRow == [col \in Columns |-> Background]
NoBuffer == <<>>

(* struct fb_dev.                                                          *)
Device == [back : {NoBuffer} \cup [BackRows -> Row], front : [FrontRows -> Row],
           back_buffer_start : Lines, contig : BOOLEAN,
           cur_x : Columns, cur_y : Lines,
           front_dirty_start : Lines, front_dirty_end : 0 .. MaxHeight]

Buffered(d) == d.back # NoBuffer

(* The n pixel rows of buf from row a on are cleared, or replaced by those *)
(* of src from row b on.                                                   *)
Cleared(buf, a, n) ==
  [r \in DOMAIN buf |-> IF a <= r /\ r < a + n THEN BlankRow ELSE buf[r]]

Copied(buf, a, n, src, b) ==
  [r \in DOMAIN buf |-> IF a <= r /\ r < a + n THEN src[r - a + b] ELSE buf[r]]

-----------------------------------------------------------------------------
(* Where fb_write_char_depth draws: the buffer line of the cursor.         *)
DrawLine(d) ==
  IF Buffered(d) THEN (d.cur_y + d.back_buffer_start) % MaxHeight ELSE d.cur_y

Drawn(buf, line, x, c) ==
  [r \in DOMAIN buf |->
     IF line * font_height <= r /\ r < (line + 1) * font_height
     THEN [buf[r] EXCEPT ![x] = <<c, r - line * font_height>>]
     ELSE buf[r]]

fb_write_char_depth(d, c) ==
  IF Buffered(d) THEN [d EXCEPT !.back = Drawn(@, DrawLine(d), d.cur_x, c)]
  ELSE [d EXCEPT !.front = Drawn(@, DrawLine(d), d.cur_x, c)]

(* Mutant of fb_line_dirty: the dirty lines start at the newest one.       *)
fb_line_dirty_newest(d, line) ==
  [d EXCEPT !.front_dirty_start = line,
            !.front_dirty_end = IF @ <= line THEN line + 1 ELSE @]

fb_line_dirty(d, line) ==
  [d EXCEPT
     !.front_dirty_start = IF @ > line THEN line ELSE @,
     !.front_dirty_end = IF @ <= line THEN line + 1 ELSE @]

(* Mutant of fb_scroll: scrolling leaves the dirty lines as they are.      *)
fb_scroll_clean(d) ==
  IF Buffered(d)
  THEN [d EXCEPT
          !.back = Cleared(@, d.back_buffer_start * font_height, font_height),
          !.back_buffer_start = (@ + 1) % MaxHeight]
  ELSE [d EXCEPT !.front = Cleared(Copied(@, 0, Height - font_height, @, font_height),
                                   Height - font_height, font_height)]

(* One line up.  In the display itself, contiguous scanlines are moved up  *)
(* to the bottom of the display, others up to the last character line.     *)
fb_scroll(d) ==
  IF Buffered(d)
  THEN [d EXCEPT
          !.back = Cleared(@, d.back_buffer_start * font_height, font_height),
          !.back_buffer_start = (@ + 1) % MaxHeight,
          !.front_dirty_start = 0, !.front_dirty_end = MaxHeight]
  ELSE LET rows == IF d.contig THEN Height ELSE MaxHeight * font_height
           up   == Copied(d.front, 0, rows - font_height, d.front, font_height)
       IN [d EXCEPT !.front = Cleared(up, rows - font_height, font_height)]

LineFeed(d) ==
  IF d.cur_y = MaxHeight - 1 THEN fb_scroll(d) ELSE [d EXCEPT !.cur_y = @ + 1]

(***************************************************************************)
(* fb_render: the copies of character lines it makes.  With start < end    *)
(* the scanline-wise copy adds start a second time to both lines.          *)
(***************************************************************************)
Copy(to, from, lines) == [to |-> to, from |-> from, lines |-> lines]

Copies(d) ==
  LET dirty == d.front_dirty_start
      start == (dirty + d.back_buffer_start) % MaxHeight
      end   == (d.front_dirty_end + d.back_buffer_start) % MaxHeight
      rest  == MaxHeight - d.back_buffer_start
  IN IF ~Buffered(d) \/ d.front_dirty_end <= dirty THEN <<>>
     ELSE IF start < end
     THEN IF d.contig THEN <<Copy(dirty, start, end - start)>>
          ELSE <<Copy(dirty + start, start + start, end - start)>>
     ELSE <<Copy(dirty, start, rest), Copy(dirty + rest, 0, end)>>

CopyOne(d, c) ==
  [d EXCEPT !.front = Copied(@, c.to * font_height, c.lines * font_height,
                             d.back, c.from * font_height)]

fb_render(d) ==
  LET c == Copies(d)
  IN CASE Len(c) = 0 -> d
       [] Len(c) = 1 -> CopyOne(d, c[1])
       [] Len(c) = 2 -> CopyOne(CopyOne(d, c[1]), c[2])

-----------------------------------------------------------------------------
(* fb_init and fb_clear_buffers.  malloc may fail; scanlines may be padded.*)
Init ==
  /\ \E back \in {NoBuffer, [r \in BackRows |-> BlankRow]}, contig \in BOOLEAN :
       fb = [back |-> back, front |-> [r \in FrontRows |-> BlankRow],
             back_buffer_start |-> 0, contig |-> contig, cur_x |-> 0, cur_y |-> 0,
             front_dirty_start |-> 0, front_dirty_end |-> 0]
  /\ writing = FALSE /\ count = 0

Begin == ~writing /\ writing' = TRUE /\ UNCHANGED <<fb, count>>

(* One round of the loop of fb_write.                                      *)
Writes == writing /\ count < MaxChars /\ count' = count + 1 /\ UNCHANGED writing

Newline == Writes /\ fb' = [LineFeed(fb) EXCEPT !.cur_x = 0]

Return == Writes /\ fb' = [fb EXCEPT !.cur_x = 0]

(* Mutant of Tab: the cursor is left past the right margin.                *)
TabUnbounded ==
  Writes /\ fb' = [fb EXCEPT !.cur_x = @ + (TabStop - (@ % TabStop))]

Tab ==
  LET x == fb.cur_x + (TabStop - (fb.cur_x % TabStop))
  IN Writes /\ fb' = [fb EXCEPT !.cur_x = IF x >= MaxWidth THEN MaxWidth - 1 ELSE x]

Put(c) ==
  LET drawn == fb_line_dirty(fb_write_char_depth(fb, c), fb.cur_y)
  IN /\ Writes
     /\ fb' = IF fb.cur_x + 1 = MaxWidth
              THEN LineFeed([drawn EXCEPT !.cur_x = 0])
              ELSE [drawn EXCEPT !.cur_x = @ + 1]

(* The end of fb_write.                                                    *)
Render == writing /\ writing' = FALSE /\ fb' = fb_render(fb) /\ UNCHANGED count

Next == Begin \/ Newline \/ Return \/ Tab \/ (\E c \in Chars : Put(c)) \/ Render

Spec == Init /\ [][Next]_vars

-----------------------------------------------------------------------------
(* Types: the cursor, the start of the circular buffer and the dirty lines *)
(* are lines and columns of the screen.                                    *)
TypeOK ==
  /\ fb \in Device
  /\ writing \in BOOLEAN
  /\ count \in Nat

(* Whatever was written and scrolled, the copies that fb_render would make *)
(* now stay inside both buffers.  Its wrapped copy has the right length    *)
(* only if the dirty lines start at 0, and its scanline-wise copy only if  *)
(* the buffer was not scrolled.                                            *)
InBounds ==
  \A i \in DOMAIN Copies(fb) :
    LET c == Copies(fb)[i]
    IN /\ 0 <= c.to /\ c.to + c.lines <= MaxHeight
       /\ 0 <= c.from /\ c.from + c.lines <= MaxHeight
       /\ 0 <= c.lines

(* What the pixel rows of a cell show; Garbled if they mix glyphs.         *)
Blank   == "blank"
Garbled == "garbled"
GlyphRows == 0 .. font_height - 1

Glyph(pix) ==
  IF \A j \in GlyphRows : pix[j] = Background THEN Blank
  ELSE IF \E c \in Chars : \A j \in GlyphRows : pix[j] = <<c, j>>
  THEN CHOOSE c \in Chars : pix[0] = <<c, 0>>
  ELSE Garbled

CellOf(buf, line, col) ==
  Glyph([j \in GlyphRows |-> buf[line * font_height + j][col]])

(* What a buffer shows as text, from its line first on, and the text       *)
(* written so far.                                                         *)
Text(buf, first) ==
  [l \in Lines |->
     [col \in Columns |-> CellOf(buf, (l + first) % MaxHeight, col)]]

Grid(d) ==
  IF Buffered(d) THEN Text(d.back, d.back_buffer_start) ELSE Text(d.front, 0)

(* The console is a text screen: the circular back buffer always holds the *)
(* text written so far, scrolled as it should be, and when fb_write        *)
(* returns the display shows all of it.                                    *)
TS == INSTANCE TextScreen WITH
        cells <- Grid(fb), x <- fb.cur_x, y <- fb.cur_y, shown <- Text(fb.front, 0)
ImplementsTextScreen == TS!Spec

=============================================================================
