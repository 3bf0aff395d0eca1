--------------------------- MODULE FbConsoleProofs ---------------------------
(***************************************************************************)
(* The framebuffer console keeps its types, fb_render stays inside its     *)
(* buffers and what is written appears on the screen, for every screen     *)
(* size, font height and number of characters.                             *)
(***************************************************************************)
EXTENDS FbConsole, TLAPS

-----------------------------------------------------------------------------
(* Remainders: of a small number, of one that wrapped once, of any.        *)
LEMMA ModSmall ==
  ASSUME NEW n \in Nat \ {0}, NEW a \in 0 .. n - 1
  PROVE  a % n = a
  OBVIOUS

LEMMA ModWrap ==
  ASSUME NEW n \in Nat \ {0}, NEW a \in 0 .. n - 1
  PROVE  (n + a) % n = a
  OBVIOUS

LEMMA ModRange ==
  ASSUME NEW n \in Nat \ {0}, NEW a \in Nat
  PROVE  a % n \in 0 .. n - 1
  OBVIOUS

(* A multiple of the font height of fewer lines is smaller.                *)
LEMMA Scale ==
  ASSUME NEW h \in Nat, NEW a \in Int, NEW b \in Int, a <= b
  PROVE  a * h <= b * h
  OBVIOUS

(* The screen has a line, and its lines fit on the display.                *)
LEMMA Screen ==
  MaxHeight \in Nat \ {0} /\ MaxHeight * font_height <= Height
  BY FontAssumption, HeightAssumption DEF MaxHeight

LEMMA Ends == 0 \in Lines /\ 0 \in 0 .. MaxHeight /\ MaxHeight \in 0 .. MaxHeight
  BY Screen DEF Lines

-----------------------------------------------------------------------------
(* Clearing, copying and drawing make buffers of pixel rows.               *)
LEMMA BlankRowType == BlankRow \in Row
  BY DEF BlankRow, Row

LEMMA ClearedType ==
  ASSUME NEW S, NEW buf \in [S -> Row], NEW a, NEW n
  PROVE  Cleared(buf, a, n) \in [S -> Row]
  BY BlankRowType DEF Cleared

LEMMA CopiedType ==
  ASSUME NEW S, NEW T, NEW buf \in [S -> Row], NEW src \in [T -> Row],
         NEW a, NEW n, NEW b,
         \A r \in S : a <= r /\ r < a + n => r - a + b \in T
  PROVE  Copied(buf, a, n, src, b) \in [S -> Row]
  BY DEF Copied

LEMMA DrawnType ==
  ASSUME NEW h \in Nat, NEW buf \in [0 .. h - 1 -> Row], NEW line \in Nat,
         NEW x \in Columns, NEW c \in Chars
  PROVE  Drawn(buf, line, x, c) \in [0 .. h - 1 -> Row]
<1>1. line * font_height \in Int /\ (line + 1) * font_height = line * font_height + font_height
  BY FontAssumption
<1>2. ASSUME NEW r \in 0 .. h - 1,
             line * font_height <= r /\ r < (line + 1) * font_height
      PROVE  [buf[r] EXCEPT ![x] = <<c, r - line * font_height>>] \in Row
  <2>1. r - line * font_height \in 0 .. font_height - 1
    BY <1>1, <1>2, FontAssumption
  <2>2. <<c, r - line * font_height>> \in Chars \X (0 .. font_height - 1)
    BY <2>1
  <2> QED BY <2>2 DEF Row
<1> QED BY <1>2 DEF Drawn

-----------------------------------------------------------------------------
(* The inductive invariant.  front_dirty_start never leaves 0, because     *)
(* fb_clear_buffers sets it and fb_line_dirty only lowers it; and once the *)
(* circular buffer has been scrolled, all lines are dirty for good.        *)
Dirty(d) ==
  /\ d.front_dirty_start = 0
  /\ d.back_buffer_start > 0 => d.front_dirty_end = MaxHeight

IInv == TypeOK /\ Dirty(fb)

LEMMA ScrollKeeps ==
  ASSUME NEW d \in Device, Dirty(d)
  PROVE  fb_scroll(d) \in Device /\ Dirty(fb_scroll(d))
<1>1. CASE Buffered(d)
  <2> DEFINE b == Cleared(d.back, d.back_buffer_start * font_height, font_height)
             s == (d.back_buffer_start + 1) % MaxHeight
  <2>1. b \in [BackRows -> Row]
    BY <1>1, ClearedType DEF Buffered, Device
  <2>2. s \in Lines
    <3>1. d.back_buffer_start + 1 \in Nat
      BY DEF Device, Lines
    <3> QED BY <3>1, ModRange, Screen DEF Lines
  <2>3. fb_scroll(d) = [d EXCEPT !.back = b, !.back_buffer_start = s,
                                 !.front_dirty_start = 0,
                                 !.front_dirty_end = MaxHeight]
    BY <1>1 DEF fb_scroll, Device
  <2> HIDE DEF b, s
  <2>4. fb_scroll(d) \in Device
    BY <2>1, <2>2, <2>3, Ends DEF Device
  <2>5. Dirty(fb_scroll(d))
    BY <2>3 DEF Device, Dirty
  <2> QED BY <2>4, <2>5
<1>2. CASE ~Buffered(d)
  <2> DEFINE rows == IF d.contig THEN Height ELSE MaxHeight * font_height
             up == Copied(d.front, 0, rows - font_height, d.front, font_height)
             f == Cleared(up, rows - font_height, font_height)
  <2>1. rows \in Int /\ rows <= Height
    BY Screen, FontAssumption, HeightAssumption
  <2>2. up \in [FrontRows -> Row]
    <3> HIDE DEF rows
    <3> SUFFICES ASSUME NEW r \in FrontRows, 0 <= r, r < 0 + (rows - font_height)
                 PROVE  r - 0 + font_height \in FrontRows
      BY CopiedType DEF Device
    <3> QED BY <2>1, FontAssumption, HeightAssumption DEF FrontRows
  <2>3. f \in [FrontRows -> Row]
    BY <2>2, ClearedType
  <2>4. fb_scroll(d) = [d EXCEPT !.front = f]
    BY <1>2 DEF fb_scroll
  <2> QED BY <2>3, <2>4 DEF Device, Dirty
<1> QED BY <1>1, <1>2

LEMMA LineFeedKeeps ==
  ASSUME NEW d \in Device, Dirty(d)
  PROVE  LineFeed(d) \in Device /\ Dirty(LineFeed(d))
<1>1. CASE d.cur_y = MaxHeight - 1
  BY <1>1, ScrollKeeps DEF LineFeed
<1>2. CASE d.cur_y # MaxHeight - 1
  BY <1>2, Screen DEF LineFeed, Device, Dirty, Lines
<1> QED BY <1>1, <1>2

LEMMA DrawKeeps ==
  ASSUME NEW d \in Device, Dirty(d), NEW c \in Chars
  PROVE  LET e == fb_line_dirty(fb_write_char_depth(d, c), d.cur_y)
         IN e \in Device /\ Dirty(e)
<1> DEFINE e == fb_write_char_depth(d, c)
<1>1. DrawLine(d) \in Nat
  BY ModRange, Screen DEF DrawLine, Device, Lines
<1>2. e \in Device /\ Dirty(e)
  <2>1. CASE Buffered(d)
    <3>1. Drawn(d.back, DrawLine(d), d.cur_x, c) \in [BackRows -> Row]
      BY <1>1, <2>1, DrawnType, Screen, FontAssumption DEF Buffered, Device, BackRows
    <3> QED BY <2>1, <3>1 DEF fb_write_char_depth, Device, Dirty
  <2>2. CASE ~Buffered(d)
    <3>1. Drawn(d.front, DrawLine(d), d.cur_x, c) \in [FrontRows -> Row]
      BY <1>1, <2>2, DrawnType, HeightAssumption DEF Device, FrontRows
    <3> QED BY <2>2, <3>1 DEF fb_write_char_depth, Device, Dirty
  <2> QED BY <2>1, <2>2
<1> HIDE DEF e
<1>3. d.cur_y \in Lines
  BY DEF Device
<1> DEFINE end == IF e.front_dirty_end <= d.cur_y THEN d.cur_y + 1
                  ELSE e.front_dirty_end
<1>4. end \in 0 .. MaxHeight /\ (e.front_dirty_end = MaxHeight => end = MaxHeight)
  BY <1>2, <1>3, Screen DEF Device, Lines
<1>5. fb_line_dirty(e, d.cur_y) = [e EXCEPT !.front_dirty_start = 0, !.front_dirty_end = end]
  <2>1. e.front_dirty_start = 0
    BY <1>2 DEF Dirty
  <2>2. (IF 0 > d.cur_y THEN d.cur_y ELSE 0) = 0
    BY <1>3, Screen DEF Lines
  <2> QED BY <2>1, <2>2 DEF fb_line_dirty
<1> HIDE DEF end
<1>6. fb_line_dirty(e, d.cur_y) \in Device
  BY <1>2, <1>4, <1>5, Ends DEF Device
<1>7. Dirty(fb_line_dirty(e, d.cur_y))
  BY <1>2, <1>4, <1>5 DEF Device, Dirty
<1> QED BY <1>6, <1>7 DEF e
-----------------------------------------------------------------------------
(* fb_render: with these dirty lines it makes no copy, or copies all of    *)
(* the first lines of an unscrolled buffer, or all lines in two parts.     *)
LEMMA CopiesFit ==
  ASSUME NEW d \in Device, Dirty(d)
  PROVE  /\ Len(Copies(d)) \in 0 .. 2
         /\ \A i \in DOMAIN Copies(d) :
              LET c == Copies(d)[i]
              IN /\ c.to \in Nat /\ c.from \in Nat /\ c.lines \in Nat
                 /\ c.to + c.lines <= MaxHeight
                 /\ c.from + c.lines <= MaxHeight
<1> USE Screen
<1> DEFINE s == d.back_buffer_start
           n == d.front_dirty_end
           rest == MaxHeight - s
<1>1. s \in Lines /\ n \in 0 .. MaxHeight /\ d.front_dirty_start = 0
  BY DEF Device, Dirty
<1>2. (0 + s) % MaxHeight = s
  BY <1>1, ModSmall DEF Lines
<1>3. CASE ~Buffered(d) \/ n <= 0
  <2>1. ~(0 < n) \/ ~Buffered(d)
    BY <1>1, <1>3
  <2>2. Copies(d) = <<>>
    BY <1>1, <2>1 DEF Copies
  <2> QED BY <2>2
<1>4. CASE Buffered(d) /\ n > 0 /\ n = MaxHeight
  <2>1. (n + s) % MaxHeight = s
    BY <1>1, <1>4, ModWrap DEF Lines
  <2>2. Copies(d) = <<Copy(0, s, rest), Copy(0 + rest, 0, s)>>
    <3>1. ~(s < s)
      BY <1>1 DEF Lines
    <3> QED BY <1>1, <1>2, <1>4, <2>1, <3>1 DEF Copies
  <2> QED BY <1>1, <2>2 DEF Copy, Lines
<1>5. CASE Buffered(d) /\ n > 0 /\ n # MaxHeight
  <2>1. s = 0
    BY <1>1, <1>5 DEF Dirty, Lines
  <2>2. (n + s) % MaxHeight = n
    BY <1>1, <1>5, <2>1, ModSmall
  <2>3. Copies(d) = <<Copy(0, 0, n)>>
    BY <1>1, <1>2, <1>5, <2>1, <2>2 DEF Copies
  <2> QED BY <1>1, <2>3 DEF Copy
<1> QED BY <1>1, <1>3, <1>4, <1>5

LEMMA CopyKeeps ==
  ASSUME NEW d \in Device, Dirty(d), Buffered(d),
         NEW c, c.to \in Nat, c.from \in Nat, c.lines \in Nat,
         c.to + c.lines <= MaxHeight, c.from + c.lines <= MaxHeight
  PROVE  CopyOne(d, c) \in Device /\ Dirty(CopyOne(d, c)) /\ Buffered(CopyOne(d, c))
<1> DEFINE a == c.to * font_height
           n == c.lines * font_height
           b == c.from * font_height
           f == Copied(d.front, a, n, d.back, b)
<1>1. a \in Nat /\ n \in Nat /\ b \in Nat /\ b + n <= MaxHeight * font_height
  <2>1. (c.from + c.lines) * font_height <= MaxHeight * font_height
    BY Scale, Screen, FontAssumption
  <2>2. (c.from + c.lines) * font_height = b + n
    BY FontAssumption
  <2> QED BY <2>1, <2>2, FontAssumption
<1>2. d.front \in [FrontRows -> Row] /\ d.back \in [BackRows -> Row]
  BY DEF Device, Buffered
<1> HIDE DEF a, n, b
<1>3. \A r \in FrontRows : a <= r /\ r < a + n => r - a + b \in BackRows
  BY <1>1, Screen, FontAssumption, HeightAssumption DEF FrontRows, BackRows
<1>4. f \in [FrontRows -> Row]
  BY <1>2, <1>3, CopiedType
<1>5. CopyOne(d, c) = [d EXCEPT !.front = f]
  BY DEF CopyOne, a, n, b
<1> HIDE DEF f
<1> QED BY <1>4, <1>5 DEF Device, Dirty, Buffered

LEMMA RenderKeeps ==
  ASSUME NEW d \in Device, Dirty(d)
  PROVE  fb_render(d) \in Device /\ Dirty(fb_render(d))
<1> DEFINE c == Copies(d)
<1>1. CASE Len(c) = 0
  BY <1>1 DEF fb_render
<1>2. CASE Len(c) # 0
  <2>1. Buffered(d)
    BY <1>2 DEF Copies
  <2>2. DOMAIN c = 1 .. Len(c) /\ Len(c) \in {1, 2}
    <3>1. Len(c) \in {1, 2}
      BY <1>2, CopiesFit
    <3>2. DOMAIN c = 1 .. Len(c)
      BY CopiesFit
    <3> QED BY <3>1, <3>2
  <2>3. CopyOne(d, c[1]) \in Device /\ Dirty(CopyOne(d, c[1])) /\ Buffered(CopyOne(d, c[1]))
    BY <2>1, <2>2, CopiesFit, CopyKeeps
  <2>4. CASE Len(c) = 1
    BY <2>3, <2>4 DEF fb_render
  <2>5. CASE Len(c) = 2
    <3>1. CopyOne(CopyOne(d, c[1]), c[2]) \in Device /\ Dirty(CopyOne(CopyOne(d, c[1]), c[2]))
      BY <2>2, <2>3, <2>5, CopiesFit, CopyKeeps
    <3> QED BY <2>5, <3>1 DEF fb_render
  <2> QED BY <2>2, <2>4, <2>5
<1> QED BY <1>1, <1>2

-----------------------------------------------------------------------------
(* IInv holds initially and every round of fb_write's loop, and the render *)
(* at its end, keeps it.                                                   *)
LEMMA InductiveInit == Init => IInv
<1> SUFFICES ASSUME Init PROVE IInv
  OBVIOUS
<1>1. 0 \in Lines /\ 0 \in Columns /\ 0 \in 0 .. MaxHeight
  BY Screen, WidthAssumption DEF Lines, Columns
<1>2. [r \in BackRows |-> BlankRow] \in [BackRows -> Row]
  BY BlankRowType
<1>3. [r \in FrontRows |-> BlankRow] \in [FrontRows -> Row]
  BY BlankRowType
<1>4. fb \in Device
  BY <1>1, <1>2, <1>3 DEF Init, Device
<1>5. Dirty(fb)
  BY DEF Init, Dirty
<1> QED BY <1>4, <1>5 DEF Init, IInv, TypeOK

LEMMA InductiveNext == IInv /\ [Next]_vars => IInv'
<1> SUFFICES ASSUME IInv, [Next]_vars PROVE IInv'
  OBVIOUS
<1> USE DEF IInv, TypeOK
<1>1. CASE UNCHANGED vars
  BY <1>1 DEF vars, Dirty
<1>2. CASE Begin
  BY <1>2 DEF Begin, Dirty
<1>3. CASE Newline
  <2>1. LineFeed(fb) \in Device /\ Dirty(LineFeed(fb))
    BY LineFeedKeeps
  <2>2. 0 \in Columns
    BY WidthAssumption DEF Columns
  <2>3. fb' \in Device /\ Dirty(fb')
    BY <1>3, <2>1, <2>2 DEF Newline, Device, Dirty
  <2> QED BY <1>3, <2>3 DEF Newline, Writes, Dirty
<1>4. CASE Return
  <2>1. 0 \in Columns
    BY WidthAssumption DEF Columns
  <2>2. fb' \in Device /\ Dirty(fb')
    BY <1>4, <2>1 DEF Return, Device, Dirty
  <2> QED BY <1>4, <2>2 DEF Return, Writes, Dirty
<1>5. CASE Tab
  <2> DEFINE x == fb.cur_x + (TabStop - (fb.cur_x % TabStop))
             z == IF x >= MaxWidth THEN MaxWidth - 1 ELSE x
  <2>1. fb.cur_x \in Nat
    BY DEF Device, Columns
  <2>2. fb.cur_x % TabStop \in 0 .. TabStop - 1
    BY <2>1, ModRange, WidthAssumption
  <2>3. z \in Columns
    BY <2>1, <2>2, WidthAssumption DEF Columns
  <2>4. fb' = [fb EXCEPT !.cur_x = z]
    BY <1>5 DEF Tab
  <2> HIDE DEF z
  <2>5. fb' \in Device /\ Dirty(fb')
    BY <2>3, <2>4 DEF Device, Dirty
  <2> QED BY <1>5, <2>5 DEF Tab, Writes, Dirty
<1>6. ASSUME NEW c \in Chars, Put(c) PROVE IInv'
  <2> DEFINE drawn == fb_line_dirty(fb_write_char_depth(fb, c), fb.cur_y)
  <2>1. drawn \in Device /\ Dirty(drawn)
    BY DrawKeeps
  <2>2. drawn.cur_x = fb.cur_x
    BY DEF fb_line_dirty, fb_write_char_depth, Device
  <2>3. fb' = IF fb.cur_x + 1 = MaxWidth THEN LineFeed([drawn EXCEPT !.cur_x = 0])
              ELSE [drawn EXCEPT !.cur_x = fb.cur_x + 1]
    BY <1>6, <2>1, <2>2 DEF Put, Device
  <2> HIDE DEF drawn
  <2>4. CASE fb.cur_x + 1 = MaxWidth
    <3>1. [drawn EXCEPT !.cur_x = 0] \in Device /\ Dirty([drawn EXCEPT !.cur_x = 0])
      BY <2>1, WidthAssumption DEF Device, Dirty, Columns
    <3>2. fb' \in Device /\ Dirty(fb')
      BY <2>3, <2>4, <3>1, LineFeedKeeps
    <3> QED BY <1>6, <3>2 DEF Put, Writes, Dirty
  <2>5. CASE fb.cur_x + 1 # MaxWidth
    <3>1. fb.cur_x + 1 \in Columns
      BY <2>5, WidthAssumption DEF Device, Columns
    <3>2. fb' \in Device /\ Dirty(fb')
      BY <2>1, <2>3, <2>5, <3>1 DEF Device, Dirty
    <3> QED BY <1>6, <3>2 DEF Put, Writes, Dirty
  <2> QED BY <2>4, <2>5
<1>7. CASE Render
  <2>1. fb' \in Device /\ Dirty(fb')
    BY <1>7, RenderKeeps DEF Render
  <2> QED BY <1>7, <2>1 DEF Render, Dirty
<1> QED BY <1>1, <1>2, <1>3, <1>4, <1>5, <1>6, <1>7 DEF Next

THEOREM Inductive == Spec => []IInv
  BY InductiveInit, InductiveNext, PTL DEF Spec

(* The cursor, the circular buffer's start and the dirty lines are on the  *)
(* screen and buffers hold pixel rows, for every screen and font size.     *)
THEOREM TypeCorrect == Spec => []TypeOK
<1>1. IInv => TypeOK
  BY DEF IInv
<1> QED BY <1>1, Inductive, PTL

(* fb_render never copies from or to memory outside its buffers, whatever  *)
(* was written before it, for every screen and font size.                  *)
THEOREM RenderInBounds == Spec => []InBounds
<1>1. IInv => InBounds
  <2> SUFFICES ASSUME IInv PROVE InBounds
    OBVIOUS
  <2>1. fb \in Device /\ Dirty(fb)
    BY DEF IInv, TypeOK
  <2> QED BY <2>1, CopiesFit DEF InBounds
<1> QED BY <1>1, Inductive, PTL

-----------------------------------------------------------------------------
(***************************************************************************)
(* The console as a text screen.  Cells are drawn, cleared and copied as a *)
(* whole, so a step is described by what it does to the lines of a buffer. *)
(***************************************************************************)

(* Pixel row j of line k is among those of line l only if k is l.          *)
LEMMA RowOfLine ==
  ASSUME NEW k \in Int, NEW l \in Int, NEW j \in GlyphRows
  PROVE  l * font_height <= k * font_height + j /\ k * font_height + j < (l + 1) * font_height
           <=> k = l
<1> USE FontAssumption DEF GlyphRows
<1>1. CASE k = l
  <2>1. (l + 1) * font_height = l * font_height + font_height
    OBVIOUS
  <2>2. l * font_height \in Int
    OBVIOUS
  <2> QED BY <1>1, <2>1, <2>2
<1>2. CASE k < l
  <2>1. (k + 1) * font_height <= l * font_height
    BY <1>2, Scale
  <2>2. (k + 1) * font_height = k * font_height + font_height
    OBVIOUS
  <2>3. k * font_height \in Int /\ l * font_height \in Int
    OBVIOUS
  <2> QED BY <1>2, <2>1, <2>2, <2>3
<1>3. CASE k > l
  <2>1. (l + 1) * font_height <= k * font_height
    BY <1>3, Scale
  <2>2. k * font_height \in Int /\ (l + 1) * font_height \in Int
    OBVIOUS
  <2> QED BY <1>3, <2>1, <2>2
<1> QED BY <1>1, <1>2, <1>3

(* The pixel rows of a line are rows of both buffers.                      *)
LEMMA RowsInside ==
  ASSUME NEW k \in Lines, NEW j \in GlyphRows
  PROVE  k * font_height + j \in BackRows /\ k * font_height + j \in FrontRows
<1> USE FontAssumption, Screen, HeightAssumption
<1>1. (k + 1) * font_height <= MaxHeight * font_height
  BY Scale DEF Lines
<1>2. (k + 1) * font_height = k * font_height + font_height
  BY DEF Lines
<1>3. k * font_height \in Nat
  BY DEF Lines
<1>4. k * font_height + j < MaxHeight * font_height
  BY <1>1, <1>2, <1>3 DEF GlyphRows
<1>5. MaxHeight * font_height \in Int
  OBVIOUS
<1> QED BY <1>3, <1>4, <1>5 DEF BackRows, FrontRows, GlyphRows

(* The lines of a circular buffer are all different.                       *)
LEMMA Around ==
  ASSUME NEW s \in Lines, NEW k \in Lines
  PROVE  /\ (k + s) % MaxHeight \in Lines
         /\ (k + s) % MaxHeight = IF k + s < MaxHeight THEN k + s ELSE k + s - MaxHeight
<1> USE Screen DEF Lines
<1>1. CASE k + s < MaxHeight
  BY <1>1, ModSmall
<1>2. CASE k + s >= MaxHeight
  <2>1. PICK a \in Int : a = k + s - MaxHeight
    OBVIOUS
  <2>2. a \in 0 .. MaxHeight - 1 /\ k + s = MaxHeight + a
    BY <1>2, <2>1
  <2>3. (MaxHeight + a) % MaxHeight = a
    BY <2>2, ModWrap
  <2> QED BY <1>2, <2>1, <2>2, <2>3
<1> QED BY <1>1, <1>2

-----------------------------------------------------------------------------
(* What pixel rows show.                                                   *)
LEMMA ShowsBlank == Glyph([j \in GlyphRows |-> Background]) = Blank
  BY DEF Glyph

LEMMA ShowsChar ==
  ASSUME NEW c \in Chars
  PROVE  Glyph([j \in GlyphRows |-> <<c, j>>]) = c
<1> DEFINE pix == [j \in GlyphRows |-> <<c, j>>]
<1>1. 0 \in GlyphRows
  BY FontAssumption DEF GlyphRows
<1>2. pix[0] # Background
  BY <1>1, BackgroundAssumption DEF GlyphRows
<1>3. \A j \in GlyphRows : pix[j] = <<c, j>>
  OBVIOUS
<1>4. (CHOOSE b \in Chars : pix[0] = <<b, 0>>) = c
  <2>1. \A b \in Chars : pix[0] = <<b, 0>> <=> b = c
    BY <1>1
  <2> HIDE DEF pix
  <2> QED BY <2>1
<1> HIDE DEF pix
<1>5. Glyph(pix) = c
  BY <1>1, <1>2, <1>3, <1>4 DEF Glyph
<1> QED BY <1>5 DEF pix

(* Column col of a line of one buffer looks like that of a line of another.*)
Same(buf, k, b, l, col) ==
  \A j \in GlyphRows : buf[k * font_height + j][col] = b[l * font_height + j][col]

LEMMA SameCell ==
  ASSUME NEW buf, NEW k, NEW b, NEW l, NEW col, Same(buf, k, b, l, col)
  PROVE  CellOf(buf, k, col) = CellOf(b, l, col)
<1>1. [j \in GlyphRows |-> buf[k * font_height + j][col]]
        = [j \in GlyphRows |-> b[l * font_height + j][col]]
  BY DEF Same
<1> QED BY <1>1 DEF CellOf

LEMMA CellBlank ==
  ASSUME NEW buf, NEW k, NEW col \in Columns,
         \A j \in GlyphRows : buf[k * font_height + j] = BlankRow
  PROVE  CellOf(buf, k, col) = Blank
<1>1. [j \in GlyphRows |-> buf[k * font_height + j][col]] = [j \in GlyphRows |-> Background]
  BY DEF BlankRow
<1> QED BY <1>1, ShowsBlank DEF CellOf

-----------------------------------------------------------------------------
(* A buffer that covers the lines of the screen.                           *)
Covers(S) == \A k \in Lines, j \in GlyphRows : k * font_height + j \in S

LEMMA DrawnCells ==
  ASSUME NEW S, Covers(S), NEW buf \in [S -> Row], NEW line \in Lines, NEW x \in Columns,
         NEW c \in Chars, NEW k \in Lines, NEW col \in Columns
  PROVE  CellOf(Drawn(buf, line, x, c), k, col)
           = IF k = line /\ col = x THEN c ELSE CellOf(buf, k, col)
<1> DEFINE new == Drawn(buf, line, x, c)
<1>0. k \in Int /\ line \in Int
  BY DEF Lines
<1>1. ASSUME NEW j \in GlyphRows
      PROVE  new[k * font_height + j][col] = IF k = line /\ col = x THEN <<c, j>>
                                             ELSE buf[k * font_height + j][col]
  <2> DEFINE r == k * font_height + j
  <2>1. r \in S
    BY DEF Covers
  <2>2. line * font_height <= r /\ r < (line + 1) * font_height <=> k = line
    BY <1>0, RowOfLine
  <2>3. k = line => r - line * font_height = j
    BY <1>0, FontAssumption DEF GlyphRows
  <2>4. buf[r] \in Row
    BY <2>1
  <2> HIDE DEF r
  <2>5. new[r] = IF k = line THEN [buf[r] EXCEPT ![x] = <<c, j>>] ELSE buf[r]
    BY <2>1, <2>2, <2>3 DEF Drawn
  <2>6. new[r][col] = IF k = line /\ col = x THEN <<c, j>> ELSE buf[r][col]
    BY <2>4, <2>5 DEF Row
  <2> QED BY <2>6 DEF r
<1> HIDE DEF new
<1>2. CASE k = line /\ col = x
  <2>1. [j \in GlyphRows |-> new[k * font_height + j][col]] = [j \in GlyphRows |-> <<c, j>>]
    BY <1>1, <1>2
  <2> QED BY <1>2, <2>1, ShowsChar DEF CellOf, new
<1>3. CASE ~(k = line /\ col = x)
  <2>1. Same(new, k, buf, k, col)
    BY <1>1, <1>3 DEF Same
  <2> QED BY <1>3, <2>1, SameCell DEF new
<1> QED BY <1>2, <1>3

-----------------------------------------------------------------------------
(* Lines of the front buffer that are not dirty show what the back buffer  *)
(* does; without a back buffer, nothing is below the last line.            *)
InStep(d) ==
  \A k \in Lines, j \in GlyphRows :
    k >= d.front_dirty_end => d.front[k * font_height + j] = d.back[k * font_height + j]

NothingBelow(d) ==
  \A r \in FrontRows : r >= MaxHeight * font_height => d.front[r] = BlankRow

Clean(d) == IF Buffered(d) THEN InStep(d) ELSE NothingBelow(d)

LEMMA BuffersCover == Covers(BackRows) /\ Covers(FrontRows)
  BY RowsInside DEF Covers

LEMMA GridIs ==
  ASSUME NEW d \in Device
  PROVE  Grid(d) = [l \in Lines |-> [col \in Columns |->
                      IF Buffered(d) THEN CellOf(d.back, (l + d.back_buffer_start) % MaxHeight, col)
                      ELSE CellOf(d.front, l, col)]]
<1>1. \A l \in Lines : (l + 0) % MaxHeight = l
  BY ModSmall, Screen DEF Lines
<1>2. CASE Buffered(d)
  BY <1>2 DEF Grid, Text
<1>3. CASE ~Buffered(d)
  BY <1>1, <1>3 DEF Grid, Text
<1> QED BY <1>2, <1>3

LEMMA ClearedCells ==
  ASSUME NEW S, Covers(S), NEW buf \in [S -> Row], NEW line \in Lines,
         NEW k \in Lines, NEW col \in Columns
  PROVE  CellOf(Cleared(buf, line * font_height, font_height), k, col)
           = IF k = line THEN Blank ELSE CellOf(buf, k, col)
<1> DEFINE new == Cleared(buf, line * font_height, font_height)
<1>0. k \in Int /\ line \in Int
  BY DEF Lines
<1>1. ASSUME NEW j \in GlyphRows
      PROVE  new[k * font_height + j] = IF k = line THEN BlankRow ELSE buf[k * font_height + j]
  <2> DEFINE r == k * font_height + j
  <2>1. r \in S
    BY DEF Covers
  <2>2. line * font_height <= r /\ r < (line + 1) * font_height <=> k = line
    BY <1>0, RowOfLine
  <2>3. (line + 1) * font_height = line * font_height + font_height
    BY <1>0, FontAssumption
  <2> HIDE DEF r
  <2>4. new[r] = IF k = line THEN BlankRow ELSE buf[r]
    BY <2>1, <2>2, <2>3 DEF Cleared
  <2> QED BY <2>4 DEF r
<1> HIDE DEF new
<1>2. CASE k = line
  BY <1>1, <1>2, CellBlank DEF new
<1>3. CASE k # line
  <2>1. Same(new, k, buf, k, col)
    BY <1>1, <1>3 DEF Same
  <2> QED BY <1>3, <2>1, SameCell DEF new
<1> QED BY <1>2, <1>3

(* The circular buffer: the line at its start becomes the last one.        *)
LEMMA TurnsAround ==
  ASSUME NEW s \in Lines, NEW l \in Lines
  PROVE  LET t == (s + 1) % MaxHeight
         IN /\ t \in Lines
            /\ l = MaxHeight - 1 => (l + t) % MaxHeight = s
            /\ l # MaxHeight - 1 => /\ (l + t) % MaxHeight = ((l + 1) + s) % MaxHeight
                                    /\ (l + t) % MaxHeight # s
<1> DEFINE t == (s + 1) % MaxHeight
<1>0. MaxHeight \in Nat \ {0} /\ s \in Nat /\ l \in Nat /\ s < MaxHeight /\ l < MaxHeight
  BY Screen DEF Lines
<1>1. t = IF s + 1 < MaxHeight THEN s + 1 ELSE 0
  <2>1. CASE s + 1 < MaxHeight
    BY <1>0, <2>1, ModSmall
  <2>2. CASE s + 1 = MaxHeight
    <3>1. (MaxHeight + 0) % MaxHeight = 0
      BY <1>0, ModWrap
    <3> QED BY <1>0, <2>2, <3>1
  <2> QED BY <1>0, <2>1, <2>2
<1>2. t \in Lines
  BY <1>0, <1>1 DEF Lines
<1>3. (l + t) % MaxHeight = IF l + t < MaxHeight THEN l + t ELSE l + t - MaxHeight
  BY <1>2, Around
<1>4. l # MaxHeight - 1 =>
        ((l + 1) + s) % MaxHeight = IF l + 1 + s < MaxHeight THEN l + 1 + s ELSE l + 1 + s - MaxHeight
  <2>1. l # MaxHeight - 1 => l + 1 \in Lines
    BY <1>0 DEF Lines
  <2> QED BY <2>1, <1>0, Around
<1> DEFINE u == (l + t) % MaxHeight
           w == ((l + 1) + s) % MaxHeight
<1> SUFFICES /\ t \in Lines
             /\ l = MaxHeight - 1 => u = s
             /\ l # MaxHeight - 1 => u = w /\ u # s
  OBVIOUS
<1>5. u = IF l + t < MaxHeight THEN l + t ELSE l + t - MaxHeight
  BY <1>3
<1>6. l # MaxHeight - 1 => w = IF l + 1 + s < MaxHeight THEN l + 1 + s ELSE l + 1 + s - MaxHeight
  BY <1>4
<1> HIDE DEF t, u, w
<1>7. CASE s + 1 < MaxHeight
  BY <1>0, <1>1, <1>2, <1>5, <1>6, <1>7
<1>8. CASE ~(s + 1 < MaxHeight)
  BY <1>0, <1>1, <1>2, <1>5, <1>6, <1>8
<1> QED BY <1>7, <1>8

-----------------------------------------------------------------------------
(* fb_scroll moves the text up by a line.                                  *)
LEMMA ScrollBack ==
  ASSUME NEW d \in Device, Buffered(d)
  PROVE  /\ Grid(fb_scroll(d)) = TS!Scrolled(Grid(d))
         /\ Clean(fb_scroll(d)) /\ Buffered(fb_scroll(d))
         /\ fb_scroll(d).front = d.front
         /\ fb_scroll(d).cur_x = d.cur_x /\ fb_scroll(d).cur_y = d.cur_y
<1> DEFINE e == fb_scroll(d)
           s == d.back_buffer_start
           t == (s + 1) % MaxHeight
           b == Cleared(d.back, s * font_height, font_height)
<1>1. d.back \in [BackRows -> Row] /\ s \in Lines
  BY DEF Buffered, Device
<1>2. e = [d EXCEPT !.back = b, !.back_buffer_start = t,
                    !.front_dirty_start = 0, !.front_dirty_end = MaxHeight]
  BY DEF fb_scroll, Device
<1>3. b \in [BackRows -> Row] /\ t \in Lines
  BY <1>1, ClearedType, TurnsAround
<1>4. ASSUME NEW k \in Lines, NEW col \in Columns
      PROVE  CellOf(b, k, col) = IF k = s THEN Blank ELSE CellOf(d.back, k, col)
  BY <1>1, BuffersCover, ClearedCells
<1>5. ASSUME NEW l \in Lines, NEW col \in Columns
      PROVE  CellOf(b, (l + t) % MaxHeight, col)
               = IF l = MaxHeight - 1 THEN Blank
                 ELSE CellOf(d.back, ((l + 1) + s) % MaxHeight, col)
  <2>1. (l + t) % MaxHeight \in Lines
    BY <1>3, Around
  <2>2. /\ l = MaxHeight - 1 => (l + t) % MaxHeight = s
        /\ l # MaxHeight - 1 => /\ (l + t) % MaxHeight = ((l + 1) + s) % MaxHeight
                                /\ (l + t) % MaxHeight # s
    BY <1>1, TurnsAround
  <2> HIDE DEF t, b, s
  <2>3. CASE l = MaxHeight - 1
    BY <1>4, <2>1, <2>2, <2>3
  <2>4. CASE l # MaxHeight - 1
    BY <1>4, <2>1, <2>2, <2>4
  <2> QED BY <2>3, <2>4
<1> HIDE DEF b, t
<1>6. e.back = b /\ e.back_buffer_start = t /\ e.front = d.front /\ e.cur_x = d.cur_x
      /\ e.cur_y = d.cur_y /\ e.front_dirty_end = MaxHeight
  BY <1>2 DEF Device
<1>7. Buffered(e)
  <2>1. b # NoBuffer
    <3>1. 0 \in BackRows
      BY Ends, FontAssumption, RowsInside DEF GlyphRows
    <3>2. DOMAIN b = BackRows
      BY <1>3
    <3>3. DOMAIN NoBuffer = {}
      BY DEF NoBuffer
    <3> QED BY <3>1, <3>2, <3>3
  <2> QED BY <1>6, <2>1 DEF Buffered
<1>8. Clean(e)
  BY <1>6, <1>7, Screen DEF Clean, InStep, Lines
<1>9. Grid(e) = [l \in Lines |-> [col \in Columns |-> CellOf(b, (l + t) % MaxHeight, col)]]
  BY <1>6, <1>7 DEF Grid, Text
<1>10. Grid(d) = [l \in Lines |-> [col \in Columns |-> CellOf(d.back, (l + s) % MaxHeight, col)]]
  BY DEF Grid, Text
<1>11. TS!Scrolled(Grid(d)) = [l \in Lines |-> [col \in Columns |-> CellOf(b, (l + t) % MaxHeight, col)]]
  <2> DEFINE new == [l \in Lines |-> [col \in Columns |-> CellOf(b, (l + t) % MaxHeight, col)]]
  <2>1. ASSUME NEW l \in Lines
        PROVE  new[l] = IF l = MaxHeight - 1 THEN TS!BlankLine ELSE Grid(d)[l + 1]
    <3>1. CASE l = MaxHeight - 1
      <4>1. new[l] = [col \in Columns |-> Blank]
        BY <1>5, <3>1
      <4> QED BY <3>1, <4>1 DEF TS!BlankLine, TS!Columns, Columns
    <3>2. CASE l # MaxHeight - 1
      <4>1. l + 1 \in Lines
        BY <3>2, Screen DEF Lines
      <4>2. Grid(d)[l + 1] = [col \in Columns |-> CellOf(d.back, ((l + 1) + s) % MaxHeight, col)]
        BY <1>10, <4>1
      <4> QED BY <1>5, <3>2, <4>2
    <3> QED BY <3>1, <3>2
  <2>2. new = [l \in Lines |-> IF l = MaxHeight - 1 THEN TS!BlankLine ELSE Grid(d)[l + 1]]
    <3> HIDE DEF new
    <3> SUFFICES new = [l \in Lines |-> new[l]]
      BY <2>1
    <3> QED BY DEF new
  <2> QED BY <2>2 DEF TS!Scrolled, TS!Lines, Lines
<1> QED BY <1>6, <1>7, <1>8, <1>9, <1>11

(* What is left below the last line is less than a line.                   *)
LEMMA LastRows == Height < MaxHeight * font_height + font_height
  BY FontAssumption, HeightAssumption DEF MaxHeight

LEMMA ScrollFront ==
  ASSUME NEW d \in Device, ~Buffered(d), NothingBelow(d)
  PROVE  /\ Grid(fb_scroll(d)) = TS!Scrolled(Grid(d))
         /\ Clean(fb_scroll(d)) /\ ~Buffered(fb_scroll(d))
         /\ fb_scroll(d).cur_x = d.cur_x /\ fb_scroll(d).cur_y = d.cur_y
<1> DEFINE e == fb_scroll(d)
           size == MaxHeight * font_height
           rows == IF d.contig THEN Height ELSE size
           up == Copied(d.front, 0, rows - font_height, d.front, font_height)
           f == Cleared(up, rows - font_height, font_height)
<1>1. d.front \in [FrontRows -> Row]
  BY DEF Device
<1>2. e = [d EXCEPT !.front = f]
  BY DEF fb_scroll
<1>3. size \in Nat /\ size <= Height /\ Height < size + font_height /\ font_height <= size
  <2>1. 1 * font_height <= MaxHeight * font_height
    BY Scale, Screen, FontAssumption
  <2> QED BY <2>1, Screen, LastRows, FontAssumption
<1>4. rows \in Nat /\ size <= rows /\ rows <= Height /\ rows \in {size, Height}
  BY <1>3, HeightAssumption
<1>5. ASSUME NEW r \in FrontRows
      PROVE  f[r] = IF rows - font_height <= r /\ r < rows THEN BlankRow
                    ELSE IF r < rows - font_height THEN d.front[r + font_height]
                    ELSE d.front[r]
  <2> HIDE DEF rows
  <2>1. DOMAIN up = FrontRows /\ r \in Int /\ 0 <= r
    BY <1>1 DEF Copied, FrontRows
  <2>2. up[r] = IF r < rows - font_height THEN d.front[r + font_height] ELSE d.front[r]
    <3>1. r - 0 + font_height = r + font_height /\ 0 + (rows - font_height) = rows - font_height
      BY <1>4, <2>1, FontAssumption
    <3>2. up[r] = IF 0 <= r /\ r < 0 + (rows - font_height) THEN d.front[r - 0 + font_height]
                  ELSE d.front[r]
      BY <1>1 DEF Copied
    <3> QED BY <2>1, <3>1, <3>2
  <2> HIDE DEF up
  <2>3. f[r] = IF rows - font_height <= r /\ r < (rows - font_height) + font_height
               THEN BlankRow ELSE up[r]
    BY <2>1 DEF Cleared
  <2>4. (rows - font_height) + font_height = rows
    BY <1>4, FontAssumption
  <2> QED BY <2>2, <2>3, <2>4
<1>6. f \in [FrontRows -> Row]
  <2>1. \A r \in FrontRows : 0 <= r /\ r < 0 + (rows - font_height) => r - 0 + font_height \in FrontRows
    <3> HIDE DEF rows
    <3> QED BY <1>4, FontAssumption, HeightAssumption DEF FrontRows
  <2>2. up \in [FrontRows -> Row]
    <3> HIDE DEF rows
    <3> QED BY <1>1, <2>1, CopiedType
  <2> QED BY <2>2, ClearedType
<1> HIDE DEF f, rows, size
<1>7. ASSUME NEW k \in Lines, NEW j \in GlyphRows
      PROVE  f[k * font_height + j] = IF k = MaxHeight - 1 THEN BlankRow
                                      ELSE d.front[(k + 1) * font_height + j]
  <2> DEFINE r == k * font_height + j
             q == (k + 1) * font_height + j
  <2>1. r \in FrontRows /\ k \in Int /\ j \in Int /\ 0 <= j /\ j < font_height
    BY RowsInside, FontAssumption, Screen DEF Lines, GlyphRows
  <2>2. q = r + font_height
    <3>1. (k + 1) * font_height = k * font_height + font_height
      BY <2>1, FontAssumption
    <3>2. k * font_height \in Int
      BY <2>1, FontAssumption
    <3> QED BY <2>1, <3>1, <3>2, FontAssumption
  <2>3. CASE k = MaxHeight - 1
    <3>1. (k + 1) * font_height = size
      BY <2>3, Screen, FontAssumption DEF size
    <3>2. size <= r + font_height /\ r < size
      <4>1. q = size + j
        BY <3>1
      <4> HIDE DEF q, r
      <4> QED BY <1>3, <2>1, <2>2, <4>1, FontAssumption DEF FrontRows
    <3> HIDE DEF r, q
    <3>3. CASE rows - font_height <= r
      BY <1>3, <1>4, <1>5, <2>1, <2>3, <3>2, <3>3 DEF FrontRows, r
    <3>4. CASE r < rows - font_height
      <4>1. r + font_height \in FrontRows
        BY <1>4, <2>1, <3>4, FontAssumption, HeightAssumption DEF FrontRows
      <4>2. d.front[r + font_height] = BlankRow
        BY <3>2, <4>1 DEF NothingBelow, size
      <4>3. ~(rows - font_height <= r)
        BY <1>4, <2>1, <3>4, FontAssumption DEF FrontRows
      <4> QED BY <1>5, <2>1, <2>3, <3>4, <4>2, <4>3 DEF r
    <3> QED BY <1>4, <2>1, <3>3, <3>4, FontAssumption DEF FrontRows
  <2>4. CASE k # MaxHeight - 1
    <3>1. k + 1 \in Lines
      BY <2>4, Screen DEF Lines
    <3>2. (k + 1) * font_height + font_height <= size
      <4>1. (k + 2) * font_height <= MaxHeight * font_height
        BY <2>1, <3>1, Scale, FontAssumption, Screen DEF Lines
      <4>2. (k + 2) * font_height = (k + 1) * font_height + font_height
        BY <2>1, FontAssumption
      <4> QED BY <4>1, <4>2 DEF size
    <3>3. q < size
      <4>1. (k + 1) * font_height \in Int
        BY <2>1, FontAssumption
      <4> QED BY <1>3, <2>1, <3>2, <4>1, FontAssumption
    <3> HIDE DEF r, q
    <3>4. r < rows - font_height
      BY <1>3, <1>4, <2>1, <2>2, <3>3, FontAssumption DEF FrontRows
    <3>5. ~(rows - font_height <= r)
      BY <1>4, <2>1, <3>4, FontAssumption DEF FrontRows
    <3> QED BY <1>5, <2>1, <2>2, <2>4, <3>4, <3>5 DEF r, q
  <2> QED BY <2>3, <2>4
<1>8. ASSUME NEW r \in FrontRows, r >= size PROVE f[r] = BlankRow
  <2>1. r \in Int /\ r < Height
    BY HeightAssumption DEF FrontRows
  <2>2. CASE rows = Height
    BY <1>3, <1>4, <1>5, <1>8, <2>1, <2>2, FontAssumption, HeightAssumption
  <2>3. CASE rows = size
    <3>1. d.front[r] = BlankRow
      BY <1>8 DEF NothingBelow, size
    <3> QED BY <1>3, <1>5, <1>8, <2>1, <2>3, <3>1, FontAssumption
  <2> QED BY <1>4, <2>2, <2>3
<1>9. e.front = f /\ e.back = d.back /\ e.cur_x = d.cur_x /\ e.cur_y = d.cur_y
  BY <1>2 DEF Device
<1>10. ~Buffered(e)
  BY <1>9 DEF Buffered
<1>11. Clean(e)
  BY <1>8, <1>9, <1>10 DEF Clean, NothingBelow, size
<1>12. \A k \in Lines, col \in Columns :
         CellOf(f, k, col) = IF k = MaxHeight - 1 THEN Blank ELSE CellOf(d.front, k + 1, col)
  <2> TAKE k \in Lines, col \in Columns
  <2>1. CASE k = MaxHeight - 1
    BY <1>7, <2>1, CellBlank
  <2>2. CASE k # MaxHeight - 1
    <3>1. Same(f, k, d.front, k + 1, col)
      BY <1>7, <2>2 DEF Same
    <3> QED BY <2>2, <3>1, SameCell
  <2> QED BY <2>1, <2>2
<1>13. Grid(e) = [l \in Lines |-> [col \in Columns |-> CellOf(f, l, col)]]
  <2>1. \A l \in Lines : (l + 0) % MaxHeight = l
    BY ModSmall, Screen DEF Lines
  <2> QED BY <1>9, <1>10, <2>1 DEF Grid, Text
<1>14. Grid(d) = [l \in Lines |-> [col \in Columns |-> CellOf(d.front, l, col)]]
  BY GridIs
<1>15. Grid(e) = [l \in Lines |-> IF l = MaxHeight - 1 THEN TS!BlankLine ELSE Grid(d)[l + 1]]
  <2>1. \A l \in Lines : l # MaxHeight - 1 => l + 1 \in Lines
    BY Screen DEF Lines
  <2>2. TS!BlankLine = [col \in Columns |-> Blank]
    BY DEF TS!BlankLine, TS!Columns, Columns
  <2>3. ASSUME NEW l \in Lines
        PROVE  Grid(e)[l] = IF l = MaxHeight - 1 THEN TS!BlankLine ELSE Grid(d)[l + 1]
    BY <1>12, <1>13, <1>14, <2>1, <2>2
  <2>4. Grid(e) = [l \in Lines |-> Grid(e)[l]]
    BY <1>13
  <2> HIDE DEF e
  <2> QED BY <2>3, <2>4
<1> QED BY <1>9, <1>10, <1>11, <1>15 DEF TS!Scrolled, TS!Lines, Lines

LEMMA ScrollGrid ==
  ASSUME NEW d \in Device, Clean(d)
  PROVE  /\ Grid(fb_scroll(d)) = TS!Scrolled(Grid(d))
         /\ Clean(fb_scroll(d)) /\ (Buffered(fb_scroll(d)) <=> Buffered(d))
         /\ Buffered(d) => fb_scroll(d).front = d.front
         /\ fb_scroll(d).cur_x = d.cur_x /\ fb_scroll(d).cur_y = d.cur_y
<1>1. CASE Buffered(d)
  BY <1>1, ScrollBack
<1>2. CASE ~Buffered(d)
  BY <1>2, ScrollFront DEF Clean
<1> QED BY <1>1, <1>2

(* What a step may do to the rest of the device.                           *)
Keeps(d, e) == (Buffered(e) <=> Buffered(d)) /\ (Buffered(d) => e.front = d.front)

LEMMA LineFeedGrid ==
  ASSUME NEW d \in Device, Clean(d)
  PROVE  /\ Grid(LineFeed(d)) = IF d.cur_y = MaxHeight - 1 THEN TS!Scrolled(Grid(d)) ELSE Grid(d)
         /\ LineFeed(d).cur_y = IF d.cur_y = MaxHeight - 1 THEN d.cur_y ELSE d.cur_y + 1
         /\ LineFeed(d).cur_x = d.cur_x
         /\ Clean(LineFeed(d)) /\ Keeps(d, LineFeed(d))
<1>1. CASE d.cur_y = MaxHeight - 1
  BY <1>1, ScrollGrid DEF LineFeed, Keeps
<1>2. CASE d.cur_y # MaxHeight - 1
  <2> DEFINE e == [d EXCEPT !.cur_y = d.cur_y + 1]
  <2>1. LineFeed(d) = e
    BY <1>2 DEF LineFeed
  <2>2. /\ e.back = d.back /\ e.front = d.front /\ e.back_buffer_start = d.back_buffer_start
        /\ e.front_dirty_end = d.front_dirty_end /\ e.cur_x = d.cur_x /\ e.cur_y = d.cur_y + 1
    BY DEF Device
  <2> HIDE DEF e
  <2> QED BY <1>2, <2>1, <2>2 DEF Grid, Clean, InStep, NothingBelow, Keeps, Buffered
<1> QED BY <1>1, <1>2

(* The column of the cursor does not matter to what is shown.              *)
LEMMA MoveGrid ==
  ASSUME NEW d \in Device, NEW n
  PROVE  LET e == [d EXCEPT !.cur_x = n]
         IN /\ Grid(e) = Grid(d) /\ (Clean(d) => Clean(e)) /\ Keeps(d, e)
            /\ e.cur_x = n /\ e.cur_y = d.cur_y /\ e.front = d.front
<1> DEFINE e == [d EXCEPT !.cur_x = n]
<1>1. /\ e.back = d.back /\ e.front = d.front /\ e.back_buffer_start = d.back_buffer_start
      /\ e.front_dirty_end = d.front_dirty_end /\ e.cur_x = n /\ e.cur_y = d.cur_y
  BY DEF Device
<1> SUFFICES /\ Grid(e) = Grid(d) /\ (Clean(d) => Clean(e)) /\ Keeps(d, e)
             /\ e.cur_x = n /\ e.cur_y = d.cur_y /\ e.front = d.front
  OBVIOUS
<1> HIDE DEF e
<1> QED BY <1>1 DEF Grid, Clean, InStep, NothingBelow, Keeps, Buffered

-----------------------------------------------------------------------------
(* Drawing changes the cell at the cursor.                                 *)
Typed(text, line, x, c) ==
  [l \in Lines |-> [col \in Columns |-> IF l = line /\ col = x THEN c ELSE text[l][col]]]

LEMMA DrawGrid ==
  ASSUME NEW d \in Device, Dirty(d), Clean(d), NEW c \in Chars
  PROVE  LET e == fb_line_dirty(fb_write_char_depth(d, c), d.cur_y)
         IN /\ Grid(e) = Typed(Grid(d), d.cur_y, d.cur_x, c)
            /\ Clean(e) /\ Keeps(d, e)
            /\ e.cur_x = d.cur_x /\ e.cur_y = d.cur_y
<1> DEFINE w == fb_write_char_depth(d, c)
           e == fb_line_dirty(w, d.cur_y)
           y == d.cur_y
           x == d.cur_x
           s == d.back_buffer_start
           line == DrawLine(d)
<1>1. y \in Lines /\ x \in Columns /\ s \in Lines /\ d.front \in [FrontRows -> Row]
      /\ d.front_dirty_end \in 0 .. MaxHeight
  BY DEF Device
<1>2. line \in Lines
  BY <1>1, Around DEF DrawLine
<1>3. e.back = w.back /\ e.front = w.front /\ e.back_buffer_start = w.back_buffer_start
      /\ e.cur_x = w.cur_x /\ e.cur_y = w.cur_y
      /\ e.front_dirty_end = IF w.front_dirty_end <= y THEN y + 1 ELSE w.front_dirty_end
  BY DEF fb_line_dirty, fb_write_char_depth, Device
<1>4. w.back_buffer_start = s /\ w.cur_x = x /\ w.cur_y = y /\ w.front_dirty_end = d.front_dirty_end
  BY DEF fb_write_char_depth, Device
<1> SUFFICES /\ Grid(e) = Typed(Grid(d), y, x, c) /\ Clean(e) /\ Keeps(d, e)
             /\ e.cur_x = x /\ e.cur_y = y
  OBVIOUS
<1>5. CASE Buffered(d)
  <2> DEFINE b == Drawn(d.back, line, x, c)
  <2>1. w.back = b /\ w.front = d.front /\ d.back \in [BackRows -> Row]
    BY <1>5 DEF fb_write_char_depth, Device, Buffered
  <2>2. line = (y + s) % MaxHeight
    BY <1>5 DEF DrawLine
  <2>3. b # NoBuffer
    <3>1. 0 \in BackRows
      BY Ends, FontAssumption, RowsInside DEF GlyphRows
    <3>2. DOMAIN b = BackRows
      BY <2>1 DEF Drawn
    <3>3. DOMAIN NoBuffer = {}
      BY DEF NoBuffer
    <3> QED BY <3>1, <3>2, <3>3
  <2>4. \A k \in Lines, col \in Columns :
          CellOf(b, k, col) = IF k = line /\ col = x THEN c ELSE CellOf(d.back, k, col)
    BY <1>1, <1>2, <2>1, BuffersCover, DrawnCells
  <2>5. \A l \in Lines : (l + s) % MaxHeight \in Lines /\ ((l + s) % MaxHeight = line <=> l = y)
    <3> TAKE l \in Lines
    <3> DEFINE u == (l + s) % MaxHeight
               v == (y + s) % MaxHeight
    <3>1. u \in Lines /\ u = IF l + s < MaxHeight THEN l + s ELSE l + s - MaxHeight
      BY <1>1, Around
    <3>2. v = IF y + s < MaxHeight THEN y + s ELSE y + s - MaxHeight
      BY <1>1, Around
    <3>3. line = v
      BY <2>2
    <3> SUFFICES u \in Lines /\ (u = line <=> l = y)
      OBVIOUS
    <3> HIDE DEF u, v, line, y, s
    <3> QED BY <1>1, <3>1, <3>2, <3>3, Screen DEF Lines
  <2>6. \A r \in BackRows : ~(line * font_height <= r /\ r < (line + 1) * font_height) => b[r] = d.back[r]
    BY <2>1 DEF Drawn
  <2>7. ASSUME NEW k \in Lines, NEW j \in GlyphRows, k >= e.front_dirty_end
        PROVE  d.front[k * font_height + j] = b[k * font_height + j]
    <3> DEFINE r == k * font_height + j
    <3>1. s = 0 /\ k >= d.front_dirty_end /\ k # y
      <4> HIDE DEF e, w, y, s
      <4> QED BY <1>1, <1>3, <1>4, <2>7, Screen DEF Dirty, Lines, s
    <3>2. line = y
      BY <1>1, <2>2, <3>1, ModSmall, Screen DEF Lines
    <3>3. r \in BackRows /\ k \in Int /\ line \in Int
      BY <1>2, RowsInside DEF Lines
    <3>4. ~(line * font_height <= r /\ r < (line + 1) * font_height)
      BY <3>1, <3>2, <3>3, RowOfLine
    <3>5. b[r] = d.back[r]
      <4> HIDE DEF b, r, line
      <4> QED BY <2>6, <3>3, <3>4
    <3>6. d.front[r] = d.back[r]
      BY <1>5, <3>1 DEF Clean, InStep
    <3> QED BY <3>5, <3>6
  <2> HIDE DEF b, line, w
  <2>8. Buffered(e)
    BY <1>3, <2>1, <2>3 DEF Buffered
  <2>9. Clean(e)
    BY <1>3, <2>1, <2>7, <2>8 DEF Clean, InStep
  <2>10. Grid(e) = [l \in Lines |-> [col \in Columns |-> CellOf(b, (l + s) % MaxHeight, col)]]
    BY <1>3, <1>4, <2>1, <2>8 DEF Grid, Text
  <2>11. Grid(d) = [l \in Lines |-> [col \in Columns |-> CellOf(d.back, (l + s) % MaxHeight, col)]]
    BY <1>5 DEF Grid, Text
  <2>12. \A l \in Lines, col \in Columns :
           CellOf(b, (l + s) % MaxHeight, col)
             = IF l = y /\ col = x THEN c ELSE Grid(d)[l][col]
    BY <2>4, <2>5, <2>11
  <2>13. Grid(e) = Typed(Grid(d), y, x, c)
    BY <2>10, <2>12 DEF Typed
  <2> QED BY <1>3, <1>4, <1>5, <2>1, <2>8, <2>9, <2>13 DEF Keeps
<1>6. CASE ~Buffered(d)
  <2> DEFINE f == Drawn(d.front, line, x, c)
  <2>1. w.front = f /\ w.back = d.back
    BY <1>6 DEF fb_write_char_depth, Device
  <2>2. line = y
    BY <1>6 DEF DrawLine
  <2>3. \A k \in Lines, col \in Columns :
          CellOf(f, k, col) = IF k = y /\ col = x THEN c ELSE CellOf(d.front, k, col)
    BY <1>1, <1>2, <2>2, BuffersCover, DrawnCells
  <2>4. ASSUME NEW r \in FrontRows, r >= MaxHeight * font_height PROVE f[r] = BlankRow
    <3>1. d.front[r] = BlankRow
      BY <1>6, <2>4 DEF Clean, NothingBelow
    <3>2. (y + 1) * font_height <= MaxHeight * font_height
      BY <1>1, Scale, Screen, FontAssumption DEF Lines
    <3>3. ~(r < (line + 1) * font_height)
      <4>1. MaxHeight * font_height \in Int /\ (y + 1) * font_height \in Int
        BY <1>1, FontAssumption, Screen DEF Lines
      <4> QED BY <2>2, <2>4, <3>2, <4>1 DEF FrontRows
    <3>4. f[r] = d.front[r]
      BY <1>1, <3>3 DEF Drawn
    <3> QED BY <3>1, <3>4
  <2> HIDE DEF f, line, w
  <2>5. ~Buffered(e)
    BY <1>3, <1>6, <2>1 DEF Buffered
  <2>6. Clean(e)
    BY <1>3, <2>1, <2>4, <2>5 DEF Clean, NothingBelow
  <2>7. Grid(e) = [l \in Lines |-> [col \in Columns |-> CellOf(f, l, col)]]
    <3>1. \A l \in Lines : (l + 0) % MaxHeight = l
      BY ModSmall, Screen DEF Lines
    <3> QED BY <1>3, <2>1, <2>5, <3>1 DEF Grid, Text
  <2>8. Grid(d) = [l \in Lines |-> [col \in Columns |-> CellOf(d.front, l, col)]]
    BY <1>6, GridIs
  <2>9. \A l \in Lines, col \in Columns :
          CellOf(f, l, col) = IF l = y /\ col = x THEN c ELSE Grid(d)[l][col]
    BY <2>3, <2>8
  <2>10. Grid(e) = Typed(Grid(d), y, x, c)
    BY <2>7, <2>9 DEF Typed
  <2> QED BY <1>3, <1>4, <1>6, <2>5, <2>6, <2>10 DEF Keeps
<1> QED BY <1>5, <1>6

-----------------------------------------------------------------------------
(* fb_render: afterwards the display shows the text.                       *)
(* One copy, of n lines of the back buffer from line b on to line a.       *)
LinesCopied(d, e, a, b, n) ==
  /\ e = [d EXCEPT !.front = e.front]
  /\ \A k \in Lines, j \in GlyphRows :
       e.front[k * font_height + j]
         = IF a <= k /\ k < a + n THEN d.back[((k - a) + b) * font_height + j]
           ELSE d.front[k * font_height + j]

LEMMA CopyLines ==
  ASSUME NEW d \in Device, NEW a \in Nat, NEW n \in Nat, NEW b \in Nat
  PROVE  LinesCopied(d, CopyOne(d, Copy(a, b, n)), a, b, n)
<1> DEFINE f == Copied(d.front, a * font_height, n * font_height, d.back, b * font_height)
           e == CopyOne(d, Copy(a, b, n))
<1>1. e = [d EXCEPT !.front = f]
  BY DEF CopyOne, Copy
<1>2. e.front = f
  BY <1>1 DEF Device
<1>3. d.front \in [FrontRows -> Row]
  BY DEF Device
<1>4. \A k \in Lines, j \in GlyphRows :
        f[k * font_height + j]
          = IF a <= k /\ k < a + n THEN d.back[((k - a) + b) * font_height + j]
            ELSE d.front[k * font_height + j]
  <2> TAKE k \in Lines, j \in GlyphRows
  <2> DEFINE r == k * font_height + j
             ah == a * font_height
             nh == n * font_height
             bh == b * font_height
  <2> USE FontAssumption
  <2>0. k \in Int /\ j \in Int /\ 0 <= j /\ j < font_height /\ k >= 0
    BY Screen DEF Lines, GlyphRows
  <2>1. r \in FrontRows
    BY RowsInside
  <2>2. ah \in Int /\ nh \in Int /\ bh \in Int /\ k * font_height \in Int
    BY <2>0
  <2>3. a <= k <=> ah <= r
    <3>1. CASE a <= k
      <4>1. a * font_height <= k * font_height
        BY <2>0, <3>1, Scale
      <4> QED BY <2>0, <2>2, <3>1, <4>1
    <3>2. CASE k < a
      <4>1. (k + 1) * font_height <= a * font_height
        BY <2>0, <3>2, Scale
      <4>2. (k + 1) * font_height = k * font_height + font_height
        BY <2>0
      <4> QED BY <2>0, <2>2, <3>2, <4>1, <4>2
    <3> QED BY <2>0, <3>1, <3>2
  <2>4. k < a + n <=> r < ah + nh
    <3>0. (a + n) * font_height = ah + nh
      OBVIOUS
    <3>1. CASE k < a + n
      <4>1. (k + 1) * font_height <= (a + n) * font_height
        BY <2>0, <3>1, Scale
      <4>2. (k + 1) * font_height = k * font_height + font_height
        BY <2>0
      <4> QED BY <2>0, <2>2, <3>0, <3>1, <4>1, <4>2
    <3>2. CASE a + n <= k
      <4>1. (a + n) * font_height <= k * font_height
        BY <2>0, <3>2, Scale
      <4> QED BY <2>0, <2>2, <3>0, <3>2, <4>1
    <3> QED BY <2>0, <3>1, <3>2
  <2>5. (r - ah) + bh = ((k - a) + b) * font_height + j
    <3>1. ((k - a) + b) * font_height = (k * font_height - ah) + bh
      BY <2>0
    <3> QED BY <2>0, <2>2, <3>1
  <2> HIDE DEF ah, nh, bh, r
  <2>6. Copied(d.front, ah, nh, d.back, bh)[r] = IF ah <= r /\ r < ah + nh THEN d.back[(r - ah) + bh] ELSE d.front[r]
    BY <1>3, <2>1 DEF Copied
  <2> QED BY <2>3, <2>4, <2>5, <2>6 DEF ah, nh, bh, r
<1> HIDE DEF e, f
<1> QED BY <1>1, <1>2, <1>4 DEF e, LinesCopied

LEMMA RenderRows ==
  ASSUME NEW d \in Device, Dirty(d), InStep(d), Buffered(d)
  PROVE  LET e == fb_render(d)
         IN /\ e = [d EXCEPT !.front = e.front]
            /\ \A k \in Lines, j \in GlyphRows :
                 e.front[k * font_height + j]
                   = d.back[((k + d.back_buffer_start) % MaxHeight) * font_height + j]
<1> DEFINE s == d.back_buffer_start
           n == d.front_dirty_end
           e == fb_render(d)
           Shows(f) == \A k \in Lines, j \in GlyphRows :
                         f[k * font_height + j] = d.back[((k + s) % MaxHeight) * font_height + j]
<1>1. s \in Lines /\ n \in 0 .. MaxHeight /\ d.front_dirty_start = 0
  BY DEF Device, Dirty
<1>2. (0 + s) % MaxHeight = s
  BY <1>1, ModSmall, Screen DEF Lines
<1>3. s = 0 => \A k \in Lines : (k + s) % MaxHeight = k
  BY ModSmall, Screen DEF Lines
<1> SUFFICES e = [d EXCEPT !.front = e.front] /\ Shows(e.front)
  OBVIOUS
<1>4. CASE n = 0
  <2>1. s = 0
    BY <1>1, <1>4, Screen DEF Dirty, Lines
  <2>2. Copies(d) = <<>>
    BY <1>1, <1>4 DEF Copies
  <2>3. e = d
    BY <2>2 DEF fb_render
  <2>4. \A k \in Lines, j \in GlyphRows : d.front[k * font_height + j] = d.back[k * font_height + j]
    BY <1>4 DEF InStep, Lines
  <2>5. d = [d EXCEPT !.front = d.front]
    BY DEF Device
  <2> HIDE DEF e
  <2> QED BY <1>3, <2>1, <2>3, <2>4, <2>5
<1>5. CASE n = MaxHeight
  <2> DEFINE rest == MaxHeight - s
             d1 == CopyOne(d, Copy(0, s, rest))
             d2 == CopyOne(d1, Copy(rest, 0, s))
  <2>1. rest \in Nat /\ s \in Nat
    BY <1>1, Screen DEF Lines
  <2>2. Copies(d) = <<Copy(0, s, rest), Copy(rest, 0, s)>>
    <3>1. (n + s) % MaxHeight = s
      BY <1>1, <1>5, ModWrap, Screen DEF Lines
    <3>2. ~(s < s) /\ ~(n <= 0) /\ 0 + rest = rest
      BY <1>1, <1>5, <2>1, Screen DEF Lines
    <3> QED BY <1>1, <1>2, <1>5, <3>1, <3>2 DEF Copies
  <2>3. e = d2
    BY <2>2 DEF fb_render
  <2>4. LinesCopied(d, d1, 0, s, rest)
    <3> HIDE DEF rest, s
    <3> QED BY <2>1, CopyLines
  <2>5. d1 \in Device
    <3>1. /\ Copy(0, s, rest).to = 0 /\ Copy(0, s, rest).from = s /\ Copy(0, s, rest).lines = rest
      BY DEF Copy
    <3>2. 0 + rest <= MaxHeight /\ s + rest <= MaxHeight
      BY <1>1, <2>1, Screen DEF Lines
    <3> QED BY <2>1, <3>1, <3>2, CopyKeeps
  <2>6. d1.back = d.back
    BY <2>4 DEF Device, LinesCopied
  <2>7. LinesCopied(d1, d2, rest, 0, s)
    <3> HIDE DEF rest, s, d1
    <3> QED BY <2>1, <2>5, CopyLines
  <2> HIDE DEF d1, d2, e
  <2>8. d2 = [d EXCEPT !.front = d2.front]
    BY <2>4, <2>7 DEF Device, LinesCopied
  <2>9. Shows(d2.front)
    <3> SUFFICES ASSUME NEW k \in Lines, NEW j \in GlyphRows
                 PROVE  d2.front[k * font_height + j] = d.back[((k + s) % MaxHeight) * font_height + j]
      OBVIOUS
    <3>1. (k + s) % MaxHeight = IF k + s < MaxHeight THEN k + s ELSE k + s - MaxHeight
      BY <1>1, Around
    <3>2. k \in Int /\ 0 <= k /\ k < MaxHeight /\ s \in Int /\ MaxHeight \in Int
      BY <1>1, Screen DEF Lines
    <3>3. CASE k < rest
      <4>1. ~(rest <= k) /\ k < 0 + rest /\ (k - 0) + s = k + s /\ k + s < MaxHeight
        BY <2>1, <3>2, <3>3
      <4> QED BY <2>4, <2>7, <3>1, <3>2, <4>1 DEF LinesCopied
    <3>4. CASE rest <= k
      <4>1. k < rest + s /\ (k - rest) + 0 = k + s - MaxHeight /\ ~(k + s < MaxHeight)
        BY <2>1, <3>2, <3>4
      <4> QED BY <2>6, <2>7, <3>1, <3>4, <4>1 DEF LinesCopied
    <3> QED BY <2>1, <3>2, <3>3, <3>4
  <2> QED BY <2>3, <2>8, <2>9
<1>6. CASE n # 0 /\ n # MaxHeight
  <2> DEFINE d1 == CopyOne(d, Copy(0, 0, n))
  <2>0. n \in Nat
    BY <1>1
  <2>1. s = 0
    BY <1>1, <1>6, Screen DEF Dirty, Lines
  <2>2. Copies(d) = <<Copy(0, 0, n)>>
    <3>1. (n + s) % MaxHeight = n
      BY <1>1, <1>6, <2>1, ModSmall, Screen
    <3>2. 0 < n /\ ~(n <= 0)
      BY <1>1, <1>6
    <3> QED BY <1>1, <1>2, <2>1, <3>1, <3>2 DEF Copies
  <2>3. e = d1
    BY <2>2 DEF fb_render
  <2>4. LinesCopied(d, d1, 0, 0, n)
    <3> HIDE DEF n
    <3> QED BY <2>0, CopyLines
  <2> HIDE DEF d1, e
  <2>5. ASSUME NEW k \in Lines, NEW j \in GlyphRows
        PROVE  d1.front[k * font_height + j] = d.back[k * font_height + j]
    <3>1. k \in Int /\ 0 <= k /\ (k - 0) + 0 = k /\ 0 + n = n
      BY <2>0, Screen DEF Lines
    <3>2. CASE k < n
      BY <2>4, <3>1, <3>2 DEF LinesCopied
    <3>3. CASE n <= k
      <4>1. d.front[k * font_height + j] = d.back[k * font_height + j]
        BY <2>0, <3>1, <3>3 DEF InStep
      <4>2. ~(k < 0 + n)
        BY <2>0, <3>1, <3>3
      <4> QED BY <2>4, <4>1, <4>2 DEF LinesCopied
    <3> QED BY <2>0, <3>1, <3>2, <3>3
  <2> QED BY <1>3, <2>1, <2>3, <2>4, <2>5 DEF LinesCopied
<1> QED BY <1>4, <1>5, <1>6

LEMMA RenderGrid ==
  ASSUME NEW d \in Device, Dirty(d), Clean(d)
  PROVE  LET e == fb_render(d)
         IN /\ Grid(e) = Grid(d) /\ Text(e.front, 0) = Grid(d) /\ Clean(e)
            /\ e.cur_x = d.cur_x /\ e.cur_y = d.cur_y
<1> DEFINE e == fb_render(d)
           s == d.back_buffer_start
<1> SUFFICES /\ Grid(e) = Grid(d) /\ Text(e.front, 0) = Grid(d) /\ Clean(e)
             /\ e.cur_x = d.cur_x /\ e.cur_y = d.cur_y
  OBVIOUS
<1>1. \A l \in Lines : (l + 0) % MaxHeight = l
  BY ModSmall, Screen DEF Lines
<1>2. CASE ~Buffered(d)
  <2>1. Copies(d) = <<>>
    BY <1>2 DEF Copies
  <2>2. e = d
    BY <2>1 DEF fb_render
  <2> HIDE DEF e
  <2> QED BY <1>2, <2>2 DEF Grid
<1>3. CASE Buffered(d)
  <2>1. /\ e = [d EXCEPT !.front = e.front]
        /\ \A k \in Lines, j \in GlyphRows :
             e.front[k * font_height + j] = d.back[((k + s) % MaxHeight) * font_height + j]
    BY <1>3, RenderRows DEF Clean
  <2> HIDE DEF e
  <2>2. e.back = d.back /\ e.back_buffer_start = s /\ e.cur_x = d.cur_x /\ e.cur_y = d.cur_y
        /\ e.front_dirty_end = d.front_dirty_end
    BY <2>1 DEF Device
  <2>3. Buffered(e) /\ Grid(e) = Grid(d)
    BY <1>3, <2>2 DEF Buffered, Grid
  <2>4. \A k \in Lines, col \in Columns : CellOf(e.front, k, col) = CellOf(d.back, (k + s) % MaxHeight, col)
    <3> TAKE k \in Lines, col \in Columns
    <3>1. Same(e.front, k, d.back, (k + s) % MaxHeight, col)
      BY <2>1 DEF Same
    <3> QED BY <3>1, SameCell
  <2>5. Text(e.front, 0) = Grid(d)
    BY <1>1, <1>3, <2>4 DEF Grid, Text
  <2>6. InStep(e)
    <3> SUFFICES ASSUME NEW k \in Lines, NEW j \in GlyphRows, k >= d.front_dirty_end
                 PROVE  e.front[k * font_height + j] = d.back[k * font_height + j]
      BY <2>2 DEF InStep
    <3>1. s = 0
      BY Screen DEF Device, Dirty, Lines
    <3> HIDE DEF s
    <3> QED BY <1>1, <2>1, <3>1
  <2> QED BY <2>2, <2>3, <2>5, <2>6 DEF Clean
<1> QED BY <1>2, <1>3

-----------------------------------------------------------------------------
(* Tab stops: the next one, and that there is none before it.              *)
LEMMA NoRest ==
  ASSUME NEW n \in Nat \ {0}, NEW k \in Int
  PROVE  (n * k) % n = 0
  OBVIOUS

LEMMA NextStop ==
  ASSUME NEW n \in Nat \ {0}, NEW a \in Nat
  PROVE  LET q == a + (n - (a % n))
         IN /\ q \in Nat /\ a < q /\ q <= a + n /\ q % n = 0
            /\ \A b \in Nat : a < b /\ b % n = 0 => q <= b
<1> DEFINE m == a % n
           q == a + (n - m)
<1>1. m \in 0 .. n - 1
  BY ModRange
<1>2. PICK k \in Int : a = n * k + m
  <2>1. a = n * (a \div n) + m /\ a \div n \in Int
    OBVIOUS
  <2> HIDE DEF m
  <2> QED BY <2>1
<1>3. q = n * (k + 1)
  <2>1. n * (k + 1) = n * k + n
    OBVIOUS
  <2>2. n * k \in Int
    OBVIOUS
  <2> HIDE DEF m
  <2> QED BY <1>1, <1>2, <2>1, <2>2
<1>4. q % n = 0
  <2>1. k + 1 \in Int
    OBVIOUS
  <2>2. (n * (k + 1)) % n = 0
    BY <2>1, NoRest
  <2> HIDE DEF q
  <2> QED BY <1>3, <2>2
<1>5. q \in Nat /\ a < q /\ q <= a + n
  BY <1>1
<1>6. ASSUME NEW b \in Nat, a < b, b % n = 0 PROVE q <= b
  <2>1. PICK l \in Int : b = n * l + (b % n)
    <3>1. b = n * (b \div n) + (b % n) /\ b \div n \in Int
      OBVIOUS
    <3> QED BY <3>1
  <2>2. b = n * l
    BY <1>6, <2>1
  <2>3. CASE l <= k
    <3>1. n * l <= n * k
      BY <2>3
    <3>2. n * k \in Int /\ n * l \in Int
      OBVIOUS
    <3> HIDE DEF m
    <3> QED BY <1>1, <1>2, <1>6, <2>2, <3>1, <3>2
  <2>4. CASE l > k
    <3>1. n * (k + 1) <= n * l
      BY <2>4
    <3> QED BY <1>3, <2>2, <3>1
  <2> QED BY <2>3, <2>4
<1> HIDE DEF q
<1> QED BY <1>4, <1>5, <1>6 DEF q
-----------------------------------------------------------------------------
(* The refinement.                                                         *)
CInv == IInv /\ Clean(fb)

LEMMA TypedIs ==
  ASSUME NEW d \in Device, NEW y \in Lines, NEW x \in Columns, NEW c
  PROVE  Typed(Grid(d), y, x, c) = [Grid(d) EXCEPT ![y][x] = c]
<1> DEFINE g == Grid(d)
<1>1. DOMAIN g = Lines /\ \A l \in Lines : g[l] = [col \in Columns |-> g[l][col]]
  BY GridIs
<1>2. [g[y] EXCEPT ![x] = c] = [col \in Columns |-> IF col = x THEN c ELSE g[y][col]]
  BY <1>1
<1> HIDE DEF g
<1>3. \A l \in Lines : [g EXCEPT ![y] = [g[y] EXCEPT ![x] = c]][l] = Typed(g, y, x, c)[l]
  BY <1>1, <1>2 DEF Typed
<1>4. [g EXCEPT ![y] = [g[y] EXCEPT ![x] = c]] = Typed(g, y, x, c)
  BY <1>1, <1>3 DEF Typed
<1> QED BY <1>4 DEF g

LEMMA ConsoleInit == Init => CInv /\ TS!Init
<1> SUFFICES ASSUME Init PROVE CInv /\ TS!Init
  OBVIOUS
<1>1. IInv
  BY InductiveInit
<1>2. fb \in Device /\ Dirty(fb)
  BY <1>1 DEF IInv, TypeOK
<1>3. /\ fb.front = [r \in FrontRows |-> BlankRow] /\ fb.back_buffer_start = 0
      /\ fb.back \in {NoBuffer, [r \in BackRows |-> BlankRow]}
      /\ fb.cur_x = 0 /\ fb.cur_y = 0 /\ fb.front_dirty_end = 0
  BY DEF Init
<1>4. Clean(fb)
  BY <1>3, RowsInside DEF Clean, InStep, NothingBelow, Buffered
<1>5. \A l \in Lines : (l + 0) % MaxHeight = l
  BY ModSmall, Screen DEF Lines
<1>6. \A k \in Lines, col \in Columns :
        /\ CellOf(fb.front, k, col) = Blank
        /\ Buffered(fb) => CellOf(fb.back, k, col) = Blank
  <2> TAKE k \in Lines, col \in Columns
  <2>1. \A j \in GlyphRows : fb.front[k * font_height + j] = BlankRow
    BY <1>3, RowsInside
  <2>2. ASSUME Buffered(fb) PROVE \A j \in GlyphRows : fb.back[k * font_height + j] = BlankRow
    BY <1>3, <2>2, RowsInside DEF Buffered
  <2> QED BY <2>1, <2>2, CellBlank
<1>7. Text(fb.front, 0) = [l \in Lines |-> [col \in Columns |-> Blank]]
  BY <1>5, <1>6 DEF Text
<1>8. Grid(fb) = [l \in Lines |-> [col \in Columns |-> Blank]]
  <2>1. Buffered(fb) => Text(fb.back, 0) = [l \in Lines |-> [col \in Columns |-> Blank]]
    BY <1>5, <1>6 DEF Text
  <2> QED BY <1>3, <1>7, <2>1 DEF Grid
<1>9. TS!Init
  BY <1>3, <1>7, <1>8 DEF TS!Init, TS!Lines, TS!BlankLine, TS!Columns, Lines, Columns, Init
<1> QED BY <1>1, <1>4, <1>9 DEF CInv

(* A step of fb_write's loop: without a back buffer the text is on the     *)
(* display at once, with one the display stays as it is.                   *)
LEMMA LagsBehind ==
  ASSUME Writes, Keeps(fb, fb')
  PROVE  TS!Writes
<1>1. CASE Buffered(fb)
  BY <1>1 DEF Keeps, TS!Writes, Writes
<1>2. CASE ~Buffered(fb)
  BY <1>2 DEF Keeps, TS!Writes, Writes, Grid
<1> QED BY <1>1, <1>2

(* Each step of the console is one of the text screen, or changes nothing  *)
(* of it.                                                                  *)
LEMMA ConsoleNext == CInv /\ [Next]_vars => CInv' /\ [TS!Next]_(TS!vars)
<1> SUFFICES ASSUME CInv, [Next]_vars PROVE CInv' /\ [TS!Next]_(TS!vars)
  OBVIOUS
<1>1. IInv' /\ fb \in Device /\ Dirty(fb) /\ Clean(fb)
  BY InductiveNext DEF CInv, IInv, TypeOK
<1>2. fb.cur_x \in Columns /\ fb.cur_y \in Lines /\ 0 \in Columns
  BY <1>1, WidthAssumption DEF Device, Columns
<1>3. CASE UNCHANGED vars
  <2>1. fb' = fb /\ writing' = writing
    BY <1>3 DEF vars
  <2> QED BY <1>1, <2>1 DEF CInv, TS!vars, Grid, Clean, InStep, NothingBelow, Buffered
<1>4. CASE Begin
  <2>1. fb' = fb /\ TS!Begin
    BY <1>4 DEF Begin, TS!Begin, Grid
  <2> QED BY <1>1, <2>1 DEF CInv, TS!Next, Clean, InStep, NothingBelow, Buffered
<1>5. CASE Newline
  <2> DEFINE d == LineFeed(fb)
  <2>1. /\ Grid(d) = IF fb.cur_y = MaxHeight - 1 THEN TS!Scrolled(Grid(fb)) ELSE Grid(fb)
        /\ d.cur_y = IF fb.cur_y = MaxHeight - 1 THEN fb.cur_y ELSE fb.cur_y + 1
        /\ Clean(d) /\ Keeps(fb, d) /\ d \in Device
    BY <1>1, LineFeedGrid, LineFeedKeeps
  <2>2. fb' = [d EXCEPT !.cur_x = 0]
    BY <1>5 DEF Newline
  <2> HIDE DEF d
  <2>3. /\ Grid(fb') = Grid(d) /\ Clean(fb') /\ Keeps(d, fb')
        /\ fb'.cur_x = 0 /\ fb'.cur_y = d.cur_y
    BY <2>1, <2>2, MoveGrid
  <2>4. Keeps(fb, fb')
    BY <2>1, <2>3 DEF Keeps
  <2>5. TS!Writes
    BY <1>5, <2>4, LagsBehind DEF Newline
  <2>6. TS!LineFeed(Grid(fb))
    BY <2>1, <2>3 DEF TS!LineFeed
  <2>7. TS!Newline
    BY <2>3, <2>5, <2>6 DEF TS!Newline
  <2> QED BY <1>1, <2>3, <2>7 DEF CInv, TS!Next
<1>6. CASE Return
  <2>1. fb' = [fb EXCEPT !.cur_x = 0]
    BY <1>6 DEF Return
  <2>2. /\ Grid(fb') = Grid(fb) /\ Clean(fb') /\ Keeps(fb, fb')
        /\ fb'.cur_x = 0 /\ fb'.cur_y = fb.cur_y
    BY <1>1, <2>1, MoveGrid
  <2>3. TS!Writes
    BY <1>6, <2>2, LagsBehind DEF Return
  <2>4. TS!Return
    BY <2>2, <2>3 DEF TS!Return
  <2> QED BY <1>1, <2>2, <2>4 DEF CInv, TS!Next
<1>7. CASE Tab
  <2> DEFINE q == fb.cur_x + (TabStop - (fb.cur_x % TabStop))
             z == IF q >= MaxWidth THEN MaxWidth - 1 ELSE q
  <2>1. fb' = [fb EXCEPT !.cur_x = z]
    BY <1>7 DEF Tab
  <2>2. fb.cur_x \in Nat
    BY <1>2 DEF Columns
  <2>3. /\ q \in Nat /\ fb.cur_x < q /\ q <= fb.cur_x + TabStop /\ q % TabStop = 0
        /\ \A b \in Nat : fb.cur_x < b /\ b % TabStop = 0 => q <= b
    BY <2>2, NextStop, WidthAssumption
  <2> HIDE DEF q, z
  <2>4. /\ Grid(fb') = Grid(fb) /\ Clean(fb') /\ Keeps(fb, fb')
        /\ fb'.cur_x = z /\ fb'.cur_y = fb.cur_y
    BY <1>1, <2>1, MoveGrid
  <2>5. TS!Writes
    BY <1>7, <2>4, LagsBehind DEF Tab, Writes
  <2>6. CASE q < MaxWidth
    <3>1. z = q
      BY <2>3, <2>6, WidthAssumption DEF z
    <3>2. q \in TS!Columns
      BY <2>3, <2>6, WidthAssumption DEF TS!Columns
    <3>3. TS!Tab
      BY <2>3, <2>4, <2>5, <3>1, <3>2 DEF TS!Tab
    <3> QED BY <1>1, <2>4, <3>3 DEF CInv, TS!Next
  <2>7. CASE q >= MaxWidth
    <3>1. z = MaxWidth - 1
      BY <2>7 DEF z
    <3>2. \A col \in TS!Columns : col > fb.cur_x => col % TabStop # 0
      <4> SUFFICES ASSUME NEW col \in TS!Columns, col > fb.cur_x, col % TabStop = 0
                   PROVE  FALSE
        OBVIOUS
      <4>1. col \in Nat /\ col < MaxWidth /\ fb.cur_x < col
        BY <2>2, WidthAssumption DEF TS!Columns
      <4>2. q <= col
        BY <2>3, <4>1
      <4> QED BY <2>3, <2>7, <4>1, <4>2, WidthAssumption
    <3>3. TS!Tab
      BY <2>4, <2>5, <3>1, <3>2 DEF TS!Tab
    <3> QED BY <1>1, <2>4, <3>3 DEF CInv, TS!Next
  <2> QED BY <2>3, <2>6, <2>7, WidthAssumption
<1>8. ASSUME NEW c \in Chars, Put(c) PROVE CInv' /\ [TS!Next]_(TS!vars)
  <2> DEFINE d == fb_line_dirty(fb_write_char_depth(fb, c), fb.cur_y)
             text == [Grid(fb) EXCEPT ![fb.cur_y][fb.cur_x] = c]
             e == [d EXCEPT !.cur_x = 0]
  <2>1. /\ Grid(d) = Typed(Grid(fb), fb.cur_y, fb.cur_x, c) /\ Clean(d) /\ Keeps(fb, d)
        /\ d.cur_x = fb.cur_x /\ d.cur_y = fb.cur_y /\ d \in Device
    BY <1>1, DrawGrid, DrawKeeps
  <2>2. fb' = IF fb.cur_x + 1 = MaxWidth THEN LineFeed(e) ELSE [d EXCEPT !.cur_x = fb.cur_x + 1]
    BY <1>8, <2>1 DEF Put, Device
  <2> HIDE DEF d
  <2>3. Grid(d) = text
    BY <1>1, <1>2, <2>1, TypedIs
  <2>4. fb.cur_x + 1 = MaxWidth <=> fb.cur_x = MaxWidth - 1
    BY <1>2, WidthAssumption DEF Columns
  <2>5. Writes
    BY <1>8 DEF Put
  <2> HIDE DEF text
  <2>6. CASE fb.cur_x + 1 = MaxWidth
    <3>1. /\ Grid(e) = Grid(d) /\ Clean(e) /\ Keeps(d, e) /\ e.cur_x = 0 /\ e.cur_y = d.cur_y
      BY <2>1, MoveGrid
    <3>2. e \in Device
      BY <1>2, <2>1 DEF Device
    <3> HIDE DEF e
    <3>3. fb' = LineFeed(e)
      BY <2>2, <2>6
    <3>4. /\ Grid(fb') = IF fb.cur_y = MaxHeight - 1 THEN TS!Scrolled(text) ELSE text
          /\ fb'.cur_y = IF fb.cur_y = MaxHeight - 1 THEN fb.cur_y ELSE fb.cur_y + 1
          /\ fb'.cur_x = 0 /\ Clean(fb') /\ Keeps(e, fb')
      BY <2>1, <2>3, <3>1, <3>2, <3>3, LineFeedGrid
    <3>5. Keeps(fb, fb')
      BY <2>1, <3>1, <3>4 DEF Keeps
    <3>6. TS!Writes
      BY <2>5, <3>5, LagsBehind
    <3>7. TS!LineFeed(text)
      BY <3>4 DEF TS!LineFeed
    <3>8. TS!Put(c)
      BY <2>4, <2>6, <3>4, <3>6, <3>7 DEF TS!Put, text
    <3> QED BY <1>1, <3>4, <3>8 DEF CInv, TS!Next
  <2>7. CASE fb.cur_x + 1 # MaxWidth
    <3>1. fb' = [d EXCEPT !.cur_x = fb.cur_x + 1]
      BY <2>2, <2>7
    <3>2. /\ Grid(fb') = text /\ Clean(fb') /\ Keeps(d, fb')
          /\ fb'.cur_x = fb.cur_x + 1 /\ fb'.cur_y = fb.cur_y
      BY <2>1, <2>3, <3>1, MoveGrid
    <3>3. Keeps(fb, fb')
      BY <2>1, <3>2 DEF Keeps
    <3>4. TS!Writes
      BY <2>5, <3>3, LagsBehind
    <3>5. TS!Put(c)
      BY <2>4, <2>7, <3>2, <3>4 DEF TS!Put, text
    <3> QED BY <1>1, <3>2, <3>5 DEF CInv, TS!Next
  <2> QED BY <2>6, <2>7
<1>9. CASE Render
  <2>1. fb' = fb_render(fb)
    BY <1>9 DEF Render
  <2>2. /\ Grid(fb') = Grid(fb) /\ Text(fb'.front, 0) = Grid(fb) /\ Clean(fb')
        /\ fb'.cur_x = fb.cur_x /\ fb'.cur_y = fb.cur_y
    BY <1>1, <2>1, RenderGrid
  <2>3. TS!End
    BY <1>9, <2>2 DEF Render, TS!End
  <2> QED BY <1>1, <2>2, <2>3 DEF CInv, TS!Next
<1> QED BY <1>3, <1>4, <1>5, <1>6, <1>7, <1>8, <1>9 DEF Next

(* The framebuffer console is a text screen: what was written is in the    *)
(* back buffer, scrolled as it should be, and on the display when fb_write *)
(* returns, for every screen and font size, any text, with and without a   *)
(* back buffer or padded scanlines.                                        *)
THEOREM ImplementsScreen == Spec => ImplementsTextScreen
  BY ConsoleInit, ConsoleNext, PTL DEF Spec, ImplementsTextScreen, TS!Spec
=============================================================================
