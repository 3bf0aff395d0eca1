----------------------------- MODULE TextScreen -----------------------------
(***************************************************************************)
(* What a console device promises to whoever writes to it: a grid of       *)
(* character cells with a cursor, line feed and wrap-around at the right   *)
(* margin that scroll at the bottom, and a display that shows the grid by  *)
(* the time the write returns.  There are no pixels or buffers here.       *)
(***************************************************************************)
EXTENDS Integers

CONSTANTS
  MaxWidth, MaxHeight,  \* the size of the grid
  TabStop,              \* distance of the tab stops
  Chars,                \* the printable characters
  Blank                 \* an empty cell

VARIABLES
  cells,    \* the text, line by line
  x, y,     \* the cursor
  shown,    \* what the display shows
  writing   \* a write is under way

vars == <<cells, x, y, shown, writing>>

Lines   == 0 .. MaxHeight - 1
Columns == 0 .. MaxWidth - 1

BlankLine == [col \in Columns |-> Blank]
Scrolled(text) ==
  [l \in Lines |-> IF l = MaxHeight - 1 THEN BlankLine ELSE text[l + 1]]

(* The cursor goes to line y + 1, or the text moves up under it.           *)
LineFeed(text) ==
  IF y = MaxHeight - 1
  THEN cells' = Scrolled(text) /\ y' = y
  ELSE cells' = text /\ y' = y + 1

Init ==
  /\ cells = [l \in Lines |-> BlankLine] /\ shown = cells
  /\ x = 0 /\ y = 0 /\ writing = FALSE

Begin == ~writing /\ writing' = TRUE /\ UNCHANGED <<cells, x, y, shown>>

(* While a write is under way the display may lag behind.                  *)
Writes ==
  /\ writing /\ writing' = TRUE
  /\ shown' = shown \/ shown' = cells'

Newline == Writes /\ LineFeed(cells) /\ x' = 0

Return == Writes /\ x' = 0 /\ UNCHANGED <<cells, y>>

(* To the next tab stop, but not past the last column.                     *)
Tab ==
  /\ Writes
  /\ \/ x' \in {col \in Columns : col > x /\ col <= x + TabStop /\ col % TabStop = 0}
     \/ /\ \A col \in Columns : col > x => col % TabStop # 0
        /\ x' = MaxWidth - 1
  /\ UNCHANGED <<cells, y>>

Put(c) ==
  LET text == [cells EXCEPT ![y][x] = c]
  IN /\ Writes
     /\ IF x = MaxWidth - 1
        THEN x' = 0 /\ LineFeed(text)
        ELSE x' = x + 1 /\ cells' = text /\ y' = y

End == writing /\ writing' = FALSE /\ shown' = cells /\ UNCHANGED <<cells, x, y>>

Next == Begin \/ Newline \/ Return \/ Tab \/ (\E c \in Chars : Put(c)) \/ End

Spec == Init /\ [][Next]_vars

=============================================================================
