-------------------------------- MODULE Vga --------------------------------
(***************************************************************************)
(* The text display (vga.c): vga_putc on a frame buffer of ROW_CNT rows    *)
(* and COL_CNT columns.  The display starts where the hardware cursor is.  *)
(* `paper' is what was printed so far, by rows, on a roll without end; the *)
(* display should show its last rows.                                      *)
(***************************************************************************)
EXTENDS Integers, Sequences

CONSTANTS
  ROW_CNT, COL_CNT,
  TabStop,      \* 8 in the code
  Glyph,        \* characters that are not control characters
  MaxChars      \* characters printed

VARIABLES
  fb,           \* the frame buffer: a row is a sequence of characters
  cx, cy,
  inited,
  cursor,       \* the position in the hardware's cursor registers
  printed,      \* characters so far
  paper, col    \* the rows printed, and the column on the last of them

vgaVars == <<fb, cx, cy, inited, cursor, printed, paper, col>>

Space == " "
Control == {"newline", "formfeed", "backspace", "return", "tab", "bell"}
BlankRow == [x \in 1 .. COL_CNT |-> Space]
BlankScreen == [y \in 1 .. ROW_CNT |-> BlankRow]

VgaInit ==
  /\ fb = BlankScreen /\ cx = 0 /\ cy = 0 /\ inited = FALSE
  /\ cursor = 0 /\ printed = 0
  /\ paper = <<BlankRow>> /\ col = 0

\* The boot loader leaves a blank screen and the cursor somewhere on it.
BootCursor ==
  /\ ~inited
  /\ cursor' \in 0 .. ROW_CNT * COL_CNT - 1
  /\ paper' = [y \in 1 .. cursor' \div COL_CNT + 1 |-> BlankRow]
  /\ col' = cursor' % COL_CNT
  /\ UNCHANGED <<fb, cx, cy, inited, printed>>

\* init, called for every character: find_cursor, the first time.
X == IF inited THEN cx ELSE cursor % COL_CNT
Y == IF inited THEN cy ELSE cursor \div COL_CNT

Display(rows, x, y) == [fb |-> rows, cx |-> x, cy |-> y]
ROUND_UP_TAB(n) == ((n + TabStop - 1) \div TabStop) * TabStop

\* Variant of Scrolled: the last row is not cleared.
ScrolledCopy(rows) == [y \in 1 .. ROW_CNT |-> IF y < ROW_CNT THEN rows[y + 1] ELSE rows[y]]

Scrolled(rows) == [y \in 1 .. ROW_CNT |-> IF y < ROW_CNT THEN rows[y + 1] ELSE BlankRow]

newline(rows, y) ==
  IF y + 1 >= ROW_CNT THEN Display(Scrolled(rows), 0, ROW_CNT - 1) ELSE Display(rows, 0, y + 1)

\* The switch of vga_putc: what the display is after character c.
Put(c) ==
  CASE c = "newline"   -> newline(fb, Y)
    [] c = "formfeed"  -> Display(BlankScreen, 0, 0)                  \* cls
    [] c = "backspace" -> Display(fb, IF X > 0 THEN X - 1 ELSE X, Y)
    [] c = "return"    -> Display(fb, 0, Y)
    [] c = "tab"       -> IF ROUND_UP_TAB(X + 1) >= COL_CNT THEN newline(fb, Y)
                          ELSE Display(fb, ROUND_UP_TAB(X + 1), Y)
    [] c = "bell"      -> Display(fb, X, Y)
    [] OTHER           -> LET rows == [fb EXCEPT ![Y + 1][X + 1] = c]
                          IN  IF X + 1 >= COL_CNT THEN newline(rows, Y)
                              ELSE Display(rows, X + 1, Y)

\* The same character on the roll of paper.
Stops == {n \in 0 .. COL_CNT - 1 : n % TabStop = 0 /\ n > col}
NewRow == paper' = Append(paper, BlankRow) /\ col' = 0

Roll(c) ==
  \/ c = "newline" /\ NewRow
  \/ c = "formfeed" /\ paper' = <<BlankRow>> /\ col' = 0
  \/ c = "backspace" /\ col' = (IF col = 0 THEN 0 ELSE col - 1) /\ UNCHANGED paper
  \/ c = "return" /\ col' = 0 /\ UNCHANGED paper
  \/ c = "tab" /\ Stops = {} /\ NewRow
  \/ c = "tab" /\ Stops # {} /\ UNCHANGED paper
     /\ col' = CHOOSE n \in Stops : \A k \in Stops : n <= k
  \/ c = "bell" /\ UNCHANGED <<paper, col>>
  \/ /\ c \in Glyph
     /\ LET row == [paper EXCEPT ![Len(paper)][col + 1] = c]
        IN  IF col + 1 = COL_CNT THEN paper' = Append(row, BlankRow) /\ col' = 0
                                 ELSE paper' = row /\ col' = col + 1

\* One character; interrupts are off, but for the time of a beep.
vga_putc(c) ==
  /\ printed < MaxChars
  /\ fb' = Put(c).fb /\ cx' = Put(c).cx /\ cy' = Put(c).cy
  /\ cursor' = Put(c).cx + COL_CNT * Put(c).cy                        \* move_cursor
  /\ printed' = printed + 1
  /\ inited' = TRUE
  /\ Roll(c)

VgaNext == BootCursor \/ \E c \in Control \cup Glyph : vga_putc(c)

-----------------------------------------------------------------------------
\* vga.c: the screen shows the last rows printed, and blank rows below them; the
\* cursor, in the driver and in the hardware, is where the next character goes and
\* never off the screen, whatever is printed at its right and lower edges.
VgaExact ==
  /\ X \in 0 .. COL_CNT - 1 /\ Y \in 0 .. ROW_CNT - 1
  /\ cursor = X + COL_CNT * Y
  /\ X = col
  /\ Len(paper) > Y /\ (Y < ROW_CNT - 1 => Len(paper) = Y + 1)
  /\ \A y \in 1 .. ROW_CNT :
       fb[y] = IF y <= Y + 1 THEN paper[Len(paper) - Y - 1 + y] ELSE BlankRow
=============================================================================
