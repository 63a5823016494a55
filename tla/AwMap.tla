------------------------------- MODULE AwMap -------------------------------
(***************************************************************************)
(* The warehouse floor: the fixed map of aw_manager.c and the geometry     *)
(* that automated_warehouse.c computes on it.  A cell is a pair            *)
(* <<row, col>>, counted from zero as in the code.                         *)
(***************************************************************************)
EXTENDS Integers, Sequences, FiniteSetsExt

MAP_HEIGHT == 7
MAP_WIDTH == 7

map_draw_default ==
  << << "X", "X", "X", "X", "X", "X", "X" >>,
     << "A", " ", " ", "7", " ", " ", "X" >>,
     << "X", " ", "1", "X", "4", " ", "X" >>,
     << "B", " ", "2", "X", "5", " ", "X" >>,
     << "X", " ", "3", "X", "6", " ", "X" >>,
     << "C", " ", " ", " ", " ", "S", "X" >>,
     << "X", "X", "X", "X", "X", "W", "X" >> >>

Cells == (0 .. MAP_HEIGHT - 1) \X (0 .. MAP_WIDTH - 1)

\* The character at a cell of the map.
CellAt(c) == map_draw_default[c[1] + 1][c[2] + 1]

\* The places of aw_manager.h (ROW_A, COL_A and so on).
PlaceA == <<1, 0>>
PlaceB == <<3, 0>>
PlaceC == <<5, 0>>
PlaceS == <<5, 5>>
PlaceW == <<6, 5>>

\* The digit characters '1' .. '9', indexed by their value.
Digit == << "1", "2", "3", "4", "5", "6", "7", "8", "9" >>
DigitChars == {Digit[d] : d \in 1 .. 9}

\* Row-major order, in which the code scans the map.
RowMajor(c) == c[1] * MAP_WIDTH + c[2]

is_shared_place(c) == CellAt(c) \in {"A", "B", "C", "W"}

\* An item is on the map at most once: the first cell found is the only one.
ASSUME ItemsOnce ==
  \A c, d \in Cells : CellAt(c) \in DigitChars /\ CellAt(c) = CellAt(d) => c = d

get_item_position(item) ==
  IF \E c \in Cells : CellAt(c) = Digit[item]
    THEN CHOOSE c \in Cells : CellAt(c) = Digit[item]
    ELSE PlaceS

get_destination_position(destination) ==
  IF destination = "A" THEN PlaceA
  ELSE IF destination = "B" THEN PlaceB
  ELSE IF destination = "C" THEN PlaceC
  ELSE PlaceW

Abs(n) == IF n < 0 THEN -n ELSE n

get_distance(c, target) == Abs(c[1] - target[1]) + Abs(c[2] - target[2])

\* Commands: 0 = WAIT, 1 = UP, 2 = DOWN, 3 = LEFT, 4 = RIGHT.
Directions == 1 .. 4
dr == <<-1, 1, 0, 0>>
dc == <<0, 0, -1, 1>>

get_next_position(c, direction) ==
  IF direction \in Directions THEN <<c[1] + dr[direction], c[2] + dc[direction]>>
  ELSE c
=============================================================================
