------------------------------- MODULE AwNav -------------------------------
(***************************************************************************)
(* Route planning of automated_warehouse.c: which cells a robot may enter, *)
(* the breadth-first search for its next step, and the step a robot takes  *)
(* to get out of the way.  Everything here is a function of the array      *)
(* robots (rs) as the calling thread sees it; no state is changed.         *)
(*                                                                         *)
(* rs[i] is a record with fields pos, payload and item (required_item).    *)
(***************************************************************************)
EXTENDS AwMap

\* The loop over robots[] returns at the first robot found on the cell.  All
\* robots on one cell give the same answer, so the loop is a quantifier.
is_blocked_cell(rs, i, c) ==
  IF c \notin Cells \/ CellAt(c) = "X" THEN TRUE
  ELSE IF \E j \in DOMAIN rs : rs[j].pos = c THEN ~is_shared_place(c)
  ELSE CellAt(c) \in DigitChars
         /\ ~(rs[i].payload = 0 /\ CellAt(c) = Digit[rs[i].item])

get_robot_target(r) ==
  IF r.payload = 0 THEN get_item_position(r.item)
                   ELSE get_destination_position(r.dest)

-----------------------------------------------------------------------------
\* Variant of Neighbours: the directions in reverse order.
NeighboursReversed(c) == [d \in Directions |-> get_next_position(c, 5 - d)]

\* Breadth-first search from the cell of robot i.  The queue arrays of the
\* code only grow and no cell is queued twice, so the search is the sequence
\* of cells ever queued; iteration n dequeues the n-th of them and queues its
\* open neighbours that are new.  Only cells that are not walls are queued,
\* which bounds the loop.
Neighbours(c) == [d \in Directions |-> get_next_position(c, d)]

Floor == {c \in Cells : CellAt(c) # "X"}
QueueBound == Cardinality(Floor)
Steps == UNION {{<<c, d>> : d \in Range(Neighbours(c))} : c \in Floor}

Visit(rs, i, queue, n) ==
  IF n > Len(queue) THEN queue
  ELSE queue \o SelectSeq(Neighbours(queue[n]),
                 LAMBDA c : ~is_blocked_cell(rs, i, c) /\ c \notin Range(queue))

\* The singleton binds the value of the previous iteration, so that it is
\* computed once.
Queue(rs, i) ==
  LET after[n \in 0 .. QueueBound] ==
        IF n = 0 THEN <<rs[i].pos>>
        ELSE CHOOSE q \in {Visit(rs, i, p, n) : p \in {after[n - 1]}} : TRUE
  IN  after[QueueBound]

\* parent[c]: the cell from which c was queued, the first of its neighbours to
\* be dequeued; the start is its own parent.
Parent(queue) ==
  [c \in Range(queue) |->
     IF c = queue[1] THEN c
     ELSE queue[Min({k \in DOMAIN queue : <<queue[k], c>> \in Steps})]]

\* The target itself if the search reached it; otherwise the first cell, in
\* row-major order, among the reached ones that are nearest to the target,
\* unless none is nearer than the robot already is.
Goal(reached, start, target) ==
  LET Dist(c) == get_distance(c, target)
      nearest == {c \in reached : \A d \in reached : Dist(c) <= Dist(d)}
  IN  IF target \in reached THEN target
      ELSE IF start \in nearest THEN start
      ELSE CHOOSE c \in nearest : \A d \in nearest : RowMajor(c) <= RowMajor(d)

\* Direction from a cell to another one, by the comparisons at the end of
\* get_next_direction.
DirectionTo(from, to) ==
  IF to[1] < from[1] THEN 1
  ELSE IF to[1] > from[1] THEN 2
  ELSE IF to[2] < from[2] THEN 3
  ELSE IF to[2] > from[2] THEN 4
  ELSE 0

\* The path is followed back from the goal to the cell after the start.
Route(parent, start, target) ==
  LET first[c \in DOMAIN parent] ==
        IF c = start \/ parent[c] = start THEN c ELSE first[parent[c]]
  IN  DirectionTo(start, first[Goal(DOMAIN parent, start, target)])

get_next_direction(rs, i, target) ==
  CHOOSE d \in {Route(parent, rs[i].pos, target) :
                   parent \in {Parent(q) : q \in {Queue(rs, i)}}} : TRUE

-----------------------------------------------------------------------------
\* Score of an escape move to cell c: farther from the target is better, then
\* shared places, the start cell S and blank cells in that order.
EscapeScore(from, c, target) ==
  (get_distance(c, target) - get_distance(from, target)) * 100
    + (IF is_shared_place(c) THEN 100
       ELSE IF CellAt(c) = "S" THEN 20
       ELSE IF CellAt(c) = " " THEN 10
       ELSE 0)

get_escape_direction(rs, i, target) ==
  LET from == rs[i].pos
      To(d) == get_next_position(from, d)
      open == {d \in Directions :
                 /\ ~is_blocked_cell(rs, i, To(d))
                 /\ get_distance(To(d), target) >= get_distance(from, target)}
      Score(d) == EscapeScore(from, To(d), target)
  IN  IF open = {} THEN 0
      ELSE Min({d \in open : \A e \in open : Score(d) >= Score(e)})
=============================================================================
