---------------------------- MODULE RouteSearch ----------------------------
(***************************************************************************)
(* The route search of AwNav against a reference definition.  A state is a *)
(* placement of robots on the floor: robot 1, for which a route is sought, *)
(* and up to MaxOthers robots in its way, which join one at a time.        *)
(***************************************************************************)
EXTENDS AwNav

CONSTANTS
  MaxOthers,   \* robots in the way
  NavItems     \* items robot 1 may be sent for

VARIABLE rs

NavInit == rs = <<>>

\* Robot 1 on its way to its item or, loaded, to its destination.  It stands
\* on open floor or, loaded, still on the cell of its item.
StartRoute ==
  /\ rs = <<>>
  /\ \E item \in NavItems, dest \in {"A", "B", "C"}, loaded \in BOOLEAN, c \in Floor :
       /\ CellAt(c) \in DigitChars => loaded /\ c = get_item_position(item)
       /\ ~loaded => dest = "A"     \* the destination matters once loaded,
       /\ loaded /\ CellAt(c) \notin DigitChars => item = Min(NavItems)    \* the item until then
       /\ rs' = <<[pos |-> c, item |-> item, dest |-> dest,
                   payload |-> IF loaded THEN item ELSE 0]>>

\* One more robot, on any cell where the simulation allows it; the others are
\* kept in row-major order, since nothing depends on their order.
Join ==
  /\ Len(rs) \in 1 .. MaxOthers
  /\ \E c \in Floor :
       /\ is_shared_place(c) \/ \A i \in DOMAIN rs : rs[i].pos # c
       /\ Len(rs) > 1 => RowMajor(rs[Len(rs)].pos) <= RowMajor(c)
       /\ rs' = Append(rs, [pos |-> c, item |-> 1, dest |-> "A", payload |-> 0])

NavNext == StartRoute \/ Join

-----------------------------------------------------------------------------
\* Layers(c, open)[n + 1] is the set of cells n steps away from c and no
\* nearer, every step into a cell of open.
Layers(c, open) ==
  LET Beyond(layers) ==
        {d \in {s[2] : s \in {t \in Steps : t[1] \in layers[Len(layers)]}} :
           d \in open /\ \A n \in DOMAIN layers : d \notin layers[n]}
      upTo[n \in 0 .. QueueBound] ==
        IF n = 0 THEN << {c} >>
        ELSE CHOOSE q \in {IF p[Len(p)] = {} THEN p ELSE Append(p, Beyond(p)) :
                             p \in {upTo[n - 1]}} : TRUE
  IN  upTo[QueueBound]

\* The search answers with the first direction, in the order up, down, left,
\* right, that begins a shortest path to the best cell, and with WAIT only if no
\* reachable cell is nearer to the target than the robot is.  The best cell is the
\* one of the lowest rank among those within reach: nearest to the target, then
\* where the robot is, then first in row-major order.  Distances are measured from
\* it, in layers that grow around it.
ShortestStep ==
  rs # <<>> =>
  LET start  == rs[1].pos
      target == get_robot_target(rs[1])
      To(d)  == get_next_position(start, d)
      open   == {c \in Floor : ~is_blocked_cell(rs, 1, c)}
      exits  == {d \in Directions : To(d) \in open}
      IsShortest(d, layers) ==
        \E n \in DOMAIN layers :
          /\ To(d) \in layers[n]
          /\ \A e \in exits, k \in 1 .. n - 1 : To(e) \notin layers[k]
      Rank(c) == get_distance(c, target) * (MAP_HEIGHT * MAP_WIDTH + 1)
                   + IF c = start THEN 0 ELSE 1 + RowMajor(c)
      Best(within) == CHOOSE c \in within : \A d \in within : Rank(c) <= Rank(d)
  IN  \A goal \in {Best(within) : within \in {UNION Range(Layers(start, open))}} :
      \A layers \in {Layers(goal, open)} :
        get_next_direction(rs, 1, target) =
          IF goal = start THEN 0
          ELSE Min({d \in exits : IsShortest(d, layers)})
=============================================================================
