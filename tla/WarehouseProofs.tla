-------------------------- MODULE WarehouseProofs --------------------------
(***************************************************************************)
(* Proofs about Warehouse for any number of robots and any tasks.          *)
(***************************************************************************)
EXTENDS Warehouse, TLAPS

-----------------------------------------------------------------------------
(* The operators of AwMap and AwNav.                                       *)

\* The next cell is a pair of integers.
LEMMA NextPositionType ==
  ASSUME NEW c \in Int \X Int, NEW d
  PROVE  get_next_position(c, d) \in Int \X Int
  BY DEF get_next_position, Directions, dr, dc

\* DirectionTo answers with a command, whatever the two cells are.
LEMMA DirectionToType ==
  ASSUME NEW x, NEW y
  PROVE  DirectionTo(x, y) \in Commands
  BY DEF DirectionTo, Commands, Directions

\* get_next_direction answers with a command.
LEMMA NextDirectionType ==
  ASSUME NEW rs, NEW i, NEW t
  PROVE  get_next_direction(rs, i, t) \in Commands
<1> DEFINE Answers == {Route(parent, rs[i].pos, t) :
                         parent \in {Parent(q) : q \in {Queue(rs, i)}}}
<1>1. \A d \in Answers : d \in Commands
  BY Zenon, DirectionToType DEF Route
<1>2. Answers # {}
  OBVIOUS
<1> QED
  BY Zenon, <1>1, <1>2 DEF get_next_direction

\* Among at least one of the four directions there is a best one, for any score.
LEMMA BestDirection ==
  ASSUME NEW open \in SUBSET Directions, open # {},
         NEW score \in [Directions -> Int]
  PROVE  \E d \in open : \A e \in open : score[d] >= score[e]
<1> DEFINE Upto(k) == {d \in open : d <= k}
           Best(k) == Upto(k) = {} \/ \E d \in Upto(k) : \A e \in Upto(k) : score[d] >= score[e]
<1>0. \A d \in open : d \in 1 .. 4 /\ score[d] \in Int
  BY Zenon DEF Directions
<1>1. Best(1)
  <2>1. \A d \in Upto(1) : d = 1
    BY <1>0
  <2> QED
    BY <1>0, <2>1
<1>2. ASSUME NEW k \in 1 .. 3, Best(k)
      PROVE  Best(k + 1)
  <2>1. \A d \in Upto(k + 1) : d \in Upto(k) \/ d = k + 1
    BY <1>0
  <2>2. Upto(k) \subseteq Upto(k + 1)
    BY <1>0
  <2>3. CASE k + 1 \notin open
    BY Zenon, <1>2, <2>1, <2>2, <2>3
  <2>4. CASE k + 1 \in open /\ Upto(k) = {}
    BY <1>0, <2>1, <2>4
  <2>5. CASE k + 1 \in open /\ Upto(k) # {}
    <3>1. PICK d \in Upto(k) : \A e \in Upto(k) : score[d] >= score[e]
      BY Zenon, <1>2, <2>5
    <3>2. CASE score[d] >= score[k + 1]
      BY Zenon, <1>0, <2>1, <2>2, <3>1, <3>2
    <3>3. CASE score[d] < score[k + 1]
      BY <1>0, <2>1, <2>5, <3>1, <3>3
    <3> QED
      BY <1>0, <2>5, <3>1, <3>2, <3>3
  <2> QED
    BY Zenon, <2>3, <2>4, <2>5
<1>3. Best(4)
  <2>1. Best(2)
    BY <1>1, <1>2
  <2>2. Best(3)
    BY <2>1, <1>2
  <2> QED
    BY <2>2, <1>2
<1>4. Upto(4) = open
  BY <1>0
<1> QED
  BY Zenon, <1>3, <1>4

\* Min picks a member of a set of directions.
LEMMA LeastDirection ==
  ASSUME NEW best \in SUBSET Directions, best # {}
  PROVE  Min(best) \in best
<1>1. [d \in Directions |-> 0 - d] \in [Directions -> Int]
  BY DEF Directions
<1>2. PICK d \in best : \A e \in best : 0 - d >= 0 - e
  BY Zenon, <1>1, BestDirection
<1>3. \A e \in best : d <= e
  BY <1>2 DEF Directions
<1> QED
  BY Zenon, <1>2, <1>3 DEF Min

\* Distances and scores are integers.
LEMMA EscapeScoreType ==
  ASSUME NEW from \in Int \X Int, NEW c \in Int \X Int, NEW t \in Int \X Int
  PROVE  EscapeScore(from, c, t) \in Int
<1> DEFINE bonus == IF is_shared_place(c) THEN 100
                    ELSE IF CellAt(c) = "S" THEN 20
                    ELSE IF CellAt(c) = " " THEN 10
                    ELSE 0
           far  == get_distance(c, t)
           near == get_distance(from, t)
<1>1. \A x, y \in Int \X Int : get_distance(x, y) \in Int
  BY DEF get_distance, Abs
<1>2. far \in Int /\ near \in Int
  BY Zenon, <1>1
<1>3. bonus \in Int
  OBVIOUS
<1>4. EscapeScore(from, c, t) = (far - near) * 100 + bonus
  BY Zenon DEF EscapeScore
<1> HIDE DEF bonus, far, near
<1>5. (far - near) * 100 + bonus \in Int
  BY <1>2, <1>3
<1> QED
  BY Zenon, <1>4, <1>5

\* get_escape_direction answers WAIT or a direction whose cell is not blocked.
LEMMA EscapeDirection ==
  ASSUME NEW rs, NEW i, rs[i].pos \in Int \X Int, NEW t \in Int \X Int,
         NEW d, d = get_escape_direction(rs, i, t)
  PROVE  /\ d \in Commands
         /\ d # 0 => ~is_blocked_cell(rs, i, get_next_position(rs[i].pos, d))
<1> DEFINE To(e) == get_next_position(rs[i].pos, e)
           open == {e \in Directions :
                      /\ ~is_blocked_cell(rs, i, To(e))
                      /\ get_distance(To(e), t) >= get_distance(rs[i].pos, t)}
           score == [e \in Directions |-> EscapeScore(rs[i].pos, To(e), t)]
           best == {e \in open : \A f \in open : score[e] >= score[f]}
<1>1. score \in [Directions -> Int]
  BY Zenon, NextPositionType, EscapeScoreType
<1>2. d = IF open = {} THEN 0 ELSE Min(best)
  BY Zenon DEF get_escape_direction
<1>3. CASE open = {}
  BY Zenon, <1>2, <1>3 DEF Commands
<1>4. CASE open # {}
  <2>1. best # {}
    BY Zenon, <1>1, <1>4, BestDirection
  <2>2. Min(best) \in best
    BY Zenon, <2>1, LeastDirection
  <2> QED
    BY Zenon, <1>2, <1>4, <2>2 DEF Commands
<1> QED
  BY Zenon, <1>3, <1>4

\* A cell that is not blocked is empty or shared.
LEMMA OpenCell ==
  ASSUME NEW rs, NEW i, NEW c, ~is_blocked_cell(rs, i, c),
         NEW j \in DOMAIN rs, rs[j].pos = c
  PROVE  is_shared_place(c)
  BY Zenon DEF is_blocked_cell

-----------------------------------------------------------------------------
(* Type correctness.                                                       *)

\* The fixed places are cells.
LEMMA PlaceTypes ==
  /\ PlaceW \in Int \X Int
  /\ \A item : get_item_position(item) \in Int \X Int
  /\ \A dest : get_destination_position(dest) \in Int \X Int
<1>1. /\ PlaceA \in Int \X Int /\ PlaceB \in Int \X Int /\ PlaceC \in Int \X Int
      /\ PlaceS \in Int \X Int /\ PlaceW \in Int \X Int
  BY DEF PlaceA, PlaceB, PlaceC, PlaceS, PlaceW
<1>2. Cells \subseteq Int \X Int
  BY DEF Cells, MAP_HEIGHT, MAP_WIDTH
<1> QED
  BY Zenon, <1>1, <1>2 DEF get_item_position, get_destination_position

\* Every robot's next target is a cell.
LEMMA TargetType ==
  ASSUME NEW r
  PROVE  get_robot_target(r) \in Int \X Int
  BY Zenon, PlaceTypes DEF get_robot_target

\* The type invariant is inductive: it holds initially and every action of a
\* robot thread or of the central thread preserves it.
LEMMA TypeInit ==
  ASSUME Init
  PROVE  TypeOK
<1>1. PICK tasks \in TaskSets : robots = [i \in Robots |-> setRobot(tasks[i])]
  BY Zenon DEF Init
<1>2. tasks \in [Robots -> [item : Items, dest : Places]]
  BY Zenon, <1>1, WarehouseAssumption DEF WarehouseAssumption
<1>3. robots \in [Robots -> RobotRecord]
  BY Zenon, <1>1, <1>2, PlaceTypes DEF setRobot, RobotRecord, Items
<1>4. <<0, 0>> \in Int \X Int
  OBVIOUS
<1>5. NullStatus \in StatusRecord
  BY Zenon, <1>4 DEF NullStatus, StatusRecord
<1> QED
  BY SMTT(30), <1>3, <1>4, <1>5, WarehouseAssumption
  DEF Init, TypeOK, ControlPoints, Commands, WarehouseAssumption, NoRobot

\* The updates of one entry of robots[].
LEMMA RobotUpdates ==
  ASSUME NEW r \in RobotRecord
  PROVE  /\ [r EXCEPT !.completed = FALSE] \in RobotRecord
         /\ \A p \in Int \X Int : [r EXCEPT !.pos = p] \in RobotRecord
         /\ Handled(r) \in RobotRecord
         /\ \A m \in StatusRecord : Received(r, m) \in RobotRecord
<1> USE DEF RobotRecord
<1>1. [r EXCEPT !.completed = FALSE] \in RobotRecord
  BY Zenon
<1>2. ASSUME NEW p \in Int \X Int
      PROVE  [r EXCEPT !.pos = p] \in RobotRecord
  OBVIOUS
<1>3. [r EXCEPT !.payload = r.required] \in RobotRecord
  OBVIOUS
<1>4. [r EXCEPT !.payload = 0, !.completed = TRUE] \in RobotRecord
  BY Zenon
<1>5. ASSUME NEW m \in StatusRecord
      PROVE  Received(r, m) \in RobotRecord
  BY Zenon DEF Received, StatusRecord
<1> QED
  BY <1>1, <1>2, <1>3, <1>4, <1>5 DEF Handled

\* A step of a robot thread keeps the types.
LEMMA TypeRobot ==
  ASSUME TypeOK, NEW i \in Robots, Robot(i)
  PROVE  TypeOK'
<1> USE DEF RobotGoes, centralVars, clock, planVars, ControlPoints
<1>1. CASE Start(i)
  <2>1. robots[i] \in RobotRecord
    BY Zenon DEF TypeOK
  <2>2. [robots[i] EXCEPT !.completed = FALSE] \in RobotRecord
    BY Zenon, <2>1, RobotUpdates
  <2> QED
    BY Zenon, <1>1, <2>2 DEF TypeOK, Start
<1>2. CASE Report(i)
  BY Zenon, <1>2 DEF TypeOK, Report, RobotRecord, StatusRecord, Status
<1>3. CASE Block(i)
  BY Zenon, <1>3 DEF TypeOK, Block
<1>4. CASE Command(i)
  BY ZenonT(30), <1>4 DEF TypeOK, Command
<1>5. CASE Check(i)
  <2>1. get_next_position(robots[i].pos, cmd[i]) \in Int \X Int
    BY Zenon, NextPositionType DEF TypeOK, RobotRecord
  <2> QED
    BY Zenon, <1>5, <2>1 DEF TypeOK, Check
<1>6. CASE Commit(i)
  <2>1. robots[i] \in RobotRecord /\ to[i] \in Int \X Int
    BY Zenon DEF TypeOK
  <2>2. [robots[i] EXCEPT !.pos = to[i]] \in RobotRecord
    BY Zenon, <2>1, RobotUpdates
  <2> QED
    BY Zenon, <1>6, <2>2 DEF TypeOK, Commit
<1>7. CASE Handle(i)
  <2>1. Handled(robots[i]) \in RobotRecord
    BY Zenon, RobotUpdates DEF TypeOK
  <2> QED
    BY Zenon, <1>7, <2>1 DEF TypeOK, Handle
<1>8. CASE Clear(i)
  BY ZenonT(30), <1>8 DEF TypeOK, Clear
<1> QED
  BY Zenon, <1>1, <1>2, <1>3, <1>4, <1>5, <1>6, <1>7, <1>8 DEF Robot

\* A step of the central thread keeps the types.
LEMMA TypeCentral ==
  ASSUME TypeOK, Central
  PROVE  TypeOK'
<1> USE WarehouseAssumption
    DEF WarehouseAssumption, CentralGoes, localVars, clock, robotVars, planVars
<1>1. CASE Poll
  BY SMTT(30), <1>1 DEF TypeOK, Poll
<1>2. CASE Nap
  BY SMTT(30), <1>2 DEF TypeOK, Nap, SleepEnds
<1>3. CASE Receive
  <2>1. ASSUME NEW i \in Robots
        PROVE  Received(robots[i], boxes_from_robots[i].msg) \in RobotRecord
    BY Zenon, RobotUpdates DEF TypeOK
  <2>2. scan < number_of_robots => scan \in Robots
    BY DEF TypeOK, Robots
  <2>3. robots' \in [Robots -> RobotRecord]
    <3>1. CASE UNCHANGED robots
      BY Zenon, <3>1 DEF TypeOK
    <3>2. CASE /\ scan < number_of_robots
               /\ robots' = [robots EXCEPT
                     ![scan] = Received(robots[scan], boxes_from_robots[scan].msg)]
      BY Zenon, <2>1, <2>2, <3>2 DEF TypeOK
    <3> QED
      BY Zenon, <1>3, <3>1, <3>2 DEF Receive
  <2>4. scan' \in 0 .. number_of_robots
    BY SMTT(30), <1>3 DEF TypeOK, Receive
  <2> QED
    BY Zenon, <1>3, <2>3, <2>4 DEF TypeOK, Receive
<1>4. CASE Complete
  BY Zenon, <1>4 DEF TypeOK, Complete
<1>5. CASE SendWait
  BY Zenon, <1>5 DEF TypeOK, SendWait, Commands
<1>6. CASE Plan
  <2>1. \A i \in Robots : robots[i].pos \in Int \X Int
    BY Zenon DEF TypeOK, RobotRecord
  <2>2. current' \in [Robots -> Int \X Int]
    BY Zenon, <1>6, <2>1 DEF Plan
  <2>3. target' \in [Robots -> Int \X Int]
    BY <1>6, TargetType DEF Plan
  <2>4. desired_cmd' \in [Robots -> Commands]
    <3>1. \A i \in Robots : Wanted(i) \in Commands
      BY Zenon, NextDirectionType DEF Wanted, Commands
    <3> QED
      BY Zenon, <1>6, <3>1 DEF Plan
  <2>5. next' \in [Robots -> Int \X Int]
    BY Zenon, <1>6, <2>1, NextPositionType DEF Plan
  <2> QED
    BY Zenon, <1>6, <2>2, <2>3, <2>4, <2>5 DEF TypeOK, Plan
<1>7. CASE Consider
  BY Zenon, <1>7 DEF TypeOK, Consider, Candidates
<1>8. CASE Resolve
  <2>1. CASE UNCHANGED <<desired_cmd, next, accepted>> /\ sacrifice_robot_idx' = NoRobot
    BY Zenon, <1>8, <2>1 DEF TypeOK, Resolve
  <2>2. ASSUME NEW v \in choose_deadlock_victim,
               sacrifice_robot_idx' = v,
               desired_cmd' = [desired_cmd EXCEPT ![v] = Escape(v)],
               next' = [next EXCEPT ![v] =
                          get_next_position(robots[v].pos, Escape(v))],
               accepted' = {v}
        PROVE  TypeOK'
    <3>1. v \in Robots
      BY Zenon, <2>2 DEF choose_deadlock_victim
    <3>2. robots[v].pos \in Int \X Int /\ target[v] \in Int \X Int
      BY Zenon, <3>1 DEF TypeOK, RobotRecord
    <3>3. Escape(v) \in Commands
      BY Zenon, <3>2, EscapeDirection DEF Escape
    <3>4. get_next_position(robots[v].pos, Escape(v)) \in Int \X Int
      BY Zenon, <3>2, NextPositionType
    <3> QED
      BY Zenon, <1>8, <2>2, <3>1, <3>3, <3>4 DEF TypeOK, Resolve
  <2> QED
    BY Zenon, <1>8, <2>1, <2>2 DEF Resolve
<1>9. CASE Dispatch
  BY SMTT(30), <1>9 DEF TypeOK, Dispatch
<1>10. CASE Release
  BY SMTT(30), <1>10 DEF TypeOK, Release, ControlPoints
<1>11. CASE Wake
  BY SMTT(30), <1>11 DEF TypeOK, Wake, SleepEnds
<1> QED
  BY Zenon, <1>1, <1>2, <1>3, <1>4, <1>5, <1>6, <1>7, <1>8, <1>9, <1>10, <1>11
  DEF Central

\* TypeOK is an invariant for every number of robots and every task set.
THEOREM TypeCorrect == Spec => []TypeOK
<1>1. TypeOK /\ [Next]_vars => TypeOK'
  <2> SUFFICES ASSUME TypeOK, [Next]_vars PROVE TypeOK'
    OBVIOUS
  <2>1. CASE UNCHANGED vars
    BY Zenon, <2>1 DEF vars, clock, robotVars, planVars, TypeOK
  <2> QED
    BY Zenon, <2>1, TypeRobot, TypeCentral DEF Next, PoweredOff
<1> QED
  BY <1>1, TypeInit, PTL DEF Spec

-----------------------------------------------------------------------------
(* The inductive invariant behind NoCollision.                             *)

\* Robot threads keep to the barrier: until the central thread releases them
\* they only start, report and block, a robot that has reported is described by
\* its message, and the dirty bits already polled stay set.  A robot that misses
\* the release has reported as well, and stays where it is for a step.
Barrier ==
  /\ central # "sleep" /\ central # "off" =>
       \A i \in Robots : pc[i] \in {"start", "report", "block", "blocked"}
  /\ Deciding => \A i \in Robots : pc[i] \in {"block", "blocked"}
  /\ central = "sleep" => \A i \in Robots : pc[i] # "start"
  /\ \A i \in Robots :
       pc[i] \in {"start", "report"} => ~boxes_from_robots[i].dirty
  /\ \A i \in Robots :
       pc[i] \in {"block", "blocked"} =>
         boxes_from_robots[i].dirty /\ boxes_from_robots[i].msg = Status(robots[i])
  /\ central = "poll" => \A i \in Robots : i < scan => boxes_from_robots[i].dirty
  /\ central \notin {"poll", "receive"} => scan = 0

\* The central thread has decided on the moves of this step.
Planned == central \in {"consider", "resolve", "dispatch", "release", "sleep"}

\* Robots i and j may carry out their commands in any order, or one of them or
\* neither.
Compatible(i, j) ==
  IF j \in accepted
    THEN /\ current[i] # current[j] /\ current[i] # next[j]
         /\ next[i] # current[j] /\ next[i] # next[j]
    ELSE is_shared_place(next[i]) \/ next[i] # current[j]

Batch ==
  Planned =>
    /\ \A i \in Robots : next[i] = get_next_position(current[i], desired_cmd[i])
    /\ \A i, j \in Robots : i # j /\ current[i] = current[j] =>
                            is_shared_place(current[i])
    /\ \A i \in accepted : \A j \in Robots \ {i} : Compatible(i, j)

\* Until the release nobody has moved, and the commands in the boxes are those
\* of the accepted robots.
Ordered(i) == IF i \in accepted THEN desired_cmd[i] ELSE 0

Commanded ==
  /\ Planned /\ central # "sleep" => \A i \in Robots : robots[i].pos = current[i]
  /\ central \in {"plan", "consider", "resolve", "dispatch"} =>
       \A i \in Robots : boxes_from_central[i].cmd = 0
  /\ central = "release" => \A i \in Robots : boxes_from_central[i].cmd = Ordered(i)

\* After the release a robot is where it was, or where it was told to go.
Progress(i) ==
  /\ pc[i] = "command" => /\ boxes_from_central[i].cmd = Ordered(i)
                          /\ robots[i].pos = current[i]
  /\ pc[i] = "check" => /\ i \in accepted /\ cmd[i] = desired_cmd[i]
                        /\ robots[i].pos = current[i]
  /\ pc[i] = "commit" => i \in accepted /\ to[i] = next[i]
  /\ robots[i].pos = current[i] \/ (i \in accepted /\ robots[i].pos = next[i])

Moving == central = "sleep" => \A i \in Robots : Progress(i)

IInv == TypeOK /\ Barrier /\ Batch /\ Commanded /\ Moving /\ NoCollision

\* While robots carry out a batch they stay apart.
LEMMA BatchSafe == TypeOK /\ Batch /\ Moving /\ central = "sleep" => NoCollision
<1> SUFFICES ASSUME TypeOK, Batch, Moving, central = "sleep",
                    NEW i \in Robots, NEW j \in Robots, i # j,
                    robots[i].pos = robots[j].pos
             PROVE  is_shared_place(robots[i].pos)
  BY Zenon DEF NoCollision
<1>1. Progress(i) /\ Progress(j) /\ Planned
  BY Zenon DEF Moving, Planned
<1>2. CASE robots[i].pos = current[i] /\ robots[j].pos = current[j]
  BY ZenonT(30), <1>1, <1>2 DEF Batch
<1>3. CASE i \in accepted /\ robots[i].pos = next[i]
  BY Zenon, <1>1, <1>3 DEF Batch, Compatible, Progress
<1>4. CASE j \in accepted /\ robots[j].pos = next[j]
  BY Zenon, <1>1, <1>4 DEF Batch, Compatible, Progress
<1> QED
  BY Zenon, <1>1, <1>2, <1>3, <1>4 DEF Progress

\* A step of a robot thread that does not move the robot.
LEMMA StandingRobot ==
  ASSUME IInv, NEW i \in Robots, Robot(i), ~Commit(i)
  PROVE  /\ \A j \in Robots : robots'[j].pos = robots[j].pos
         /\ \A j \in Robots : boxes_from_central'[j].cmd = boxes_from_central[j].cmd
         /\ \A j \in Robots \ {i} : /\ robots'[j] = robots[j] /\ pc'[j] = pc[j]
                                   /\ cmd'[j] = cmd[j] /\ to'[j] = to[j]
                                   /\ boxes_from_robots'[j] = boxes_from_robots[j]
<1> USE DEF RobotGoes, IInv, TypeOK
<1>1. CASE Start(i)
  BY SMTT(30), <1>1 DEF Start, RobotRecord
<1>2. CASE Report(i)
  BY Zenon, <1>2 DEF Report
<1>3. CASE Block(i)
  BY Zenon, <1>3 DEF Block
<1>4. CASE Command(i)
  BY <1>4 DEF Command
<1>5. CASE Check(i)
  BY Zenon, <1>5 DEF Check
<1>7. CASE Handle(i)
  <2>1. Handled(robots[i]).pos = robots[i].pos
    BY DEF Handled, RobotRecord
  <2> QED
    BY Zenon, <1>7, <2>1 DEF Handle
<1>8. CASE Clear(i)
  BY Zenon, <1>8 DEF Clear
<1> QED
  BY ZenonT(30), <1>1, <1>2, <1>3, <1>4, <1>5, <1>7, <1>8 DEF Robot

\* Steps of a robot thread preserve the parts of the invariant.
LEMMA RobotBarrier ==
  ASSUME IInv, NEW i \in Robots, Robot(i)
  PROVE  Barrier'
<1> USE DEF RobotGoes, centralVars, clock, planVars, IInv, TypeOK, Barrier, Deciding
<1>1. CASE Start(i)
  BY SMTT(30), <1>1 DEF Start
<1>2. CASE Report(i)
  BY SMTT(30), <1>2 DEF Report
<1>3. CASE Block(i)
  BY SMTT(30), <1>3 DEF Block
<1>4. CASE Command(i)
  BY ZenonT(30), <1>4 DEF Command
<1>5. CASE Check(i)
  BY Zenon, <1>5 DEF Check
<1>6. CASE Commit(i)
  BY Zenon, <1>6 DEF Commit
<1>7. CASE Handle(i)
  BY Zenon, <1>7 DEF Handle
<1>8. CASE Clear(i)
  <2>1. central = "sleep" /\ UNCHANGED <<central, scan, robots>>
    BY Zenon, <1>8 DEF Clear
  <2>2. /\ pc'[i] = "report" /\ ~boxes_from_robots'[i].dirty
        /\ \A j \in Robots \ {i} : /\ pc'[j] = pc[j]
                                  /\ boxes_from_robots'[j] = boxes_from_robots[j]
    BY SMTT(30), <1>8 DEF Clear
  <2> QED
    BY ZenonT(30), <2>1, <2>2
<1> QED
  BY ZenonT(30), <1>1, <1>2, <1>3, <1>4, <1>5, <1>6, <1>7, <1>8 DEF Robot

\* What a step of a robot thread leaves alone of the plan and the central state.
LEMMA RobotFrame ==
  ASSUME NEW i \in Robots, Robot(i)
  PROVE  /\ central # "off"
         /\ UNCHANGED <<central, scan, timeout, holdups, current, target, desired_cmd, next,
                        accepted, considered, wait_steps, sacrifice_robot_idx, step>>
  BY Zenon DEF Robot, Start, Report, Block, Command, Check, Commit, Handle, Clear,
         RobotGoes, centralVars, clock, planVars

\* A robot that obeys its command moves to the cell that was accepted for it, or stays.
LEMMA RobotMoving ==
  ASSUME IInv, NEW i \in Robots, Robot(i), central = "sleep"
  PROVE  Moving'
<1> USE RobotFrame DEF RobotGoes, IInv, TypeOK, Ordered
<1>0. Progress(i) /\ pc[i] # "start" /\ Planned
  BY Zenon DEF Moving, Barrier, Planned
<1>1. \A j \in Robots \ {i} : Progress(j)'
  <2>1. CASE Commit(i)
    BY Zenon, <2>1 DEF Commit, Moving, Progress
  <2>2. CASE ~Commit(i)
    BY SMTT(30), <2>2, StandingRobot DEF Moving, Progress
  <2> QED
    BY Zenon, <2>1, <2>2
<1>2. Progress(i)'
  <2>1. CASE Start(i)
    BY Zenon, <1>0, <2>1 DEF Start
  <2>2. CASE Report(i)
    BY Zenon, <1>0, <2>2 DEF Report, Progress
  <2>3. CASE Block(i)
    BY Zenon, <1>0, <2>3 DEF Block, Progress
  <2>4. CASE Command(i)
    BY Zenon, <1>0, <2>4 DEF Command, Progress
  <2>5. CASE Check(i)
    <3>1. get_next_position(robots[i].pos, cmd[i]) = next[i]
      BY ZenonT(30), <1>0, <2>5 DEF Check, Progress, Batch
    <3> QED
      BY Zenon, <1>0, <2>5, <3>1 DEF Check, Progress
  <2>6. CASE Commit(i)
    BY Zenon, <1>0, <2>6 DEF Commit, Progress, RobotRecord
  <2>7. CASE Handle(i)
    <3>1. robots'[i].pos = robots[i].pos
      BY ZenonT(30), <2>7, StandingRobot DEF Handle, Commit
    <3> QED
      BY Zenon, <1>0, <2>7, <3>1 DEF Handle, Progress
  <2>8. CASE Clear(i)
    BY Zenon, <1>0, <2>8 DEF Clear, Progress
  <2> QED
    BY Zenon, <2>1, <2>2, <2>3, <2>4, <2>5, <2>6, <2>7, <2>8 DEF Robot
<1> QED
  BY Zenon, <1>1, <1>2 DEF Moving

\* A step of a robot thread keeps the inductive invariant.
LEMMA RobotKeeps ==
  ASSUME IInv, NEW i \in Robots, Robot(i)
  PROVE  IInv'
<1>1. TypeOK' /\ Barrier'
  BY Zenon, TypeRobot, RobotBarrier DEF IInv
<1>2. Batch'
  BY ZenonT(30), RobotFrame DEF IInv, Batch, Planned, Compatible
<1>3. CASE central = "sleep"
  <2>1. Moving'
    BY Zenon, <1>3, RobotMoving
  <2>2. (central = "sleep")'
    BY Zenon, <1>3, RobotFrame
  <2>3. NoCollision'
    BY <1>1, <1>2, <2>1, <2>2, BatchSafe, PTL
  <2>4. Commanded'
    BY Zenon, <2>2 DEF Commanded, Planned
  <2> QED
    BY Zenon, <1>1, <1>2, <2>1, <2>3, <2>4 DEF IInv
<1>4. CASE central # "sleep"
  <2>1. central' # "sleep" /\ central # "off" /\ UNCHANGED central
    BY <1>4, RobotFrame
  <2>2. ~Commit(i)
    BY Zenon, <1>4, <2>1 DEF IInv, Barrier, Commit, RobotGoes
  <2>3. Moving'
    BY Zenon, <2>1 DEF Moving
  <2>4. Commanded'
    BY Zenon, <2>1, <2>2, StandingRobot, RobotFrame DEF IInv, Commanded, Planned, Ordered
  <2>5. NoCollision'
    BY SMTT(30), <2>2, StandingRobot DEF IInv, NoCollision
  <2> QED
    BY Zenon, <1>1, <1>2, <2>3, <2>4, <2>5 DEF IInv
<1> QED
  BY Zenon, <1>3, <1>4

\* Steps of the central thread.  Most of them touch neither the robots nor the
\* batch.
LEMMA ReceiveChangesNothing ==
  ASSUME IInv, Receive
  PROVE  UNCHANGED robots
<1>1. CASE UNCHANGED robots
  BY Zenon, <1>1
<1>2. CASE /\ scan < number_of_robots
           /\ robots' = [robots EXCEPT
                 ![scan] = Received(robots[scan], boxes_from_robots[scan].msg)]
  <2>1. scan \in Robots
    BY SMTT(30), <1>2, WarehouseAssumption DEF WarehouseAssumption, IInv, TypeOK, Robots
  <2>2. boxes_from_robots[scan].msg = Status(robots[scan])
    BY Zenon, <2>1 DEF Receive, IInv, Barrier, Deciding
  <2>3. robots[scan] \in RobotRecord
    BY Zenon, <2>1 DEF IInv, TypeOK
  <2>4. Received(robots[scan], Status(robots[scan])) = robots[scan]
    BY ZenonT(30), <2>3 DEF Received, Status, RobotRecord
  <2> QED
    BY Zenon, <1>2, <2>1, <2>2, <2>4 DEF IInv, TypeOK
<1> QED
  BY Zenon, <1>1, <1>2 DEF Receive

\* The steps of the central thread before planning keep the inductive invariant.
LEMMA CentralGathers ==
  ASSUME IInv, PromptRobots, Poll \/ Nap \/ Receive \/ Complete \/ SendWait \/ Wake
  PROVE  IInv'
<1> USE DEF CentralGoes, localVars, clock, robotVars, planVars
<1>1. TypeOK'
  BY Zenon, TypeCentral DEF IInv, Central
<1>2. UNCHANGED <<robots, boxes_from_robots, pc>>
  BY Zenon, ReceiveChangesNothing DEF Poll, Nap, Receive, Complete, SendWait, Wake
<1>3. central' \in {"poll", "nap", "receive", "complete", "wait", "plan", "off"}
  BY Zenon DEF Poll, Nap, Receive, Complete, SendWait, Wake
<1>4. Batch' /\ Moving' /\ NoCollision'
  BY ZenonT(30), <1>2, <1>3 DEF IInv, Batch, Planned, Moving, NoCollision
<1>5. Commanded'
  <2>1. central' = "plan" => SendWait
    BY Zenon DEF Poll, Nap, Receive, Complete, SendWait, Wake
  <2>2. central' = "plan" => \A i \in Robots : boxes_from_central'[i].cmd = 0
    <3>1. SendWait => \A i \in Robots : boxes_from_central'[i].cmd = 0
      BY SMTT(30) DEF SendWait
    <3> QED
      BY Zenon, <2>1, <3>1
  <2>3. ~Planned' /\ central' \notin {"consider", "resolve", "dispatch", "release"}
    BY Zenon, <1>3 DEF Planned
  <2> QED
    BY Zenon, <2>2, <2>3 DEF Commanded
<1>6. Barrier'
  <2> USE DEF IInv, TypeOK, Barrier, Deciding
  <2>1. CASE Poll
    <3>1. CASE central' = "receive"
      <4>1. \A i \in Robots : i < scan
        BY SMTT(30), <2>1, <3>1, WarehouseAssumption DEF Poll, Robots, WarehouseAssumption
      <4>2. \A i \in Robots : pc[i] \in {"block", "blocked"}
        BY Zenon, <2>1, <4>1 DEF Poll
      <4> QED
        BY SMTT(30), <1>2, <2>1, <3>1, <4>2 DEF Poll
    <3>2. CASE central' = "poll"
      <4>1. boxes_from_robots[scan].dirty /\ scan' = scan + 1
        BY Zenon, <2>1, <3>2 DEF Poll
      <4>2. \A i \in Robots : i < scan + 1 => i < scan \/ i = scan
        BY SMTT(30) DEF Robots
      <4> QED
        BY Zenon, <1>2, <2>1, <3>2, <4>1, <4>2 DEF Poll
    <3>3. CASE central' = "nap"
      BY Zenon, <1>2, <2>1, <3>3 DEF Poll
    <3> QED
      BY ZenonT(30), <2>1, <3>1, <3>2, <3>3 DEF Poll
  <2>2. CASE Nap
    <3>1. \A i \in Robots : pc[i] \in {"start", "report", "block", "blocked"}
      BY Zenon, <2>2 DEF Nap
    <3>2. central' = "receive" => \A i \in Robots : pc[i] \in {"block", "blocked"}
      BY ZenonT(30), <2>2 DEF Nap, SleepEnds, AllBlocked, blocked_threads, PromptRobots
    <3> QED
      BY SMTT(30), <1>2, <2>2, <3>1, <3>2 DEF Nap, Robots
  <2>3. CASE Receive
    BY SMTT(30), <1>2, <2>3 DEF Receive
  <2>4. CASE Complete
    BY SMTT(30), <1>2, <2>4 DEF Complete
  <2>5. CASE SendWait
    BY SMTT(30), <1>2, <2>5 DEF SendWait
  <2>6. CASE Wake
    <3>1. \A i \in Robots : pc[i] \in {"start", "report", "block", "blocked"}
      BY ZenonT(30), <2>6 DEF Wake, SleepEnds, AllBlocked, blocked_threads, PromptRobots
    <3> QED
      BY SMTT(30), <1>2, <2>6, <3>1 DEF Wake, Robots
  <2> QED
    BY ZenonT(30), <2>1, <2>2, <2>3, <2>4, <2>5, <2>6
<1> QED
  BY Zenon, <1>1, <1>4, <1>5, <1>6 DEF IInv

\* Phase 1 keeps the inductive invariant.
LEMMA PlanKeeps ==
  ASSUME IInv, Plan
  PROVE  IInv'
<1> USE DEF CentralGoes, robotVars
<1>1. TypeOK'
  BY Zenon, TypeCentral DEF IInv, Central
<1>2. Barrier'
  BY Zenon DEF Plan, IInv, Barrier, Deciding
<1>3. Batch'
  <2>1. \A i \in Robots : /\ current'[i] = robots[i].pos
                          /\ next'[i] = get_next_position(current'[i], desired_cmd'[i])
    BY Zenon DEF Plan
  <2>2. accepted' = {}
    BY Zenon DEF Plan
  <2> QED
    BY ZenonT(30), <2>1, <2>2 DEF Batch, IInv, NoCollision
<1>4. Commanded' /\ Moving' /\ NoCollision'
  BY ZenonT(30) DEF Plan, IInv, Commanded, Moving, NoCollision, Planned
<1> QED
  BY Zenon, <1>1, <1>2, <1>3, <1>4 DEF IInv

\* Phase 2 keeps the inductive invariant: an accepted robot conflicts with no other.
LEMMA ConsiderKeeps ==
  ASSUME IInv, Consider
  PROVE  IInv'
<1> USE DEF robotVars
<1>1. TypeOK'
  BY Zenon, TypeCentral DEF IInv, Central
<1>2. Barrier'
  BY Zenon DEF Consider, IInv, Barrier, Deciding
<1>3. Batch'
  <2>1. CASE accepted' = accepted
    BY ZenonT(30), <2>1 DEF Consider, IInv, Batch, Planned, Compatible
  <2>2. ASSUME NEW k \in Robots, can_accept_batch_move(k),
               accepted' = accepted \cup {k}
        PROVE  Batch'
    <3>1. UNCHANGED <<current, next, desired_cmd>> /\ Planned
      BY Zenon DEF Consider, Planned
    <3>2. ASSUME NEW i \in accepted', NEW j \in Robots \ {i}
          PROVE  Compatible(i, j)'
      <4>1. accepted \subseteq Robots
        BY Zenon DEF IInv, TypeOK
      <4>2. CASE i = k
        BY Zenon, <2>2, <3>1, <4>2 DEF can_accept_batch_move, Compatible
      <4>3. CASE i # k /\ j = k
        BY Zenon, <2>2, <3>1, <4>1, <4>3 DEF can_accept_batch_move, Compatible
      <4>4. CASE i # k /\ j # k
        BY Zenon, <2>2, <3>1, <4>4 DEF IInv, Batch, Compatible
      <4> QED
        BY Zenon, <4>2, <4>3, <4>4
    <3> QED
      BY Zenon, <3>1, <3>2 DEF IInv, Batch
  <2> QED
    BY ZenonT(30), <2>1, <2>2 DEF Consider, Candidates
<1>4. Commanded' /\ Moving' /\ NoCollision'
  BY ZenonT(30) DEF Consider, IInv, Commanded, Moving, NoCollision, Planned
<1> QED
  BY Zenon, <1>1, <1>2, <1>3, <1>4 DEF IInv

\* Phase 3 keeps the inductive invariant: the victim moves alone, to an open cell.
LEMMA ResolveKeeps ==
  ASSUME IInv, Resolve
  PROVE  IInv'
<1> USE DEF CentralGoes, robotVars
<1>1. TypeOK'
  BY Zenon, TypeCentral DEF IInv, Central
<1>2. Barrier'
  BY Zenon DEF Resolve, IInv, Barrier, Deciding
<1>3. Commanded' /\ Moving' /\ NoCollision'
  BY ZenonT(30) DEF Resolve, IInv, Commanded, Moving, NoCollision, Planned
<1>4. Batch'
  <2>1. CASE UNCHANGED <<desired_cmd, next, accepted>>
    BY Zenon, <2>1 DEF Resolve, IInv, Batch, Planned, Compatible
  <2>2. ASSUME NEW v \in choose_deadlock_victim,
               desired_cmd' = [desired_cmd EXCEPT ![v] = Escape(v)],
               next' = [next EXCEPT ![v] =
                          get_next_position(robots[v].pos, Escape(v))],
               accepted' = {v}
        PROVE  Batch'
    <3>1. v \in Robots /\ Escape(v) # 0
      BY Zenon, <2>2 DEF choose_deadlock_victim
    <3>2. robots[v].pos \in Int \X Int /\ target[v] \in Int \X Int
      BY Zenon, <3>1 DEF IInv, TypeOK, RobotRecord
    <3>3. ~is_blocked_cell(robots, v, next'[v])
      BY Zenon, <2>2, <3>1, <3>2, EscapeDirection DEF Escape, IInv, TypeOK
    <3>4. \A i \in Robots : robots[i].pos = current[i]
      BY Zenon DEF Resolve, IInv, Commanded, Planned
    <3>5. \A j \in Robots : next'[v] = current[j] => is_shared_place(next'[v])
      BY ZenonT(30), <3>3, <3>4, OpenCell DEF IInv, TypeOK
    <3>6. \A i \in Robots : next'[i] = get_next_position(current[i], desired_cmd'[i])
      BY ZenonT(30), <2>2, <3>1, <3>4 DEF Resolve, IInv, TypeOK, Batch, Planned
    <3> QED
      BY Zenon, <2>2, <3>5, <3>6 DEF Resolve, IInv, Batch, Planned, Compatible
  <2> QED
    BY Zenon, <2>1, <2>2 DEF Resolve
<1> QED
  BY Zenon, <1>1, <1>2, <1>3, <1>4 DEF IInv

\* Sending the accepted commands keeps the inductive invariant.
LEMMA DispatchKeeps ==
  ASSUME IInv, Dispatch
  PROVE  IInv'
<1> USE DEF CentralGoes, robotVars, planVars
<1>1. TypeOK'
  BY Zenon, TypeCentral DEF IInv, Central
<1>2. Barrier'
  BY Zenon DEF Dispatch, IInv, Barrier, Deciding
<1>3. Batch'
  BY Zenon DEF Dispatch, IInv, Batch, Planned, Compatible
<1>4. Commanded'
  BY ZenonT(30) DEF Dispatch, IInv, Commanded, Planned, Ordered
<1>5. Moving' /\ NoCollision'
  BY Zenon DEF Dispatch, IInv, Moving, NoCollision
<1> QED
  BY Zenon, <1>1, <1>2, <1>3, <1>4, <1>5 DEF IInv

\* unblock_threads keeps the inductive invariant.
LEMMA ReleaseKeeps ==
  ASSUME IInv, Release
  PROVE  IInv'
<1> USE DEF CentralGoes, planVars
<1>1. TypeOK'
  BY Zenon, TypeCentral DEF IInv, Central
<1>2. \A i \in Robots : \/ /\ pc[i] = "blocked" /\ pc'[i] = "command"
                         \/ /\ pc[i] = "block" /\ pc'[i] = "block"
  BY Zenon DEF Release, IInv, Barrier, Deciding, blocked_threads
<1>3. Barrier'
  BY Zenon, <1>2 DEF Release, IInv, Barrier, Deciding
<1>4. Batch'
  BY Zenon DEF Release, IInv, Batch, Planned, Compatible
<1>5. Commanded'
  BY ZenonT(30) DEF Release, Commanded, Planned
<1>6. Moving'
  BY ZenonT(30), <1>2 DEF Release, IInv, Commanded, Moving, Progress, Planned, Ordered
<1>7. NoCollision'
  BY Zenon DEF Release, IInv, NoCollision
<1> QED
  BY Zenon, <1>1, <1>3, <1>4, <1>5, <1>6, <1>7 DEF IInv

\* Initially all robots share the waiting place W.
LEMMA InvInit ==
  ASSUME Init
  PROVE  IInv
<1>1. \A i \in Robots : robots[i].pos = PlaceW
  BY SMTT(30) DEF Init, setRobot
<1>2. is_shared_place(PlaceW)
  <2>1. PlaceW[1] + 1 = 7 /\ PlaceW[2] + 1 = 6
    BY DEF PlaceW
  <2>2. map_draw_default[7] = << "X", "X", "X", "X", "X", "W", "X" >>
    BY Zenon DEF map_draw_default
  <2>3. map_draw_default[7][6] = "W"
    BY <2>2
  <2> QED
    BY Zenon, <2>1, <2>3 DEF is_shared_place, CellAt
<1>3. NoCollision
  BY Zenon, <1>1, <1>2 DEF NoCollision
<1>4. Barrier /\ Batch /\ Commanded /\ Moving
  BY SMTT(30) DEF Init, Barrier, Batch, Planned, Commanded, Moving, Deciding, Robots
<1> QED
  BY Zenon, <1>3, <1>4, TypeInit DEF IInv

\* Every step keeps the inductive invariant.
LEMMA InvNext ==
  ASSUME PromptRobots, IInv, [Next]_vars
  PROVE  IInv'
<1>1. CASE UNCHANGED vars
  <2>1. TypeOK'
    BY Zenon, <1>1 DEF vars, clock, robotVars, planVars, IInv, TypeOK
  <2>2. Barrier'
    BY Zenon, <1>1 DEF vars, clock, robotVars, planVars, IInv, Barrier, Deciding
  <2>3. Batch' /\ Commanded'
    BY ZenonT(30), <1>1 DEF vars, clock, robotVars, planVars, IInv, Batch, Planned, Compatible,
                Commanded, Ordered
  <2>4. Moving' /\ NoCollision'
    BY ZenonT(30), <1>1 DEF vars, clock, robotVars, planVars, IInv, Moving, Progress, Ordered,
                NoCollision
  <2> QED
    BY Zenon, <2>1, <2>2, <2>3, <2>4 DEF IInv
<1>2. CASE Central
  BY Zenon, <1>2, CentralGathers, PlanKeeps, ConsiderKeeps, ResolveKeeps, DispatchKeeps,
     ReleaseKeeps
  DEF Central
<1>3. ASSUME NEW i \in Robots, Robot(i)
      PROVE  IInv'
  BY Zenon, <1>3, RobotKeeps
<1> QED
  BY Zenon, <1>1, <1>2, <1>3 DEF Next, PoweredOff

\* Robots never collide, for any number of robots, any tasks and any order of
\* the robot threads within a step.  Robots may be late for their barrier, so that
\* they miss the release and the others move without them, but not in the middle
\* of a move when the central thread resumes.
THEOREM CollisionFree ==
  ASSUME PromptRobots
  PROVE  Spec => []NoCollision
<1>1. Init => IInv
  BY Zenon, InvInit
<1>2. IInv /\ [Next]_vars => IInv'
  BY Zenon, InvNext
<1>3. IInv => NoCollision
  BY Zenon DEF IInv
<1> QED
  BY <1>1, <1>2, <1>3, PTL DEF Spec

\* Under the same assumption the central thread decides on reports that are still
\* true: a dirty bit is never that of an earlier step, although the bit is set
\* before the robot blocks and is cleared by the robot, not by the reader.
THEOREM ReportsHold ==
  ASSUME PromptRobots
  PROVE  Spec => []ReportsCurrent
<1>1. IInv => ReportsCurrent
  BY Zenon DEF IInv, Barrier, ReportsCurrent, Deciding
<1> QED
  BY <1>1, InvInit, InvNext, PTL DEF Spec

-----------------------------------------------------------------------------
(* The threads implement Fleet.                                            *)

\* The floor admits robot i to cell c, other robots aside.
Admits(i, c) ==
  /\ c \in Cells /\ CellAt(c) # "X"
  /\ CellAt(c) \in DigitChars =>
       robots[i].payload = 0 /\ CellAt(c) = Digit[robots[i].item]

\* What the robot threads know of themselves where they change robots[]: the item
\* they load is the one of their task, a robot that is done moves no more, and one
\* about to move is next to a cell it tested.
Errand ==
  \A i \in Robots :
    /\ robots[i].required = robots[i].item
    /\ pc[i] \in {"start", "check", "commit", "handle"} => ~robots[i].completed
    /\ pc[i] = "check" => cmd[i] # 0
    /\ pc[i] = "commit" => /\ cmd[i] # 0
                           /\ to[i] = get_next_position(robots[i].pos, cmd[i])
                           /\ Admits(i, to[i])

\* A cell that is not blocked admits the robot.
LEMMA OpenAdmits ==
  ASSUME NEW i, NEW c, ~is_blocked_cell(robots, i, c)
  PROVE  Admits(i, c)
<1>1. DigitChars \cap {"A", "B", "C", "W"} = {}
  BY SMTT(30) DEF DigitChars, Digit
<1> QED
  BY Zenon, <1>1 DEF is_blocked_cell, is_shared_place, Admits

\* A step of a robot thread keeps what it knows of itself.
LEMMA ErrandRobot ==
  ASSUME IInv, Errand, NEW i \in Robots, Robot(i)
  PROVE  Errand'
<1> USE DEF RobotGoes, IInv, TypeOK
<1>1. CASE Start(i)
  BY SMTT(30), <1>1 DEF Start, Errand, Admits, RobotRecord
<1>2. CASE Report(i)
  BY ZenonT(30), <1>2 DEF Report, Errand, Admits
<1>3. CASE Block(i)
  BY ZenonT(30), <1>3 DEF Block, Errand, Admits
<1>4. CASE Command(i)
  BY Zenon, <1>4 DEF Command, Errand, Admits
<1>5. CASE Check(i)
  <2>1. pc'[i] = "commit" => Admits(i, get_next_position(robots[i].pos, cmd[i]))
    BY Zenon, <1>5, OpenAdmits DEF Check
  <2> QED
    BY ZenonT(30), <1>5, <2>1 DEF Check, Errand, Admits
<1>6. CASE Commit(i)
  BY SMTT(30), <1>6 DEF Commit, Errand, Admits, RobotRecord
<1>7. CASE Handle(i)
  <2>1. robots[i] \in RobotRecord
    BY Zenon
  <2>2. /\ Handled(robots[i]).required = robots[i].required
        /\ Handled(robots[i]).item = robots[i].item
    BY Zenon, <2>1 DEF Handled, RobotRecord
  <2> QED
    BY ZenonT(30), <1>7, <2>2 DEF Handle, Errand, Admits
<1>8. CASE Clear(i)
  BY Zenon, <1>8 DEF Clear, Errand, Admits
<1> QED
  BY ZenonT(30), <1>1, <1>2, <1>3, <1>4, <1>5, <1>6, <1>7, <1>8 DEF Robot

\* The central thread changes no entry of robots[] and no local of a robot thread;
\* it makes blocked threads runnable.
LEMMA CentralFrame ==
  ASSUME IInv, Central
  PROVE  /\ UNCHANGED <<robots, cmd, to>>
         /\ \A i \in Robots : pc'[i] = pc[i] \/ pc'[i] = "command"
<1> USE DEF localVars, robotVars
<1>1. CASE Receive
  BY Zenon, <1>1, ReceiveChangesNothing DEF Receive
<1>2. CASE Release
  BY Zenon, <1>2 DEF Release
<1> QED
  BY Zenon, <1>1, <1>2 DEF Central, Poll, Nap, Complete, SendWait, Plan, Consider, Resolve,
                    Dispatch, Wake

\* Errand is an invariant, with IInv.
LEMMA ErrandInit == Init => Errand
  BY SMTT(30) DEF Init, Errand, setRobot

\* Every step keeps Errand.
LEMMA ErrandNext ==
  ASSUME IInv, Errand, [Next]_vars
  PROVE  Errand'
<1>1. CASE Central
  BY ZenonT(30), <1>1, CentralFrame DEF Errand, Admits
<1>2. CASE UNCHANGED vars
  BY Zenon, <1>2 DEF vars, clock, robotVars, Errand, Admits
<1> QED
  BY Zenon, <1>1, <1>2, ErrandRobot DEF Next, PoweredOff

\* Fleet is instantiated over the same floor.
LEMMA SameMap ==
  /\ F!PlaceW = PlaceW /\ F!Cells = Cells /\ F!Directions = Directions
  /\ F!DigitChars = DigitChars /\ F!Digit = Digit
  /\ \A c : F!CellAt(c) = CellAt(c)
  /\ \A c : F!is_shared_place(c) = is_shared_place(c)
  /\ \A c, d : F!get_next_position(c, d) = get_next_position(c, d)
  /\ \A k : F!get_item_position(k) = get_item_position(k)
  /\ \A p : F!get_destination_position(p) = get_destination_position(p)
<1>1. F!PlaceW = PlaceW
  BY Zenon DEF F!PlaceW, PlaceW
<1>2. F!Cells = Cells
  BY Zenon DEF F!Cells, Cells, F!MAP_HEIGHT, F!MAP_WIDTH, MAP_HEIGHT, MAP_WIDTH
<1>3. F!Directions = Directions
  BY Zenon DEF F!Directions, Directions
<1>4. F!Digit = Digit
  BY Zenon DEF F!Digit, Digit
<1>5. F!DigitChars = DigitChars
  BY Zenon, <1>4 DEF F!DigitChars, DigitChars
<1>6. F!map_draw_default = map_draw_default
  BY Zenon DEF F!map_draw_default, map_draw_default
<1>7. ASSUME NEW c PROVE F!CellAt(c) = CellAt(c)
  BY Zenon, <1>6 DEF F!CellAt, CellAt
<1>8. ASSUME NEW c PROVE F!is_shared_place(c) = is_shared_place(c)
  BY Zenon, <1>7 DEF F!is_shared_place, is_shared_place
<1>9. F!dr = dr /\ F!dc = dc
  BY Zenon DEF F!dr, dr, F!dc, dc
<1>10. ASSUME NEW c, NEW d PROVE F!get_next_position(c, d) = get_next_position(c, d)
  BY Zenon, <1>3, <1>9 DEF F!get_next_position, get_next_position
<1>11. F!PlaceA = PlaceA /\ F!PlaceB = PlaceB /\ F!PlaceC = PlaceC /\ F!PlaceS = PlaceS
  BY Zenon DEF F!PlaceA, PlaceA, F!PlaceB, PlaceB, F!PlaceC, PlaceC, F!PlaceS, PlaceS
<1>12. ASSUME NEW k PROVE F!get_item_position(k) = get_item_position(k)
  <2>1. \A c : F!CellAt(c) = F!Digit[k] <=> CellAt(c) = Digit[k]
    BY Zenon, <1>4, <1>7
  <2> QED
    BY Zenon, <1>2, <1>11, <2>1 DEF F!get_item_position, get_item_position
<1>13. ASSUME NEW p PROVE F!get_destination_position(p) = get_destination_position(p)
  BY Zenon, <1>1, <1>11 DEF F!get_destination_position, get_destination_position
<1> QED
  BY Zenon, <1>1, <1>2, <1>3, <1>4, <1>5, <1>7, <1>8, <1>10, <1>12, <1>13

\* The robots start as the fleet does.
LEMMA FleetInit == Init => F!Init
<1> SUFFICES ASSUME Init PROVE F!Init
  OBVIOUS
<1>1. PICK tasks \in TaskSets : robots = [i \in Robots |-> setRobot(tasks[i])]
  BY Zenon DEF Init
<1>2. tasks \in [Robots -> [item : Items, dest : Places]]
  BY Zenon, <1>1, WarehouseAssumption DEF WarehouseAssumption
<1>3. [i \in Robots |-> [item |-> robots[i].item, dest |-> robots[i].dest]] = tasks
  BY Zenon, <1>1, <1>2 DEF setRobot
<1>4. \A i \in Robots : /\ robots[i].pos = F!PlaceW /\ robots[i].payload = 0
                        /\ robots[i].completed = FALSE
  BY Zenon, <1>1, SameMap DEF setRobot
<1> QED
  BY Zenon, <1>3, <1>4 DEF F!Init

\* A robot that commits its move makes the step of the fleet: the cell is one that
\* admits it, and nobody else is there, or it is a place robots share.
LEMMA CommitMoves ==
  ASSUME IInv, NoCollision', Errand, NEW i \in Robots, Commit(i)
  PROVE  F!Move(i)
<1>t. /\ robots \in [Robots -> RobotRecord] /\ robots[i] \in RobotRecord
      /\ cmd[i] \in Commands /\ robots[i].pos \in Int \X Int
  BY Zenon DEF IInv, TypeOK, RobotRecord
<1>1. /\ ~robots[i].completed /\ cmd[i] \in Directions
      /\ to[i] = get_next_position(robots[i].pos, cmd[i]) /\ Admits(i, to[i])
  BY Zenon, <1>t DEF Commit, RobotGoes, Errand, Commands
<1>2. \A j \in Robots : robots'[j] = IF j = i THEN [robots[i] EXCEPT !.pos = to[i]]
                                             ELSE robots[j]
  BY Zenon, <1>t DEF Commit
<1>3. robots'[i] = [robots[i] EXCEPT !.pos = to[i]] /\ robots'[i].pos = to[i]
  BY Zenon, <1>t, <1>2 DEF RobotRecord
<1>4. robots[i].pos # to[i]
  BY SMTT(30), <1>t, <1>1 DEF get_next_position, Directions, dr, dc
<1>5. is_shared_place(to[i]) \/ \A j \in Robots : robots[j].pos # to[i]
  BY Zenon, <1>2, <1>3, <1>4 DEF NoCollision
<1>6. F!MayEnter(i, get_next_position(robots[i].pos, cmd[i]))
  <2>1. /\ [j \in Robots |-> robots[j].pos] = [j \in Robots |-> robots[j].pos]
        /\ [j \in Robots |-> robots[j].payload][i] = robots[i].payload
        /\ [j \in Robots |-> [item |-> robots[j].item, dest |-> robots[j].dest]][i].item
             = robots[i].item
        /\ \A j \in Robots : [k \in Robots |-> robots[k].pos][j] = robots[j].pos
    BY Zenon
  <2> QED
    BY Zenon, <1>1, <1>5, <2>1, SameMap DEF F!MayEnter, Admits
<1>7. /\ \A j \in Robots : robots'[j].pos = IF j = i THEN to[i] ELSE robots[j].pos
      /\ \A j \in Robots : /\ robots'[j].item = robots[j].item
                           /\ robots'[j].dest = robots[j].dest
                           /\ robots'[j].payload = robots[j].payload
                           /\ robots'[j].completed = robots[j].completed
  BY <1>t, <1>2, <1>3 DEF RobotRecord
<1>8. [j \in Robots |-> robots'[j].pos] =
        [[j \in Robots |-> robots[j].pos] EXCEPT
           ![i] = F!get_next_position(@, cmd[i])]
  BY Zenon, <1>1, <1>7, SameMap
<1>9. F!Directions = Directions /\ F!get_next_position(robots[i].pos, cmd[i]) = to[i]
  BY Zenon, <1>1, SameMap
<1>10. [j \in Robots |-> robots[j].pos][i] = robots[i].pos
  OBVIOUS
<1>11. F!MayEnter(i, F!get_next_position([j \in Robots |-> robots[j].pos][i], cmd[i]))
  BY Zenon, <1>1, <1>6, <1>9, <1>10
<1>12. UNCHANGED <<[j \in Robots |-> [item |-> robots[j].item, dest |-> robots[j].dest]],
                   [j \in Robots |-> robots[j].payload],
                   [j \in Robots |-> robots[j].completed]>>
  BY Zenon, <1>7
<1>13. ~[j \in Robots |-> robots[j].completed][i]
  BY Zenon, <1>1
<1> QED
  BY Zenon, <1>1, <1>8, <1>9, <1>11, <1>12, <1>13 DEF F!Move

\* A robot that handles its cell loads, delivers or does nothing.
LEMMA HandleWorks ==
  ASSUME IInv, Errand, NEW i \in Robots, Handle(i)
  PROVE  F!Load(i) \/ F!Deliver(i) \/ UNCHANGED F!fleetVars
<1>t. robots \in [Robots -> RobotRecord] /\ robots[i] \in RobotRecord
  BY Zenon DEF IInv, TypeOK
<1>1. ~robots[i].completed /\ robots[i].required = robots[i].item
  BY Zenon DEF Handle, RobotGoes, Errand
<1>2. \A j \in Robots : robots'[j] = IF j = i THEN Handled(robots[i]) ELSE robots[j]
  BY Zenon, <1>t DEF Handle
<1>3. CASE robots[i].payload = 0 /\ robots[i].pos = get_item_position(robots[i].item)
  <2>1. Handled(robots[i]) = [robots[i] EXCEPT !.payload = robots[i].item]
    BY Zenon, <1>1, <1>3 DEF Handled
  <2>2. \A j \in Robots : /\ robots'[j].item = robots[j].item
                          /\ robots'[j].dest = robots[j].dest
                          /\ robots'[j].pos = robots[j].pos
                          /\ robots'[j].completed = robots[j].completed
                          /\ robots'[j].payload = IF j = i THEN robots[i].item
                                                  ELSE robots[j].payload
    BY ZenonT(30), <1>t, <1>2, <2>1 DEF RobotRecord
  <2>3. F!get_item_position(robots[i].item) = get_item_position(robots[i].item)
    BY Zenon, SameMap
  <2>4. F!Load(i)
    BY Zenon, <1>1, <1>3, <2>2, <2>3 DEF F!Load
  <2> QED
    BY Zenon, <2>4
<1>4. CASE /\ ~(robots[i].payload = 0 /\ robots[i].pos = get_item_position(robots[i].item))
           /\ robots[i].payload > 0
           /\ robots[i].pos = get_destination_position(robots[i].dest)
  <2>1. Handled(robots[i]) = [robots[i] EXCEPT !.payload = 0, !.completed = TRUE]
    BY Zenon, <1>4 DEF Handled
  <2>2. \A j \in Robots : /\ robots'[j].item = robots[j].item
                          /\ robots'[j].dest = robots[j].dest
                          /\ robots'[j].pos = robots[j].pos
                          /\ robots'[j].completed = IF j = i THEN TRUE
                                                    ELSE robots[j].completed
                          /\ robots'[j].payload = IF j = i THEN 0
                                                  ELSE robots[j].payload
    <3>1. /\ Handled(robots[i]).item = robots[i].item /\ Handled(robots[i]).dest = robots[i].dest
          /\ Handled(robots[i]).pos = robots[i].pos /\ Handled(robots[i]).payload = 0
      BY Zenon, <1>t, <2>1 DEF RobotRecord
    <3>2. Handled(robots[i]).completed = TRUE
      BY Zenon, <1>t, <2>1 DEF RobotRecord
    <3> QED
      BY Zenon, <1>2, <3>1, <3>2
  <2>3. F!get_destination_position(robots[i].dest) = get_destination_position(robots[i].dest)
    BY Zenon, SameMap
  <2>4. robots[i].payload # 0
    BY SMTT(30), <1>4
  <2>5. F!Deliver(i)
    BY Zenon, <1>4, <2>2, <2>3, <2>4 DEF F!Deliver
  <2> QED
    BY Zenon, <2>5
<1>5. CASE Handled(robots[i]) = robots[i]
  BY Zenon, <1>2, <1>5 DEF F!fleetVars
<1> QED
  BY Zenon, <1>3, <1>4, <1>5 DEF Handled

\* Every step of the threads is a step of the fleet, or changes nothing of it.
LEMMA FleetStep ==
  ASSUME IInv, NoCollision', Errand, [Next]_vars
  PROVE  [F!Next]_F!fleetVars
<1>1. CASE UNCHANGED robots
  BY Zenon, <1>1 DEF F!fleetVars
<1>2. ASSUME NEW i \in Robots, Robot(i)
      PROVE  [F!Next]_F!fleetVars
  <2>1. CASE Start(i)
    <3>1. robots[i] \in RobotRecord /\ robots[i].completed = FALSE
      BY ZenonT(30), <2>1 DEF Start, RobotGoes, Errand, IInv, TypeOK, RobotRecord
    <3>2. [robots[i] EXCEPT !.completed = FALSE] = robots[i]
      BY Zenon, <3>1 DEF RobotRecord
    <3> QED
      BY <1>1, <2>1, <3>2 DEF Start, IInv, TypeOK
  <2>2. CASE Commit(i)
    BY Zenon, <2>2, CommitMoves DEF F!Next
  <2>3. CASE Handle(i)
    BY Zenon, <2>3, HandleWorks DEF F!Next
  <2>4. CASE Report(i) \/ Block(i) \/ Command(i) \/ Check(i) \/ Clear(i)
    BY Zenon, <1>1, <2>4 DEF Report, Block, Command, Check, Clear
  <2> QED
    BY Zenon, <1>2, <2>1, <2>2, <2>3, <2>4 DEF Robot
<1> QED
  BY Zenon, <1>1, <1>2, CentralFrame DEF Next, PoweredOff, vars

\* The warehouse implements Fleet: whatever the interleaving of the threads, and
\* for any number of robots and any tasks, robots[] changes as if the robots moved
\* one at a time over free floor and each loaded and delivered once.
THEOREM FleetImplemented ==
  ASSUME PromptRobots
  PROVE  Spec => ActsAsFleet
<1>1. Init => IInv /\ Errand
  BY Zenon, InvInit, ErrandInit
<1>2. IInv /\ Errand /\ [Next]_vars => (IInv /\ Errand)'
  BY Zenon, InvNext, ErrandNext
<1>3. IInv /\ Errand /\ (IInv /\ Errand)' /\ [Next]_vars => [F!Next]_F!fleetVars
  BY Zenon, FleetStep DEF IInv
<1> QED
  BY <1>1, <1>2, <1>3, FleetInit, PTL DEF Spec, F!Spec, ActsAsFleet
=============================================================================
