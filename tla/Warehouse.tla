----------------------------- MODULE Warehouse -----------------------------
(***************************************************************************)
(* The automated warehouse: the central control thread and one thread per  *)
(* robot (automated_warehouse.c), the message boxes between them           *)
(* (aw_message.c) and the barrier that holds the robots between two steps  *)
(* of the simulation (aw_thread.c).                                        *)
(*                                                                         *)
(* The threads share memory and run interleaved.  One action is a stretch  *)
(* of a thread's body that touches one shared object: a message box, the   *)
(* thread's own entry of robots[], or the list blocked_threads.  The       *)
(* central thread's private arrays (current, next, accepted, ...) are      *)
(* static variables of the file and keep their values between steps.       *)
(***************************************************************************)
EXTENDS AwNav

CONSTANTS
  number_of_robots,
  TaskSets,      \* task assignments given on the command line
  TIMEOUT,       \* polls before the central thread stops waiting (100)
  STEP_RANGE,    \* number of values of the unsigned counter step (2^32)
  Late,          \* where a robot may be when a sleep of the central thread ends
  LastLate,      \* the same, when the last sleep of its polling loop ends
  MaxHoldups     \* how often a robot is late

Robots == 0 .. number_of_robots - 1
Items == 1 .. 9
Places == {"A", "B", "C"}
NoRobot == -1

\* Where a robot thread may be preempted.
ControlPoints == {"start", "report", "block", "blocked", "command", "check",
                  "commit", "handle", "clear"}

ASSUME WarehouseAssumption ==
  /\ number_of_robots \in Nat \ {0}
  /\ TaskSets \subseteq [Robots -> [item : Items, dest : Places]]
  /\ TIMEOUT \in Nat \ {0}
  /\ STEP_RANGE \in Nat \ {0}
  /\ Late \subseteq ControlPoints /\ LastLate \subseteq ControlPoints
  /\ MaxHoldups \in Nat

VARIABLES
  robots,                   \* robots[]: shared by all threads
  boxes_from_robots,        \* status messages with their dirty bits
  boxes_from_central,       \* commands with their dirty bits
  pc, cmd, to,              \* robot threads: control state, local cmd and next
  central, scan, timeout,   \* central thread: control state and loop counters
  current, target, desired_cmd, next, accepted, considered,
  wait_steps, sacrifice_robot_idx, step,
  holdups                   \* how often a robot was late so far

robotVars == <<pc, cmd, to>>
clock == <<timeout, holdups>>
planVars == <<current, target, desired_cmd, next, accepted, considered>>
vars == <<robots, boxes_from_robots, boxes_from_central, robotVars,
          central, scan, clock, planVars, wait_steps, sacrifice_robot_idx,
          step>>

\* The robots in the list blocked_threads: those inside block_thread().
blocked_threads == {i \in Robots : pc[i] = "blocked"}

-----------------------------------------------------------------------------
\* What a robot tells the central thread about itself.
Status(r) ==
  [pos |-> r.pos, payload |-> r.payload, required |-> r.required,
   completed |-> r.completed]

\* run_automated_warehouse: every robot starts at W, unloaded; the boxes are
\* zeroed.  required_payload is the item number.
NullStatus == [pos |-> <<0, 0>>, payload |-> 0, required |-> 0,
               completed |-> FALSE]

setRobot(task) ==
  [item |-> task.item, dest |-> task.dest, pos |-> PlaceW,
   required |-> task.item, payload |-> 0, completed |-> FALSE]

Init ==
  /\ \E tasks \in TaskSets : robots = [i \in Robots |-> setRobot(tasks[i])]
  /\ boxes_from_robots = [i \in Robots |-> [dirty |-> FALSE, msg |-> NullStatus]]
  /\ boxes_from_central = [i \in Robots |-> [dirty |-> FALSE, cmd |-> 0]]
  /\ pc = [i \in Robots |-> "start"]
  /\ cmd = [i \in Robots |-> 0]
  /\ to = [i \in Robots |-> <<0, 0>>]
  /\ central = "poll" /\ scan = 0 /\ timeout = 0
  /\ current = [i \in Robots |-> <<0, 0>>]
  /\ target = [i \in Robots |-> <<0, 0>>]
  /\ desired_cmd = [i \in Robots |-> 0]
  /\ next = [i \in Robots |-> <<0, 0>>]
  /\ accepted = {} /\ considered = {}
  /\ wait_steps = [i \in Robots |-> 0]
  /\ sacrifice_robot_idx = NoRobot
  /\ step = 0 /\ holdups = 0

-----------------------------------------------------------------------------
(* The robot thread.                                                       *)

RobotGoes(i, from, dest) ==
  /\ central # "off"
  /\ pc[i] = from
  /\ pc' = [pc EXCEPT ![i] = dest]

centralVars == <<central, scan, clock, planVars, wait_steps,
                 sacrifice_robot_idx, step>>

\* First run of the thread: task_completed = 0.
Start(i) ==
  /\ RobotGoes(i, "start", "report")
  /\ robots' = [robots EXCEPT ![i].completed = FALSE]
  /\ UNCHANGED <<boxes_from_robots, boxes_from_central, cmd, to, centralVars>>

\* send_message_to_central: the message, then the dirty bit.
Report(i) ==
  /\ RobotGoes(i, "report", "block")
  /\ boxes_from_robots' =
       [boxes_from_robots EXCEPT ![i] = [dirty |-> TRUE,
                                         msg |-> Status(robots[i])]]
  /\ UNCHANGED <<robots, boxes_from_central, cmd, to, centralVars>>

\* block_thread, with interrupts off.
Block(i) ==
  /\ RobotGoes(i, "block", "blocked")
  /\ UNCHANGED <<robots, boxes_from_robots, boxes_from_central, cmd, to,
                 centralVars>>

\* receive_command_from_central and clear_message_box (idx, 1).
Command(i) ==
  /\ RobotGoes(i, "command",
       IF robots[i].completed THEN "clear"
       ELSE IF boxes_from_central[i].cmd # 0 THEN "check" ELSE "handle")
  /\ cmd' = [cmd EXCEPT ![i] = boxes_from_central[i].cmd]
  /\ boxes_from_central' = [boxes_from_central EXCEPT ![i].dirty = FALSE]
  /\ UNCHANGED <<robots, boxes_from_robots, to, centralVars>>

\* move_robot_one_step_by_direction: the cell is tested here and entered in
\* Commit; another thread may run in between.
Check(i) ==
  LET c == get_next_position(robots[i].pos, cmd[i])
  IN  /\ RobotGoes(i, "check",
           IF is_blocked_cell(robots, i, c) THEN "handle" ELSE "commit")
      /\ to' = [to EXCEPT ![i] = c]
      /\ UNCHANGED <<robots, boxes_from_robots, boxes_from_central, cmd,
                     centralVars>>

Commit(i) ==
  /\ RobotGoes(i, "commit", "handle")
  /\ robots' = [robots EXCEPT ![i].pos = to[i]]
  /\ UNCHANGED <<boxes_from_robots, boxes_from_central, cmd, to, centralVars>>

\* Variants of Handled: loading again while loaded; comparing only the row of
\* the destination.
HandledTwice(r) ==
  IF r.pos = get_item_position(r.item)
    THEN [r EXCEPT !.payload = @ + r.required]
  ELSE IF r.payload > 0 /\ r.pos = get_destination_position(r.dest)
    THEN [r EXCEPT !.payload = 0, !.completed = TRUE]
  ELSE r

HandledInRow(r) ==
  IF r.payload = 0 /\ r.pos = get_item_position(r.item)
    THEN [r EXCEPT !.payload = r.required]
  ELSE IF r.payload > 0 /\ r.pos[1] = get_destination_position(r.dest)[1]
    THEN [r EXCEPT !.payload = 0, !.completed = TRUE]
  ELSE r

\* Load at the item's cell, unload and finish at the destination.
Handled(r) ==
  IF r.payload = 0 /\ r.pos = get_item_position(r.item)
    THEN [r EXCEPT !.payload = r.required]
  ELSE IF r.payload > 0 /\ r.pos = get_destination_position(r.dest)
    THEN [r EXCEPT !.payload = 0, !.completed = TRUE]
  ELSE r

Handle(i) ==
  /\ RobotGoes(i, "handle", "clear")
  /\ robots' = [robots EXCEPT ![i] = Handled(@)]
  /\ UNCHANGED <<boxes_from_robots, boxes_from_central, cmd, to, centralVars>>

\* clear_message_box (idx, 0), back to the top of the loop.
Clear(i) ==
  /\ RobotGoes(i, "clear", "report")
  /\ boxes_from_robots' = [boxes_from_robots EXCEPT ![i].dirty = FALSE]
  /\ UNCHANGED <<robots, boxes_from_central, cmd, to, centralVars>>

Robot(i) ==
  \/ Start(i) \/ Report(i) \/ Block(i) \/ Command(i) \/ Check(i) \/ Commit(i)
  \/ Handle(i) \/ Clear(i)

-----------------------------------------------------------------------------
(* The central control thread.                                             *)
(*                                                                         *)
(* Scheduling.  The ready queue is FIFO, a thread keeps the processor for  *)
(* TIME_SLICE ticks, and the central thread sleeps for longer than a robot *)
(* needs for a round of its loop.  A robot that is held up may still be at *)
(* a point of Late when a sleep ends.                                      *)

AllBlocked == blocked_threads = Robots

\* A sleep ends: every robot is at its barrier or, held up, at a given point.
SleepEnds(points) ==
  \/ AllBlocked /\ UNCHANGED holdups
  \/ /\ ~AllBlocked /\ \A i \in Robots : pc[i] \in points \cup {"blocked"}
     /\ holdups < MaxHoldups /\ holdups' = holdups + 1

\* What the proofs assume: a robot that is held up is on its way to its barrier,
\* not in the middle of a move, and has reported when the polling ends.
PromptRobots ==
  Late \subseteq {"start", "report", "block"} /\ LastLate \subseteq {"block"}

CentralGoes(from, dest) ==
  /\ central = from
  /\ central' = dest

localVars == <<robotVars, planVars, wait_steps, sacrifice_robot_idx, step>>

\* Variant of Poll: the dirty bits are not tested.
PollOnce ==
  /\ CentralGoes("poll", "receive")
  /\ scan' = 0
  /\ UNCHANGED <<robots, boxes_from_robots, boxes_from_central, clock,
                 localVars>>

\* One iteration of the loop over the dirty bits.
Poll ==
  /\ central = "poll"
  /\ \/ /\ scan < number_of_robots
        /\ boxes_from_robots[scan].dirty
        /\ scan' = scan + 1
        /\ UNCHANGED central
     \/ /\ scan < number_of_robots
        /\ ~boxes_from_robots[scan].dirty
        /\ scan' = 0
        /\ central' = "nap"
     \/ /\ scan = number_of_robots
        /\ scan' = 0
        /\ central' = "receive"
  /\ UNCHANGED <<robots, boxes_from_robots, boxes_from_central, clock,
                 localVars>>

\* Return from timer_sleep (10) in the polling loop.
Nap ==
  /\ SleepEnds(IF timeout + 1 < TIMEOUT THEN Late ELSE LastLate)
  /\ CentralGoes("nap", IF timeout + 1 < TIMEOUT THEN "poll" ELSE "receive")
  /\ timeout' = timeout + 1
  /\ UNCHANGED <<robots, boxes_from_robots, boxes_from_central, scan,
                 localVars>>

\* receive_message_from_robot: the message replaces the entry of robots[].
Received(r, msg) ==
  [r EXCEPT !.pos = msg.pos, !.payload = msg.payload,
            !.required = msg.required, !.completed = msg.completed]

Receive ==
  /\ central = "receive"
  /\ \/ /\ scan < number_of_robots
        /\ robots' = [robots EXCEPT
                        ![scan] = Received(@, boxes_from_robots[scan].msg)]
        /\ scan' = scan + 1
        /\ UNCHANGED central
     \/ /\ scan = number_of_robots
        /\ scan' = 0
        /\ central' = "complete"
        /\ UNCHANGED robots
  /\ UNCHANGED <<boxes_from_robots, boxes_from_central, clock, localVars>>

\* All delivered: shutdown_power_off stops the machine.
AllCompleted == \A i \in Robots : robots[i].completed /\ robots[i].payload = 0

Complete ==
  /\ CentralGoes("complete", IF AllCompleted THEN "off" ELSE "wait")
  /\ UNCHANGED <<robots, boxes_from_robots, boxes_from_central, scan, clock,
                 localVars>>

\* Variant of SendWait: nothing is sent.
SendNothing ==
  /\ CentralGoes("wait", "plan")
  /\ UNCHANGED <<robots, boxes_from_robots, boxes_from_central, scan, clock,
                 localVars>>

\* Every robot gets WAIT first.
SendWait ==
  /\ CentralGoes("wait", "plan")
  /\ boxes_from_central' = [i \in Robots |-> [dirty |-> TRUE, cmd |-> 0]]
  /\ UNCHANGED <<robots, boxes_from_robots, scan, clock, localVars>>

\* Phase 1: target, wanted direction and next cell of every robot.
Wanted(i) ==
  IF robots[i].completed \/ i = sacrifice_robot_idx THEN 0
  ELSE get_next_direction(robots, i, get_robot_target(robots[i]))

Plan ==
  /\ CentralGoes("plan", "consider")
  /\ current' = [i \in Robots |-> robots[i].pos]
  /\ target' = [i \in Robots |-> IF robots[i].completed THEN <<-1, -1>>
                                 ELSE get_robot_target(robots[i])]
  /\ desired_cmd' = [i \in Robots |-> Wanted(i)]
  /\ next' = [i \in Robots |->
                get_next_position(robots[i].pos, desired_cmd'[i])]
  /\ accepted' = {} /\ considered' = {}
  /\ UNCHANGED <<robots, boxes_from_robots, boxes_from_central, robotVars,
                 scan, clock, wait_steps, sacrifice_robot_idx, step>>

\* Variant of can_accept_batch_move: the last test left out.
AcceptSameGoal(i) ==
  \A j \in Robots \ {i} :
    IF j \in accepted
      THEN /\ current[i] # current[j] /\ current[i] # next[j]
           /\ next[i] # current[j]
      ELSE is_shared_place(next[i]) \/ next[i] # current[j]

\* Phase 2: robots are considered one at a time, the longest waiting first,
\* the lowest index among equals.
can_accept_batch_move(i) ==
  \A j \in Robots \ {i} :
    IF j \in accepted
      THEN /\ current[i] # current[j] /\ current[i] # next[j]
           /\ next[i] # current[j] /\ next[i] # next[j]
      ELSE is_shared_place(next[i]) \/ next[i] # current[j]

LongestWaiting(i, Rs) ==
  \A j \in Rs :
    wait_steps[i] > wait_steps[j] \/ (wait_steps[i] = wait_steps[j] /\ i <= j)

Candidates == {i \in Robots \ considered : ~robots[i].completed}

Consider ==
  /\ central = "consider"
  /\ \/ /\ Candidates = {}
        /\ central' = "resolve"
        /\ UNCHANGED <<accepted, considered>>
     \/ \E i \in Candidates :
          /\ LongestWaiting(i, Candidates)
          /\ considered' = considered \cup {i}
          /\ accepted' = IF desired_cmd[i] # 0 /\ can_accept_batch_move(i)
                           THEN accepted \cup {i} ELSE accepted
          /\ UNCHANGED central
  /\ UNCHANGED <<robots, boxes_from_robots, boxes_from_central, robotVars,
                 scan, clock, current, target, desired_cmd, next, wait_steps,
                 sacrifice_robot_idx, step>>

\* Phase 3: when nobody may move, one robot backs off.  The last victim stays
\* the victim while it can escape; otherwise it is the longest waiting one.
\* The victim is given as a set of at most one robot.
Escape(i) == get_escape_direction(robots, i, target[i])

choose_deadlock_victim ==
  LET free == {i \in Robots : ~robots[i].completed /\ Escape(i) # 0}
  IN  IF sacrifice_robot_idx \in free THEN {sacrifice_robot_idx}
      ELSE {i \in free : LongestWaiting(i, free)}

Resolve ==
  /\ CentralGoes("resolve", "dispatch")
  /\ \/ /\ accepted # {} \/ choose_deadlock_victim = {}
        /\ sacrifice_robot_idx' = NoRobot
        /\ UNCHANGED <<desired_cmd, next, accepted>>
     \/ /\ accepted = {}
        /\ \E v \in choose_deadlock_victim :
             /\ sacrifice_robot_idx' = v
             /\ desired_cmd' = [desired_cmd EXCEPT ![v] = Escape(v)]
             /\ next' = [next EXCEPT ![v] =
                           get_next_position(robots[v].pos, Escape(v))]
             /\ accepted' = {v}
  /\ UNCHANGED <<robots, boxes_from_robots, boxes_from_central, robotVars,
                 scan, clock, current, target, considered, wait_steps, step>>

\* Phase 4: commands to the accepted robots, and the waiting times.
Dispatch ==
  /\ CentralGoes("dispatch", "release")
  /\ boxes_from_central' =
       [i \in Robots |-> IF i \in accepted
                           THEN [dirty |-> TRUE, cmd |-> desired_cmd[i]]
                           ELSE boxes_from_central[i]]
  /\ wait_steps' = [i \in Robots |->
                      IF robots[i].completed \/ i \in accepted THEN 0
                      ELSE wait_steps[i] + 1]
  /\ UNCHANGED <<robots, boxes_from_robots, robotVars, scan, clock, planVars,
                 sacrifice_robot_idx, step>>

\* Variant of Release: the last robot of the list is left blocked.
ReleaseAllButOne ==
  /\ CentralGoes("release", "sleep")
  /\ step' = (step + 1) % STEP_RANGE
  /\ pc' = [i \in Robots |->
              IF i \in blocked_threads \ {number_of_robots - 1} THEN "command"
              ELSE pc[i]]
  /\ UNCHANGED <<robots, boxes_from_robots, boxes_from_central, cmd, to, scan,
                 clock, planVars, wait_steps, sacrifice_robot_idx>>

\* increase_step, and unblock_threads with interrupts off.
Release ==
  /\ CentralGoes("release", "sleep")
  /\ step' = (step + 1) % STEP_RANGE
  /\ pc' = [i \in Robots |-> IF i \in blocked_threads THEN "command" ELSE pc[i]]
  /\ UNCHANGED <<robots, boxes_from_robots, boxes_from_central, cmd, to, scan,
                 clock, planVars, wait_steps, sacrifice_robot_idx>>

\* Return from timer_sleep (10) at the end of the loop.
Wake ==
  /\ SleepEnds(Late)
  /\ CentralGoes("sleep", "poll")
  /\ timeout' = 0
  /\ UNCHANGED <<robots, boxes_from_robots, boxes_from_central, scan,
                 localVars>>

Central ==
  \/ Poll \/ Nap \/ Receive \/ Complete \/ SendWait \/ Plan \/ Consider
  \/ Resolve \/ Dispatch \/ Release \/ Wake

\* The machine is off: nothing moves any more.
PoweredOff == central = "off" /\ UNCHANGED vars

Next == Central \/ (\E i \in Robots : Robot(i)) \/ PoweredOff

\* The processor does not stop while a thread can go on.  That every thread gets
\* it again needs no more: a sleep ends late MaxHoldups times at most.
Fairness == WF_vars(Next)

Spec == Init /\ [][Next]_vars
FairSpec == Spec /\ Fairness

-----------------------------------------------------------------------------
(* Properties.                                                             *)

RobotRecord ==
  [item : Items, dest : Places, pos : Int \X Int, required : {0} \cup Items,
   payload : {0} \cup Items, completed : BOOLEAN]
StatusRecord ==
  [pos : Int \X Int, payload : {0} \cup Items, required : {0} \cup Items,
   completed : BOOLEAN]
Commands == {0} \cup Directions

\* Type invariant: every variable of the threads, the boxes and the planner
\* stays in its range.
TypeOK ==
  /\ robots \in [Robots -> RobotRecord]
  /\ boxes_from_robots \in [Robots -> [dirty : BOOLEAN, msg : StatusRecord]]
  /\ boxes_from_central \in [Robots -> [dirty : BOOLEAN, cmd : Commands]]
  /\ pc \in [Robots -> ControlPoints]
  /\ cmd \in [Robots -> Commands]
  /\ to \in [Robots -> Int \X Int]
  /\ central \in {"poll", "nap", "receive", "complete", "wait", "plan",
                  "consider", "resolve", "dispatch", "release", "sleep", "off"}
  /\ scan \in 0 .. number_of_robots
  /\ timeout \in Nat
  /\ current \in [Robots -> Int \X Int]
  /\ target \in [Robots -> Int \X Int]
  /\ desired_cmd \in [Robots -> Commands]
  /\ next \in [Robots -> Int \X Int]
  /\ accepted \subseteq Robots
  /\ considered \subseteq Robots
  /\ wait_steps \in [Robots -> Nat]
  /\ sacrifice_robot_idx \in Robots \cup {NoRobot}
  /\ step \in Nat
  /\ holdups \in 0 .. MaxHoldups

\* Two robots are never on the same cell, except at A, B, C and W, whatever
\* the order in which the robot threads carry out a batch of commands.
NoCollision ==
  \A i, j \in Robots :
    i # j /\ robots[i].pos = robots[j].pos => is_shared_place(robots[i].pos)

\* A command that was sent is always carried out: when a robot tests the cell
\* it was told to enter, no other robot of the batch is in its way.  Otherwise
\* move_robot_one_step_by_direction would silently do nothing while the central
\* thread has already reset the robot's waiting time.
CommandsCarriedOut ==
  \A i \in Robots :
    pc[i] = "check" =>
      ~is_blocked_cell(robots, i, get_next_position(robots[i].pos, cmd[i]))

\* The control states in which the central thread works on one step.
Deciding == central \in {"receive", "complete", "wait", "plan", "consider",
                        "resolve", "dispatch", "release"}

\* The central thread handles a step with every robot thread blocked.
HandledAtBarrier == Deciding => AllBlocked

\* What the central thread copies into robots[] from the message boxes is what
\* the robots already are: no box holds the report of an earlier step, although
\* nothing but timing keeps the thread from reading one.
ReportsCurrent ==
  Deciding =>
    \A i \in Robots : /\ boxes_from_robots[i].dirty
                      /\ boxes_from_robots[i].msg = Status(robots[i])

\* Every robot delivers and the machine powers off.
Termination == <>(central = "off")

\* Seen from outside, the threads and the messages between them are a fleet
\* that moves one vehicle at a time: no step of the protocol moves a robot
\* twice, puts it back where it was, or makes it load or deliver again.
F == INSTANCE Fleet WITH
       Vehicles <- Robots,
       Tasks <- TaskSets,
       task <- [i \in Robots |-> [item |-> robots[i].item,
                                  dest |-> robots[i].dest]],
       pos <- [i \in Robots |-> robots[i].pos],
       load <- [i \in Robots |-> robots[i].payload],
       delivered <- [i \in Robots |-> robots[i].completed]

ActsAsFleet == F!Spec

=============================================================================
