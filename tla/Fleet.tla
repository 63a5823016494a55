------------------------------- MODULE Fleet -------------------------------
(***************************************************************************)
(* What the automated warehouse promises, without threads or messages: the *)
(* vehicles move one cell at a time over free floor, one after another;    *)
(* each fetches its own item and delivers it once, at its own destination. *)
(***************************************************************************)
EXTENDS AwMap

CONSTANTS Vehicles, Tasks

VARIABLES task, pos, load, delivered

fleetVars == <<task, pos, load, delivered>>

Init ==
  /\ task \in Tasks
  /\ pos = [v \in Vehicles |-> PlaceW]
  /\ load = [v \in Vehicles |-> 0]
  /\ delivered = [v \in Vehicles |-> FALSE]

\* Item cells admit only an empty vehicle that comes for that item; cells other
\* than A, B, C and W hold one vehicle.
MayEnter(v, c) ==
  /\ c \in Cells /\ CellAt(c) # "X"
  /\ CellAt(c) \in DigitChars => load[v] = 0 /\ CellAt(c) = Digit[task[v].item]
  /\ is_shared_place(c) \/ \A w \in Vehicles : pos[w] # c

Move(v) ==
  /\ ~delivered[v]
  /\ \E d \in Directions :
       /\ MayEnter(v, get_next_position(pos[v], d))
       /\ pos' = [pos EXCEPT ![v] = get_next_position(@, d)]
  /\ UNCHANGED <<task, load, delivered>>

Load(v) ==
  /\ ~delivered[v] /\ load[v] = 0
  /\ pos[v] = get_item_position(task[v].item)
  /\ load' = [load EXCEPT ![v] = task[v].item]
  /\ UNCHANGED <<task, pos, delivered>>

Deliver(v) ==
  /\ load[v] # 0
  /\ pos[v] = get_destination_position(task[v].dest)
  /\ load' = [load EXCEPT ![v] = 0]
  /\ delivered' = [delivered EXCEPT ![v] = TRUE]
  /\ UNCHANGED <<task, pos>>

Next == \E v \in Vehicles : Move(v) \/ Load(v) \/ Deliver(v)

Spec == Init /\ [][Next]_fleetVars
=============================================================================
