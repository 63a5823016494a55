--------------------------- MODULE DevicesProofs ----------------------------
(***************************************************************************)
(* Proofs about interrupts (interrupt.c) and about block devices and their *)
(* partitions (block.c, partition.c), for any values of their constants.   *)
(***************************************************************************)
EXTENDS Interrupts, Partition, TLAPS

-----------------------------------------------------------------------------
(* interrupt.c: IntrExact is not inductive.  Nothing in it says at which     *)
(* level a thread that waits will go on, or that the frame at the bottom of  *)
(* a stack saved the level of the thread's own code.                         *)

Vec == ExtVec \cup IntVec
Frame == [vec : Vec, saved : BOOLEAN, pc : {"handler", "yield", "return"}]

IntrTypes ==
  /\ intr_handlers \subseteq Vec
  /\ gate \in [Vec -> {"intr", "trap"}]
  /\ IF_flag \in BOOLEAN
  /\ running \in IntrThread
  /\ frames \in [IntrThread -> Seq(Frame)]
  /\ resume_level \in [IntrThread -> BOOLEAN]
  /\ chosen_level \in [IntrThread -> BOOLEAN]
  /\ in_external_intr \in BOOLEAN /\ yield_on_return \in BOOLEAN
  /\ raised \subseteq ExtVec /\ in_service \subseteq ExtVec

\* The k-th frame of thread t is an external interrupt in its handler.
InHandler(t, k) == frames[t][k].pc = "handler" /\ frames[t][k].vec \in ExtVec

\* At most one external interrupt is in its handler, innermost on the running thread,
\* with interrupts off; it is the one in service.
OneHandler ==
  /\ \A t \in IntrThread : \A k \in 1 .. Len(frames[t]) :
       InHandler(t, k) => t = running /\ k = Len(frames[t]) /\ in_external_intr
  /\ in_external_intr =>
       /\ ~IF_flag
       /\ frames[running] # <<>> /\ InHandler(running, Len(frames[running]))
       /\ in_service = {Top(running).vec}
  /\ ~in_external_intr => in_service = {}

\* Whoever waits in its own code resumes at its own level, and so does code that was
\* interrupted.
LevelsKept ==
  /\ frames[running] = <<>> => IF_flag = chosen_level[running]
  /\ \A t \in IntrThread :
       IF frames[t] = <<>> THEN t # running => resume_level[t] = chosen_level[t]
       ELSE frames[t][1].saved = chosen_level[t]

IntrInv ==
  /\ IntrTypes
  /\ \A v \in ExtVec : gate[v] = "intr"
  /\ ~failed
  /\ OneHandler
  /\ LevelsKept
-----------------------------------------------------------------------------
(* Frames.                                                                 *)

\* A vector is external exactly if it is a device's.
LEMMA ExternalVec ==
  ASSUME NEW v \in Vec
  PROVE  external(v) <=> v \in ExtVec
  BY IntrAssumption DEF Vec, external

\* intr_handler marks the innermost frame of t and changes no other frame.
LEMMA SetTopFrames ==
  ASSUME frames \in [IntrThread -> Seq(Frame)], NEW t \in IntrThread, frames[t] # <<>>,
         NEW pc \in {"handler", "yield", "return"}
  PROVE  /\ SetTop(t, pc) \in [IntrThread -> Seq(Frame)]
         /\ \A u \in IntrThread \ {t} : SetTop(t, pc)[u] = frames[u]
         /\ Len(SetTop(t, pc)[t]) = Len(frames[t]) /\ SetTop(t, pc)[t] # <<>>
         /\ \A k \in 1 .. Len(frames[t]) :
              /\ SetTop(t, pc)[t][k].vec = frames[t][k].vec
              /\ SetTop(t, pc)[t][k].saved = frames[t][k].saved
              /\ SetTop(t, pc)[t][k].pc = IF k = Len(frames[t]) THEN pc ELSE frames[t][k].pc
<1> DEFINE s == frames[t]
           r == [s EXCEPT ![Len(s)].pc = pc]
<1>1. s \in Seq(Frame) /\ Len(s) \in Nat /\ Len(s) # 0 /\ DOMAIN s = 1 .. Len(s)
  OBVIOUS
<1>2. \A k \in 1 .. Len(s) : s[k] \in Frame
  BY <1>1
<1>3. r = [k \in 1 .. Len(s) |-> IF k = Len(s) THEN [s[k] EXCEPT !.pc = pc] ELSE s[k]]
  BY <1>1, Zenon
<1>4. \A k \in 1 .. Len(s) : r[k] \in Frame
  BY ZenonT(30), <1>2, <1>3 DEF Frame
<1>5. r \in Seq(Frame) /\ Len(r) = Len(s)
  <2>1. r \in [1 .. Len(s) -> Frame] /\ DOMAIN r = 1 .. Len(s)
    BY <1>3, <1>4, Zenon
  <2> HIDE DEF r
  <2>2. r \in Seq(Frame)
    BY <1>1, <2>1
  <2>3. Len(r) \in Nat /\ DOMAIN r = 1 .. Len(r)
    BY <2>2
  <2> QED
    BY <1>1, <2>1, <2>2, <2>3
<1>6. SetTop(t, pc) = [frames EXCEPT ![t] = r]
  BY Zenon DEF SetTop
<1> HIDE DEF r
<1>7. /\ SetTop(t, pc)[t] = r
      /\ \A u \in IntrThread \ {t} : SetTop(t, pc)[u] = frames[u]
      /\ SetTop(t, pc) \in [IntrThread -> Seq(Frame)]
  BY Zenon, <1>5, <1>6
<1>8. \A k \in 1 .. Len(s) :
        /\ r[k].vec = s[k].vec /\ r[k].saved = s[k].saved
        /\ r[k].pc = IF k = Len(s) THEN pc ELSE s[k].pc
  BY Zenon, <1>2, <1>3 DEF Frame
<1> QED
  BY <1>1, <1>5, <1>7, <1>8, Zenon

\* Entering an interrupt adds a frame that holds the level before it.
LEMMA EnterFrames ==
  ASSUME frames \in [IntrThread -> Seq(Frame)], running \in IntrThread, IF_flag \in BOOLEAN,
         NEW v \in Vec, Enter(v)
  PROVE  /\ frames' \in [IntrThread -> Seq(Frame)]
         /\ \A u \in IntrThread \ {running} : frames'[u] = frames[u]
         /\ Len(frames'[running]) = Len(frames[running]) + 1 /\ frames'[running] # <<>>
         /\ \A k \in 1 .. Len(frames[running]) : frames'[running][k] = frames[running][k]
         /\ frames'[running][Len(frames[running]) + 1] =
              [vec |-> v, saved |-> IF_flag, pc |-> "handler"]
<1> DEFINE s == frames[running]
           e == [vec |-> v, saved |-> IF_flag, pc |-> "handler"]
<1>1. s \in Seq(Frame) /\ e \in Frame
  BY Zenon DEF Frame
<1>2. frames' = [frames EXCEPT ![running] = Append(s, e)]
  BY Zenon DEF Enter
<1> HIDE DEF e
<1>3. /\ Append(s, e) \in Seq(Frame) /\ Len(Append(s, e)) = Len(s) + 1
      /\ Append(s, e)[Len(s) + 1] = e
      /\ \A k \in 1 .. Len(s) : Append(s, e)[k] = s[k]
  BY <1>1
<1>4. Append(s, e) # <<>>
  BY <1>1, <1>3
<1>5. frames'[running] = Append(s, e) /\ \A u \in IntrThread \ {running} : frames'[u] = frames[u]
  BY Zenon, <1>2
<1> USE DEF e
<1> QED
  BY Zenon, <1>2, <1>3, <1>4, <1>5

-----------------------------------------------------------------------------
(* Every step keeps IntrInv.                                               *)

\* The initial state: no frames, and every thread at the level it starts with.
LEMMA InitInv == InterruptsInit => IntrInv
<1> SUFFICES ASSUME InterruptsInit PROVE IntrInv
  OBVIOUS
<1> USE DEF InterruptsInit
<1>1. \A t \in IntrThread : frames[t] = <<>> /\ Len(frames[t]) = 0
  OBVIOUS
<1>2. IntrTypes
  <2>1. running \in IntrThread
    BY Zenon, IntrAssumption
  <2>2. frames \in [IntrThread -> Seq(Frame)]
    OBVIOUS
  <2> QED
    BY <2>1, <2>2, Zenon DEF IntrTypes, Vec
<1>3. OneHandler
  BY <1>1 DEF OneHandler
<1>4. LevelsKept
  BY Zenon, <1>1, <1>2 DEF LevelsKept, IntrTypes
<1> QED
  BY Zenon, <1>2, <1>3, <1>4 DEF IntrInv, Vec

\* A thread's own code, and internal handlers, run outside external interrupts.
LEMMA OwnCode ==
  ASSUME IntrInv, ~Base(running) => InInternal
  PROVE  ~in_external_intr
<1>1. CASE Base(running)
  BY Zenon, <1>1 DEF IntrInv, OneHandler, Base
<1>2. CASE ~Base(running)
  <2>1. Len(frames[running]) \in 1 .. Len(frames[running]) /\ Top(running) \in Frame
    BY <1>2 DEF IntrInv, IntrTypes, Base, Top
  <2>2. Top(running).vec \in Vec /\ ~external(Top(running).vec)
    BY Zenon, <1>2, <2>1 DEF InInternal, Frame
  <2>3. Top(running).vec \notin ExtVec
    BY Zenon, <2>2, ExternalVec
  <2> QED
    BY Zenon, <2>3 DEF IntrInv, OneHandler, InHandler, Top
<1> QED
  BY Zenon, <1>1, <1>2

\* register_handler gives a device's vector an interrupt gate.
LEMMA RegisterInv == ASSUME IntrInv, Register PROVE IntrInv'
<1>1. PICK v \in Vec : intr_register_ext(v) \/ (\E level \in BOOLEAN : intr_register_int(v, level))
  BY Zenon DEF Register, Vec
<1>2. IntrTypes' /\ \A w \in ExtVec : gate'[w] = "intr"
  <2>1. CASE intr_register_ext(v)
    BY Zenon, <2>1 DEF Register, IntrInv, IntrTypes, intr_register_ext, register_handler, Vec,
                flagVars, picVars
  <2>2. CASE \E level \in BOOLEAN : intr_register_int(v, level)
    <3>1. v \notin ExtVec
      BY Zenon, <2>2, ExternalVec DEF intr_register_int
    <3> QED
      BY Zenon, <2>2, <3>1 DEF Register, IntrInv, IntrTypes, intr_register_int, register_handler, Vec,
                        flagVars, picVars
  <2> QED
    BY Zenon, <1>1, <2>1, <2>2
<1>3. UNCHANGED <<IF_flag, running, frames, resume_level, chosen_level, in_external_intr,
                  in_service, failed>>
  BY Zenon DEF Register, flagVars, picVars
<1>4. OneHandler' /\ LevelsKept'
  BY Zenon, <1>3 DEF IntrInv, OneHandler, LevelsKept, InHandler, Top
<1> QED
  BY Zenon, <1>2, <1>3, <1>4 DEF IntrInv

\* Levels change only outside external interrupts, so that no ASSERT fails.
LEMMA SetLevelInv ==
  ASSUME IntrInv, NEW level \in BOOLEAN, intr_set_level(level)
  PROVE  IntrInv'
<1>1. ~in_external_intr
  BY Zenon, OwnCode DEF intr_set_level
<1>2. IntrTypes'
  BY Zenon DEF intr_set_level, IntrInv, IntrTypes, idtVars, flagVars, picVars
<1>3. OneHandler'
  BY Zenon, <1>1 DEF intr_set_level, IntrInv, OneHandler, InHandler, Top, idtVars, flagVars, picVars
<1>4. LevelsKept'
  BY Zenon, <1>2 DEF intr_set_level, IntrInv, IntrTypes, LevelsKept, Base, idtVars, flagVars, picVars
<1> QED
  BY <1>1, <1>2, <1>3, <1>4, Zenon DEF IntrInv, intr_set_level, idtVars

\* The PICs' lines, and the wish to yield, concern no frame.
LEMMA RaiseOrWishInv ==
  ASSUME IntrInv, (\E v \in ExtVec : RaiseIrq(v)) \/ intr_yield_on_return
  PROVE  IntrInv'
<1>1. IntrTypes' /\ UNCHANGED <<gate, IF_flag, running, frames, resume_level, chosen_level,
                                in_external_intr, in_service, failed>>
  <2>1. CASE \E v \in ExtVec : RaiseIrq(v)
    BY Zenon, <2>1 DEF RaiseIrq, IntrInv, IntrTypes, idtVars, flagVars
  <2>2. CASE intr_yield_on_return
    BY Zenon, <2>2 DEF intr_yield_on_return, IntrInv, IntrTypes, idtVars, picVars
  <2> QED
    BY Zenon, <2>1, <2>2
<1> QED
  BY Zenon, <1>1 DEF IntrInv, OneHandler, LevelsKept, InHandler, Top

\* An external interrupt is taken with interrupts on, hence outside of any other; its
\* gate turns them off.
LEMMA TakeExternalInv ==
  ASSUME IntrInv, NEW v \in ExtVec, TakeExternal(v)
  PROVE  IntrInv'
<1>1. v \in Vec /\ Enter(v) /\ IF_flag /\ ~in_external_intr /\ in_service = {}
  BY Zenon DEF TakeExternal, IntrInv, OneHandler, Vec
<1>2. ~IF_flag' /\ in_external_intr' /\ running' = running /\ in_service' = {v} /\ ~failed'
  BY <1>1, Zenon DEF TakeExternal, Enter, IntrInv
<1> DEFINE n == Len(frames[running])
<1>3. /\ frames' \in [IntrThread -> Seq(Frame)]
      /\ \A u \in IntrThread \ {running} : frames'[u] = frames[u]
      /\ Len(frames'[running]) = n + 1 /\ frames'[running] # <<>>
      /\ \A k \in 1 .. n : frames'[running][k] = frames[running][k]
      /\ frames'[running][n + 1] = [vec |-> v, saved |-> IF_flag, pc |-> "handler"]
  BY Zenon, <1>1, EnterFrames DEF IntrInv, IntrTypes
<1>4. running \in IntrThread /\ n \in Nat
  BY DEF IntrInv, IntrTypes
<1>5. IntrTypes'
  <2>1. IF_flag' \in BOOLEAN /\ in_external_intr' \in BOOLEAN /\ yield_on_return' \in BOOLEAN
    BY <1>1, Zenon DEF TakeExternal, Enter
  <2> QED
    BY Zenon, <1>2, <1>3, <2>1 DEF TakeExternal, IntrInv, IntrTypes, idtVars
<1>6. \A t \in IntrThread : \A k \in 1 .. Len(frames[t]) : ~InHandler(t, k)
  BY Zenon, <1>1 DEF IntrInv, OneHandler
<1>7. OneHandler'
  <2>1. ASSUME NEW t \in IntrThread, NEW k \in 1 .. Len(frames'[t]), InHandler(t, k)'
        PROVE  t = running /\ k = Len(frames'[t])
    <3>1. CASE t # running
      BY Zenon, <1>3, <1>6, <2>1, <3>1 DEF InHandler
    <3>2. CASE t = running
      <4>1. k \in 1 .. n \/ k = n + 1
        BY <1>3, <1>4, <3>2
      <4> QED
        BY Zenon, <1>3, <1>4, <1>6, <2>1, <3>2, <4>1 DEF InHandler
    <3> QED
      BY Zenon, <3>1, <3>2
  <2>2. frames'[running][Len(frames'[running])] =
          [vec |-> v, saved |-> IF_flag, pc |-> "handler"]
    BY Zenon, <1>3
  <2>3. InHandler(running, Len(frames[running]))' /\ Top(running)'.vec = v
    BY <1>2, <2>2 DEF InHandler, Top
  <2> QED
    BY Zenon, <1>2, <1>3, <2>1, <2>3 DEF OneHandler
<1>8. LevelsKept'
  <2>1. chosen_level' = chosen_level /\ resume_level' = resume_level
    BY Zenon DEF TakeExternal
  <2>2. frames'[running][1].saved = chosen_level[running]
    <3>1. CASE frames[running] = <<>>
      <4>1. n = 0 /\ IF_flag = chosen_level[running]
        BY Zenon, <3>1 DEF IntrInv, LevelsKept
      <4> QED
        BY <1>3, <4>1
    <3>2. CASE frames[running] # <<>>
      <4>1. 1 \in 1 .. n
        BY <3>2 DEF IntrInv, IntrTypes
      <4>2. frames[running][1].saved = chosen_level[running]
        BY Zenon, <1>4, <3>2 DEF IntrInv, LevelsKept
      <4> QED
        BY <1>3, <4>1, <4>2, Zenon
    <3> QED
      BY Zenon, <3>1, <3>2
  <2> QED
    BY Zenon, <1>2, <1>3, <2>1, <2>2 DEF IntrInv, LevelsKept
<1> QED
  BY Zenon, <1>2, <1>5, <1>7, <1>8 DEF IntrInv, TakeExternal, idtVars

\* An internal interrupt adds a frame that is not a device's.
LEMMA TakeInternalInv ==
  ASSUME IntrInv, NEW v \in IntVec, TakeInternal(v)
  PROVE  IntrInv'
<1>1. v \in Vec /\ v \notin ExtVec /\ Enter(v) /\ ~in_external_intr
  BY Zenon, OwnCode, IntrAssumption DEF TakeInternal, Vec
<1>2. UNCHANGED <<gate, running, resume_level, chosen_level, in_external_intr, in_service, failed>>
  BY Zenon DEF TakeInternal, idtVars, flagVars, picVars
<1> DEFINE n == Len(frames[running])
<1>3. /\ frames' \in [IntrThread -> Seq(Frame)]
      /\ \A u \in IntrThread \ {running} : frames'[u] = frames[u]
      /\ Len(frames'[running]) = n + 1 /\ frames'[running] # <<>>
      /\ \A k \in 1 .. n : frames'[running][k] = frames[running][k]
      /\ frames'[running][n + 1] = [vec |-> v, saved |-> IF_flag, pc |-> "handler"]
  BY Zenon, <1>1, EnterFrames DEF IntrInv, IntrTypes
<1>4. running \in IntrThread /\ n \in Nat
  BY DEF IntrInv, IntrTypes
<1>5. IntrTypes'
  BY Zenon, <1>1, <1>3 DEF TakeInternal, Enter, IntrInv, IntrTypes, idtVars, flagVars, picVars
<1>6. \A t \in IntrThread : \A k \in 1 .. Len(frames[t]) : ~InHandler(t, k)
  BY Zenon, <1>1 DEF IntrInv, OneHandler
<1>7. OneHandler'
  <2>1. ASSUME NEW t \in IntrThread, NEW k \in 1 .. Len(frames'[t]), InHandler(t, k)'
        PROVE  FALSE
    <3>1. CASE t # running
      BY Zenon, <1>3, <1>6, <2>1, <3>1 DEF InHandler
    <3>2. CASE t = running
      <4>1. k \in 1 .. n \/ k = n + 1
        BY <1>3, <1>4, <3>2
      <4> QED
        BY SMTT(30), <1>1, <1>3, <1>4, <1>6, <2>1, <3>2, <4>1 DEF InHandler
    <3> QED
      BY Zenon, <3>1, <3>2
  <2> QED
    BY Zenon, <1>1, <1>2, <2>1 DEF IntrInv, OneHandler
<1>8. LevelsKept'
  <2>1. frames'[running][1].saved = chosen_level[running]
    <3>1. CASE frames[running] = <<>>
      <4>1. n = 0 /\ IF_flag = chosen_level[running]
        BY Zenon, <3>1 DEF IntrInv, LevelsKept
      <4> QED
        BY <1>3, <4>1
    <3>2. CASE frames[running] # <<>>
      <4>1. 1 \in 1 .. n
        BY <3>2 DEF IntrInv, IntrTypes
      <4>2. frames[running][1].saved = chosen_level[running]
        BY Zenon, <1>4, <3>2 DEF IntrInv, LevelsKept
      <4> QED
        BY <1>3, <4>1, <4>2, Zenon
    <3> QED
      BY Zenon, <3>1, <3>2
  <2> QED
    BY Zenon, <1>2, <1>3, <2>1 DEF IntrInv, LevelsKept
<1> QED
  BY Zenon, <1>2, <1>5, <1>7, <1>8 DEF IntrInv

\* After the handler of an external interrupt none is in service, before any yield.
LEMMA HandlerReturnsInv == ASSUME IntrInv, HandlerReturns PROVE IntrInv'
<1> DEFINE n == Len(frames[running])
           f == frames[running][n]
           pc == IF external(f.vec) /\ yield_on_return THEN "yield" ELSE "return"
<1>1. running \in IntrThread /\ frames[running] # <<>> /\ n \in 1 .. n /\ f \in Frame
  BY DEF HandlerReturns, Base, IntrInv, IntrTypes
<1>2. f.pc = "handler" /\ (external(f.vec) <=> f.vec \in ExtVec)
  BY Zenon, <1>1, ExternalVec DEF HandlerReturns, Top, Frame
<1>3. frames' = SetTop(running, pc) /\ pc \in {"yield", "return"}
  BY Zenon DEF HandlerReturns, Top
<1>4. UNCHANGED <<intr_handlers, gate, IF_flag, running, resume_level, chosen_level,
                  yield_on_return, raised>>
  BY Zenon DEF HandlerReturns, idtVars
<1> HIDE DEF pc
<1>5. /\ frames' \in [IntrThread -> Seq(Frame)]
      /\ \A u \in IntrThread \ {running} : frames'[u] = frames[u]
      /\ Len(frames'[running]) = n /\ frames'[running] # <<>>
      /\ \A k \in 1 .. n :
           /\ frames'[running][k].vec = frames[running][k].vec
           /\ frames'[running][k].saved = frames[running][k].saved
           /\ frames'[running][k].pc = IF k = n THEN pc ELSE frames[running][k].pc
  BY SMTT(30), <1>1, <1>3, SetTopFrames DEF IntrInv, IntrTypes
<1>6. in_external_intr <=> f.vec \in ExtVec
  BY Zenon, <1>1, <1>2 DEF IntrInv, OneHandler, InHandler
<1>7. ~in_external_intr' /\ in_service' = {} /\ ~failed'
  <2>1. CASE f.vec \in ExtVec
    <3>1. in_external_intr' = FALSE /\ in_service' = in_service \ {f.vec}
          /\ failed' = (failed \/ IF_flag \/ ~in_external_intr)
      BY Zenon, <1>2, <2>1 DEF HandlerReturns, Top, EndExternal, pic_end_of_interrupt
    <3>2. in_service = {f.vec} /\ ~IF_flag
      BY Zenon, <1>6, <2>1 DEF IntrInv, OneHandler, Top
    <3> QED
      BY <1>6, <2>1, <3>1, <3>2, Zenon DEF IntrInv
  <2>2. CASE f.vec \notin ExtVec
    BY Zenon, <1>2, <1>6, <2>2 DEF HandlerReturns, Top, IntrInv, OneHandler
  <2> QED
    BY Zenon, <2>1, <2>2
<1>8. IntrTypes'
  <2>1. in_external_intr' \in BOOLEAN
    BY Zenon DEF HandlerReturns, EndExternal, IntrInv, IntrTypes
  <2> QED
    BY Zenon, <1>4, <1>5, <1>7, <2>1 DEF IntrInv, IntrTypes
<1>9. OneHandler'
  <2>1. ASSUME NEW t \in IntrThread, NEW k \in 1 .. Len(frames'[t]), InHandler(t, k)'
        PROVE  FALSE
    <3>1. CASE t # running
      BY Zenon, <1>1, <1>5, <2>1, <3>1 DEF IntrInv, OneHandler, InHandler
    <3>2. CASE t = running
      <4>1. k \in 1 .. n /\ k # n
        BY Zenon, <1>3, <1>5, <2>1, <3>2 DEF InHandler
      <4>2. InHandler(running, k)
        BY Zenon, <1>5, <2>1, <3>2, <4>1 DEF InHandler
      <4> QED
        BY Zenon, <1>1, <4>1, <4>2 DEF IntrInv, OneHandler
    <3> QED
      BY Zenon, <3>1, <3>2
  <2> QED
    BY Zenon, <1>7, <2>1 DEF OneHandler
<1>10. LevelsKept'
  <2>1. frames'[running][1].saved = frames[running][1].saved
    <3>1. 1 \in 1 .. n
      BY <1>1
    <3> QED
      BY Zenon, <1>5, <3>1
  <2> QED
    BY Zenon, <1>1, <1>4, <1>5, <2>1 DEF IntrInv, LevelsKept
<1> QED
  BY Zenon, <1>4, <1>7, <1>8, <1>9, <1>10 DEF IntrInv

\* iret takes the innermost frame off and restores the level it holds.
LEMMA InterruptReturnInv == ASSUME IntrInv, InterruptReturn PROVE IntrInv'
<1> DEFINE n == Len(frames[running])
           s == frames[running]
<1>1. /\ running \in IntrThread /\ s \in Seq(Frame) /\ s # <<>> /\ n \in Nat /\ n # 0
      /\ n \in 1 .. n /\ s[n] \in Frame
  BY DEF InterruptReturn, Base, IntrInv, IntrTypes
<1>2. s[n].pc = "return" /\ IF_flag' = s[n].saved
  BY Zenon DEF InterruptReturn, Top
<1>3. UNCHANGED <<intr_handlers, gate, running, resume_level, chosen_level, in_external_intr,
                  yield_on_return, raised, in_service, failed>>
  BY Zenon DEF InterruptReturn, idtVars, flagVars, picVars
<1>4. frames' = [frames EXCEPT ![running] = SubSeq(s, 1, n - 1)]
  BY Zenon DEF InterruptReturn
<1>5. /\ SubSeq(s, 1, n - 1) \in Seq(Frame) /\ Len(SubSeq(s, 1, n - 1)) = n - 1
      /\ \A k \in 1 .. n - 1 : SubSeq(s, 1, n - 1)[k] = s[k]
  BY <1>1
<1>6. /\ frames' \in [IntrThread -> Seq(Frame)]
      /\ \A u \in IntrThread \ {running} : frames'[u] = frames[u]
      /\ frames'[running] \in Seq(Frame) /\ Len(frames'[running]) = n - 1
      /\ \A k \in 1 .. n - 1 : frames'[running][k] = s[k]
  BY Zenon, <1>1, <1>4, <1>5 DEF IntrInv, IntrTypes
<1>7. ~in_external_intr
  BY Zenon, <1>1, <1>2 DEF IntrInv, OneHandler, InHandler
<1>8. IntrTypes'
  BY Zenon, <1>1, <1>2, <1>3, <1>6 DEF IntrInv, IntrTypes, Frame
<1>9. OneHandler'
  <2>1. ASSUME NEW t \in IntrThread, NEW k \in 1 .. Len(frames'[t]), InHandler(t, k)'
        PROVE  FALSE
    <3>1. \A u \in IntrThread : \A j \in 1 .. Len(frames[u]) : ~InHandler(u, j)
      BY Zenon, <1>7 DEF IntrInv, OneHandler
    <3>2. CASE t # running
      BY Zenon, <1>6, <2>1, <3>1, <3>2 DEF InHandler
    <3>3. CASE t = running
      <4>1. k \in 1 .. n - 1 /\ k \in 1 .. n
        BY <1>1, <1>6, <2>1, <3>3
      <4> QED
        BY Zenon, <1>1, <1>6, <2>1, <3>1, <3>3, <4>1 DEF InHandler
    <3> QED
      BY Zenon, <3>2, <3>3
  <2> QED
    BY Zenon, <1>3, <1>7, <2>1 DEF IntrInv, OneHandler
<1>10. LevelsKept'
  <2>1. s[1].saved = chosen_level[running]
    BY Zenon, <1>1 DEF IntrInv, LevelsKept
  <2>2. CASE n = 1
    <3>1. frames'[running] = <<>>
      BY <1>6, <2>2
    <3> QED
      BY Zenon, <1>2, <1>3, <1>6, <2>1, <2>2, <3>1 DEF IntrInv, LevelsKept
  <2>3. CASE n # 1
    <3>0. n - 1 \in Nat /\ n - 1 # 0
      BY <1>1, <2>3
    <3>1. 1 \in 1 .. n - 1
      BY SMTT(30), <3>0
    <3>2. frames'[running] # <<>>
      <4>1. Len(frames'[running]) # 0
        BY Zenon, <1>6, <3>0
      <4> QED
        BY <4>1
    <3> QED
      BY Zenon, <1>1, <1>3, <1>6, <2>1, <3>1, <3>2 DEF IntrInv, LevelsKept
  <2> QED
    BY Zenon, <2>2, <2>3
<1> QED
  BY Zenon, <1>3, <1>8, <1>9, <1>10 DEF IntrInv

\* A thread gives the processor up outside of external interrupts, at a level that
\* is its own if it runs its own code.
LEMMA YieldInv ==
  ASSUME IntrInv, NEW t \in IntrThread, yield_to(t)
  PROVE  IntrInv'
<1> DEFINE n == Len(frames[running])
<1>1. running \in IntrThread /\ t # running /\ IF_flag \in BOOLEAN
      /\ resume_level \in [IntrThread -> BOOLEAN] /\ frames \in [IntrThread -> Seq(Frame)]
  BY Zenon DEF yield_to, IntrInv, IntrTypes
<1>2. /\ running' = t /\ IF_flag' = resume_level[t]
      /\ resume_level' = [resume_level EXCEPT ![running] = IF_flag]
      /\ failed' = (failed \/ in_external_intr)
      /\ UNCHANGED <<intr_handlers, gate, chosen_level, in_external_intr, yield_on_return,
                     raised, in_service>>
  BY Zenon DEF yield_to, idtVars, flagVars, picVars
<1>3. /\ ~in_external_intr
      /\ frames' \in [IntrThread -> Seq(Frame)]
      /\ \A u \in IntrThread : /\ Len(frames'[u]) = Len(frames[u])
                               /\ frames'[u] = <<>> <=> frames[u] = <<>>
      /\ \A u \in IntrThread : \A k \in 1 .. Len(frames[u]) :
           /\ frames'[u][k].vec = frames[u][k].vec
           /\ frames'[u][k].saved = frames[u][k].saved
           /\ frames'[u][k].pc = "handler" => frames[u][k].pc = "handler"
  <2>1. CASE (~Base(running) => InInternal) /\ UNCHANGED frames
    BY Zenon, <1>1, <2>1, OwnCode
  <2>2. CASE ~Base(running) /\ Top(running).pc = "yield" /\ frames' = SetTop(running, "return")
    <3>1. ~in_external_intr
      BY Zenon, <2>2 DEF IntrInv, OneHandler, InHandler, Top
    <3>2. frames[running] # <<>>
      BY Zenon, <2>2 DEF Base
    <3>3. /\ frames' \in [IntrThread -> Seq(Frame)]
          /\ \A u \in IntrThread \ {running} : frames'[u] = frames[u]
          /\ Len(frames'[running]) = n /\ frames'[running] # <<>>
          /\ \A k \in 1 .. n :
               /\ frames'[running][k].vec = frames[running][k].vec
               /\ frames'[running][k].saved = frames[running][k].saved
               /\ frames'[running][k].pc = IF k = n THEN "return" ELSE frames[running][k].pc
      BY SMTT(30), <1>1, <2>2, <3>2, SetTopFrames
    <3> QED
      BY <3>1, <3>2, <3>3, ZenonT(30)
  <2> QED
    BY Zenon, <2>1, <2>2 DEF yield_to
<1>4. IntrTypes'
  BY <1>1, <1>2, <1>3, Zenon DEF IntrInv, IntrTypes
<1>5. OneHandler'
  <2>1. \A u \in IntrThread : \A k \in 1 .. Len(frames[u]) : ~InHandler(u, k)
    BY Zenon, <1>3 DEF IntrInv, OneHandler
  <2>2. \A u \in IntrThread : \A k \in 1 .. Len(frames'[u]) : ~InHandler(u, k)'
    BY <1>3, <2>1 DEF InHandler
  <2> QED
    BY Zenon, <1>2, <1>3, <2>2 DEF IntrInv, OneHandler
<1>6. LevelsKept'
  <2>1. frames'[t] = <<>> => IF_flag' = chosen_level'[t]
    BY Zenon, <1>1, <1>2, <1>3 DEF IntrInv, LevelsKept
  <2>2. ASSUME NEW u \in IntrThread, frames'[u] = <<>>, u # t
        PROVE  resume_level'[u] = chosen_level'[u]
    <3>1. CASE u = running
      BY Zenon, <1>1, <1>2, <1>3, <2>2, <3>1 DEF IntrInv, LevelsKept
    <3>2. CASE u # running
      BY Zenon, <1>1, <1>2, <1>3, <2>2, <3>2 DEF IntrInv, LevelsKept
    <3> QED
      BY Zenon, <3>1, <3>2
  <2>3. ASSUME NEW u \in IntrThread, frames'[u] # <<>>
        PROVE  frames'[u][1].saved = chosen_level'[u]
    <3>1. frames[u] # <<>> /\ 1 \in 1 .. Len(frames[u])
      BY SMTT(30), <1>1, <1>3, <2>3
    <3> QED
      BY Zenon, <1>2, <1>3, <3>1 DEF IntrInv, LevelsKept
  <2> QED
    BY Zenon, <1>2, <2>1, <2>2, <2>3 DEF LevelsKept
<1> QED
  BY <1>2, <1>3, <1>4, <1>5, <1>6, Zenon DEF IntrInv

\* IntrInv is inductive.
LEMMA NextInv == IntrInv /\ [InterruptsNext]_intrVars => IntrInv'
<1> SUFFICES ASSUME IntrInv, [InterruptsNext]_intrVars PROVE IntrInv'
  OBVIOUS
<1>1. CASE Register
  BY Zenon, <1>1, RegisterInv
<1>2. CASE intr_yield_on_return \/ \E v \in ExtVec : RaiseIrq(v)
  BY Zenon, <1>2, RaiseOrWishInv
<1>3. CASE HandlerReturns
  BY Zenon, <1>3, HandlerReturnsInv
<1>4. CASE InterruptReturn
  BY Zenon, <1>4, InterruptReturnInv
<1>5. CASE \E level \in BOOLEAN : intr_set_level(level)
  BY Zenon, <1>5, SetLevelInv
<1>6. CASE \E v \in ExtVec : TakeExternal(v)
  BY Zenon, <1>6, TakeExternalInv
<1>7. CASE \E v \in IntVec : TakeInternal(v)
  BY Zenon, <1>7, TakeInternalInv
<1>8. CASE \E t \in IntrThread : yield_to(t)
  BY Zenon, <1>8, YieldInv
<1>9. CASE UNCHANGED intrVars
  BY Zenon, <1>9 DEF intrVars, IntrInv, IntrTypes, OneHandler, LevelsKept, InHandler, Top
<1> QED
  BY Zenon, <1>1, <1>2, <1>3, <1>4, <1>5, <1>6, <1>7, <1>8, <1>9 DEF InterruptsNext

\* IntrInv says more than IntrExact.
LEMMA InvExact == IntrInv => IntrExact
<1> SUFFICES ASSUME IntrInv PROVE IntrExact
  OBVIOUS
<1>1. running \in IntrThread /\ \A t \in IntrThread : frames[t] \in Seq(Frame)
  BY Zenon DEF IntrInv, IntrTypes
<1>2. ASSUME NEW t \in IntrThread
      PROVE  Handling(t) = {k \in 1 .. Len(frames[t]) : InHandler(t, k)}
  <2>1. \A k \in 1 .. Len(frames[t]) : frames[t][k] \in Frame
    BY <1>1
  <2>2. \A k \in 1 .. Len(frames[t]) : external(frames[t][k].vec) <=> frames[t][k].vec \in ExtVec
    BY Zenon, <2>1, ExternalVec DEF Frame
  <2> QED
    BY SMTT(30), <1>1, <2>2 DEF Handling, InHandler
<1>3. CASE in_external_intr
  <2>1. Len(frames[running]) \in 1 .. Len(frames[running])
    BY <1>1, <1>3 DEF IntrInv, OneHandler
  <2>2. Handling(running) = {Len(frames[running])}
    BY Zenon, <1>1, <1>2, <1>3, <2>1 DEF IntrInv, OneHandler
  <2>3. \A t \in IntrThread : t # running => Handling(t) = {}
    BY Zenon, <1>2 DEF IntrInv, OneHandler
  <2> QED
    BY ZenonT(30), <1>1, <1>3, <2>2, <2>3 DEF IntrInv, OneHandler, LevelsKept, IntrExact, Base, Top
<1>4. CASE ~in_external_intr
  <2>1. \A t \in IntrThread : Handling(t) = {}
    BY Zenon, <1>2, <1>4 DEF IntrInv, OneHandler
  <2> QED
    BY Zenon, <1>1, <1>4, <2>1 DEF IntrInv, OneHandler, LevelsKept, IntrExact, Base
<1> QED
  BY Zenon, <1>3, <1>4

\* interrupt.c, for any number of threads, devices and exceptions and any nesting:
\* external interrupts never nest, run with interrupts off and are acknowledged before
\* their thread yields; every level that was interrupted comes back; no ASSERT fails.
THEOREM InterruptsExact == IntrSpec => []IntrExact
<1>1. IntrInv /\ [InterruptsNext]_intrVars => IntrInv'
  BY Zenon, NextInv
<1> QED
  BY <1>1, InitInv, InvExact, PTL DEF IntrSpec

-----------------------------------------------------------------------------
(* block.c, partition.c: devices stay within the disk.  The property needs   *)
(* to know the disk itself, and that found_partition accepted every device.  *)

SectorNumber == 0 .. SectorWord - 1

\* A device, and a call of read_partition_table that found a table.
DeviceType == {"raw", "kernel", "filesys", "scratch", "swap", "foreign"}
Device == [nr : Nat, type : DeviceType, start : Nat, size : Nat, read_cnt : Nat, write_cnt : Nat]
TableCall == [sector : SectorNumber, primary : SectorNumber, i : Nat \ {0}]

\* A device ends where the disk does or before.
Within(b) == b.start + b.size <= RawSize

PartitionInv ==
  /\ image \in [0 .. RawSize - 1 -> Seq(Entry)]
  /\ calls \in Seq(TableCall)
  /\ part_nr \in Nat /\ transfers \in Nat
  /\ all_blocks \in Seq(Device)
  /\ \A b \in 1 .. Len(all_blocks) : Within(all_blocks[b])
  /\ all_blocks # <<>> => all_blocks[Disk].size = RawSize
  /\ phase # "off" => all_blocks # <<>>

\* The remainder of a sum of two sector numbers.
LEMMA WrappedSum ==
  ASSUME NEW x \in SectorNumber, NEW y \in SectorNumber
  PROVE  /\ Wrapped(x + y) \in SectorNumber
         /\ x + y < SectorWord => Wrapped(x + y) = x + y
         /\ x + y >= SectorWord => Wrapped(x + y) = x + y - SectorWord
  BY PartitionAssumption DEF Wrapped, SectorNumber

\* found_partition: an end that wraps around is below the start.
LEMMA FitsWithin ==
  ASSUME NEW start \in SectorNumber, NEW size \in SectorNumber, Fits(start, size)
  PROVE  start + size <= RawSize
  BY WrappedSum, PartitionAssumption DEF Fits, SectorNumber

\* A sequence with one element replaced.
LEMMA ReplacedIn ==
  ASSUME NEW S, NEW s \in Seq(S), NEW n \in 1 .. Len(s), NEW e \in S
  PROVE  /\ [s EXCEPT ![n] = e] \in Seq(S) /\ Len([s EXCEPT ![n] = e]) = Len(s)
         /\ \A k \in 1 .. Len(s) : [s EXCEPT ![n] = e][k] = IF k = n THEN e ELSE s[k]
<1> DEFINE r == [s EXCEPT ![n] = e]
<1>1. Len(s) \in Nat /\ DOMAIN s = 1 .. Len(s) /\ \A k \in 1 .. Len(s) : s[k] \in S
  OBVIOUS
<1>2. r \in [1 .. Len(s) -> S] /\ DOMAIN r = 1 .. Len(s)
      /\ \A k \in 1 .. Len(s) : r[k] = IF k = n THEN e ELSE s[k]
  BY Zenon, <1>1
<1> HIDE DEF r
<1>3. r \in Seq(S)
  BY <1>1, <1>2
<1>4. Len(r) \in Nat /\ DOMAIN r = 1 .. Len(r)
  BY <1>3
<1>5. Len(r) = Len(s)
  BY <1>1, <1>2, <1>4
<1> USE DEF r
<1> QED
  BY Zenon, <1>2, <1>3, <1>5

\* The next call starts in the sector it is given.
LEMMA CallAdded ==
  ASSUME NEW stack \in Seq(TableCall), NEW sector \in SectorNumber, NEW primary \in SectorNumber
  PROVE  read_partition_table(stack, sector, primary) \in Seq(TableCall)
<1>1. [sector |-> sector, primary |-> primary, i |-> 1] \in TableCall
  BY DEF TableCall
<1> QED
  BY <1>1 DEF read_partition_table

\* A partition that does not fit is not registered.
LEMMA FoundWithin ==
  ASSUME NEW blocks \in Seq(Device), \A b \in 1 .. Len(blocks) : Within(blocks[b]),
         blocks # <<>>, blocks[Disk].size = RawSize,
         NEW type, NEW start \in SectorNumber, NEW size \in SectorNumber, NEW nr \in Nat
  PROVE  LET found == found_partition(blocks, type, start, size, nr)
         IN  /\ found \in Seq(Device) /\ found # <<>> /\ found[Disk].size = RawSize
             /\ \A b \in 1 .. Len(found) : Within(found[b])
<1>1. CASE ~Fits(start, size)
  BY Zenon, <1>1 DEF found_partition
<1>2. CASE Fits(start, size)
  <2> DEFINE d == Block(nr, PartitionType(type), start, size)
  <2>0. PartitionType(type) \in DeviceType
    BY Zenon DEF PartitionType, DeviceType
  <2>1. d \in Device /\ d.start = start /\ d.size = size
    BY SMTT(30), <2>0, PartitionAssumption DEF Block, Device, SectorNumber
  <2>2. Within(d)
    BY Zenon, <1>2, <2>1, FitsWithin DEF Within
  <2> HIDE DEF d
  <2>3. /\ Append(blocks, d) \in Seq(Device) /\ Len(Append(blocks, d)) = Len(blocks) + 1
        /\ Append(blocks, d)[Len(blocks) + 1] = d
        /\ \A k \in 1 .. Len(blocks) : Append(blocks, d)[k] = blocks[k]
    BY <2>1
  <2>4. Append(blocks, d) # <<>> /\ Disk \in 1 .. Len(blocks)
    BY <2>3 DEF Disk
  <2>5. \A b \in 1 .. Len(Append(blocks, d)) : Within(Append(blocks, d)[b])
    BY <2>2, <2>3
  <2>6. found_partition(blocks, type, start, size, nr) = Append(blocks, d)
    BY Zenon, <1>2 DEF found_partition, block_register, d
  <2> QED
    BY Zenon, <2>3, <2>4, <2>5, <2>6
<1> QED
  BY Zenon, <1>1, <1>2

\* Counting an access changes no device's place.
LEMMA CountedWithin ==
  ASSUME PartitionInv, NEW b, NEW field \in {"read_cnt", "write_cnt"}
  PROVE  /\ Counted(b, field) \in Seq(Device) /\ Len(Counted(b, field)) = Len(all_blocks)
         /\ \A k \in 1 .. Len(all_blocks) : /\ Counted(b, field)[k].start = all_blocks[k].start
                                             /\ Counted(b, field)[k].size = all_blocks[k].size
<1> DEFINE r == Counted(b, field)
<1>1. /\ Len(all_blocks) \in Nat /\ DOMAIN all_blocks = 1 .. Len(all_blocks)
      /\ \A k \in 1 .. Len(all_blocks) : all_blocks[k] \in Device
  BY DEF PartitionInv
<1>2. ASSUME NEW d \in Device
      PROVE  LET e == [d EXCEPT ![field] = @ + 1]
             IN  e \in Device /\ e.start = d.start /\ e.size = d.size
  <2> DEFINE e == [d EXCEPT ![field] = @ + 1]
  <2>1. CASE field = "read_cnt"
    <3>1. e = [d EXCEPT !.read_cnt = d.read_cnt + 1]
      BY Zenon, <2>1
    <3>2. [d EXCEPT !.read_cnt = d.read_cnt + 1] \in Device
      BY DEF Device
    <3> QED
      BY Zenon, <3>1, <3>2 DEF Device
  <2>2. CASE field = "write_cnt"
    <3>1. e = [d EXCEPT !.write_cnt = d.write_cnt + 1]
      BY Zenon, <2>2
    <3>2. [d EXCEPT !.write_cnt = d.write_cnt + 1] \in Device
      BY DEF Device
    <3> QED
      BY Zenon, <3>1, <3>2 DEF Device
  <2> QED
    BY Zenon, <2>1, <2>2
<1>3. /\ r \in [1 .. Len(all_blocks) -> Device] /\ DOMAIN r = 1 .. Len(all_blocks)
      /\ \A k \in 1 .. Len(all_blocks) : /\ r[k].start = all_blocks[k].start
                                          /\ r[k].size = all_blocks[k].size
  BY Zenon, <1>1, <1>2 DEF Counted
<1> HIDE DEF r
<1>4. r \in Seq(Device)
  BY <1>1, <1>3
<1>5. Len(r) \in Nat /\ DOMAIN r = 1 .. Len(r)
  BY <1>4
<1>6. Len(r) = Len(all_blocks)
  BY <1>1, <1>3, <1>5
<1> USE DEF r
<1> QED
  BY Zenon, <1>3, <1>4, <1>6

\* No device is registered at the start.
LEMMA PartitionInitInv == PartitionInit => PartitionInv
<1> SUFFICES ASSUME PartitionInit PROVE PartitionInv
  OBVIOUS
<1>1. NoImage \in [0 .. RawSize - 1 -> Seq(Entry)]
  BY DEF NoImage
<1> QED
  BY <1>1 DEF PartitionInit, PartitionInv

\* partition_scan: the whole disk fits the disk.
LEMMA ScanInv == PartitionInv /\ partition_scan => PartitionInv'
<1> SUFFICES ASSUME PartitionInv, partition_scan PROVE PartitionInv'
  OBVIOUS
<1> DEFINE d == [Block(0, "raw", 0, RawSize) EXCEPT !.read_cnt = 1]
<1>1. image' \in [0 .. RawSize - 1 -> Seq(Entry)]
  BY Zenon, PartitionAssumption DEF partition_scan
<1>2. calls' \in Seq(TableCall)
  <2>1. [sector |-> 0, primary |-> 0, i |-> 1] \in TableCall
    BY PartitionAssumption DEF TableCall, SectorNumber
  <2> QED
    BY <2>1 DEF partition_scan, read_partition_table
<1>3. d \in Device /\ d.start = 0 /\ d.size = RawSize
  BY PartitionAssumption DEF Block, Device, DeviceType
<1>4. all_blocks' = <<d>>
  BY Zenon DEF partition_scan
<1> HIDE DEF d
<1>5. /\ <<d>> \in Seq(Device) /\ <<d>> # <<>> /\ <<d>>[1] = d
      /\ \A b \in 1 .. Len(<<d>>) : Within(<<d>>[b])
  BY <1>3, PartitionAssumption DEF Within
<1>6. all_blocks'[Disk].size = RawSize
  BY Zenon, <1>3, <1>4, <1>5 DEF Disk
<1> QED
  BY Zenon, <1>1, <1>2, <1>4, <1>5, <1>6 DEF partition_scan, PartitionInv, Within

\* read_partition_table: an entry is registered only if found_partition finds that it fits.
LEMMA TableEntryInv == PartitionInv /\ TableEntry => PartitionInv'
<1> SUFFICES ASSUME PartitionInv, TableEntry PROVE PartitionInv'
  OBVIOUS
<1> DEFINE e == image[0][Innermost.i]
<1>1. Len(calls) \in 1 .. Len(calls) /\ Innermost \in TableCall
  BY DEF PartitionInv, TableEntry, Innermost
<1>2. e \in Entry
  <2>1. 0 \in 0 .. RawSize - 1 /\ Innermost.i \in Nat \ {0}
    BY <1>1, PartitionAssumption DEF TableCall
  <2>2. image[0] \in Seq(Entry)
    BY Zenon, <2>1 DEF PartitionInv
  <2> QED
    BY <2>1, <2>2 DEF TableEntry
<1>3. /\ e.offset \in SectorNumber /\ e.size \in SectorNumber
      /\ Innermost.sector \in SectorNumber /\ Innermost.primary \in SectorNumber
  BY Zenon, <1>1, <1>2 DEF Entry, TableCall, SectorNumber
<1>4. Advanced \in Seq(TableCall)
  <2> DEFINE t == [Innermost EXCEPT !.i = Innermost.i + 1]
  <2>1. t \in TableCall
    BY <1>1 DEF TableCall
  <2>2. Advanced = [calls EXCEPT ![Len(calls)] = t]
    BY Zenon DEF Advanced, Innermost
  <2> HIDE DEF t
  <2> QED
    BY Zenon, <1>1, <2>1, <2>2, ReplacedIn DEF PartitionInv
<1>5. all_blocks # <<>> /\ all_blocks[Disk].size = RawSize
  BY Zenon DEF TableEntry, PartitionInv
<1> HIDE DEF e
<1>6. CASE Ignored(e) /\ calls' = Advanced /\ UNCHANGED <<part_nr, all_blocks, transfers, phase>>
  BY Zenon, <1>4, <1>6 DEF TableEntry, PartitionInv, Within
<1>7. CASE /\ calls' = read_partition_table(Advanced, TableSector(Innermost, e), Primary(Innermost, e))
           /\ transfers' = transfers + TableReads(TableSector(Innermost, e))
           /\ all_blocks' = [all_blocks EXCEPT ![Disk].read_cnt = transfers']
           /\ UNCHANGED part_nr
  <2>1. TableSector(Innermost, e) \in SectorNumber /\ Primary(Innermost, e) \in SectorNumber
    BY Zenon, <1>3, WrappedSum DEF TableSector, Primary
  <2>2. calls' \in Seq(TableCall)
    BY Zenon, <1>4, <1>7, <2>1, CallAdded
  <2>3. transfers' \in Nat
    BY <1>7 DEF TableReads, PartitionInv
  <2> DEFINE d == [all_blocks[Disk] EXCEPT !.read_cnt = transfers']
  <2>4. Disk \in 1 .. Len(all_blocks) /\ all_blocks[Disk] \in Device
    BY <1>5 DEF Disk, PartitionInv
  <2>5. d \in Device /\ d.start = all_blocks[Disk].start /\ d.size = all_blocks[Disk].size
    BY Zenon, <2>3, <2>4 DEF Device
  <2>6. all_blocks' = [all_blocks EXCEPT ![Disk] = d]
    BY Zenon, <1>7
  <2> HIDE DEF d
  <2>7. /\ all_blocks' \in Seq(Device) /\ Len(all_blocks') = Len(all_blocks)
        /\ \A k \in 1 .. Len(all_blocks) :
             all_blocks'[k] = IF k = Disk THEN d ELSE all_blocks[k]
    BY SMTT(30), <2>4, <2>5, <2>6, ReplacedIn DEF PartitionInv
  <2>8. /\ \A b \in 1 .. Len(all_blocks') : Within(all_blocks'[b])
        /\ all_blocks'[Disk].size = RawSize
    BY Zenon, <1>5, <2>4, <2>5, <2>7 DEF Within, PartitionInv
  <2>9. all_blocks' # <<>>
    BY <1>5, <2>7 DEF PartitionInv
  <2> QED
    BY Zenon, <1>7, <2>2, <2>3, <2>7, <2>8, <2>9 DEF TableEntry, PartitionInv, Within
<1>8. CASE /\ part_nr' = part_nr + 1
           /\ all_blocks' = found_partition(all_blocks, e.type, Wrapped(e.offset + Innermost.sector),
                                            e.size, part_nr')
           /\ calls' = Advanced /\ UNCHANGED <<transfers, phase>>
  <2>1. part_nr' \in Nat /\ Wrapped(e.offset + Innermost.sector) \in SectorNumber
    BY SMTT(30), <1>3, <1>8, WrappedSum DEF PartitionInv
  <2>2. /\ all_blocks' \in Seq(Device) /\ all_blocks' # <<>>
        /\ all_blocks'[Disk].size = RawSize
        /\ \A b \in 1 .. Len(all_blocks') : Within(all_blocks'[b])
    BY SMTT(30), <1>3, <1>5, <1>8, <2>1, FoundWithin DEF PartitionInv
  <2> QED
    BY Zenon, <1>4, <1>8, <2>1, <2>2 DEF TableEntry, PartitionInv, Within
<1> QED
  BY Zenon, <1>6, <1>7, <1>8 DEF TableEntry, e

\* read_partition_table: returning leaves the devices as they are.
LEMMA TableDoneInv == PartitionInv /\ TableDone => PartitionInv'
<1> SUFFICES ASSUME PartitionInv, TableDone PROVE PartitionInv'
  OBVIOUS
<1>1. calls' \in Seq(TableCall)
  <2>1. CASE calls # <<>> /\ calls' = SubSeq(calls, 1, Len(calls) - 1)
    <3>1. Len(calls) \in Nat \ {0} /\ \A k \in 1 .. Len(calls) : calls[k] \in TableCall
      BY <2>1 DEF PartitionInv
    <3>2. SubSeq(calls, 1, Len(calls) - 1) = [k \in 1 .. Len(calls) - 1 |-> calls[k]]
      BY <3>1 DEF PartitionInv
    <3>3. Len(calls) - 1 \in Nat /\ \A k \in 1 .. Len(calls) - 1 : calls[k] \in TableCall
      BY <3>1
    <3>4. calls' \in [1 .. Len(calls) - 1 -> TableCall]
      BY <2>1, <3>2, <3>3, Zenon
    <3> QED
      BY <3>3, <3>4
  <2>2. CASE UNCHANGED calls
    BY Zenon, <2>2 DEF PartitionInv
  <2> QED
    BY Zenon, <2>1, <2>2 DEF TableDone
<1>2. all_blocks # <<>>
  BY Zenon DEF TableDone, PartitionInv
<1> QED
  BY Zenon, <1>1, <1>2 DEF TableDone, PartitionInv, Within

\* locate_block_devices: choosing devices leaves them as they are.
LEMMA LocateInv == PartitionInv /\ locate_block_devices => PartitionInv'
  BY Zenon DEF locate_block_devices, PartitionInv, Within

\* block_read, block_write: an access changes a count and no device's place.
LEMMA AccessInv ==
  ASSUME PartitionInv, NEW b, NEW sector, block_read(b, sector) \/ block_write(b, sector)
  PROVE  PartitionInv'
<1>1. all_blocks # <<>> /\ Disk \in 1 .. Len(all_blocks)
  BY SMTT(30) DEF block_read, block_write, PartitionInv, Disk
<1>2. ASSUME NEW field \in {"read_cnt", "write_cnt"}, all_blocks' = Counted(b, field),
             transfers' = transfers + 1, UNCHANGED <<image, calls, part_nr, phase>>
      PROVE  PartitionInv'
  <2> DEFINE r == Counted(b, field)
  <2>1. /\ r \in Seq(Device) /\ Len(r) = Len(all_blocks)
        /\ \A k \in 1 .. Len(all_blocks) :
             r[k].start = all_blocks[k].start /\ r[k].size = all_blocks[k].size
    BY Zenon, CountedWithin
  <2>2. all_blocks' = r
    BY Zenon, <1>2
  <2> HIDE DEF r
  <2>3. /\ \A k \in 1 .. Len(r) : Within(r[k])
        /\ r[Disk].size = RawSize
    BY Zenon, <1>1, <2>1 DEF Within, PartitionInv
  <2>4. r # <<>>
    BY <1>1, <2>1
  <2> QED
    BY SMTT(30), <1>2, <2>1, <2>2, <2>3, <2>4 DEF PartitionInv, Within
<1>3. CASE UNCHANGED <<image, calls, part_nr, all_blocks, transfers>>
  BY Zenon, <1>1, <1>3 DEF PartitionInv, Within
<1> QED
  BY Zenon, <1>2, <1>3 DEF block_read, block_write

\* Every step keeps the invariant.
LEMMA PartitionNextInv == PartitionInv /\ [PartitionNext]_partitionVars => PartitionInv'
<1> SUFFICES ASSUME PartitionInv, [PartitionNext]_partitionVars PROVE PartitionInv'
  OBVIOUS
<1>1. CASE UNCHANGED partitionVars
  BY Zenon, <1>1 DEF partitionVars, PartitionInv, Within
<1> QED
  BY Zenon, <1>1, ScanInv, TableEntryInv, TableDoneInv, LocateInv, AccessInv DEF PartitionNext

\* A device within the disk is accessed within it, and sums do not wrap around.
LEMMA InvFits == PartitionInv => DevicesFit
<1> SUFFICES ASSUME PartitionInv, NEW b \in DOMAIN all_blocks
             PROVE  /\ DeviceSectors(b) \subseteq 0 .. RawSize - 1
                    /\ \A sector \in 0 .. all_blocks[b].size - 1 :
                         /\ DiskSectorOf(b, sector) = all_blocks[b].start + sector
                         /\ ~Panics(Disk, DiskSectorOf(b, sector))
  BY Zenon DEF DevicesFit
<1>1. /\ b \in 1 .. Len(all_blocks) /\ all_blocks[b] \in Device
      /\ all_blocks # <<>> /\ all_blocks[Disk].size = RawSize
  BY DEF PartitionInv
<1>2. /\ all_blocks[b].start \in Nat /\ all_blocks[b].size \in Nat
      /\ all_blocks[b].start + all_blocks[b].size <= RawSize
  BY Zenon, <1>1 DEF PartitionInv, Device, Within
<1>3. DeviceSectors(b) \subseteq 0 .. RawSize - 1
  BY SMTT(30), <1>2, PartitionAssumption DEF DeviceSectors
<1>4. ASSUME NEW sector \in 0 .. all_blocks[b].size - 1
      PROVE  /\ DiskSectorOf(b, sector) = all_blocks[b].start + sector
             /\ ~Panics(Disk, DiskSectorOf(b, sector))
  <2>1. /\ all_blocks[b].start \in SectorNumber /\ sector \in SectorNumber
        /\ all_blocks[b].start + sector < RawSize
        /\ all_blocks[b].start + sector < SectorWord
    BY SMTT(30), <1>2, PartitionAssumption DEF SectorNumber
  <2>2. DiskSectorOf(b, sector) = all_blocks[b].start + sector
    BY Zenon, <2>1, WrappedSum DEF DiskSectorOf
  <2> QED
    BY SMTT(30), <1>1, <1>2, <2>1, <2>2, PartitionAssumption DEF Panics
<1> QED
  BY Zenon, <1>3, <1>4

\* found_partition, partition_read, partition_write: for any disk, sector number and
\* partition tables, every registered device lies within the disk, and an access that
\* its own check admits reaches the sector it names and passes the disk's check.
THEOREM DevicesWithinDisk == PartitionSpec => []DevicesFit
<1>1. PartitionSpec => []PartitionInv
  BY PartitionInitInv, PartitionNextInv, PTL DEF PartitionSpec
<1> QED
  BY <1>1, InvFits, PTL
=============================================================================
