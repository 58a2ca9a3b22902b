---------------------------- MODULE KernelProofs ----------------------------
(***************************************************************************)
(* Theorems about Kernel for every number of tasks, devices and mutexes,   *)
(* every choice of the points at which the timer interrupt is taken, and   *)
(* any number of calls of task_create: the types, the mutexes, and whose   *)
(* stack the processor is on.                                              *)
(***************************************************************************)
EXTENDS Kernel, MinFacts

\* highest_prio returns a priority, and the best that a task has unless there
\* is none.
LEMMA HighestPrioOfTask ==
  ASSUME NEW q \in Queues
  PROVE  /\ HighestPrio(q) \in Prio
         /\ \A p \in Prio : q[p] # NULL => q[HighestPrio(q)] # NULL /\ HighestPrio(q) <= p
<1>1. Occupied(q) \in SUBSET (0 .. OS_MAX_TASKS - 1) /\ OS_MAX_TASKS - 1 \in Nat
  BY KernelAssumption DEF Occupied, Prio
<1>2. CASE Occupied(q) = {}
  BY <1>2, KernelAssumption DEF HighestPrio, Occupied, Prio
<1>3. CASE Occupied(q) # {}
  <2>1. /\ Min(Occupied(q)) \in Occupied(q)
        /\ \A x \in Occupied(q) : Min(Occupied(q)) <= x
    BY <1>1, <1>3, MinIsLeast
  <2> QED BY <2>1, <1>3 DEF HighestPrio, Occupied
<1> QED BY <1>2, <1>3

(***************************************************************************)
(* Type correctness.  TypeOK is not inductive: a dispatcher that has       *)
(* picked a task must really have one to switch to, and dispatch_save must *)
(* have a current task to save.                                            *)
(***************************************************************************)

\* The local that a dispatcher or the loop of mutex_lock dereferences.
PicksTask ==
  \A s \in Stack : frame[s].pc \in {"tail_scan", "ds_cur", "ds_switch"}
                     => frame[s].pick \in Tcb

\* Nothing is queued on a device before the first task runs.
IsrSound ==
  /\ irq = "wake" => isr.dev \in Device
  /\ cur_tcb = NULL => /\ isr.iter = NULL /\ ~isr.need_ctx
                       /\ \A d \in Device : dev_queue[d] = NULL

TypeInv == TypeOK /\ PicksTask /\ IsrSound

LEMMA TypeInit == Init => TypeInv
  BY KernelAssumption
  DEF Init, MutexInit, TypeInv, TypeOK, PicksTask, IsrSound, EmptyQueue, Queues,
      Stack, BootMain, Frames, UserFrame, Points, NoIsr, Prio, Tcb, IDLE_PRIO,
      OS_AVAIL_TASKS, Device, Mutex, NULL, LAUNCH, STALE

\* The sets that the variables range over.
LEMMA Ranges ==
  /\ Tcb \subseteq Prio /\ Tcb \subseteq Nat /\ NULL \notin Tcb /\ NULL \in Prio
  /\ Prio = Tcb \union {NULL} /\ Prio \subseteq Nat
  /\ IDLE_PRIO \in Tcb /\ BootMain \in Stack /\ Tcb \subseteq Stack
  /\ Stack = Tcb \union {NULL}
  /\ LAUNCH \notin Stack /\ STALE \notin Stack /\ LAUNCH # STALE
  /\ 0 .. OS_AVAIL_TASKS \subseteq Nat /\ 0 \in 0 .. OS_AVAIL_TASKS
  /\ \A n \in 0 .. OS_AVAIL_TASKS : 1 .. n \subseteq Tcb
  /\ Device \subseteq Nat /\ \A d \in Device : d + 1 \in 0 .. NUM_DEVICES
  /\ Mutex \subseteq Nat
  BY KernelAssumption
  DEF Tcb, Prio, IDLE_PRIO, NULL, BootMain, Stack, LAUNCH, STALE, OS_AVAIL_TASKS,
      Device, Mutex

\* Frames that the actions build are frames.
LEMMA UserFrameType == UserFrame \in Frames
<1>1. 0 \in Prio /\ 0 \in Nat /\ 0 \in 0 .. OS_AVAIL_TASKS
  BY Ranges DEF NULL
<1>2. "user" \in Points
  BY DEF Points
<1> QED BY <1>1, <1>2 DEF Frames, UserFrame

LEMMA FrameTypes ==
  ASSUME NEW f \in Frames, NEW p \in Points
  PROVE  /\ [f EXCEPT !.pc = p] \in Frames
         /\ \A a \in {"user", "locked", "never"} : [f EXCEPT !.pc = p, !.after = a] \in Frames
         /\ \A k \in Prio : [f EXCEPT !.pick = k] \in Frames
         /\ \A k \in Prio : [f EXCEPT !.pc = p, !.pick = k] \in Frames
         /\ \A k \in Nat : [f EXCEPT !.i = k] \in Frames
         /\ \A k \in Nat : [f EXCEPT !.pc = p, !.i = k] \in Frames
         /\ \A k \in Nat : [f EXCEPT !.i = k, !.pc = p] \in Frames
         /\ \A k \in 0 .. OS_AVAIL_TASKS : [f EXCEPT !.pc = p, !.n = k] \in Frames
         /\ \A k \in Mutex : [f EXCEPT !.mx = k] \in Frames
         /\ \A k \in Mutex \union {0} : [f EXCEPT !.pc = p, !.mx = k] \in Frames
         /\ \A b \in BOOLEAN : [f EXCEPT !.in_irq = b] \in Frames
<1>1. [f EXCEPT !.pc = p] \in Frames
  BY DEF Frames
<1>2. \A a \in {"user", "locked", "never"} : [f EXCEPT !.pc = p, !.after = a] \in Frames
  BY DEF Frames
<1>3. \A k \in Prio : [f EXCEPT !.pick = k] \in Frames
  BY DEF Frames
<1>4. \A k \in Prio : [f EXCEPT !.pc = p, !.pick = k] \in Frames
  BY DEF Frames
<1>5. \A k \in Nat : [f EXCEPT !.i = k] \in Frames
  BY DEF Frames
<1>6. \A k \in Nat : [f EXCEPT !.pc = p, !.i = k] \in Frames
  BY DEF Frames
<1>7. \A k \in Nat : [f EXCEPT !.i = k, !.pc = p] \in Frames
  BY DEF Frames
<1>8. \A k \in 0 .. OS_AVAIL_TASKS : [f EXCEPT !.pc = p, !.n = k] \in Frames
  BY DEF Frames
<1>9. \A k \in Mutex : [f EXCEPT !.mx = k] \in Frames
  BY DEF Frames
<1>10. \A k \in Mutex \union {0} : [f EXCEPT !.pc = p, !.mx = k] \in Frames
  BY DEF Frames
<1>11. \A b \in BOOLEAN : [f EXCEPT !.in_irq = b] \in Frames
  BY DEF Frames
<1> QED BY <1>1, <1>2, <1>3, <1>4, <1>5, <1>6, <1>7, <1>8, <1>9, <1>10, <1>11

\* The conjuncts of TypeInv that speak of the stacks.
FrameInv == exec \in Stack /\ frame \in [Stack -> Frames] /\ PicksTask

\* The points at which the local `pick' is dereferenced.
Picked == {"tail_scan", "ds_cur", "ds_switch"}

\* Continuing the running stack at a frame keeps the frames typed.
LEMMA GoOnType ==
  ASSUME FrameInv, UNCHANGED exec, NEW f \in Frames, GoOn(f),
         f.pc \in Picked => f.pick \in Tcb
  PROVE  FrameInv'
  BY DEF FrameInv, PicksTask, GoOn, Picked

\* So does doing nothing to them.
LEMMA SameFramesType ==
  ASSUME FrameInv, UNCHANGED <<exec, frame>>
  PROVE  FrameInv'
  BY DEF FrameInv, PicksTask

\* The frame with which the running stack starts to dispatch.
LEMMA DispatchType ==
  ASSUME FrameInv, UNCHANGED exec, NEW f \in Frames,
         NEW after \in {"user", "locked", "never"}, Dispatch(f, after)
  PROVE  FrameInv'
<1> DEFINE g == [f EXCEPT !.pc = "ds_pick", !.after = after]
<1>1. "ds_pick" \in Points
  BY DEF Points
<1>2. g \in Frames
  BY <1>1, FrameTypes
<1>3. g.pc = "ds_pick"
  BY DEF Frames
<1>4. GoOn(g)
  BY DEF Dispatch
<1> HIDE DEF g
<1> QED BY <1>2, <1>3, <1>4, GoOnType DEF Picked

\* A switch of stacks, to a tcb and from typed contexts and frames.
LEMMA SwitchType ==
  ASSUME NEW to \in Tcb, exec \in Stack, stopped = "run", context \in [Tcb -> Stack \union {LAUNCH, STALE}],
         NEW saved \in [Tcb -> Stack \union {LAUNCH, STALE}],
         NEW left_at \in [Stack -> Frames], frame \in [Stack -> Frames], PicksTask,
         irq \in {"on", "off", "scan", "wake"},
         \A s \in Stack : left_at[s].pc \in Picked => left_at[s].pick \in Tcb,
         SwitchTo(to, saved, left_at)
  PROVE  /\ FrameInv'
         /\ context' \in [Tcb -> Stack \union {LAUNCH, STALE}]
         /\ irq' \in {"on", "off", "scan", "wake"}
         /\ irq' = "wake" => irq = "wake"
         /\ stopped' \in {"run", "panic", "crash"}
<1>1. CASE saved[to] = STALE
  <2>1. UNCHANGED <<exec, context, frame, irq>> /\ stopped' = "crash"
    BY <1>1 DEF SwitchTo
  <2> QED BY <2>1 DEF FrameInv, PicksTask
<1>2. CASE saved[to] # STALE
  <2> DEFINE launch == saved[to] = LAUNCH
             next == IF launch THEN to ELSE saved[to]
             resumed == IF launch THEN UserFrame
                                  ELSE [left_at[next] EXCEPT !.in_irq = FALSE]
  <2>1. /\ exec' = next
        /\ context' = IF launch THEN saved ELSE [saved EXCEPT ![to] = STALE]
        /\ frame' = [left_at EXCEPT ![next] = resumed]
        /\ irq' \in {"on", "off"}
        /\ UNCHANGED stopped
    BY <1>2 DEF SwitchTo
  <2>2. next \in Stack
    BY <1>2, Ranges
  <2>3. resumed \in Frames
    <3>1. CASE launch
      BY <3>1, UserFrameType
    <3>2. CASE ~launch
      <4>1. left_at[next] \in Frames
        BY <2>2
      <4> QED BY <3>2, <4>1 DEF Frames
    <3> QED BY <3>1, <3>2
  <2>4. resumed.pc \in Picked => resumed.pick \in Tcb
    <3>1. CASE launch
      BY <3>1 DEF UserFrame, Picked
    <3>2. CASE ~launch
      <4>1. left_at[next] \in Frames /\ (left_at[next].pc \in Picked => left_at[next].pick \in Tcb)
        BY <2>2
      <4>2. resumed.pc = left_at[next].pc /\ resumed.pick = left_at[next].pick
        BY <3>2, <4>1 DEF Frames
      <4> QED BY <4>1, <4>2
    <3> QED BY <3>1, <3>2
  <2> HIDE DEF next, resumed
  <2>5. FrameInv'
    <3>1. frame' \in [Stack -> Frames] /\ exec' \in Stack
      BY <2>1, <2>2, <2>3
    <3>2. ASSUME NEW s \in Stack, frame'[s].pc \in Picked
          PROVE  frame'[s].pick \in Tcb
      <4>1. CASE s = next
        BY <4>1, <3>2, <2>1, <2>2, <2>4
      <4>2. CASE s # next
        BY <4>2, <3>2, <2>1
      <4> QED BY <4>1, <4>2
    <3> QED BY <3>1, <3>2 DEF FrameInv, PicksTask, Picked
  <2> QED BY <2>1, <2>5
<1> QED BY <1>1, <1>2

\* The rest of TypeInv.
RestType ==
  /\ cur_tcb \in Tcb \union {NULL}
  /\ run_list \in Queues
  /\ cur_prio \in [Tcb -> Prio]
  /\ holds_lock \in [Tcb -> Int]
  /\ sleep_queue \in [Tcb -> Tcb \union {NULL}]
  /\ context \in [Tcb -> Stack \union {LAUNCH, STALE}]
  /\ dev_queue \in [Device -> Tcb \union {NULL}]
  /\ left \in [Device -> Int]
  /\ cur_mutex_num \in 0 .. OS_NUM_MUTEX
  /\ bLock \in [Mutex -> BOOLEAN]
  /\ pHolding_Tcb \in [Mutex -> Tcb \union {NULL}]
  /\ pSleep_queue \in [Mutex -> Tcb \union {NULL}]
  /\ irq \in {"on", "off", "scan", "wake"}
  /\ isr \in [dev : 0 .. NUM_DEVICES, iter : Tcb \union {NULL}, need_ctx : BOOLEAN]
  /\ stopped \in {"run", "panic", "crash"}
  /\ tasks \subseteq Tcb
  /\ creates \in 0 .. MaxCreates
  /\ IsrSound

LEMMA TypeParts == TypeInv <=> FrameInv /\ RestType
  BY DEF TypeInv, TypeOK, FrameInv, RestType

\* The two steps that switch stacks.
LEMMA DispatchSwitchType ==
  ASSUME FrameInv, RestType, DispatchSwitch
  PROVE  /\ FrameInv'
         /\ context' \in [Tcb -> Stack \union {LAUNCH, STALE}]
         /\ irq' \in {"on", "off", "scan", "wake"} /\ irq' # "wake"
         /\ stopped' \in {"run", "panic", "crash"}
<1> USE DEF FrameInv, RestType
<1> DEFINE f == frame[exec]
           saved == IF f.after = "never" THEN context ELSE Saved(f.i)
           back == IF f.after = "locked" THEN [UserFrame EXCEPT !.pc = "locked", !.mx = f.mx]
                                         ELSE UserFrame
           left_at == [frame EXCEPT ![exec] = back]
<1>1. f \in Frames /\ exec \in Stack
  OBVIOUS
<1>2. f.pick \in Tcb
  BY <1>1 DEF DispatchSwitch, At, PicksTask
<1>3. saved \in [Tcb -> Stack \union {LAUNCH, STALE}]
  BY <1>1 DEF Saved
<1>4. back \in Frames /\ back.pc \notin Picked
  <2>1. f.mx \in Mutex \union {0} /\ "locked" \in Points
    BY <1>1 DEF Frames, Points
  <2>2. [UserFrame EXCEPT !.pc = "locked", !.mx = f.mx] \in Frames
    BY <2>1, UserFrameType, FrameTypes
  <2> QED BY <2>2, UserFrameType DEF UserFrame, Picked
<1>5. left_at \in [Stack -> Frames]
  BY <1>4
<1>6. \A s \in Stack : left_at[s].pc \in Picked => left_at[s].pick \in Tcb
  BY <1>4 DEF PicksTask, Picked
<1>7. SwitchTo(f.pick, saved, left_at) /\ stopped = "run" /\ irq \in {"on", "off"}
  BY DEF DispatchSwitch, At
<1> HIDE DEF f, saved, back, left_at
<1> QED BY <1>2, <1>3, <1>5, <1>6, <1>7, SwitchType

LEMMA PreemptType ==
  ASSUME FrameInv, RestType, Preempt
  PROVE  /\ FrameInv'
         /\ context' \in [Tcb -> Stack \union {LAUNCH, STALE}]
         /\ irq' \in {"on", "off", "scan", "wake"} /\ irq' # "wake"
         /\ stopped' \in {"run", "panic", "crash"}
         /\ cur_tcb' \in Tcb
         /\ run_list' \in Queues
<1> USE DEF FrameInv, RestType
<1> DEFINE queue == Put(run_list, cur_tcb, cur_prio[cur_tcb])
           prio == HighestPrio(queue)
           interrupted == [frame EXCEPT ![exec] = [@ EXCEPT !.in_irq = TRUE]]
<1>1. cur_tcb \in Tcb
  BY DEF Preempt, Preempts, IsrSound
<1>2. cur_prio[cur_tcb] \in Prio /\ queue \in Queues /\ queue[cur_prio[cur_tcb]] # NULL
  BY <1>1, Ranges DEF Put, Queues
<1>3. prio \in Prio /\ queue[prio] \in Tcb
  <2> HIDE DEF queue
  <2>1. prio \in Prio /\ queue[prio] # NULL
    BY <1>2, HighestPrioOfTask
  <2> QED BY <1>2, <2>1 DEF Queues
<1>4. Saved(cur_tcb) \in [Tcb -> Stack \union {LAUNCH, STALE}]
  BY DEF Saved
<1>5. interrupted \in [Stack -> Frames]
  <2>1. [frame[exec] EXCEPT !.in_irq = TRUE] \in Frames
    BY FrameTypes DEF Points
  <2> QED BY <2>1
<1>6. \A s \in Stack : interrupted[s].pc \in Picked => interrupted[s].pick \in Tcb
  <2>1. ASSUME NEW s \in Stack
        PROVE  interrupted[s].pc = frame[s].pc /\ interrupted[s].pick = frame[s].pick
    <3>1. frame[exec] \in Frames /\ frame[s] \in Frames
      OBVIOUS
    <3>2. [frame[exec] EXCEPT !.in_irq = TRUE].pc = frame[exec].pc
      BY <3>1 DEF Frames
    <3>3. [frame[exec] EXCEPT !.in_irq = TRUE].pick = frame[exec].pick
      BY <3>1 DEF Frames
    <3> QED BY <3>2, <3>3
  <2> QED BY <2>1 DEF PicksTask, Picked
<1>7. /\ SwitchTo(queue[prio], Saved(cur_tcb), interrupted)
      /\ cur_tcb' = queue[prio] /\ run_list' = Drop(queue, prio)
      /\ stopped = "run" /\ irq = "scan"
  BY DEF Preempt, InIsr
<1> HIDE DEF queue, prio, interrupted
<1>8. run_list' \in Queues
  BY <1>2, <1>7 DEF Drop, Queues
<1> QED BY <1>3, <1>4, <1>5, <1>6, <1>7, <1>8, SwitchType

\* Each step keeps the stacks typed.
LEMMA FrameStep ==
  ASSUME FrameInv, RestType, [Next]_vars
  PROVE  FrameInv'
<1> USE DEF FrameInv, RestType
<1>1. frame[exec] \in Frames /\ exec \in Stack
  BY DEF FrameInv
<1>2. \A p \in Points : [frame[exec] EXCEPT !.pc = p] \in Frames
  BY <1>1, FrameTypes
<1>3. UserFrame \in Frames
  BY UserFrameType
<1>4. ASSUME NEW m \in Mutex, MutexLockWait(m)
      PROVE  FrameInv'
  <2> DEFINE f == [UserFrame EXCEPT !.mx = m]
  <2>1. f \in Frames
    BY <1>3, FrameTypes DEF Points
  <2>2. CASE Dispatch(f, "locked")
    BY <2>1, <2>2, <1>4, DispatchType DEF MutexLockWait
  <2>3. CASE /\ pSleep_queue[m] # NULL
             /\ GoOn([f EXCEPT !.pc = "tail_scan", !.pick = pSleep_queue[m]])
    <3> DEFINE g == [f EXCEPT !.pc = "tail_scan", !.pick = pSleep_queue[m]]
    <3>1. pSleep_queue[m] \in Tcb /\ pSleep_queue[m] \in Prio /\ "tail_scan" \in Points
      BY <2>3, Ranges DEF Points
    <3>2. g \in Frames
      BY <3>1, <2>1, FrameTypes
    <3>3. g.pick = pSleep_queue[m]
      BY <2>1 DEF Frames
    <3>4. GoOn(g) /\ UNCHANGED exec
      BY <2>3, <1>4 DEF MutexLockWait
    <3> HIDE DEF g, f
    <3> QED BY <3>1, <3>2, <3>3, <3>4, GoOnType
  <2> QED BY <1>4, <2>2, <2>3 DEF MutexLockWait
<1>5. ASSUME NEW d \in Device, EventWait(d)
      PROVE  FrameInv'
  BY <1>3, <1>5, DispatchType DEF EventWait
<1>6. ASSUME NEW n \in 0 .. OS_AVAIL_TASKS, TaskCreate(n)
      PROVE  FrameInv'
  <2> DEFINE p == IF NUM_DEVICES = 0 THEN "rq_init" ELSE "dev_init"
             f == [UserFrame EXCEPT !.pc = p, !.n = n]
  <2>1. p \in Points /\ p \notin Picked
    BY DEF Points, Picked
  <2>2. f \in Frames /\ f.pc = p
    BY <2>1, <1>3, FrameTypes DEF UserFrame
  <2>3. GoOn(f) /\ UNCHANGED exec
    BY <1>6 DEF TaskCreate
  <2> HIDE DEF f, p
  <2> QED BY <2>1, <2>2, <2>3, GoOnType
<1>7. CASE DispatchPick
  <2> DEFINE f == [frame[exec] EXCEPT !.pc = "ds_remove", !.pick = HighestPrio(run_list)]
  <2>1. HighestPrio(run_list) \in Prio /\ "ds_remove" \in Points
    BY HighestPrioOfTask DEF Points
  <2>2. f \in Frames
    BY <2>1, <1>1, FrameTypes
  <2>3. f.pc = "ds_remove"
    BY <1>1 DEF Frames
  <2>4. GoOn(f) /\ UNCHANGED exec
    BY <1>7 DEF DispatchPick
  <2> HIDE DEF f
  <2> QED BY <2>2, <2>3, <2>4, GoOnType DEF Picked
<1>8. CASE DispatchRemove
  <2> DEFINE tcb == run_list[frame[exec].pick]
             f == [frame[exec] EXCEPT !.pc = "ds_cur", !.pick = tcb]
  <2>1. CASE tcb # NULL /\ GoOn(f)
    <3>1. frame[exec].pick \in Prio
      BY <1>1 DEF Frames
    <3>2. tcb \in Tcb /\ tcb \in Prio /\ "ds_cur" \in Points
      BY <3>1, <2>1, Ranges DEF Queues, Points
    <3>3. f \in Frames
      BY <3>2, <1>1, FrameTypes
    <3>4. f.pick = tcb
      BY <1>1 DEF Frames
    <3>5. GoOn(f) /\ UNCHANGED exec
      BY <2>1, <1>8 DEF DispatchRemove
    <3> HIDE DEF f
    <3> QED BY <3>2, <3>3, <3>4, <3>5, GoOnType
  <2>2. CASE UNCHANGED frame
    BY <2>2, <1>8, SameFramesType DEF DispatchRemove
  <2> QED BY <2>1, <2>2, <1>8 DEF DispatchRemove
<1>9. CASE DispatchCur
  <2> DEFINE f == [frame[exec] EXCEPT !.pc = "ds_switch", !.i = cur_tcb]
  <2>1. cur_tcb \in Nat /\ "ds_switch" \in Points
    BY Ranges DEF Points
  <2>2. f \in Frames
    BY <2>1, <1>1, FrameTypes
  <2>3. f.pick = frame[exec].pick
    BY <1>1 DEF Frames
  <2>4. frame[exec].pick \in Tcb
    BY <1>9, <1>1 DEF DispatchCur, At, PicksTask
  <2>5. GoOn(f) /\ UNCHANGED exec
    BY <1>9 DEF DispatchCur
  <2> HIDE DEF f
  <2> QED BY <2>2, <2>3, <2>4, <2>5, GoOnType
<1>10. CASE DispatchSwitch
  <2>. QED BY <1>10, DispatchSwitchType
<1>11. CASE TailScan
  <2> DEFINE iter == frame[exec].pick
             f == [frame[exec] EXCEPT !.pick = sleep_queue[iter]]
  <2>1. CASE sleep_queue[iter] # NULL /\ GoOn(f)
    <3>1. iter \in Tcb
      BY <1>11, <1>1 DEF TailScan, At, PicksTask
    <3>2. sleep_queue[iter] \in Tcb /\ sleep_queue[iter] \in Prio
      BY <3>1, <2>1, Ranges
    <3>3. f \in Frames
      BY <3>2, <1>1, FrameTypes DEF Points
    <3>4. f.pick = sleep_queue[iter]
      BY <1>1 DEF Frames
    <3>5. GoOn(f) /\ UNCHANGED exec
      BY <2>1, <1>11 DEF TailScan
    <3> HIDE DEF f
    <3> QED BY <3>2, <3>3, <3>4, <3>5, GoOnType
  <2>2. CASE Dispatch(frame[exec], "locked")
    BY <2>2, <1>1, <1>11, DispatchType DEF TailScan
  <2> QED BY <2>1, <2>2, <1>11 DEF TailScan
<1>12. CASE MutexLockTail
  <2>1. GoOn(UserFrame) /\ UNCHANGED exec /\ UserFrame.pc = "user"
    BY <1>12 DEF MutexLockTail, UserFrame
  <2> QED BY <2>1, <1>3, GoOnType DEF Picked
<1>13. CASE DevInit
  <2> DEFINE k == frame[exec].i + 1
             p == IF k = NUM_DEVICES THEN "rq_init" ELSE "dev_init"
             f == [frame[exec] EXCEPT !.i = k, !.pc = p]
  <2>1. p \in Points /\ p \notin Picked /\ k \in Nat
    BY <1>1 DEF Points, Frames, Picked
  <2>2. f \in Frames
    BY <2>1, <1>1, FrameTypes
  <2>3. f.pc = p
    BY <1>1 DEF Frames
  <2>4. GoOn(f) /\ UNCHANGED exec
    BY <1>13 DEF DevInit
  <2> HIDE DEF f, p
  <2> QED BY <2>1, <2>2, <2>3, <2>4, GoOnType
<1>14. CASE RunqueueInit
  <2> DEFINE f == [frame[exec] EXCEPT !.pc = "alloc", !.i = frame[exec].n]
  <2>1. "alloc" \in Points /\ frame[exec].n \in Nat
    BY <1>1, Ranges DEF Points, Frames
  <2>2. f \in Frames
    BY <2>1, <1>1, FrameTypes
  <2>3. f.pc = "alloc"
    BY <1>1 DEF Frames
  <2>4. GoOn(f) /\ UNCHANGED exec
    BY <1>14 DEF RunqueueInit
  <2> HIDE DEF f
  <2> QED BY <2>2, <2>3, <2>4, GoOnType DEF Picked
<1>15. CASE AllocateTcb
  <2> DEFINE f == [frame[exec] EXCEPT !.i = frame[exec].i - 1]
  <2>1. frame[exec].i - 1 \in Nat
    BY <1>15, <1>1 DEF AllocateTcb, Frames
  <2>2. f \in Frames
    BY <2>1, <1>1, FrameTypes DEF Points
  <2>3. f.pc = "alloc"
    BY <1>1, <1>15 DEF Frames, AllocateTcb, At
  <2>4. GoOn(f) /\ UNCHANGED exec
    BY <1>15 DEF AllocateTcb
  <2> HIDE DEF f
  <2> QED BY <2>2, <2>3, <2>4, GoOnType DEF Picked
<1>16. CASE AllocateIdle
  BY <1>3, <1>16, DispatchType DEF AllocateIdle, LeaveForGood
<1>17. CASE Preempt
  BY <1>17, PreemptType
<1>18. CASE \/ MutexCreate \/ \E m \in Mutex : MutexLockFree(m) \/ MutexUnlock(m)
            \/ Refused \/ Halted \/ Tick \/ ScanDevice \/ WakeSleeper \/ CloseDevice
            \/ IrqReturn \/ UNCHANGED vars
  <2>1. UNCHANGED <<exec, frame>>
    BY <1>18 DEF MutexCreate, MutexLockFree, MutexUnlock, Refused, Halted, Tick,
                 ScanDevice, WakeSleeper, CloseDevice, IrqReturn, vars
  <2> QED BY <2>1, SameFramesType
<1> QED
  BY <1>4, <1>5, <1>6, <1>7, <1>8, <1>9, <1>10, <1>11, <1>12, <1>13, <1>14, <1>15,
     <1>16, <1>17, <1>18 DEF Next, UserCalls, CallSteps, IsrSteps

\* An assignment to a field of an array.
LEMMA Update ==
  ASSUME NEW S, NEW T, NEW f \in [S -> T], NEW x, NEW v, x \in S => v \in T
  PROVE  [f EXCEPT ![x] = v] \in [S -> T]
  OBVIOUS

\* Each step keeps the other variables in their ranges.
LEMMA RestStep ==
  ASSUME FrameInv, RestType, [Next]_vars
  PROVE  RestType'
<1> USE DEF RestType, IsrSound, tcbs, devices, mutexes, history
<1>1. frame[exec] \in Frames /\ exec \in Stack
  BY DEF FrameInv
<1>2. CASE MutexCreate
  BY <1>2, KernelAssumption DEF MutexCreate
<1>3. ASSUME NEW m \in Mutex, MutexLockFree(m)
      PROVE  RestType'
  <2>1. pHolding_Tcb' \in [Mutex -> Tcb \union {NULL}]
    BY <1>3, Update DEF MutexLockFree, Own
  <2>2. cur_prio' \in [Tcb -> Prio]
    BY <1>3, Ranges, Update DEF MutexLockFree, Own, HIGHEST_PRIO, NULL
  <2>3. holds_lock' \in [Tcb -> Int]
    BY <1>3, Update DEF MutexLockFree, Own
  <2>4. bLock' \in [Mutex -> BOOLEAN]
    BY <1>3, Update DEF MutexLockFree
  <2>5. UNCHANGED <<cur_tcb, run_list, sleep_queue, context, devices, cur_mutex_num,
                    pSleep_queue, irq, isr, stopped, history>>
    BY <1>3 DEF MutexLockFree
  <2> QED BY <2>1, <2>2, <2>3, <2>4, <2>5
<1>4. ASSUME NEW m \in Mutex, MutexLockWait(m)
      PROVE  RestType'
  <2>1. sleep_queue' \in [Tcb -> Tcb \union {NULL}]
    BY <1>4, Update DEF MutexLockWait
  <2>2. pSleep_queue' \in [Mutex -> Tcb \union {NULL}]
    BY <1>4, Update DEF MutexLockWait
  <2>3. UNCHANGED <<cur_tcb, run_list, cur_prio, holds_lock, context, devices,
                    cur_mutex_num, bLock, pHolding_Tcb, isr, stopped, history>>
        /\ irq' = "off"
    BY <1>4 DEF MutexLockWait
  <2> QED BY <2>1, <2>2, <2>3
<1>5. ASSUME NEW m \in Mutex, MutexUnlock(m)
      PROVE  RestType'
  <2>1. run_list' \in Queues
    BY <1>5, Ranges DEF MutexUnlock, Put, Queues
  <2>2. cur_prio' \in [Tcb -> Prio] /\ holds_lock' \in [Tcb -> Int]
    <3>1. cur_tcb \in Tcb => PrioAfter(cur_tcb, holds_lock[cur_tcb] - 1) \in Prio
      BY Ranges DEF PrioAfter
    <3>2. cur_tcb \in Tcb => holds_lock[cur_tcb] - 1 \in Int
      OBVIOUS
    <3> QED BY <1>5, <3>1, <3>2, Update DEF MutexUnlock
  <2>3. sleep_queue' \in [Tcb -> Tcb \union {NULL}]
    BY <1>5, Update DEF MutexUnlock
  <2>4. pSleep_queue' \in [Mutex -> Tcb \union {NULL}]
    BY <1>5, Update DEF MutexUnlock
  <2>5. pHolding_Tcb' \in [Mutex -> Tcb \union {NULL}]
    BY <1>5, Update DEF MutexUnlock, HandOver
  <2>6. bLock' \in [Mutex -> BOOLEAN]
    BY <1>5, Update DEF MutexUnlock, HandOver
  <2>7. UNCHANGED <<cur_tcb, context, devices, cur_mutex_num, irq, isr, stopped, history>>
    BY <1>5 DEF MutexUnlock
  <2> QED BY <2>1, <2>2, <2>3, <2>4, <2>5, <2>6, <2>7
<1>6. ASSUME NEW d \in Device, EventWait(d)
      PROVE  RestType'
  BY <1>6, Ranges DEF EventWait
<1>7. ASSUME NEW n \in 0 .. OS_AVAIL_TASKS, TaskCreate(n)
      PROVE  RestType'
  BY <1>7, KernelAssumption DEF TaskCreate
<1>8. CASE DispatchPick
  BY <1>8 DEF DispatchPick
<1>9. CASE DispatchRemove
  BY <1>9, <1>1 DEF DispatchRemove, Drop, Queues, Frames
<1>10. CASE DispatchCur
  <2>1. frame[exec].pick \in Tcb
    BY <1>10, <1>1 DEF FrameInv, PicksTask, DispatchCur, At
  <2> QED BY <1>10, <2>1, Ranges DEF DispatchCur
<1>11. CASE DispatchSwitch
  <2>1. UNCHANGED <<cur_tcb, run_list, tcbs, devices, mutexes, isr, history>>
    BY <1>11 DEF DispatchSwitch
  <2> QED BY <1>11, <2>1, DispatchSwitchType
<1>12. CASE TailScan
  BY <1>12, Ranges DEF TailScan
<1>13. CASE MutexLockTail
  <2>1. frame[exec].mx \in Mutex \union {0}
    BY <1>1 DEF Frames
  <2>2. Own(frame[exec].mx, exec)
    BY <1>13 DEF MutexLockTail
  <2>3. pHolding_Tcb' \in [Mutex -> Tcb \union {NULL}]
    BY <1>1, <2>2, Ranges, Update DEF Own
  <2>4. cur_prio' \in [Tcb -> Prio]
    BY <2>2, Ranges, Update DEF Own, HIGHEST_PRIO, NULL
  <2>5. holds_lock' \in [Tcb -> Int]
    BY <2>2, Update DEF Own
  <2>6. UNCHANGED <<cur_tcb, run_list, sleep_queue, context, devices, cur_mutex_num,
                    bLock, pSleep_queue, isr, stopped, history>> /\ irq' = "on"
    BY <1>13 DEF MutexLockTail
  <2> QED BY <2>3, <2>4, <2>5, <2>6
<1>14. CASE DevInit
  <2>1. dev_queue' \in [Device -> Tcb \union {NULL}]
    BY <1>14, Update DEF DevInit
  <2>2. left' \in [Device -> Int]
    <3>1. \A d \in Device : dev_freq[d] \in Int
      BY KernelAssumption
    <3> QED BY <1>14, <3>1, Update DEF DevInit
  <2>3. cur_tcb = NULL => \A d \in Device : dev_queue'[d] = NULL
    BY <1>14 DEF DevInit
  <2>4. UNCHANGED <<cur_tcb, run_list, tcbs, context, mutexes, irq, isr, stopped, history>>
    BY <1>14 DEF DevInit
  <2> QED BY <2>1, <2>2, <2>3, <2>4
<1>15. CASE RunqueueInit
  BY <1>15 DEF RunqueueInit, EmptyQueue, Queues
<1>16. CASE AllocateTcb
  <2> DEFINE i == frame[exec].i
  <2>1. cur_prio' \in [Tcb -> Prio]
    BY <1>16, Ranges, Update DEF AllocateTcb
  <2>2. holds_lock' \in [Tcb -> Int]
    BY <1>16, Update DEF AllocateTcb
  <2>3. sleep_queue' \in [Tcb -> Tcb \union {NULL}]
    BY <1>16, Update DEF AllocateTcb
  <2>4. context' \in [Tcb -> Stack \union {LAUNCH, STALE}]
    BY <1>16, Update DEF AllocateTcb
  <2>5. run_list' \in Queues
    BY <1>16, <1>1, Ranges DEF AllocateTcb, Put, Queues, Frames
  <2>6. UNCHANGED <<cur_tcb, devices, mutexes, irq, isr, stopped, history>>
    BY <1>16 DEF AllocateTcb
  <2> QED BY <2>1, <2>2, <2>3, <2>4, <2>5, <2>6
<1>17. CASE AllocateIdle
  BY <1>17, <1>1, Ranges DEF AllocateIdle, LeaveForGood, Put, Queues, Frames
<1>18. CASE Tick
  BY <1>18, KernelAssumption DEF Tick, NoIsr
<1>19. CASE ScanDevice
  <2>1. UNCHANGED <<cur_tcb, run_list, tcbs, context, devices, mutexes, stopped, history>>
    BY <1>19 DEF ScanDevice
  <2>2. isr.dev \in Device /\ isr.dev + 1 \in 0 .. NUM_DEVICES
    BY <1>19, KernelAssumption DEF ScanDevice, Device
  <2>3. CASE irq' = "wake" /\ isr' = [isr EXCEPT !.iter = dev_queue[isr.dev]]
    <3>1. dev_queue[isr.dev] \in Tcb \union {NULL}
      BY <2>2
    <3>2. /\ isr' \in [dev : 0 .. NUM_DEVICES, iter : Tcb \union {NULL}, need_ctx : BOOLEAN]
          /\ isr'.dev = isr.dev /\ isr'.iter = dev_queue[isr.dev]
          /\ isr'.need_ctx = isr.need_ctx
      BY <2>3, <3>1
    <3> QED BY <2>1, <2>2, <2>3, <3>2
  <2>4. CASE UNCHANGED irq /\ isr' = [isr EXCEPT !.dev = @ + 1]
    <3>1. /\ isr' \in [dev : 0 .. NUM_DEVICES, iter : Tcb \union {NULL}, need_ctx : BOOLEAN]
          /\ isr'.iter = isr.iter /\ isr'.need_ctx = isr.need_ctx
      BY <2>2, <2>4
    <3>2. irq' = "scan"
      BY <1>19, <2>4 DEF ScanDevice, InIsr
    <3> QED BY <2>1, <3>1, <3>2
  <2> QED BY <1>19, <2>3, <2>4 DEF ScanDevice
<1>20. CASE WakeSleeper
  BY <1>20, Ranges DEF WakeSleeper, InIsr, Put, Queues
<1>21. CASE CloseDevice
  <2>1. isr.dev \in Device /\ isr.dev + 1 \in 0 .. NUM_DEVICES
    BY <1>21, KernelAssumption DEF CloseDevice, InIsr, Device
  <2>2. dev_queue' \in [Device -> Tcb \union {NULL}]
    BY <1>21, Update DEF CloseDevice
  <2>3. left' \in [Device -> Int]
    <3>1. left[isr.dev] + dev_freq[isr.dev] \in Int
      BY <2>1, KernelAssumption
    <3> QED BY <1>21, <3>1, Update DEF CloseDevice
  <2>4. /\ isr' \in [dev : 0 .. NUM_DEVICES, iter : Tcb \union {NULL}, need_ctx : BOOLEAN]
        /\ isr'.iter = isr.iter /\ isr'.need_ctx = isr.need_ctx
    BY <1>21, <2>1 DEF CloseDevice
  <2>5. cur_tcb = NULL => \A d \in Device : dev_queue'[d] = NULL
    BY <1>21 DEF CloseDevice
  <2>6. UNCHANGED <<cur_tcb, run_list, tcbs, context, mutexes, stopped, history>>
        /\ irq' = "scan"
    BY <1>21 DEF CloseDevice
  <2> QED BY <2>2, <2>3, <2>4, <2>5, <2>6
<1>22. CASE Preempt
  <2>1. UNCHANGED <<tcbs, devices, mutexes, history>> /\ isr' = NoIsr
    BY <1>22 DEF Preempt
  <2> QED BY <1>22, <2>1, PreemptType, Ranges, KernelAssumption DEF NoIsr
<1>23. CASE IrqReturn
  BY <1>23, KernelAssumption DEF IrqReturn, NoIsr
<1>24. CASE Refused \/ Halted \/ UNCHANGED vars
  BY <1>24 DEF Refused, Halted, vars
<1> QED
  BY <1>2, <1>3, <1>4, <1>5, <1>6, <1>7, <1>8, <1>9, <1>10, <1>11, <1>12, <1>13, <1>14,
     <1>15, <1>16, <1>17, <1>18, <1>19, <1>20, <1>21, <1>22, <1>23, <1>24
  DEF Next, UserCalls, CallSteps, IsrSteps

\* Every variable stays in the range of its C type, and what the dispatcher
\* and mutex_lock dereference is a task.
LEMMA TypeCorrect == Spec => []TypeInv
<1>1. Init => TypeInv
  BY TypeInit
<1>2. TypeInv /\ [Next]_vars => TypeInv'
  <2> SUFFICES ASSUME TypeInv, [Next]_vars
               PROVE  TypeInv'
    OBVIOUS
  <2>1. FrameInv /\ RestType
    BY TypeParts
  <2>2. FrameInv' /\ RestType'
    BY <2>1, FrameStep, RestStep
  <2> QED BY <2>2 DEF TypeInv, TypeOK, FrameInv, RestType
<1> QED BY <1>1, <1>2, PTL DEF Spec

\* The counters, indices and references of the kernel stay in the ranges of
\* their C types, whatever the programs call and wherever the timer interrupt
\* is taken (proc.c, device.c, mutex.c, ctx_switch.c).
THEOREM TypeOKHolds == Spec => []TypeOK
<1>1. TypeInv => TypeOK
  BY DEF TypeInv
<1> QED BY <1>1, TypeCorrect, PTL

(***************************************************************************)
(* The Highest Locker Protocol at work: as long as no task replaces the    *)
(* task set while it holds a mutex, a mutex is never contended and never   *)
(* held across a switch.                                                   *)
(*                                                                         *)
(* HighestLocker is not inductive by itself.  That the holder is not       *)
(* preempted needs its priority; that it still has that priority after     *)
(* unlocking another mutex needs holds_lock to count the mutexes held;     *)
(* that nobody waits needs the mutex to be locked only while held; and     *)
(* that no mutex is acquired behind the holder's back needs that no stack  *)
(* is suspended inside mutex_lock.                                         *)
(***************************************************************************)

Held(t) == {m \in Mutex : pHolding_Tcb[m] = t}

NobodyWaits == \A m \in Mutex : pSleep_queue[m] = NULL
LockedIffHeld == \A m \in Mutex : bLock[m] <=> pHolding_Tcb[m] # NULL
CountsHeld == \A t \in Tcb : holds_lock[t] = Cardinality(Held(t))
NobodyInLock ==
  \A s \in Stack : frame[s].pc \notin {"tail_scan", "locked"} /\ frame[s].after # "locked"
HolderRuns ==
  \A m \in Mutex : pHolding_Tcb[m] # NULL =>
    /\ pHolding_Tcb[m] = cur_tcb
    /\ exec # BootMain /\ frame[exec].pc = "user"
    /\ cur_prio[cur_tcb] = HIGHEST_PRIO

LockInv == NobodyWaits /\ LockedIffHeld /\ CountsHeld /\ NobodyInLock /\ HolderRuns

NoneHeld == \A m \in Mutex : pHolding_Tcb[m] = NULL

LEMMA MutexFinite ==
  /\ IsFiniteSet(Mutex)
  /\ \A S \in SUBSET Mutex : IsFiniteSet(S)
<1>1. IsFiniteSet(Mutex)
  BY KernelAssumption, FS_Interval DEF Mutex
<1> QED BY <1>1, FS_Subset

LEMMA LockInit == Init => LockInv
<1> SUFFICES ASSUME Init
             PROVE  LockInv
  OBVIOUS
<1>1. ASSUME NEW t \in Tcb
      PROVE  holds_lock[t] = Cardinality(Held(t))
  <2>1. Held(t) = {}
    BY Ranges DEF Init, MutexInit, Held
  <2> QED BY <2>1, FS_EmptySet DEF Init
<1>2. NobodyInLock
  BY DEF Init, NobodyInLock, UserFrame
<1> QED BY <1>1, <1>2 DEF Init, MutexInit, LockInv, NobodyWaits, LockedIffHeld, CountsHeld, HolderRuns

\* While the processor is not in user mode no mutex is held.
LEMMA KernelHoldsNone ==
  ASSUME LockInv, frame[exec].pc # "user"
  PROVE  NoneHeld
  BY DEF LockInv, HolderRuns, NoneHeld

\* A step that touches neither the mutexes nor the counts, taken while no
\* mutex is held, keeps the parts that speak of mutexes.
LEMMA IdleMutexes ==
  ASSUME LockInv, NoneHeld, UNCHANGED <<mutexes, holds_lock>>
  PROVE  NobodyWaits' /\ LockedIffHeld' /\ CountsHeld' /\ HolderRuns'
  BY DEF LockInv, NobodyWaits, LockedIffHeld, CountsHeld, HolderRuns, NoneHeld, Held, mutexes

\* Continuing the running stack at a frame outside mutex_lock.
LEMMA GoOnOutside ==
  ASSUME FrameInv, LockInv, NEW f \in Frames, GoOn(f),
         f.pc \notin {"tail_scan", "locked"}, f.after # "locked"
  PROVE  NobodyInLock'
  BY DEF FrameInv, LockInv, NobodyInLock, GoOn

LEMMA DispatchOutside ==
  ASSUME FrameInv, LockInv, NEW f \in Frames, NEW after \in {"user", "never"},
         Dispatch(f, after)
  PROVE  NobodyInLock'
<1> DEFINE g == [f EXCEPT !.pc = "ds_pick", !.after = after]
<1>1. "ds_pick" \in Points
  BY DEF Points
<1>2. g \in Frames
  BY <1>1, FrameTypes
<1>3. g.pc = "ds_pick" /\ g.after = after
  BY DEF Frames
<1>4. GoOn(g)
  BY DEF Dispatch
<1> HIDE DEF g
<1> QED BY <1>2, <1>3, <1>4, GoOnOutside

\* A switch of stacks.
LEMMA SwitchOutside ==
  ASSUME FrameInv, LockInv, NEW to \in Tcb,
         NEW saved \in [Tcb -> Stack \union {LAUNCH, STALE}],
         NEW left_at \in [Stack -> Frames],
         \A s \in Stack : left_at[s].pc \notin {"tail_scan", "locked"}
                            /\ left_at[s].after # "locked",
         SwitchTo(to, saved, left_at)
  PROVE  NobodyInLock'
<1>1. CASE UNCHANGED frame
  BY <1>1 DEF LockInv, NobodyInLock
<1>2. CASE saved[to] # STALE
  <2> DEFINE launch == saved[to] = LAUNCH
             next == IF launch THEN to ELSE saved[to]
             resumed == IF launch THEN UserFrame
                                  ELSE [left_at[next] EXCEPT !.in_irq = FALSE]
  <2>1. frame' = [left_at EXCEPT ![next] = resumed]
    BY <1>2 DEF SwitchTo
  <2>2. next \in Stack
    BY <1>2, Ranges
  <2>3. resumed.pc \notin {"tail_scan", "locked"} /\ resumed.after # "locked"
    <3>1. CASE launch
      BY <3>1 DEF UserFrame
    <3>2. CASE ~launch
      <4>1. left_at[next] \in Frames
        BY <2>2
      <4>2. resumed.pc = left_at[next].pc
        BY <3>2, <4>1 DEF Frames
      <4>3. resumed.after = left_at[next].after
        BY <3>2, <4>1 DEF Frames
      <4> QED BY <4>2, <4>3, <2>2
    <3> QED BY <3>1, <3>2
  <2> HIDE DEF next, resumed
  <2>4. ASSUME NEW s \in Stack
        PROVE  frame'[s].pc \notin {"tail_scan", "locked"} /\ frame'[s].after # "locked"
    <3>1. CASE s = next
      BY <3>1, <2>1, <2>2, <2>3
    <3>2. CASE s # next
      BY <3>2, <2>1
    <3> QED BY <3>1, <3>2
  <2> QED BY <2>4 DEF NobodyInLock
<1> QED BY <1>1, <1>2 DEF SwitchTo

\* A free mutex is taken: nobody else holds any.
LEMMA LockFreeStep ==
  ASSUME FrameInv, RestType, LockInv, NEW m \in Mutex, MutexLockFree(m)
  PROVE  LockInv'
<1>1. /\ ~bLock[m] /\ bLock' = [bLock EXCEPT ![m] = TRUE]
      /\ pHolding_Tcb' = [pHolding_Tcb EXCEPT ![m] = cur_tcb]
      /\ holds_lock' = [holds_lock EXCEPT ![cur_tcb] = @ + 1]
      /\ cur_prio' = [cur_prio EXCEPT ![cur_tcb] = HIGHEST_PRIO]
      /\ UNCHANGED <<cur_tcb, pSleep_queue, exec, frame>>
      /\ exec # BootMain /\ frame[exec].pc = "user" /\ pHolding_Tcb[m] # cur_tcb
  BY DEF MutexLockFree, Own, TaskCalls, AtCall, At, CanLock
<1>2. pHolding_Tcb[m] = NULL
  BY <1>1 DEF LockInv, LockedIffHeld
<1>3. cur_tcb \in Tcb
  BY <1>1, <1>2 DEF RestType
<1>4. NobodyWaits' /\ NobodyInLock'
  BY <1>1 DEF LockInv, NobodyWaits, NobodyInLock
<1>5. LockedIffHeld'
  BY <1>1, <1>3, Ranges DEF LockInv, LockedIffHeld, RestType
<1>6. HolderRuns'
  BY <1>1, <1>3 DEF LockInv, HolderRuns, RestType
<1>7. CountsHeld'
  <2> SUFFICES ASSUME NEW t \in Tcb
               PROVE  holds_lock'[t] = Cardinality(Held(t)')
    BY DEF CountsHeld
  <2>1. IsFiniteSet(Held(t)) /\ holds_lock[t] = Cardinality(Held(t))
    BY MutexFinite DEF Held, LockInv, CountsHeld
  <2>2. CASE t = cur_tcb
    <3>1. Held(t)' = Held(t) \union {m} /\ m \notin Held(t)
      BY <1>1, <2>2 DEF Held, RestType
    <3>2. holds_lock'[t] = holds_lock[t] + 1
      BY <1>1, <2>2 DEF RestType
    <3> QED BY <2>1, <3>1, <3>2, FS_AddElement
  <2>3. CASE t # cur_tcb
    <3>1. Held(t)' = Held(t)
      BY <1>1, <1>2, <2>3, Ranges DEF Held, RestType
    <3>2. holds_lock'[t] = holds_lock[t]
      BY <1>1, <2>3 DEF RestType
    <3> QED BY <2>1, <3>1, <3>2
  <2> QED BY <2>2, <2>3
<1> QED BY <1>4, <1>5, <1>6, <1>7 DEF LockInv

\* A mutex is released: nobody waits for it, and its holder keeps the highest
\* priority for as long as it holds another.
LEMMA UnlockStep ==
  ASSUME FrameInv, RestType, LockInv, NEW m \in Mutex, MutexUnlock(m)
  PROVE  LockInv'
<1> DEFINE count == holds_lock[cur_tcb] - 1
<1>1. pSleep_queue[m] = NULL
  BY DEF LockInv, NobodyWaits
<1>2. /\ pHolding_Tcb[m] = cur_tcb
      /\ pHolding_Tcb' = [pHolding_Tcb EXCEPT ![m] = NULL]
      /\ bLock' = [bLock EXCEPT ![m] = FALSE]
      /\ holds_lock' = [holds_lock EXCEPT ![cur_tcb] = count]
      /\ cur_prio' = [cur_prio EXCEPT ![cur_tcb] = PrioAfter(cur_tcb, count)]
      /\ UNCHANGED <<cur_tcb, pSleep_queue, exec, frame>>
      /\ exec # BootMain /\ frame[exec].pc = "user"
  BY <1>1 DEF MutexUnlock, HandOver, TaskCalls, AtCall, At
<1>3. NobodyWaits' /\ NobodyInLock'
  BY <1>2 DEF LockInv, NobodyWaits, NobodyInLock
<1>4. LockedIffHeld'
  BY <1>2 DEF LockInv, LockedIffHeld, RestType
<1>5. ASSUME NEW t \in Tcb
      PROVE  /\ holds_lock'[t] = Cardinality(Held(t)')
             /\ IsFiniteSet(Held(t)')
  <2>1. IsFiniteSet(Held(t)) /\ holds_lock[t] = Cardinality(Held(t))
    BY MutexFinite DEF Held, LockInv, CountsHeld
  <2>2. CASE t = cur_tcb
    <3>1. Held(t)' = Held(t) \ {m} /\ m \in Held(t)
      BY <1>2, <2>2, Ranges DEF Held, RestType
    <3>2. holds_lock'[t] = holds_lock[t] - 1
      BY <1>2, <2>2 DEF RestType
    <3> QED BY <2>1, <3>1, <3>2, FS_RemoveElement
  <2>3. CASE t # cur_tcb
    <3>1. Held(t)' = Held(t)
      BY <1>2, <2>3, Ranges DEF Held, RestType
    <3>2. holds_lock'[t] = holds_lock[t]
      BY <1>2, <2>3 DEF RestType
    <3> QED BY <2>1, <3>1, <3>2
  <2> QED BY <2>2, <2>3
<1>6. HolderRuns'
  <2> SUFFICES ASSUME NEW k \in Mutex, pHolding_Tcb'[k] # NULL
               PROVE  /\ pHolding_Tcb'[k] = cur_tcb'
                      /\ exec' # BootMain /\ frame'[exec'].pc = "user"
                      /\ cur_prio'[cur_tcb'] = HIGHEST_PRIO
    BY DEF HolderRuns
  <2>1. k # m /\ pHolding_Tcb'[k] = pHolding_Tcb[k]
    BY <1>2 DEF RestType
  <2>2. pHolding_Tcb[k] = cur_tcb /\ cur_prio[cur_tcb] = HIGHEST_PRIO /\ cur_tcb \in Tcb
    BY <2>1 DEF LockInv, HolderRuns, RestType
  <2>3. PICK t \in Tcb : t = cur_tcb
    BY <2>2
  <2>4. k \in Held(t)'
    BY <1>2, <2>1, <2>2, <2>3 DEF Held
  <2>5. holds_lock'[t] # 0
    BY <1>5, <2>4, FS_EmptySet
  <2>6. count # 0
    BY <1>2, <2>3, <2>5 DEF RestType
  <2>7. cur_prio'[cur_tcb] = HIGHEST_PRIO
    BY <1>2, <2>2, <2>6 DEF PrioAfter, RestType
  <2> QED BY <1>2, <2>1, <2>2, <2>7
<1> QED BY <1>3, <1>4, <1>5, <1>6 DEF LockInv, CountsHeld

\* Nobody finds a mutex locked.
LEMMA NoWait ==
  ASSUME FrameInv, RestType, LockInv, NEW m \in Mutex
  PROVE  ~MutexLockWait(m)
<1> SUFFICES ASSUME MutexLockWait(m)
             PROVE  FALSE
  OBVIOUS
<1>1. bLock[m] /\ pHolding_Tcb[m] # cur_tcb
  BY DEF MutexLockWait, CanLock
<1>2. pHolding_Tcb[m] # NULL
  BY <1>1 DEF LockInv, LockedIffHeld
<1> QED BY <1>1, <1>2 DEF LockInv, HolderRuns

\* The holder of a mutex is never preempted.
LEMMA PreemptHoldsNone ==
  ASSUME FrameInv, RestType, LockInv, Preempt
  PROVE  NoneHeld
<1> SUFFICES ASSUME NEW m \in Mutex, pHolding_Tcb[m] # NULL
             PROVE  FALSE
  BY DEF NoneHeld
<1>1. cur_prio[cur_tcb] = 0
  BY DEF LockInv, HolderRuns, HIGHEST_PRIO
<1>2. HighestPrio(run_list) \in Prio
  BY HighestPrioOfTask DEF RestType
<1>3. HighestPrio(run_list) >= 0
  BY <1>2 DEF Prio
<1>4. cur_prio[cur_tcb] > HighestPrio(run_list)
  BY DEF Preempt, Preempts
<1> QED BY <1>1, <1>2, <1>3, <1>4, KernelAssumption DEF Prio

\* A task that calls task_create holds no mutex.
LEMMA CreateHoldsNone ==
  ASSUME FrameInv, RestType, LockInv, ~CreateWhileHolding,
         NEW n \in 0 .. OS_AVAIL_TASKS, TaskCreate(n)
  PROVE  NoneHeld
<1> SUFFICES ASSUME NEW m \in Mutex, pHolding_Tcb[m] # NULL
             PROVE  FALSE
  BY DEF NoneHeld
<1>1. exec # BootMain /\ pHolding_Tcb[m] = cur_tcb /\ cur_tcb \in Tcb
  BY DEF LockInv, HolderRuns, RestType
<1>2. holds_lock[cur_tcb] = 0
  BY <1>1 DEF TaskCreate
<1>3. Cardinality(Held(cur_tcb)) = 0 /\ IsFiniteSet(Held(cur_tcb))
  BY <1>1, <1>2, MutexFinite DEF LockInv, CountsHeld, Held
<1>4. m \in Held(cur_tcb)
  BY <1>1 DEF Held
<1> QED BY <1>3, <1>4, FS_EmptySet

\* No step between picking a task and running it, and none of task_create,
\* leads into mutex_lock.
LEMMA KernelPathOutside ==
  ASSUME FrameInv, RestType, LockInv,
         DispatchPick \/ DispatchRemove \/ DispatchCur \/ DispatchSwitch
           \/ DevInit \/ RunqueueInit \/ AllocateTcb \/ AllocateIdle
  PROVE  NobodyInLock'
<1>1. frame[exec] \in Frames /\ exec \in Stack
  BY DEF FrameInv
<1>2. frame[exec].after # "locked" /\ frame[exec].pc \notin {"tail_scan", "locked"}
  BY <1>1 DEF LockInv, NobodyInLock
<1>3. \A f \in Frames : /\ GoOn(f)
                        /\ f.pc \notin {"tail_scan", "locked"}
                        /\ f.after # "locked"
                        => NobodyInLock'
  BY GoOnOutside
<1>4. CASE DispatchPick
  <2> DEFINE f == [frame[exec] EXCEPT !.pc = "ds_remove", !.pick = HighestPrio(run_list)]
  <2>1. HighestPrio(run_list) \in Prio /\ "ds_remove" \in Points
    BY HighestPrioOfTask DEF Points, RestType
  <2>2. f \in Frames
    BY <2>1, <1>1, FrameTypes
  <2>3. f.pc = "ds_remove" /\ f.after = frame[exec].after
    BY <1>1 DEF Frames
  <2>4. GoOn(f)
    BY <1>4 DEF DispatchPick
  <2> HIDE DEF f
  <2> QED BY <1>2, <1>3, <2>2, <2>3, <2>4
<1>5. CASE DispatchRemove
  <2> DEFINE tcb == run_list[frame[exec].pick]
             f == [frame[exec] EXCEPT !.pc = "ds_cur", !.pick = tcb]
  <2>1. CASE GoOn(f)
    <3>1. frame[exec].pick \in Prio
      BY <1>1 DEF Frames
    <3>2. tcb \in Prio /\ "ds_cur" \in Points
      BY <3>1, Ranges DEF RestType, Queues, Points
    <3>3. f \in Frames
      BY <3>2, <1>1, FrameTypes
    <3>4. f.pc = "ds_cur" /\ f.after = frame[exec].after
      BY <1>1 DEF Frames
    <3> HIDE DEF f
    <3> QED BY <1>2, <1>3, <2>1, <3>3, <3>4
  <2>2. CASE UNCHANGED frame
    BY <2>2 DEF LockInv, NobodyInLock
  <2> QED BY <2>1, <2>2, <1>5 DEF DispatchRemove
<1>6. CASE DispatchCur
  <2> DEFINE f == [frame[exec] EXCEPT !.pc = "ds_switch", !.i = cur_tcb]
  <2>1. cur_tcb \in Nat /\ "ds_switch" \in Points
    BY Ranges DEF Points, RestType
  <2>2. f \in Frames
    BY <2>1, <1>1, FrameTypes
  <2>3. f.pc = "ds_switch" /\ f.after = frame[exec].after
    BY <1>1 DEF Frames
  <2>4. GoOn(f)
    BY <1>6 DEF DispatchCur
  <2> HIDE DEF f
  <2> QED BY <1>2, <1>3, <2>2, <2>3, <2>4
<1>7. CASE DispatchSwitch
  <2> DEFINE f == frame[exec]
             saved == IF f.after = "never" THEN context ELSE Saved(f.i)
             left_at == [frame EXCEPT ![exec] = UserFrame]
  <2>1. SwitchTo(f.pick, saved, left_at) /\ f.pick \in Tcb
    BY <1>1, <1>2, <1>7 DEF DispatchSwitch, At, FrameInv, PicksTask
  <2>2. saved \in [Tcb -> Stack \union {LAUNCH, STALE}]
    BY <1>1 DEF Saved, RestType
  <2>3. left_at \in [Stack -> Frames]
    BY UserFrameType DEF FrameInv
  <2>4. \A s \in Stack : left_at[s].pc \notin {"tail_scan", "locked"}
                           /\ left_at[s].after # "locked"
    BY DEF LockInv, NobodyInLock, UserFrame, FrameInv
  <2> HIDE DEF f, saved, left_at
  <2> QED BY <2>1, <2>2, <2>3, <2>4, SwitchOutside
<1>8. CASE DevInit
  <2> DEFINE k == frame[exec].i + 1
             p == IF k = NUM_DEVICES THEN "rq_init" ELSE "dev_init"
             f == [frame[exec] EXCEPT !.i = k, !.pc = p]
  <2>1. p \in Points /\ p \notin {"tail_scan", "locked"} /\ k \in Nat
    BY <1>1 DEF Points, Frames
  <2>2. f \in Frames
    BY <2>1, <1>1, FrameTypes
  <2>3. f.pc = p /\ f.after = frame[exec].after
    BY <1>1 DEF Frames
  <2>4. GoOn(f)
    BY <1>8 DEF DevInit
  <2> HIDE DEF f, p
  <2> QED BY <1>2, <1>3, <2>1, <2>2, <2>3, <2>4
<1>9. CASE RunqueueInit
  <2> DEFINE f == [frame[exec] EXCEPT !.pc = "alloc", !.i = frame[exec].n]
  <2>1. "alloc" \in Points /\ frame[exec].n \in Nat
    BY <1>1, Ranges DEF Points, Frames
  <2>2. f \in Frames
    BY <2>1, <1>1, FrameTypes
  <2>3. f.pc = "alloc" /\ f.after = frame[exec].after
    BY <1>1 DEF Frames
  <2>4. GoOn(f)
    BY <1>9 DEF RunqueueInit
  <2> HIDE DEF f
  <2> QED BY <1>2, <1>3, <2>2, <2>3, <2>4
<1>10. CASE AllocateTcb
  <2> DEFINE f == [frame[exec] EXCEPT !.i = frame[exec].i - 1]
  <2>1. frame[exec].i - 1 \in Nat
    BY <1>10, <1>1 DEF AllocateTcb, Frames
  <2>2. f \in Frames
    BY <2>1, <1>1, FrameTypes DEF Points
  <2>3. f.pc = frame[exec].pc /\ f.after = frame[exec].after
    BY <1>1 DEF Frames
  <2>4. GoOn(f)
    BY <1>10 DEF AllocateTcb
  <2> HIDE DEF f
  <2> QED BY <1>2, <1>3, <2>2, <2>3, <2>4
<1>11. CASE AllocateIdle
  BY <1>11, UserFrameType, DispatchOutside DEF AllocateIdle, LeaveForGood
<1> QED BY <1>4, <1>5, <1>6, <1>7, <1>8, <1>9, <1>10, <1>11

LEMMA PreemptOutside ==
  ASSUME FrameInv, RestType, LockInv, Preempt
  PROVE  NobodyInLock'
<1> DEFINE queue == Put(run_list, cur_tcb, cur_prio[cur_tcb])
           prio == HighestPrio(queue)
           interrupted == [frame EXCEPT ![exec] = [@ EXCEPT !.in_irq = TRUE]]
<1>1. /\ SwitchTo(queue[prio], Saved(cur_tcb), interrupted)
      /\ cur_tcb' = queue[prio]
  BY DEF Preempt
<1>2. cur_tcb' \in Tcb
  BY PreemptType
<1>3. Saved(cur_tcb) \in [Tcb -> Stack \union {LAUNCH, STALE}]
  BY DEF Saved, RestType, FrameInv
<1>4. frame[exec] \in Frames /\ [frame[exec] EXCEPT !.in_irq = TRUE] \in Frames
  BY FrameTypes DEF Points, FrameInv
<1>5. interrupted \in [Stack -> Frames]
  BY <1>4 DEF FrameInv
<1>6. ASSUME NEW s \in Stack
      PROVE  interrupted[s].pc = frame[s].pc /\ interrupted[s].after = frame[s].after
  <2>1. [frame[exec] EXCEPT !.in_irq = TRUE].pc = frame[exec].pc
    BY <1>4 DEF Frames
  <2>2. [frame[exec] EXCEPT !.in_irq = TRUE].after = frame[exec].after
    BY <1>4 DEF Frames
  <2> QED BY <2>1, <2>2 DEF FrameInv
<1> HIDE DEF queue, prio, interrupted
<1>7. \A s \in Stack : interrupted[s].pc \notin {"tail_scan", "locked"}
                         /\ interrupted[s].after # "locked"
  BY <1>6 DEF LockInv, NobodyInLock
<1> QED BY <1>1, <1>2, <1>3, <1>5, <1>7, SwitchOutside

\* The mutexes stay sound in a step that does not call task_create with one
\* held ...
LEMMA LockKept ==
  ASSUME FrameInv, RestType, LockInv, [Next]_vars,
         \A n \in 0 .. OS_AVAIL_TASKS : TaskCreate(n) => NoneHeld
  PROVE  LockInv'
<1>0. frame[exec] \in Frames /\ exec \in Stack
  BY DEF FrameInv
<1>1. CASE MutexCreate \/ Refused \/ Halted \/ Tick \/ ScanDevice \/ WakeSleeper
           \/ CloseDevice \/ IrqReturn \/ UNCHANGED vars
  <2>1. UNCHANGED <<cur_tcb, cur_prio, holds_lock, bLock, pHolding_Tcb, pSleep_queue,
                    exec, frame>>
    BY <1>1 DEF MutexCreate, Refused, Halted, Tick, ScanDevice, WakeSleeper, CloseDevice,
                IrqReturn, vars, tcbs, mutexes
  <2> QED
    BY <2>1 DEF LockInv, NobodyWaits, LockedIffHeld, CountsHeld, NobodyInLock,
                HolderRuns, Held
<1>2. ASSUME NEW m \in Mutex, MutexLockFree(m) \/ MutexLockWait(m) \/ MutexUnlock(m)
      PROVE  LockInv'
  BY <1>2, LockFreeStep, NoWait, UnlockStep
<1>3. ASSUME NEW d \in Device, EventWait(d)
      PROVE  LockInv'
  <2>1. NoneHeld
    <3> SUFFICES ASSUME NEW m \in Mutex, pHolding_Tcb[m] # NULL
                 PROVE  FALSE
      BY DEF NoneHeld
    <3>1. pHolding_Tcb[m] = cur_tcb /\ cur_tcb \in Tcb
      BY DEF LockInv, HolderRuns, RestType
    <3>2. holds_lock[cur_tcb] = 0
      BY <1>3 DEF EventWait
    <3>3. Cardinality(Held(cur_tcb)) = 0 /\ IsFiniteSet(Held(cur_tcb))
      BY <3>1, <3>2, MutexFinite DEF LockInv, CountsHeld, Held
    <3>4. m \in Held(cur_tcb)
      BY <3>1 DEF Held
    <3> QED BY <3>3, <3>4, FS_EmptySet
  <2>2. NobodyInLock'
    BY <1>3, DispatchOutside, UserFrameType DEF EventWait
  <2>3. UNCHANGED <<mutexes, holds_lock>>
    BY <1>3 DEF EventWait
  <2> QED BY <2>1, <2>2, <2>3, IdleMutexes DEF LockInv
<1>4. ASSUME NEW n \in 0 .. OS_AVAIL_TASKS, TaskCreate(n)
      PROVE  LockInv'
  <2> DEFINE p == IF NUM_DEVICES = 0 THEN "rq_init" ELSE "dev_init"
             f == [UserFrame EXCEPT !.pc = p, !.n = n]
  <2>1. p \in Points /\ p \notin {"tail_scan", "locked"}
    BY DEF Points
  <2>2. f \in Frames /\ f.pc = p /\ f.after # "locked"
    BY <2>1, UserFrameType, FrameTypes DEF UserFrame
  <2>3. GoOn(f) /\ UNCHANGED <<mutexes, holds_lock>>
    BY <1>4 DEF TaskCreate, tcbs
  <2> HIDE DEF f, p
  <2>4. NobodyInLock'
    BY <2>1, <2>2, <2>3, GoOnOutside
  <2> QED BY <1>4, <2>3, <2>4, IdleMutexes DEF LockInv
<1>5. CASE DispatchPick \/ DispatchRemove \/ DispatchCur \/ DispatchSwitch
           \/ DevInit \/ RunqueueInit \/ AllocateTcb \/ AllocateIdle
  <2>1. frame[exec].pc # "user"
    BY <1>5 DEF DispatchPick, DispatchRemove, DispatchCur, DispatchSwitch, DevInit,
                RunqueueInit, AllocateTcb, AllocateIdle, LeaveForGood, At
  <2>2. NoneHeld
    BY <2>1, KernelHoldsNone
  <2>3. frame[exec].after # "locked"
    BY <1>0 DEF LockInv, NobodyInLock
  <2>4. NobodyInLock'
    BY <1>0, <1>5, <2>3, KernelPathOutside
  <2>5. UNCHANGED mutexes
    BY <1>5 DEF DispatchPick, DispatchRemove, DispatchCur, DispatchSwitch, DevInit,
                RunqueueInit, AllocateTcb, AllocateIdle, LeaveForGood, mutexes, devices
  <2>6. CountsHeld'
    <3> SUFFICES ASSUME NEW t \in Tcb
                 PROVE  holds_lock'[t] = Cardinality(Held(t)')
      BY DEF CountsHeld
    <3>1. Held(t) = {} /\ Held(t)' = {}
      BY <2>2, <2>5, Ranges DEF NoneHeld, Held, mutexes
    <3>2. holds_lock[t] = 0
      BY <3>1, FS_EmptySet DEF LockInv, CountsHeld
    <3>3. holds_lock'[t] \in {holds_lock[t], 0}
      BY <1>5 DEF DispatchPick, DispatchRemove, DispatchCur, DispatchSwitch, DevInit,
                  RunqueueInit, AllocateTcb, AllocateIdle, LeaveForGood, tcbs, RestType
    <3> QED BY <3>1, <3>2, <3>3, FS_EmptySet
  <2>7. NobodyWaits' /\ LockedIffHeld' /\ HolderRuns'
    BY <2>2, <2>5 DEF LockInv, NobodyWaits, LockedIffHeld, HolderRuns, NoneHeld, mutexes
  <2> QED BY <2>4, <2>6, <2>7 DEF LockInv
<1>6. CASE TailScan \/ MutexLockTail
  <2>1. frame[exec].pc \in {"tail_scan", "locked"}
    BY <1>6 DEF TailScan, MutexLockTail, At
  <2> QED BY <2>1, <1>0 DEF LockInv, NobodyInLock
<1>7. CASE Preempt
  <2>1. NoneHeld
    BY <1>7, PreemptHoldsNone
  <2>2. UNCHANGED <<mutexes, holds_lock>>
    BY <1>7 DEF Preempt, tcbs
  <2> QED BY <1>7, <2>1, <2>2, IdleMutexes, PreemptOutside DEF LockInv
<1> QED
  BY <1>1, <1>2, <1>3, <1>4, <1>5, <1>6, <1>7 DEF Next, UserCalls, CallSteps, IsrSteps

\* ... which is every step, when no holder may.
LEMMA LockStep ==
  ASSUME FrameInv, RestType, LockInv, ~CreateWhileHolding, [Next]_vars
  PROVE  LockInv'
  BY CreateHoldsNone, LockKept

\* The Highest Locker Protocol (mutex.c:93): whoever holds a mutex runs user
\* code at the highest priority and nobody waits for the mutex, wherever the
\* timer interrupt is taken.
THEOREM HighestLockerHolds == ASSUME ~CreateWhileHolding PROVE Spec => []HighestLocker
<1>1. Init => LockInv
  BY LockInit
<1>2. TypeInv /\ LockInv /\ [Next]_vars => LockInv'
  <2> SUFFICES ASSUME TypeInv, LockInv, [Next]_vars
               PROVE  LockInv'
    OBVIOUS
  <2> QED BY TypeParts, LockStep
<1>3. LockInv => HighestLocker
  BY DEF LockInv, HighestLocker, HolderRuns, NobodyWaits
<1> QED BY <1>1, <1>2, <1>3, TypeCorrect, PTL DEF Spec

\* task.h:59 and mutex.c:92,133: holds_lock counts the mutexes held.
THEOREM HoldsLockCountsHolds == ASSUME ~CreateWhileHolding PROVE Spec => []HoldsLockCounts
<1>1. Init => LockInv
  BY LockInit
<1>2. TypeInv /\ LockInv /\ [Next]_vars => LockInv'
  BY TypeParts, LockStep
<1>3. TypeInv /\ LockInv => HoldsLockCounts
  BY DEF TypeInv, TypeOK, LockInv, CountsHeld, HoldsLockCounts, Held
<1> QED BY <1>1, <1>2, <1>3, TypeCorrect, PTL DEF Spec

\* First come, first served (mutex_chaser): whatever the programs do, and
\* wherever the interrupt is taken, the head of the queue of a mutex changes
\* only when the task at the head becomes the holder.
THEOREM HeadBecomesHolderHolds == Spec => HeadBecomesHolder
<1> DEFINE Step == \A m \in Mutex : pSleep_queue[m] # NULL /\ pSleep_queue'[m] # pSleep_queue[m]
                                       => pHolding_Tcb'[m] = pSleep_queue[m]
<1>1. TypeInv /\ [Next]_vars => [Step]_vars
  <2> SUFFICES ASSUME TypeInv, [Next]_vars
               PROVE  Step
    OBVIOUS
  <2>1. pSleep_queue \in [Mutex -> Tcb \union {NULL}] /\ pHolding_Tcb \in [Mutex -> Tcb \union {NULL}]
    BY DEF TypeInv, TypeOK
  <2>2. ASSUME NEW m \in Mutex, MutexLockWait(m)
        PROVE  Step
    BY <2>1, <2>2 DEF MutexLockWait
  <2>3. ASSUME NEW m \in Mutex, MutexUnlock(m)
        PROVE  Step
    BY <2>1, <2>3 DEF MutexUnlock, HandOver
  <2>4. CASE UNCHANGED pSleep_queue
    BY <2>4
  <2>5. \/ UNCHANGED pSleep_queue
        \/ \E m \in Mutex : MutexLockWait(m) \/ MutexUnlock(m)
    BY DEF Next, UserCalls, CallSteps, IsrSteps, MutexCreate, MutexLockFree, EventWait, TaskCreate,
           Refused, DispatchPick, DispatchRemove, DispatchCur, DispatchSwitch, TailScan,
           MutexLockTail, DevInit, RunqueueInit, AllocateTcb, AllocateIdle, ScanDevice, WakeSleeper,
           CloseDevice, Preempt, IrqReturn, Tick, Halted, vars, mutexes
  <2> QED BY <2>2, <2>3, <2>4, <2>5
<1> QED BY <1>1, TypeCorrect, PTL DEF Spec, HeadBecomesHolder

-----------------------------------------------------------------------------


(***************************************************************************)
(* What the steps do to the stacks.                                        *)
(***************************************************************************)

\* Only the running stack goes on, and at the frame given.
LEMMA GoOnEffect ==
  ASSUME FrameInv, NEW f \in Frames, GoOn(f)
  PROVE  /\ frame'[exec] = f
         /\ \A s \in Stack : s # exec => frame'[s] = frame[s]
  BY DEF FrameInv, GoOn

\* A dispatcher is entered.
LEMMA DispatchEffect ==
  ASSUME FrameInv, NEW f \in Frames, NEW after \in {"user", "locked", "never"},
         Dispatch(f, after)
  PROVE  /\ frame'[exec].pc = "ds_pick" /\ frame'[exec].after = after
         /\ frame'[exec].mx = f.mx
         /\ \A s \in Stack : s # exec => frame'[s] = frame[s]
<1> DEFINE g == [f EXCEPT !.pc = "ds_pick", !.after = after]
<1>1. g \in Frames
  BY FrameTypes DEF Points
<1>2. g.pc = "ds_pick" /\ g.after = after /\ g.mx = f.mx
  BY DEF Frames
<1>3. GoOn(g)
  BY DEF Dispatch
<1> HIDE DEF g
<1> QED BY <1>1, <1>2, <1>3, GoOnEffect

LEMMA PickEffect ==
  ASSUME FrameInv, RestType, DispatchPick
  PROVE  /\ frame'[exec].pc = "ds_remove" /\ frame'[exec].pick = HighestPrio(run_list)
         /\ frame'[exec].after = frame[exec].after /\ frame'[exec].mx = frame[exec].mx
         /\ \A s \in Stack : s # exec => frame'[s] = frame[s]
<1> DEFINE f == [frame[exec] EXCEPT !.pc = "ds_remove", !.pick = HighestPrio(run_list)]
<1>1. HighestPrio(run_list) \in Prio /\ "ds_remove" \in Points /\ frame[exec] \in Frames
  BY HighestPrioOfTask DEF Points, FrameInv, RestType
<1>2. f \in Frames
  BY <1>1, FrameTypes
<1>3. /\ f.pc = "ds_remove" /\ f.pick = HighestPrio(run_list)
      /\ f.after = frame[exec].after /\ f.mx = frame[exec].mx
  BY <1>1 DEF Frames
<1>4. GoOn(f)
  BY DEF DispatchPick
<1> HIDE DEF f
<1> QED BY <1>2, <1>3, <1>4, GoOnEffect

LEMMA RemoveEffect ==
  ASSUME FrameInv, RestType, DispatchRemove, run_list[frame[exec].pick] # NULL
  PROVE  /\ frame'[exec].pc = "ds_cur" /\ frame'[exec].pick = run_list[frame[exec].pick]
         /\ frame'[exec].after = frame[exec].after /\ frame'[exec].mx = frame[exec].mx
         /\ \A s \in Stack : s # exec => frame'[s] = frame[s]
         /\ run_list' = Drop(run_list, frame[exec].pick) /\ UNCHANGED stopped
<1> DEFINE tcb == run_list[frame[exec].pick]
           f == [frame[exec] EXCEPT !.pc = "ds_cur", !.pick = tcb]
<1>1. frame[exec] \in Frames /\ frame[exec].pick \in Prio
  BY DEF FrameInv, Frames
<1>2. tcb \in Prio /\ "ds_cur" \in Points
  BY <1>1, Ranges DEF RestType, Queues, Points
<1>3. f \in Frames
  BY <1>1, <1>2, FrameTypes
<1>4. f.pc = "ds_cur" /\ f.pick = tcb /\ f.after = frame[exec].after /\ f.mx = frame[exec].mx
  BY <1>1 DEF Frames
<1>5. GoOn(f) /\ run_list' = Drop(run_list, frame[exec].pick) /\ UNCHANGED stopped
  BY DEF DispatchRemove
<1> HIDE DEF f
<1> QED BY <1>3, <1>4, <1>5, GoOnEffect

LEMMA CurEffect ==
  ASSUME FrameInv, RestType, DispatchCur
  PROVE  /\ frame'[exec].pc = "ds_switch" /\ frame'[exec].pick = frame[exec].pick
         /\ frame'[exec].after = frame[exec].after /\ frame'[exec].mx = frame[exec].mx
         /\ frame'[exec].i = cur_tcb
         /\ \A s \in Stack : s # exec => frame'[s] = frame[s]
<1> DEFINE f == [frame[exec] EXCEPT !.pc = "ds_switch", !.i = cur_tcb]
<1>1. cur_tcb \in Nat /\ "ds_switch" \in Points /\ frame[exec] \in Frames
  BY Ranges DEF Points, RestType, FrameInv
<1>2. f \in Frames
  BY <1>1, FrameTypes
<1>3. /\ f.pc = "ds_switch" /\ f.pick = frame[exec].pick
      /\ f.after = frame[exec].after /\ f.mx = frame[exec].mx /\ f.i = cur_tcb
  BY <1>1 DEF Frames
<1>4. GoOn(f)
  BY DEF DispatchCur
<1> HIDE DEF f
<1> QED BY <1>2, <1>3, <1>4, GoOnEffect

\* task_create and its steps.
LEMMA CreateEffect ==
  ASSUME FrameInv, NEW n \in 0 .. OS_AVAIL_TASKS, TaskCreate(n)
  PROVE  /\ frame'[exec].pc = IF NUM_DEVICES = 0 THEN "rq_init" ELSE "dev_init"
         /\ frame'[exec].i = 0 /\ frame'[exec].n = n /\ frame'[exec].after = "user"
         /\ \A s \in Stack : s # exec => frame'[s] = frame[s]
<1> DEFINE p == IF NUM_DEVICES = 0 THEN "rq_init" ELSE "dev_init"
           f == [UserFrame EXCEPT !.pc = p, !.n = n]
<1>1. p \in Points
  BY DEF Points
<1>2. f \in Frames /\ f.pc = p /\ f.i = 0 /\ f.n = n /\ f.after = "user"
  BY <1>1, UserFrameType, FrameTypes DEF UserFrame
<1>3. GoOn(f)
  BY DEF TaskCreate
<1> HIDE DEF f
<1> QED BY <1>2, <1>3, GoOnEffect

LEMMA DevInitEffect ==
  ASSUME FrameInv, DevInit
  PROVE  /\ frame'[exec].pc = IF frame[exec].i + 1 = NUM_DEVICES THEN "rq_init" ELSE "dev_init"
         /\ frame'[exec].i = frame[exec].i + 1 /\ frame'[exec].n = frame[exec].n
         /\ frame'[exec].after = frame[exec].after
         /\ \A s \in Stack : s # exec => frame'[s] = frame[s]
<1> DEFINE k == frame[exec].i + 1
           p == IF k = NUM_DEVICES THEN "rq_init" ELSE "dev_init"
           f == [frame[exec] EXCEPT !.i = k, !.pc = p]
<1>1. p \in Points /\ k \in Nat /\ frame[exec] \in Frames
  BY DEF Points, Frames, FrameInv
<1>2. f \in Frames
  BY <1>1, FrameTypes
<1>3. f.pc = p /\ f.i = k /\ f.n = frame[exec].n /\ f.after = frame[exec].after
  BY <1>1 DEF Frames
<1>4. GoOn(f)
  BY DEF DevInit
<1> HIDE DEF f
<1> QED BY <1>2, <1>3, <1>4, GoOnEffect

LEMMA RunqueueInitEffect ==
  ASSUME FrameInv, RunqueueInit
  PROVE  /\ frame'[exec].pc = "alloc" /\ frame'[exec].i = frame[exec].n
         /\ frame'[exec].n = frame[exec].n
         /\ frame'[exec].after = frame[exec].after
         /\ \A s \in Stack : s # exec => frame'[s] = frame[s]
<1> DEFINE f == [frame[exec] EXCEPT !.pc = "alloc", !.i = frame[exec].n]
<1>1. "alloc" \in Points /\ frame[exec].n \in Nat /\ frame[exec] \in Frames
  BY Ranges DEF Points, Frames, FrameInv
<1>2. f \in Frames
  BY <1>1, FrameTypes
<1>3. f.pc = "alloc" /\ f.i = frame[exec].n /\ f.n = frame[exec].n
      /\ f.after = frame[exec].after
  BY <1>1 DEF Frames
<1>4. GoOn(f)
  BY DEF RunqueueInit
<1> HIDE DEF f
<1> QED BY <1>2, <1>3, <1>4, GoOnEffect

LEMMA AllocateEffect ==
  ASSUME FrameInv, AllocateTcb
  PROVE  /\ frame'[exec].pc = "alloc" /\ frame'[exec].i = frame[exec].i - 1
         /\ frame'[exec].n = frame[exec].n
         /\ frame'[exec].after = frame[exec].after
         /\ \A s \in Stack : s # exec => frame'[s] = frame[s]
<1> DEFINE f == [frame[exec] EXCEPT !.i = frame[exec].i - 1]
<1>1. frame[exec].i - 1 \in Nat /\ frame[exec] \in Frames
  BY DEF AllocateTcb, Frames, FrameInv
<1>2. f \in Frames
  BY <1>1, FrameTypes DEF Points
<1>3. f.pc = "alloc" /\ f.i = frame[exec].i - 1 /\ f.n = frame[exec].n
      /\ f.after = frame[exec].after
  BY <1>1 DEF Frames, AllocateTcb, At
<1>4. GoOn(f)
  BY DEF AllocateTcb
<1> HIDE DEF f
<1> QED BY <1>2, <1>3, <1>4, GoOnEffect

\* A switch to a tcb whose context is its own stack's.
LEMMA SwitchEffect ==
  ASSUME FrameInv, NEW to \in Tcb, NEW saved \in [Tcb -> Stack \union {LAUNCH, STALE}],
         NEW left_at \in [Stack -> Frames], saved[to] \in {LAUNCH, STALE, to},
         SwitchTo(to, saved, left_at)
  PROVE  \/ saved[to] = STALE /\ stopped' = "crash" /\ UNCHANGED <<exec, context, frame, irq>>
         \/ /\ saved[to] # STALE
            /\ exec' = to /\ UNCHANGED stopped
            /\ context' = IF saved[to] = LAUNCH THEN saved ELSE [saved EXCEPT ![to] = STALE]
            /\ \A s \in Stack : s # to => frame'[s] = left_at[s]
            /\ frame'[to].pc = IF saved[to] = LAUNCH THEN "user" ELSE left_at[to].pc
            /\ frame'[to].pc # "user" => frame'[to].after = left_at[to].after
            /\ frame'[to].pc # "user" => frame'[to].mx = left_at[to].mx
            /\ irq' \in {"on", "off"} /\ (left_at[to].pc # "locked" => irq' = "on")
<1>1. CASE saved[to] = STALE
  BY <1>1 DEF SwitchTo
<1>2. CASE saved[to] = LAUNCH
  <2>1. /\ exec' = to /\ context' = saved /\ UNCHANGED stopped
        /\ frame' = [left_at EXCEPT ![to] = UserFrame] /\ irq' = "on"
    BY <1>2, Ranges DEF SwitchTo
  <2>2. UserFrame.pc = "user"
    BY DEF UserFrame
  <2>3. frame'[to].pc = "user" /\ \A s \in Stack : s # to => frame'[s] = left_at[s]
    BY <2>1, <2>2, Ranges
  <2> QED BY <1>2, <2>1, <2>3, Ranges
<1>3. CASE saved[to] = to
  <2>1. to # LAUNCH /\ to # STALE /\ to \in Stack
    BY Ranges
  <2> DEFINE f == [left_at[to] EXCEPT !.in_irq = FALSE]
  <2>2. /\ exec' = to /\ context' = [saved EXCEPT ![to] = STALE] /\ UNCHANGED stopped
        /\ frame' = [left_at EXCEPT ![to] = f]
        /\ irq' \in {"on", "off"} /\ (left_at[to].pc # "locked" => irq' = "on")
    BY <1>3, <2>1 DEF SwitchTo
  <2>3. f.pc = left_at[to].pc /\ f.after = left_at[to].after /\ f.mx = left_at[to].mx
    BY <2>1 DEF Frames
  <2> HIDE DEF f
  <2> QED BY <1>3, <2>1, <2>2, <2>3
<1> QED BY <1>1, <1>2, <1>3

\* The switch at the end of a dispatcher, with what it saves and leaves.
LEMMA DispatchSwitchEffect ==
  ASSUME FrameInv, RestType, DispatchSwitch,
         NEW f \in Frames, f = frame[exec],
         \A t \in Tcb : context[t] \in {LAUNCH, STALE, t}, f.i = exec
  PROVE  \E saved \in [Tcb -> Stack \union {LAUNCH, STALE}], left_at \in [Stack -> Frames] :
           /\ \A t \in Tcb : saved[t] = IF f.after # "never" /\ t = exec THEN t ELSE context[t]
           /\ \A t \in Tcb : saved[t] \in {LAUNCH, STALE, t}
           /\ \A s \in Stack : s # exec => left_at[s] = frame[s]
           /\ left_at[exec].pc = IF f.after = "locked" THEN "locked" ELSE "user"
           /\ f.after = "locked" => left_at[exec].mx = f.mx
           /\ SwitchTo(f.pick, saved, left_at)
           /\ f.pick \in Tcb
<1> USE DEF FrameInv, RestType
<1> DEFINE saved == IF f.after = "never" THEN context ELSE Saved(f.i)
           back == IF f.after = "locked" THEN [UserFrame EXCEPT !.pc = "locked", !.mx = f.mx]
                                         ELSE UserFrame
           left_at == [frame EXCEPT ![exec] = back]
<1>1. f.pick \in Tcb
  BY DEF DispatchSwitch, At, PicksTask
<1>2. saved \in [Tcb -> Stack \union {LAUNCH, STALE}]
  BY DEF Saved
<1>3. /\ back \in Frames /\ back.pc = IF f.after = "locked" THEN "locked" ELSE "user"
      /\ f.after = "locked" => back.mx = f.mx
  <2>1. f.mx \in Mutex \union {0} /\ "locked" \in Points
    BY DEF Frames, Points
  <2>2. [UserFrame EXCEPT !.pc = "locked", !.mx = f.mx] \in Frames
    BY <2>1, UserFrameType, FrameTypes
  <2>3. /\ [UserFrame EXCEPT !.pc = "locked", !.mx = f.mx].pc = "locked"
        /\ [UserFrame EXCEPT !.pc = "locked", !.mx = f.mx].mx = f.mx
    BY DEF UserFrame
  <2> QED BY <2>2, <2>3, UserFrameType DEF UserFrame
<1>4. left_at \in [Stack -> Frames] /\ left_at[exec] = back
      /\ \A s \in Stack : s # exec => left_at[s] = frame[s]
  BY <1>3
<1>5. \A t \in Tcb : saved[t] = IF f.after # "never" /\ t = exec THEN t ELSE context[t]
  BY DEF Saved
<1>6. SwitchTo(f.pick, saved, left_at)
  BY DEF DispatchSwitch
<1> HIDE DEF saved, left_at, back
<1>7. \A t \in Tcb : saved[t] \in {LAUNCH, STALE, t}
  BY <1>5
<1> QED BY <1>1, <1>2, <1>3, <1>4, <1>5, <1>6, <1>7

\* The preemption at the end of an interrupt.
LEMMA PreemptEffect ==
  ASSUME FrameInv, RestType, Preempt, cur_tcb = exec,
         \A t \in Tcb : context[t] \in {LAUNCH, STALE, t}
  PROVE  /\ cur_tcb \in Tcb
         /\ \E saved \in [Tcb -> Stack \union {LAUNCH, STALE}], left_at \in [Stack -> Frames] :
              /\ \A t \in Tcb : saved[t] = IF t = exec THEN t ELSE context[t]
              /\ \A t \in Tcb : saved[t] \in {LAUNCH, STALE, t}
              /\ \A s \in Stack : /\ left_at[s].pc = frame[s].pc /\ left_at[s].mx = frame[s].mx
                                  /\ left_at[s].after = frame[s].after
              /\ SwitchTo(cur_tcb', saved, left_at)
              /\ cur_tcb' \in Tcb
<1> USE DEF FrameInv, RestType
<1> DEFINE saved == Saved(cur_tcb)
           left_at == [frame EXCEPT ![exec] = [@ EXCEPT !.in_irq = TRUE]]
<1>1. cur_tcb \in Tcb
  BY DEF Preempt, Preempts, IsrSound
<1>2. cur_tcb' \in Tcb
  BY PreemptType
<1>3. saved \in [Tcb -> Stack \union {LAUNCH, STALE}]
      /\ \A t \in Tcb : saved[t] = IF t = exec THEN t ELSE context[t]
  BY DEF Saved
<1>4. left_at \in [Stack -> Frames]
      /\ \A s \in Stack : /\ left_at[s].pc = frame[s].pc /\ left_at[s].mx = frame[s].mx
                          /\ left_at[s].after = frame[s].after
  <2> DEFINE g == [frame[exec] EXCEPT !.in_irq = TRUE]
  <2>1. g \in Frames /\ frame[exec] \in Frames
    BY FrameTypes DEF Points
  <2>2. g.pc = frame[exec].pc /\ g.mx = frame[exec].mx /\ g.after = frame[exec].after
    BY <2>1 DEF Frames
  <2>3. left_at = [frame EXCEPT ![exec] = g]
    OBVIOUS
  <2> HIDE DEF g, left_at
  <2> QED BY <2>1, <2>2, <2>3
<1>5. SwitchTo(cur_tcb', saved, left_at)
  BY DEF Preempt
<1> HIDE DEF saved, left_at
<1> QED BY <1>1, <1>2, <1>3, <1>4, <1>5

\* The other steps of the kernel's calls go on at a point that is not the
\* switch of stacks.
LEMMA CallEffect ==
  ASSUME FrameInv, RestType,
           \/ \E m \in Mutex : MutexLockWait(m)
           \/ \E d \in Device : EventWait(d)
           \/ \E n \in 0 .. OS_AVAIL_TASKS : TaskCreate(n)
           \/ TailScan \/ MutexLockTail \/ DispatchPick
           \/ DevInit \/ RunqueueInit \/ AllocateTcb \/ AllocateIdle
  PROVE  /\ frame'[exec].pc # "ds_switch"
         /\ \A s \in Stack : s # exec => frame'[s] = frame[s]
<1>0. frame[exec] \in Frames /\ UserFrame \in Frames
  BY UserFrameType DEF FrameInv
<1> DEFINE Elsewhere == /\ frame'[exec].pc # "ds_switch"
                        /\ \A s \in Stack : s # exec => frame'[s] = frame[s]
<1>3. \A f \in Frames : GoOn(f) /\ f.pc # "ds_switch" => Elsewhere
  BY GoOnEffect
<1>4. \A f \in Frames, a \in {"user", "locked", "never"} : Dispatch(f, a) => Elsewhere
  BY DispatchEffect
<1> HIDE DEF Elsewhere
<1>5. ASSUME NEW m \in Mutex, MutexLockWait(m)
      PROVE  Elsewhere
  <2> DEFINE f == [UserFrame EXCEPT !.mx = m]
  <2>1. f \in Frames
    BY <1>0, FrameTypes DEF Points
  <2>2. CASE Dispatch(f, "locked")
    BY <2>1, <2>2, <1>4
  <2>3. CASE /\ pSleep_queue[m] # NULL
             /\ GoOn([f EXCEPT !.pc = "tail_scan", !.pick = pSleep_queue[m]])
    <3> DEFINE g == [f EXCEPT !.pc = "tail_scan", !.pick = pSleep_queue[m]]
    <3>1. pSleep_queue[m] \in Prio /\ "tail_scan" \in Points
      BY <2>3, Ranges DEF RestType, Points
    <3>2. g \in Frames /\ g.pc = "tail_scan"
      BY <3>1, <2>1, FrameTypes DEF UserFrame
    <3>3. GoOn(g)
      BY <2>3
    <3> HIDE DEF g, f
    <3> QED BY <3>2, <3>3, <1>3
  <2> QED BY <1>5, <2>2, <2>3 DEF MutexLockWait
<1>6. ASSUME TailScan
      PROVE  Elsewhere
  <2> DEFINE f == [frame[exec] EXCEPT !.pick = sleep_queue[frame[exec].pick]]
  <2>1. frame[exec].pick \in Tcb /\ frame[exec].pc = "tail_scan"
    BY <1>6, <1>0 DEF TailScan, At, FrameInv, PicksTask
  <2>2. f \in Frames
    <3>1. frame[exec] \in Frames /\ sleep_queue[frame[exec].pick] \in Prio
      BY <2>1, <1>0, Ranges DEF RestType
    <3>2. "tail_scan" \in Points
      BY DEF Points
    <3> QED BY <3>1, <3>2, FrameTypes
  <2>3. f.pc = "tail_scan"
    BY <1>0, <2>1 DEF Frames
  <2>4. GoOn(f) \/ Dispatch(frame[exec], "locked")
    BY <1>6 DEF TailScan
  <2> HIDE DEF f
  <2> QED BY <1>0, <2>2, <2>3, <2>4, <1>3, <1>4
<1>7. ASSUME MutexLockTail
      PROVE  Elsewhere
  <2>1. GoOn(UserFrame) /\ UserFrame.pc = "user"
    BY <1>7 DEF MutexLockTail, UserFrame
  <2> QED BY <2>1, <1>0, <1>3
<1>8. ASSUME (\E d \in Device : EventWait(d)) \/ AllocateIdle
      PROVE  Elsewhere
  <2>1. Dispatch(UserFrame, "user") \/ Dispatch(UserFrame, "never")
    BY <1>8 DEF EventWait, AllocateIdle, LeaveForGood
  <2> QED BY <2>1, <1>0, <1>4
<1>9. Elsewhere
  BY <1>5, <1>6, <1>7, <1>8, PickEffect, CreateEffect, DevInitEffect,
     RunqueueInitEffect, AllocateEffect DEF Elsewhere
<1> QED BY <1>9 DEF Elsewhere

(***************************************************************************)
(* RunsAsItself.  Between the assignment of cur_tcb and the switch of      *)
(* stacks the kernel takes the processor to be on the stack that it is     *)
(* about to load, so an interrupt there would save one task's registers    *)
(* into the tcb of another.  Nowhere else does it matter where the         *)
(* interrupt is taken: every context is saved from the stack of its own    *)
(* task, and no suspended stack is between the two statements.             *)
(***************************************************************************)
OwnContexts == \A t \in Tcb : context[t] \in {LAUNCH, STALE, t}

OwnStack ==
  /\ frame[exec].pc # "ds_switch" => cur_tcb = exec
  /\ frame[exec].pc = "ds_switch" => /\ cur_tcb = frame[exec].pick
                                     /\ frame[exec].i = exec
                                     /\ irq \in {"on", "off"}
  /\ \A s \in Stack : s # exec => frame[s].pc # "ds_switch"

RunInv == OwnContexts /\ (stopped = "run" => OwnStack)

LEMMA RunInit == Init => RunInv
  BY Ranges DEF Init, RunInv, OwnContexts, OwnStack, UserFrame, NULL, BootMain

\* The running stack goes on at a point that is not the switch.
LEMMA OwnStackKept ==
  ASSUME FrameInv, OwnStack, UNCHANGED <<cur_tcb, exec>>,
         frame[exec].pc # "ds_switch", frame'[exec].pc # "ds_switch",
         \A s \in Stack : s # exec => frame'[s] = frame[s]
  PROVE  OwnStack'
  BY DEF FrameInv, OwnStack

LEMMA RunStep ==
  ASSUME FrameInv, RestType, RunInv, "ds_switch" \notin IrqWindows, [Next]_vars
  PROVE  RunInv'
<1> USE DEF RunInv
<1>0. frame[exec] \in Frames /\ exec \in Stack /\ UserFrame \in Frames
  BY UserFrameType DEF FrameInv
<1>1. CASE MutexCreate \/ Refused \/ Halted \/ ScanDevice \/ WakeSleeper \/ CloseDevice
           \/ IrqReturn \/ Tick \/ UNCHANGED vars
           \/ \E m \in Mutex : MutexLockFree(m) \/ MutexUnlock(m)
  <2>1. UNCHANGED <<cur_tcb, context, exec, frame, stopped>>
    BY <1>1 DEF MutexCreate, Refused, Halted, Tick, ScanDevice, WakeSleeper, CloseDevice,
                IrqReturn, MutexLockFree, MutexUnlock, vars, tcbs, mutexes
  <2>2. \/ stopped # "run" \/ UNCHANGED irq \/ frame[exec].pc # "ds_switch"
    BY <1>1 DEF MutexCreate, Refused, Halted, Tick, ScanDevice, WakeSleeper, CloseDevice,
                IrqReturn, MutexLockFree, MutexUnlock, vars, InIsr, OwnStack, At
  <2> QED BY <2>1, <2>2 DEF OwnContexts, OwnStack
<1>2. CASE \/ \E m \in Mutex : MutexLockWait(m)
           \/ \E d \in Device : EventWait(d)
           \/ \E n \in 0 .. OS_AVAIL_TASKS : TaskCreate(n)
           \/ TailScan \/ MutexLockTail \/ DispatchPick
           \/ DevInit \/ RunqueueInit \/ AllocateTcb \/ AllocateIdle
  <2>1. UNCHANGED <<cur_tcb, exec>> /\ stopped = "run" /\ frame[exec].pc # "ds_switch"
    BY <1>2 DEF MutexLockWait, EventWait, TaskCreate, TailScan, MutexLockTail, DispatchPick,
                DevInit, RunqueueInit, AllocateTcb, AllocateIdle, TaskCalls, AtCall, At
  <2>2. OwnContexts'
    BY <1>2 DEF MutexLockWait, EventWait, TaskCreate, TailScan, MutexLockTail, DispatchPick,
                DevInit, RunqueueInit, AllocateTcb, AllocateIdle, OwnContexts, RestType
  <2>3. /\ frame'[exec].pc # "ds_switch"
        /\ \A s \in Stack : s # exec => frame'[s] = frame[s]
    BY <1>2, CallEffect
  <2> QED BY <2>1, <2>2, <2>3, OwnStackKept
<1>3. CASE DispatchRemove
  <2>1. /\ UNCHANGED <<cur_tcb, context, exec>>
        /\ stopped = "run" /\ frame[exec].pc # "ds_switch"
    BY <1>3 DEF DispatchRemove, At
  <2>2. CASE run_list[frame[exec].pick] # NULL
    BY <1>3, <2>1, <2>2, RemoveEffect, OwnStackKept DEF OwnContexts
  <2>3. CASE run_list[frame[exec].pick] = NULL
    BY <1>3, <2>1, <2>3 DEF DispatchRemove, OwnContexts
  <2> QED BY <2>2, <2>3
<1>4. CASE DispatchCur
  <2>1. /\ UNCHANGED <<context, exec, irq, stopped>> /\ irq \in {"on", "off"}
        /\ stopped = "run" /\ frame[exec].pc # "ds_switch"
        /\ cur_tcb' = frame[exec].pick
    BY <1>4 DEF DispatchCur, At
  <2>2. cur_tcb = exec
    BY <2>1 DEF OwnStack
  <2> QED BY <1>4, <2>1, <2>2, CurEffect DEF OwnContexts, OwnStack
<1>5. CASE DispatchSwitch
  <2>1. /\ frame[exec].pc = "ds_switch" /\ stopped = "run"
        /\ UNCHANGED cur_tcb /\ cur_tcb = frame[exec].pick /\ frame[exec].i = exec
    BY <1>5 DEF DispatchSwitch, At, OwnStack
  <2>2. PICK saved \in [Tcb -> Stack \union {LAUNCH, STALE}], left_at \in [Stack -> Frames] :
           /\ \A t \in Tcb : saved[t] \in {LAUNCH, STALE, t}
           /\ \A s \in Stack : s # exec => left_at[s] = frame[s]
           /\ left_at[exec].pc \in {"locked", "user"}
           /\ SwitchTo(cur_tcb, saved, left_at)
           /\ cur_tcb \in Tcb
    BY <1>0, <1>5, <2>1, DispatchSwitchEffect DEF OwnContexts
  <2>3. \A s \in Stack : left_at[s].pc # "ds_switch"
    BY <2>1, <2>2 DEF OwnStack
  <2>4. CASE stopped' = "crash" /\ UNCHANGED context
    BY <2>4 DEF OwnContexts
  <2>5. CASE /\ exec' = cur_tcb
             /\ context' = IF saved[cur_tcb] = LAUNCH THEN saved ELSE [saved EXCEPT ![cur_tcb] = STALE]
             /\ \A s \in Stack : s # cur_tcb => frame'[s] = left_at[s]
             /\ frame'[cur_tcb].pc = IF saved[cur_tcb] = LAUNCH THEN "user" ELSE left_at[cur_tcb].pc
    <3>1. OwnContexts'
      BY <2>2, <2>5 DEF OwnContexts
    <3>2. OwnStack'
      BY <2>1, <2>2, <2>3, <2>5, Ranges DEF OwnStack
    <3> QED BY <3>1, <3>2
  <2> QED BY <2>2, <2>4, <2>5, SwitchEffect
<1>6. CASE Preempt
  <2>1. stopped = "run" /\ irq = "scan"
    BY <1>6 DEF Preempt, InIsr
  <2>2. cur_tcb = exec /\ frame[exec].pc # "ds_switch"
    BY <2>1 DEF OwnStack
  <2>3. PICK saved \in [Tcb -> Stack \union {LAUNCH, STALE}], left_at \in [Stack -> Frames] :
           /\ \A t \in Tcb : saved[t] \in {LAUNCH, STALE, t}
           /\ \A s \in Stack : left_at[s].pc = frame[s].pc
           /\ SwitchTo(cur_tcb', saved, left_at)
           /\ cur_tcb' \in Tcb
    BY <1>6, <2>2, PreemptEffect DEF OwnContexts
  <2>4. \A s \in Stack : left_at[s].pc # "ds_switch"
    BY <2>1, <2>2, <2>3 DEF OwnStack
  <2> DEFINE to == cur_tcb'
  <2>5. CASE stopped' = "crash" /\ UNCHANGED context
    BY <2>5 DEF OwnContexts
  <2>6. CASE /\ exec' = to
             /\ context' = IF saved[to] = LAUNCH THEN saved ELSE [saved EXCEPT ![to] = STALE]
             /\ \A s \in Stack : s # to => frame'[s] = left_at[s]
             /\ frame'[to].pc = IF saved[to] = LAUNCH THEN "user" ELSE left_at[to].pc
    <3>1. OwnContexts'
      BY <2>3, <2>6 DEF OwnContexts
    <3>2. OwnStack'
      BY <2>3, <2>4, <2>6, Ranges DEF OwnStack
    <3> QED BY <3>1, <3>2
  <2> QED BY <2>3, <2>5, <2>6, SwitchEffect
<1> QED
  BY <1>1, <1>2, <1>3, <1>4, <1>5, <1>6 DEF Next, UserCalls, CallSteps, IsrSteps

\* In user mode the processor is on the stack of the task that the kernel
\* believes to be current (ctx_switch.c:53-57, 94-98), wherever else than just
\* before the switch the interrupt is taken.
THEOREM RunsAsItselfHolds ==
  ASSUME "ds_switch" \notin IrqWindows
  PROVE  Spec => []RunsAsItself
<1>1. Init => RunInv
  BY RunInit
<1>2. TypeInv /\ RunInv /\ [Next]_vars => RunInv'
  BY TypeParts, RunStep
<1>3. RunInv => RunsAsItself
  BY DEF RunInv, OwnStack, RunsAsItself, Quiet
<1> QED BY <1>1, <1>2, <1>3, TypeCorrect, PTL DEF Spec

(***************************************************************************)
(* WaitersHaveHolder.  It needs that whoever takes a mutex is a task: that *)
(* the stack of main never goes through mutex_lock, and that cur_tcb is    *)
(* NULL on that stack only.                                                *)
(***************************************************************************)
MainInv ==
  /\ cur_tcb = NULL => exec = BootMain /\ \A s \in Stack : frame[s].pc # "ds_switch"
  /\ frame[BootMain].pc \notin {"tail_scan", "locked"} /\ frame[BootMain].after # "locked"

\* A switch leaves every stack where it was left, or starts it afresh.
LEMMA SwitchFrames ==
  ASSUME NEW to \in Tcb, NEW saved \in [Tcb -> Stack \union {LAUNCH, STALE}],
         NEW left_at \in [Stack -> Frames], SwitchTo(to, saved, left_at)
  PROVE  \/ UNCHANGED <<frame, exec>>
         \/ \A s \in Stack : \/ frame'[s] = UserFrame
                             \/ /\ frame'[s].pc = left_at[s].pc
                                /\ frame'[s].after = left_at[s].after
<1> SUFFICES ASSUME saved[to] # STALE
             PROVE  \A s \in Stack : \/ frame'[s] = UserFrame
                                     \/ /\ frame'[s].pc = left_at[s].pc
                                        /\ frame'[s].after = left_at[s].after
  BY DEF SwitchTo
<1> DEFINE launch == saved[to] = LAUNCH
           next == IF launch THEN to ELSE saved[to]
           again == [left_at[next] EXCEPT !.in_irq = FALSE]
<1>1. frame' = [left_at EXCEPT ![next] = IF launch THEN UserFrame ELSE again]
  BY DEF SwitchTo
<1>2. next \in Stack
  BY Ranges
<1>3. again.pc = left_at[next].pc /\ again.after = left_at[next].after
  BY <1>2 DEF Frames
<1> HIDE DEF launch, next, again
<1> QED BY <1>1, <1>2, <1>3

LEMMA MainInit == Init => MainInv
  BY Ranges DEF Init, MainInv, UserFrame

LEMMA MainStep ==
  ASSUME FrameInv, RestType, MainInv, [Next]_vars
  PROVE  MainInv'
<1>0. frame[exec] \in Frames /\ exec \in Stack /\ BootMain \in Stack
  BY Ranges DEF FrameInv
<1>1. CASE MutexCreate \/ Refused \/ Halted \/ ScanDevice \/ WakeSleeper \/ CloseDevice
           \/ IrqReturn \/ Tick \/ UNCHANGED vars
           \/ \E m \in Mutex : MutexLockFree(m) \/ MutexUnlock(m)
  <2>1. UNCHANGED <<cur_tcb, exec, frame>>
    BY <1>1 DEF MutexCreate, Refused, Halted, Tick, ScanDevice, WakeSleeper, CloseDevice,
                IrqReturn, MutexLockFree, MutexUnlock, vars
  <2> QED BY <2>1 DEF MainInv
<1>2. CASE \/ \E m \in Mutex : MutexLockWait(m)
           \/ \E d \in Device : EventWait(d)
           \/ \E n \in 0 .. OS_AVAIL_TASKS : TaskCreate(n)
           \/ TailScan \/ MutexLockTail \/ DispatchPick
           \/ DevInit \/ RunqueueInit \/ AllocateTcb \/ AllocateIdle
  <2>1. /\ frame'[exec].pc # "ds_switch"
        /\ \A s \in Stack : s # exec => frame'[s] = frame[s]
    BY <1>2, CallEffect
  <2>2. UNCHANGED <<cur_tcb, exec>>
    BY <1>2 DEF MutexLockWait, EventWait, TaskCreate, TailScan, MutexLockTail, DispatchPick,
                DevInit, RunqueueInit, AllocateTcb, AllocateIdle
  <2>3. ASSUME exec = BootMain
        PROVE  frame'[exec].pc \notin {"tail_scan", "locked"} /\ frame'[exec].after # "locked"
    <3>1. frame[exec].after # "locked" /\ ~TailScan /\ ~MutexLockTail
      BY <2>3 DEF MainInv, TailScan, MutexLockTail, At
    <3>2. ~(\E m \in Mutex : MutexLockWait(m)) /\ ~(\E d \in Device : EventWait(d))
      BY <2>3 DEF MutexLockWait, EventWait, TaskCalls
    <3>3. CASE AllocateIdle
      BY <3>3, <1>0, UserFrameType, DispatchEffect DEF AllocateIdle, LeaveForGood
    <3> QED
      BY <1>2, <3>1, <3>2, <3>3, PickEffect, CreateEffect, DevInitEffect, RunqueueInitEffect,
         AllocateEffect
  <2> QED BY <1>0, <2>1, <2>2, <2>3 DEF MainInv
<1>3. CASE DispatchRemove
  <2>1. UNCHANGED <<cur_tcb, exec>>
    BY <1>3 DEF DispatchRemove
  <2>2. CASE run_list[frame[exec].pick] # NULL
    BY <1>0, <1>3, <2>1, <2>2, RemoveEffect DEF MainInv
  <2>3. CASE run_list[frame[exec].pick] = NULL
    BY <1>3, <2>1, <2>3 DEF DispatchRemove, MainInv
  <2> QED BY <2>2, <2>3
<1>4. CASE DispatchCur
  <2>1. cur_tcb' \in Tcb /\ UNCHANGED exec
    BY <1>0, <1>4 DEF DispatchCur, At, FrameInv, PicksTask
  <2> QED BY <1>0, <1>4, <2>1, CurEffect, Ranges DEF MainInv
<1>5. CASE DispatchSwitch
  <2> DEFINE f == frame[exec]
             saved == IF f.after = "never" THEN context ELSE Saved(f.i)
             back == IF f.after = "locked" THEN [UserFrame EXCEPT !.pc = "locked", !.mx = f.mx]
                                           ELSE UserFrame
             left_at == [frame EXCEPT ![exec] = back]
  <2>1. SwitchTo(f.pick, saved, left_at) /\ f.pick \in Tcb /\ UNCHANGED cur_tcb /\ f.pc = "ds_switch"
    BY <1>0, <1>5 DEF DispatchSwitch, At, FrameInv, PicksTask
  <2>2. saved \in [Tcb -> Stack \union {LAUNCH, STALE}]
    BY <1>0 DEF Saved, RestType
  <2>3. left_at \in [Stack -> Frames]
    <3>1. f.mx \in Mutex \union {0} /\ "locked" \in Points
      BY <1>0 DEF Frames, Points
    <3>2. back \in Frames
      BY <3>1, UserFrameType, FrameTypes
    <3> QED BY <3>2 DEF FrameInv
  <2>4. left_at[BootMain].pc \notin {"tail_scan", "locked"} /\ left_at[BootMain].after # "locked"
    <3>1. CASE exec = BootMain
      BY <3>1, <1>0 DEF MainInv, FrameInv, UserFrame
    <3>2. CASE exec # BootMain
      BY <3>2, <1>0 DEF MainInv, FrameInv
    <3> QED BY <3>1, <3>2
  <2>5. cur_tcb' # NULL
    BY <1>0, <2>1 DEF MainInv
  <2> HIDE DEF saved, left_at
  <2>6. \/ UNCHANGED <<frame, exec>>
        \/ frame'[BootMain] = UserFrame
        \/ frame'[BootMain].pc = left_at[BootMain].pc /\ frame'[BootMain].after = left_at[BootMain].after
    BY <1>0, <2>1, <2>2, <2>3, SwitchFrames
  <2> QED BY <2>4, <2>5, <2>6 DEF MainInv, UserFrame
<1>6. CASE Preempt
  <2> DEFINE left_at == [frame EXCEPT ![exec] = [@ EXCEPT !.in_irq = TRUE]]
  <2>1. cur_tcb' \in Tcb
    BY <1>6, PreemptType
  <2>2. SwitchTo(cur_tcb', Saved(cur_tcb), left_at)
    BY <1>6 DEF Preempt
  <2>3. Saved(cur_tcb) \in [Tcb -> Stack \union {LAUNCH, STALE}]
    BY <1>0 DEF Saved, RestType
  <2>4. /\ left_at \in [Stack -> Frames]
        /\ left_at[BootMain].pc = frame[BootMain].pc /\ left_at[BootMain].after = frame[BootMain].after
    <3> DEFINE g == [frame[exec] EXCEPT !.in_irq = TRUE]
    <3>1. g \in Frames
      BY <1>0, FrameTypes DEF Points
    <3>2. g.pc = frame[exec].pc /\ g.after = frame[exec].after
      BY <1>0 DEF Frames
    <3>3. left_at = [frame EXCEPT ![exec] = g]
      OBVIOUS
    <3> HIDE DEF g, left_at
    <3> QED BY <1>0, <3>1, <3>2, <3>3 DEF FrameInv
  <2> HIDE DEF left_at
  <2>5. \/ UNCHANGED <<frame, exec>>
        \/ frame'[BootMain] = UserFrame
        \/ frame'[BootMain].pc = left_at[BootMain].pc /\ frame'[BootMain].after = left_at[BootMain].after
    BY <1>0, <2>1, <2>2, <2>3, <2>4, SwitchFrames
  <2> QED BY <2>1, <2>4, <2>5, Ranges DEF MainInv, UserFrame
<1> QED
  BY <1>1, <1>2, <1>3, <1>4, <1>5, <1>6 DEF Next, UserCalls, CallSteps, IsrSteps

Guarded ==
  \A m \in Mutex : /\ pSleep_queue[m] # NULL => bLock[m]
                   /\ bLock[m] => pHolding_Tcb[m] # NULL

\* A mutex is taken or opened by its holder alone.
LEMMA GuardedStep ==
  ASSUME FrameInv, RestType, MainInv, Guarded, [Next]_vars
  PROVE  Guarded'
<1>1. /\ pSleep_queue \in [Mutex -> Tcb \union {NULL}] /\ bLock \in [Mutex -> BOOLEAN]
      /\ pHolding_Tcb \in [Mutex -> Tcb \union {NULL}]
  BY DEF RestType
<1>2. ASSUME NEW m \in Mutex, MutexLockFree(m)
      PROVE  Guarded'
  <2>1. /\ pHolding_Tcb' = [pHolding_Tcb EXCEPT ![m] = cur_tcb]
        /\ bLock' = [bLock EXCEPT ![m] = TRUE] /\ UNCHANGED pSleep_queue
    BY <1>2 DEF MutexLockFree, Own
  <2>2. cur_tcb # NULL
    BY <1>2 DEF MutexLockFree, TaskCalls, MainInv
  <2> QED BY <1>1, <2>1, <2>2 DEF Guarded
<1>3. ASSUME NEW m \in Mutex, MutexLockWait(m)
      PROVE  Guarded'
  <2>1. bLock[m] /\ UNCHANGED <<bLock, pHolding_Tcb>>
    BY <1>3 DEF MutexLockWait
  <2>2. UNCHANGED pSleep_queue \/ pSleep_queue' = [pSleep_queue EXCEPT ![m] = cur_tcb]
    BY <1>3 DEF MutexLockWait
  <2> QED BY <1>1, <2>1, <2>2 DEF Guarded
<1>4. ASSUME NEW m \in Mutex, MutexUnlock(m)
      PROVE  Guarded'
  BY <1>1, <1>4 DEF MutexUnlock, HandOver, Guarded
<1>5. CASE MutexLockTail
  <2>1. /\ pHolding_Tcb' = [pHolding_Tcb EXCEPT ![frame[exec].mx] = exec]
        /\ UNCHANGED <<bLock, pSleep_queue>>
    BY <1>5 DEF MutexLockTail, Own
  <2>2. exec # NULL
    BY <1>5 DEF MutexLockTail, At, MainInv, BootMain, NULL
  <2> QED BY <1>1, <2>1, <2>2 DEF Guarded
<1>6. CASE UNCHANGED <<bLock, pHolding_Tcb, pSleep_queue>>
  BY <1>6 DEF Guarded
<1>7. \/ UNCHANGED <<bLock, pHolding_Tcb, pSleep_queue>> \/ MutexLockTail
      \/ \E m \in Mutex : MutexLockFree(m) \/ MutexLockWait(m) \/ MutexUnlock(m)
  BY DEF Next, UserCalls, CallSteps, IsrSteps, MutexCreate, EventWait, TaskCreate,
         Refused, DispatchPick, DispatchRemove, DispatchCur, DispatchSwitch, TailScan,
         DevInit, RunqueueInit, AllocateTcb, AllocateIdle, ScanDevice, WakeSleeper,
         CloseDevice, Preempt, IrqReturn, Tick, Halted, vars, mutexes
<1> QED BY <1>2, <1>3, <1>4, <1>5, <1>6, <1>7

\* Tasks wait only for a mutex that somebody holds, even when a task that holds
\* one replaces the task set: task_create leaves the mutexes alone, and
\* mutex_unlock opens a mutex only when nobody waits for it (mutex.c:116-132).
THEOREM WaitersHaveHolderHolds == Spec => []WaitersHaveHolder
<1>1. Init => MainInv /\ Guarded
  BY MainInit DEF Init, MutexInit, Guarded
<1>2. TypeInv /\ MainInv /\ Guarded /\ [Next]_vars => MainInv' /\ Guarded'
  BY TypeParts, MainStep, GuardedStep
<1>3. Guarded => WaitersHaveHolder
  BY DEF Guarded, WaitersHaveHolder
<1> QED BY <1>1, <1>2, <1>3, TypeCorrect, PTL DEF Spec
=============================================================================
