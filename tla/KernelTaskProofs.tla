-------------------------- MODULE KernelTaskProofs --------------------------
(***************************************************************************)
(* What becomes of the tasks, for every number of tasks, devices and       *)
(* mutexes: the kernel never stops, the best task that is ready runs,      *)
(* every task is in one place, each step is one that Scheduler allows, and *)
(* a mutex is handed over to a task that waits for it.                     *)
(***************************************************************************)
EXTENDS KernelProofs, KernelSchedules

(***************************************************************************)
(* Queues linked through the tcbs.                                         *)
(***************************************************************************)
LinksTo == [Tcb -> Tcb \union {NULL}]

\* Chain, in a queue other than the current one too.
ChainIn(q, head) ==
  IF head = NULL THEN {}
  ELSE {t \in Tcb : \A S \in SUBSET Tcb :
                      head \in S /\ (\A u \in S : q[u] # NULL => q[u] \in S) => t \in S}

LEMMA ChainIsChainIn ==
  ASSUME NEW h
  PROVE  Chain(h) = ChainIn(sleep_queue, h) /\ Chain(h)' = ChainIn(sleep_queue', h)
  BY DEF Chain, ChainIn, Linked

\* A chain holds its head and whatever it leads to ...
LEMMA ChainClosed ==
  ASSUME NEW q \in LinksTo, NEW h \in Tcb \union {NULL}
  PROVE  /\ ChainIn(q, h) \subseteq Tcb
         /\ h # NULL => h \in ChainIn(q, h)
         /\ \A t \in ChainIn(q, h) : q[t] # NULL => q[t] \in ChainIn(q, h)
  BY DEF ChainIn, LinksTo

\* ... and nothing else.
LEMMA ChainLeast ==
  ASSUME NEW q \in LinksTo, NEW h \in Tcb \union {NULL}, NEW S \in SUBSET Tcb,
         h # NULL => h \in S, \A u \in S : q[u] # NULL => q[u] \in S
  PROVE  ChainIn(q, h) \subseteq S
  BY DEF ChainIn

\* The chain of a head is the head and the chain of what it is linked to.
LEMMA ChainStep ==
  ASSUME NEW q \in LinksTo, NEW h \in Tcb
  PROVE  ChainIn(q, h) = {h} \union ChainIn(q, q[h])
<1>1. h # NULL /\ q[h] \in Tcb \union {NULL}
  BY Ranges DEF LinksTo
<1>2. ChainIn(q, q[h]) \subseteq ChainIn(q, h)
  BY <1>1, ChainClosed, ChainLeast
<1>3. ChainIn(q, h) \subseteq {h} \union ChainIn(q, q[h])
  <2> DEFINE S == {h} \union ChainIn(q, q[h])
  <2>1. S \in SUBSET Tcb /\ h \in S
    BY <1>1, ChainClosed
  <2>2. \A u \in S : q[u] # NULL => q[u] \in S
    BY <1>1, ChainClosed
  <2> HIDE DEF S
  <2>3. ChainIn(q, h) \subseteq S
    BY <2>1, <2>2, ChainLeast
  <2> QED BY <2>3 DEF S
<1> QED BY <1>1, <1>2, <1>3, ChainClosed

\* A link changed outside a chain does not change the chain.
LEMMA ChainFrame ==
  ASSUME NEW q \in LinksTo, NEW r \in LinksTo, NEW h \in Tcb \union {NULL},
         \A u \in ChainIn(q, h) : r[u] = q[u]
  PROVE  ChainIn(r, h) = ChainIn(q, h)
<1>1. ChainIn(r, h) \subseteq ChainIn(q, h)
  BY ChainClosed, ChainLeast
<1>2. ChainIn(q, h) \subseteq ChainIn(r, h)
  <2>1. \A u \in ChainIn(r, h) : q[u] = r[u]
    BY <1>1
  <2> QED BY <2>1, ChainClosed, ChainLeast
<1> QED BY <1>1, <1>2

\* Links taken away add nothing to a chain.
LEMMA ChainCut ==
  ASSUME NEW q \in LinksTo, NEW r \in LinksTo, NEW h \in Tcb \union {NULL},
         \A u \in Tcb : r[u] \in {q[u], NULL}
  PROVE  ChainIn(r, h) \subseteq ChainIn(q, h)
<1>1. /\ ChainIn(q, h) \in SUBSET Tcb
      /\ h # NULL => h \in ChainIn(q, h)
      /\ \A u \in ChainIn(q, h) : q[u] # NULL => q[u] \in ChainIn(q, h)
  BY ChainClosed
<1>2. \A u \in ChainIn(q, h) : r[u] # NULL => r[u] \in ChainIn(q, h)
  BY <1>1
<1> QED BY <1>1, <1>2, ChainLeast

(***************************************************************************)
(* The invariant.  As long as the interrupt is taken only where it does no *)
(* harm, and no holder of a mutex replaces the task set:                   *)
(*                                                                         *)
(*  - the kernel runs, and only user code, runqueue_init and the loop of   *)
(*    allocate_tasks are ever interrupted (StacksInv);                     *)
(*  - while task_create works there is nothing that an interrupt could     *)
(*    wake, and the run queue holds the tasks made so far (BuildInv);      *)
(*  - otherwise each task of the set is running, in the slot of its        *)
(*    priority or on the queue of one device, and these queues have no     *)
(*    loops (QueueInv);                                                    *)
(*  - every task but the one on the processor has a context to load        *)
(*    (ContextInv) and, unless it holds a mutex, its own priority          *)
(*    (PrioInv);                                                           *)
(*  - nobody is better than the one chosen (BestInv).                      *)
(***************************************************************************)
Harmless == {"tail_scan", "locked", "rq_init", "alloc"}

Disciplined == ~CreateWhileHolding /\ IrqWindows \subseteq Harmless

Dispatching == frame[exec].pc \in {"ds_pick", "ds_remove", "ds_cur", "ds_switch"}

StacksInv ==
  /\ stopped = "run"
  /\ irq # "off"
  /\ irq = "on" => isr = NoIsr
  /\ irq # "on" => frame[exec].pc \in {"user", "rq_init", "alloc"}
  /\ \A s \in Stack : s # exec => frame[s].pc = "user"
  /\ exec # BootMain \/ Dispatching => IDLE_PRIO \in tasks

\* The tasks that allocate_tasks has made.
Made(t) == frame[exec].i < t /\ t <= frame[exec].n

BuildInv ==
  /\ frame[exec].pc = "dev_init" =>
       \A d \in Device : d < frame[exec].i => dev_queue[d] = NULL
  /\ frame[exec].pc \in {"rq_init", "alloc"} =>
       isr.iter = NULL /\ ~isr.need_ctx /\ \A d \in Device : dev_queue[d] = NULL
  /\ frame[exec].pc = "alloc" =>
       /\ frame[exec].i <= frame[exec].n
       /\ \A p \in Prio : run_list[p] = IF Made(p) THEN p ELSE NULL
       /\ \A t \in Tcb : Made(t) => cur_prio[t] = t /\ context[t] = LAUNCH

\* The head of what is left of the queue of a device.
Head(d) == IF irq = "wake" /\ isr.dev = d THEN isr.iter ELSE dev_queue[d]

QueueInv ==
  /\ Running \in tasks \union {NULL}
  /\ \A p \in Prio : run_list[p] # NULL => run_list[p] = p /\ p \in tasks /\ p # Running
  /\ \A d \in Device : \A t \in Sleepers(d) :
       /\ t \in tasks \ {IDLE_PRIO, Running}
       /\ run_list[t] = NULL
       /\ t \notin Chain(sleep_queue[t])
       /\ \A e \in Device : t \in Sleepers(e) => e = d
  /\ \A t \in tasks : t = Running \/ run_list[t] = t \/ \E d \in Device : t \in Sleepers(d)

ContextInv ==
  /\ \A t \in tasks : context[t] = STALE => t = exec
  /\ Dispatching /\ frame[exec].after = "never" => \A t \in tasks : context[t] = LAUNCH

PrioInv == \A t \in tasks : holds_lock[t] = 0 => cur_prio[t] = t

BestInv ==
  /\ frame[exec].pc = "user" /\ exec # BootMain /\ cur_mutex_num = 0 /\ ~isr.need_ctx =>
       \A p \in Prio : run_list[p] # NULL => cur_prio[cur_tcb] <= p
  /\ frame[exec].pc = "ds_remove" => frame[exec].pick = HighestPrio(run_list)
  /\ frame[exec].pc \in {"ds_cur", "ds_switch"} =>
       \A p \in Prio : run_list[p] # NULL => frame[exec].pick <= p

TasksInv == ~Replacing => QueueInv /\ ContextInv /\ PrioInv

SchedInv == StacksInv /\ BuildInv /\ TasksInv /\ BestInv

\* What the other proofs have established.
KernelInv == FrameInv /\ RestType /\ LockInv /\ RunInv

(***************************************************************************)
(* What the parts of the invariant depend on.                              *)
(***************************************************************************)
LEMMA RunningIs ==
  /\ frame[exec].pc \in {"ds_pick", "ds_remove"} => Running = NULL
  /\ frame[exec].pc = "ds_cur" => Running = frame[exec].pick
  /\ frame[exec].pc \notin {"ds_pick", "ds_remove", "ds_cur"} => Running = cur_tcb
  /\ frame'[exec'].pc \in {"ds_pick", "ds_remove"} => Running' = NULL
  /\ frame'[exec'].pc = "ds_cur" => Running' = frame'[exec'].pick
  /\ frame'[exec'].pc \notin {"ds_pick", "ds_remove", "ds_cur"} => Running' = cur_tcb'
  BY DEF Running

LEMMA SleepersAre ==
  ASSUME NEW d \in Device
  PROVE  /\ Sleepers(d) = ChainIn(sleep_queue, Head(d))
         /\ Sleepers(d)' = ChainIn(sleep_queue', Head(d)')
  BY ChainIsChainIn DEF Sleepers, Head, Chain, ChainIn, Linked

LEMMA HeadType ==
  ASSUME RestType, NEW d \in Device
  PROVE  sleep_queue \in LinksTo /\ Head(d) \in Tcb \union {NULL}
  BY DEF RestType, Head, LinksTo

\* The queues do not change when neither the links nor the heads do.
LEMMA QueueKept ==
  ASSUME QueueInv, UNCHANGED <<run_list, tasks, sleep_queue>>, Running' = Running,
         \A d \in Device : Head(d)' = Head(d)
  PROVE  QueueInv'
<1>1. \A d \in Device : Sleepers(d)' = Sleepers(d)
  BY SleepersAre
<1>2. \A t \in Tcb : Chain(sleep_queue[t])' = Chain(sleep_queue[t])
  BY DEF Chain, Linked
<1>3. \A d \in Device : Sleepers(d) \subseteq Tcb
  BY DEF Sleepers, Chain
<1> QED BY <1>1, <1>2, <1>3 DEF QueueInv

\* The kernel is in one of these phases, for which interrupts are enabled
\* except in an interrupt.
LEMMA Phases ==
  ASSUME KernelInv, SchedInv
  PROVE  /\ exec \in Stack /\ frame[exec] \in Frames
         /\ frame[exec].pc # "ds_switch" => cur_tcb = exec
         /\ frame[exec].pc \notin {"tail_scan", "locked"}
         /\ frame[exec].after \in {"user", "never"}
         /\ frame[exec].pc \notin {"user", "rq_init", "alloc"} => irq = "on"
         /\ irq = "on" => isr.iter = NULL /\ ~isr.need_ctx
         /\ irq \in {"on", "scan", "wake"}
<1>1. exec \in Stack /\ frame[exec] \in Frames
  BY DEF KernelInv, FrameInv
<1>2. /\ frame[exec].pc \notin {"tail_scan", "locked"}
      /\ frame[exec].after \in {"user", "never"}
  BY <1>1 DEF KernelInv, LockInv, NobodyInLock, Frames
<1>3. /\ frame[exec].pc # "ds_switch" => cur_tcb = exec
      /\ frame[exec].pc \notin {"user", "rq_init", "alloc"} => irq = "on"
      /\ irq = "on" => isr.iter = NULL /\ ~isr.need_ctx
      /\ irq \in {"on", "scan", "wake"}
  BY DEF KernelInv, RunInv, OwnStack, SchedInv, StacksInv, RestType, NoIsr
<1> QED BY <1>1, <1>2, <1>3

(***************************************************************************)
(* The calls that neither wait nor create.                                 *)
(***************************************************************************)
LEMMA MutexCallStep ==
  ASSUME KernelInv, SchedInv, LockInv',
         MutexCreate \/ \E m \in Mutex : MutexLockFree(m) \/ MutexUnlock(m)
  PROVE  SchedInv'
<1>1. /\ UNCHANGED <<cur_tcb, run_list, sleep_queue, context, dev_queue, exec, frame, irq, isr,
                     stopped, tasks>>
      /\ frame[exec].pc = "user"
  <2>1. ASSUME NEW m \in Mutex, MutexUnlock(m)
        PROVE  UNCHANGED <<run_list, sleep_queue>>
    <3>1. pSleep_queue[m] = NULL
      BY DEF KernelInv, LockInv, NobodyWaits
    <3> QED BY <2>1, <3>1 DEF MutexUnlock
  <2> QED
    BY <2>1 DEF MutexCreate, MutexLockFree, MutexUnlock, devices, tcbs, history, TaskCalls, AtCall, At
<1>2. StacksInv' /\ BuildInv'
  BY <1>1 DEF SchedInv, StacksInv, BuildInv, Dispatching, NoIsr
<1>3. QueueInv' /\ ContextInv'
  <2>1. QueueInv /\ ContextInv
    BY <1>1 DEF SchedInv, TasksInv, Replacing
  <2>2. Running' = Running /\ \A d \in Device : Head(d)' = Head(d)
    BY <1>1 DEF Running, Head
  <2> QED BY <1>1, <2>1, <2>2, QueueKept DEF ContextInv, Dispatching
<1>4. PrioInv'
  <2>1. PrioInv
    BY <1>1 DEF SchedInv, TasksInv, Replacing
  <2> SUFFICES ASSUME NEW t \in tasks, holds_lock'[t] = 0
               PROVE  cur_prio'[t] = t
    BY <1>1 DEF PrioInv
  <2>2. t \in Tcb /\ holds_lock \in [Tcb -> Int] /\ cur_prio \in [Tcb -> Prio]
    BY DEF KernelInv, RestType
  <2>3. ASSUME NEW m \in Mutex, MutexLockFree(m)
        PROVE  cur_prio'[t] = t
    <3>1. /\ pHolding_Tcb' = [pHolding_Tcb EXCEPT ![m] = cur_tcb]
          /\ holds_lock' = [holds_lock EXCEPT ![cur_tcb] = @ + 1]
          /\ cur_prio' = [cur_prio EXCEPT ![cur_tcb] = HIGHEST_PRIO]
      BY <2>3 DEF MutexLockFree, Own
    <3>2. t # cur_tcb
      <4> SUFFICES ASSUME t = cur_tcb
                   PROVE  FALSE
        OBVIOUS
      <4>1. m \in Held(t)' /\ IsFiniteSet(Held(t)')
        BY <3>1, MutexFinite DEF Held, KernelInv, RestType
      <4>2. holds_lock'[t] = Cardinality(Held(t)')
        BY <2>2 DEF LockInv, CountsHeld
      <4> QED BY <4>1, <4>2, FS_EmptySet
    <3> QED BY <2>1, <2>2, <3>1, <3>2 DEF PrioInv
  <2>4. ASSUME NEW m \in Mutex, MutexUnlock(m)
        PROVE  cur_prio'[t] = t
    <3>1. /\ holds_lock' = [holds_lock EXCEPT ![cur_tcb] = holds_lock[cur_tcb] - 1]
          /\ cur_prio' = [cur_prio EXCEPT ![cur_tcb] = PrioAfter(cur_tcb, holds_lock[cur_tcb] - 1)]
      BY <2>4 DEF MutexUnlock
    <3>2. CASE t = cur_tcb
      BY <2>2, <3>1, <3>2 DEF PrioAfter
    <3>3. CASE t # cur_tcb
      BY <2>1, <2>2, <3>1, <3>3 DEF PrioInv
    <3> QED BY <3>2, <3>3
  <2>5. CASE MutexCreate
    BY <2>1, <2>5 DEF MutexCreate, PrioInv, tcbs
  <2> QED BY <2>3, <2>4, <2>5
<1>5. BestInv'
  <2>1. CASE cur_mutex_num' = 0
    <3>1. cur_mutex_num \in Nat /\ Mutex \subseteq Nat
      BY KernelAssumption, Ranges DEF KernelInv, RestType
    <3>2. ~MutexCreate
      BY <2>1, <3>1 DEF MutexCreate
    <3>3. ASSUME NEW m \in Mutex
          PROVE  ~MutexLockFree(m) /\ ~MutexUnlock(m)
      BY <2>1, <3>1 DEF MutexLockFree, MutexUnlock, CanLock, Created
    <3> QED BY <3>2, <3>3
  <2>2. CASE cur_mutex_num' # 0
    BY <1>1, <2>2 DEF BestInv
  <2> QED BY <2>1, <2>2
<1> QED BY <1>2, <1>3, <1>4, <1>5 DEF SchedInv, TasksInv

(***************************************************************************)
(* The timer interrupt, up to the preemption at its end.                   *)
(***************************************************************************)

\* Taking the interrupt, looking at a device, closing its queue and returning
\* move no task.
LEMMA InterruptStep ==
  ASSUME KernelInv, SchedInv, Disciplined, Tick \/ ScanDevice \/ CloseDevice \/ IrqReturn
  PROVE  SchedInv' /\ \A d \in Device : Head(d)' = Head(d)
<1>1. /\ UNCHANGED <<cur_tcb, run_list, cur_prio, holds_lock, sleep_queue, context,
                     cur_mutex_num, exec, frame, stopped, tasks>>
      /\ irq \in {"on", "scan", "wake"} /\ irq' \in {"scan", "wake", "on"}
  BY DEF Tick, ScanDevice, CloseDevice, IrqReturn, InIsr, tcbs, mutexes, history
<1>2. frame[exec].pc \in {"user", "rq_init", "alloc"}
  <2>1. CASE Tick
    <3>1. frame[exec].pc \in {"user"} \union IrqWindows
      BY <2>1 DEF Tick, At
    <3> QED BY <3>1, Phases DEF Disciplined, Harmless
  <2>2. CASE irq # "on"
    BY <2>2 DEF SchedInv, StacksInv
  <2> QED BY <2>1, <2>2 DEF ScanDevice, CloseDevice, IrqReturn, InIsr
<1>3. dev_queue \in [Device -> Tcb \union {NULL}]
      /\ isr \in [dev : 0 .. NUM_DEVICES, iter : Tcb \union {NULL}, need_ctx : BOOLEAN]
      /\ (irq = "wake" => isr.dev \in Device)
  BY DEF KernelInv, RestType, IsrSound
<1>4. irq' = "on" => isr' = NoIsr
  BY DEF Tick, ScanDevice, CloseDevice, IrqReturn, InIsr
<1>5. ASSUME NEW d \in Device
      PROVE  Head(d)' = Head(d)
  <2>1. CASE Tick
    BY <2>1 DEF Tick, Head
  <2>2. CASE ScanDevice
    BY <1>3, <2>2 DEF ScanDevice, InIsr, Head, devices
  <2>3. CASE CloseDevice
    BY <1>3, <2>3 DEF CloseDevice, InIsr, Head
  <2>4. CASE IrqReturn
    BY <2>4 DEF IrqReturn, InIsr, Head, devices
  <2> QED BY <2>1, <2>2, <2>3, <2>4
<1>6. \A d \in Device : dev_queue[d] = NULL => dev_queue'[d] = NULL
  BY <1>3 DEF Tick, ScanDevice, CloseDevice, IrqReturn, devices
<1>7. StacksInv'
  BY <1>1, <1>2, <1>4 DEF SchedInv, StacksInv, Dispatching
<1>8. BuildInv'
  <2>1. ASSUME frame[exec].pc \in {"rq_init", "alloc"}
        PROVE  isr'.iter = NULL /\ ~isr'.need_ctx
    <3>1. isr.iter = NULL /\ ~isr.need_ctx /\ \A d \in Device : dev_queue[d] = NULL
      BY <2>1 DEF SchedInv, BuildInv
    <3>2. CASE ScanDevice
      <4>1. isr.dev \in Device
        BY <1>3, <3>2, KernelAssumption DEF ScanDevice, Device
      <4> QED BY <1>3, <3>1, <3>2, <4>1 DEF ScanDevice
    <3>3. CASE ~ScanDevice
      BY <1>3, <3>1, <3>3 DEF Tick, CloseDevice, IrqReturn, NoIsr
    <3> QED BY <3>2, <3>3
  <2> QED BY <1>1, <1>2, <1>6, <2>1 DEF SchedInv, BuildInv, Made
<1>9. TasksInv'
  <2>1. ASSUME ~Replacing
        PROVE  QueueInv' /\ ContextInv' /\ PrioInv'
    <3>1. Running' = Running
      BY <1>1 DEF Running
    <3>2. QueueInv /\ ContextInv /\ PrioInv
      BY <2>1 DEF SchedInv, TasksInv
    <3> QED BY <1>1, <1>5, <3>1, <3>2, QueueKept DEF ContextInv, PrioInv, Dispatching
  <2> QED BY <1>1, <2>1 DEF TasksInv, Replacing
<1>10. BestInv'
  <2> SUFFICES ASSUME frame[exec].pc = "user", exec # BootMain, cur_mutex_num = 0, ~isr'.need_ctx,
                      NEW p \in Prio, run_list[p] # NULL
               PROVE  cur_prio[cur_tcb] <= p
    BY <1>1, <1>2 DEF BestInv
  <2>1. CASE ~isr.need_ctx
    BY <2>1 DEF SchedInv, BestInv
  <2>2. CASE isr.need_ctx
    <3>1. IrqReturn
      BY <1>3, <2>2, Phases DEF Tick, ScanDevice, CloseDevice
    <3>2. run_list \in Queues /\ cur_prio \in [Tcb -> Prio] /\ Prio \subseteq Nat
      BY Ranges DEF KernelInv, RestType
    <3>3. cur_tcb \in Tcb
      BY <2>2 DEF KernelInv, RestType, IsrSound
    <3>4. HighestPrio(run_list) \in Prio /\ HighestPrio(run_list) <= p
      BY <3>2, HighestPrioOfTask
    <3>5. ~(cur_prio[cur_tcb] > HighestPrio(run_list))
      BY <2>2, <3>1 DEF IrqReturn, Preempts
    <3>6. cur_prio[cur_tcb] \in Nat /\ HighestPrio(run_list) \in Nat /\ p \in Nat
      BY <3>2, <3>3, <3>4
    <3> QED BY <3>4, <3>5, <3>6
  <2> QED BY <2>1, <2>2
<1> QED BY <1>5, <1>7, <1>8, <1>9, <1>10 DEF SchedInv

\* Only the current task can hold a mutex.
LEMMA HoldsNothing ==
  ASSUME KernelInv, NEW t \in Tcb, t # cur_tcb \/ NoneHeld
  PROVE  holds_lock[t] = 0
<1>1. Held(t) = {}
  BY Ranges DEF KernelInv, LockInv, HolderRuns, NoneHeld, Held
<1>2. holds_lock[t] = Cardinality(Held(t))
  BY DEF KernelInv, LockInv, CountsHeld
<1> QED BY <1>1, <1>2, FS_EmptySet

(***************************************************************************)
(* A device wakes a task.                                                  *)
(***************************************************************************)

\* The task goes from the head of the queue to the slot of its priority.
LEMMA WakeEffect ==
  ASSUME KernelInv, SchedInv, WakeSleeper
  PROVE  /\ frame[exec].pc = "user" /\ QueueInv /\ ContextInv /\ PrioInv
         /\ \A t \in tasks : Chain(sleep_queue[t])' \subseteq Chain(sleep_queue[t])
         /\ \E d \in Device : \E w \in Sleepers(d) :
              /\ Sleepers(d)' = Sleepers(d) \ {w}
              /\ \A e \in Device : e # d => Sleepers(e)' = Sleepers(e)
              /\ w \in Tcb /\ run_list' = [run_list EXCEPT ![w] = w]
<1>0. PICK w \in Tcb, d \in Device : w = isr.iter /\ d = isr.dev
  BY DEF WakeSleeper, InIsr, KernelInv, RestType, IsrSound
<1>1. /\ w # NULL /\ irq = "wake" /\ UNCHANGED <<irq, dev_queue>>
      /\ run_list' = Put(run_list, w, cur_prio[w])
      /\ sleep_queue' = [sleep_queue EXCEPT ![w] = NULL]
      /\ isr' = [isr EXCEPT !.iter = sleep_queue[w], !.need_ctx = TRUE]
  BY <1>0 DEF WakeSleeper, InIsr, devices
<1>2. /\ sleep_queue \in LinksTo
      /\ isr \in [dev : 0 .. NUM_DEVICES, iter : Tcb \union {NULL}, need_ctx : BOOLEAN]
  BY DEF KernelInv, RestType, LinksTo
<1>3. frame[exec].pc = "user"
  BY <1>0, <1>1 DEF SchedInv, StacksInv, BuildInv
<1>4. QueueInv /\ ContextInv /\ PrioInv
  BY <1>3 DEF SchedInv, TasksInv, Replacing
<1>5. Head(d) = w /\ Head(d)' = sleep_queue[w]
      /\ \A e \in Device : e # d => Head(e)' = Head(e)
  BY <1>0, <1>1, <1>2 DEF Head
<1>6. Sleepers(d) = {w} \union ChainIn(sleep_queue, sleep_queue[w])
  BY <1>2, <1>5, SleepersAre, ChainStep
<1>7. w \notin ChainIn(sleep_queue, sleep_queue[w])
      /\ \A e \in Device : e # d => w \notin Sleepers(e)
  BY <1>2, <1>4, <1>6, ChainIsChainIn DEF QueueInv
<1>8. sleep_queue' \in LinksTo /\ \A t \in tasks : sleep_queue[t] \in Tcb \union {NULL}
  BY <1>1, <1>2 DEF LinksTo, KernelInv, RestType
<1>9. ASSUME NEW h \in Tcb \union {NULL}, w \notin ChainIn(sleep_queue, h)
      PROVE  ChainIn(sleep_queue', h) = ChainIn(sleep_queue, h)
  <2>1. \A u \in ChainIn(sleep_queue, h) : sleep_queue'[u] = sleep_queue[u]
    BY <1>1, <1>2, <1>9, ChainClosed DEF LinksTo
  <2> QED BY <1>2, <1>8, <2>1, ChainFrame
<1>10. Sleepers(d)' = Sleepers(d) \ {w}
  <2>1. Sleepers(d)' = ChainIn(sleep_queue', sleep_queue[w])
    BY <1>2, <1>5, SleepersAre
  <2>2. sleep_queue[w] \in Tcb \union {NULL}
    BY <1>2 DEF LinksTo
  <2> QED BY <1>6, <1>7, <1>9, <2>1, <2>2
<1>11. \A e \in Device : e # d => Sleepers(e)' = Sleepers(e)
  BY <1>5, <1>7, <1>9, SleepersAre, HeadType DEF KernelInv
<1>12. run_list' = [run_list EXCEPT ![w] = w]
  <2>1. w \in tasks /\ w # Running /\ Running = cur_tcb
    BY <1>2, <1>3, <1>4, <1>6, RunningIs DEF QueueInv
  <2>2. cur_prio[w] = w
    BY <1>2, <1>4, <2>1, HoldsNothing DEF PrioInv
  <2> QED BY <1>1, <2>2 DEF Put
<1>13. ASSUME NEW t \in tasks
       PROVE  Chain(sleep_queue[t])' \subseteq Chain(sleep_queue[t])
  <2>1. \A u \in Tcb : sleep_queue'[u] \in {sleep_queue[u], NULL}
    BY <1>1, <1>2 DEF LinksTo
  <2>2. sleep_queue[t] \in Tcb \union {NULL} /\ sleep_queue'[t] \in {sleep_queue[t], NULL}
        /\ sleep_queue'[t] \in Tcb \union {NULL}
    BY <1>2, <1>8, <2>1 DEF KernelInv, RestType
  <2>3. Chain(sleep_queue[t])' = ChainIn(sleep_queue', sleep_queue'[t])
    BY DEF Chain, ChainIn, Linked
  <2>4. CASE sleep_queue'[t] = NULL
    BY <2>3, <2>4 DEF ChainIn
  <2>5. CASE sleep_queue'[t] = sleep_queue[t]
    <3>1. ChainIn(sleep_queue', sleep_queue[t]) \subseteq ChainIn(sleep_queue, sleep_queue[t])
      BY <1>2, <1>8, <2>1, <2>2, ChainCut
    <3> QED BY <2>3, <2>5, <3>1, ChainIsChainIn
  <2> QED BY <2>2, <2>4, <2>5
<1> QED BY <1>2, <1>3, <1>4, <1>6, <1>10, <1>11, <1>12, <1>13

LEMMA WakeStep ==
  ASSUME KernelInv, SchedInv, WakeSleeper
  PROVE  SchedInv'
<1>1. /\ UNCHANGED <<cur_tcb, cur_prio, holds_lock, context, dev_queue, exec, frame, irq,
                     stopped, tasks, cur_mutex_num>>
      /\ irq = "wake" /\ frame[exec].pc = "user" /\ isr'.need_ctx
  BY WakeEffect DEF WakeSleeper, InIsr, devices, history, mutexes, KernelInv, RestType
<1>2. StacksInv' /\ BuildInv' /\ BestInv'
  BY <1>1 DEF SchedInv, StacksInv, BuildInv, BestInv, Dispatching
<1>3. ContextInv' /\ PrioInv'
  BY <1>1, WakeEffect DEF ContextInv, PrioInv, Dispatching
<1>4. QueueInv'
  <2>1. QueueInv /\ Running' = Running /\ run_list \in Queues /\ tasks \subseteq Tcb
    BY <1>1, WakeEffect DEF Running, KernelInv, RestType
  <2>2. PICK w \in Tcb :
          /\ \E d \in Device : w \in Sleepers(d)
          /\ \A d \in Device : Sleepers(d)' = Sleepers(d) \ {w}
          /\ run_list' = [run_list EXCEPT ![w] = w]
    <3>1. PICK d \in Device, w \in Tcb :
            /\ w \in Sleepers(d) /\ Sleepers(d)' = Sleepers(d) \ {w}
            /\ \A e \in Device : e # d => Sleepers(e)' = Sleepers(e)
            /\ run_list' = [run_list EXCEPT ![w] = w]
      BY WakeEffect
    <3>2. \A e \in Device : e # d => Sleepers(e)' = Sleepers(e) \ {w}
      BY <2>1, <3>1 DEF QueueInv
    <3> QED BY <3>1, <3>2
  <2>3. w \in tasks /\ w # Running /\ w \in Prio /\ w # NULL
    BY <2>1, <2>2, Ranges DEF QueueInv
  <2>4. /\ run_list'[w] = w
        /\ \A p \in Prio : p # w => run_list'[p] = run_list[p]
    BY <2>1, <2>2, <2>3 DEF Queues
  <2>5. ASSUME NEW d \in Device, NEW t \in Sleepers(d)'
        PROVE  /\ t \in tasks \ {IDLE_PRIO, Running}
               /\ run_list'[t] = NULL
               /\ t \notin Chain(sleep_queue[t])'
               /\ \A e \in Device : t \in Sleepers(e)' => e = d
    <3>1. t \in Sleepers(d) /\ t # w
      BY <2>2, <2>5
    <3>2. /\ t \in tasks \ {IDLE_PRIO, Running} /\ run_list[t] = NULL
          /\ t \notin Chain(sleep_queue[t])
          /\ \A e \in Device : t \in Sleepers(e) => e = d
      BY <2>1, <3>1 DEF QueueInv
    <3>3. run_list'[t] = NULL
      BY <2>1, <2>4, <3>1, <3>2, Ranges
    <3>4. t \notin Chain(sleep_queue[t])'
      BY <3>2, WakeEffect
    <3>5. \A e \in Device : t \in Sleepers(e)' => e = d
      BY <2>2, <3>2
    <3> QED BY <2>1, <3>2, <3>3, <3>4, <3>5
  <2>6. ASSUME NEW t \in tasks
        PROVE  t = Running \/ run_list'[t] = t \/ \E d \in Device : t \in Sleepers(d)'
    BY <2>1, <2>2, <2>4, Ranges DEF QueueInv
  <2>7. \A p \in Prio : run_list'[p] # NULL => run_list'[p] = p /\ p \in tasks /\ p # Running
    BY <2>1, <2>3, <2>4 DEF QueueInv
  <2> QED BY <1>1, <2>1, <2>5, <2>6, <2>7 DEF QueueInv
<1> QED BY <1>2, <1>3, <1>4 DEF SchedInv, TasksInv

(***************************************************************************)
(* A task waits for a device.                                              *)
(***************************************************************************)

\* The task that was running is the new head of the queue.
LEMMA BlockEffect ==
  ASSUME KernelInv, SchedInv, NEW d \in Device, EventWait(d)
  PROVE  /\ QueueInv /\ ContextInv /\ PrioInv /\ frame'[exec].pc = "ds_pick"
         /\ frame'[exec].after = "user" /\ \A s \in Stack : s # exec => frame'[s] = frame[s]
         /\ Running = cur_tcb /\ cur_tcb \in tasks \ {IDLE_PRIO} /\ irq = "on"
         /\ Sleepers(d)' = Sleepers(d) \union {cur_tcb}
         /\ \A e \in Device : e # d => Sleepers(e)' = Sleepers(e)
         /\ \A t \in tasks : t \notin Chain(sleep_queue[t])
              => ((\E e \in Device : t \in Sleepers(e)) => t \notin Chain(sleep_queue[t])')
         /\ cur_tcb \notin Chain(sleep_queue[cur_tcb])'
<1>1. /\ frame[exec].pc = "user" /\ exec \notin {IDLE_PRIO, BootMain}
      /\ sleep_queue' = [sleep_queue EXCEPT ![cur_tcb] = dev_queue[d]]
      /\ dev_queue' = [dev_queue EXCEPT ![d] = cur_tcb]
      /\ Dispatch(UserFrame, "user") /\ irq \in {"on", "off"} /\ UNCHANGED irq
  BY DEF EventWait, TaskCalls, AtCall, At
<1>2. irq = "on" /\ cur_tcb = exec /\ FrameInv /\ exec \in Stack
  BY <1>1, Phases DEF KernelInv, SchedInv, StacksInv
<1>3. QueueInv /\ ContextInv /\ PrioInv
  BY <1>1 DEF SchedInv, TasksInv, Replacing
<1>4. PICK c \in Tcb : c = cur_tcb
  BY <1>1, <1>2 DEF Stack
<1>5. Running = c /\ c \in tasks \ {IDLE_PRIO}
  BY <1>1, <1>2, <1>3, <1>4, RunningIs, Ranges DEF QueueInv
<1>6. /\ sleep_queue \in LinksTo /\ sleep_queue' \in LinksTo
      /\ dev_queue \in [Device -> Tcb \union {NULL}]
  BY <1>1, <1>4 DEF KernelInv, RestType, LinksTo
<1>7. \A e \in Device : Head(e) = dev_queue[e] /\ c \notin Sleepers(e)
  BY <1>2, <1>3, <1>5 DEF Head, QueueInv
<1>8. Head(d)' = c /\ \A e \in Device : e # d => Head(e)' = Head(e)
  BY <1>1, <1>2, <1>4, <1>6 DEF Head
<1>9. ASSUME NEW h \in Tcb \union {NULL}, c \notin ChainIn(sleep_queue, h)
      PROVE  ChainIn(sleep_queue', h) = ChainIn(sleep_queue, h)
  <2>1. \A u \in ChainIn(sleep_queue, h) : sleep_queue'[u] = sleep_queue[u]
    BY <1>1, <1>4, <1>6, <1>9, ChainClosed DEF LinksTo
  <2> QED BY <1>6, <2>1, ChainFrame
<1>10. \A e \in Device : /\ Sleepers(e) = ChainIn(sleep_queue, dev_queue[e])
                         /\ ChainIn(sleep_queue', dev_queue[e]) = Sleepers(e)
  <2>1. \A e \in Device : Sleepers(e) = ChainIn(sleep_queue, dev_queue[e])
    BY <1>7, SleepersAre
  <2> QED BY <1>6, <1>7, <1>9, <2>1
<1>11. sleep_queue'[c] = dev_queue[d]
  BY <1>1, <1>4, <1>6 DEF LinksTo
<1>12. Sleepers(d)' = Sleepers(d) \union {c}
  <2>1. Sleepers(d)' = ChainIn(sleep_queue', c)
    BY <1>8, SleepersAre
  <2>2. ChainIn(sleep_queue', c) = {c} \union ChainIn(sleep_queue', dev_queue[d])
    BY <1>6, <1>11, ChainStep
  <2> QED BY <1>10, <2>1, <2>2
<1>13. \A e \in Device : e # d => Sleepers(e)' = Sleepers(e)
  BY <1>7, <1>8, <1>10, SleepersAre
<1>14. c \notin Chain(sleep_queue[c])'
  <2>1. Chain(sleep_queue[c])' = ChainIn(sleep_queue', sleep_queue'[c])
    BY DEF Chain, ChainIn, Linked
  <2> QED BY <1>7, <1>10, <1>11, <2>1
<1>15. ASSUME NEW t \in tasks, t \notin Chain(sleep_queue[t]),
              NEW e \in Device, t \in Sleepers(e)
       PROVE  t \notin Chain(sleep_queue[t])'
  <2>1. t # c /\ t \in Tcb
    BY <1>7, <1>15 DEF KernelInv, RestType
  <2>2. sleep_queue'[t] = sleep_queue[t] /\ sleep_queue[t] \in Tcb \union {NULL}
    BY <1>1, <1>4, <1>6, <2>1 DEF LinksTo
  <2>3. Chain(sleep_queue[t])' = ChainIn(sleep_queue', sleep_queue[t])
    BY <2>2 DEF Chain, ChainIn, Linked
  <2>4. c \notin ChainIn(sleep_queue, sleep_queue[t])
    <3>1. CASE sleep_queue[t] = NULL
      BY <3>1 DEF ChainIn
    <3>2. CASE sleep_queue[t] # NULL
      <4>1. /\ dev_queue[e] \in Tcb \union {NULL} /\ Sleepers(e) \in SUBSET Tcb
            /\ sleep_queue[t] \in Sleepers(e)
            /\ \A u \in Sleepers(e) : sleep_queue[u] # NULL => sleep_queue[u] \in Sleepers(e)
        BY <1>6, <1>10, <1>15, <3>2, ChainClosed
      <4>2. ChainIn(sleep_queue, sleep_queue[t]) \subseteq Sleepers(e)
        BY <1>6, <2>2, <4>1, ChainLeast
      <4> QED BY <1>7, <4>2
    <3> QED BY <3>1, <3>2
  <2>5. Chain(sleep_queue[t]) = ChainIn(sleep_queue, sleep_queue[t])
    BY DEF Chain, ChainIn, Linked
  <2> QED BY <1>9, <1>15, <2>2, <2>3, <2>4, <2>5
<1>16. frame'[exec].pc = "ds_pick" /\ frame'[exec].after = "user"
       /\ \A s \in Stack : s # exec => frame'[s] = frame[s]
  BY <1>1, <1>2, UserFrameType, DispatchEffect
<1>17. cur_tcb \notin Chain(sleep_queue[cur_tcb])'
  <2>1. cur_tcb' = c
    BY <1>4 DEF EventWait
  <2>2. Chain(sleep_queue[cur_tcb])' = Chain(sleep_queue[c])'
    BY <1>4, <2>1
  <2> QED BY <1>4, <1>14, <2>2
<1> QED BY <1>2, <1>3, <1>4, <1>5, <1>12, <1>13, <1>15, <1>16, <1>17

LEMMA WaitStep ==
  ASSUME KernelInv, SchedInv, NEW d \in Device, EventWait(d)
  PROVE  SchedInv'
<1>1. /\ UNCHANGED <<cur_tcb, run_list, cur_prio, holds_lock, context, exec, irq, isr,
                     stopped, tasks>>
      /\ frame'[exec].pc = "ds_pick" /\ frame'[exec].after = "user"
      /\ \A s \in Stack : s # exec => frame'[s] = frame[s]
      /\ QueueInv /\ ContextInv /\ PrioInv /\ irq = "on"
      /\ Running = cur_tcb /\ cur_tcb \in tasks \ {IDLE_PRIO}
  BY BlockEffect DEF EventWait, history
<1>2. StacksInv' /\ BuildInv' /\ BestInv'
  <2>1. exec # BootMain
    BY DEF EventWait, TaskCalls
  <2> QED BY <1>1, <2>1 DEF SchedInv, StacksInv, BuildInv, BestInv, Dispatching
<1>3. ContextInv' /\ PrioInv'
  BY <1>1 DEF ContextInv, PrioInv, Dispatching
<1>4. QueueInv'
  <2>1. Running' = NULL /\ run_list \in Queues /\ tasks \subseteq Tcb
    BY <1>1, RunningIs DEF KernelInv, RestType
  <2>2. PICK c \in Tcb : c = cur_tcb
    BY <1>1, <2>1
  <2>3. /\ Sleepers(d)' = Sleepers(d) \union {c}
        /\ \A e \in Device : c \notin Sleepers(e)
        /\ \A e \in Device : e # d => Sleepers(e)' = Sleepers(e)
    BY <1>1, <2>2, BlockEffect DEF QueueInv
  <2>4. ASSUME NEW e \in Device, NEW t \in Sleepers(e)'
        PROVE  /\ t \in tasks \ {IDLE_PRIO, NULL}
               /\ run_list[t] = NULL
               /\ t \notin Chain(sleep_queue[t])'
               /\ \A f \in Device : t \in Sleepers(f)' => f = e
    <3>1. CASE t = c
      <4>1. e = d /\ \A f \in Device : t \in Sleepers(f)' => f = e
        BY <2>3, <2>4, <3>1
      <4>2. run_list[c] = NULL
        BY <1>1, <2>2, Ranges DEF QueueInv
      <4>3. t \notin Chain(sleep_queue[t])'
        <5>1. cur_tcb' = c
          BY <1>1, <2>2
        <5>2. Chain(sleep_queue[cur_tcb])' = Chain(sleep_queue[c])'
          BY <5>1
        <5> QED BY <2>2, <3>1, <5>2, BlockEffect
      <4> QED BY <1>1, <2>2, <3>1, <4>1, <4>2, <4>3, Ranges
    <3>2. CASE t # c
      <4>1. t \in Sleepers(e)
        BY <2>3, <2>4, <3>2
      <4>2. /\ t \in tasks \ {IDLE_PRIO, Running} /\ run_list[t] = NULL
            /\ t \notin Chain(sleep_queue[t])
            /\ \A f \in Device : t \in Sleepers(f) => f = e
        BY <1>1, <4>1 DEF QueueInv
      <4>3. t \notin Chain(sleep_queue[t])'
        BY <4>1, <4>2, BlockEffect
      <4>4. \A f \in Device : t \in Sleepers(f)' => f = e
        BY <2>3, <3>2, <4>2
      <4> QED BY <2>1, <4>2, <4>3, <4>4, Ranges
    <3> QED BY <3>1, <3>2
  <2>5. ASSUME NEW t \in tasks
        PROVE  run_list[t] = t \/ \E e \in Device : t \in Sleepers(e)'
    BY <1>1, <2>2, <2>3 DEF QueueInv
  <2>6. \A p \in Prio : run_list[p] # NULL => run_list[p] = p /\ p \in tasks /\ p # NULL
    BY <1>1, <2>1, Ranges DEF QueueInv
  <2> QED BY <1>1, <2>1, <2>4, <2>5, <2>6 DEF QueueInv
<1> QED BY <1>2, <1>3, <1>4 DEF SchedInv, TasksInv

(***************************************************************************)
(* task_create.                                                            *)
(***************************************************************************)
LEMMA CreateStep ==
  ASSUME KernelInv, SchedInv, NEW n \in 0 .. OS_AVAIL_TASKS, TaskCreate(n)
  PROVE  SchedInv'
<1>1. /\ UNCHANGED <<dev_queue, exec, irq, isr, stopped, tasks>> /\ irq \in {"on", "off"}
      /\ frame[exec].pc = "user"
  BY DEF TaskCreate, devices, AtCall, At
<1>2. /\ frame'[exec].pc = IF NUM_DEVICES = 0 THEN "rq_init" ELSE "dev_init"
      /\ frame'[exec].i = 0
      /\ \A s \in Stack : s # exec => frame'[s] = frame[s]
  BY CreateEffect DEF KernelInv
<1>3. StacksInv'
  BY <1>1, <1>2 DEF SchedInv, StacksInv, Dispatching
<1>4. BuildInv'
  <2>1. \A d \in Device : ~(d < 0)
    BY DEF Device
  <2>2. NUM_DEVICES = 0 => Device = {}
    BY DEF Device
  <2>3. isr.iter = NULL /\ ~isr.need_ctx
    BY <1>1, Phases DEF SchedInv, StacksInv
  <2> QED BY <1>1, <1>2, <2>1, <2>2, <2>3 DEF BuildInv
<1>5. TasksInv' /\ BestInv'
  BY <1>1, <1>2 DEF TasksInv, BestInv, Replacing
<1> QED BY <1>3, <1>4, <1>5 DEF SchedInv

LEMMA BuildStep ==
  ASSUME KernelInv, SchedInv, DevInit \/ RunqueueInit \/ AllocateTcb
  PROVE  SchedInv'
<1>1. /\ UNCHANGED <<exec, irq, isr, stopped, tasks>> /\ irq = "on"
      /\ frame[exec] \in Frames /\ exec \in Stack /\ isr.iter = NULL /\ ~isr.need_ctx
  BY Phases DEF DevInit, RunqueueInit, AllocateTcb, At, history, SchedInv, StacksInv
<1>2. /\ frame'[exec].pc \in {"dev_init", "rq_init", "alloc"}
      /\ \A s \in Stack : s # exec => frame'[s] = frame[s]
  BY DevInitEffect, RunqueueInitEffect, AllocateEffect DEF KernelInv
<1>3. StacksInv' /\ TasksInv' /\ BestInv'
  BY <1>1, <1>2 DEF SchedInv, StacksInv, TasksInv, BestInv, Replacing, Dispatching
<1>4. BuildInv'
  <2>1. CASE DevInit
    <3>1. /\ frame'[exec].pc = IF frame[exec].i + 1 = NUM_DEVICES THEN "rq_init" ELSE "dev_init"
          /\ frame'[exec].i = frame[exec].i + 1
          /\ frame[exec].pc = "dev_init"
          /\ dev_queue' = [dev_queue EXCEPT ![frame[exec].i] = NULL]
      BY <2>1, DevInitEffect DEF KernelInv, DevInit, At
    <3>2. PICK k \in Nat : k = frame[exec].i
      BY <1>1 DEF Frames
    <3>3. \A d \in Device : d < k => dev_queue[d] = NULL
      BY <3>1, <3>2 DEF SchedInv, BuildInv
    <3>4. ASSUME NEW d \in Device, d < k + 1
          PROVE  dev_queue'[d] = NULL
      <4>1. d < k \/ d = k
        BY <3>4, Ranges
      <4> QED BY <3>1, <3>2, <3>3, <4>1 DEF KernelInv, RestType
    <3>5. k + 1 = NUM_DEVICES => \A d \in Device : d < k + 1
      BY DEF Device
    <3> QED BY <1>1, <3>1, <3>2, <3>4, <3>5 DEF BuildInv
  <2>2. CASE RunqueueInit
    <3>1. /\ frame'[exec].pc = "alloc" /\ frame'[exec].i = frame[exec].n
          /\ frame'[exec].n = frame[exec].n /\ frame[exec].pc = "rq_init"
          /\ run_list' = EmptyQueue /\ UNCHANGED dev_queue
      BY <2>2, RunqueueInitEffect DEF KernelInv, RunqueueInit, At, devices
    <3>2. frame[exec].n \in Int /\ Tcb \subseteq Int /\ Prio \subseteq Int
      BY <1>1, Ranges DEF Frames
    <3>3. \A t \in Prio : ~(frame[exec].n < t /\ t <= frame[exec].n)
      BY <3>2
    <3> QED
      BY <1>1, <3>1, <3>2, <3>3, Ranges DEF SchedInv, BuildInv, Made, EmptyQueue
  <2>3. CASE AllocateTcb
    <3>1. PICK i \in Nat : i = frame[exec].i
      BY <1>1 DEF Frames
    <3>2. PICK n \in 0 .. OS_AVAIL_TASKS : n = frame[exec].n
      BY <1>1 DEF Frames
    <3>3. /\ frame'[exec].pc = "alloc" /\ frame'[exec].i = i - 1
          /\ frame'[exec].n = n /\ frame[exec].pc = "alloc" /\ i > 0
          /\ run_list' = Put(run_list, i, i) /\ UNCHANGED dev_queue
          /\ cur_prio' = [cur_prio EXCEPT ![i] = i]
          /\ context' = [context EXCEPT ![i] = LAUNCH]
      BY <2>3, <3>1, <3>2, AllocateEffect DEF KernelInv, AllocateTcb, At, devices
    <3>4. i <= n /\ i \in Tcb /\ i \in Prio /\ n \in Nat
      <4>1. i <= n
        BY <3>1, <3>2, <3>3 DEF SchedInv, BuildInv
      <4> QED BY <3>3, <4>1, KernelAssumption, Ranges DEF Tcb, IDLE_PRIO, OS_AVAIL_TASKS
    <3>5. \A t \in Nat : (i - 1 < t /\ t <= n) <=> (t = i \/ (i < t /\ t <= n))
      BY <3>4
    <3>6. \A p \in Prio : run_list'[p] = IF i - 1 < p /\ p <= n THEN p ELSE NULL
      <4>1. \A p \in Prio : run_list[p] = IF i < p /\ p <= n THEN p ELSE NULL
        BY <3>1, <3>2, <3>3 DEF SchedInv, BuildInv, Made
      <4>2. \A p \in Prio : run_list'[p] = IF p = i THEN i ELSE run_list[p]
        BY <3>3 DEF KernelInv, RestType, Queues, Put
      <4> SUFFICES ASSUME NEW p \in Prio
                   PROVE  run_list'[p] = IF i - 1 < p /\ p <= n THEN p ELSE NULL
        OBVIOUS
      <4>3. (i - 1 < p /\ p <= n) <=> (p = i \/ (i < p /\ p <= n))
        BY <3>5, Ranges
      <4>4. CASE p = i
        <5>1. run_list'[p] = p
          BY <4>2, <4>4
        <5>2. i - 1 < p /\ p <= n
          BY <3>4, <4>4
        <5> QED BY <5>1, <5>2
      <4>5. CASE p # i
        BY <4>1, <4>2, <4>3, <4>5
      <4> QED BY <4>4, <4>5
    <3>7. \A t \in Tcb : i - 1 < t /\ t <= n => cur_prio'[t] = t /\ context'[t] = LAUNCH
      <4>1. \A t \in Tcb : i < t /\ t <= n => cur_prio[t] = t /\ context[t] = LAUNCH
        BY <3>1, <3>2, <3>3 DEF SchedInv, BuildInv, Made
      <4> QED BY <3>3, <3>4, <3>5, <4>1, Ranges DEF KernelInv, RestType
    <3> QED BY <1>1, <3>1, <3>2, <3>3, <3>4, <3>6, <3>7 DEF SchedInv, BuildInv, Made
  <2> QED BY <2>1, <2>2, <2>3
<1> QED BY <1>3, <1>4 DEF SchedInv

\* With the tcb of the idle task the new set is complete.
LEMMA IdleEffect ==
  ASSUME KernelInv, SchedInv, AllocateIdle
  PROVE  /\ frame[exec].pc = "alloc" /\ irq = "on"
         /\ frame'[exec].pc = "ds_pick" /\ frame'[exec].after = "never"
         /\ \A s \in Stack : s # exec => frame'[s] = frame[s]
         /\ IDLE_PRIO \in tasks' /\ tasks' \subseteq Tcb
         /\ \A p \in Prio : run_list'[p] = IF p \in tasks' THEN p ELSE NULL
         /\ \A t \in tasks' : cur_prio'[t] = t /\ context'[t] = LAUNCH
         /\ \A d \in Device : Sleepers(d)' = {}
<1>1. /\ frame[exec].pc = "alloc" /\ frame[exec].i = 0 /\ UNCHANGED <<dev_queue, irq>>
      /\ tasks' = 1 .. frame[exec].n \union {IDLE_PRIO} /\ Dispatch(UserFrame, "never")
      /\ run_list' = Put(run_list, IDLE_PRIO, IDLE_PRIO)
      /\ cur_prio' = [cur_prio EXCEPT ![IDLE_PRIO] = IDLE_PRIO]
      /\ context' = [context EXCEPT ![IDLE_PRIO] = LAUNCH] /\ irq \in {"on", "off"}
  BY DEF AllocateIdle, LeaveForGood, At, devices
<1>2. irq = "on" /\ frame[exec] \in Frames
  BY <1>1, Phases DEF SchedInv, StacksInv
<1>3. PICK n \in 0 .. OS_AVAIL_TASKS : n = frame[exec].n
  BY <1>2 DEF Frames
<1>4. tasks' = 1 .. n \union {IDLE_PRIO} /\ tasks' \subseteq Tcb /\ IDLE_PRIO \in Tcb
  BY <1>1, <1>3, Ranges
<1>5. /\ \A p \in Prio : run_list[p] = IF 0 < p /\ p <= n THEN p ELSE NULL
      /\ \A t \in Tcb : 0 < t /\ t <= n => cur_prio[t] = t /\ context[t] = LAUNCH
      /\ \A d \in Device : dev_queue[d] = NULL
  BY <1>1, <1>3 DEF SchedInv, BuildInv, Made
<1>6. \A p \in Prio : run_list'[p] = IF p \in tasks' THEN p ELSE NULL
  <2>1. \A p \in Prio : run_list'[p] = IF p = IDLE_PRIO THEN p ELSE run_list[p]
    BY <1>1, <1>4, Ranges DEF KernelInv, RestType, Queues, Put
  <2>2. \A p \in Prio : p \in 1 .. n <=> 0 < p /\ p <= n
    BY Ranges
  <2> QED BY <1>4, <1>5, <2>1, <2>2
<1>7. \A t \in tasks' : cur_prio'[t] = t /\ context'[t] = LAUNCH
  BY <1>1, <1>4, <1>5 DEF KernelInv, RestType
<1>8. \A d \in Device : Sleepers(d)' = {}
  <2>1. \A d \in Device : Head(d)' = NULL
    BY <1>1, <1>2, <1>5 DEF Head
  <2> QED BY <2>1, SleepersAre DEF ChainIn
<1>9. /\ frame'[exec].pc = "ds_pick" /\ frame'[exec].after = "never"
      /\ \A s \in Stack : s # exec => frame'[s] = frame[s]
  BY <1>1, UserFrameType, DispatchEffect DEF KernelInv
<1> QED BY <1>1, <1>2, <1>4, <1>6, <1>7, <1>8, <1>9

LEMMA IdleStep ==
  ASSUME KernelInv, SchedInv, AllocateIdle
  PROVE  SchedInv'
<1>1. UNCHANGED <<exec, irq, isr, stopped>> /\ irq = "on" /\ exec \in Stack
  BY IdleEffect DEF AllocateIdle, KernelInv, FrameInv
<1>2. StacksInv' /\ BuildInv' /\ BestInv'
  BY <1>1, IdleEffect DEF SchedInv, StacksInv, BuildInv, BestInv, Dispatching
<1>3. ContextInv' /\ PrioInv'
  BY <1>1, IdleEffect, Ranges DEF ContextInv, PrioInv
<1>4. QueueInv'
  <2>1. Running' = NULL
    BY <1>1, IdleEffect, RunningIs
  <2> QED BY <2>1, IdleEffect, Ranges DEF QueueInv
<1> QED BY <1>2, <1>3, <1>4 DEF SchedInv, TasksInv

(***************************************************************************)
(* The dispatcher.                                                         *)
(***************************************************************************)

\* There is always a task to choose: the idle task waits for nothing.
LEMMA BestExists ==
  ASSUME KernelInv, SchedInv, frame[exec].pc \in {"ds_pick", "ds_remove"}
  PROVE  /\ HighestPrio(run_list) \in tasks
         /\ run_list[HighestPrio(run_list)] = HighestPrio(run_list)
         /\ \A p \in Prio : run_list[p] # NULL => HighestPrio(run_list) <= p
         /\ Running = NULL /\ QueueInv /\ ContextInv /\ PrioInv /\ irq = "on"
<1>1. Running = NULL /\ QueueInv /\ ContextInv /\ PrioInv /\ IDLE_PRIO \in tasks
  BY RunningIs DEF SchedInv, TasksInv, Replacing, StacksInv, Dispatching
<1>2. run_list[IDLE_PRIO] # NULL
  BY <1>1, Ranges DEF QueueInv
<1>3. run_list \in Queues
  BY DEF KernelInv, RestType
<1>4. /\ HighestPrio(run_list) \in Prio /\ run_list[HighestPrio(run_list)] # NULL
      /\ \A p \in Prio : run_list[p] # NULL => HighestPrio(run_list) <= p
  BY <1>2, <1>3, HighestPrioOfTask, Ranges
<1>5. irq = "on"
  BY Phases
<1> QED BY <1>1, <1>4, <1>5 DEF QueueInv

LEMMA PickStep ==
  ASSUME KernelInv, SchedInv, DispatchPick \/ DispatchCur
  PROVE  SchedInv'
<1>1. /\ UNCHANGED <<run_list, sleep_queue, cur_prio, holds_lock, context, dev_queue, exec, irq,
                     isr, stopped, tasks>>
      /\ frame[exec].pc \in {"ds_pick", "ds_cur"} /\ frame'[exec].pc \in {"ds_remove", "ds_switch"}
      /\ frame'[exec].after = frame[exec].after
      /\ \A s \in Stack : s # exec => frame'[s] = frame[s]
  BY PickEffect, CurEffect DEF KernelInv, DispatchPick, DispatchCur, At, tcbs, devices, history
<1>2. irq = "on" /\ exec \in Stack
  BY <1>1, Phases
<1>3. StacksInv' /\ BuildInv'
  BY <1>1, <1>2 DEF SchedInv, StacksInv, BuildInv, Dispatching
<1>4. BestInv'
  <2>1. CASE DispatchPick
    BY <1>1, <2>1, PickEffect DEF BestInv, KernelInv
  <2>2. CASE DispatchCur
    <3>1. frame'[exec].pick = frame[exec].pick /\ frame'[exec].pc = "ds_switch"
          /\ frame[exec].pc = "ds_cur"
      BY <2>2, CurEffect DEF KernelInv, DispatchCur, At
    <3> QED BY <1>1, <3>1 DEF SchedInv, BestInv
  <2> QED BY <2>1, <2>2
<1>5. QueueInv' /\ ContextInv' /\ PrioInv'
  <2>1. QueueInv /\ ContextInv /\ PrioInv
    BY <1>1 DEF SchedInv, TasksInv, Replacing
  <2>2. Running' = Running
    <3>1. CASE DispatchPick
      BY <1>1, <3>1, PickEffect, RunningIs DEF KernelInv, DispatchPick, At
    <3>2. CASE DispatchCur
      BY <1>1, <3>2, CurEffect, RunningIs DEF KernelInv, DispatchCur, At
    <3> QED BY <3>1, <3>2
  <2>3. \A d \in Device : Head(d)' = Head(d)
    BY <1>1 DEF Head
  <2> QED BY <1>1, <2>1, <2>2, <2>3, QueueKept DEF ContextInv, PrioInv, Dispatching
<1> QED BY <1>3, <1>4, <1>5 DEF SchedInv, TasksInv

\* The best task leaves the run queue.
LEMMA ChooseEffect ==
  ASSUME KernelInv, SchedInv, DispatchRemove
  PROVE  /\ frame[exec].pick = HighestPrio(run_list) /\ frame[exec].pc = "ds_remove"
         /\ run_list' = [run_list EXCEPT ![HighestPrio(run_list)] = NULL]
         /\ frame'[exec].pc = "ds_cur" /\ frame'[exec].pick = HighestPrio(run_list)
         /\ frame'[exec].after = frame[exec].after
         /\ \A s \in Stack : s # exec => frame'[s] = frame[s]
         /\ UNCHANGED stopped
         /\ \A d \in Device : Sleepers(d)' = Sleepers(d)
<1>1. frame[exec].pc = "ds_remove"
  BY DEF DispatchRemove, At
<1>2. frame[exec].pick = HighestPrio(run_list)
  BY <1>1 DEF SchedInv, BestInv
<1>3. run_list[frame[exec].pick] = HighestPrio(run_list) /\ run_list[frame[exec].pick] # NULL
  BY <1>1, <1>2, BestExists, Ranges DEF KernelInv, RestType
<1>4. UNCHANGED <<dev_queue, sleep_queue, irq, isr>>
  BY DEF DispatchRemove, devices, tcbs
<1>5. \A d \in Device : Sleepers(d)' = Sleepers(d)
  <2>1. \A d \in Device : Head(d)' = Head(d)
    BY <1>4 DEF Head
  <2> QED BY <1>4, <2>1, SleepersAre
<1> QED BY <1>1, <1>2, <1>3, <1>5, RemoveEffect DEF KernelInv, Drop

LEMMA ChooseStep ==
  ASSUME KernelInv, SchedInv, DispatchRemove
  PROVE  SchedInv'
<1> DEFINE b == HighestPrio(run_list)
<1>1. /\ UNCHANGED <<sleep_queue, cur_prio, holds_lock, context, dev_queue, exec, irq,
                     isr, stopped, tasks>>
      /\ frame[exec].pc = "ds_remove" /\ frame'[exec].pc = "ds_cur" /\ frame'[exec].pick = b
      /\ frame'[exec].after = frame[exec].after
      /\ \A s \in Stack : s # exec => frame'[s] = frame[s]
      /\ run_list' = [run_list EXCEPT ![b] = NULL]
  BY ChooseEffect DEF DispatchRemove, tcbs, devices, history
<1>2. /\ b \in tasks /\ run_list[b] = b /\ \A p \in Prio : run_list[p] # NULL => b <= p
      /\ Running = NULL /\ QueueInv /\ ContextInv /\ PrioInv /\ irq = "on"
  BY <1>1, BestExists
<1>3. StacksInv' /\ BuildInv'
  BY <1>1, <1>2 DEF SchedInv, StacksInv, BuildInv, Dispatching
<1>4. ContextInv' /\ PrioInv'
  BY <1>1, <1>2 DEF ContextInv, PrioInv, Dispatching
<1>5. /\ \A p \in Prio : run_list'[p] = IF p = b THEN NULL ELSE run_list[p]
      /\ tasks \subseteq Tcb
  BY <1>1 DEF KernelInv, RestType, Queues
<1>6. BestInv'
  BY <1>1, <1>2, <1>5 DEF BestInv
<1>7. QueueInv'
  <2>1. Running' = b
    BY <1>1, RunningIs
  <2> HIDE DEF b
  <2>2. ASSUME NEW d \in Device, NEW t \in Sleepers(d)'
        PROVE  /\ t \in tasks \ {IDLE_PRIO, b} /\ run_list'[t] = NULL
               /\ t \notin Chain(sleep_queue[t])'
               /\ \A e \in Device : t \in Sleepers(e)' => e = d
    <3>1. t \in Sleepers(d)
      BY <2>2, ChooseEffect
    <3>2. /\ t \in tasks \ {IDLE_PRIO} /\ run_list[t] = NULL /\ t \notin Chain(sleep_queue[t])
          /\ \A e \in Device : t \in Sleepers(e) => e = d
      BY <1>2, <3>1 DEF QueueInv
    <3>3. t # b /\ t \in Prio /\ b # NULL
      BY <1>2, <1>5, <3>2, Ranges
    <3>4. Chain(sleep_queue[t])' = Chain(sleep_queue[t])
      BY <1>1 DEF Chain, Linked
    <3>5. \A e \in Device : t \in Sleepers(e)' => e = d
      BY <3>2, ChooseEffect
    <3> QED BY <1>5, <3>2, <3>3, <3>4, <3>5
  <2>3. ASSUME NEW t \in tasks
        PROVE  t = b \/ run_list'[t] = t \/ \E d \in Device : t \in Sleepers(d)'
    BY <1>2, <1>5, ChooseEffect, Ranges DEF QueueInv
  <2>4. \A p \in Prio : run_list'[p] # NULL => run_list'[p] = p /\ p \in tasks /\ p # b
    BY <1>2, <1>5 DEF QueueInv
  <2> QED BY <1>1, <1>2, <2>1, <2>2, <2>3, <2>4 DEF QueueInv
<1> QED BY <1>3, <1>4, <1>6, <1>7 DEF SchedInv, TasksInv

(***************************************************************************)
(* The switch of stacks.                                                   *)
(***************************************************************************)

\* With a context for every task there is one to load.
LEMMA Switched ==
  ASSUME FrameInv, stopped = "run", tasks \subseteq Tcb, NEW to \in tasks,
         NEW saved \in [Tcb -> Stack \union {LAUNCH, STALE}], NEW left_at \in [Stack -> Frames],
         \A t \in Tcb : saved[t] \in {LAUNCH, STALE, t}, \A t \in tasks : saved[t] # STALE,
         \A s \in Stack : left_at[s].pc = "user", SwitchTo(to, saved, left_at)
  PROVE  /\ exec' = to /\ stopped' = "run" /\ irq' = "on"
         /\ \A s \in Stack : frame'[s].pc = "user"
         /\ \A t \in tasks : context'[t] = STALE => t = to
<1>1. to \in Tcb /\ to \in Stack /\ saved[to] # STALE
  BY Ranges
<1>2. /\ exec' = to /\ UNCHANGED stopped
      /\ context' = IF saved[to] = LAUNCH THEN saved ELSE [saved EXCEPT ![to] = STALE]
      /\ \A s \in Stack : s # to => frame'[s] = left_at[s]
      /\ frame'[to].pc = IF saved[to] = LAUNCH THEN "user" ELSE left_at[to].pc
      /\ left_at[to].pc # "locked" => irq' = "on"
  BY <1>1, SwitchEffect
<1>3. \A s \in Stack : frame'[s].pc = "user"
  BY <1>1, <1>2
<1>4. \A t \in tasks : context'[t] = STALE => t = to
  BY <1>2
<1> QED BY <1>1, <1>2, <1>3, <1>4

\* The state after a switch to the best task, with nothing held.
LEMMA AfterSwitch ==
  ASSUME KernelInv, SchedInv, NoneHeld, IDLE_PRIO \in tasks, PrioInv, QueueInv',
         UNCHANGED <<tasks, cur_prio, holds_lock, dev_queue>>, isr' = NoIsr,
         NEW to \in tasks, cur_tcb' = to, exec' = to, stopped' = "run", irq' = "on",
         \A s \in Stack : frame'[s].pc = "user",
         \A t \in tasks : context'[t] = STALE => t = to,
         \A p \in Prio : run_list'[p] # NULL => to <= p
  PROVE  SchedInv'
<1>1. to \in Tcb /\ to \in Stack
  BY Ranges DEF KernelInv, RestType
<1>2. StacksInv' /\ BuildInv'
  BY <1>1 DEF StacksInv, BuildInv, Dispatching
<1>3. TasksInv'
  BY <1>1 DEF TasksInv, ContextInv, PrioInv, Dispatching
<1>4. cur_prio[to] = to
  BY <1>1, HoldsNothing DEF PrioInv
<1>5. BestInv'
  BY <1>1, <1>4 DEF BestInv
<1> QED BY <1>2, <1>3, <1>5 DEF SchedInv

LEMMA SwitchStep ==
  ASSUME KernelInv, SchedInv, DispatchSwitch
  PROVE  /\ SchedInv' /\ Running' = Running /\ frame'[exec'].pc = "user"
         /\ \A d \in Device : Head(d)' = Head(d)
<1>1. /\ frame[exec].pc = "ds_switch" /\ cur_tcb' = cur_tcb /\ cur_tcb = frame[exec].pick
      /\ frame[exec].i = exec /\ stopped = "run"
      /\ UNCHANGED <<run_list, cur_prio, holds_lock, sleep_queue, dev_queue, isr, tasks>>
  BY DEF DispatchSwitch, At, KernelInv, RunInv, OwnStack, tcbs, devices, history
<1>2. irq = "on" /\ isr = NoIsr /\ IDLE_PRIO \in tasks /\ QueueInv /\ ContextInv /\ PrioInv
  BY <1>1, Phases DEF SchedInv, StacksInv, Dispatching, TasksInv, Replacing
<1>3. tasks \subseteq Tcb /\ FrameInv /\ \A t \in Tcb : context[t] \in {LAUNCH, STALE, t}
  BY DEF KernelInv, RestType, RunInv, OwnContexts
<1>4. PICK f \in Frames : f = frame[exec] /\ f.after \in {"user", "never"}
  BY Phases
<1>5. PICK saved \in [Tcb -> Stack \union {LAUNCH, STALE}], left_at \in [Stack -> Frames] :
           /\ \A t \in Tcb : saved[t] = IF f.after # "never" /\ t = exec THEN t ELSE context[t]
           /\ \A t \in Tcb : saved[t] \in {LAUNCH, STALE, t}
           /\ \A s \in Stack : s # exec => left_at[s] = frame[s]
           /\ left_at[exec].pc = IF f.after = "locked" THEN "locked" ELSE "user"
           /\ SwitchTo(f.pick, saved, left_at)
           /\ f.pick \in Tcb
  BY <1>1, <1>3, <1>4, DispatchSwitchEffect DEF KernelInv
<1>6. PICK to \in tasks : to = f.pick /\ to = cur_tcb
  BY <1>1, <1>2, <1>4, <1>5, RunningIs, Ranges DEF QueueInv
<1>7. \A t \in tasks : saved[t] # STALE
  <2> SUFFICES ASSUME NEW t \in tasks, saved[t] = STALE
               PROVE  FALSE
    OBVIOUS
  <2>1. t \in Tcb /\ t # STALE
    BY <1>3, Ranges
  <2>2. ~(f.after # "never" /\ t = exec) /\ context[t] = STALE
    BY <1>5, <2>1
  <2>3. t = exec /\ f.after = "never"
    BY <1>2, <2>2 DEF ContextInv
  <2>4. context[t] = LAUNCH
    BY <1>1, <1>2, <1>4, <2>3 DEF ContextInv, Dispatching
  <2> QED BY <2>2, <2>4, Ranges
<1>8. \A s \in Stack : left_at[s].pc = "user"
  BY <1>4, <1>5 DEF SchedInv, StacksInv
<1>9. /\ exec' = to /\ stopped' = "run" /\ irq' = "on"
      /\ \A s \in Stack : frame'[s].pc = "user"
      /\ \A t \in tasks : context'[t] = STALE => t = to
  BY <1>1, <1>3, <1>5, <1>6, <1>7, <1>8, Switched
<1>10. Running' = Running /\ frame'[exec'].pc = "user"
  <2>1. to \in Stack
    BY <1>3, Ranges
  <2> QED BY <1>1, <1>9, <2>1, RunningIs
<1>11. \A d \in Device : Head(d)' = Head(d)
  BY <1>1, <1>2, <1>9 DEF Head
<1>12. QueueInv'
  BY <1>1, <1>2, <1>10, <1>11, QueueKept
<1>13. NoneHeld
  BY <1>1, KernelHoldsNone DEF KernelInv
<1>14. \A p \in Prio : run_list'[p] # NULL => to <= p
  BY <1>1, <1>4, <1>6 DEF SchedInv, BestInv
<1>15. SchedInv'
  BY <1>1, <1>2, <1>6, <1>9, <1>12, <1>13, <1>14, AfterSwitch
<1> QED BY <1>10, <1>11, <1>15

\* What dispatch_save does: the better of the current task and the best ready
\* one continues, and the other one is ready.
LEMMA PreemptChoice ==
  ASSUME KernelInv, SchedInv, Preempt
  PROVE  \E to \in tasks :
           /\ NoneHeld /\ frame[exec].pc = "user" /\ cur_tcb = exec /\ cur_tcb \in tasks
           /\ QueueInv /\ ContextInv /\ PrioInv /\ Running = cur_tcb
           /\ HighestPrio(run_list) < cur_tcb
           /\ cur_tcb' = to /\ to <= cur_tcb
           /\ \A p \in Prio : run_list[p] # NULL => to <= p
           /\ to = cur_tcb \/ run_list[to] = to
           /\ \A p \in Prio : run_list'[p] = IF p = to THEN NULL
                                             ELSE IF p = cur_tcb THEN p ELSE run_list[p]
<1>1. irq = "scan" /\ isr.need_ctx /\ cur_prio[cur_tcb] > HighestPrio(run_list)
  BY DEF Preempt, InIsr, Preempts
<1>2. NoneHeld
  BY PreemptHoldsNone DEF KernelInv
<1>3. frame[exec].pc = "user" /\ cur_tcb = exec
  BY <1>1, Phases DEF SchedInv, StacksInv, BuildInv
<1>4. QueueInv /\ ContextInv /\ PrioInv /\ Running = cur_tcb
  BY <1>3, RunningIs DEF SchedInv, TasksInv, Replacing
<1>5. PICK c \in Tcb : c = cur_tcb
  BY <1>1 DEF KernelInv, RestType, IsrSound
<1>6. c \in tasks /\ tasks \subseteq Tcb /\ run_list \in Queues
  BY <1>4, <1>5, Ranges DEF QueueInv, KernelInv, RestType
<1>7. cur_prio[c] = c
  BY <1>2, <1>4, <1>6, HoldsNothing DEF PrioInv
<1> DEFINE queue == Put(run_list, c, c)
           b == HighestPrio(queue)
<1>8. queue \in Queues /\ \A p \in Prio : queue[p] = IF p = c THEN c ELSE run_list[p]
  BY <1>5, <1>6, Ranges DEF Put, Queues
<1>9. run_list' = Drop(queue, b) /\ cur_tcb' = queue[b]
  BY <1>5, <1>7 DEF Preempt
<1> HIDE DEF queue, b
<1>10. b \in Prio /\ queue[b] # NULL /\ \A p \in Prio : queue[p] # NULL => b <= p
  BY <1>5, <1>8, HighestPrioOfTask, Ranges DEF b
<1>11. \A p \in Prio : queue[p] # NULL => queue[p] = p /\ p \in tasks
  BY <1>4, <1>6, <1>8 DEF QueueInv
<1>12. b \in tasks /\ cur_tcb' = b /\ (b = c \/ run_list[b] = b)
  BY <1>8, <1>9, <1>10, <1>11
<1>13. \A p \in Prio : run_list'[p] = IF p = b THEN NULL ELSE IF p = c THEN p ELSE run_list[p]
  BY <1>8, <1>9 DEF Drop, Queues
<1>14. b <= c /\ \A p \in Prio : run_list[p] # NULL => b <= p
  BY <1>5, <1>8, <1>10, Ranges
<1>15. HighestPrio(run_list) < c
  <2>1. HighestPrio(run_list) \in Nat /\ c \in Nat
    BY <1>6, HighestPrioOfTask, Ranges
  <2> QED BY <1>1, <1>5, <1>7, <2>1
<1> QED BY <1>2, <1>3, <1>4, <1>5, <1>6, <1>12, <1>13, <1>14, <1>15

LEMMA PreemptStep ==
  ASSUME KernelInv, SchedInv, Preempt
  PROVE  /\ SchedInv' /\ Running' = cur_tcb' /\ frame'[exec'].pc = "user"
         /\ \A d \in Device : Sleepers(d)' = Sleepers(d)
<1>1. PICK to \in tasks :
           /\ NoneHeld /\ frame[exec].pc = "user" /\ cur_tcb = exec /\ cur_tcb \in tasks
           /\ QueueInv /\ ContextInv /\ PrioInv /\ Running = cur_tcb
           /\ cur_tcb' = to
           /\ \A p \in Prio : run_list[p] # NULL => to <= p
           /\ to <= cur_tcb
           /\ to = cur_tcb \/ run_list[to] = to
           /\ \A p \in Prio : run_list'[p] = IF p = to THEN NULL
                                             ELSE IF p = cur_tcb THEN p ELSE run_list[p]
  BY PreemptChoice
<1>2. /\ UNCHANGED <<cur_prio, holds_lock, sleep_queue, dev_queue, tasks>> /\ isr' = NoIsr
      /\ stopped = "run" /\ irq = "scan"
  BY DEF Preempt, InIsr, tcbs, devices, history
<1>3. tasks \subseteq Tcb /\ FrameInv /\ \A t \in Tcb : context[t] \in {LAUNCH, STALE, t}
  BY DEF KernelInv, RestType, RunInv, OwnContexts
<1>4. PICK saved \in [Tcb -> Stack \union {LAUNCH, STALE}], left_at \in [Stack -> Frames] :
           /\ \A t \in Tcb : saved[t] = IF t = exec THEN t ELSE context[t]
           /\ \A t \in Tcb : saved[t] \in {LAUNCH, STALE, t}
           /\ \A s \in Stack : left_at[s].pc = frame[s].pc /\ left_at[s].after = frame[s].after
           /\ SwitchTo(cur_tcb', saved, left_at)
           /\ cur_tcb' \in Tcb
  BY <1>1, <1>3, PreemptEffect DEF KernelInv
<1>5. \A t \in tasks : saved[t] # STALE
  BY <1>1, <1>3, <1>4, Ranges DEF ContextInv
<1>6. \A s \in Stack : left_at[s].pc = "user"
  BY <1>1, <1>4 DEF SchedInv, StacksInv
<1>7. SwitchTo(to, saved, left_at)
  BY <1>1, <1>4
<1>8. /\ exec' = to /\ stopped' = "run" /\ irq' = "on"
      /\ \A s \in Stack : frame'[s].pc = "user"
      /\ \A t \in tasks : context'[t] = STALE => t = to
  BY <1>2, <1>3, <1>4, <1>5, <1>6, <1>7, Switched
<1>9. Running' = to /\ frame'[exec'].pc = "user"
  BY <1>1, <1>3, <1>8, RunningIs, Ranges
<1>10. \A d \in Device : Sleepers(d)' = Sleepers(d)
  <2>1. \A d \in Device : Head(d)' = Head(d)
    BY <1>2, <1>8 DEF Head
  <2> QED BY <1>2, <2>1, SleepersAre
<1>11. QueueInv'
  <2>1. ASSUME NEW d \in Device, NEW t \in Sleepers(d)'
        PROVE  /\ t \in tasks \ {IDLE_PRIO, to} /\ run_list'[t] = NULL
               /\ t \notin Chain(sleep_queue[t])'
               /\ \A e \in Device : t \in Sleepers(e)' => e = d
    <3>1. t \in Sleepers(d)
      BY <1>10, <2>1
    <3>2. /\ t \in tasks \ {IDLE_PRIO, Running} /\ run_list[t] = NULL
          /\ t \notin Chain(sleep_queue[t])
          /\ \A e \in Device : t \in Sleepers(e) => e = d
      BY <1>1, <3>1 DEF QueueInv
    <3>3. t # to /\ t \in Prio
      BY <1>1, <1>3, <3>2, Ranges
    <3>4. Chain(sleep_queue[t])' = Chain(sleep_queue[t])
      BY <1>2 DEF Chain, Linked
    <3>5. \A e \in Device : t \in Sleepers(e)' => e = d
      BY <1>10, <3>2
    <3> QED BY <1>1, <3>2, <3>3, <3>4, <3>5
  <2>2. ASSUME NEW t \in tasks
        PROVE  t = to \/ run_list'[t] = t \/ \E d \in Device : t \in Sleepers(d)'
    BY <1>1, <1>3, <1>10, Ranges DEF QueueInv
  <2>3. \A p \in Prio : run_list'[p] # NULL => run_list'[p] = p /\ p \in tasks /\ p # to
    BY <1>1, <1>3 DEF QueueInv
  <2> QED BY <1>1, <1>2, <1>9, <2>1, <2>2, <2>3 DEF QueueInv
<1>12. \A p \in Prio : run_list'[p] # NULL => to <= p
  BY <1>1
<1>13. IDLE_PRIO \in tasks
  <2>1. exec # BootMain
    BY <1>1, <1>3, Ranges DEF BootMain, NULL
  <2> QED BY <2>1 DEF SchedInv, StacksInv
<1>14. SchedInv'
  BY <1>1, <1>2, <1>8, <1>11, <1>12, <1>13, AfterSwitch
<1> QED BY <1>1, <1>9, <1>10, <1>14

(***************************************************************************)
(* The invariant, put together.                                            *)
(***************************************************************************)
AllInv == KernelInv /\ SchedInv

LEMMA AllInit == Init => AllInv
<1> SUFFICES ASSUME Init
             PROVE  AllInv
  OBVIOUS
<1>1. KernelInv
  BY TypeInit, TypeParts, LockInit, RunInit DEF KernelInv
<1>0. frame[exec].pc = "user" /\ exec = BootMain /\ \A s \in Stack : frame[s].pc = "user"
  BY Ranges DEF Init, UserFrame
<1>2. StacksInv /\ BuildInv /\ BestInv
  BY <1>0 DEF Init, StacksInv, BuildInv, BestInv, Dispatching
<1>3. ContextInv /\ PrioInv
  BY <1>0 DEF Init, ContextInv, PrioInv, Dispatching
<1>4. QueueInv
  <2>1. \A d \in Device : Sleepers(d) = {}
    BY DEF Init, Sleepers, Chain
  <2>2. Running = NULL
    BY <1>0, RunningIs DEF Init
  <2> QED BY <2>1, <2>2 DEF Init, QueueInv, EmptyQueue
<1> QED BY <1>1, <1>2, <1>3, <1>4 DEF AllInv, SchedInv, TasksInv

LEMMA AllStep ==
  ASSUME Disciplined, AllInv, [Next]_vars
  PROVE  AllInv'
<1> USE DEF AllInv
<1>1. KernelInv'
  <2>1. FrameInv /\ RestType /\ LockInv /\ RunInv
    BY DEF KernelInv
  <2>2. FrameInv' /\ RestType'
    BY <2>1, FrameStep, RestStep
  <2>3. LockInv'
    BY <2>1, LockStep DEF Disciplined
  <2>4. RunInv'
    BY <2>1, RunStep DEF Disciplined, Harmless
  <2> QED BY <2>2, <2>3, <2>4 DEF KernelInv
<1>2. CASE UNCHANGED vars
  <2>1. UNCHANGED <<cur_tcb, run_list, cur_prio, holds_lock, sleep_queue, context, dev_queue,
                    cur_mutex_num, exec, frame, irq, isr, stopped, tasks>>
    BY <1>2 DEF vars, tcbs, devices, mutexes, history
  <2>2. StacksInv' /\ BuildInv' /\ BestInv'
    BY <2>1 DEF SchedInv, StacksInv, BuildInv, BestInv, Dispatching, Made
  <2>3. TasksInv'
    <3>1. Running' = Running /\ \A d \in Device : Head(d)' = Head(d)
      BY <2>1 DEF Running, Head
    <3>2. QueueInv => QueueInv'
      BY <2>1, <3>1, QueueKept
    <3> QED BY <2>1, <3>2 DEF SchedInv, TasksInv, Replacing, ContextInv, PrioInv, Dispatching
  <2> QED BY <1>1, <2>2, <2>3 DEF SchedInv
<1>3. CASE UserCalls
  <2>1. CASE MutexCreate \/ \E m \in Mutex : MutexLockFree(m) \/ MutexUnlock(m)
    BY <1>1, <2>1, MutexCallStep DEF KernelInv
  <2>2. CASE \E m \in Mutex : MutexLockWait(m)
    BY <2>2, NoWait DEF KernelInv
  <2>3. CASE \E d \in Device : EventWait(d)
    BY <1>1, <2>3, WaitStep
  <2>4. CASE \E n \in 0 .. OS_AVAIL_TASKS : TaskCreate(n)
    BY <1>1, <2>4, CreateStep
  <2>5. CASE Refused
    BY <1>2, <2>5 DEF Refused
  <2> QED BY <1>3, <2>1, <2>2, <2>3, <2>4, <2>5 DEF UserCalls
<1>4. CASE CallSteps
  <2>1. ~TailScan /\ ~MutexLockTail
    BY Phases DEF TailScan, MutexLockTail, At
  <2> QED
    BY <1>1, <1>4, <2>1, PickStep, ChooseStep, SwitchStep, BuildStep, IdleStep DEF CallSteps
<1>5. CASE IsrSteps \/ Tick
  BY <1>1, <1>5, InterruptStep, WakeStep, PreemptStep DEF IsrSteps
<1>6. CASE Halted
  BY <1>6 DEF Halted, SchedInv, StacksInv
<1> QED BY <1>2, <1>3, <1>4, <1>5, <1>6 DEF Next

\* The inductive invariant, for every behaviour in which no holder of a mutex
\* replaces the task set and the interrupt is taken in user mode, inside
\* mutex_lock, before runqueue_init or in the loop of allocate_tasks.
THEOREM SchedulerInvariant == ASSUME Disciplined PROVE Spec => []AllInv
<1>1. Init => AllInv
  BY AllInit
<1>2. AllInv /\ [Next]_vars => AllInv'
  BY AllStep
<1> QED BY <1>1, <1>2, PTL DEF Spec

\* run_queue.c:106-107, assert.h: no assertion fails, and no context is loaded
\* that was not saved.
THEOREM NeverStops == ASSUME Disciplined PROVE Spec => [](AssertsHold /\ stopped = "run")
<1>1. AllInv => AssertsHold /\ stopped = "run"
  BY DEF AllInv, SchedInv, StacksInv, AssertsHold
<1> QED BY <1>1, SchedulerInvariant, PTL

\* Rate monotonic scheduling (README.md): as long as the programs have created
\* no mutex, no task in the run queue outranks the one that runs, whenever that
\* one is in user mode.
THEOREM RateMonotonicHolds == ASSUME Disciplined PROVE Spec => []RateMonotonic
<1>1. AllInv => RateMonotonic
  <2> SUFFICES ASSUME AllInv, Quiet, cur_mutex_num = 0, cur_tcb # NULL,
                      NEW t \in Tcb, NEW p \in Prio, run_list[p] = t, p < cur_prio[cur_tcb]
               PROVE  FALSE
    BY DEF RateMonotonic, Outranks
  <2>1. run_list[p] # NULL
    BY Ranges
  <2>2. ~isr.need_ctx
    BY Phases DEF AllInv, Quiet
  <2>3. cur_prio[cur_tcb] <= p
    BY <2>1, <2>2 DEF AllInv, SchedInv, BestInv, Quiet
  <2>4. cur_prio[cur_tcb] \in Nat /\ p \in Nat
    BY Ranges DEF AllInv, KernelInv, RestType
  <2> QED BY <2>3, <2>4
<1> QED BY <1>1, SchedulerInvariant, PTL

\* The places of a task: the slot of its priority, or the queue of the device
\* it sleeps on, and nobody is on the queue of a mutex.
LEMMA PlacesAre ==
  ASSUME AllInv, Quiet, NEW t \in tasks
  PROVE  Places(t) = IF t = cur_tcb THEN {}
                     ELSE IF run_list[t] = t THEN {<<"run", t>>}
                     ELSE {<<"device", d>> : d \in {d \in Device : t \in Sleepers(d)}}
<1>1. QueueInv /\ Running = cur_tcb /\ t \in Tcb /\ t \in Prio /\ t # NULL
  BY RunningIs, Ranges DEF AllInv, Quiet, SchedInv, TasksInv, Replacing, KernelInv, RestType
<1>2. \A m \in Mutex : Waiters(m) = {}
  BY DEF AllInv, KernelInv, LockInv, NobodyWaits, Waiters, Chain
<1>3. \A p \in Prio : run_list[p] = t <=> p = t /\ run_list[t] = t
  BY <1>1 DEF QueueInv
<1>4. t = cur_tcb => run_list[t] # t /\ \A d \in Device : t \notin Sleepers(d)
  BY <1>1 DEF QueueInv
<1>5. run_list[t] = t => \A d \in Device : t \notin Sleepers(d)
  BY <1>1 DEF QueueInv
<1>6. Places(t) = {<<"run", p>> : p \in {p \in Prio : run_list[p] = t}}
                    \union {<<"device", d>> : d \in {d \in Device : t \in Sleepers(d)}}
  BY <1>2 DEF Places
<1>7. {<<"run", p>> : p \in {p \in Prio : run_list[p] = t}}
        = IF run_list[t] = t THEN {<<"run", t>>} ELSE {}
  BY <1>1, <1>3
<1> QED BY <1>4, <1>5, <1>6, <1>7

\* Every task of the current set is where something will find it, and in one
\* place only (device.c:63-66, 90-96; run_queue.c:88-117).
THEOREM NoLostTaskHolds == ASSUME Disciplined PROVE Spec => []NoLostTask
<1>1. AllInv => NoLostTask
  <2> SUFFICES ASSUME AllInv, Quiet, NEW t \in tasks
               PROVE  Cardinality(Places(t)) = IF t = cur_tcb THEN 0 ELSE 1
    BY DEF NoLostTask
  <2>1. QueueInv /\ Running = cur_tcb
    BY RunningIs DEF AllInv, Quiet, SchedInv, TasksInv, Replacing
  <2>2. CASE t = cur_tcb
    BY <2>2, PlacesAre, FS_EmptySet
  <2>3. CASE t # cur_tcb /\ run_list[t] = t
    <3>1. Places(t) = {<<"run", t>>}
      BY <2>3, PlacesAre
    <3> QED BY <2>3, <3>1, FS_Singleton
  <2>4. CASE t # cur_tcb /\ run_list[t] # t
    <3>1. PICK d \in Device : t \in Sleepers(d)
      BY <2>1, <2>4 DEF QueueInv
    <3>2. {e \in Device : t \in Sleepers(e)} = {d}
      BY <2>1, <3>1 DEF QueueInv
    <3>3. Places(t) = {<<"device", d>>}
      BY <2>4, <3>2, PlacesAre
    <3> QED BY <2>4, <3>3, FS_Singleton
  <2> QED BY <2>2, <2>3, <2>4
<1> QED BY <1>1, SchedulerInvariant, PTL

(***************************************************************************)
(* The scheduler's promise: every step is one of Scheduler's or none.      *)
(***************************************************************************)

\* The run queue holds each ready task in the slot of its priority.
LEMMA ReadyIs ==
  ASSUME QueueInv, run_list \in Queues
  PROVE  Ready = {t \in Tcb : run_list[t] = t}
<1>1. \A p \in Prio : run_list[p] # NULL => run_list[p] = p /\ p \in Tcb
  BY Ranges DEF QueueInv
<1>2. ASSUME NEW t \in Ready
      PROVE  t \in Tcb /\ run_list[t] = t
  BY <1>1, <1>2 DEF Ready
<1>3. ASSUME NEW t \in Tcb, run_list[t] = t
      PROVE  t \in Ready
  BY <1>3, Ranges DEF Ready
<1> QED BY <1>2, <1>3

\* A step that changes no task set, no queue and no holder is none of Scheduler's.
LEMMA Unseen ==
  ASSUME UNCHANGED <<run_list, tasks, sleep_queue, pHolding_Tcb>>,
         Running' = Running, Replacing' = Replacing, \A d \in Device : Head(d)' = Head(d)
  PROVE  UNCHANGED Sched!vars
<1>1. UNCHANGED <<Members, ReadyMembers, Holding>>
  BY DEF Members, ReadyMembers, Ready, Holding
<1>2. UNCHANGED Waiting
  <2>1. \A d \in Device : Sleepers(d)' = Sleepers(d)
    BY SleepersAre
  <2> QED BY <2>1 DEF Waiting
<1> QED BY <1>1, <1>2 DEF Sched!vars

LEMMA PromiseInit == Init => Sched!Init
<1> SUFFICES ASSUME Init
             PROVE  Sched!Init
  OBVIOUS
<1>1. frame[exec].pc = "user" /\ cur_tcb = NULL
  BY Ranges DEF Init, UserFrame
<1>2. Running = NULL /\ ~Replacing
  BY <1>1, RunningIs DEF Replacing
<1>3. Members = {} /\ ReadyMembers = {} /\ ~Holding
  BY <1>2 DEF Init, MutexInit, Members, ReadyMembers, Ready, Holding, EmptyQueue
<1>4. Waiting = [d \in Device |-> {}]
  BY <1>2 DEF Init, Waiting, Sleepers, Chain
<1> QED BY <1>2, <1>3, <1>4 DEF Sched!Init, Sched!NOBODY, Sched!Nobody, NULL

\* The task that runs takes or releases a mutex.
LEMMA PromiseHold ==
  ASSUME AllInv, NEW m \in Mutex, MutexLockFree(m) \/ MutexUnlock(m)
  PROVE  Sched!Hold
<1>1. /\ UNCHANGED <<cur_tcb, run_list, sleep_queue, dev_queue, exec, frame, irq, isr, tasks>>
      /\ frame[exec].pc = "user" /\ exec # BootMain
  <2>1. pSleep_queue[m] = NULL
    BY DEF AllInv, KernelInv, LockInv, NobodyWaits
  <2> QED
    BY <2>1 DEF MutexLockFree, MutexUnlock, devices, history, TaskCalls, AtCall, At
<1>2. Running = cur_tcb /\ cur_tcb = exec /\ UNCHANGED <<Running, Replacing>>
  BY <1>1, RunningIs, Phases DEF AllInv, Replacing
<1>3. UNCHANGED <<Members, ReadyMembers>> /\ Holding' \in BOOLEAN
  BY <1>1, <1>2 DEF Members, ReadyMembers, Ready, Holding
<1>4. UNCHANGED Waiting
  <2>1. \A d \in Device : Head(d)' = Head(d)
    BY <1>1 DEF Head
  <2>2. \A d \in Device : Sleepers(d)' = Sleepers(d)
    BY <1>1, <2>1, SleepersAre
  <2> QED BY <1>2, <2>2 DEF Waiting
<1> QED BY <1>1, <1>2, <1>3, <1>4 DEF Sched!Hold, Sched!NOBODY, BootMain

\* The task that runs waits for a device.
LEMMA PromiseBlock ==
  ASSUME AllInv, NEW d \in Device, EventWait(d)
  PROVE  Sched!Block(d)
<1>1. /\ frame[exec].pc = "user" /\ holds_lock[cur_tcb] = 0
      /\ UNCHANGED <<run_list, tasks, pHolding_Tcb, exec>>
  BY DEF EventWait, TaskCalls, AtCall, At, mutexes, history
<1>2. /\ frame'[exec].pc = "ds_pick" /\ Running = cur_tcb /\ cur_tcb \in tasks \ {IDLE_PRIO}
      /\ Sleepers(d)' = Sleepers(d) \union {Running}
      /\ \A e \in Device : e # d => Sleepers(e)' = Sleepers(e)
  BY BlockEffect DEF AllInv
<1>3. ~Replacing /\ ~Replacing' /\ Running' = NULL
  BY <1>1, <1>2, RunningIs DEF Replacing
<1>4. ~Holding
  <2> SUFFICES ASSUME NEW m \in Mutex, pHolding_Tcb[m] # NULL
               PROVE  FALSE
    BY DEF Holding
  <2>1. m \in Held(cur_tcb) /\ cur_tcb \in Tcb
    BY <1>2 DEF Held, AllInv, KernelInv, LockInv, HolderRuns, RestType
  <2>2. holds_lock[cur_tcb] = Cardinality(Held(cur_tcb)) /\ IsFiniteSet(Held(cur_tcb))
    BY <2>1, MutexFinite DEF AllInv, KernelInv, LockInv, CountsHeld, Held
  <2> QED BY <1>1, <2>1, <2>2, FS_EmptySet
<1>5. UNCHANGED <<Members, ReadyMembers, Holding>>
  BY <1>1, <1>3 DEF Members, ReadyMembers, Ready, Holding
<1>6. Waiting' = [Waiting EXCEPT ![d] = @ \union {Running}]
  BY <1>2, <1>3 DEF Waiting
<1> QED
  BY <1>2, <1>3, <1>4, <1>5, <1>6 DEF Sched!Block, Sched!NOBODY, NULL, Members

\* A task, or main, replaces the task set; it goes on running.
LEMMA PromiseDiscard ==
  ASSUME AllInv, Disciplined, NEW n \in 0 .. OS_AVAIL_TASKS, TaskCreate(n)
  PROVE  Sched!Discard
<1>1. /\ frame[exec].pc = "user" /\ UNCHANGED <<cur_tcb, pHolding_Tcb, exec>>
      /\ frame'[exec].pc \in {"rq_init", "dev_init"}
  BY CreateEffect DEF TaskCreate, AtCall, At, mutexes, AllInv, KernelInv
<1>2. Replacing' /\ UNCHANGED Running
  BY <1>1, RunningIs DEF Replacing
<1>3. ~Holding /\ UNCHANGED Holding
  BY <1>1, CreateHoldsNone DEF Disciplined, AllInv, KernelInv, NoneHeld, Holding
<1> QED
  BY <1>2, <1>3 DEF Sched!Discard, Sched!Nobody, Members, ReadyMembers, Waiting

\* The new set starts.
LEMMA PromiseStart ==
  ASSUME AllInv, AllocateIdle
  PROVE  Sched!Start(tasks')
<1>1. /\ frame[exec].pc = "alloc" /\ frame'[exec].pc = "ds_pick" /\ exec' = exec
      /\ IDLE_PRIO \in tasks' /\ tasks' \subseteq Tcb
      /\ \A p \in Prio : run_list'[p] = IF p \in tasks' THEN p ELSE NULL
      /\ \A d \in Device : Sleepers(d)' = {}
      /\ UNCHANGED pHolding_Tcb
  BY IdleEffect DEF AllInv, AllocateIdle, mutexes
<1>2. Replacing /\ ~Replacing' /\ Running' = NULL
  BY <1>1, RunningIs DEF Replacing
<1>3. Ready' = tasks'
  BY <1>1, Ranges DEF Ready
<1>4. UNCHANGED <<Waiting, Holding>>
  BY <1>1, <1>2 DEF Waiting, Holding
<1> QED
  BY <1>1, <1>2, <1>3, <1>4 DEF Sched!Start, Sched!NOBODY, NULL, Members, ReadyMembers

\* The least of the ready tasks.
LEMMA LeastReady ==
  ASSUME run_list \in Queues, QueueInv, NEW b \in Tcb, run_list[b] = b,
         \A p \in Prio : run_list[p] # NULL => b <= p
  PROVE  b \in Ready /\ Sched!Min(Ready) = b
<1>1. b \in Ready /\ \A t \in Ready : b <= t
  BY ReadyIs, Ranges
<1>2. \A t \in Ready : (\A u \in Ready : t <= u) => t = b
  <2>1. Ready \subseteq Nat
    BY ReadyIs, Ranges
  <2> QED BY <1>1, <2>1
<1> QED BY <1>1, <1>2 DEF Sched!Min

\* The dispatcher removes the best task from the run queue.
LEMMA PromiseDispatch ==
  ASSUME AllInv, DispatchRemove
  PROVE  Sched!Dispatch
<1> USE DEF AllInv
<1>1. PICK b \in tasks :
        /\ b = HighestPrio(run_list) /\ frame[exec].pc = "ds_remove" /\ run_list[b] = b
        /\ \A p \in Prio : run_list[p] # NULL => b <= p
        /\ Running = NULL /\ QueueInv
  BY BestExists DEF DispatchRemove, At
<1>2. /\ run_list' = [run_list EXCEPT ![b] = NULL] /\ frame'[exec].pc = "ds_cur"
      /\ frame'[exec].pick = b /\ \A d \in Device : Sleepers(d)' = Sleepers(d)
      /\ UNCHANGED <<tasks, exec, pHolding_Tcb>>
  BY <1>1, ChooseEffect DEF DispatchRemove, history, mutexes
<1>3. run_list \in Queues /\ run_list' \in Queues /\ b \in Tcb
  BY <1>1, <1>2, Ranges DEF KernelInv, RestType, Queues
<1>4. ~Replacing /\ ~Replacing' /\ Running' = b
  BY <1>1, <1>2, RunningIs DEF Replacing
<1>5. b \in Ready /\ Sched!Min(Ready) = b
  BY <1>1, <1>3, LeastReady
<1>6. Ready' = Ready \ {b}
  <2>1. Ready = {t \in Tcb : run_list[t] = t}
    BY <1>1, <1>3, ReadyIs
  <2>2. \A p \in Prio : run_list'[p] = IF p = b THEN NULL ELSE run_list[p]
    BY <1>2, <1>3 DEF Queues
  <2>3. \A p \in Prio : run_list[p] # NULL => run_list[p] = p
    BY <1>1 DEF QueueInv
  <2> QED BY <2>1, <2>2, <2>3, Ranges DEF Ready
<1>7. UNCHANGED <<Members, Waiting, Holding>>
  BY <1>2, <1>4 DEF Members, Waiting, Holding
<1> QED
  BY <1>1, <1>4, <1>5, <1>6, <1>7 DEF Sched!Dispatch, Sched!NOBODY, NULL, ReadyMembers

\* A device wakes a task.
LEMMA PromiseWake ==
  ASSUME AllInv, WakeSleeper
  PROVE  \E d \in Device, t \in Tcb : Sched!Wake(t, d)
<1>1. PICK d \in Device, w \in Tcb :
        /\ w \in Sleepers(d) /\ Sleepers(d)' = Sleepers(d) \ {w}
        /\ \A e \in Device : e # d => Sleepers(e)' = Sleepers(e)
        /\ run_list' = [run_list EXCEPT ![w] = w]
  BY WakeEffect DEF AllInv
<1>2. /\ frame[exec].pc = "user" /\ QueueInv /\ run_list \in Queues
      /\ UNCHANGED <<frame, exec, cur_tcb, tasks, pHolding_Tcb>>
  BY WakeEffect DEF AllInv, KernelInv, RestType, WakeSleeper, mutexes, history
<1>3. ~Replacing /\ ~Replacing' /\ UNCHANGED Running
  BY <1>2, RunningIs DEF Replacing
<1>4. Ready' = Ready \union {w}
  <2>1. \A p \in Prio : run_list'[p] = IF p = w THEN w ELSE run_list[p]
    BY <1>1, <1>2 DEF Queues
  <2>2. \A p \in Prio : run_list[p] # NULL => run_list[p] = p
    BY <1>2 DEF QueueInv
  <2> QED BY <1>1, <2>1, <2>2, Ranges DEF Ready
<1>5. Waiting' = [Waiting EXCEPT ![d] = @ \ {w}] /\ w \in Waiting[d]
  BY <1>1, <1>3 DEF Waiting
<1>6. UNCHANGED <<Members, Holding>>
  BY <1>2, <1>3 DEF Members, Holding
<1>7. Sched!Wake(w, d)
  BY <1>3, <1>4, <1>5, <1>6 DEF Sched!Wake, ReadyMembers
<1> QED BY <1>1, <1>7

\* A better task takes over, or the current one continues.
LEMMA PromisePreempt ==
  ASSUME AllInv, Preempt
  PROVE  Sched!Preempt \/ UNCHANGED Sched!vars
<1> USE DEF AllInv
<1>1. PICK to \in tasks :
           /\ NoneHeld /\ frame[exec].pc = "user" /\ cur_tcb \in tasks
           /\ QueueInv /\ Running = cur_tcb
           /\ cur_tcb' = to /\ to <= cur_tcb
           /\ \A p \in Prio : run_list[p] # NULL => to <= p
           /\ to = cur_tcb \/ run_list[to] = to
           /\ \A p \in Prio : run_list'[p] = IF p = to THEN NULL
                                             ELSE IF p = cur_tcb THEN p ELSE run_list[p]
  BY PreemptChoice
<1>2. /\ Running' = to /\ frame'[exec'].pc = "user"
      /\ \A d \in Device : Sleepers(d)' = Sleepers(d)
      /\ UNCHANGED <<tasks, pHolding_Tcb>>
  BY <1>1, PreemptStep DEF Preempt, history, mutexes
<1>3. ~Replacing /\ ~Replacing'
  BY <1>1, <1>2 DEF Replacing
<1>4. PICK c \in Tcb : c = cur_tcb /\ to \in Tcb /\ run_list \in Queues
  BY <1>1 DEF KernelInv, RestType
<1>5. UNCHANGED <<Members, Waiting, Holding>> /\ ~Holding
  BY <1>1, <1>2, <1>3 DEF Members, Waiting, Holding, NoneHeld
<1>6. \A p \in Prio : run_list[p] # NULL => run_list[p] = p /\ p # c
  BY <1>1, <1>4 DEF QueueInv
<1>7. CASE to = c
  <2>1. \A p \in Prio : run_list'[p] = run_list[p]
    BY <1>1, <1>4, <1>6, <1>7
  <2> QED BY <1>1, <1>2, <1>3, <1>4, <1>5, <1>7, <2>1 DEF Sched!vars, ReadyMembers, Ready
<1>8. CASE to # c
  <2>1. run_list[to] = to
    BY <1>1, <1>4, <1>8
  <2>2. to \in Ready /\ Sched!Min(Ready) = to
    BY <1>1, <1>4, <2>1, LeastReady
  <2>3. Ready' = (Ready \ {to}) \union {c}
    <3>1. \A p \in Prio : run_list'[p] = IF p = to THEN NULL ELSE IF p = c THEN p ELSE run_list[p]
      BY <1>1, <1>4
    <3> QED BY <1>4, <1>6, <1>8, <3>1, Ranges DEF Ready
  <2>4. to < c
    BY <1>1, <1>4, <1>8, Ranges
  <2> QED
    BY <1>1, <1>2, <1>3, <1>4, <1>5, <2>2, <2>3, <2>4 DEF Sched!Preempt, ReadyMembers
<1> QED BY <1>7, <1>8

LEMMA PromiseStep ==
  ASSUME Disciplined, AllInv, [Next]_vars
  PROVE  [Sched!Next]_(Sched!vars)
<1> USE DEF AllInv
<1>1. CASE MutexCreate \/ Refused \/ UNCHANGED vars
  <2>1. UNCHANGED <<cur_tcb, run_list, tasks, sleep_queue, pHolding_Tcb, dev_queue, irq, isr,
                    exec, frame>>
    BY <1>1 DEF MutexCreate, Refused, vars, tcbs, devices, mutexes, history
  <2>2. UNCHANGED <<Running, Replacing>> /\ \A d \in Device : Head(d)' = Head(d)
    BY <2>1 DEF Running, Replacing, Head
  <2> QED BY <2>1, <2>2, Unseen
<1>2. CASE \E m \in Mutex : MutexLockFree(m) \/ MutexUnlock(m)
  BY <1>2, PromiseHold DEF Sched!Next
<1>3. CASE \E d \in Device : EventWait(d)
  BY <1>3, PromiseBlock DEF Sched!Next
<1>4. CASE \E n \in 0 .. OS_AVAIL_TASKS : TaskCreate(n)
  BY <1>4, PromiseDiscard DEF Sched!Next
<1>5. CASE DevInit \/ RunqueueInit \/ AllocateTcb
  <2>1. /\ frame[exec].pc \in {"dev_init", "rq_init", "alloc"}
        /\ frame'[exec].pc \in {"dev_init", "rq_init", "alloc"}
        /\ UNCHANGED <<cur_tcb, exec, pHolding_Tcb>>
    BY <1>5, DevInitEffect, RunqueueInitEffect, AllocateEffect
    DEF KernelInv, DevInit, RunqueueInit, AllocateTcb, At, mutexes
  <2>2. Replacing /\ Replacing' /\ UNCHANGED Running
    BY <2>1, RunningIs DEF Replacing
  <2>3. UNCHANGED <<Members, ReadyMembers, Waiting, Holding>>
    BY <2>1, <2>2 DEF Members, ReadyMembers, Waiting, Holding
  <2> QED BY <2>2, <2>3 DEF Sched!vars
<1>6. CASE AllocateIdle
  <2>1. tasks' \in SUBSET Tcb
    BY <1>6, IdleEffect
  <2> QED BY <1>6, <2>1, PromiseStart DEF Sched!Next
<1>7. CASE DispatchPick \/ DispatchCur
  <2>1. /\ UNCHANGED <<run_list, tasks, sleep_queue, pHolding_Tcb, dev_queue, irq, isr, exec>>
        /\ UNCHANGED Replacing
    BY <1>7, PickEffect, CurEffect
    DEF KernelInv, DispatchPick, DispatchCur, At, tcbs, devices, mutexes, history, Replacing
  <2>2. Running' = Running
    <3>1. CASE DispatchPick
      BY <2>1, <3>1, PickEffect, RunningIs DEF KernelInv, DispatchPick, At
    <3>2. CASE DispatchCur
      BY <2>1, <3>2, CurEffect, RunningIs DEF KernelInv, DispatchCur, At
    <3> QED BY <1>7, <3>1, <3>2
  <2>3. \A d \in Device : Head(d)' = Head(d)
    BY <2>1 DEF Head
  <2> QED BY <2>1, <2>2, <2>3, Unseen
<1>8. CASE DispatchRemove
  BY <1>8, PromiseDispatch DEF Sched!Next
<1>9. CASE DispatchSwitch
  <2>1. /\ UNCHANGED <<run_list, tasks, sleep_queue, pHolding_Tcb>> /\ Running' = Running
        /\ \A d \in Device : Head(d)' = Head(d)
        /\ UNCHANGED Replacing
    BY <1>9, SwitchStep DEF DispatchSwitch, At, tcbs, mutexes, history, Replacing
  <2> QED BY <2>1, Unseen
<1>10. CASE Tick \/ ScanDevice \/ CloseDevice \/ IrqReturn
  <2>1. UNCHANGED <<cur_tcb, run_list, tasks, sleep_queue, pHolding_Tcb, exec, frame>>
    BY <1>10 DEF Tick, ScanDevice, CloseDevice, IrqReturn, tcbs, mutexes, history
  <2>2. UNCHANGED <<Running, Replacing>>
    BY <2>1 DEF Running, Replacing
  <2>3. \A d \in Device : Head(d)' = Head(d)
    BY <1>10, InterruptStep
  <2> QED BY <2>1, <2>2, <2>3, Unseen
<1>11. CASE WakeSleeper
  BY <1>11, PromiseWake DEF Sched!Next
<1>12. CASE Preempt
  BY <1>12, PromisePreempt DEF Sched!Next
<1>13. ~Halted /\ ~TailScan /\ ~MutexLockTail /\ \A m \in Mutex : ~MutexLockWait(m)
  BY NoWait, Phases DEF KernelInv, TailScan, MutexLockTail, At, Halted, SchedInv, StacksInv
<1> QED
  BY <1>1, <1>2, <1>3, <1>4, <1>5, <1>6, <1>7, <1>8, <1>9, <1>10, <1>11, <1>12, <1>13
  DEF Next, UserCalls, CallSteps, IsrSteps

\* The scheduler's promise (README.md, mutex.c:93, ctx_switch.c:36-42,
\* device.c:114-140): every step of the kernel, whatever the interrupt finds it
\* doing, is one of Scheduler's or none.
THEOREM KeepsPromiseHolds == ASSUME Disciplined PROVE Spec => KeepsPromise
<1>1. Init => Sched!Init
  BY PromiseInit
<1>2. AllInv /\ [Next]_vars => [Sched!Next]_(Sched!vars)
  BY PromiseStep
<1> QED BY <1>1, <1>2, SchedulerInvariant, PTL DEF Spec, KeepsPromise, Sched!Spec

(***************************************************************************)
(* A mutex is handed over, whoever replaces the task set.  The one field   *)
(* sleep_queue of a tcb links the queues of the devices and those of the   *)
(* mutexes, so each is a line in which tasks stand: the queue of device d  *)
(* is line d, that of mutex m is line -1 - m.                              *)
(***************************************************************************)
Lines == -OS_NUM_MUTEX .. NUM_DEVICES - 1
OfMutex(m) == -1 - m

\* No line is a loop, and nobody stands in two of them.
Apart(links, heads) ==
  \A q \in Lines : \A t \in ChainIn(links, heads[q]) :
    /\ t \notin ChainIn(links, links[t])
    /\ \A r \in Lines : t \in ChainIn(links, heads[r]) => r = q

InNone(t, links, heads) == \A q \in Lines : t \notin ChainIn(links, heads[q])

HeadsOf == [Lines -> Tcb \union {NULL}]

\* What the code does to the links L and the heads H, which become M and K: the
\* first task of a line leaves it, a task goes to the front of one or behind its
\* last, the link of a task is set, a line is forgotten.
Unlinked(L, H, q, w, M, K) ==
  H[q] = w /\ M = [L EXCEPT ![w] = NULL] /\ K = [H EXCEPT ![q] = L[w]]
Pushed(L, H, q, t, M, K) == M = [L EXCEPT ![t] = H[q]] /\ K = [H EXCEPT ![q] = t]
Appended(L, H, q, last, t, M) ==
  last \in ChainIn(L, H[q]) /\ L[last] = NULL /\ L[t] = NULL /\ M = [L EXCEPT ![last] = t]
Relinked(L, t, v, M) == M = [L EXCEPT ![t] = v]
Cleared(H, q, K) == K = [H EXCEPT ![q] = NULL]

\* What follows a member of a chain is in the chain.
LEMMA ChainTail ==
  ASSUME NEW q \in LinksTo, NEW h \in Tcb \union {NULL}, NEW u \in ChainIn(q, h)
  PROVE  u \in Tcb /\ q[u] \in Tcb \union {NULL} /\ ChainIn(q, q[u]) \subseteq ChainIn(q, h)
<1>1. u \in Tcb /\ q[u] \in Tcb \union {NULL}
  BY ChainClosed DEF LinksTo
<1> QED BY <1>1, ChainClosed, ChainLeast

LEMMA EmptyChain ==
  ASSUME NEW q
  PROVE  ChainIn(q, NULL) = {}
  BY DEF ChainIn

\* The first of a line leaves it.
LEMMA Unlink ==
  ASSUME NEW L \in LinksTo, NEW H \in HeadsOf, Apart(L, H), NEW q \in Lines,
         NEW w \in Tcb, NEW M, NEW K, Unlinked(L, H, q, w, M, K)
  PROVE  /\ Apart(M, K)
         /\ w \in ChainIn(L, H[q]) /\ ChainIn(M, K[q]) = ChainIn(L, H[q]) \ {w}
         /\ \A r \in Lines : r # q => ChainIn(M, K[r]) = ChainIn(L, H[r])
<1> USE DEF Unlinked
<1>1. L[w] \in Tcb \union {NULL} /\ \A r \in Lines : H[r] \in Tcb \union {NULL}
  BY DEF LinksTo, HeadsOf
<1>2. ChainIn(L, H[q]) = {w} \union ChainIn(L, L[w])
  BY ChainStep
<1>3. w \notin ChainIn(L, L[w]) /\ \A r \in Lines : r # q => w \notin ChainIn(L, H[r])
  BY <1>2 DEF Apart
<1>4. /\ M \in LinksTo /\ \A u \in Tcb : M[u] = IF u = w THEN NULL ELSE L[u]
      /\ \A r \in Lines : K[r] = IF r = q THEN L[w] ELSE H[r]
  BY DEF LinksTo, HeadsOf
<1>5. ASSUME NEW h \in Tcb \union {NULL}, w \notin ChainIn(L, h)
      PROVE  ChainIn(M, h) = ChainIn(L, h)
  <2>1. \A u \in ChainIn(L, h) : M[u] = L[u]
    BY <1>4, <1>5, ChainClosed
  <2> QED BY <1>4, <2>1, ChainFrame
<1>6. /\ ChainIn(M, K[q]) = ChainIn(L, H[q]) \ {w}
      /\ \A r \in Lines : r # q => ChainIn(M, K[r]) = ChainIn(L, H[r])
  <2>1. ChainIn(M, L[w]) = ChainIn(L, L[w]) /\ K[q] = L[w]
    BY <1>1, <1>3, <1>4, <1>5
  <2>2. ASSUME NEW r \in Lines, r # q
        PROVE  ChainIn(M, K[r]) = ChainIn(L, H[r])
    BY <1>1, <1>3, <1>4, <1>5, <2>2
  <2>3. ChainIn(M, K[q]) = ChainIn(L, H[q]) \ {w}
    BY <1>2, <1>3, <2>1
  <2> QED BY <2>2, <2>3
<1>7. ASSUME NEW r \in Lines, NEW t \in ChainIn(M, K[r])
      PROVE  t \notin ChainIn(M, M[t]) /\ \A s \in Lines : t \in ChainIn(M, K[s]) => s = r
  <2>1. t \in ChainIn(L, H[r]) /\ t # w
    BY <1>3, <1>6, <1>7
  <2>2. t \in Tcb /\ L[t] \in Tcb \union {NULL} /\ M[t] = L[t]
    BY <1>1, <1>4, <2>1, ChainTail
  <2>3. ChainIn(M, L[t]) \subseteq ChainIn(L, L[t])
    <3>1. \A u \in Tcb : M[u] \in {L[u], NULL}
      BY <1>4
    <3> QED BY <1>4, <2>2, <3>1, ChainCut
  <2>4. t \notin ChainIn(L, L[t]) /\ \A s \in Lines : t \in ChainIn(L, H[s]) => s = r
    BY <2>1 DEF Apart
  <2> QED BY <1>6, <2>2, <2>3, <2>4
<1> QED BY <1>2, <1>6, <1>7 DEF Apart

\* A task that stands in no line goes to the front of one.
LEMMA Push ==
  ASSUME NEW L \in LinksTo, NEW H \in HeadsOf, Apart(L, H), NEW q \in Lines,
         NEW t \in Tcb, InNone(t, L, H), NEW M, NEW K, Pushed(L, H, q, t, M, K)
  PROVE  /\ Apart(M, K)
         /\ ChainIn(M, K[q]) = ChainIn(L, H[q]) \union {t}
         /\ \A r \in Lines : r # q => ChainIn(M, K[r]) = ChainIn(L, H[r])
<1> USE DEF Pushed
<1>1. \A r \in Lines : H[r] \in Tcb \union {NULL} /\ t \notin ChainIn(L, H[r])
  BY DEF HeadsOf, InNone
<1>2. /\ M \in LinksTo /\ \A u \in Tcb : M[u] = IF u = t THEN H[q] ELSE L[u]
      /\ \A r \in Lines : K[r] = IF r = q THEN t ELSE H[r]
  BY <1>1 DEF LinksTo, HeadsOf
<1>3. ASSUME NEW h \in Tcb \union {NULL}, t \notin ChainIn(L, h)
      PROVE  ChainIn(M, h) = ChainIn(L, h)
  <2>1. \A u \in ChainIn(L, h) : M[u] = L[u]
    BY <1>2, <1>3, ChainClosed
  <2> QED BY <1>2, <2>1, ChainFrame
<1>4. ChainIn(M, t) = {t} \union ChainIn(M, H[q])
  <2>1. M[t] = H[q] /\ M \in LinksTo
    BY <1>2
  <2>2. ChainIn(M, t) = {t} \union ChainIn(M, M[t])
    BY <2>1, ChainStep
  <2> QED BY <2>1, <2>2
<1>5. \A r \in Lines : ChainIn(M, H[r]) = ChainIn(L, H[r])
  BY <1>1, <1>3
<1>6. /\ ChainIn(M, K[q]) = ChainIn(L, H[q]) \union {t}
      /\ \A r \in Lines : r # q => ChainIn(M, K[r]) = ChainIn(L, H[r])
  BY <1>2, <1>4, <1>5
<1>7. ASSUME NEW r \in Lines, NEW u \in ChainIn(M, K[r])
      PROVE  u \notin ChainIn(M, M[u]) /\ \A s \in Lines : u \in ChainIn(M, K[s]) => s = r
  <2>1. CASE u = t
    BY <1>1, <1>2, <1>5, <1>6, <1>7, <2>1
  <2>2. CASE u # t
    <3>1. u \in ChainIn(L, H[r])
      BY <1>6, <1>7, <2>2
    <3>2. u \in Tcb /\ L[u] \in Tcb \union {NULL} /\ M[u] = L[u]
          /\ ChainIn(L, L[u]) \subseteq ChainIn(L, H[r])
      BY <1>1, <1>2, <2>2, <3>1, ChainTail
    <3>3. ChainIn(M, L[u]) = ChainIn(L, L[u])
      BY <1>1, <1>3, <3>2
    <3>4. u \notin ChainIn(L, L[u]) /\ \A s \in Lines : u \in ChainIn(L, H[s]) => s = r
      BY <3>1 DEF Apart
    <3> QED BY <1>6, <2>2, <3>2, <3>3, <3>4
  <2> QED BY <2>1, <2>2
<1> QED BY <1>6, <1>7 DEF Apart

\* A task that stands in no line goes behind the last of one.
LEMMA Behind ==
  ASSUME NEW L \in LinksTo, NEW H \in HeadsOf, Apart(L, H), NEW q \in Lines,
         NEW t \in Tcb, InNone(t, L, H), NEW last, NEW M, Appended(L, H, q, last, t, M)
  PROVE  /\ Apart(M, H)
         /\ ChainIn(M, H[q]) = ChainIn(L, H[q]) \union {t}
         /\ \A r \in Lines : r # q => ChainIn(M, H[r]) = ChainIn(L, H[r])
<1> USE DEF Appended
<1>1. \A r \in Lines : H[r] \in Tcb \union {NULL} /\ t \notin ChainIn(L, H[r])
  BY DEF HeadsOf, InNone
<1>2. last \in Tcb /\ last # t
  BY <1>1, ChainClosed
<1>3. /\ M \in LinksTo /\ \A u \in Tcb : M[u] = IF u = last THEN t ELSE L[u]
  BY <1>2 DEF LinksTo
<1>4. \A h \in Tcb \union {NULL} : ChainIn(M, h) \subseteq ChainIn(L, h) \union {t}
  <2> SUFFICES ASSUME NEW h \in Tcb \union {NULL}
               PROVE  ChainIn(M, h) \subseteq ChainIn(L, h) \union {t}
    OBVIOUS
  <2> DEFINE S == ChainIn(L, h) \union {t}
  <2>1. S \in SUBSET Tcb /\ (h # NULL => h \in S)
    BY ChainClosed
  <2>2. \A u \in S : M[u] # NULL => M[u] \in S
    BY <1>2, <1>3, ChainClosed
  <2> HIDE DEF S
  <2>3. ChainIn(M, h) \subseteq S
    BY <1>3, <2>1, <2>2, ChainLeast
  <2> QED BY <2>3 DEF S
<1>5. ChainIn(M, H[q]) = ChainIn(L, H[q]) \union {t}
  <2> DEFINE S == ChainIn(M, H[q])
  <2>1. /\ S \in SUBSET Tcb /\ (H[q] # NULL => H[q] \in S)
        /\ \A u \in S : M[u] # NULL => M[u] \in S
    BY <1>1, <1>3, ChainClosed
  <2>2. \A u \in S : L[u] # NULL => L[u] \in S
    BY <1>3, <2>1
  <2>3. ChainIn(L, H[q]) \subseteq S
    <3> HIDE DEF S
    <3> QED BY <1>1, <2>1, <2>2, ChainLeast
  <2>4. t \in S
    BY <1>2, <1>3, <2>1, <2>3, Ranges
  <2> QED BY <1>1, <1>4, <2>3, <2>4
<1>6. ASSUME NEW r \in Lines, r # q
      PROVE  ChainIn(M, H[r]) = ChainIn(L, H[r])
  <2>1. last \notin ChainIn(L, H[r])
    BY <1>6 DEF Apart
  <2>2. \A u \in ChainIn(L, H[r]) : M[u] = L[u]
    BY <1>1, <1>3, <2>1, ChainClosed
  <2> QED BY <1>1, <1>3, <2>2, ChainFrame
<1>7. ASSUME NEW r \in Lines, NEW u \in ChainIn(M, H[r])
      PROVE  u \notin ChainIn(M, M[u]) /\ \A s \in Lines : u \in ChainIn(M, H[s]) => s = r
  <2>1. CASE u = t
    <3>1. M[u] = NULL
      BY <1>2, <1>3, <2>1
    <3> QED BY <1>1, <1>5, <1>6, <1>7, <2>1, <3>1, EmptyChain
  <2>2. CASE u # t
    <3>1. u \in ChainIn(L, H[r])
      BY <1>5, <1>6, <1>7, <2>2
    <3>2. \A s \in Lines : u \in ChainIn(M, H[s]) => s = r
      BY <1>5, <1>6, <2>2, <3>1 DEF Apart
    <3>3. u \notin ChainIn(M, M[u])
      <4>1. CASE u = last
        <5>1. M[u] = t /\ M[t] = NULL
          BY <1>2, <1>3, <4>1
        <5>2. ChainIn(M, t) = {t} \union ChainIn(M, M[t])
          BY <1>3, ChainStep
        <5>3. ChainIn(M, t) = {t}
          BY <5>1, <5>2, EmptyChain
        <5>4. u \notin ChainIn(M, t)
          BY <2>2, <5>3
        <5> QED BY <5>1, <5>4
      <4>2. CASE u # last
        <5>1. u \in Tcb /\ L[u] \in Tcb \union {NULL} /\ M[u] = L[u]
          BY <1>1, <1>3, <3>1, <4>2, ChainTail
        <5>2. u \notin ChainIn(L, L[u])
          BY <3>1 DEF Apart
        <5> QED BY <1>4, <2>2, <5>1, <5>2
      <4> QED BY <4>1, <4>2
    <3> QED BY <3>2, <3>3
  <2> QED BY <2>1, <2>2
<1>8. Apart(M, H)
  BY <1>7 DEF Apart
<1> QED BY <1>5, <1>6, <1>8

\* The link of a task that stands in no line is set.
LEMMA Relink ==
  ASSUME NEW L \in LinksTo, NEW H \in HeadsOf, Apart(L, H), NEW t \in Tcb, InNone(t, L, H),
         NEW v \in Tcb \union {NULL}, NEW M, Relinked(L, t, v, M)
  PROVE  Apart(M, H) /\ \A r \in Lines : ChainIn(M, H[r]) = ChainIn(L, H[r])
<1> USE DEF Relinked
<1>1. \A r \in Lines : H[r] \in Tcb \union {NULL} /\ t \notin ChainIn(L, H[r])
  BY DEF HeadsOf, InNone
<1>2. M \in LinksTo /\ \A u \in Tcb : u # t => M[u] = L[u]
  BY DEF LinksTo
<1>3. ASSUME NEW h \in Tcb \union {NULL}, t \notin ChainIn(L, h)
      PROVE  ChainIn(M, h) = ChainIn(L, h)
  <2>1. \A u \in ChainIn(L, h) : M[u] = L[u]
    BY <1>2, <1>3, ChainClosed
  <2> QED BY <1>2, <2>1, ChainFrame
<1>4. \A r \in Lines : ChainIn(M, H[r]) = ChainIn(L, H[r])
  BY <1>1, <1>3
<1>5. ASSUME NEW r \in Lines, NEW u \in ChainIn(M, H[r])
      PROVE  u \notin ChainIn(M, M[u]) /\ \A s \in Lines : u \in ChainIn(M, H[s]) => s = r
  <2>1. u \in ChainIn(L, H[r]) /\ u # t
    BY <1>1, <1>4, <1>5
  <2>2. u \in Tcb /\ L[u] \in Tcb \union {NULL} /\ M[u] = L[u]
        /\ ChainIn(L, L[u]) \subseteq ChainIn(L, H[r])
    BY <1>1, <1>2, <2>1, ChainTail
  <2>3. ChainIn(M, L[u]) = ChainIn(L, L[u])
    BY <1>1, <1>3, <2>2
  <2>4. u \notin ChainIn(L, L[u]) /\ \A s \in Lines : u \in ChainIn(L, H[s]) => s = r
    BY <2>1 DEF Apart
  <2> QED BY <1>4, <2>2, <2>3, <2>4
<1> QED BY <1>4, <1>5 DEF Apart

\* A line is forgotten.
LEMMA Clear ==
  ASSUME NEW L \in LinksTo, NEW H \in HeadsOf, Apart(L, H), NEW q \in Lines,
         NEW K, Cleared(H, q, K)
  PROVE  /\ Apart(L, K) /\ ChainIn(L, K[q]) = {}
         /\ \A r \in Lines : r # q => ChainIn(L, K[r]) = ChainIn(L, H[r])
<1> USE DEF Cleared
<1>1. \A r \in Lines : K[r] = IF r = q THEN NULL ELSE H[r]
  BY DEF HeadsOf
<1> QED BY <1>1, EmptyChain DEF Apart

Heads == [q \in Lines |-> IF q >= 0 THEN Head(q) ELSE pSleep_queue[-1 - q]]
Line(q) == ChainIn(sleep_queue, Heads[q])

\* Task t is inside mutex_lock, from the call of dispatch_sleep on.
ToSwitch == {"ds_pick", "ds_remove", "ds_cur", "ds_switch"}
InLock(t) ==
  frame[t].pc = "locked" \/ (frame[t].pc \in ToSwitch /\ frame[t].after = "locked")

InRun(t) == \E p \in Prio : run_list[p] = t

\* Task t neither runs nor is ready to.
Out(t) == t # Running /\ ~InRun(t)

\* The points at which an interrupt may be taken and find something to wake.
Wakeful == {"user", "locked", "ds_pick", "ds_remove"}

(***************************************************************************)
(* The invariant.  Until a second task set is replaced,                    *)
(*                                                                         *)
(*  - the lines have no loops and share no task (LinesApart);              *)
(*  - a task in the run queue is in the slot of its priority, and the one  *)
(*    on the processor is in none (RunApart);                              *)
(*  - who stands in the line of a device is not ready and has a context to *)
(*    load, unless it has just stepped in and looks for a task to run      *)
(*    instead (SleepersSleep);                                             *)
(*  - who stands in the line of a mutex is not ready and is inside         *)
(*    mutex_lock for that mutex (WaitersWait);                             *)
(*  - conversely, a task inside mutex_lock stands in the line or has been  *)
(*    made the holder (WokenOwn), and the end of the line it is to join is *)
(*    one that the line has (TailReached);                                 *)
(*  - tasks not on the processor stopped where one can go on, and the      *)
(*    interrupt sees nothing half done (PausedWhere);                      *)
(*  - while task_create works nobody waits for a mutex, and from the       *)
(*    moment it fills the run queue nobody for a device (BuildsAlone).     *)
(***************************************************************************)
LinesApart == Apart(sleep_queue, Heads)

RunApart ==
  /\ \A p \in Prio : run_list[p] # NULL => cur_prio[run_list[p]] = p
  /\ ~Replacing /\ Running # NULL => ~InRun(Running)

SleepersSleep ==
  \A d \in Device : \A t \in Line(d) :
    /\ t = exec \/ context[t] = t
    /\ frame[t].pc \notin {"ds_pick", "ds_remove"} \/ t = exec => Out(t)

WaitersWait ==
  \A m \in Mutex : \A t \in Line(OfMutex(m)) :
    InLock(t) /\ frame[t].mx = m /\ Out(t)

WokenOwn ==
  \A t \in Stack : InLock(t) =>
    \E m \in Mutex : /\ frame[t].mx = m
                     /\ t \in Line(OfMutex(m)) \/ (bLock[m] /\ pHolding_Tcb[m] = t)

TailReached ==
  frame[exec].pc = "tail_scan" =>
    /\ sleep_queue[exec] = NULL
    /\ \E m \in Mutex : /\ frame[exec].mx = m /\ bLock[m]
                        /\ frame[exec].pick \in Line(OfMutex(m))

PausedWhere ==
  /\ \A s \in Stack : s # exec =>
       /\ frame[s].pc \in Wakeful
       /\ frame[s].pc \in {"ds_pick", "ds_remove"} => frame[s].after = "user"
  /\ frame[exec].pc = "tail_scan" => irq = "off"
  /\ frame[exec].pc \in ToSwitch /\ frame[exec].after = "locked" => irq = "off"
  /\ irq \in {"scan", "wake"} => frame[exec].pc \in Wakeful \union {"rq_init", "alloc"}
  /\ irq \in {"on", "off"} => isr = NoIsr

BuildsAlone ==
  /\ Replacing => NobodyInLock /\ NobodyWaits
  /\ frame[exec].pc = "dev_init" =>
       \A d \in Device : d < frame[exec].i => dev_queue[d] = NULL
  /\ frame[exec].pc \in {"rq_init", "alloc"} \/ (Dispatching /\ frame[exec].after = "never") =>
       isr.iter = NULL /\ ~isr.need_ctx /\ \A d \in Device : dev_queue[d] = NULL
  /\ frame[exec].pc = "alloc" =>
       /\ frame[exec].i <= frame[exec].n
       /\ \A p \in Prio : run_list[p] # NULL => Made(run_list[p])

HandInv ==
  /\ LinesApart /\ RunApart /\ SleepersSleep /\ WaitersWait /\ WokenOwn /\ TailReached
  /\ PausedWhere /\ BuildsAlone
  /\ creates = 0 => cur_tcb = NULL /\ frame[exec].pc = "user"

\* What the other proofs have established.
HandTypes == FrameInv /\ RestType /\ RunInv /\ MainInv /\ Guarded

(***************************************************************************)
(* The lines and their heads.                                              *)
(***************************************************************************)
LEMMA LinesAre ==
  /\ Device \subseteq Lines
  /\ \A m \in Mutex : OfMutex(m) \in Lines /\ OfMutex(m) \notin Device
  /\ \A m, k \in Mutex : OfMutex(m) = OfMutex(k) => m = k
  /\ \A q \in Lines : q \in Device \/ \E m \in Mutex : q = OfMutex(m)
  /\ \A d \in Device : Heads[d] = Head(d) /\ Heads'[d] = Head(d)'
  /\ \A m \in Mutex : Heads[OfMutex(m)] = pSleep_queue[m] /\ Heads'[OfMutex(m)] = pSleep_queue'[m]
<1>1. /\ Device \subseteq Lines
      /\ \A m \in Mutex : OfMutex(m) \in Lines /\ OfMutex(m) \notin Device
      /\ \A m, k \in Mutex : OfMutex(m) = OfMutex(k) => m = k
  BY KernelAssumption DEF Lines, OfMutex, Device, Mutex
<1>2. ASSUME NEW q \in Lines
      PROVE  q \in Device \/ \E m \in Mutex : q = OfMutex(m)
  <2>1. CASE q >= 0
    BY <2>1, KernelAssumption DEF Lines, Device
  <2>2. CASE ~(q >= 0)
    <3>1. -1 - q \in Mutex /\ q = OfMutex(-1 - q)
      BY <2>2, KernelAssumption DEF Lines, OfMutex, Mutex
    <3> QED BY <3>1
  <2> QED BY <2>1, <2>2
<1>3. ASSUME NEW d \in Device
      PROVE  Heads[d] = Head(d) /\ Heads'[d] = Head(d)'
  <2>1. d \in Lines /\ d >= 0
    BY <1>1, KernelAssumption DEF Device
  <2> QED BY <2>1 DEF Heads
<1>4. ASSUME NEW m \in Mutex
      PROVE  Heads[OfMutex(m)] = pSleep_queue[m] /\ Heads'[OfMutex(m)] = pSleep_queue'[m]
  <2>1. OfMutex(m) \in Lines /\ ~(OfMutex(m) >= 0) /\ -1 - OfMutex(m) = m
    BY <1>1, KernelAssumption DEF Mutex, OfMutex
  <2> QED BY <2>1 DEF Heads
<1> QED BY <1>1, <1>2, <1>3, <1>4

LEMMA HeadsType ==
  ASSUME RestType
  PROVE  /\ sleep_queue \in LinksTo /\ Heads \in HeadsOf
         /\ \A q \in Lines : Line(q) \subseteq Tcb
<1>1. sleep_queue \in LinksTo
  BY DEF RestType, LinksTo
<1>2. Heads \in HeadsOf
  <2>1. ASSUME NEW q \in Lines
        PROVE  Heads[q] \in Tcb \union {NULL}
    <3>1. CASE q \in Device
      BY <3>1, HeadType, LinesAre
    <3>2. ASSUME NEW m \in Mutex, q = OfMutex(m)
          PROVE  Heads[q] \in Tcb \union {NULL}
      BY <3>2, LinesAre DEF RestType
    <3> QED BY <3>1, <3>2, LinesAre
  <2>2. Heads = [q \in Lines |-> Heads[q]]
    BY DEF Heads
  <2> QED BY <2>1, <2>2 DEF HeadsOf
<1> QED BY <1>1, <1>2, ChainClosed DEF Line, HeadsOf

\* Two functions on the lines are the same when they are on each kind of line.
LEMMA SameHeads ==
  ASSUME NEW K, K = [q \in Lines |-> K[q]],
         \A d \in Device : Head(d)' = K[d],
         \A m \in Mutex : pSleep_queue'[m] = K[OfMutex(m)]
  PROVE  Heads' = K
<1>1. \A q \in Lines : Heads'[q] = K[q]
  BY LinesAre
<1>2. Heads' = [q \in Lines |-> Heads'[q]]
  BY DEF Heads
<1> QED BY <1>1, <1>2

LEMMA HeadsKept ==
  ASSUME UNCHANGED pSleep_queue, \A d \in Device : Head(d)' = Head(d)
  PROVE  Heads' = Heads
<1>1. Heads = [q \in Lines |-> Heads[q]]
  BY DEF Heads
<1> QED BY <1>1, SameHeads, LinesAre

LEMMA MutexHead ==
  ASSUME RestType, NEW m \in Mutex, NEW v, pSleep_queue' = [pSleep_queue EXCEPT ![m] = v],
         \A d \in Device : Head(d)' = Head(d)
  PROVE  Heads' = [Heads EXCEPT ![OfMutex(m)] = v]
<1> DEFINE K == [Heads EXCEPT ![OfMutex(m)] = v]
<1>1. K = [q \in Lines |-> K[q]]
  BY DEF Heads
<1>2. /\ \A d \in Device : K[d] = Head(d)
      /\ \A k \in Mutex : K[OfMutex(k)] = IF k = m THEN v ELSE pSleep_queue[k]
  BY HeadsType, LinesAre DEF HeadsOf
<1>3. \A k \in Mutex : pSleep_queue'[k] = IF k = m THEN v ELSE pSleep_queue[k]
  BY DEF RestType
<1> HIDE DEF K
<1>4. Heads' = K
  BY <1>1, <1>2, <1>3, SameHeads
<1> QED BY <1>4 DEF K

LEMMA DeviceHead ==
  ASSUME RestType, UNCHANGED pSleep_queue, NEW d \in Device, NEW v, Head(d)' = v,
         \A e \in Device : e # d => Head(e)' = Head(e)
  PROVE  Heads' = [Heads EXCEPT ![d] = v]
<1> DEFINE K == [Heads EXCEPT ![d] = v]
<1>1. K = [q \in Lines |-> K[q]]
  BY DEF Heads
<1>2. /\ \A e \in Device : K[e] = IF e = d THEN v ELSE Head(e)
      /\ \A k \in Mutex : K[OfMutex(k)] = pSleep_queue[k]
  BY HeadsType, LinesAre DEF HeadsOf
<1> HIDE DEF K
<1>3. Heads' = K
  BY <1>1, <1>2, SameHeads
<1> QED BY <1>3 DEF K

LEMMA NowFacts ==
  ASSUME HandTypes, HandInv, stopped = "run"
  PROVE  /\ exec \in Stack /\ frame[exec] \in Frames /\ frame \in [Stack -> Frames]
         /\ frame[exec].pc # "ds_switch" => cur_tcb = exec
         /\ exec = BootMain => frame[exec].pc \notin {"tail_scan", "locked"}
                               /\ frame[exec].after # "locked"
         /\ \A s \in Stack : s # exec => frame[s].pc # "ds_switch"
         /\ \A t \in Tcb : context[t] \in {LAUNCH, STALE, t}
         /\ \A q \in Lines : Line(q) \subseteq Tcb /\ Line(q) = ChainIn(sleep_queue, Heads[q])
  BY HeadsType DEF HandTypes, FrameInv, RunInv, OwnStack, OwnContexts, MainInv, Line

\* A task in user mode, or at the end of mutex_lock's search, is in no line.
LEMMA StandsApart ==
  ASSUME HandTypes, HandInv, stopped = "run", NEW t \in Tcb, t = exec, Running = t, ~InLock(t)
  PROVE  InNone(t, sleep_queue, Heads)
<1> SUFFICES ASSUME NEW q \in Lines, t \in Line(q)
             PROVE  FALSE
  BY DEF InNone, Line
<1>1. CASE q \in Device
  BY <1>1 DEF HandInv, SleepersSleep, Out
<1>2. ASSUME NEW m \in Mutex, q = OfMutex(m)
      PROVE  FALSE
  BY <1>2 DEF HandInv, WaitersWait
<1> QED BY <1>1, <1>2, LinesAre

(***************************************************************************)
(* Steps that move no task.                                                *)
(***************************************************************************)
StillBusy ==
  frame[exec].pc \in {"rq_init", "alloc"} \/ (Dispatching /\ frame[exec].after = "never")

LEMMA CalmStep ==
  ASSUME HandTypes, HandInv,
         UNCHANGED <<run_list, cur_tcb, exec, frame, sleep_queue, pSleep_queue, context, creates>>,
         \A d \in Device : Head(d)' = Head(d),
         \A p \in Prio : run_list[p] # NULL => cur_prio'[run_list[p]] = cur_prio[run_list[p]],
         \A m \in Mutex : bLock[m] => bLock'[m] /\ pHolding_Tcb'[m] = pHolding_Tcb[m],
         \A d \in Device : dev_queue[d] = NULL => dev_queue'[d] = NULL,
         StillBusy => isr'.iter = NULL /\ ~isr'.need_ctx,
         PausedWhere'
  PROVE  HandInv'
<1>1. Heads' = Heads /\ \A q \in Lines : Line(q)' = Line(q)
  BY HeadsKept DEF Line
<1>2. Running' = Running /\ Replacing' = Replacing /\ Dispatching' = Dispatching
      /\ NobodyInLock' = NobodyInLock /\ NobodyWaits' = NobodyWaits
  BY DEF Running, Replacing, Dispatching, NobodyInLock, NobodyWaits
<1>3. \A t : /\ InRun(t)' = InRun(t) /\ InLock(t)' = InLock(t) /\ Made(t)' = Made(t)
             /\ Out(t)' = Out(t)
  BY <1>2 DEF InRun, InLock, Made, Out
<1>4. LinesApart' /\ RunApart'
  BY <1>1, <1>2, <1>3 DEF HandInv, LinesApart, RunApart, InRun
<1>5. SleepersSleep' /\ WaitersWait'
  BY <1>1, <1>2, <1>3, LinesAre DEF HandInv, SleepersSleep, WaitersWait
<1>6. WokenOwn' /\ TailReached'
  <2>1. \A m \in Mutex : Line(OfMutex(m))' = Line(OfMutex(m))
    BY <1>1, LinesAre
  <2>2. WokenOwn'
    BY <1>3, <2>1 DEF HandInv, WokenOwn
  <2>3. TailReached'
    BY <2>1 DEF HandInv, TailReached
  <2> QED BY <2>2, <2>3
<1>7. BuildsAlone'
  BY <1>2, <1>3 DEF HandInv, BuildsAlone, StillBusy
<1> QED BY <1>4, <1>5, <1>6, <1>7 DEF HandInv

LEMMA LockFreeHands ==
  ASSUME HandTypes, HandInv, NEW m \in Mutex, MutexLockFree(m)
  PROVE  HandInv'
<1>1. /\ UNCHANGED <<run_list, cur_tcb, exec, frame, sleep_queue, pSleep_queue, context, creates,
                     dev_queue, isr, irq>>
      /\ stopped = "run" /\ frame[exec].pc = "user" /\ exec # BootMain /\ ~bLock[m]
      /\ bLock' = [bLock EXCEPT ![m] = TRUE]
      /\ pHolding_Tcb' = [pHolding_Tcb EXCEPT ![m] = cur_tcb]
      /\ cur_prio' = [cur_prio EXCEPT ![cur_tcb] = HIGHEST_PRIO]
  BY DEF MutexLockFree, Own, TaskCalls, AtCall, At, devices, history
<1>2. \A d \in Device : Head(d)' = Head(d)
  BY <1>1 DEF Head
<1>3. cur_tcb = exec /\ cur_tcb # NULL /\ Running = cur_tcb /\ ~Replacing
  BY <1>1, NowFacts, RunningIs DEF Replacing, BootMain, NULL
<1>4. ASSUME NEW p \in Prio, run_list[p] # NULL
      PROVE  cur_prio'[run_list[p]] = cur_prio[run_list[p]]
  <2>1. run_list[p] # cur_tcb
    BY <1>3, <1>4 DEF HandInv, RunApart, InRun
  <2> QED BY <1>1, <2>1 DEF HandTypes, RestType
<1>5. \A k \in Mutex : bLock[k] => bLock'[k] /\ pHolding_Tcb'[k] = pHolding_Tcb[k]
  BY <1>1 DEF HandTypes, RestType
<1>6. PausedWhere' /\ ~StillBusy
  BY <1>1 DEF HandInv, PausedWhere, StillBusy, Dispatching, NoIsr
<1> QED BY <1>1, <1>2, <1>4, <1>5, <1>6, CalmStep

LEMMA NothingHands ==
  ASSUME HandTypes, HandInv, MutexCreate \/ Refused \/ Halted \/ UNCHANGED vars
  PROVE  HandInv'
<1>1. UNCHANGED <<run_list, cur_tcb, exec, frame, sleep_queue, pSleep_queue, context, creates,
                  cur_prio, bLock, pHolding_Tcb, dev_queue, isr, irq>>
  BY DEF MutexCreate, Refused, Halted, vars, tcbs, devices, mutexes, history
<1>2. \A d \in Device : Head(d)' = Head(d)
  BY <1>1 DEF Head
<1>3. PausedWhere' /\ (StillBusy => isr'.iter = NULL /\ ~isr'.need_ctx)
  BY <1>1 DEF HandInv, PausedWhere, StillBusy, Dispatching, BuildsAlone, NoIsr
<1> QED BY <1>1, <1>2, <1>3, CalmStep

LEMMA InterruptHands ==
  ASSUME HandTypes, HandInv,
         IrqWindows \subseteq {"tail_scan", "locked", "rq_init", "alloc", "ds_pick", "ds_remove"},
         Tick \/ ScanDevice \/ CloseDevice \/ IrqReturn
  PROVE  HandInv'
<1>1. /\ UNCHANGED <<run_list, cur_tcb, exec, frame, sleep_queue, pSleep_queue, context, creates,
                     cur_prio, bLock, pHolding_Tcb>>
      /\ stopped = "run"
  BY DEF Tick, ScanDevice, CloseDevice, IrqReturn, InIsr, At, tcbs, mutexes, history
<1>2. dev_queue \in [Device -> Tcb \union {NULL}]
      /\ isr \in [dev : 0 .. NUM_DEVICES, iter : Tcb \union {NULL}, need_ctx : BOOLEAN]
      /\ (irq = "wake" => isr.dev \in Device)
  BY DEF HandTypes, RestType, IsrSound
<1>3. ASSUME NEW d \in Device
      PROVE  Head(d)' = Head(d)
  <2>1. CASE Tick
    BY <2>1 DEF Tick, Head
  <2>2. CASE ScanDevice
    BY <1>2, <2>2 DEF ScanDevice, InIsr, Head, devices
  <2>3. CASE CloseDevice
    BY <1>2, <2>3 DEF CloseDevice, InIsr, Head
  <2>4. CASE IrqReturn
    BY <2>4 DEF IrqReturn, InIsr, Head, devices
  <2> QED BY <2>1, <2>2, <2>3, <2>4
<1>4. \A d \in Device : dev_queue[d] = NULL => dev_queue'[d] = NULL
  BY <1>2 DEF Tick, ScanDevice, CloseDevice, IrqReturn, devices
<1>5. ASSUME StillBusy
      PROVE  isr'.iter = NULL /\ ~isr'.need_ctx
  <2>1. isr.iter = NULL /\ ~isr.need_ctx /\ \A d \in Device : dev_queue[d] = NULL
    BY <1>5 DEF HandInv, BuildsAlone, StillBusy
  <2>2. CASE ScanDevice
    <3>1. isr.dev \in Device
      BY <1>2, <2>2, KernelAssumption DEF ScanDevice, Device
    <3> QED BY <1>2, <2>1, <2>2, <3>1 DEF ScanDevice
  <2>3. CASE ~ScanDevice
    BY <1>2, <2>1, <2>3 DEF Tick, CloseDevice, IrqReturn, NoIsr
  <2> QED BY <2>2, <2>3
<1>6. PausedWhere'
  <2>1. irq' \in {"on", "off"} => isr' = NoIsr
    BY DEF Tick, ScanDevice, CloseDevice, IrqReturn, InIsr
  <2>2. irq # "off" /\ frame[exec].pc \in Wakeful \union {"rq_init", "alloc"}
    <3>1. CASE Tick
      <4>1. irq = "on" /\ frame[exec].pc \in {"user"} \union IrqWindows
        BY <3>1 DEF Tick, At
      <4> QED BY <4>1 DEF HandInv, PausedWhere, Wakeful
    <3>2. CASE ~Tick
      BY <3>2 DEF ScanDevice, CloseDevice, IrqReturn, InIsr, HandInv, PausedWhere
    <3> QED BY <3>1, <3>2
  <2> QED BY <1>1, <2>1, <2>2 DEF HandInv, PausedWhere
<1> QED BY <1>1, <1>3, <1>4, <1>5, <1>6, CalmStep

(***************************************************************************)
(* Steps on one stack.  A task in a line stays out of the run queue as     *)
(* long as it stands there, and who joins a line is the task on the        *)
(* processor.                                                              *)
(***************************************************************************)
LEMMA OthersStay ==
  ASSUME HandTypes, HandInv, stopped = "run", UNCHANGED <<exec, context>>,
         \A s \in Stack : s # exec => frame'[s] = frame[s],
         \A t \in Tcb : \A q \in Lines : t \in Line(q)' =>
           \/ t \in Line(q) /\ (Out(t) => Out(t)') /\ (t = exec => frame'[t].mx = frame[t].mx)
                /\ (InLock(t) => InLock(t)')
           \/ t = exec /\ Out(t)' /\ (q \in Device \/ (InLock(t)' /\ q = OfMutex(frame'[t].mx))),
         \A q \in Lines : Line(q)' \subseteq Tcb,
         frame'[exec].mx \in Mutex \/ ~InLock(exec)'
  PROVE  SleepersSleep' /\ WaitersWait'
<1>1. ASSUME NEW d \in Device, NEW t \in Line(d)'
      PROVE  /\ t = exec' \/ context'[t] = t
             /\ frame'[t].pc \notin {"ds_pick", "ds_remove"} \/ t = exec' => Out(t)'
  <2>1. d \in Lines /\ t \in Tcb /\ t \in Stack
    BY LinesAre, Ranges
  <2>2. CASE t = exec /\ Out(t)'
    BY <2>2
  <2>3. CASE t \in Line(d) /\ (Out(t) => Out(t)')
    BY <2>1, <2>3 DEF HandInv, SleepersSleep
  <2> QED BY <2>1, <2>2, <2>3
<1>2. ASSUME NEW m \in Mutex, NEW t \in Line(OfMutex(m))'
      PROVE  InLock(t)' /\ frame'[t].mx = m /\ Out(t)'
  <2>1. OfMutex(m) \in Lines /\ OfMutex(m) \notin Device /\ t \in Tcb /\ t \in Stack
    BY LinesAre, Ranges
  <2>2. CASE t = exec /\ Out(t)' /\ InLock(t)' /\ OfMutex(m) = OfMutex(frame'[t].mx)
    <3>1. frame'[t].mx \in Mutex
      BY <2>2
    <3> QED BY <2>2, <3>1, LinesAre
  <2>3. CASE t \in Line(OfMutex(m)) /\ (Out(t) => Out(t)') /\ (t = exec => frame'[t].mx = frame[t].mx)
             /\ (InLock(t) => InLock(t)')
    BY <2>1, <2>3 DEF HandInv, WaitersWait
  <2> QED BY <2>1, <2>2, <2>3
<1> QED BY <1>1, <1>2 DEF SleepersSleep, WaitersWait

\* A task joins the line of a mutex, or goes on looking for its end.
LEMMA Joins ==
  ASSUME HandTypes, HandInv, NEW m \in Mutex, stopped = "run", irq \in {"on", "off"}, irq' = "off",
         UNCHANGED <<cur_tcb, run_list, cur_prio, context, bLock, pHolding_Tcb, exec, isr, creates>>,
         frame[exec].pc \in {"user", "tail_scan"}, exec # BootMain, bLock[m],
         frame'[exec].mx = m, \A s \in Stack : s # exec => frame'[s] = frame[s],
         \/ /\ frame'[exec].pc = "ds_pick" /\ frame'[exec].after = "locked"
            /\ LinesApart' /\ Line(OfMutex(m))' = Line(OfMutex(m)) \union {exec}
            /\ \A r \in Lines : r # OfMutex(m) => Line(r)' = Line(r)
         \/ /\ frame'[exec].pc = "tail_scan" /\ sleep_queue'[exec] = NULL
            /\ frame'[exec].pick \in Line(OfMutex(m))
            /\ LinesApart' /\ \A r \in Lines : Line(r)' = Line(r)
  PROVE  HandInv'
<1>1. frame'[exec].pc \in {"ds_pick", "tail_scan"} /\ OfMutex(m) \in Lines
  BY LinesAre
<1>2. /\ cur_tcb = exec /\ exec \in Tcb /\ exec # NULL /\ exec \in Stack /\ Running = exec
      /\ ~Replacing /\ ~InLock(exec)
  BY NowFacts, RunningIs, Ranges DEF Replacing, BootMain, NULL, InLock, ToSwitch
<1>3. InNone(exec, sleep_queue, Heads)
  BY <1>2, StandsApart
<1>4. ~InRun(exec) /\ \A t \in Tcb : InRun(t)' <=> InRun(t)
  BY <1>2 DEF HandInv, RunApart, InRun
<1>8. \/ /\ frame'[exec].pc = "ds_pick" /\ InLock(exec)' /\ Running' = NULL
         /\ LinesApart' /\ Line(OfMutex(m))' = Line(OfMutex(m)) \union {exec}
         /\ \A r \in Lines : r # OfMutex(m) => Line(r)' = Line(r)
      \/ /\ frame'[exec].pc = "tail_scan" /\ ~InLock(exec)' /\ Running' = exec
         /\ frame'[exec].pick \in Line(OfMutex(m))
         /\ LinesApart' /\ \A r \in Lines : Line(r)' = Line(r)
  BY <1>2, RunningIs DEF InLock, ToSwitch
<1>9. \A t \in Tcb : Out(t) => Out(t)'
  <2>1. Running' \in {Running, NULL}
    BY <1>2, <1>8
  <2> QED BY <1>4, <2>1, Ranges DEF Out
<1>10. RunApart'
  BY <1>1, <1>2, <1>4, <1>8 DEF HandInv, RunApart, InRun
<1>11. exec \notin Line(OfMutex(m)) /\ \A r \in Lines : exec \notin Line(r) /\ Line(r) \subseteq Tcb
  BY <1>1, <1>3, HeadsType DEF InNone, Line, HandTypes
<1>12. SleepersSleep' /\ WaitersWait'
  <2>1. ASSUME NEW t \in Tcb, NEW q \in Lines, t \in Line(q)'
        PROVE  \/ t \in Line(q) /\ (Out(t) => Out(t)') /\ (t = exec => frame'[t].mx = frame[t].mx)
                    /\ (InLock(t) => InLock(t)')
               \/ t = exec /\ Out(t)' /\ (q \in Device \/ (InLock(t)' /\ q = OfMutex(frame'[t].mx)))
    <3>1. CASE t = exec
      <4>1. InLock(exec)' /\ Running' = NULL /\ q = OfMutex(m)
        BY <1>8, <1>11, <2>1, <3>1
      <4>2. Out(t)'
        BY <1>4, <2>1, <3>1, <4>1, Ranges DEF Out
      <4> QED BY <3>1, <4>1, <4>2
    <3>2. CASE t # exec
      <4>1. t \in Line(q) /\ frame'[t] = frame[t]
        BY <1>8, <2>1, <3>2, Ranges
      <4> QED BY <1>9, <3>2, <4>1 DEF InLock
    <3> QED BY <3>1, <3>2
  <2>2. \A q \in Lines : Line(q)' \subseteq Tcb
    BY <1>2, <1>8, <1>11
  <2> QED BY <2>1, <2>2, OthersStay
<1>13. WokenOwn'
  <2> SUFFICES ASSUME NEW t \in Stack, InLock(t)'
               PROVE  \E k \in Mutex : /\ frame'[t].mx = k
                                       /\ t \in Line(OfMutex(k))' \/ (bLock[k] /\ pHolding_Tcb[k] = t)
    BY DEF WokenOwn
  <2>1. CASE t = exec
    <3>1. t \in Line(OfMutex(m))'
      BY <1>1, <1>8, <2>1
    <3> QED BY <2>1, <3>1
  <2>2. CASE t # exec
    <3>1. InLock(t) /\ frame'[t].mx = frame[t].mx
      BY <2>2 DEF InLock
    <3>2. PICK k \in Mutex : /\ frame[t].mx = k
                             /\ t \in Line(OfMutex(k)) \/ (bLock[k] /\ pHolding_Tcb[k] = t)
      BY <3>1 DEF HandInv, WokenOwn
    <3>3. t \in Line(OfMutex(k)) => t \in Line(OfMutex(k))'
      BY <1>8, LinesAre
    <3> QED BY <3>1, <3>2, <3>3
  <2> QED BY <2>1, <2>2
<1>14. TailReached'
  <2>1. frame'[exec].pc = "tail_scan" => frame'[exec].pick \in Line(OfMutex(m))'
    BY <1>1, <1>8
  <2> QED BY <1>1, <2>1 DEF TailReached
<1>15. PausedWhere'
  BY <1>1 DEF HandInv, PausedWhere
<1>16. BuildsAlone'
  BY <1>1 DEF BuildsAlone, Replacing, Dispatching
<1>17. creates' # 0
  BY <1>2 DEF HandInv
<1> QED BY <1>8, <1>10, <1>12, <1>13, <1>14, <1>15, <1>16, <1>17 DEF HandInv

(***************************************************************************)
(* mutex_lock, for a mutex that is taken.                                  *)
(***************************************************************************)
LEMMA LockWaitEffect ==
  ASSUME HandTypes, NEW m \in Mutex, MutexLockWait(m)
  PROVE  /\ frame'[exec].mx = m
         /\ \A s \in Stack : s # exec => frame'[s] = frame[s]
         /\ \/ /\ pSleep_queue[m] = NULL
               /\ pSleep_queue' = [pSleep_queue EXCEPT ![m] = cur_tcb]
               /\ frame'[exec].pc = "ds_pick" /\ frame'[exec].after = "locked"
            \/ /\ pSleep_queue[m] # NULL /\ UNCHANGED pSleep_queue
               /\ frame'[exec].pc = "tail_scan" /\ frame'[exec].pick = pSleep_queue[m]
<1> DEFINE f == [UserFrame EXCEPT !.mx = m]
<1>1. f \in Frames /\ f.mx = m
  BY UserFrameType, FrameTypes DEF Points, UserFrame
<1>2. CASE pSleep_queue[m] = NULL
  <2>1. Dispatch(f, "locked") /\ pSleep_queue' = [pSleep_queue EXCEPT ![m] = cur_tcb]
    BY <1>2 DEF MutexLockWait
  <2> HIDE DEF f
  <2> QED BY <1>1, <1>2, <2>1, DispatchEffect DEF HandTypes
<1>3. CASE pSleep_queue[m] # NULL
  <2> DEFINE g == [f EXCEPT !.pc = "tail_scan", !.pick = pSleep_queue[m]]
  <2>1. GoOn(g) /\ UNCHANGED pSleep_queue
    BY <1>3 DEF MutexLockWait
  <2> HIDE DEF f
  <2>2. pSleep_queue[m] \in Prio /\ "tail_scan" \in Points
    BY <1>3, Ranges DEF HandTypes, RestType, Points
  <2>3. g \in Frames
    BY <1>1, <2>2, FrameTypes
  <2>4. g.pc = "tail_scan" /\ g.pick = pSleep_queue[m] /\ g.mx = m
    BY <1>1 DEF Frames
  <2> HIDE DEF g
  <2> QED BY <1>3, <2>1, <2>3, <2>4, GoOnEffect DEF HandTypes
<1> QED BY <1>2, <1>3

LEMMA LockWaitHands ==
  ASSUME HandTypes, HandInv, NEW m \in Mutex, MutexLockWait(m)
  PROVE  HandInv'
<1>1. /\ UNCHANGED <<cur_tcb, run_list, cur_prio, context, dev_queue, bLock, pHolding_Tcb, exec,
                     isr, creates>>
      /\ stopped = "run" /\ irq \in {"on", "off"} /\ irq' = "off" /\ frame[exec].pc = "user"
      /\ exec # BootMain /\ bLock[m]
      /\ sleep_queue' = [sleep_queue EXCEPT ![cur_tcb] = NULL]
  BY DEF MutexLockWait, TaskCalls, AtCall, At, devices, history
<1>2. cur_tcb = exec /\ exec \in Tcb /\ Running = exec /\ ~InLock(exec)
  BY <1>1, NowFacts, RunningIs, Ranges DEF BootMain, NULL, InLock, ToSwitch
<1>3. InNone(exec, sleep_queue, Heads)
  BY <1>1, <1>2, StandsApart
<1>4. \A d \in Device : Head(d)' = Head(d)
  BY <1>1 DEF Head
<1>5. frame'[exec].mx = m /\ \A s \in Stack : s # exec => frame'[s] = frame[s]
  BY LockWaitEffect
<1>6. /\ Apart(sleep_queue, Heads) /\ OfMutex(m) \in Lines /\ Heads[OfMutex(m)] = pSleep_queue[m]
      /\ sleep_queue \in LinksTo /\ Heads \in HeadsOf
  BY LinesAre, HeadsType DEF HandInv, LinesApart, HandTypes
<1>7. CASE pSleep_queue[m] = NULL
  <2>1. /\ pSleep_queue' = [pSleep_queue EXCEPT ![m] = exec]
        /\ frame'[exec].pc = "ds_pick" /\ frame'[exec].after = "locked"
    BY <1>2, <1>7, LockWaitEffect
  <2>2. Heads' = [Heads EXCEPT ![OfMutex(m)] = exec]
    BY <1>4, <2>1, MutexHead DEF HandTypes
  <2>3. sleep_queue' = [sleep_queue EXCEPT ![exec] = Heads[OfMutex(m)]]
    BY <1>1, <1>2, <1>6, <1>7
  <2> DEFINE q == OfMutex(m)
  <2>4. q \in Lines /\ Pushed(sleep_queue, Heads, q, exec, sleep_queue', Heads')
    BY <1>6, <2>2, <2>3 DEF Pushed
  <2> HIDE DEF q
  <2>5. /\ Apart(sleep_queue', Heads')
        /\ ChainIn(sleep_queue', Heads'[q]) = ChainIn(sleep_queue, Heads[q]) \union {exec}
        /\ \A r \in Lines : r # q => ChainIn(sleep_queue', Heads'[r]) = ChainIn(sleep_queue, Heads[r])
    BY <1>2, <1>3, <1>6, <2>4, Push
  <2>6. /\ LinesApart' /\ Line(OfMutex(m))' = Line(OfMutex(m)) \union {exec}
        /\ \A r \in Lines : r # OfMutex(m) => Line(r)' = Line(r)
    BY <2>5 DEF Line, LinesApart, q
  <2> QED BY <1>1, <1>5, <2>1, <2>6, Joins
<1>8. CASE pSleep_queue[m] # NULL
  <2>1. UNCHANGED pSleep_queue /\ frame'[exec].pc = "tail_scan"
        /\ frame'[exec].pick = pSleep_queue[m]
    BY <1>8, LockWaitEffect
  <2>2. Heads' = Heads
    BY <1>4, <2>1, HeadsKept
  <2>3. LinesApart' /\ \A r \in Lines : Line(r)' = Line(r)
    <3>1. Relinked(sleep_queue, exec, NULL, sleep_queue')
      BY <1>1, <1>2 DEF Relinked
    <3> QED BY <1>2, <1>3, <1>6, <2>2, <3>1, Relink DEF Line, LinesApart
  <2>4. frame'[exec].pick \in Line(OfMutex(m))
    BY <1>6, <1>8, <2>1, ChainClosed DEF Line, HeadsOf
  <2>5. sleep_queue'[exec] = NULL
    BY <1>1, <1>2 DEF HandTypes, RestType
  <2> QED BY <1>1, <1>5, <2>1, <2>3, <2>4, <2>5, Joins
<1> QED BY <1>7, <1>8

LEMMA TailEffect ==
  ASSUME HandTypes, TailScan
  PROVE  /\ frame'[exec].mx = frame[exec].mx
         /\ \A s \in Stack : s # exec => frame'[s] = frame[s]
         /\ \/ /\ sleep_queue[frame[exec].pick] # NULL /\ UNCHANGED sleep_queue
               /\ frame'[exec].pc = "tail_scan"
               /\ frame'[exec].pick = sleep_queue[frame[exec].pick]
            \/ /\ sleep_queue[frame[exec].pick] = NULL
               /\ sleep_queue' = [sleep_queue EXCEPT ![frame[exec].pick] = cur_tcb]
               /\ frame'[exec].pc = "ds_pick" /\ frame'[exec].after = "locked"
<1>1. frame[exec].pick \in Tcb /\ frame[exec].pc = "tail_scan" /\ frame[exec] \in Frames
  BY DEF TailScan, At, HandTypes, FrameInv, PicksTask
<1> DEFINE k == sleep_queue[frame[exec].pick]
           f == [frame[exec] EXCEPT !.pick = k]
<1>2. k \in Prio /\ "tail_scan" \in Points
  BY <1>1, Ranges DEF HandTypes, RestType, Points
<1>3. f \in Frames /\ f.pc = "tail_scan" /\ f.pick = k /\ f.mx = frame[exec].mx
  <2>1. f \in Frames
    BY <1>1, <1>2, FrameTypes
  <2> QED BY <1>1, <2>1 DEF Frames
<1>4. \/ k # NULL /\ GoOn(f) /\ UNCHANGED sleep_queue
      \/ /\ k = NULL /\ Dispatch(frame[exec], "locked")
         /\ sleep_queue' = [sleep_queue EXCEPT ![frame[exec].pick] = cur_tcb]
  BY DEF TailScan
<1>5. CASE k # NULL /\ GoOn(f) /\ UNCHANGED sleep_queue
  <2> HIDE DEF f
  <2> QED BY <1>3, <1>5, GoOnEffect DEF HandTypes
<1>6. CASE /\ k = NULL /\ Dispatch(frame[exec], "locked")
           /\ sleep_queue' = [sleep_queue EXCEPT ![frame[exec].pick] = cur_tcb]
  BY <1>1, <1>6, DispatchEffect DEF HandTypes
<1> QED BY <1>4, <1>5, <1>6

LEMMA TailHands ==
  ASSUME HandTypes, HandInv, TailScan
  PROVE  HandInv'
<1>1. /\ UNCHANGED <<cur_tcb, run_list, cur_prio, context, dev_queue, bLock, pHolding_Tcb, exec,
                     isr, irq, pSleep_queue, creates>>
      /\ stopped = "run" /\ frame[exec].pc = "tail_scan"
  BY DEF TailScan, At, devices, mutexes, history
<1>2. /\ irq = "off" /\ sleep_queue[exec] = NULL /\ exec # BootMain
      /\ cur_tcb = exec /\ exec \in Tcb /\ Running = exec /\ ~InLock(exec)
  BY <1>1, NowFacts, RunningIs, Ranges
  DEF BootMain, NULL, InLock, ToSwitch, HandInv, PausedWhere, TailReached
<1>3. PICK m \in Mutex : /\ frame[exec].mx = m /\ bLock[m]
                         /\ frame[exec].pick \in Line(OfMutex(m))
  BY <1>1 DEF HandInv, TailReached
<1>4. InNone(exec, sleep_queue, Heads)
  BY <1>1, <1>2, StandsApart
<1>5. frame'[exec].mx = m /\ \A s \in Stack : s # exec => frame'[s] = frame[s]
  BY <1>3, TailEffect
<1>6. Heads' = Heads
  BY <1>1, HeadsKept DEF Head
<1>7. /\ Apart(sleep_queue, Heads) /\ OfMutex(m) \in Lines
      /\ sleep_queue \in LinksTo /\ Heads \in HeadsOf
  BY LinesAre, HeadsType DEF HandInv, LinesApart, HandTypes
<1>8. CASE sleep_queue[frame[exec].pick] # NULL
  <2>1. /\ UNCHANGED sleep_queue /\ frame'[exec].pc = "tail_scan"
        /\ frame'[exec].pick = sleep_queue[frame[exec].pick]
    BY <1>8, TailEffect
  <2>2. LinesApart' /\ \A r \in Lines : Line(r)' = Line(r)
    BY <1>6, <1>7, <2>1 DEF Line, LinesApart
  <2>3. frame'[exec].pick \in Line(OfMutex(m))
    BY <1>3, <1>7, <1>8, <2>1, ChainClosed DEF Line, HeadsOf
  <2> QED BY <1>1, <1>2, <1>3, <1>5, <2>1, <2>2, <2>3, Joins
<1>9. CASE sleep_queue[frame[exec].pick] = NULL
  <2>1. /\ sleep_queue' = [sleep_queue EXCEPT ![frame[exec].pick] = exec]
        /\ frame'[exec].pc = "ds_pick" /\ frame'[exec].after = "locked"
    BY <1>2, <1>9, TailEffect
  <2> DEFINE q == OfMutex(m)
  <2>2. q \in Lines /\ Appended(sleep_queue, Heads, q, frame[exec].pick, exec, sleep_queue')
    BY <1>2, <1>3, <1>7, <1>9, <2>1 DEF Appended, Line
  <2> HIDE DEF q
  <2>3. /\ Apart(sleep_queue', Heads)
        /\ ChainIn(sleep_queue', Heads[q]) = ChainIn(sleep_queue, Heads[q]) \union {exec}
        /\ \A r \in Lines : r # q => ChainIn(sleep_queue', Heads[r]) = ChainIn(sleep_queue, Heads[r])
    BY <1>2, <1>4, <1>7, <2>2, Behind
  <2>4. /\ LinesApart' /\ Line(OfMutex(m))' = Line(OfMutex(m)) \union {exec}
        /\ \A r \in Lines : r # OfMutex(m) => Line(r)' = Line(r)
    BY <1>6, <2>3 DEF Line, LinesApart, q
  <2> QED BY <1>1, <1>2, <1>3, <1>5, <2>1, <2>4, Joins
<1> QED BY <1>8, <1>9

\* The lines stay as they are when neither the links nor the heads change.
LEMMA SameLines ==
  ASSUME HandInv, UNCHANGED <<sleep_queue, pSleep_queue>>, \A d \in Device : Head(d)' = Head(d)
  PROVE  /\ LinesApart' /\ \A q \in Lines : Line(q)' = Line(q)
         /\ \A m \in Mutex : Line(OfMutex(m))' = Line(OfMutex(m))
<1>1. Heads' = Heads /\ \A q \in Lines : Line(q)' = Line(q)
  BY HeadsKept DEF Line
<1>2. LinesApart'
  BY <1>1 DEF HandInv, LinesApart
<1> QED BY <1>1, <1>2, LinesAre

(***************************************************************************)
(* dispatch_sleep and dispatch_nosave, up to the switch of stacks.         *)
(***************************************************************************)
LEMMA DispatchGoesOn ==
  ASSUME HandTypes, HandInv, stopped = "run", irq \in {"on", "off"},
         UNCHANGED <<exec, context, creates, sleep_queue, pSleep_queue, dev_queue, isr, irq, bLock,
                     pHolding_Tcb>>,
         frame[exec].pc \in ToSwitch, frame'[exec].pc \in ToSwitch,
         frame'[exec].after = frame[exec].after, frame'[exec].mx = frame[exec].mx,
         \A s \in Stack : s # exec => frame'[s] = frame[s],
         RunApart', \A t \in Tcb : Out(t) => Out(t)'
  PROVE  HandInv'
<1>1. exec \in Stack /\ creates # 0
  BY NowFacts DEF HandInv, ToSwitch
<1>2. /\ LinesApart' /\ \A q \in Lines : Line(q)' = Line(q) /\ Line(q) \subseteq Tcb
      /\ \A m \in Mutex : Line(OfMutex(m))' = Line(OfMutex(m))
  BY SameLines, NowFacts DEF Head
<1>3. \A s \in Stack : (InLock(s)' <=> InLock(s)) /\ frame'[s].mx = frame[s].mx
  BY <1>1 DEF InLock, ToSwitch
<1>4. SleepersSleep' /\ WaitersWait'
  <2>1. ASSUME NEW d \in Device, NEW t \in Line(d)
        PROVE  /\ t = exec' \/ context'[t] = t
               /\ frame'[t].pc \notin {"ds_pick", "ds_remove"} \/ t = exec' => Out(t)'
    <3>1. t \in Tcb /\ t \in Stack
      BY <1>2, <2>1, LinesAre, Ranges
    <3>2. t = exec \/ frame'[t] = frame[t]
      BY <3>1
    <3> QED BY <2>1, <3>1, <3>2 DEF HandInv, SleepersSleep
  <2>2. ASSUME NEW m \in Mutex, NEW t \in Line(OfMutex(m))
        PROVE  InLock(t)' /\ frame'[t].mx = m /\ Out(t)'
    <3>1. t \in Tcb /\ t \in Stack
      BY <1>2, <2>2, LinesAre, Ranges
    <3> QED BY <1>3, <2>2, <3>1 DEF HandInv, WaitersWait
  <2> QED BY <1>2, <2>1, <2>2, LinesAre DEF SleepersSleep, WaitersWait
<1>5. WokenOwn'
  BY <1>2, <1>3 DEF HandInv, WokenOwn
<1>6. TailReached' /\ PausedWhere'
  BY <1>1 DEF TailReached, ToSwitch, HandInv, PausedWhere
<1>7. BuildsAlone'
  <2>1. NobodyInLock /\ NobodyWaits => NobodyInLock' /\ NobodyWaits'
    BY <1>1 DEF NobodyInLock, NobodyWaits, ToSwitch
  <2>2. Replacing' <=> Replacing
    BY DEF Replacing, ToSwitch
  <2> QED BY <2>1, <2>2 DEF HandInv, BuildsAlone, ToSwitch, Dispatching
<1> QED BY <1>1, <1>2, <1>4, <1>5, <1>6, <1>7 DEF HandInv

LEMMA PickHands ==
  ASSUME HandTypes, HandInv, DispatchPick
  PROVE  HandInv'
<1>1. /\ UNCHANGED <<exec, context, creates, sleep_queue, pSleep_queue, dev_queue, isr, irq, bLock,
                     pHolding_Tcb, run_list, cur_prio, stopped>>
      /\ stopped = "run" /\ irq \in {"on", "off"} /\ frame[exec].pc = "ds_pick"
  BY DEF DispatchPick, At, tcbs, devices, mutexes, history
<1>2. /\ frame'[exec].pc = "ds_remove"
      /\ frame'[exec].after = frame[exec].after /\ frame'[exec].mx = frame[exec].mx
      /\ \A s \in Stack : s # exec => frame'[s] = frame[s]
  BY PickEffect DEF HandTypes
<1>3. Running = NULL /\ Running' = NULL
  BY <1>1, <1>2, RunningIs
<1>4. RunApart' /\ \A t \in Tcb : Out(t) => Out(t)'
  BY <1>1, <1>3 DEF HandInv, RunApart, Out, InRun
<1> QED BY <1>1, <1>2, <1>4, DispatchGoesOn DEF ToSwitch

LEMMA RemoveHands ==
  ASSUME HandTypes, HandInv, DispatchRemove, stopped' = "run"
  PROVE  HandInv'
<1>1. /\ UNCHANGED <<exec, context, creates, sleep_queue, pSleep_queue, dev_queue, isr, irq, bLock,
                     pHolding_Tcb, cur_prio>>
      /\ stopped = "run" /\ irq \in {"on", "off"} /\ frame[exec].pc = "ds_remove"
      /\ run_list[frame[exec].pick] # NULL
  BY DEF DispatchRemove, At, tcbs, devices, mutexes, history
<1>2. /\ frame'[exec].pc = "ds_cur" /\ frame'[exec].pick = run_list[frame[exec].pick]
      /\ frame'[exec].after = frame[exec].after /\ frame'[exec].mx = frame[exec].mx
      /\ \A s \in Stack : s # exec => frame'[s] = frame[s]
      /\ run_list' = Drop(run_list, frame[exec].pick)
  BY <1>1, RemoveEffect DEF HandTypes
<1>3. PICK p \in Prio : p = frame[exec].pick
  BY NowFacts, <1>1 DEF Frames
<1>4. run_list \in Queues /\ \A k \in Prio : run_list'[k] = IF k = p THEN NULL ELSE run_list[k]
  BY <1>2, <1>3 DEF HandTypes, RestType, Queues, Drop
<1>5. Running = NULL /\ Running' = run_list[p]
  BY <1>1, <1>2, <1>3, RunningIs
<1>6. \A k \in Prio : run_list[k] # NULL => cur_prio[run_list[k]] = k
  BY DEF HandInv, RunApart
<1>7. RunApart'
  <2>1. ~InRun(Running)'
    <3> SUFFICES ASSUME NEW k \in Prio, run_list'[k] = run_list[p]
                 PROVE  FALSE
      BY <1>5 DEF InRun
    <3> QED BY <1>1, <1>3, <1>4, <1>6
  <2> QED BY <1>1, <1>4, <1>6, <2>1, Ranges DEF RunApart
<1>8. ASSUME NEW t \in Tcb, Out(t)
      PROVE  Out(t)'
  BY <1>3, <1>4, <1>5, <1>8, Ranges DEF Out, InRun
<1> QED BY <1>1, <1>2, <1>7, <1>8, DispatchGoesOn DEF ToSwitch

LEMMA CurHands ==
  ASSUME HandTypes, HandInv, DispatchCur
  PROVE  HandInv'
<1>1. /\ UNCHANGED <<exec, context, creates, sleep_queue, pSleep_queue, dev_queue, isr, irq, bLock,
                     pHolding_Tcb, run_list, cur_prio, stopped>>
      /\ stopped = "run" /\ irq \in {"on", "off"} /\ frame[exec].pc = "ds_cur"
      /\ cur_tcb' = frame[exec].pick
  BY DEF DispatchCur, At, tcbs, devices, mutexes, history
<1>2. /\ frame'[exec].pc = "ds_switch" /\ frame'[exec].pick = frame[exec].pick
      /\ frame'[exec].after = frame[exec].after /\ frame'[exec].mx = frame[exec].mx
      /\ \A s \in Stack : s # exec => frame'[s] = frame[s]
  BY CurEffect DEF HandTypes
<1>3. Running' = Running
  BY <1>1, <1>2, RunningIs
<1>4. Replacing' <=> Replacing
  BY <1>1, <1>2 DEF Replacing
<1>5. RunApart' /\ \A t \in Tcb : Out(t) => Out(t)'
  BY <1>1, <1>3, <1>4 DEF HandInv, RunApart, Out, InRun
<1> QED BY <1>1, <1>2, <1>5, DispatchGoesOn DEF ToSwitch

(***************************************************************************)
(* Calls that end in user mode, or in a dispatcher for good reason.        *)
(***************************************************************************)
LEMMA Settled ==
  ASSUME HandTypes, HandInv, stopped = "run", irq \in {"on", "off"}, irq' \in {"on", "off"},
         UNCHANGED <<exec, isr, creates>>, exec # BootMain,
         frame'[exec].pc = "user" \/ (frame'[exec].pc = "ds_pick" /\ frame'[exec].after = "user"),
         \A s \in Stack : s # exec => frame'[s] = frame[s]
  PROVE  TailReached' /\ PausedWhere' /\ BuildsAlone' /\ creates' # 0 /\ ~Replacing'
<1>1. PausedWhere' /\ TailReached'
  BY DEF HandInv, PausedWhere, TailReached, ToSwitch
<1>2. BuildsAlone' /\ ~Replacing'
  BY DEF BuildsAlone, Replacing, Dispatching
<1>3. creates # 0
  <2>1. frame[exec].pc = "user" => cur_tcb = exec
    BY NowFacts
  <2> QED BY <2>1 DEF HandInv, BootMain, NULL
<1> QED BY <1>1, <1>2, <1>3

\* The waiter that comes back owns the mutex already.
LEMMA LockTailHands ==
  ASSUME HandTypes, HandInv, MutexLockTail
  PROVE  HandInv'
<1>1. /\ UNCHANGED <<cur_tcb, run_list, sleep_queue, context, dev_queue, bLock, pSleep_queue, exec,
                     isr, creates>>
      /\ stopped = "run" /\ irq \in {"on", "off"} /\ irq' = "on" /\ frame[exec].pc = "locked"
      /\ pHolding_Tcb' = [pHolding_Tcb EXCEPT ![frame[exec].mx] = exec]
      /\ cur_prio' = [cur_prio EXCEPT ![exec] = HIGHEST_PRIO]
      /\ GoOn(UserFrame)
  BY DEF MutexLockTail, Own, At, devices, history
<1>2. /\ frame'[exec].pc = "user" /\ \A s \in Stack : s # exec => frame'[s] = frame[s]
  <2>1. UserFrame.pc = "user"
    BY DEF UserFrame
  <2> QED BY <1>1, <2>1, UserFrameType, GoOnEffect DEF HandTypes
<1>3. /\ exec # BootMain /\ cur_tcb = exec /\ exec \in Tcb /\ exec \in Stack
      /\ Running = exec /\ Running' = exec /\ InLock(exec) /\ ~InLock(exec)' /\ ~Replacing
  BY <1>1, <1>2, NowFacts, RunningIs, Ranges DEF BootMain, NULL, InLock, ToSwitch, Replacing
<1>4. PICK m \in Mutex : frame[exec].mx = m /\ bLock[m] /\ pHolding_Tcb[m] = exec
  <2>1. PICK m \in Mutex : /\ frame[exec].mx = m
                           /\ exec \in Line(OfMutex(m)) \/ (bLock[m] /\ pHolding_Tcb[m] = exec)
    BY <1>3 DEF HandInv, WokenOwn
  <2>2. exec \notin Line(OfMutex(m))
    BY <1>3 DEF HandInv, WaitersWait, Out
  <2> QED BY <2>1, <2>2
<1>5. UNCHANGED pHolding_Tcb
  BY <1>1, <1>4 DEF HandTypes, RestType
<1>6. /\ LinesApart' /\ \A q \in Lines : Line(q)' = Line(q)
      /\ \A k \in Mutex : Line(OfMutex(k))' = Line(OfMutex(k))
  <2>1. \A d \in Device : Head(d)' = Head(d)
    BY <1>1 DEF Head
  <2> QED BY <1>1, <2>1, SameLines
<1>7. TailReached' /\ PausedWhere' /\ BuildsAlone' /\ creates' # 0 /\ ~Replacing'
  BY <1>1, <1>2, <1>3, Settled
<1>8. RunApart' /\ \A t \in Tcb : Out(t)' <=> Out(t)
  <2>1. ~InRun(exec) /\ \A p \in Prio : run_list[p] # NULL => run_list[p] # exec /\ run_list[p] \in Tcb
    BY <1>3, Ranges DEF HandInv, RunApart, InRun, HandTypes, RestType, Queues
  <2>2. \A p \in Prio : run_list[p] # NULL => cur_prio'[run_list[p]] = cur_prio[run_list[p]]
    BY <1>1, <2>1 DEF HandTypes, RestType
  <2> QED BY <1>1, <1>3, <2>1, <2>2 DEF HandInv, RunApart, InRun, Out
<1>9. ASSUME NEW t \in Stack, t # exec
      PROVE  (InLock(t)' <=> InLock(t)) /\ frame'[t] = frame[t]
  BY <1>2, <1>9 DEF InLock
<1>10. SleepersSleep' /\ WaitersWait'
  <2>1. ASSUME NEW t \in Tcb, NEW q \in Lines, t \in Line(q)'
        PROVE  t \in Line(q) /\ t # exec
    BY <1>3, <1>6, <2>1, LinesAre, NowFacts DEF HandInv, SleepersSleep, WaitersWait, Out
  <2>2. \A q \in Lines : Line(q)' \subseteq Tcb
    BY <1>1, <1>6, NowFacts
  <2> QED BY <1>1, <1>2, <1>3, <1>8, <1>9, <2>1, <2>2, OthersStay, Ranges
<1>11. WokenOwn'
  BY <1>1, <1>3, <1>5, <1>6, <1>9 DEF HandInv, WokenOwn
<1> QED BY <1>6, <1>7, <1>8, <1>10, <1>11 DEF HandInv

LEMMA EventWaitHands ==
  ASSUME HandTypes, HandInv, NEW d \in Device, EventWait(d)
  PROVE  HandInv'
<1>1. /\ UNCHANGED <<cur_tcb, run_list, cur_prio, context, bLock, pHolding_Tcb, pSleep_queue, exec,
                     isr, irq, creates>>
      /\ stopped = "run" /\ irq \in {"on", "off"} /\ frame[exec].pc = "user" /\ exec # BootMain
      /\ sleep_queue' = [sleep_queue EXCEPT ![cur_tcb] = dev_queue[d]]
      /\ dev_queue' = [dev_queue EXCEPT ![d] = cur_tcb]
      /\ Dispatch(UserFrame, "user")
  BY DEF EventWait, TaskCalls, AtCall, At, mutexes, history
<1>2. /\ frame'[exec].pc = "ds_pick" /\ frame'[exec].after = "user"
      /\ \A s \in Stack : s # exec => frame'[s] = frame[s]
  BY <1>1, UserFrameType, DispatchEffect DEF HandTypes
<1>3. /\ cur_tcb = exec /\ exec \in Tcb /\ exec \in Stack /\ Running = exec /\ Running' = NULL
      /\ ~InLock(exec) /\ ~InLock(exec)' /\ ~Replacing
  BY <1>1, <1>2, NowFacts, RunningIs, Ranges DEF BootMain, NULL, InLock, ToSwitch, Replacing
<1>4. InNone(exec, sleep_queue, Heads)
  BY <1>1, <1>3, StandsApart
<1>5. /\ Apart(sleep_queue, Heads) /\ d \in Lines /\ Heads[d] = dev_queue[d]
      /\ sleep_queue \in LinksTo /\ Heads \in HeadsOf
  <2>1. Head(d) = dev_queue[d]
    BY <1>1 DEF Head
  <2> QED BY <2>1, LinesAre, HeadsType DEF HandInv, LinesApart, HandTypes
<1>6. Heads' = [Heads EXCEPT ![d] = exec]
  <2>1. Head(d)' = exec /\ \A e \in Device : e # d => Head(e)' = Head(e)
    BY <1>1, <1>3 DEF Head, HandTypes, RestType
  <2> QED BY <1>1, <2>1, DeviceHead DEF HandTypes
<1>7. Pushed(sleep_queue, Heads, d, exec, sleep_queue', Heads')
  BY <1>1, <1>3, <1>5, <1>6 DEF Pushed
<1>8. /\ LinesApart' /\ Line(d)' = Line(d) \union {exec}
      /\ \A r \in Lines : r # d => Line(r)' = Line(r)
  BY <1>3, <1>4, <1>5, <1>7, Push DEF Line, LinesApart
<1>9. TailReached' /\ PausedWhere' /\ BuildsAlone' /\ creates' # 0 /\ ~Replacing'
  BY <1>1, <1>2, Settled
<1>10. RunApart' /\ ~InRun(exec)' /\ \A t \in Tcb : Out(t) => Out(t)'
  BY <1>1, <1>3, Ranges DEF HandInv, RunApart, InRun, Out
<1>11. \A q \in Lines : Line(q) \subseteq Tcb /\ exec \notin Line(q)
  BY <1>1, <1>4, NowFacts DEF InNone, Line
<1>12. SleepersSleep' /\ WaitersWait'
  <2>1. ASSUME NEW t \in Tcb, NEW q \in Lines, t \in Line(q)'
        PROVE  \/ t \in Line(q) /\ (Out(t) => Out(t)') /\ (t = exec => frame'[t].mx = frame[t].mx)
                    /\ (InLock(t) => InLock(t)')
               \/ t = exec /\ Out(t)' /\ (q \in Device \/ (InLock(t)' /\ q = OfMutex(frame'[t].mx)))
    <3>1. CASE t = exec
      <4>1. q \in Device
        BY <1>8, <1>11, <2>1, <3>1
      <4>2. Out(t)'
        BY <1>1, <1>3, <1>10, <3>1, Ranges DEF Out
      <4> QED BY <3>1, <4>1, <4>2
    <3>2. CASE t # exec
      <4>1. t \in Line(q) /\ frame'[t] = frame[t]
        BY <1>2, <1>8, <2>1, <3>2, Ranges
      <4> QED BY <1>10, <3>2, <4>1 DEF InLock
    <3> QED BY <3>1, <3>2
  <2>2. \A q \in Lines : Line(q)' \subseteq Tcb
    BY <1>3, <1>8, <1>11
  <2> QED BY <1>1, <1>2, <1>3, <2>1, <2>2, OthersStay
<1>13. WokenOwn'
  <2>1. \A m \in Mutex : Line(OfMutex(m))' = Line(OfMutex(m))
    BY <1>8, LinesAre
  <2>2. \A t \in Stack : t # exec => frame'[t] = frame[t] /\ (InLock(t)' <=> InLock(t))
    BY <1>2 DEF InLock
  <2> QED BY <1>1, <1>3, <2>1, <2>2 DEF HandInv, WokenOwn
<1> QED BY <1>8, <1>9, <1>10, <1>12, <1>13 DEF HandInv

(***************************************************************************)
(* mutex_unlock hands the mutex to the task it wakes.                      *)
(***************************************************************************)
LEMMA UnlockHands ==
  ASSUME HandTypes, HandInv, NEW m \in Mutex, MutexUnlock(m)
  PROVE  HandInv'
<1> DEFINE w == pSleep_queue[m]
<1>1. /\ UNCHANGED <<cur_tcb, context, dev_queue, exec, frame, irq, isr, creates>>
      /\ stopped = "run" /\ irq \in {"on", "off"} /\ frame[exec].pc = "user" /\ exec # BootMain
      /\ pHolding_Tcb[m] = cur_tcb /\ pHolding_Tcb' = [pHolding_Tcb EXCEPT ![m] = w]
      /\ bLock' = IF w = NULL THEN [bLock EXCEPT ![m] = FALSE] ELSE bLock
      /\ \E v : cur_prio' = [cur_prio EXCEPT ![cur_tcb] = v]
  BY DEF MutexUnlock, HandOver, TaskCalls, AtCall, At, devices, history
<1>2. \/ /\ w # NULL
         /\ pSleep_queue' = [pSleep_queue EXCEPT ![m] = sleep_queue[w]]
         /\ sleep_queue' = [sleep_queue EXCEPT ![w] = NULL]
         /\ run_list' = Put(run_list, w, cur_prio[w])
      \/ w = NULL /\ UNCHANGED <<pSleep_queue, sleep_queue, run_list>>
  BY DEF MutexUnlock
<1>3. /\ cur_tcb = exec /\ exec \in Tcb /\ exec \in Stack /\ Running = exec /\ Running' = exec
      /\ ~Replacing /\ w \in Tcb \union {NULL} /\ run_list \in Queues /\ cur_prio \in [Tcb -> Prio]
      /\ pHolding_Tcb \in [Mutex -> Tcb \union {NULL}] /\ bLock \in [Mutex -> BOOLEAN]
  BY <1>1, NowFacts, RunningIs, Ranges DEF BootMain, NULL, Replacing, HandTypes, RestType
<1>4. /\ ~InLock(exec) /\ ~InRun(exec)
      /\ \A t \in Stack : (InLock(t)' <=> InLock(t)) /\ frame'[t] = frame[t]
  BY <1>1, <1>3, Ranges DEF InLock, ToSwitch, HandInv, RunApart
<1>5. /\ Apart(sleep_queue, Heads) /\ OfMutex(m) \in Lines /\ Heads[OfMutex(m)] = w
      /\ sleep_queue \in LinksTo /\ Heads \in HeadsOf
      /\ \A q \in Lines : Line(q) \subseteq Tcb
  BY LinesAre, HeadsType DEF HandInv, LinesApart, HandTypes
<1> HIDE DEF w
<1>6. TailReached' /\ PausedWhere' /\ BuildsAlone' /\ creates' # 0 /\ ~Replacing'
  BY <1>1, Settled
\* The lines, without the task woken.
<1>7. /\ LinesApart'
      /\ \A q \in Lines : Line(q)' = Line(q) \ {w}
      /\ w # NULL => w \in Line(OfMutex(m))
      /\ w = NULL => Line(OfMutex(m)) = {}
  <2>1. \A d \in Device : Head(d)' = Head(d)
    BY <1>1 DEF Head
  <2>2. CASE w # NULL
    <3> DEFINE q == OfMutex(m)
    <3>1. q \in Lines /\ Unlinked(sleep_queue, Heads, q, w, sleep_queue', Heads')
      <4>1. pSleep_queue' = [pSleep_queue EXCEPT ![m] = sleep_queue[w]]
        BY <1>2, <2>2
      <4>2. Heads' = [Heads EXCEPT ![OfMutex(m)] = sleep_queue[w]]
        BY <2>1, <4>1, MutexHead DEF HandTypes
      <4> QED BY <1>2, <1>5, <2>2, <4>2 DEF Unlinked
    <3> HIDE DEF q
    <3>2. /\ Apart(sleep_queue', Heads')
          /\ w \in ChainIn(sleep_queue, Heads[q])
          /\ ChainIn(sleep_queue', Heads'[q]) = ChainIn(sleep_queue, Heads[q]) \ {w}
          /\ \A r \in Lines : r # q => ChainIn(sleep_queue', Heads'[r]) = ChainIn(sleep_queue, Heads[r])
      BY <1>3, <1>5, <2>2, <3>1, Unlink
    <3>3. LinesApart' /\ w \in Line(q) /\ Line(q)' = Line(q) \ {w}
      BY <3>2 DEF Line, LinesApart
    <3>4. ASSUME NEW r \in Lines, r # q
          PROVE  Line(r)' = Line(r) \ {w}
      <4>1. w \notin ChainIn(sleep_queue, Heads[r])
        BY <1>5, <3>1, <3>2, <3>4 DEF Apart
      <4> QED BY <3>2, <3>4, <4>1 DEF Line
    <3> QED BY <2>2, <3>3, <3>4 DEF q
  <2>3. CASE w = NULL
    <3>1. LinesApart' /\ \A q \in Lines : Line(q)' = Line(q)
      BY <1>2, <2>1, <2>3, SameLines
    <3>2. Line(OfMutex(m)) = {}
      BY <1>5, <2>3, EmptyChain DEF Line
    <3> QED BY <1>5, <2>3, <3>1, <3>2, Ranges
  <2> QED BY <2>2, <2>3
<1>8. w # NULL => /\ w \in Tcb /\ w # exec /\ InLock(w) /\ frame[w].mx = m /\ bLock[m]
  <2>1. w # NULL => bLock[m]
    BY DEF HandTypes, Guarded, w
  <2> QED BY <1>3, <1>7, <2>1 DEF HandInv, WaitersWait, Out
<1>9. \A p \in Prio : run_list'[p] = run_list[p] \/ (w # NULL /\ p = cur_prio[w] /\ run_list'[p] = w)
  BY <1>2, <1>3 DEF Put, Queues
<1>10. /\ \A t \in Tcb : t # w /\ Out(t) => Out(t)'
       /\ ~InRun(exec)'
  BY <1>1, <1>3, <1>4, <1>8, <1>9, Ranges DEF Out, InRun
<1>11. RunApart'
  <2>1. ASSUME NEW p \in Prio, run_list'[p] # NULL
        PROVE  cur_prio'[run_list'[p]] = p
    <3>1. run_list'[p] # exec /\ run_list'[p] \in Tcb
      BY <1>1, <1>3, <1>8, <1>9, <1>10, <2>1 DEF InRun, Queues
    <3>2. cur_prio'[run_list'[p]] = cur_prio[run_list'[p]]
      BY <1>1, <1>3, <3>1
    <3> QED BY <1>9, <2>1, <3>2 DEF HandInv, RunApart
  <2> QED BY <1>1, <1>3, <1>10, <2>1 DEF RunApart
<1>12. SleepersSleep' /\ WaitersWait'
  <2>1. ASSUME NEW t \in Tcb, NEW q \in Lines, t \in Line(q)'
        PROVE  t \in Line(q) /\ (Out(t) => Out(t)') /\ frame'[t].mx = frame[t].mx
               /\ (InLock(t) => InLock(t)')
    BY <1>4, <1>7, <1>10, <2>1, Ranges
  <2>2. /\ \A q \in Lines : Line(q)' \subseteq Tcb
        /\ \A s \in Stack : s # exec => frame'[s] = frame[s]
        /\ ~InLock(exec)'
    BY <1>1, <1>3, <1>4, <1>5, <1>7
  <2> QED BY <1>1, <2>1, <2>2, OthersStay
<1>13. WokenOwn'
  <2> SUFFICES ASSUME NEW t \in Stack, InLock(t)
               PROVE  \E k \in Mutex : /\ frame[t].mx = k
                                       /\ t \in Line(OfMutex(k))' \/ (bLock'[k] /\ pHolding_Tcb'[k] = t)
    BY <1>1, <1>4 DEF WokenOwn
  <2>1. t # exec
    BY <1>4
  <2>2. CASE t = w /\ w # NULL
    <3>1. bLock'[m] /\ pHolding_Tcb'[m] = t /\ frame[t].mx = m
      BY <1>1, <1>3, <1>8, <2>2
    <3> QED BY <3>1
  <2>3. CASE ~(t = w /\ w # NULL)
    <3>1. PICK k \in Mutex : /\ frame[t].mx = k
                             /\ t \in Line(OfMutex(k)) \/ (bLock[k] /\ pHolding_Tcb[k] = t)
      BY DEF HandInv, WokenOwn
    <3>2. CASE t \in Line(OfMutex(k))
      <4>1. t # w
        <5>1. OfMutex(k) \in Lines /\ NULL \notin Tcb
          BY LinesAre, Ranges
        <5>2. t \in Tcb
          BY <1>5, <3>2, <5>1
        <5> QED BY <2>3, <5>1, <5>2
      <4>2. t \in Line(OfMutex(k))'
        BY <1>7, <3>2, <4>1, LinesAre
      <4> QED BY <3>1, <4>2
    <3>3. CASE bLock[k] /\ pHolding_Tcb[k] = t
      <4>1. k # m
        BY <1>1, <1>3, <2>1, <3>3
      <4>2. bLock'[k] /\ pHolding_Tcb'[k] = t
        BY <1>1, <1>3, <3>3, <4>1
      <4> QED BY <3>1, <4>2
    <3> QED BY <3>1, <3>2, <3>3
  <2> QED BY <2>2, <2>3
<1> QED BY <1>6, <1>7, <1>11, <1>12, <1>13 DEF HandInv

(***************************************************************************)
(* task_create.  Nobody waits for a mutex then: only the second task set   *)
(* can inherit waiters, from a holder that makes the third.                *)
(***************************************************************************)
LEMMA Building ==
  ASSUME HandTypes, HandInv, stopped = "run", irq \in {"on", "off"},
         UNCHANGED <<exec, irq, isr, pSleep_queue>>, NobodyWaits, NobodyInLock,
         frame'[exec].pc \in {"dev_init", "rq_init", "alloc", "ds_pick"},
         frame'[exec].after # "locked",
         \A s \in Stack : s # exec => frame'[s] = frame[s]
  PROVE  /\ WaitersWait' /\ WokenOwn' /\ TailReached' /\ PausedWhere'
         /\ NobodyInLock' /\ NobodyWaits' /\ isr' = NoIsr
<1>1. NobodyInLock' /\ NobodyWaits'
  BY DEF NobodyInLock, NobodyWaits
<1>2. WaitersWait'
  <2>1. \A m \in Mutex : Line(OfMutex(m))' = {}
    <3>1. \A m \in Mutex : Heads'[OfMutex(m)] = NULL
      BY <1>1, LinesAre DEF NobodyWaits
    <3>2. \A m \in Mutex : ChainIn(sleep_queue', Heads'[OfMutex(m)]) = {}
      BY <3>1, EmptyChain
    <3> QED BY <3>2 DEF Line
  <2> QED BY <2>1 DEF WaitersWait
<1>3. WokenOwn' /\ TailReached'
  BY <1>1 DEF WokenOwn, TailReached, InLock, NobodyInLock
<1>4. PausedWhere' /\ isr' = NoIsr
  BY DEF HandInv, PausedWhere, ToSwitch
<1> QED BY <1>1, <1>2, <1>3, <1>4

LEMMA CreateHands ==
  ASSUME HandTypes, HandInv, LockInv, NEW n \in 0 .. OS_AVAIL_TASKS, TaskCreate(n)
  PROVE  HandInv'
<1>1. /\ UNCHANGED <<cur_tcb, run_list, cur_prio, sleep_queue, context, dev_queue, pSleep_queue,
                     exec, irq, isr>>
      /\ stopped = "run" /\ irq \in {"on", "off"} /\ frame[exec].pc = "user"
      /\ creates' = creates + 1
  BY DEF TaskCreate, AtCall, At, tcbs, devices, mutexes
<1>2. /\ frame'[exec].pc = IF NUM_DEVICES = 0 THEN "rq_init" ELSE "dev_init"
      /\ frame'[exec].i = 0 /\ frame'[exec].after = "user"
      /\ \A s \in Stack : s # exec => frame'[s] = frame[s]
  BY CreateEffect DEF HandTypes
<1>3. NobodyWaits /\ NobodyInLock
  BY DEF LockInv
<1>4. /\ WaitersWait' /\ WokenOwn' /\ TailReached' /\ PausedWhere'
      /\ NobodyInLock' /\ NobodyWaits' /\ isr' = NoIsr
  BY <1>1, <1>2, <1>3, Building
<1>5. LinesApart' /\ \A q \in Lines : Line(q)' = Line(q)
  <2>1. \A d \in Device : Head(d)' = Head(d)
    BY <1>1 DEF Head
  <2> QED BY <1>1, <2>1, SameLines
<1>6. Running' = Running /\ Replacing'
  BY <1>1, <1>2, RunningIs DEF Replacing
<1>7. RunApart' /\ \A t : Out(t)' <=> Out(t)
  BY <1>1, <1>6 DEF HandInv, RunApart, InRun, Out
<1>8. SleepersSleep'
  <2>1. \A d \in Device : d \in Lines /\ \A t \in Line(d) : t \in Stack
    BY NowFacts, <1>1, LinesAre, Ranges
  <2>2. \A d \in Device : \A t \in Line(d) : (t = exec \/ context[t] = t) /\ (t = exec => Out(t))
    BY DEF HandInv, SleepersSleep
  <2>3. \A d \in Device : \A t \in Line(d) :
          frame'[t].pc \notin {"ds_pick", "ds_remove"} \/ t = exec => Out(t)
    BY <1>2, <2>1 DEF HandInv, SleepersSleep
  <2> QED BY <1>1, <1>5, <1>7, <2>1, <2>2, <2>3 DEF SleepersSleep
<1>9. BuildsAlone'
  <2>1. \A d \in Device : ~(d < 0)
    BY DEF Device
  <2>2. NUM_DEVICES = 0 => Device = {}
    BY DEF Device
  <2> QED BY <1>1, <1>2, <1>4, <2>1, <2>2 DEF BuildsAlone, Dispatching, NoIsr
<1>10. creates' # 0
  BY <1>1, KernelAssumption DEF HandTypes, RestType
<1> QED BY <1>4, <1>5, <1>7, <1>8, <1>9, <1>10 DEF HandInv

LEMMA DevInitHands ==
  ASSUME HandTypes, HandInv, DevInit
  PROVE  HandInv'
<1> DEFINE i == frame[exec].i
<1>1. /\ UNCHANGED <<cur_tcb, run_list, cur_prio, sleep_queue, context, pSleep_queue,
                     exec, irq, isr, creates>>
      /\ stopped = "run" /\ irq \in {"on", "off"} /\ frame[exec].pc = "dev_init"
      /\ dev_queue' = [dev_queue EXCEPT ![i] = NULL]
  BY DEF DevInit, At, tcbs, mutexes, history
<1>2. /\ frame'[exec].pc = IF i + 1 = NUM_DEVICES THEN "rq_init" ELSE "dev_init"
      /\ frame'[exec].i = i + 1 /\ frame'[exec].after = frame[exec].after
      /\ \A s \in Stack : s # exec => frame'[s] = frame[s]
  BY DevInitEffect DEF HandTypes
<1>3. NobodyWaits /\ NobodyInLock /\ exec \in Stack /\ i \in Nat /\ Replacing
  BY <1>1, NowFacts DEF HandInv, BuildsAlone, Replacing, Frames
<1> HIDE DEF i
<1>4. /\ WaitersWait' /\ WokenOwn' /\ TailReached' /\ PausedWhere'
      /\ NobodyInLock' /\ NobodyWaits' /\ isr' = NoIsr
  <2>1. frame'[exec].after # "locked"
    BY <1>2, <1>3 DEF NobodyInLock
  <2> QED BY <1>1, <1>2, <1>3, <2>1, Building
<1>5. /\ LinesApart'
      /\ \A q \in Lines : Line(q)' = Line(q) \/ Line(q)' = {}
  <2>1. \A d \in Device : Head(d)' = IF d = i THEN NULL ELSE Head(d)
    BY <1>1 DEF Head, HandTypes, RestType
  <2>2. CASE i \in Device
    <3>1. Heads' = [Heads EXCEPT ![i] = NULL]
      BY <1>1, <2>1, <2>2, DeviceHead DEF HandTypes
    <3>2. /\ Apart(sleep_queue, Heads) /\ i \in Lines
          /\ sleep_queue \in LinksTo /\ Heads \in HeadsOf
      BY <2>2, LinesAre, HeadsType DEF HandInv, LinesApart, HandTypes
    <3>3. Cleared(Heads, i, Heads')
      BY <3>1 DEF Cleared
    <3>4. /\ Apart(sleep_queue, Heads') /\ ChainIn(sleep_queue, Heads'[i]) = {}
          /\ \A r \in Lines : r # i => ChainIn(sleep_queue, Heads'[r]) = ChainIn(sleep_queue, Heads[r])
      BY <3>2, <3>3, Clear
    <3> QED BY <1>1, <3>4 DEF Line, LinesApart
  <2>3. CASE i \notin Device
    <3>1. \A d \in Device : Head(d)' = Head(d)
      BY <2>1, <2>3
    <3> QED BY <1>1, <3>1, SameLines
  <2> QED BY <2>2, <2>3
<1>6. Running' = Running /\ Replacing'
  BY <1>1, <1>2, RunningIs DEF Replacing
<1>7. RunApart' /\ \A t : Out(t)' <=> Out(t)
  BY <1>1, <1>6 DEF HandInv, RunApart, InRun, Out
<1>8. SleepersSleep'
  <2>1. \A d \in Device : d \in Lines /\ \A t \in Line(d) : t \in Stack
    BY NowFacts, <1>1, LinesAre, Ranges
  <2>2. \A d \in Device : \A t \in Line(d) : (t = exec \/ context[t] = t) /\ (t = exec => Out(t))
    BY DEF HandInv, SleepersSleep
  <2>3. \A d \in Device : \A t \in Line(d) :
          frame'[t].pc \notin {"ds_pick", "ds_remove"} \/ t = exec => Out(t)
    BY <1>2, <2>1 DEF HandInv, SleepersSleep
  <2> QED BY <1>1, <1>5, <1>7, <2>1, <2>2, <2>3 DEF SleepersSleep
<1>9. BuildsAlone'
  <2>1. \A d \in Device : dev_queue'[d] = IF d = i THEN NULL ELSE dev_queue[d]
    BY <1>1 DEF HandTypes, RestType
  <2>2. \A d \in Device : d < i + 1 => dev_queue'[d] = NULL
    BY <1>1, <1>3, <2>1, Ranges DEF HandInv, BuildsAlone, i
  <2>3. i + 1 = NUM_DEVICES => \A d \in Device : d < i + 1
    BY KernelAssumption DEF Device
  <2> QED BY <1>1, <1>2, <1>4, <2>2, <2>3 DEF BuildsAlone, Dispatching, NoIsr
<1>10. creates' # 0
  BY <1>1 DEF HandInv
<1> QED BY <1>4, <1>5, <1>7, <1>8, <1>9, <1>10 DEF HandInv

\* Nobody waits for anything.
LEMMA NoLines ==
  ASSUME NobodyWaits', \A d \in Device : Head(d)' = NULL
  PROVE  LinesApart' /\ SleepersSleep' /\ \A q \in Lines : Line(q)' = {}
<1>1. \A q \in Lines : Heads'[q] = NULL
  BY LinesAre DEF NobodyWaits
<1>2. \A q \in Lines : ChainIn(sleep_queue', Heads'[q]) = {}
  BY <1>1, EmptyChain
<1> QED BY <1>2, LinesAre DEF Line, LinesApart, Apart, SleepersSleep

LEMMA ClearedHands ==
  ASSUME HandTypes, HandInv, stopped = "run", irq \in {"on", "off"},
         frame[exec].pc \in {"rq_init", "alloc"},
         UNCHANGED <<exec, irq, isr, pSleep_queue, dev_queue, creates>>,
         frame'[exec].after # "locked",
         \A s \in Stack : s # exec => frame'[s] = frame[s],
         \/ /\ frame'[exec].pc = "alloc" /\ frame'[exec].i <= frame'[exec].n
            /\ \A p \in Prio : run_list'[p] # NULL =>
                 frame'[exec].i < run_list'[p] /\ run_list'[p] <= frame'[exec].n
         \/ frame'[exec].pc = "ds_pick",
         \A p \in Prio : run_list'[p] # NULL => cur_prio'[run_list'[p]] = p
  PROVE  HandInv'
<1>1. NobodyWaits /\ NobodyInLock /\ \A d \in Device : dev_queue[d] = NULL
  BY DEF HandInv, BuildsAlone, Replacing
<1>2. /\ WaitersWait' /\ WokenOwn' /\ TailReached' /\ PausedWhere'
      /\ NobodyInLock' /\ NobodyWaits' /\ isr' = NoIsr
  BY <1>1, Building
<1>3. LinesApart' /\ SleepersSleep'
  <2>1. \A d \in Device : Head(d)' = NULL
    BY <1>1 DEF Head
  <2> QED BY <1>2, <2>1, NoLines
<1>4. Replacing' \/ Running' = NULL
  BY RunningIs DEF Replacing
<1>5. RunApart'
  BY <1>4 DEF RunApart
<1>6. BuildsAlone'
  BY <1>1, <1>2 DEF BuildsAlone, NoIsr, Made
<1>7. creates' # 0
  BY DEF HandInv
<1> QED BY <1>2, <1>3, <1>5, <1>6, <1>7 DEF HandInv

LEMMA QueueInitHands ==
  ASSUME HandTypes, HandInv, RunqueueInit
  PROVE  HandInv'
<1>1. /\ UNCHANGED <<exec, irq, isr, pSleep_queue, dev_queue, creates>>
      /\ stopped = "run" /\ irq \in {"on", "off"} /\ frame[exec].pc = "rq_init"
      /\ run_list' = EmptyQueue
  BY DEF RunqueueInit, At, devices, mutexes, history
<1>2. /\ frame'[exec].pc = "alloc" /\ frame'[exec].i = frame'[exec].n
      /\ frame'[exec].after = frame[exec].after /\ frame'[exec].n = frame[exec].n
      /\ \A s \in Stack : s # exec => frame'[s] = frame[s]
  BY RunqueueInitEffect DEF HandTypes
<1>3. frame'[exec].i <= frame'[exec].n
  BY <1>1, <1>2, NowFacts, Ranges DEF Frames
<1>4. frame'[exec].after # "locked"
  BY <1>1, <1>2, NowFacts DEF HandInv, BuildsAlone, Replacing, NobodyInLock
<1>5. \A p \in Prio : run_list'[p] = NULL
  BY <1>1 DEF EmptyQueue
<1> QED BY <1>1, <1>2, <1>3, <1>4, <1>5, ClearedHands

LEMMA AllocateHands ==
  ASSUME HandTypes, HandInv, AllocateTcb
  PROVE  HandInv'
<1> DEFINE i == frame[exec].i
           n == frame[exec].n
<1>1. /\ UNCHANGED <<exec, irq, isr, pSleep_queue, dev_queue, creates>>
      /\ stopped = "run" /\ irq \in {"on", "off"} /\ frame[exec].pc = "alloc" /\ i > 0
      /\ run_list' = Put(run_list, i, i) /\ cur_prio' = [cur_prio EXCEPT ![i] = i]
  BY DEF AllocateTcb, At, devices, mutexes, history
<1>2. /\ frame'[exec].pc = "alloc" /\ frame'[exec].i = i - 1
      /\ frame'[exec].after = frame[exec].after /\ frame'[exec].n = n
      /\ \A s \in Stack : s # exec => frame'[s] = frame[s]
  BY AllocateEffect DEF HandTypes
<1>3. frame'[exec].after # "locked"
  BY <1>1, <1>2, NowFacts DEF HandInv, BuildsAlone, Replacing, NobodyInLock
<1>4. /\ i \in Nat /\ n \in Nat /\ i <= n /\ i \in Tcb
      /\ \A p \in Prio : run_list[p] # NULL => i < run_list[p] /\ run_list[p] <= n
  <2>1. i \in Nat /\ n \in 0 .. OS_AVAIL_TASKS /\ n \in Nat /\ i <= n
    BY <1>1, NowFacts, Ranges DEF Frames, HandInv, BuildsAlone
  <2>2. i \in 1 .. n
    BY <1>1, <2>1
  <2>3. i \in Tcb
    BY <2>1, <2>2, Ranges
  <2> QED BY <1>1, <2>1, <2>3 DEF HandInv, BuildsAlone, Made
<1> HIDE DEF i, n
<1>5. run_list \in Queues /\ cur_prio \in [Tcb -> Prio]
  BY DEF HandTypes, RestType
<1>6. \A p \in Prio : run_list'[p] = IF p = i THEN i ELSE run_list[p]
  BY <1>1, <1>5 DEF Put, Queues
<1>7. ASSUME NEW p \in Prio, run_list'[p] # NULL
      PROVE  /\ frame'[exec].i < run_list'[p] /\ run_list'[p] <= frame'[exec].n
             /\ cur_prio'[run_list'[p]] = p
  <2>1. CASE p = i
    BY <1>1, <1>2, <1>4, <1>5, <1>6, <2>1
  <2>2. CASE p # i
    <3>1. run_list'[p] = run_list[p] /\ run_list[p] \in Tcb /\ run_list[p] # NULL
      BY <1>5, <1>6, <1>7, <2>2 DEF Queues
    <3>2. run_list[p] \in Nat /\ i < run_list[p] /\ run_list[p] <= n
      BY <1>4, <3>1, Ranges
    <3>3. cur_prio'[run_list[p]] = cur_prio[run_list[p]]
      BY <1>1, <1>4, <1>5, <3>1, <3>2
    <3>4. cur_prio[run_list[p]] = p
      BY <3>1 DEF HandInv, RunApart
    <3> QED BY <1>2, <1>4, <3>1, <3>2, <3>3, <3>4
  <2> QED BY <2>1, <2>2
<1>8. frame'[exec].i <= frame'[exec].n
  BY <1>2, <1>4
<1> QED BY <1>1, <1>2, <1>3, <1>7, <1>8, ClearedHands

LEMMA IdleHands ==
  ASSUME HandTypes, HandInv, AllocateIdle
  PROVE  HandInv'
<1>1. /\ UNCHANGED <<exec, irq, isr, pSleep_queue, dev_queue, creates>>
      /\ stopped = "run" /\ irq \in {"on", "off"} /\ frame[exec].pc = "alloc"
      /\ run_list' = Put(run_list, IDLE_PRIO, IDLE_PRIO)
      /\ cur_prio' = [cur_prio EXCEPT ![IDLE_PRIO] = IDLE_PRIO]
      /\ Dispatch(UserFrame, "never")
  BY DEF AllocateIdle, LeaveForGood, At, devices, mutexes, history
<1>2. /\ frame'[exec].pc = "ds_pick" /\ frame'[exec].after = "never"
      /\ \A s \in Stack : s # exec => frame'[s] = frame[s]
  BY <1>1, UserFrameType, DispatchEffect DEF HandTypes
<1>3. run_list \in Queues /\ cur_prio \in [Tcb -> Prio] /\ IDLE_PRIO \in Tcb /\ IDLE_PRIO \in Prio
  BY Ranges DEF HandTypes, RestType
<1>4. \A p \in Prio : run_list'[p] = IF p = IDLE_PRIO THEN IDLE_PRIO ELSE run_list[p]
  BY <1>1, <1>3 DEF Put, Queues
<1>5. \A p \in Prio : run_list[p] # NULL => run_list[p] # IDLE_PRIO /\ run_list[p] \in Tcb
  <2>1. \A p \in Prio : run_list[p] # NULL => run_list[p] \in Tcb /\ run_list[p] <= frame[exec].n
    BY <1>1, <1>3 DEF HandInv, BuildsAlone, Made, Queues
  <2>2. frame[exec].n \in 0 .. OS_AVAIL_TASKS
    BY <1>1, NowFacts DEF Frames
  <2>3. ~(IDLE_PRIO <= frame[exec].n)
    BY <2>2, KernelAssumption DEF IDLE_PRIO, OS_AVAIL_TASKS
  <2> QED BY <2>1, <2>3
<1>6. ASSUME NEW p \in Prio, run_list'[p] # NULL
      PROVE  cur_prio'[run_list'[p]] = p
  <2>1. run_list[p] # NULL => cur_prio[run_list[p]] = p
    BY DEF HandInv, RunApart
  <2> QED BY <1>1, <1>3, <1>4, <1>5, <1>6, <2>1
<1> QED BY <1>1, <1>2, <1>6, ClearedHands

(***************************************************************************)
(* The switches of stacks.                                                 *)
(***************************************************************************)
LEMMA Resumes ==
  ASSUME HandTypes, HandInv, stopped = "run", stopped' = "run", irq # "wake", creates # 0,
         UNCHANGED <<sleep_queue, dev_queue, pSleep_queue, cur_prio, bLock, pHolding_Tcb, creates>>,
         isr' = NoIsr, NEW to \in Tcb, cur_tcb' = to,
         NEW saved \in [Tcb -> Stack \union {LAUNCH, STALE}], NEW left_at \in [Stack -> Frames],
         saved[to] \in {LAUNCH, STALE, to}, SwitchTo(to, saved, left_at),
         \A d \in Device : \A t \in Line(d) :
           /\ saved[t] = t
           /\ t = to => left_at[t].pc \in {"ds_pick", "ds_remove"}
           /\ t # to /\ left_at[t].pc \notin {"ds_pick", "ds_remove"} => ~InRun(t)',
         \A m \in Mutex : \A t \in Line(OfMutex(m)) :
           t # to /\ left_at[t].pc = "locked" /\ left_at[t].mx = m /\ ~InRun(t)',
         \A s \in Stack :
           /\ left_at[s].pc = "locked" => InLock(s) /\ left_at[s].mx = frame[s].mx
           /\ left_at[s].pc \in Wakeful
           /\ left_at[s].pc \in {"ds_pick", "ds_remove"} => left_at[s].after = "user",
         \A p \in Prio : run_list'[p] # NULL => cur_prio[run_list'[p]] = p,
         ~InRun(to)'
  PROVE  HandInv'
<1>1. /\ saved[to] # STALE /\ exec' = to
      /\ context' = IF saved[to] = LAUNCH THEN saved ELSE [saved EXCEPT ![to] = STALE]
      /\ \A s \in Stack : s # to => frame'[s] = left_at[s]
      /\ frame'[to].pc = IF saved[to] = LAUNCH THEN "user" ELSE left_at[to].pc
      /\ frame'[to].pc # "user" => frame'[to].after = left_at[to].after
      /\ frame'[to].pc # "user" => frame'[to].mx = left_at[to].mx
      /\ irq' \in {"on", "off"}
  BY SwitchEffect DEF HandTypes
<1>2. to \in Stack /\ to # NULL
  BY Ranges
<1>3. \A s \in Stack : /\ frame'[s].pc \in Wakeful
                       /\ frame'[s].pc \in {"ds_pick", "ds_remove"} => frame'[s].after = "user"
                       /\ frame'[s].pc = "locked" =>
                            InLock(s) /\ frame'[s].mx = frame[s].mx
  <2>1. "user" \in Wakeful
    BY DEF Wakeful
  <2> QED BY <1>1, <2>1
<1>4. \A s \in Stack : InLock(s)' <=> frame'[s].pc = "locked"
  BY <1>3 DEF InLock, ToSwitch, Wakeful
<1>5. /\ LinesApart' /\ \A q \in Lines : Line(q)' = Line(q)
      /\ \A m \in Mutex : Line(OfMutex(m))' = Line(OfMutex(m))
  <2>1. \A d \in Device : Head(d)' = Head(d)
    BY <1>1 DEF Head
  <2> QED BY <2>1, SameLines
<1>6. ~Replacing' /\ Running' \in {to, NULL}
      /\ (frame'[to].pc \in {"ds_pick", "ds_remove"} => Running' = NULL)
  BY <1>1, <1>3, RunningIs DEF Replacing, Wakeful
<1>7. RunApart'
  BY <1>6 DEF RunApart
<1>8. \A q \in Lines : \A t \in Line(q) : t \in Tcb /\ t \in Stack /\ t # NULL
  BY NowFacts, Ranges
<1>9. SleepersSleep'
  <2>1. ASSUME NEW d \in Device, NEW t \in Line(d)
        PROVE  /\ t = exec' \/ context'[t] = t
               /\ frame'[t].pc \notin {"ds_pick", "ds_remove"} \/ t = exec' => Out(t)'
    <3>1. t \in Tcb /\ t \in Stack /\ saved[t] = t /\ t # NULL /\ t # LAUNCH
      BY <1>8, <2>1, LinesAre, Ranges
    <3>2. CASE t = to
      <4>1. Running' = NULL
        BY <1>1, <1>6, <2>1, <3>1, <3>2
      <4> QED BY <1>1, <3>1, <3>2, <4>1 DEF Out
    <3>3. CASE t # to
      <4>1. context'[t] = t /\ frame'[t] = left_at[t]
        BY <1>1, <3>1, <3>3
      <4> QED BY <1>1, <1>6, <2>1, <3>1, <3>3, <4>1 DEF Out
    <3> QED BY <3>2, <3>3
  <2> QED BY <1>5, <2>1, LinesAre DEF SleepersSleep
<1>10. WaitersWait'
  <2>1. ASSUME NEW m \in Mutex, NEW t \in Line(OfMutex(m))
        PROVE  InLock(t)' /\ frame'[t].mx = m /\ Out(t)'
    <3>1. t \in Stack /\ t # NULL
      BY <1>8, <2>1, LinesAre
    <3>2. t # to /\ frame'[t] = left_at[t]
      BY <1>1, <2>1, <3>1
    <3> QED BY <1>4, <1>6, <2>1, <3>1, <3>2 DEF Out
  <2> QED BY <1>5, <2>1 DEF WaitersWait
<1>11. WokenOwn'
  <2> SUFFICES ASSUME NEW s \in Stack, InLock(s)'
               PROVE  \E m \in Mutex : /\ frame'[s].mx = m
                                       /\ s \in Line(OfMutex(m))' \/ (bLock'[m] /\ pHolding_Tcb'[m] = s)
    BY DEF WokenOwn
  <2>1. InLock(s) /\ frame'[s].mx = frame[s].mx
    BY <1>3, <1>4
  <2>2. PICK m \in Mutex : /\ frame[s].mx = m
                           /\ s \in Line(OfMutex(m)) \/ (bLock[m] /\ pHolding_Tcb[m] = s)
    BY <2>1 DEF HandInv, WokenOwn
  <2> QED BY <1>5, <2>1, <2>2
<1>12. TailReached' /\ PausedWhere' /\ BuildsAlone'
  <2>1. frame'[exec'].pc \in Wakeful
        /\ (frame'[exec'].pc \in {"ds_pick", "ds_remove"} => frame'[exec'].after = "user")
    BY <1>1, <1>2, <1>3
  <2>2. TailReached' /\ PausedWhere'
    BY <1>1, <1>3, <2>1 DEF TailReached, PausedWhere, ToSwitch, Wakeful
  <2>3. BuildsAlone'
    BY <1>6, <2>1 DEF BuildsAlone, Dispatching, Wakeful
  <2> QED BY <2>2, <2>3
<1> QED BY <1>5, <1>7, <1>9, <1>10, <1>11, <1>12 DEF HandInv

LEMMA SwitchHands ==
  ASSUME HandTypes, HandInv, DispatchSwitch, stopped' = "run"
  PROVE  HandInv'
<1>1. /\ UNCHANGED <<cur_tcb, run_list, cur_prio, sleep_queue, dev_queue, bLock, pHolding_Tcb,
                     pSleep_queue, isr, creates>>
      /\ stopped = "run" /\ irq \in {"on", "off"} /\ frame[exec].pc = "ds_switch"
  BY DEF DispatchSwitch, At, tcbs, devices, mutexes, history
<1>2. PICK f \in Frames : f = frame[exec]
  BY NowFacts, <1>1
<1>3. /\ cur_tcb = f.pick /\ f.i = exec /\ exec \in Stack
      /\ \A t \in Tcb : context[t] \in {LAUNCH, STALE, t}
  BY <1>1, <1>2, NowFacts DEF HandTypes, RunInv, OwnStack
<1>4. PICK saved \in [Tcb -> Stack \union {LAUNCH, STALE}], left_at \in [Stack -> Frames] :
           /\ \A t \in Tcb : saved[t] = IF f.after # "never" /\ t = exec THEN t ELSE context[t]
           /\ \A t \in Tcb : saved[t] \in {LAUNCH, STALE, t}
           /\ \A s \in Stack : s # exec => left_at[s] = frame[s]
           /\ left_at[exec].pc = IF f.after = "locked" THEN "locked" ELSE "user"
           /\ f.after = "locked" => left_at[exec].mx = f.mx
           /\ SwitchTo(f.pick, saved, left_at)
           /\ f.pick \in Tcb
  BY <1>1, <1>2, <1>3, DispatchSwitchEffect DEF HandTypes
<1>5. PICK to \in Tcb : to = f.pick
  BY <1>4
<1>6. /\ Running = to /\ ~InRun(to) /\ to # NULL /\ \A t : InRun(t)' <=> InRun(t)
      /\ isr' = NoIsr /\ creates # 0
  <2>1. Running = to
    BY <1>1, <1>3, <1>5, RunningIs
  <2> QED BY <1>1, <1>5, <2>1, Ranges DEF HandInv, RunApart, InRun, Replacing, PausedWhere
<1>7. ASSUME NEW d \in Device, NEW t \in Line(d)
      PROVE  /\ saved[t] = t
             /\ t = to => left_at[t].pc \in {"ds_pick", "ds_remove"}
             /\ t # to /\ left_at[t].pc \notin {"ds_pick", "ds_remove"} => ~InRun(t)'
  <2>1. t \in Tcb /\ t \in Stack /\ d \in Lines
    BY <1>1, <1>7, NowFacts, LinesAre, Ranges
  <2>2. /\ t = exec \/ context[t] = t
        /\ frame[t].pc \notin {"ds_pick", "ds_remove"} \/ t = exec => Out(t)
    BY <1>7 DEF HandInv, SleepersSleep
  <2>3. CASE t = exec
    <3>1. f.after # "never"
      <4> SUFFICES ASSUME f.after = "never"
                   PROVE  FALSE
        OBVIOUS
      <4>1. dev_queue[d] = NULL
        BY <1>1, <1>2, <1>7 DEF HandInv, BuildsAlone, Dispatching
      <4>2. Heads[d] = NULL
        BY <1>1, <4>1, LinesAre DEF Head
      <4> QED BY <1>7, <4>2, EmptyChain DEF Line
    <3> QED BY <1>4, <1>6, <2>1, <2>2, <2>3, <3>1 DEF Out
  <2>4. CASE t # exec
    <3>1. saved[t] = t /\ left_at[t] = frame[t]
      BY <1>4, <2>1, <2>2, <2>4
    <3> QED BY <1>6, <2>2, <2>4, <3>1 DEF Out
  <2> QED BY <2>3, <2>4
<1>8. ASSUME NEW m \in Mutex, NEW t \in Line(OfMutex(m))
      PROVE  t # to /\ left_at[t].pc = "locked" /\ left_at[t].mx = m /\ ~InRun(t)'
  <2>1. t \in Tcb /\ t \in Stack
    BY <1>1, <1>8, NowFacts, LinesAre, Ranges
  <2>2. InLock(t) /\ frame[t].mx = m /\ Out(t)
    BY <1>8 DEF HandInv, WaitersWait
  <2>3. t # to /\ ~InRun(t)'
    BY <1>6, <2>2 DEF Out
  <2>4. CASE t = exec
    BY <1>1, <1>2, <1>4, <2>2, <2>3, <2>4 DEF InLock
  <2>5. CASE t # exec
    <3>1. left_at[t] = frame[t] /\ frame[t].pc = "locked"
      BY <1>4, <2>1, <2>2, <2>5 DEF InLock, HandInv, PausedWhere, Wakeful, ToSwitch
    <3> QED BY <2>2, <2>3, <3>1
  <2> QED BY <2>4, <2>5
<1>9. ASSUME NEW s \in Stack
      PROVE  /\ left_at[s].pc = "locked" => InLock(s) /\ left_at[s].mx = frame[s].mx
             /\ left_at[s].pc \in Wakeful
             /\ left_at[s].pc \in {"ds_pick", "ds_remove"} => left_at[s].after = "user"
  <2>1. CASE s = exec
    BY <1>1, <1>2, <1>4, <2>1 DEF InLock, ToSwitch, Wakeful
  <2>2. CASE s # exec
    BY <1>4, <2>2 DEF InLock, HandInv, PausedWhere
  <2> QED BY <2>1, <2>2
<1>10. \A p \in Prio : run_list'[p] # NULL => cur_prio[run_list'[p]] = p
  BY <1>1 DEF HandInv, RunApart
<1> QED BY <1>1, <1>3, <1>4, <1>5, <1>6, <1>7, <1>8, <1>9, <1>10, Resumes

LEMMA PreemptHands ==
  ASSUME HandTypes, HandInv, Preempt, stopped' = "run"
  PROVE  HandInv'
<1>1. /\ UNCHANGED <<cur_prio, sleep_queue, dev_queue, bLock, pHolding_Tcb, pSleep_queue, creates>>
      /\ stopped = "run" /\ irq = "scan" /\ isr.need_ctx /\ isr' = NoIsr
  BY DEF Preempt, Preempts, InIsr, tcbs, devices, mutexes, history
<1>2. /\ exec \in Stack /\ frame[exec].pc \in Wakeful /\ cur_tcb = exec
      /\ frame[exec].pc \in {"ds_pick", "ds_remove"} => frame[exec].after = "user"
      /\ \A t \in Tcb : context[t] \in {LAUNCH, STALE, t}
  <2>1. frame[exec].pc \in Wakeful
    BY <1>1 DEF HandInv, PausedWhere, BuildsAlone
  <2>2. frame[exec].pc \in {"ds_pick", "ds_remove"} =>
          frame[exec].after # "locked" /\ frame[exec].after # "never"
    BY <1>1 DEF HandInv, PausedWhere, BuildsAlone, Dispatching, ToSwitch
  <2>3. frame[exec].after \in {"user", "locked", "never"}
    BY <1>1, NowFacts DEF Frames
  <2> QED BY <1>1, <2>1, <2>2, <2>3, NowFacts DEF Wakeful
<1>3. PICK to \in Tcb : cur_tcb' = to
  BY <1>2, PreemptEffect DEF HandTypes
<1>4. PICK saved \in [Tcb -> Stack \union {LAUNCH, STALE}], left_at \in [Stack -> Frames] :
              /\ \A t \in Tcb : saved[t] = IF t = exec THEN t ELSE context[t]
              /\ \A t \in Tcb : saved[t] \in {LAUNCH, STALE, t}
              /\ \A s \in Stack : /\ left_at[s].pc = frame[s].pc /\ left_at[s].mx = frame[s].mx
                                  /\ left_at[s].after = frame[s].after
              /\ SwitchTo(to, saved, left_at)
  BY <1>2, <1>3, PreemptEffect DEF HandTypes
<1>5. PICK c \in Tcb : c = exec /\ c = cur_tcb
  BY <1>2, PreemptEffect DEF HandTypes
<1> DEFINE queue == Put(run_list, c, cur_prio[c])
           b == HighestPrio(queue)
<1>6. /\ run_list \in Queues /\ cur_prio[c] \in Prio
      /\ \A p \in Prio : run_list[p] # NULL => cur_prio[run_list[p]] = p
  BY DEF HandTypes, RestType, HandInv, RunApart
<1>7. queue \in Queues /\ \A p \in Prio : queue[p] = IF p = cur_prio[c] THEN c ELSE run_list[p]
  BY <1>5, <1>6 DEF Put, Queues
<1>8. run_list' = Drop(queue, b) /\ queue[b] = to
  BY <1>3, <1>5 DEF Preempt
<1>9. b \in Prio
  BY <1>7, HighestPrioOfTask
<1> HIDE DEF queue, b
<1>10. \A p \in Prio : run_list'[p] = IF p = b THEN NULL ELSE queue[p]
  BY <1>7, <1>8 DEF Drop, Queues
<1>11. \A p \in Prio : queue[p] # NULL => cur_prio[queue[p]] = p
  BY <1>6, <1>7
<1>12. /\ \A p \in Prio : run_list'[p] # NULL => cur_prio[run_list'[p]] = p
       /\ ~InRun(to)'
  <2>1. to # NULL
    BY Ranges
  <2>2. \A p \in Prio : run_list'[p] # to
    BY <1>8, <1>9, <1>10, <1>11, <2>1
  <2> QED BY <1>10, <1>11, <2>2 DEF InRun
<1>13. \A t \in Tcb : t # c /\ ~InRun(t) => ~InRun(t)'
  BY <1>7, <1>10, Ranges DEF InRun
<1>a. to = c \/ InRun(to)
  BY <1>7, <1>8, <1>9 DEF InRun
<1>15. frame[c].pc \notin {"ds_pick", "ds_remove"} => Running = c
  BY <1>2, <1>5, RunningIs DEF Wakeful
<1>16. ASSUME NEW d \in Device, NEW t \in Line(d)
       PROVE  /\ saved[t] = t
              /\ t = to => left_at[t].pc \in {"ds_pick", "ds_remove"}
              /\ t # to /\ left_at[t].pc \notin {"ds_pick", "ds_remove"} => ~InRun(t)'
  <2>1. t \in Tcb /\ t \in Stack
    BY <1>1, <1>16, NowFacts, LinesAre, Ranges
  <2>2. /\ t = exec \/ context[t] = t
        /\ frame[t].pc \notin {"ds_pick", "ds_remove"} \/ t = exec => Out(t)
    BY <1>16 DEF HandInv, SleepersSleep
  <2>3. saved[t] = t /\ left_at[t].pc = frame[t].pc
    BY <1>4, <2>1, <2>2
  <2>4. t = c => frame[t].pc \in {"ds_pick", "ds_remove"}
    BY <1>5, <1>15, <2>2 DEF Out
  <2>5. t = to => frame[t].pc \in {"ds_pick", "ds_remove"}
    BY <1>a, <2>2, <2>4 DEF Out
  <2>6. frame[t].pc \notin {"ds_pick", "ds_remove"} => ~InRun(t)'
    BY <1>13, <2>1, <2>2, <2>4 DEF Out
  <2> QED BY <2>3, <2>5, <2>6
<1>17. ASSUME NEW m \in Mutex, NEW t \in Line(OfMutex(m))
       PROVE  t # to /\ left_at[t].pc = "locked" /\ left_at[t].mx = m /\ ~InRun(t)'
  <2>1. t \in Tcb /\ t \in Stack
    BY <1>1, <1>17, NowFacts, LinesAre, Ranges
  <2>2. InLock(t) /\ frame[t].mx = m /\ Out(t)
    BY <1>17 DEF HandInv, WaitersWait
  <2>3. frame[t].pc \in Wakeful /\ (frame[t].pc \in {"ds_pick", "ds_remove"} => frame[t].after = "user")
    BY <1>1, <1>2, <2>1 DEF HandInv, PausedWhere
  <2>4. frame[t].pc = "locked"
    BY <2>2, <2>3 DEF InLock, ToSwitch, Wakeful
  <2>5. t # c
    BY <1>15, <2>2, <2>4 DEF Out
  <2> QED BY <1>4, <1>13, <1>a, <2>1, <2>2, <2>4, <2>5 DEF Out
<1>18. ASSUME NEW s \in Stack
       PROVE  /\ left_at[s].pc = "locked" => InLock(s) /\ left_at[s].mx = frame[s].mx
              /\ left_at[s].pc \in Wakeful
              /\ left_at[s].pc \in {"ds_pick", "ds_remove"} => left_at[s].after = "user"
  <2>1. frame[s].pc \in Wakeful /\ (frame[s].pc \in {"ds_pick", "ds_remove"} => frame[s].after = "user")
    BY <1>2 DEF HandInv, PausedWhere
  <2> QED BY <1>4, <2>1 DEF InLock
<1>19. creates # 0
  BY <1>5, Ranges DEF HandInv
<1> QED BY <1>1, <1>3, <1>4, <1>12, <1>16, <1>17, <1>18, <1>19, Resumes

(***************************************************************************)
(* The interrupt wakes a task that sleeps on a device.                     *)
(***************************************************************************)
LEMMA WakeHands ==
  ASSUME HandTypes, HandInv, WakeSleeper
  PROVE  HandInv'
<1>0. isr.iter \in Tcb /\ isr.dev \in Device /\ isr.iter # NULL
  BY DEF WakeSleeper, InIsr, HandTypes, RestType, IsrSound
<1>a. PICK w \in Tcb, d \in Device : w = isr.iter /\ d = isr.dev
  BY <1>0
<1>1. /\ UNCHANGED <<cur_tcb, cur_prio, context, dev_queue, bLock, pHolding_Tcb, pSleep_queue, exec,
                     frame, irq, creates>>
      /\ stopped = "run" /\ irq = "wake" /\ w # NULL
      /\ run_list' = Put(run_list, w, cur_prio[w])
      /\ sleep_queue' = [sleep_queue EXCEPT ![w] = NULL]
      /\ isr' = [isr EXCEPT !.iter = sleep_queue[w], !.need_ctx = TRUE]
  BY <1>0, <1>a DEF WakeSleeper, InIsr, devices, mutexes, history
<1>2. /\ isr'.iter = sleep_queue[w] /\ isr'.dev = d
      /\ run_list \in Queues /\ cur_prio \in [Tcb -> Prio] /\ exec \in Stack
  BY <1>1, <1>a, NowFacts DEF HandTypes, RestType, IsrSound
<1>3. /\ Apart(sleep_queue, Heads) /\ d \in Lines /\ Heads[d] = w
      /\ sleep_queue \in LinksTo /\ Heads \in HeadsOf
      /\ \A q \in Lines : Line(q) \subseteq Tcb
  <2>1. Head(d) = w
    BY <1>1, <1>a DEF Head
  <2> QED BY <1>2, <2>1, LinesAre, HeadsType DEF HandInv, LinesApart, HandTypes
<1>4. Head(d)' = sleep_queue[w] /\ \A e \in Device : e # d => Head(e)' = Head(e)
  BY <1>1, <1>2, <1>a DEF Head
<1>5. /\ LinesApart' /\ w \in Line(d)
      /\ \A q \in Lines : Line(q)' = Line(q) \ {w}
      /\ \A q \in Lines : w \in Line(q) => q = d
  <2>1. Heads' = [Heads EXCEPT ![d] = sleep_queue[w]]
    BY <1>1, <1>2, <1>4, DeviceHead DEF HandTypes
  <2>2. Unlinked(sleep_queue, Heads, d, w, sleep_queue', Heads')
    BY <1>1, <1>3, <2>1 DEF Unlinked
  <2>3. /\ Apart(sleep_queue', Heads')
        /\ w \in ChainIn(sleep_queue, Heads[d])
        /\ ChainIn(sleep_queue', Heads'[d]) = ChainIn(sleep_queue, Heads[d]) \ {w}
        /\ \A r \in Lines : r # d => ChainIn(sleep_queue', Heads'[r]) = ChainIn(sleep_queue, Heads[r])
    BY <1>2, <1>3, <2>2, Unlink
  <2>4. \A r \in Lines : w \in ChainIn(sleep_queue, Heads[r]) => r = d
    BY <1>3, <2>3 DEF Apart
  <2>5. \A q \in Lines : ChainIn(sleep_queue', Heads'[q]) = ChainIn(sleep_queue, Heads[q]) \ {w}
    BY <2>3, <2>4
  <2> QED BY <2>3, <2>4, <2>5 DEF Line, LinesApart
<1>6. frame[exec].pc \in Wakeful /\ ~Replacing /\ Running' = Running
  <2>1. frame[exec].pc \in Wakeful
    BY <1>1, <1>a DEF HandInv, PausedWhere, BuildsAlone
  <2> QED BY <1>1, <2>1 DEF Wakeful, Replacing, Running
<1>7. Running # w
  <2>1. cur_tcb = exec
    BY <1>1, <1>6, NowFacts DEF Wakeful
  <2>2. Running \in {exec, NULL}
    BY <1>6, <2>1, RunningIs DEF Wakeful
  <2>3. w = exec => Out(w)
    BY <1>2, <1>5 DEF HandInv, SleepersSleep
  <2> QED BY <1>1, <2>2, <2>3 DEF Out
<1>8. \A p \in Prio : run_list'[p] = run_list[p] \/ (p = cur_prio[w] /\ run_list'[p] = w)
  BY <1>1, <1>2 DEF Put, Queues
<1>9. RunApart' /\ \A t \in Tcb : t # w /\ Out(t) => Out(t)'
  <2>1. \A p \in Prio : run_list'[p] # NULL => cur_prio'[run_list'[p]] = p
    BY <1>1, <1>8 DEF HandInv, RunApart
  <2>2. Running # NULL => ~InRun(Running)'
    <3>1. Running # NULL => ~InRun(Running)
      BY <1>6 DEF HandInv, RunApart
    <3>2. \A v : v # w /\ ~InRun(v) => \A p \in Prio : run_list'[p] # v
      BY <1>8 DEF InRun
    <3>3. Running # NULL => \A p \in Prio : run_list'[p] # Running
      BY <1>7, <3>1, <3>2
    <3> QED BY <1>6, <3>3 DEF InRun
  <2>3. \A t \in Tcb : t # w /\ Out(t) => Out(t)'
    BY <1>6, <1>8 DEF Out, InRun
  <2> QED BY <1>6, <2>1, <2>2, <2>3 DEF RunApart
<1>10. SleepersSleep' /\ WaitersWait'
  <2>1. ASSUME NEW t \in Tcb, NEW q \in Lines, t \in Line(q)'
        PROVE  t \in Line(q) /\ (Out(t) => Out(t)') /\ frame'[t].mx = frame[t].mx
               /\ (InLock(t) => InLock(t)')
    BY <1>1, <1>5, <1>9, <2>1 DEF InLock
  <2>2. \A q \in Lines : Line(q)' \subseteq Tcb
    BY <1>3, <1>5
  <2>3. frame'[exec].mx \in Mutex \/ ~InLock(exec)'
    BY <1>1, <1>2 DEF HandInv, WokenOwn, InLock
  <2> QED BY <1>1, <2>1, <2>2, <2>3, OthersStay
<1>11. WokenOwn'
  <2>1. \A m \in Mutex : Line(OfMutex(m))' = Line(OfMutex(m))
    <3> SUFFICES ASSUME NEW m \in Mutex
                 PROVE  Line(OfMutex(m))' = Line(OfMutex(m))
      OBVIOUS
    <3>1. OfMutex(m) \in Lines /\ w \notin Line(OfMutex(m))
      BY <1>5, LinesAre
    <3> QED BY <1>5, <3>1
  <2>2. \A t \in Stack : InLock(t)' <=> InLock(t)
    BY <1>1 DEF InLock
  <2> QED BY <1>1, <2>1, <2>2 DEF HandInv, WokenOwn
<1>12. TailReached' /\ PausedWhere' /\ BuildsAlone'
  <2>1. TailReached' /\ PausedWhere'
    BY <1>1, <1>6 DEF HandInv, PausedWhere, TailReached, Wakeful
  <2>2. BuildsAlone'
    <3>1. ~(Dispatching /\ frame[exec].after = "never")
      BY <1>1, <1>a DEF HandInv, BuildsAlone
    <3> QED BY <1>1, <1>6, <3>1 DEF BuildsAlone, Dispatching, Wakeful, Replacing
  <2> QED BY <2>1, <2>2
<1>13. creates' = 0 => cur_tcb' = NULL /\ frame'[exec'].pc = "user"
  BY <1>1 DEF HandInv
<1> QED BY <1>5, <1>9, <1>10, <1>11, <1>12, <1>13 DEF HandInv

\* The invariant.  The lines and their tasks are as above until a second task
\* set is replaced; up to the first replacement nobody waits at all.
HandAll ==
  /\ HandTypes
  /\ creates <= 1 => LockInv
  /\ stopped = "run" /\ creates <= 2 => HandInv

\* The interrupt is taken at no point after which a task is chosen but not yet
\* current, nor while dev_init forgets the queues.
HandWindows == IrqWindows \subseteq Harmless \union {"ds_pick", "ds_remove"}

LEMMA HandInit == Init => HandAll
<1> SUFFICES ASSUME Init
             PROVE  HandAll
  OBVIOUS
<1>1. HandTypes
  BY TypeInit, TypeParts, RunInit, MainInit DEF HandTypes, Guarded, Init, MutexInit
<1>2. LockInv
  BY LockInit
<1>3. /\ \A d \in Device : Head(d) = NULL
      /\ \A m \in Mutex : pSleep_queue[m] = NULL
      /\ frame[exec].pc = "user" /\ Running = NULL /\ cur_tcb = NULL
      /\ \A s \in Stack : frame[s].pc = "user"
      /\ \A p \in Prio : run_list[p] = NULL
      /\ irq = "on" /\ isr = NoIsr
  <2>1. exec \in Stack /\ frame[exec].pc = "user" /\ \A s \in Stack : frame[s].pc = "user"
    BY Ranges DEF Init, UserFrame
  <2> QED BY <2>1, RunningIs DEF Init, MutexInit, Head, EmptyQueue
<1>4. \A q \in Lines : Line(q) = {}
  <2>1. \A q \in Lines : Heads[q] = NULL
    BY <1>3, LinesAre
  <2>2. \A q \in Lines : ChainIn(sleep_queue, Heads[q]) = {}
    BY <2>1, EmptyChain
  <2> QED BY <2>2 DEF Line
<1>5. LinesApart /\ SleepersSleep /\ WaitersWait
  BY <1>4, LinesAre DEF LinesApart, Apart, Line, SleepersSleep, WaitersWait
<1>6. RunApart /\ WokenOwn /\ TailReached
  BY <1>3 DEF RunApart, WokenOwn, InLock, ToSwitch, TailReached
<1>7. PausedWhere /\ BuildsAlone
  BY <1>3 DEF PausedWhere, BuildsAlone, Wakeful, ToSwitch, Replacing, Dispatching
<1> QED BY <1>1, <1>2, <1>3, <1>5, <1>6, <1>7 DEF HandAll, HandInv

LEMMA HandStep ==
  ASSUME HandWindows, HandAll, [Next]_vars
  PROVE  HandAll'
<1> USE DEF HandAll
<1>1. HandTypes'
  <2>1. "ds_switch" \notin IrqWindows
    BY DEF HandWindows, Harmless
  <2> QED BY <2>1, FrameStep, RestStep, RunStep, MainStep, GuardedStep DEF HandTypes
<1>2. /\ creates \in Nat /\ creates' \in {creates, creates + 1}
      /\ \A n \in 0 .. OS_AVAIL_TASKS : TaskCreate(n) => creates' = creates + 1
      /\ stopped' = "run" => stopped = "run"
  <2>1. creates \in Nat
    BY KernelAssumption DEF HandTypes, RestType
  <2>2. creates' \in {creates, creates + 1}
    BY DEF Next, UserCalls, CallSteps, IsrSteps, MutexCreate, MutexLockFree, MutexLockWait,
           MutexUnlock, EventWait, TaskCreate,
           Refused, DispatchPick, DispatchRemove, DispatchCur, DispatchSwitch, TailScan,
           MutexLockTail, DevInit, RunqueueInit, AllocateTcb, AllocateIdle, ScanDevice, WakeSleeper,
           CloseDevice, Preempt, IrqReturn, Tick, Halted, vars, history
  <2>3. stopped' = "run" => stopped = "run"
    BY DEF Next, UserCalls, CallSteps, IsrSteps, MutexCreate, MutexLockFree, MutexLockWait,
           MutexUnlock, EventWait, TaskCreate, TaskCalls, AtCall, At, InIsr,
           Refused, DispatchPick, DispatchRemove, DispatchCur, DispatchSwitch, TailScan,
           MutexLockTail, DevInit, RunqueueInit, AllocateTcb, AllocateIdle, ScanDevice, WakeSleeper,
           CloseDevice, Preempt, IrqReturn, Tick, Halted, vars
  <2> QED BY <2>1, <2>2, <2>3 DEF TaskCreate
<1>3. ASSUME creates' <= 1
      PROVE  LockInv'
  <2>1. creates <= 1
    BY <1>2, <1>3
  <2>2. ASSUME NEW n \in 0 .. OS_AVAIL_TASKS, TaskCreate(n)
        PROVE  NoneHeld
    <3>1. creates = 0 /\ stopped = "run"
      BY <1>2, <1>3, <2>2 DEF TaskCreate, AtCall, At
    <3>2. cur_tcb = NULL
      BY <3>1 DEF HandInv
    <3> QED BY <2>1, <3>2 DEF LockInv, HolderRuns, NoneHeld
  <2> QED BY <2>1, <2>2, LockKept DEF HandTypes
<1>4. ASSUME stopped' = "run", creates' <= 2
      PROVE  HandInv'
  <2>1. HandInv /\ HandTypes
    BY <1>2, <1>4
  <2>2. ASSUME NEW n \in 0 .. OS_AVAIL_TASKS, TaskCreate(n)
        PROVE  HandInv'
    <3>1. LockInv
      BY <1>2, <1>4, <2>2
    <3> QED BY <2>1, <2>2, <3>1, CreateHands
  <2>3. ASSUME NEW m \in Mutex, MutexLockFree(m) \/ MutexLockWait(m) \/ MutexUnlock(m)
        PROVE  HandInv'
    BY <2>1, <2>3, LockFreeHands, LockWaitHands, UnlockHands
  <2>4. ASSUME NEW d \in Device, EventWait(d)
        PROVE  HandInv'
    BY <2>1, <2>4, EventWaitHands
  <2>5. CASE MutexCreate \/ Refused \/ Halted \/ UNCHANGED vars
    BY <2>1, <2>5, NothingHands
  <2>6. CASE Tick \/ ScanDevice \/ CloseDevice \/ IrqReturn
    BY <2>1, <2>6, InterruptHands DEF HandWindows, Harmless
  <2>7. CASE WakeSleeper \/ Preempt
    BY <1>4, <2>1, <2>7, WakeHands, PreemptHands
  <2>8. CASE DispatchPick \/ DispatchRemove \/ DispatchCur \/ DispatchSwitch
    BY <1>4, <2>1, <2>8, PickHands, RemoveHands, CurHands, SwitchHands
  <2>9. CASE TailScan \/ MutexLockTail
    BY <2>1, <2>9, TailHands, LockTailHands
  <2>10. CASE DevInit \/ RunqueueInit \/ AllocateTcb \/ AllocateIdle
    BY <2>1, <2>10, DevInitHands, QueueInitHands, AllocateHands, IdleHands
  <2> QED
    BY <2>2, <2>3, <2>4, <2>5, <2>6, <2>7, <2>8, <2>9, <2>10 DEF Next, UserCalls, CallSteps, IsrSteps
<1> QED BY <1>1, <1>3, <1>4

\* A mutex is handed over, never up for grabs (mutex.c:91, 128-132): as long as
\* a task waits there is a holder, and the task that comes back from its wait
\* inside mutex_lock is the one that the unlock made the holder, through a
\* replacement of the task set by a task that holds the mutex.
THEOREM HandedOverHolds == ASSUME HandWindows PROVE Spec => []HandedOver
<1>1. Init => HandAll
  BY HandInit
<1>2. HandAll /\ [Next]_vars => HandAll'
  BY HandStep
<1>3. HandAll => HandedOver
  <2> SUFFICES ASSUME HandAll
               PROVE  HandedOver
    OBVIOUS
  <2>1. WaitersHaveHolder
    BY DEF HandAll, HandTypes, Guarded, WaitersHaveHolder
  <2>2. ASSUME creates <= 2, stopped = "run", frame[exec].pc = "locked"
        PROVE  bLock[frame[exec].mx] /\ pHolding_Tcb[frame[exec].mx] = exec
    <3>1. HandTypes /\ HandInv
      BY <2>2 DEF HandAll
    <3>2. exec \in Stack /\ Running = exec
      BY <2>2, <3>1, NowFacts, RunningIs
    <3>3. PICK m \in Mutex : /\ frame[exec].mx = m
                             /\ exec \in Line(OfMutex(m)) \/ (bLock[m] /\ pHolding_Tcb[m] = exec)
      BY <2>2, <3>1, <3>2 DEF HandInv, WokenOwn, InLock
    <3>4. exec \notin Line(OfMutex(m))
      BY <3>1, <3>2 DEF HandInv, WaitersWait, Out
    <3> QED BY <3>3, <3>4
  <2> QED BY <2>1, <2>2 DEF HandedOver, WokenHolds
<1> QED BY <1>1, <1>2, <1>3, PTL DEF Spec
=============================================================================
