------------------------------- MODULE Kernel -------------------------------
(***************************************************************************)
(* The kernel's core as one system: tasks making system calls, the         *)
(* dispatcher (kernel/sched/ctx_switch.c), the run queue, the mutexes      *)
(* (kernel/lock/mutex.c), the periodic devices (kernel/device.c), the      *)
(* creation of a task set (kernel/syscall/proc.c, kernel/sched/sched.c)    *)
(* and the timer interrupt, which may be taken wherever the code leaves    *)
(* interrupts enabled.                                                     *)
(*                                                                         *)
(* Three things that C leaves implicit are state here:                     *)
(*                                                                         *)
(*  - which kernel stack the processor is on (exec).  cur_tcb is what the  *)
(*    kernel believes; between the assignment of cur_tcb and the switch    *)
(*    of stacks the two differ;                                            *)
(*  - where each stack will go on (frame), with the locals that live in it;*)
(*  - whether interrupts are enabled (irq).  ctx_switch_full does not save *)
(*    the status register, so this belongs to the processor and not to a   *)
(*    task.                                                                *)
(*                                                                         *)
(* Task i of a task set uses system_tcb[i+1] at native priority i+1, so a  *)
(* tcb is named by its index; entry 0 is never used and 0 is NULL.         *)
(***************************************************************************)
EXTENDS Integers, FiniteSets

CONSTANTS OS_MAX_TASKS,       \* config.h
          NUM_DEVICES,        \* device.h
          dev_freq,           \* device -> its period, in timer interrupts
          OS_NUM_MUTEX,       \* config.h
          IrqWindows,         \* points besides user mode at which the timer
                              \*   interrupt may be taken
          CreateWhileHolding, \* may a task call task_create holding a mutex?
          MaxCreates          \* bound: calls of task_create

IDLE_PRIO == OS_MAX_TASKS - 1
OS_AVAIL_TASKS_All == OS_MAX_TASKS      \* Fault: no slot is kept back.
OS_AVAIL_TASKS == OS_MAX_TASKS - 2
HIGHEST_PRIO == 0

NULL == 0
Tcb == 1 .. IDLE_PRIO
Device == 0 .. NUM_DEVICES - 1
Mutex == 0 .. OS_NUM_MUTEX - 1

INSTANCE PrioQueue

\* A stack is named by its task; the one that kmain and main run on, before
\* the first task is launched, is named 0.
BootMain == 0
Stack == Tcb \union {BootMain}

\* What a tcb's context holds: a stack, the initial context that makes
\* launch_task (or idle) start afresh, or one that was loaded and not saved
\* since, whose stack pointer and return address are out of date.
LAUNCH == -1
STALE == -2

\* Where a stack may go on.  The points at which the code has interrupts
\* enabled inside the kernel are the candidates for IrqWindows.
Points == {"user",        \* in user mode (in idle(), for the idle task)
           "tail_scan",   \* mutex_lock, looking for the tail of the queue
           "ds_pick",     \* dispatch_*: about to call highest_prio
           "ds_remove",   \* dispatch_*: about to call runqueue_remove
           "ds_cur",      \* dispatch_*: about to assign cur_tcb
           "ds_switch",   \* dispatch_*: about to switch stacks
           "locked",      \* mutex_lock, after the mutex is its own
           "dev_init",    \* task_create, in the loop of dev_init
           "rq_init",     \* task_create, about to call runqueue_init
           "alloc"}       \* task_create, in the loop of allocate_tasks

Frames == [pc    : Points,
           after : {"user", "locked", "never"}, \* where dispatch_* returns to
           pick  : Prio,               \* priority, then tcb, being dispatched;
                                       \*   tcb_iterator in mutex_lock
           mx    : Mutex \union {0},   \* argument of mutex_lock
           i     : Nat,                \* loop index
           n     : 0 .. OS_AVAIL_TASKS,  \* num_tasks
           in_irq : BOOLEAN]           \* irq_handler has still to return

UserFrame ==
  [pc |-> "user", after |-> "user", pick |-> 0, mx |-> 0, i |-> 0, n |-> 0,
   in_irq |-> FALSE]

ASSUME KernelAssumption ==
  /\ OS_MAX_TASKS \in Nat /\ OS_MAX_TASKS >= 3
  /\ NUM_DEVICES \in Nat
  /\ dev_freq \in [Device -> Nat \ {0}]
  /\ OS_NUM_MUTEX \in Nat
  /\ IrqWindows \subseteq Points
  /\ CreateWhileHolding \in BOOLEAN
  /\ MaxCreates \in Nat

VARIABLES
  \* ctx_switch.c, run_queue.c, sched.c
  cur_tcb,        \* the kernel's current task, NULL while main runs
  run_list,       \* the run queue, with the operators of PrioQueue
  cur_prio,       \* tcb -> priority it runs at
  holds_lock,     \* tcb -> number of mutexes held, as counted
  sleep_queue,    \* tcb -> next tcb in whatever queue it is linked into
  context,        \* tcb -> what its saved context is of
  \* device.c
  dev_queue,      \* device -> head of its sleep queue
  left,           \* device -> next_match minus sys_time, in interrupts
  \* mutex.c
  cur_mutex_num,  \* mutexes created so far
  bLock,          \* mutex -> locked?
  pHolding_Tcb,   \* mutex -> its holder
  pSleep_queue,   \* mutex -> head of its queue
  \* the processor
  exec,           \* the stack the processor is on
  frame,          \* stack -> where it goes on, and its locals
  irq,            \* "on"; "off"; or the phase of dev_update
  isr,            \* locals of dev_update: device, tcb_iterator, need_ctx
  stopped,        \* "run"; "panic" (an assert); "crash" (stale context)
  \* history
  tasks,          \* the tcbs of the current task set, the idle task included
  creates         \* calls of task_create so far

tcbs == <<cur_prio, holds_lock, sleep_queue>>
devices == <<dev_queue, left>>
mutexes == <<cur_mutex_num, bLock, pHolding_Tcb, pSleep_queue>>
history == <<tasks, creates>>
vars == <<cur_tcb, run_list, tcbs, context, devices, mutexes,
          exec, frame, irq, isr, stopped, history>>

NoIsr == [dev |-> 0, iter |-> NULL, need_ctx |-> FALSE]

\* mutex_init
MutexInit ==
  /\ cur_mutex_num = 0
  /\ bLock = [m \in Mutex |-> FALSE]
  /\ pHolding_Tcb = [m \in Mutex |-> NULL]
  /\ pSleep_queue = [m \in Mutex |-> NULL]

\* The state in which kmain enters main: static memory is zero, no tcb is in
\* use, and the timer runs.
Init ==
  /\ cur_tcb = NULL
  /\ run_list = EmptyQueue
  /\ cur_prio = [t \in Tcb |-> 0]
  /\ holds_lock = [t \in Tcb |-> 0]
  /\ sleep_queue = [t \in Tcb |-> NULL]
  /\ context = [t \in Tcb |-> STALE]
  /\ dev_queue = [d \in Device |-> NULL]
  /\ left = [d \in Device |-> 0]
  /\ MutexInit
  /\ exec = BootMain
  /\ frame = [s \in Stack |-> UserFrame]
  /\ irq = "on"
  /\ isr = NoIsr
  /\ stopped = "run"
  /\ tasks = {}
  /\ creates = 0

\* The stack on the processor is at point p and can take a step.
At(p) ==
  /\ stopped = "run"
  /\ irq \in {"on", "off"}
  /\ frame[exec].pc = p

\* A task in user mode that is about to make a system call.  While main runs
\* there is no current tcb: main may create mutexes and a task set only, as
\* the programs under tasks/ do.
AtCall == At("user") /\ exec # IDLE_PRIO
TaskCalls == AtCall /\ exec # BootMain

GoOn(f) == frame' = [frame EXCEPT ![exec] = f]
Goto(p) == GoOn([frame[exec] EXCEPT !.pc = p])

(***************************************************************************)
(* ctx_switch_full and ctx_switch_half: continue on the stack that the     *)
(* context of tcb `to' is of, with `saved' the contexts after the save and *)
(* `left_at' the frames.  A launched task starts with interrupts enabled;  *)
(* so does a stack that returns through irq_handler or to user mode.  The  *)
(* rest of mutex_lock finds the processor as the switch left it.           *)
(***************************************************************************)
SwitchTo(to, saved, left_at) ==
  LET launch == saved[to] = LAUNCH
      next == IF launch THEN to ELSE saved[to]
      resumed == IF launch THEN UserFrame
                           ELSE [left_at[next] EXCEPT !.in_irq = FALSE]
      inherits == ~launch /\ left_at[next].pc = "locked" /\ ~left_at[next].in_irq
  IN  \/ /\ saved[to] = STALE
         /\ stopped' = "crash"
         /\ UNCHANGED <<exec, context, frame, irq>>
      \/ /\ saved[to] # STALE
         /\ exec' = next
         /\ context' = IF launch THEN saved ELSE [saved EXCEPT ![to] = STALE]
         /\ frame' = [left_at EXCEPT ![next] = resumed]
         /\ irq' = IF inherits /\ irq # "on" THEN "off" ELSE "on"
         /\ UNCHANGED stopped

(***************************************************************************)
(* dispatch_sleep and dispatch_nosave, one access to shared state at a     *)
(* time: dev_wait and task_create run them with interrupts enabled.        *)
(***************************************************************************)

\* The registers of the running stack, saved into a tcb.
Saved_Next(tcb) == [context EXCEPT ![frame[exec].pick] = exec] \* Fault: swapped
Saved(tcb) == [context EXCEPT ![tcb] = exec]

\* The caller gives up the processor and will go on at `after'.
Dispatch(f, after) == GoOn([f EXCEPT !.pc = "ds_pick", !.after = after])

\* highest_prio()
DispatchPick ==
  /\ At("ds_pick")
  /\ GoOn([frame[exec] EXCEPT !.pc = "ds_remove", !.pick = HighestPrio(run_list)])
  /\ UNCHANGED <<cur_tcb, run_list, tcbs, context, devices, mutexes,
                 exec, irq, isr, stopped, history>>

\* runqueue_remove of the priority picked; its asserts stop the kernel.
DispatchRemove ==
  /\ At("ds_remove")
  /\ LET prio == frame[exec].pick
     IN  \/ /\ run_list[prio] # NULL
            /\ run_list' = Drop(run_list, prio)
            /\ GoOn([frame[exec] EXCEPT !.pc = "ds_cur", !.pick = run_list[prio]])
            /\ UNCHANGED stopped
         \/ /\ run_list[prio] = NULL
            /\ stopped' = "panic"
            /\ UNCHANGED <<run_list, frame>>
  /\ UNCHANGED <<cur_tcb, tcbs, context, devices, mutexes, exec, irq, isr, history>>

\* tmp = cur_tcb; cur_tcb = task_to_switch.  The tcb to save into (tmp) takes
\* the place of the index in the frame.
DispatchCur ==
  /\ At("ds_cur")
  /\ cur_tcb' = frame[exec].pick
  /\ GoOn([frame[exec] EXCEPT !.pc = "ds_switch", !.i = cur_tcb])
  /\ UNCHANGED <<run_list, tcbs, context, devices, mutexes,
                 exec, irq, isr, stopped, history>>

\* ctx_switch_full into the tcb saved in the frame, or ctx_switch_half.
DispatchSwitch ==
  /\ At("ds_switch")
  /\ LET f == frame[exec]
         saved == IF f.after = "never" THEN context
                                       ELSE Saved(f.i)
         back == IF f.after = "locked" THEN [UserFrame EXCEPT !.pc = "locked", !.mx = f.mx]
                                       ELSE UserFrame
     IN  SwitchTo(f.pick, saved, [frame EXCEPT ![exec] = back])
  /\ UNCHANGED <<cur_tcb, run_list, tcbs, devices, mutexes, isr, history>>

(***************************************************************************)
(* Mutexes.  Apart from the wait inside mutex_lock, each call runs with    *)
(* interrupts disabled from its first statement to its last.               *)
(***************************************************************************)
Created(m) == m < cur_mutex_num     \* ~bAvailable

MutexCreate ==
  /\ AtCall
  /\ cur_mutex_num < OS_NUM_MUTEX
  /\ cur_mutex_num' = cur_mutex_num + 1
  /\ UNCHANGED <<cur_tcb, run_list, tcbs, context, devices, bLock, pHolding_Tcb,
                 pSleep_queue, exec, frame, irq, isr, stopped, history>>

\* Fault: holds_lock is a flag.
Own_Flag(m, t) ==
  /\ pHolding_Tcb' = [pHolding_Tcb EXCEPT ![m] = t]
  /\ holds_lock' = [holds_lock EXCEPT ![t] = 1]
  /\ cur_prio' = [cur_prio EXCEPT ![t] = HIGHEST_PRIO]

\* Fault: the holder keeps its priority.
Own_NoCeiling(m, t) ==
  /\ pHolding_Tcb' = [pHolding_Tcb EXCEPT ![m] = t]
  /\ holds_lock' = [holds_lock EXCEPT ![t] = @ + 1]
  /\ UNCHANGED cur_prio

\* Lines 91-93: task t owns mutex m, and runs at the highest priority.
Own(m, t) ==
  /\ pHolding_Tcb' = [pHolding_Tcb EXCEPT ![m] = t]
  /\ holds_lock' = [holds_lock EXCEPT ![t] = @ + 1]
  /\ cur_prio' = [cur_prio EXCEPT ![t] = HIGHEST_PRIO]

CanLock(m) == Created(m) /\ pHolding_Tcb[m] # cur_tcb

MutexLockFree(m) ==
  /\ TaskCalls
  /\ CanLock(m)
  /\ ~bLock[m]
  /\ bLock' = [bLock EXCEPT ![m] = TRUE]
  /\ Own(m, cur_tcb)
  /\ UNCHANGED <<cur_tcb, run_list, sleep_queue, context, devices, cur_mutex_num,
                 pSleep_queue, exec, frame, irq, isr, stopped, history>>

\* The mutex is taken: join the end of its queue and give up the processor.
MutexLockWait(m) ==
  /\ TaskCalls
  /\ CanLock(m)
  /\ bLock[m]
  /\ irq' = "off"
  /\ sleep_queue' = [sleep_queue EXCEPT ![cur_tcb] = NULL]
  /\ LET f == [UserFrame EXCEPT !.mx = m]
     IN  \/ /\ pSleep_queue[m] = NULL
            /\ pSleep_queue' = [pSleep_queue EXCEPT ![m] = cur_tcb]
            /\ Dispatch(f, "locked")
         \/ /\ pSleep_queue[m] # NULL
            /\ GoOn([f EXCEPT !.pc = "tail_scan", !.pick = pSleep_queue[m]])
            /\ UNCHANGED pSleep_queue
  /\ UNCHANGED <<cur_tcb, run_list, cur_prio, holds_lock, context, devices,
                 cur_mutex_num, bLock, pHolding_Tcb, exec, isr, stopped, history>>

\* One turn of the loop of lines 82-85.
TailScan ==
  /\ At("tail_scan")
  /\ LET iter == frame[exec].pick
     IN  \/ /\ sleep_queue[iter] # NULL
            /\ GoOn([frame[exec] EXCEPT !.pick = sleep_queue[iter]])
            /\ UNCHANGED sleep_queue
         \/ /\ sleep_queue[iter] = NULL
            /\ sleep_queue' = [sleep_queue EXCEPT ![iter] = cur_tcb]
            /\ Dispatch(frame[exec], "locked")
  /\ UNCHANGED <<cur_tcb, run_list, cur_prio, holds_lock, context, devices, mutexes,
                 exec, irq, isr, stopped, history>>

\* The waiter has been woken and dispatched; exec is its local cur_tcb.
MutexLockTail ==
  /\ At("locked")
  /\ Own(frame[exec].mx, exec)
  /\ GoOn(UserFrame)
  /\ irq' = "on"
  /\ UNCHANGED <<cur_tcb, run_list, sleep_queue, context, devices, cur_mutex_num,
                 bLock, pSleep_queue, exec, isr, stopped, history>>

\* Fault: the mutex opens and the task woken has to compete for it.
HandOver_Compete(m, woken) ==
  /\ pHolding_Tcb' = [pHolding_Tcb EXCEPT ![m] = NULL]
  /\ bLock' = [bLock EXCEPT ![m] = FALSE]

\* Lines 128-132: the mutex passes to the task woken, or opens.
HandOver(m, woken) ==
  /\ pHolding_Tcb' = [pHolding_Tcb EXCEPT ![m] = woken]
  /\ bLock' = IF woken = NULL THEN [bLock EXCEPT ![m] = FALSE] ELSE bLock

\* Lines 134-136.
PrioAfter_Kept(t, count) == cur_prio[t]     \* Fault: never lowered.
PrioAfter(t, count) == IF count = 0 THEN t ELSE cur_prio[t]

MutexUnlock(m) ==
  /\ TaskCalls
  /\ Created(m)
  /\ pHolding_Tcb[m] = cur_tcb
  /\ LET woken == pSleep_queue[m]
         count == holds_lock[cur_tcb] - 1
     IN  /\ HandOver(m, woken)
         /\ \/ /\ woken # NULL
               /\ pSleep_queue' = [pSleep_queue EXCEPT ![m] = sleep_queue[woken]]
               /\ sleep_queue' = [sleep_queue EXCEPT ![woken] = NULL]
               /\ run_list' = Put(run_list, woken, cur_prio[woken])
            \/ /\ woken = NULL
               /\ UNCHANGED <<pSleep_queue, sleep_queue, run_list>>
         /\ holds_lock' = [holds_lock EXCEPT ![cur_tcb] = count]
         /\ cur_prio' = [cur_prio EXCEPT ![cur_tcb] = PrioAfter(cur_tcb, count)]
  /\ UNCHANGED <<cur_tcb, context, devices, cur_mutex_num, exec, frame, irq,
                 isr, stopped, history>>

(***************************************************************************)
(* event_wait and dev_wait.  The queue is changed with interrupts          *)
(* disabled; dispatch_sleep is then called with interrupts enabled.        *)
(***************************************************************************)
\* Fault: the tasks already on the queue are not linked behind.
EventWait_NoLink(d) ==
  /\ TaskCalls
  /\ holds_lock[cur_tcb] = 0
  /\ sleep_queue' = [sleep_queue EXCEPT ![cur_tcb] = NULL]
  /\ dev_queue' = [dev_queue EXCEPT ![d] = cur_tcb]
  /\ Dispatch(UserFrame, "user")
  /\ UNCHANGED <<cur_tcb, run_list, cur_prio, holds_lock, context, left, mutexes,
                 exec, irq, isr, stopped, history>>

EventWait(d) ==
  /\ TaskCalls
  /\ holds_lock[cur_tcb] = 0
  /\ sleep_queue' = [sleep_queue EXCEPT ![cur_tcb] = dev_queue[d]]
  /\ dev_queue' = [dev_queue EXCEPT ![d] = cur_tcb]
  /\ Dispatch(UserFrame, "user")
  /\ UNCHANGED <<cur_tcb, run_list, cur_prio, holds_lock, context, left, mutexes,
                 exec, irq, isr, stopped, history>>

(***************************************************************************)
(* Calls that are refused return an error and change nothing: mutex_create *)
(* with ENOMEM, mutex_lock with EINVAL or EDEADLOCK, mutex_unlock with     *)
(* EINVAL or EPERM, event_wait with EHOLDSLOCK.                            *)
(***************************************************************************)
Refused ==
  /\ TaskCalls
  /\ \/ cur_mutex_num = OS_NUM_MUTEX
     \/ \E m \in Mutex : ~CanLock(m)
     \/ \E m \in Mutex : ~Created(m) \/ pHolding_Tcb[m] # cur_tcb
     \/ holds_lock[cur_tcb] # 0
  /\ UNCHANGED vars

(***************************************************************************)
(* task_create, for an argument that passes the checks of lines 46-67.     *)
(* Interrupts stay enabled throughout.  The mutexes are not touched.       *)
(***************************************************************************)
TaskCreate(n) ==
  /\ AtCall
  /\ creates < MaxCreates
  /\ ~CreateWhileHolding /\ exec # BootMain => holds_lock[cur_tcb] = 0
  /\ creates' = creates + 1
  /\ GoOn([UserFrame EXCEPT !.pc = IF NUM_DEVICES = 0 THEN "rq_init" ELSE "dev_init",
                            !.n = n])
  /\ UNCHANGED <<cur_tcb, run_list, tcbs, context, devices, mutexes,
                 exec, irq, isr, stopped, tasks>>

\* One turn of the loop of dev_init.
DevInit ==
  /\ At("dev_init")
  /\ LET d == frame[exec].i
     IN  /\ dev_queue' = [dev_queue EXCEPT ![d] = NULL]
         /\ left' = [left EXCEPT ![d] = dev_freq[d]]
         /\ GoOn([frame[exec] EXCEPT !.i = d + 1,
                     !.pc = IF d + 1 = NUM_DEVICES THEN "rq_init" ELSE "dev_init"])
  /\ UNCHANGED <<cur_tcb, run_list, tcbs, context, mutexes,
                 exec, irq, isr, stopped, history>>

\* allocate_tasks starts with runqueue_init.
RunqueueInit ==
  /\ At("rq_init")
  /\ run_list' = EmptyQueue
  /\ GoOn([frame[exec] EXCEPT !.pc = "alloc", !.i = frame[exec].n])
  /\ UNCHANGED <<cur_tcb, tcbs, context, devices, mutexes,
                 exec, irq, isr, stopped, history>>

\* One turn of the loop of allocate_tasks, from the last tcb to the first.
AllocateTcb ==
  /\ At("alloc")
  /\ LET i == frame[exec].i
     IN  /\ i > 0
         /\ cur_prio' = [cur_prio EXCEPT ![i] = i]
         /\ holds_lock' = [holds_lock EXCEPT ![i] = 0]
         /\ sleep_queue' = [sleep_queue EXCEPT ![i] = NULL]
         /\ context' = [context EXCEPT ![i] = LAUNCH]
         /\ run_list' = Put(run_list, i, i)
         /\ GoOn([frame[exec] EXCEPT !.i = i - 1])
  /\ UNCHANGED <<cur_tcb, devices, mutexes, exec, irq, isr, stopped, history>>

\* Fault: sched_init dispatches as a task does that will go on.
LeaveForGood_Saving == Dispatch(UserFrame, "user")

\* sched_init calls dispatch_nosave: the caller's stack is never returned to.
LeaveForGood == Dispatch(UserFrame, "never")

\* The idle task's tcb comes last, then the first dispatch.
AllocateIdle ==
  /\ At("alloc")
  /\ frame[exec].i = 0
  /\ cur_prio' = [cur_prio EXCEPT ![IDLE_PRIO] = IDLE_PRIO]
  /\ holds_lock' = [holds_lock EXCEPT ![IDLE_PRIO] = 0]
  /\ context' = [context EXCEPT ![IDLE_PRIO] = LAUNCH]
  /\ run_list' = Put(run_list, IDLE_PRIO, IDLE_PRIO)
  /\ tasks' = 1 .. frame[exec].n \union {IDLE_PRIO}
  /\ LeaveForGood
  /\ UNCHANGED <<cur_tcb, sleep_queue, devices, mutexes, exec, irq, isr, stopped,
                 creates>>

(***************************************************************************)
(* The timer interrupt: irq_handler, C_IRQ_handler, update_timer and       *)
(* dev_update, on the stack of whatever was interrupted.  Interrupts are   *)
(* disabled until dev_update is done.                                      *)
(***************************************************************************)
Tick ==
  /\ irq = "on"
  /\ \E p \in {"user"} \union IrqWindows : At(p)
  /\ left' = [d \in Device |-> left[d] - 1]
  /\ irq' = "scan"
  /\ isr' = NoIsr
  /\ UNCHANGED <<cur_tcb, run_list, tcbs, context, dev_queue, mutexes,
                 exec, frame, stopped, history>>

InIsr(phase) == stopped = "run" /\ irq = phase

\* The test of line 117.
Due(d) == left[d] <= 0

\* The device isr.dev is looked at.
ScanDevice ==
  /\ InIsr("scan")
  /\ isr.dev < NUM_DEVICES
  /\ \/ /\ Due(isr.dev)
        /\ irq' = "wake"
        /\ isr' = [isr EXCEPT !.iter = dev_queue[isr.dev]]
     \/ /\ ~Due(isr.dev)
        /\ isr' = [isr EXCEPT !.dev = @ + 1]
        /\ UNCHANGED irq
  /\ UNCHANGED <<cur_tcb, run_list, tcbs, context, devices, mutexes,
                 exec, frame, stopped, history>>

\* One turn of the loop of lines 122-128.
WakeSleeper ==
  /\ InIsr("wake")
  /\ isr.iter # NULL
  /\ run_list' = Put(run_list, isr.iter, cur_prio[isr.iter])
  /\ sleep_queue' = [sleep_queue EXCEPT ![isr.iter] = NULL]
  /\ isr' = [isr EXCEPT !.iter = sleep_queue[isr.iter], !.need_ctx = TRUE]
  /\ UNCHANGED <<cur_tcb, cur_prio, holds_lock, context, devices, mutexes,
                 exec, frame, irq, stopped, history>>

\* Lines 130-133.
CloseDevice ==
  /\ InIsr("wake")
  /\ isr.iter = NULL
  /\ dev_queue' = [dev_queue EXCEPT ![isr.dev] = NULL]
  /\ left' = [left EXCEPT ![isr.dev] = @ + dev_freq[isr.dev]]
  /\ irq' = "scan"
  /\ isr' = [isr EXCEPT !.dev = @ + 1]
  /\ UNCHANGED <<cur_tcb, run_list, tcbs, context, mutexes,
                 exec, frame, stopped, history>>

\* Fault: only the idle task is preempted.
Preempts_Idle == isr.need_ctx /\ cur_tcb = IDLE_PRIO

\* dispatch_save, if a task was woken: the current task goes back to the run
\* queue and the best one continues, when the best one is better.
Preempts == isr.need_ctx /\ cur_prio[cur_tcb] > HighestPrio(run_list)

Preempt ==
  /\ InIsr("scan")
  /\ isr.dev = NUM_DEVICES
  /\ Preempts
  /\ LET queue == Put(run_list, cur_tcb, cur_prio[cur_tcb])
         prio == HighestPrio(queue)
         interrupted == [frame EXCEPT ![exec] = [@ EXCEPT !.in_irq = TRUE]]
     IN  /\ run_list' = Drop(queue, prio)
         /\ cur_tcb' = queue[prio]
         /\ SwitchTo(queue[prio], Saved(cur_tcb), interrupted)
  /\ isr' = NoIsr
  /\ UNCHANGED <<tcbs, devices, mutexes, history>>

IrqReturn ==
  /\ InIsr("scan")
  /\ isr.dev = NUM_DEVICES
  /\ ~Preempts
  /\ irq' = "on"
  /\ isr' = NoIsr
  /\ UNCHANGED <<cur_tcb, run_list, tcbs, context, devices, mutexes,
                 exec, frame, stopped, history>>

\* A panic spins with interrupts disabled.
Halted == stopped # "run" /\ UNCHANGED vars

UserCalls ==
  \/ MutexCreate
  \/ \E m \in Mutex : MutexLockFree(m) \/ MutexLockWait(m) \/ MutexUnlock(m)
  \/ \E d \in Device : EventWait(d)
  \/ \E n \in 0 .. OS_AVAIL_TASKS : TaskCreate(n)
  \/ Refused

\* The steps of a call that is in hand, on the stack that made it.
CallSteps ==
  \/ DispatchPick \/ DispatchRemove \/ DispatchCur \/ DispatchSwitch
  \/ TailScan \/ MutexLockTail
  \/ DevInit \/ RunqueueInit \/ AllocateTcb \/ AllocateIdle

IsrSteps == ScanDevice \/ WakeSleeper \/ CloseDevice \/ Preempt \/ IrqReturn

Next == UserCalls \/ CallSteps \/ IsrSteps \/ Tick \/ Halted

Spec == Init /\ [][Next]_vars

\* What the hardware and straight-line kernel code guarantee: an interrupt
\* finishes; a call goes on, because a few instructions fit between one timer
\* interrupt and the next, 10 ms later; and the interrupt controller holds a
\* timer interrupt until the processor takes it (update_timer re-arms the match
\* register on every one), so it is taken at some point where it may be.
\* Nothing is assumed of the tasks.
FairSpec ==
  Spec /\ WF_vars(IsrSteps) /\ SF_vars(CallSteps) /\ SF_vars(Tick)

(***************************************************************************)
(* Properties                                                              *)
(***************************************************************************)

\* Every variable stays in the range of its C type.
TypeOK ==
  /\ cur_tcb \in Tcb \union {NULL}
  /\ run_list \in Queues
  /\ cur_prio \in [Tcb -> Prio]
  /\ holds_lock \in [Tcb -> Int]
  /\ sleep_queue \in [Tcb -> Tcb \union {NULL}]
  /\ context \in [Tcb -> Stack \union {LAUNCH, STALE}]
  /\ dev_queue \in [Device -> Tcb \union {NULL}]
  /\ left \in [Device -> Int]
  /\ cur_mutex_num \in 0 .. OS_NUM_MUTEX
  /\ bLock \in [Mutex -> BOOLEAN]
  /\ pHolding_Tcb \in [Mutex -> Tcb \union {NULL}]
  /\ pSleep_queue \in [Mutex -> Tcb \union {NULL}]
  /\ exec \in Stack
  /\ frame \in [Stack -> Frames]
  /\ irq \in {"on", "off", "scan", "wake"}
  /\ isr \in [dev : 0 .. NUM_DEVICES, iter : Tcb \union {NULL}, need_ctx : BOOLEAN]
  /\ stopped \in {"run", "panic", "crash"}
  /\ tasks \subseteq Tcb
  /\ creates \in 0 .. MaxCreates

\* A task (or idle) runs its own code, and no call or interrupt is in hand.
Quiet == stopped = "run" /\ irq = "on" /\ frame[exec].pc = "user" /\ exec # BootMain

\* A set that leads nowhere else through the sleep_queue fields.
Linked(S) == \A t \in S : sleep_queue[t] # NULL => sleep_queue[t] \in S

\* The tasks linked from `head' through the sleep_queue fields: those in every
\* such set that holds the head.
Chain(head) ==
  IF head = NULL THEN {}
  ELSE {t \in Tcb : \A S \in SUBSET Tcb : head \in S /\ Linked(S) => t \in S}

Sleepers(d) == Chain(IF irq = "wake" /\ isr.dev = d THEN isr.iter ELSE dev_queue[d])
Waiters(m) == Chain(pSleep_queue[m])

\* The places that hold task t.
Places(t) == {<<"run", p>> : p \in {p \in Prio : run_list[p] = t}}
               \union {<<"device", d>> : d \in {d \in Device : t \in Sleepers(d)}}
               \union {<<"mutex", m>> : m \in {m \in Mutex : t \in Waiters(m)}}

\* Every task of the current set is where something will find it: it is the
\* current task, or it is in the run queue or on the queue of one device or
\* one mutex, and never in two of these at once (device.c:63-66, 90-96).
NoLostTask ==
  Quiet => \A t \in tasks : Cardinality(Places(t)) = IF t = cur_tcb THEN 0 ELSE 1

\* No task disappears: one that is not running is in some queue.
NoneForgotten ==
  Quiet => \A t \in tasks : t = cur_tcb \/ Places(t) # {}

\* The Highest Locker Protocol (mutex.c:93): whoever holds a mutex is running
\* user code at the highest priority and no task waits for the mutex, so a
\* lock is never contended, and never held across a switch of tasks.
HighestLocker ==
  stopped = "run" =>
    \A m \in Mutex : pHolding_Tcb[m] # NULL =>
      /\ pHolding_Tcb[m] = cur_tcb
      /\ frame[exec].pc = "user"
      /\ cur_prio[cur_tcb] = HIGHEST_PRIO
      /\ pSleep_queue[m] = NULL

\* task.h:59 and mutex.c:92,133: holds_lock counts the mutexes held.
HoldsLockCounts ==
  Quiet =>
    \A t \in tasks : holds_lock[t] = Cardinality({m \in Mutex : pHolding_Tcb[m] = t})

\* Tasks wait only for a mutex that somebody holds: there is always someone
\* whose unlock will wake the first of them.
WaitersHaveHolder ==
  \A m \in Mutex : pSleep_queue[m] # NULL => bLock[m] /\ pHolding_Tcb[m] # NULL

\* A task that comes back from its wait inside mutex_lock has been made the
\* holder by the task that unlocked (mutex.c:132, 91).
WokenHolds ==
  stopped = "run" /\ frame[exec].pc = "locked" =>
    LET m == frame[exec].mx IN bLock[m] /\ pHolding_Tcb[m] = exec

\* A mutex is handed over, never up for grabs: as long as a task waits there
\* is a holder, and nobody can take the mutex between the unlock and the end of
\* the wait.  The latter only until a second replacement of the task set:
\* task_create leaves the queues of the mutexes alone, so a task of the set
\* before can be linked into one and be woken for a mutex it did not ask for.
HandedOver == WaitersHaveHolder /\ (creates <= 2 => WokenHolds)

\* First come, first served (mutex_chaser): the head of the queue of a mutex
\* changes only when the task at the head becomes the holder.
HeadBecomesHolder ==
  [][\A m \in Mutex : pSleep_queue[m] # NULL /\ pSleep_queue'[m] # pSleep_queue[m]
                        => pHolding_Tcb'[m] = pSleep_queue[m]]_vars

\* In user mode the processor is on the stack of the task that the kernel
\* believes to be current (ctx_switch.c:53-57, 94-98).
RunsAsItself == Quiet => cur_tcb = exec

\* Task t is ready to run at a higher priority than the one that runs.
Outranks(t) ==
  /\ cur_tcb # NULL
  /\ \E p \in Prio : run_list[p] = t /\ p < cur_prio[cur_tcb]

\* Rate monotonic scheduling (README.md): no task in the run queue outranks
\* the one that runs, as long as the programs have created no mutex.
RateMonotonic == Quiet /\ cur_mutex_num = 0 => \A t \in Tcb : ~Outranks(t)

\* With mutexes: a task that outranks the running one does not wait for ever.
OutrankerRuns == \A t \in Tcb : Quiet /\ Outranks(t) ~> ~Outranks(t)

\* run_queue.c:106-107: a priority that is removed has a task.
AssertsHold == stopped # "panic"

Runnable(t) == t = cur_tcb \/ \E p \in Prio : run_list[p] = t

\* device.c:94-96: a task that waits for a device becomes ready to run, unless
\* its task set is replaced.
EventDelivered ==
  \A t \in Tcb, d \in Device :
    Quiet /\ t \in Sleepers(d) ~> Runnable(t) \/ t \notin tasks

\* The task with the shortest period gets the processor after its event, unless
\* a mutex can keep it out (dev_update wakes and dispatches, device.c:114-140).
FirstTaskRuns ==
  (\E d \in Device : 1 \in Sleepers(d))
    ~> cur_tcb = 1 \/ 1 \notin tasks \/ cur_mutex_num > 0
=============================================================================
