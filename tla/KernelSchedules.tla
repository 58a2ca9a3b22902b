-------------------------- MODULE KernelSchedules --------------------------
(***************************************************************************)
(* The kernel implements Scheduler: what the stacks, the queues and the    *)
(* fields of the tcbs amount to for the tasks.                             *)
(***************************************************************************)
EXTENDS Kernel

\* task_create is replacing the task set.
Replacing == frame[exec].pc \in {"dev_init", "rq_init", "alloc"}

\* dispatch_sleep and dispatch_nosave choose while the task that called is not
\* running any more; the task they remove from the run queue is.
Running ==
  CASE frame[exec].pc \in {"ds_pick", "ds_remove"} -> NULL
    [] frame[exec].pc = "ds_cur"                   -> frame[exec].pick
    [] OTHER                                       -> cur_tcb

Ready == {run_list[p] : p \in Prio} \ {NULL}

\* While it does there is no task set.
Members == IF Replacing THEN {} ELSE tasks
ReadyMembers == IF Replacing THEN {} ELSE Ready
Waiting == [d \in Device |-> IF Replacing THEN {} ELSE Sleepers(d)]

Holding == \E m \in Mutex : pHolding_Tcb[m] # NULL

Sched == INSTANCE Scheduler WITH Task <- Tcb, Idle <- IDLE_PRIO, running <- Running,
  members <- Members, ready <- ReadyMembers, waiting <- Waiting, holding <- Holding

\* The scheduler's promise (README.md, mutex.c:93, ctx_switch.c:36-42,
\* device.c:114-140): every step of the kernel, whatever the interrupt finds it
\* doing, is one of Scheduler's or none.  The task chosen is the best one at the
\* moment of the choice, nobody is passed over, forgotten or run twice, and a
\* holder of a mutex neither waits nor is preempted.
KeepsPromise == Sched!Spec
=============================================================================
