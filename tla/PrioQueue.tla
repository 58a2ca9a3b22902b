----------------------------- MODULE PrioQueue -----------------------------
(***************************************************************************)
(* What the run queue of kernel/sched/run_queue.c promises its callers,    *)
(* whatever its representation: one slot per priority, each holding at     *)
(* most one task, and the least occupied priority on demand.               *)
(*                                                                         *)
(* A queue is a function from priorities to tasks; an empty slot holds     *)
(* NULL.  The module has no variables: Kernel keeps its run queue as one   *)
(* such function, ReadyQueue makes a specification of it, and RunQueue is  *)
(* the bitmap representation of the C file.                                *)
(***************************************************************************)
EXTENDS Integers, FiniteSetsExt

CONSTANTS OS_MAX_TASKS,     \* config.h: number of priorities
          Tcb,              \* the addresses of the system_tcb entries
          NULL              \* the null pointer

ASSUME SizeAssumption == OS_MAX_TASKS \in Nat \ {0}
ASSUME NullAssumption == NULL \notin Tcb

Prio == 0 .. OS_MAX_TASKS - 1

\* Every queue over these priorities.
Queues == [Prio -> Tcb \union {NULL}]

\* runqueue_init
EmptyQueue == [p \in Prio |-> NULL]

\* runqueue_add: whatever the slot held is overwritten.
Put(q, tcb, prio) == [q EXCEPT ![prio] = tcb]

\* runqueue_remove: the slot is left empty.
Drop(q, prio) == [q EXCEPT ![prio] = NULL]

Occupied(q) == {p \in Prio : q[p] # NULL}

\* highest_prio: the least occupied priority.  Entry 0 of prio_unmap_table is
\* 0, so that is the answer for an empty queue, and not the IDLE_PRIO that the
\* comment of dispatch_save (ctx_switch.c:41-42) says it has been tuned to.
HighestPrio(q) == IF Occupied(q) = {} THEN 0 ELSE Min(Occupied(q))
=============================================================================
