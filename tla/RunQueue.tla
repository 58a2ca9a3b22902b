------------------------------ MODULE RunQueue -----------------------------
(***************************************************************************)
(* kernel/sched/run_queue.c.  A byte of run bits per group of              *)
(* NUM_RUN_GROUP priorities, one summary byte with a bit per group, and a  *)
(* table that finds the lowest bit of a byte.  A byte is the set of the    *)
(* positions of its high bits.                                             *)
(*                                                                         *)
(* "Externally synchronized" (lines 77 and 97) is not what all callers see *)
(* to: dispatch_sleep and dispatch_nosave call runqueue_remove with        *)
(* interrupts enabled.  A task's removal is therefore one step per access  *)
(* to memory, and between two of them an interrupt (what dev_update and    *)
(* dispatch_save do, and the tasks they switch to) may make whole calls.   *)
(* runqueue_add and runqueue_init are whole: mutex_unlock and              *)
(* dispatch_save call them with interrupts disabled, and the interrupts in *)
(* allocate_tasks are Kernel's (its point "setup").                        *)
(***************************************************************************)
EXTENDS PrioQueue

CONSTANTS
  NUM_RUN_GROUP,    \* priorities per group, and the width of a byte
  IrqCalls          \* the <<point, removed, called>> where an interrupt at
                    \*   this point of the removal of one priority may call
                    \*   runqueue_add or runqueue_remove for another

ASSUME GroupAssumption ==
  /\ NUM_RUN_GROUP \in Nat \ {0}
  /\ OS_MAX_TASKS % NUM_RUN_GROUP = 0

VARIABLES run_list,         \* priority -> tcb, valid only under a high bit
          run_bits,         \* group -> the positions of its high bits
          group_run_bits,   \* the groups whose summary bit is high
          returned,         \* caller -> the tcb that its last removal returned
          panicked,         \* an assert of runqueue_remove has failed
          at,               \* what the task's removal does next
          prio,             \* its parameter
          byte              \* its register

queue == <<run_list, run_bits, group_run_bits>>
removal == <<at, prio, byte>>
vars == <<queue, returned, panicked, removal>>

Caller == {"task", "irq"}
Point == {"rest", "store_bits", "test", "load_group", "store_group", "ret", "null"}

Bit == 0 .. NUM_RUN_GROUP - 1
Group == 0 .. (OS_MAX_TASKS \div NUM_RUN_GROUP) - 1

GroupOf(p) == p \div NUM_RUN_GROUP
BitOf(p) == p % NUM_RUN_GROUP

\* Fault: a table that finds the highest bit.
prio_unmap_Highest(bits) == IF bits = {} THEN 0 ELSE Max(bits)

\* prio_unmap_table: the lowest high bit, and 0 for the byte 0.
prio_unmap(bits) == IF bits = {} THEN 0 ELSE Min(bits)

highest_prio ==
  LET group_id == prio_unmap(group_run_bits)
  IN  group_id * NUM_RUN_GROUP + prio_unmap(run_bits[group_id])

BitSet(p) == BitOf(p) \in run_bits[GroupOf(p)]

Init ==
  /\ run_list = EmptyQueue
  /\ run_bits = [g \in Group |-> {}]
  /\ group_run_bits = {}
  /\ returned = [c \in Caller |-> NULL]
  /\ panicked = FALSE
  /\ at = "rest" /\ prio = 0 /\ byte = {}

\* Clears the bits; the pointers stay behind in run_list.
runqueue_init ==
  /\ run_bits' = [g \in Group |-> {}]
  /\ group_run_bits' = {}
  /\ UNCHANGED <<run_list, returned, panicked>>

runqueue_add(tcb, p) ==
  /\ group_run_bits' = group_run_bits \union {GroupOf(p)}
  /\ run_bits' = [run_bits EXCEPT ![GroupOf(p)] = @ \union {BitOf(p)}]
  /\ run_list' = [run_list EXCEPT ![p] = tcb]
  /\ UNCHANGED <<returned, panicked>>

\* One of the two asserts fails: panic prints and spins.
remove_asserts(p) ==
  /\ ~BitSet(p) \/ run_list[p] = NULL
  /\ panicked' = TRUE
  /\ UNCHANGED <<queue, returned>>

(***************************************************************************)
(* runqueue_remove as a whole, as it is called with interrupts disabled.   *)
(***************************************************************************)
runqueue_remove(p) ==
  LET g == GroupOf(p)
      left == run_bits[g] \ {BitOf(p)}
  IN  /\ BitSet(p)
      /\ run_list[p] # NULL
      /\ run_bits' = [run_bits EXCEPT ![g] = left]
      /\ group_run_bits' = IF left = {} THEN group_run_bits \ {g} ELSE group_run_bits
      /\ returned' = [returned EXCEPT !["irq"] = run_list[p]]
      /\ run_list' = [run_list EXCEPT ![p] = NULL]
      /\ UNCHANGED panicked

(***************************************************************************)
(* runqueue_remove as a task calls it, in the order of the source.         *)
(***************************************************************************)

\* Fault: the bit is not asked about, so that a pointer left behind will do.
remove_load_bits_Unmasked(p) ==
  /\ at = "rest"
  /\ run_list[p] # NULL
  /\ at' = "store_bits"
  /\ prio' = p
  /\ byte' = run_bits[GroupOf(p)]
  /\ UNCHANGED <<queue, returned, panicked>>

\* Both asserts hold (106-107), and CLEAR_BIT loads the byte.
remove_load_bits(p) ==
  /\ at = "rest"
  /\ BitSet(p)
  /\ run_list[p] # NULL
  /\ at' = "store_bits"
  /\ prio' = p
  /\ byte' = run_bits[GroupOf(p)]
  /\ UNCHANGED <<queue, returned, panicked>>

remove_store_bits ==
  /\ at = "store_bits"
  /\ byte' = byte \ {BitOf(prio)}
  /\ run_bits' = [run_bits EXCEPT ![GroupOf(prio)] = byte']
  /\ at' = "test"
  /\ UNCHANGED <<run_list, group_run_bits, returned, panicked, prio>>

\* Fault: the summary bit is cleared although the group has other tasks.
remove_test_Skipped ==
  /\ at = "test"
  /\ at' = "load_group"
  /\ byte' = {}
  /\ UNCHANGED <<queue, returned, panicked, prio>>

\* Line 110.  run_bits is not volatile: the compiler may test the register or
\* load the byte again.
remove_test ==
  /\ at = "test"
  /\ \E tested \in {byte, run_bits[GroupOf(prio)]} :
       at' = IF tested = {} THEN "load_group" ELSE "ret"
  /\ byte' = {}
  /\ UNCHANGED <<queue, returned, panicked, prio>>

remove_load_group ==
  /\ at = "load_group"
  /\ byte' = group_run_bits
  /\ at' = "store_group"
  /\ UNCHANGED <<queue, returned, panicked, prio>>

remove_store_group ==
  /\ at = "store_group"
  /\ group_run_bits' = byte \ {GroupOf(prio)}
  /\ byte' = {}
  /\ at' = "ret"
  /\ UNCHANGED <<run_list, run_bits, returned, panicked, prio>>

\* ret = run_list[prio] (114).
remove_ret ==
  /\ at = "ret"
  /\ returned' = [returned EXCEPT !["task"] = run_list[prio]]
  /\ at' = "null"
  /\ UNCHANGED <<queue, panicked, prio, byte>>

\* run_list[prio] = NULL (115), and the return.
remove_null ==
  /\ at = "null"
  /\ run_list' = [run_list EXCEPT ![prio] = NULL]
  /\ at' = "rest" /\ prio' = 0
  /\ UNCHANGED <<run_bits, group_run_bits, returned, panicked, byte>>

Remove ==
  \/ \E p \in Prio : remove_load_bits(p)
  \/ remove_store_bits
  \/ remove_test
  \/ remove_load_group
  \/ remove_store_group
  \/ remove_ret
  \/ remove_null

\* The calls that cannot disturb a removal: once the summary is right again, for
\* every other priority; while the byte is in the register, for another group.
\* At the other points the byte or the summary that the call changes is about to
\* be overwritten, or the summary still leads highest_prio to the empty group.
HarmlessCalls ==
  {c \in {"store_bits", "ret", "null"} \X Prio \X Prio :
     /\ c[2] # c[3]
     /\ c[1] = "store_bits" => GroupOf(c[2]) # GroupOf(c[3])}

Interrupt ==
  \E p \in Prio :
    /\ <<at, prio, p>> \in IrqCalls
    /\ \/ \E t \in Tcb : runqueue_add(t, p)
       \/ runqueue_remove(p)
       \/ remove_asserts(p)
    /\ UNCHANGED removal

\* A call that is made whole because interrupts are disabled.
Call ==
  /\ at = "rest"
  /\ \/ runqueue_init
     \/ \E t \in Tcb, p \in Prio : runqueue_add(t, p)
     \/ \E p \in Prio : remove_asserts(p)
  /\ UNCHANGED removal

Next == ~panicked /\ (Call \/ Remove \/ Interrupt)

Spec == Init /\ [][Next]_vars

(***************************************************************************)
(* Properties                                                              *)
(***************************************************************************)

\* The variables stay in the ranges of their C types.
TypeOK ==
  /\ run_list \in Queues
  /\ run_bits \in [Group -> SUBSET Bit]
  /\ group_run_bits \subseteq Group
  /\ returned \in [Caller -> Tcb \union {NULL}]
  /\ panicked \in BOOLEAN
  /\ at \in Point
  /\ prio \in Prio
  /\ byte \subseteq Bit \union Group

\* Is the task's removal between the store of the byte and the store of the
\* summary that goes with it?
Clearing == at \in {"test", "load_group", "store_group"}

\* The trie invariant of lines 28-32: a summary bit is high exactly when some
\* bit of its group is, but for the group of a removal that has still to clear
\* it.  highest_prio looks at the summary first, so a summary bit left high
\* over an empty group answers a priority nobody has, and one left low hides a
\* runnable group.
SummaryExact ==
  \A g \in Group : (Clearing => g # GroupOf(prio))
                     => (g \in group_run_bits <=> run_bits[g] # {})

\* A high bit always has a task behind it (the second assert, line 107), even
\* though runqueue_init leaves old pointers behind.
BitsBacked == \A p \in Prio : BitSet(p) => run_list[p] # NULL

\* The slots that count: pointers left behind under a low bit do not.
ready == [p \in Prio |-> IF BitSet(p) THEN run_list[p] ELSE NULL]

\* The two table look-ups of highest_prio (124-129) find the least priority
\* that has a task, when there is one, also for the interrupt that comes while
\* a task is being removed.
HighestIsLeast ==
  ~Clearing /\ Occupied(ready) # {} => highest_prio = Min(Occupied(ready))

\* What the comment of dispatch_save says of the queue without a task
\* (ctx_switch.c:41-42), which the code does not do: it answers 0.  IDLE_PRIO
\* is the last priority (config.h:29).
EmptyIsIdle == Occupied(ready) = {} => highest_prio = OS_MAX_TASKS - 1

\* What the removals have returned, as a removal in progress will complete it.
answered ==
  IF Clearing \/ at = "ret" THEN [returned EXCEPT !["task"] = run_list[prio]]
                            ELSE returned

\* The bitmaps, the summary and the array together are the abstract queue:
\* every call has the effect ReadyQueue gives it (71-118), the removal that an
\* interrupt cuts short at the store of its byte.
Abstract ==
  INSTANCE ReadyQueue WITH ready <- ready, returned <- answered, panicked <- panicked
Refines == Abstract!Spec
=============================================================================
