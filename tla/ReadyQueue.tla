----------------------------- MODULE ReadyQueue ----------------------------
(***************************************************************************)
(* The abstract run queue as a specification: the promise that RunQueue is *)
(* shown to keep.  The queue and what comes out of it are all that its     *)
(* callers can tell, the task and the interrupt that it may be in: each    *)
(* has a return value of its own.                                          *)
(***************************************************************************)
EXTENDS PrioQueue

VARIABLES ready,    \* the slots
          returned, \* caller -> the tcb that its last removal returned
          panicked  \* an assertion of the module has failed

vars == <<ready, returned, panicked>>

Caller == {"task", "irq"}

Init ==
  /\ ready = EmptyQueue
  /\ returned = [c \in Caller |-> NULL]
  /\ panicked = FALSE

Clear ==
  /\ ready' = EmptyQueue
  /\ UNCHANGED <<returned, panicked>>

Add(t, p) ==
  /\ ready' = Put(ready, t, p)
  /\ UNCHANGED <<returned, panicked>>

Take(c, p) ==
  /\ ready[p] # NULL
  /\ ready' = Drop(ready, p)
  /\ returned' = [returned EXCEPT ![c] = ready[p]]
  /\ UNCHANGED panicked

\* Removing from an empty slot stops the kernel.
TakeNothing(p) ==
  /\ ready[p] = NULL
  /\ panicked' = TRUE
  /\ UNCHANGED <<ready, returned>>

Next ==
  /\ ~panicked
  /\ \/ Clear
     \/ \E t \in Tcb, p \in Prio : Add(t, p)
     \/ \E p \in Prio : TakeNothing(p) \/ \E c \in Caller : Take(c, p)

Spec == Init /\ [][Next]_vars
=============================================================================
