----------------------------- MODULE Scheduler -----------------------------
(***************************************************************************)
(* What the kernel promises about who has the processor.  A task of the    *)
(* set is running, ready or waiting for a device.  When the running task   *)
(* waits, the best of the ready ones takes over; when a device wakes a     *)
(* better one, that one may take over at once; and neither happens while   *)
(* the running task holds a mutex, so no task ever waits for one.  A new   *)
(* task set takes the place of the old one.                                *)
(*                                                                         *)
(* A task is named by its native priority; the least is the best.          *)
(***************************************************************************)
EXTENDS Integers, FiniteSetsExt

CONSTANTS Task, Idle, Device

NOBODY == 0

VARIABLES members,       \* the task set, idle task included
          running,       \* NOBODY while the kernel is between two tasks
          ready,
          waiting,       \* device -> tasks
          holding        \* does the running task hold a mutex?

vars == <<members, running, ready, waiting, holding>>

Nobody == [d \in Device |-> {}]

Init ==
  /\ members = {} /\ running = NOBODY /\ ready = {} /\ waiting = Nobody
  /\ holding = FALSE

Hold ==
  /\ running # NOBODY
  /\ holding' \in BOOLEAN
  /\ UNCHANGED <<members, running, ready, waiting>>

Block(d) ==
  /\ running \in members \ {Idle}
  /\ ~holding
  /\ waiting' = [waiting EXCEPT ![d] = @ \union {running}]
  /\ running' = NOBODY
  /\ UNCHANGED <<members, ready, holding>>

Dispatch ==
  /\ running = NOBODY
  /\ ready # {}
  /\ running' = Min(ready)
  /\ ready' = ready \ {Min(ready)}
  /\ UNCHANGED <<members, waiting, holding>>

Wake(t, d) ==
  /\ t \in waiting[d]
  /\ waiting' = [waiting EXCEPT ![d] = @ \ {t}]
  /\ ready' = ready \union {t}
  /\ UNCHANGED <<members, running, holding>>

Preempt ==
  /\ ~holding
  /\ ready # {}
  /\ Min(ready) < running
  /\ running' = Min(ready)
  /\ ready' = (ready \ {Min(ready)}) \union {running}
  /\ UNCHANGED <<members, waiting, holding>>

\* The running task asks for a new task set: the old one is gone ...
Discard ==
  /\ ~holding
  /\ members' = {} /\ ready' = {} /\ waiting' = Nobody
  /\ UNCHANGED <<running, holding>>

\* ... and the new one starts, every task from its beginning.
Start(set) ==
  /\ members = {}
  /\ Idle \in set
  /\ members' = set /\ ready' = set /\ running' = NOBODY
  /\ UNCHANGED <<waiting, holding>>

Next ==
  \/ Hold \/ Dispatch \/ Preempt \/ Discard
  \/ \E d \in Device : Block(d) \/ \E t \in Task : Wake(t, d)
  \/ \E set \in SUBSET Task : Start(set)

Spec == Init /\ [][Next]_vars
=============================================================================
