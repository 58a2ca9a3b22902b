------------------------------ MODULE Programs ------------------------------
(***************************************************************************)
(* The test programs of tasks/ on the kernel: sys_err, mutex_chaser,       *)
(* simple_mutex, cyclone, dagger and stress.  Kernel lets a task make any  *)
(* call at any time; here the calls are those of the program, in its       *)
(* order, each through its stub of tasks/libc/swi, and what the kernel     *)
(* answers decides how the program goes on.                                *)
(*                                                                         *)
(* A program is a text for main and one for each of its functions.  A text *)
(* is a sequence of statements; loops that end are unrolled, and output is *)
(* left out.  Numbers that only have to be too large, or different, are    *)
(* scaled with the constants; so are times, of which a tick of this model  *)
(* is 10 milliseconds, two ticks of TIME_RESOLUTION.                       *)
(***************************************************************************)
EXTENDS Kernel, Sequences, SequencesExt

CONSTANTS Shipped,   \* the programs to run
          ITE,       \* cyclone: task sets it goes through
          MaxBurst   \* bound: timer interrupts that fall into one burst of
                     \*   work, from one idle moment to the next

VARIABLES
  program,           \* the one that was started
  pos,               \* stack -> the statement it is at, 0 in panic()
  r0,                \* stack -> what its last call returned
  stub,              \* stack -> has the stub still to look at r0?
  errno,             \* the library's one word, for all tasks
  mutex_val,         \* mutex_chaser: mutex -> the number it protects
  ct,                \* cyclone: task sets so far
  asleep,            \* stack -> timer interrupts that its sleep has to last
  burst,             \* history: interrupts in the present burst
  failed             \* history: stack -> error of its last call that failed

program_vars == <<program, pos, r0, stub, errno, mutex_val, ct, asleep, burst, failed>>

\* bits/errno.h
EPERM == 1
ENOMEM == 12
EFAULT == 14
EINVAL == 22
EDEADLOCK == 58
EHOLDSLOCK == 60
ESCHED == 100

(***************************************************************************)
(* The texts.                                                              *)
(***************************************************************************)
Do(what, arg) == [do |-> what, arg |-> arg]

\* if (event_wait(dev) < 0) panic(...), and the same for the mutexes.
OrPanic(what, arg) == <<Do(what, arg), Do("or_panic", 0)>>
WaitFor(dev) == OrPanic("event_wait", dev)

\* Arguments of task_create other than the program's task set.
TOO_MANY == OS_AVAIL_TASKS + 1
BAD_ADDRESS == -1
TASKS == 0

SysErr_main ==
  <<Do("task_create", TOO_MANY), Do("errno_is", EINVAL),
    Do("task_create", BAD_ADDRESS), Do("errno_is", EFAULT),
    Do("task_create", TASKS), Do("end", 0)>>

SysErr_fun1 ==
  [m \in 1 .. OS_NUM_MUTEX + 1 |-> Do("mutex_create", 0)] \o
  <<Do("errno_is", ENOMEM),
    Do("mutex_unlock", OS_NUM_MUTEX + 1), Do("errno_is", EINVAL),
    Do("mutex_unlock", OS_NUM_MUTEX - 1), Do("errno_is", EPERM),
    Do("mutex_lock", OS_NUM_MUTEX), Do("errno_is", EINVAL),
    Do("mutex_lock", 1), Do("r0_is", 0),
    Do("mutex_lock", 1), Do("errno_is", EDEADLOCK),
    Do("mutex_unlock", 1), Do("r0_is", 0),
    Do("event_wait", NUM_DEVICES), Do("errno_is", EINVAL), Do("end", 0)>>

Chaser_main ==
  FlattenSeq([m \in 1 .. OS_NUM_MUTEX |->
               <<Do("mutex_create", 0), Do("errno_not", ENOMEM)>>])
    \o <<Do("task_create", TASKS), Do("never", 0)>>

\* fun1 to fun4 differ in their device and in what they do to the number.
Chaser_fun(dev, judges) ==
  LET pass(m) == OrPanic("mutex_lock", m) \o <<Do("apply", m)>>
                   \o OrPanic("mutex_unlock", m) \o WaitFor(dev)
      passes == FlattenSeq([m \in 1 .. OS_NUM_MUTEX - 1 |-> pass(m)])
                  \o (IF judges THEN <<Do("results", 0)>> ELSE <<>>)
  IN  passes \o WaitFor(dev) \o <<Do("goto", Len(passes) + 1)>>

Simple_fun1 ==
  <<Do("mutex_create", 0)>> \o WaitFor(0)
    \o <<Do("mutex_lock", 0), Do("mutex_unlock", 0)>> \o WaitFor(0) \o <<Do("end", 0)>>

Simple_fun2 == WaitFor(1) \o <<Do("mutex_lock", 0)>> \o WaitFor(1) \o <<Do("goto", 3)>>

Simple_fun3 ==
  <<Do("mutex_lock", 0)>> \o WaitFor(2)
    \o <<Do("mutex_unlock", 0)>> \o WaitFor(2) \o <<Do("goto", 4)>>

\* A tick of this model is two of the timer's, 10 milliseconds: it sleeps ct.
Cyclone_fun1 ==
  <<Do("count", 0), Do("sleep", 0), Do("task_create", TASKS), Do("never", 0)>>

Dagger_fun(dev) == WaitFor(dev) \o <<Do("goto", 1)>>

\* Task i sleeps i milliseconds, which for the few tasks of a run is over at the
\* next timer interrupt or the one after it: one tick of this model.
Stress_fun1(i) == <<Do("sleep", IF i = 0 THEN 0 ELSE 1)>> \o WaitFor(i) \o <<Do("goto", 1)>>

\* The judge of stress counts its turns first.
Stress_fun2(i) == WaitFor(i) \o <<Do("goto", 1)>>

\* main of the others: one task set, and a complaint.
Plain_main == <<Do("task_create", TASKS), Do("never", 0)>>

(***************************************************************************)
(* The task sets, as main fills them in.                                   *)
(***************************************************************************)
Task(text, T) == [text |-> text, T |-> T]

SysErr_tasks == <<Task(SysErr_fun1, dev_freq[0])>>

Chaser_tasks ==
  <<Task(Chaser_fun(0, FALSE), dev_freq[0]), Task(Chaser_fun(1, FALSE), dev_freq[1]),
    Task(Chaser_fun(2, TRUE), dev_freq[2]), Task(Chaser_fun(3, FALSE), dev_freq[3])>>

Simple_tasks ==
  <<Task(Simple_fun1, dev_freq[0]), Task(Simple_fun2, dev_freq[1]),
    Task(Simple_fun3, dev_freq[2])>>

Cyclone_tasks == <<Task(Cyclone_fun1, dev_freq[3])>>

Dagger_tasks == <<Task(Dagger_fun(0), dev_freq[0]), Task(Dagger_fun(1), dev_freq[1])>>

\* As many tasks as there may be, the judge last.
Stress_tasks ==
  [i \in 1 .. OS_AVAIL_TASKS - 1 |-> Task(Stress_fun1(i - 1), i)]
    \o <<Task(Stress_fun2(OS_AVAIL_TASKS - 1), OS_AVAIL_TASKS)>>

Handed ==
  CASE program = "sys_err"      -> SysErr_tasks
    [] program = "mutex_chaser" -> Chaser_tasks
    [] program = "simple_mutex" -> Simple_tasks
    [] program = "cyclone"      -> Cyclone_tasks
    [] program = "dagger"       -> Dagger_tasks
    [] program = "stress"       -> Stress_tasks

\* Fault: the tasks keep the order they are handed over in.
Admitted_AsHanded == Handed

\* assign_schedule, on these sets: they are admitted and sorted by period.
Admitted == SortSeq(Handed, LAMBDA x, y : x.T < y.T)

MainText ==
  CASE program = "sys_err"      -> SysErr_main
    [] program = "mutex_chaser" -> Chaser_main
    [] OTHER                    -> Plain_main

Text(s) == IF s = BootMain THEN MainText ELSE Admitted[s].text

Panic == Do("panic", 0)
Here(s) == IF s = IDLE_PRIO \/ pos[s] = 0 THEN Panic ELSE Text(s)[pos[s]]

(***************************************************************************)
(* The stubs.  After the swi the kernel's answer is in r0; errno and the   *)
(* -1 follow some instructions later.                                      *)
(***************************************************************************)
Asks(what) == AtCall /\ ~stub[exec] /\ asleep[exec] = 0 /\ Here(exec).do = what
Arg == Here(exec).arg

Answer(r) ==
  /\ r0' = [r0 EXCEPT ![exec] = r]
  /\ stub' = [stub EXCEPT ![exec] = TRUE]
  /\ pos' = [pos EXCEPT ![exec] = @ + 1]
  /\ failed' = IF r < 0 THEN [failed EXCEPT ![exec] = -r] ELSE failed
  /\ UNCHANGED <<program, errno, mutex_val, ct, asleep, burst>>

Refuse(error) == Answer(-error) /\ UNCHANGED vars

\* mutex_create reads its answer after it has enabled interrupts.
UNREAD == OS_NUM_MUTEX + 1
MutexCreateReturn ==
  /\ AtCall
  /\ stub[exec] /\ r0[exec] = UNREAD
  /\ r0' = [r0 EXCEPT ![exec] = cur_mutex_num - 1]
  /\ UNCHANGED <<vars, program, pos, stub, errno, mutex_val, ct, asleep, burst, failed>>

\* Fault: the stub stores the error with its sign.
StubReturn_Signed ==
  /\ AtCall
  /\ stub[exec] /\ r0[exec] # UNREAD
  /\ stub' = [stub EXCEPT ![exec] = FALSE]
  /\ \/ r0[exec] < 0 /\ errno' = r0[exec] /\ r0' = [r0 EXCEPT ![exec] = -1]
     \/ r0[exec] >= 0 /\ UNCHANGED <<errno, r0>>
  /\ UNCHANGED <<vars, program, pos, mutex_val, ct, asleep, burst, failed>>

\* cmp, bpl, neg, str, mov.
StubReturn ==
  /\ AtCall
  /\ stub[exec] /\ r0[exec] # UNREAD
  /\ stub' = [stub EXCEPT ![exec] = FALSE]
  /\ \/ r0[exec] < 0 /\ errno' = -r0[exec] /\ r0' = [r0 EXCEPT ![exec] = -1]
     \/ r0[exec] >= 0 /\ UNCHANGED <<errno, r0>>
  /\ UNCHANGED <<vars, program, pos, mutex_val, ct, asleep, burst, failed>>

(***************************************************************************)
(* The calls, with the kernel's reasons to refuse them in its order.       *)
(***************************************************************************)
CallMutexCreate ==
  /\ Asks("mutex_create")
  /\ \/ cur_mutex_num < OS_NUM_MUTEX /\ MutexCreate /\ Answer(UNREAD)
     \/ cur_mutex_num = OS_NUM_MUTEX /\ Refuse(ENOMEM)

Valid(m) == m \in Mutex /\ Created(m)

CallMutexLock ==
  /\ Asks("mutex_lock")
  /\ \/ ~Valid(Arg) /\ Refuse(EINVAL)
     \/ Valid(Arg) /\ pHolding_Tcb[Arg] = cur_tcb /\ Refuse(EDEADLOCK)
     \/ Valid(Arg) /\ (MutexLockFree(Arg) \/ MutexLockWait(Arg)) /\ Answer(0)

CallMutexUnlock ==
  /\ Asks("mutex_unlock")
  /\ \/ ~Valid(Arg) /\ Refuse(EINVAL)
     \/ Valid(Arg) /\ pHolding_Tcb[Arg] # cur_tcb /\ Refuse(EPERM)
     \/ Valid(Arg) /\ MutexUnlock(Arg) /\ Answer(0)

\* Fault: a task may wait for its device with a mutex held.
CallEventWait_Holding ==
  /\ Asks("event_wait")
  /\ \/ Arg \notin Device /\ Refuse(EINVAL)
     \/ Arg \in Device /\ EventWait(Arg) /\ Answer(0)
     \/ Arg \in Device /\ holds_lock[cur_tcb] # 0 /\ Answer(0) /\ UNCHANGED vars

CallEventWait ==
  /\ Asks("event_wait")
  /\ \/ holds_lock[cur_tcb] # 0 /\ Refuse(EHOLDSLOCK)
     \/ holds_lock[cur_tcb] = 0 /\ Arg \notin Device /\ Refuse(EINVAL)
     \/ Arg \in Device /\ EventWait(Arg) /\ Answer(0)

\* main of sys_err leaves tasks[0].B uninitialised: its set may be refused.
CallTaskCreate ==
  /\ Asks("task_create")
  /\ \/ Arg > OS_AVAIL_TASKS /\ Refuse(EINVAL)
     \/ Arg = BAD_ADDRESS /\ Refuse(EFAULT)
     \/ Arg = TASKS /\ program = "sys_err" /\ Refuse(ESCHED)
     \/ Arg = TASKS /\ TaskCreate(Len(Handed)) /\ Answer(1)

Calls ==
  \/ CallMutexCreate \/ MutexCreateReturn \/ CallMutexLock \/ CallMutexUnlock
  \/ CallEventWait \/ CallTaskCreate \/ StubReturn

(***************************************************************************)
(* What the programs do between their calls.                               *)
(***************************************************************************)
GoTo(n) == pos' = [pos EXCEPT ![exec] = n]
Continue == GoTo(pos[exec] + 1)

\* In the order in which the admitted tasks of mutex_chaser come to it.
Applied(dev, v) ==
  CASE dev = 3 -> v + 3 [] dev = 0 -> v * 11 [] dev = 1 -> v - 7 [] dev = 2 -> v * 13

init_val == 2
result_val == Applied(2, Applied(1, Applied(0, Applied(3, init_val))))

\* The device of the running task's function.
MyDevice == CHOOSE d \in Device : dev_freq[d] = Admitted[exec].T

Statement ==
  /\ AtCall
  /\ ~stub[exec]
  /\ asleep[exec] = 0
  /\ \/ /\ Here(exec).do \in {"errno_is", "errno_not", "r0_is", "results"}
        /\ Continue
        /\ UNCHANGED <<mutex_val, ct, asleep>>
     \/ /\ Here(exec).do = "or_panic"
        /\ GoTo(IF r0[exec] # 0 THEN 0 ELSE pos[exec] + 1)
        /\ UNCHANGED <<mutex_val, ct, asleep>>
     \/ /\ Here(exec).do = "goto"
        /\ GoTo(Arg)
        /\ UNCHANGED <<mutex_val, ct, asleep>>
     \/ /\ Here(exec).do = "apply"
        /\ mutex_val' = [mutex_val EXCEPT ![Arg] = Applied(MyDevice, @)]
        /\ Continue
        /\ UNCHANGED <<ct, asleep>>
     \/ /\ Here(exec).do = "count"
        /\ ct <= ITE
        /\ ct' = ct + 1
        /\ IF ct' > ITE THEN UNCHANGED pos ELSE Continue
        /\ UNCHANGED <<mutex_val, asleep>>
     \/ /\ Here(exec).do = "sleep"
        /\ asleep' = [asleep EXCEPT ![exec] = IF program = "cyclone" THEN ct ELSE Arg]
        /\ Continue
        /\ UNCHANGED <<mutex_val, ct>>
  /\ UNCHANGED <<vars, program, r0, stub, errno, burst, failed>>

\* The stack on the processor waits for nothing but a timer interrupt: it is
\* idle, it sleeps, or its program is over and spins.
Over(s) ==
  \/ Here(s).do \in {"panic", "end", "never"}
  \/ Here(s).do = "count" /\ ct > ITE
Loose == At("user") /\ ~stub[exec] /\ (asleep[exec] > 0 \/ Over(exec))

(***************************************************************************)
(* The kernel's own steps.  A task that is launched starts its function    *)
(* from the beginning.                                                     *)
(***************************************************************************)
Launched(t) ==
  /\ exec' = t
  /\ exec # t \/ At("ds_switch")
  /\ context[t] = LAUNCH
  /\ context'[t] = LAUNCH

Fresh(f, value) == [s \in Stack |-> IF s \in Tcb /\ Launched(s) THEN value ELSE f[s]]

KernelStep ==
  /\ CallSteps \/ IsrSteps
  /\ pos' = Fresh(pos, 1)
  /\ stub' = Fresh(stub, FALSE)
  /\ UNCHANGED <<program, r0, errno, mutex_val, ct, asleep, burst, failed>>

TimerStep ==
  /\ Tick
  /\ \/ Loose /\ burst' = 0
     \/ ~Loose /\ burst < MaxBurst /\ burst' = burst + 1
  /\ asleep' = [s \in Stack |-> IF asleep[s] > 0 THEN asleep[s] - 1 ELSE 0]
  /\ UNCHANGED <<program, pos, r0, stub, errno, mutex_val, ct, failed>>

ProgramInit ==
  /\ Init
  /\ program \in Shipped
  /\ pos = [s \in Stack |-> 1]
  /\ r0 = [s \in Stack |-> 0]
  /\ stub = [s \in Stack |-> FALSE]
  /\ errno = 0
  /\ mutex_val = [m \in Mutex |-> init_val]
  /\ ct = 0
  /\ asleep = [s \in Stack |-> 0]
  /\ burst = 0
  /\ failed = [s \in Stack |-> 0]

Running == Calls \/ Statement \/ KernelStep

ProgramNext == Running \/ TimerStep

\* As for the kernel alone; and a task that has the processor uses it.
ProgramSpec ==
  /\ ProgramInit
  /\ [][ProgramNext]_<<vars, program_vars>>
  /\ WF_<<vars, program_vars>>(Running)
  /\ SF_<<vars, program_vars>>(TimerStep)

(***************************************************************************)
(* Properties                                                              *)
(***************************************************************************)

\* The running stack is about to execute statement `what'.
Reads(what) == stopped = "run" /\ irq = "on" /\ At("user") /\ ~stub[exec] /\ Here(exec).do = what

\* errno is one word (stdlib/errno.c), and tasks are preempted: still, when a
\* program of the repository reads it, it holds the error of the last call
\* that failed in the same task.
ErrnoIsOwn == Reads("errno_is") \/ Reads("errno_not") => errno = failed[exec]

\* sys_err.c:25-52, 65-75: every check of the program succeeds.  The kernel
\* refuses each call for the reason that the program expects, and the stub
\* leaves it in errno, where no other task has put another.
ChecksSucceed ==
  /\ ErrnoIsOwn
  /\ Reads("errno_is") => errno = Arg
  /\ Reads("r0_is") => r0[exec] = Arg

\* mutex_chaser.c:25, 138-142: each number has been through the four functions
\* in the order of their rates, however the passes were interrupted.
NumbersChased ==
  Reads("results") => \A m \in Mutex \ {0} : mutex_val[m] = result_val

\* cyclone.c:4, 49: a task set that is replaced does not go on, and neither does
\* the main that created the first one.
NeverReturns == ~Reads("never")

\* Where each program gets to, whatever the timer does: sys_err and cyclone
\* to their end, mutex_chaser to its judgement; simple_mutex ("will not work
\* for part 2") and stress, which uses devices that do not exist, into
\* panic() and no further; dagger goes on for ever.
EndsAsItDoes ==
  /\ program \in {"sys_err", "cyclone"} => <>(exec # IDLE_PRIO /\ Over(exec) /\ pos[exec] # 0)
  /\ program = "mutex_chaser" => <>Reads("results")
  /\ program \in {"simple_mutex", "stress"} => <>(exec # IDLE_PRIO /\ Reads("panic"))
  /\ program = "dagger" => \A t \in {1, 2} : []<>(exec = t)
=============================================================================
