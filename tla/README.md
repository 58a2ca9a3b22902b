# A TLA+ model of the Gravel kernel

Gravel is a small uniprocessor real-time kernel for the Gumstix (ARM, XScale
PXA255): rate monotonic scheduling of up to 62 periodic tasks, mutexes with the
Highest Locker Protocol, simulated periodic devices that release the jobs of the
tasks, a millisecond clock, console I/O, and a system call interface. This
directory holds the TLA+ modules that model it, the configurations with which
TLC checks them, and the proofs that TLAPS checks. The programs that run on the
kernel, with their C library, are part of the repository and of the models.
`PROJECT.json` maps every definition to the lines it translates.

Line numbers below refer to `src/`; `kernel/` is `src/kernel/`.

## 1. Inventory

| Part | State | Operations | Interacts with |
|---|---|---|---|
| Run queue (`kernel/sched/run_queue.c`) | `run_list`, `run_bits`, `group_run_bits` | `runqueue_init`, `runqueue_add`, `runqueue_remove`, `highest_prio` | called by the dispatcher, mutexes, devices, `allocate_tasks` |
| Dispatcher (`kernel/sched/ctx_switch.c`, `ctx_switch_asm.S`) | `cur_tcb`, the `context` of each tcb | `dispatch_save`, `dispatch_nosave`, `dispatch_sleep`, `ctx_switch_full`, `ctx_switch_half`, `launch_task` | run queue; switches kernel stacks |
| Task sets (`kernel/sched/sched.c`, `kernel/syscall/proc.c`) | `system_tcb` | `task_create`, `allocate_tasks`, `sched_init`, `idle`, `event_wait` | admission test, devices, run queue, dispatcher |
| Admission (`kernel/sched/ub_test.c`, checks of `proc.c`) | the caller's array of tasks | `assign_schedule` | called by `task_create` |
| Mutexes (`kernel/lock/mutex.c`) | `gtMutex`, `cur_mutex_num` | `mutex_init`, `mutex_create`, `mutex_lock`, `mutex_unlock` | run queue, dispatcher, tcbs |
| Devices (`kernel/device.c`) | `devices` (sleep queue, `next_match`) | `dev_init`, `dev_wait`, `dev_update` | timer interrupt, run queue, dispatcher |
| Clock (`kernel/syscall/time.c`) | `sys_time`, the OS timer's registers | `init_timer`, `update_timer`, `time_syscall`, `sleep_syscall` | timer interrupt, devices |
| Entry and exit (`kernel/asm_handler.S`, `kernel_helpers.c`, `kernel_asm.S`, `main.c`) | banked registers, kernel stacks, U-Boot's vectors | `swi_handler`, `swi_dispatch`, `irq_handler`, `C_IRQ_handler`, `kmain`, `wiring_handler`, `restore_handler` | every system call and interrupt |
| Boot (`kernel/start.S`, `main.c`, `uboot/stubs.c`, `tasks/libc/crt0.S`) | bss, the words at U-Boot's handlers, the user stack | `kmain`, `app_startup`, `wiring_handler`, `switch_user_app`, `_start` | everything, once |
| Console (`kernel/syscall/io.c`), address checks (`kernel/memcheck.c`) | the caller's buffer | `read_syscall`, `write_syscall`, `valid_addr` | U-Boot's `getc`, `putc`, `puts` |
| System call stubs (`tasks/libc/swi/`) | `errno`, one word for all tasks | a swi, and `errno` and -1 for a negative answer | programs, `swi_dispatch` |
| C library (`tasks/libc/string`, `stdio`, `stdlib`, `ctype.h`), `kernel/math.c` | the buffers of `printf` and `sprintf` | strings, `_doprnt`, `_doscan`, `strtol`, `hexdump`, arithmetic | the programs; the kernel's own copies |
| Test programs (`tasks/`) | their task sets, mutexes and numbers | `main` and a function per task | the stubs |

Everything runs on one processor. What makes the kernel hard is the timer
interrupt: system calls run with interrupts enabled unless they disable them,
so an interrupt can fall between any two of their instructions, wake tasks, and
switch to another kernel stack in the middle of the call. `swi_handler`
(24-26) enables interrupts at entry; mutex calls disable them; `dev_wait`
disables them for its queue and enables them again *before* it dispatches;
`task_create` runs with them enabled from beginning to end. No interrupt
nests before `dev_update` is done, which enables them again.

What makes each part correct:

* run queue: the summary byte agrees with the bytes it summarises, and two table
  look-ups find the least occupied priority;
* dispatcher: every task is in one place, `cur_tcb` is the task whose stack the
  processor is on, and the best ready task runs;
* mutexes: a holder runs at priority 0 and is not preempted, the counts of held
  mutexes are exact, ownership passes in the order of arrival;
* devices and clock: every device is signalled at its period, no event is lost,
  no tick is, and a sleep ends;
* admission: no task is lost, an accepted set meets its deadlines;
* entry and exit: user mode, stack pointer and link register come back as they were;
* console: the buffer holds the line that the keys mean, no matter who else reads;
* boot: what a handler relies on is there before the first interrupt;
* stubs and programs: each program sees the answers that it was written for;
* C library: what is written can be read back, and nothing outside a buffer or a
  field is written.

## 2. Modules

| Module | Models | Notes |
|---|---|---|
| `PrioQueue` | what the run queue promises: a function from priorities to tasks, with `Put`, `Drop`, `HighestPrio` | operators only; used by `Kernel`, `ReadyQueue` and `RunQueue` |
| `ReadyQueue` | the same as a specification | the abstract side of the refinement |
| `RunQueue` | `run_queue.c` with its bytes (as sets of bit positions) and tables; `runqueue_remove` as a task calls it is a step per access to memory | `Refines`: it implements `ReadyQueue`, `run_list` being cut off where no bit is set |
| `Kernel` | dispatcher, task sets, mutexes, devices and the timer interrupt as one system | its run queue is a `PrioQueue` value, which `RunQueue` justifies |
| `Scheduler` | what the kernel promises its tasks: who runs, who is ready, who waits | abstract; names tasks by priority, knows no stack, queue or interrupt |
| `KernelSchedules` | the refinement mapping from `Kernel` to `Scheduler` | `KeepsPromise` |
| `Programs` | `sys_err`, `mutex_chaser`, `simple_mutex`, `cyclone`, `dagger` and `stress` of `tasks/`, on the kernel through the stubs | extends `Kernel`: the calls are now those of a program |
| `Addresses` | `valid_addr`, and what it should mean | operators only; used by `Admission` and `Console` |
| `Admission` | the checks of `task_create` and `assign_schedule`, a turn of a loop at a time | |
| `Timer` | the clock, `C_IRQ_handler`, the times in `dev_update` and `dev_init`, `sleep_syscall` | real time is counted in oscillations of the timer |
| `SwiIrq` | `asm_handler.S`, a line at a time where order matters | |
| `Boot` | from U-Boot's jump to the first instruction of `main` | `MCSwiIrq` composes it with `SwiIrq`: the program's first instruction is where that one starts |
| `Console` | `read_syscall`, `write_syscall` with their argument checks | |
| `CStrings`, `Printf`, `Stdlib`, `Stdio` | the C library and `kernel/math.c`: operators, one per function | a memory is a function from addresses, a text a sequence of characters |
| `Libc` | one call of any of these functions | `MCSequential` puts it beside `Admission`: both run alone |
| `MC*` | the instances that TLC checks | |
| `MinFacts`, `*Proofs` | lemmas, theorems and proofs | |

### Kernel

Three things that C leaves implicit are variables: the kernel stack that the
processor is on (`exec`), where each stack will go on with the locals it holds
(`frame`), and whether interrupts are enabled (`irq`, which also says how far
`dev_update` has got). A tcb's `context` is a reference to the stack it was
saved from, or "launch afresh", or *stale* once it has been loaded: loading a
stale context is a crash in the model.

Calls that run with interrupts disabled from their first statement to their last
are one action (`MutexLockFree`, `MutexUnlock`). Those that give interrupts a
chance are cut where they do: `mutex_lock` on a taken mutex is
`MutexLockWait`, `TailScan`, the dispatch and `MutexLockTail`; `dispatch_sleep`
and `dispatch_nosave` are `DispatchPick`, `DispatchRemove`, `DispatchCur`,
`DispatchSwitch`; `task_create` is `TaskCreate`, `DevInit`, `RunqueueInit`,
`AllocateTcb`, `AllocateIdle` and a dispatch; the interrupt is `Tick`,
`ScanDevice`, `WakeSleeper`, `CloseDevice`, and `Preempt` or `IrqReturn`. The
constant `IrqWindows` names the points inside the kernel at which an interrupt
may be taken, besides user mode. It is a parameter because the code is not safe
at all of them (section 5).

A device counts in interrupts down to its next signal (`left`) in `Kernel` and
in milliseconds, modulo 2^32, in `Timer`.

### Run queue

`mutex_unlock` and `dispatch_save` call the run queue with interrupts disabled;
`dispatch_sleep` and `dispatch_nosave` call `runqueue_remove` with them enabled. So
the task's removal is `remove_load_bits`, `remove_store_bits`, `remove_test`,
`remove_load_group`, `remove_store_group`, `remove_ret` and `remove_null`, for the
two read-modify-writes (lines 109 and 111), the test between them, the result and
the slot; `Interrupt` makes a whole call between two of them. Line 110 may look at
the byte in memory or at the one in the register: `run_bits` is not volatile. The
code is not safe at all of these points, so which calls an interrupt makes is a
parameter, `IrqCalls`. `HarmlessCalls` are those that disturb nothing: for a task of
another group between load and store of line 109, and for any other priority once
line 111 is done. The abstract queue has the task removed at the store of line
109. In `Kernel` such a removal is the one step `DispatchRemove`.

### Scheduler

`Scheduler` has six kinds of step: the running task takes or gives back its last
mutex, it waits for a device, a device wakes a task, the best ready task takes
over a free processor or a worse one that holds no mutex, and a task set is
discarded and another one started. `KeepsPromise` maps to it what is spread over
`cur_tcb`, the run queue, the chains of sleepers and the locals of the stacks:
from `dispatch_sleep` until the removal nobody runs, then the task that was
removed does, though `cur_tcb` says otherwise; while `task_create` works there is
no task set. Every step of `Kernel` is one step of `Scheduler` or a stutter, so the
choice of the next task is made at one moment although the code makes it in four
steps. A task that `runqueue_add` overwrote in its slot (`run_queue.c:75-76`) would be ready
before the step and nowhere after it, which no step of `Scheduler` allows.

### Programs

A program is a text for `main` and one for each of its functions: a sequence of
statements, each a system call, a test of its result or of `errno`, or a jump.
The answer of the kernel goes through the stub: after the swi, `StubReturn` stores
`errno` and the -1 in a step of its own. Each call has the kernel's reasons to
refuse it, in its order. `task_create` sorts the set as `assign_schedule` does
(`Admitted`), which for these sets means fully. `mutex_create` reads its answer in a
step of its own, after it has enabled interrupts (`MutexCreateReturn`). The four
devices have the periods of `device.c`, which are 20, 40, 100 and 10 ticks of 5
milliseconds, in their proportions: a tick of this model is two of the timer's, and
the periods are 10, 20, 50 and 5. Left out or scaled down: output; loops
that end, which are unrolled; `mutex_chaser` has 6 mutexes for 32 and `cyclone`
4 task sets, sleeping 10 to 40 milliseconds, 1 to 4 of these ticks.

### Boot

Of memory there are the two words at each of U-Boot's handlers, one word of bss
for each variable that is used before the first interrupt, and the user stack.
Any vector may have a format that `wiring_handler` does not know: then it changes
nothing, `kmain` goes on, and the system is `TakenByUboot`.

### C library

`CStrings`, `Printf`, `Stdlib` and `Stdio` have an operator for each function, with
its deviations (section 5). `char`, `size_t` and `long` have few bits, and wrap.
`_doprnt` is a sequence of parsed directives, each with its conversion; its output
goes to `printf`'s buffer or `sprintf`'s string one character at a time. The
undefined cases (negative radices, overlapping `strcpy`) are no inputs.

### Other abstractions

* `RunQueue`: a byte is a set of bit positions, and the table look-up is the
  least member, which is what `prio_unmap_table` holds.
* `Admission`: utilisations are exact fractions; the code's are single precision.
  `NAN` is the quotient 0/0, which no comparison accepts. `DeadlinesMet` is
  exact response time analysis: nothing in it stems from the code.
* `Timer`: the sum of the count and `TIME_RESOLUTION * OSTMR_FREQ_KHZ` is a
  `double`; its conversion is undefined if it exceeds 32 bits. `Overflow` lists
  what it may yield: the sum modulo 2^32, or the greatest value, which is what
  libgcc's soft-float conversion yields on ARM. `elapsed`, `wraps`, `ticks`,
  `stalls`, `age`, `since` and `signals` are there for the properties only. `dev_init`
  is two steps a device, the read of `sys_time` and the store of `next_match`, with
  ticks in between.
* `SwiIrq`: `spsr` and the user's `sp` and `lr` are one of each for all stacks;
  other tasks may change them whenever C code runs.
* `Console`: the screen is the current line; U-Boot's `getc` returns any key.

## 3. Runs

All of them are in `PROJECT.json`. The bounds are named constants.

| Run | Instance | Shows |
|---|---|---|
| `run_queue` | 2 groups of 2 priorities, 2 tasks: one group can empty while another is occupied, and a slot be left behind and reused; interrupts inside a removal make the calls of `HarmlessCalls` | `SummaryExact` and `HighestIsLeast`, but for a removal that is about to clear a summary bit; `Refines` (the abstract queue) for every sequence of calls |
| `kernel` | 3 tasks and idle, 2 devices of periods 1 and 2, 2 mutexes, task set created twice, interrupts in user mode, in the tail scan, at the end of a wait, before `runqueue_init` and in `allocate_tasks`; with fairness | `KeepsPromise` (the abstract scheduler); `NoLostTask`, `HoldsLockCounts`, `RunsAsItself`, `HighestLocker`; `RateMonotonic`; every event is delivered; the first task runs after its event |
| `kernel_stale` | one device, two mutexes, a holder may replace the task set, interrupts inside `mutex_lock` and before the removal in `dispatch_sleep` | only so do tasks queue for mutexes at all; then `HandedOver` (`WaitersHaveHolder`, and `WokenHolds` as long as the set is replaced once), `HeadBecomesHolder` |
| `programs` | six programs, the devices of `config.h`, 7 tasks, 6 mutexes, up to 5 task sets, up to 2 interrupts in one burst of work | `ChecksSucceed` (with `ErrnoIsOwn`), `NumbersChased`, `NeverReturns`, `EndsAsItDoes` |
| `sequential` | admission: all arrays of up to 4 tasks with 3 periods, arrays that are too long, up to 3 tasks by rate with 5 computation and 2 blocking times; every address of 8. Library: strings up to 3 characters of 2, memories of 8 bytes, numbers of 8 bits in every format, widths up to 9, `printf` buffers of 4 characters, dumps up to 33 bytes | `FrontIsFastest` (with `Permuted`), `FaultsExactly`, `MeetsIfInOrder`, `TurnsRunOut`; `StringsAgree`, `CopiesExactly`, `TextArrives`, `ReadsBack`, `ArithmeticRight`, each the conjunction of what the functions of one kind promise |
| `timer` | registers modulo 8, a tick each 3 oscillations, latency 1 to 2, 24 oscillations (3 overflows), both results of an overflowing conversion, 2 devices set up with any number of ticks in between, sleeps of less and of two ticks | `ClockKept` (`ClockNotFast` and `ClockNotSlow`), `DevicePeriod`, `SleepsItsTicks` (`SleepEnds` and `SleepNotShort`) |
| `swi_irq` | boot with 4 argument lists and vectors of both formats; then handlers nested up to 3 deep, interrupts before every line but four | `HandlersInPlace`, `ArgumentsArrive`; `UserInUserMode`, `UserKeepsRegisters`, `IrqRestoresCpsr` |
| `console` | 2 tasks, 2 characters, buffers of 0 to 2 bytes, a prompt of up to 2 characters, 3 keys and an end of file per read, symmetric in tasks and characters | `BufferIsLine`, `ResultIsLine`, `ScreenShowsLine` |
| `kernel_lost`, `kernel_inversion`, `admission_order`, `swi_irq_entry` | see section 5 | a property that the sources state and the code violates |

`kernel` has three tasks because the proofs and counterexamples need one that
runs, one that is woken and one that waits; two devices because one tick may
serve several; two mutexes because a lowered priority must wait for the last of
them. `MaxCreates` is 2: the first creation is from `main`, the second one from
a task, in any state the first set can reach. `timer` needs more than two
overflows of `oscr`, since the match may fall before, at or after one;
`UINT_MOD` is far from reached in it (section 5 has the run that reaches it). In
`console` a read of a line and an erase needs three keys. Symmetry is used in
`console` only, which has no liveness property. `CHECK_DEADLOCK` is off where the
modelled program ends (`sequential`) or where an assertion stops it (run queue).
In `sequential` strings of three characters tell one past the end from the end and
from the second of two matches; 8 bits hold the least number, and a buffer of 4
characters fills up within, at the end of and before every text printed. In
`programs` `MaxBurst` bounds how many timer interrupts fall into one burst of work,
from one moment at which the processor is idle or spinning to the next. A burst
is a few hundred instructions and a tick 5 milliseconds, so even one is rare, and
two let the second one wake a task that the first one's waits for.

### Fairness

`FairSpec` of `Kernel` assumes weak fairness of `IsrSteps`, for the processor goes
on with straight-line code and nothing interrupts the interrupt handler; strong
fairness of `CallSteps`, the steps of a system call that has begun: an interrupt
suspends them over and over, but a call goes on whenever its stack has the
processor again; and strong fairness of `Tick`: the interrupt controller holds a
match until interrupts are enabled, and every one rearms the register. Nothing is
assumed of the tasks: one may run in user mode for ever, and `EventDelivered` and
`FirstTaskRuns` hold all the same. `ProgramSpec` assumes in addition that a program
which can take a step takes one (`WF` of `Running`), and `SF` of the timer; a
program that spins takes no step. `Admission` has no fairness: `TurnsRunOut` says that every
step brings the end nearer. `Timer` does without as well: `SleepEnds` says that the
loop is over once the time it may take is over, which is stronger than that it ends.

## 4. Theorems

Besides what the last column says only the named assumptions on the constants are
used. The properties are those of section 3; the instance that TLC checks meets every
assumption of the theorem.

| Theorem | Says | Assumes |
|---|---|---|
| `RunQueueProofs!Representation`, `SummaryExactHolds`, `HighestIsLeastHolds`, `RefinesHolds` | `RunQueue` keeps its summary exact, finds the least priority, and implements `ReadyQueue` | interrupts inside a removal call only what `HarmlessCalls` lists; any number and size of groups |
| `KernelProofs!TypeOKHolds` | no variable of the kernel leaves the range of its C type | any numbers of tasks, devices and mutexes, any `IrqWindows` |
| `KernelProofs!HighestLockerHolds`, `HoldsLockCountsHolds` | a mutex is never contended and never held across a switch; `holds_lock` is exact | no task replaces the task set while it holds a mutex; any `IrqWindows` |
| `KernelProofs!HeadBecomesHolderHolds`, `WaitersHaveHolderHolds` | a mutex passes to the head of its queue only, and one that is waited for has a holder | none; any `IrqWindows`, task sets replaced by anybody |
| `KernelTaskProofs!HandedOverHolds` | moreover, who returns from its wait in `mutex_lock` is the holder, through one replacement of the task set | no interrupt in the loop of `dev_init`, nor between `runqueue_remove` and the switch of stacks (`HandWindows`); task sets replaced by anybody |
| `KernelProofs!RunsAsItselfHolds` | the processor is on the stack of `cur_tcb` | no interrupt between the assignment of `cur_tcb` and the switch |
| `KernelTaskProofs!NeverStops`, `RateMonotonicHolds`, `NoLostTaskHolds` | no assertion fails and no stale context is loaded; the best ready task runs; every task is in exactly one place | `Disciplined` |
| `KernelTaskProofs!KeepsPromiseHolds` | `Kernel` implements `Scheduler`: every step is one of its steps or a stutter | `Disciplined` |
| `AdmissionProofs!FrontIsFastestHolds` | after the sort the array is a permutation of the one given, with a least period in front | |
| `AdmissionProofs!FaultsExactlyHolds`, `ValidAddrCorrect` | `EFAULT` if and only if the array does not lie in user memory; the same of `valid_addr` | addresses of any width |
| `AdmissionProofs!TurnsRunOutHolds` | every step brings the end of the loops nearer | |
| `TimerProofs!ClockNotSlowHolds`, `ClockKeptHolds` | `sys_time` is never behind by more than the latency; it is right | nothing for the first; interrupts are served after their match (`ServedAfterMatch`) |
| `TimerProofs!SleepsItsTicksHolds`, `DevicePeriodHolds` | a sleep takes the ticks it should; a device is signalled once in each of its periods, those that passed while `dev_init` had not stored the sum being made up for one a tick | the same, times fit 32 bits (`TimeFits`), no period is shorter than a tick (`PeriodsSpanTicks`) |
| `SwiIrqProofs!UserInUserModeHolds`, `UserKeepsRegistersHolds`, `IrqRestoresCpsrHolds` | system calls and interrupts restore what they found | no interrupt before lines 29, 40, 60 and 117 of `asm_handler.S`; any nesting |
| `SwiIrqProofs!HandlersInPlaceHolds`, `ArgumentsArriveHolds`, `BootedSystem` | boot leaves everything in place, the program gets its arguments, and what follows behaves as `SwiIrq` | any arguments, any handlers that do not overlap |
| `ConsoleProofs!BufferIsLineHolds`, `ResultIsLineHolds`, `ScreenShowsLineHolds` | buffer, result and screen are the line that the keys mean | any number of tasks, keys and characters |
| `TimerProofs!TypeOKHolds`, `ConsoleProofs!TypeOKHolds` | no variable leaves its range, no index its buffer | |

`Disciplined` is that no task replaces the task set while it holds a mutex and that
interrupts inside the kernel are taken at `tail_scan`, `locked`, `rq_init` and `alloc`
only. TLC shows that it cannot be weaker: at each other point an interrupt breaks
`NoLostTask` or `RunsAsItself` (section 5).

*Run queue.* The invariant (`RepInv`) is that a group's bit is set if and only if
its byte is not empty, but for the group of which a removal has still to clear it
(`SummaryExact`), that behind every bit there is a task (`BitsBacked`), and what the
register of a removal in progress holds: the byte, or the summary, as it is in memory
(`RegisterValid`), and that the priority which is being removed has its task in the
slot and, from the store on, no bit (`RemovalValid`). `Representation` is the theorem that it
holds. Only the calls of `HarmlessCalls` keep it: that is where they come from.
`HighestIsLeast` follows, since dividing by the size of a group is monotone. Each step
then maps to the step of `ReadyQueue` of the same call, `remove_store_bits` to `Take`
and the others of the removal to stutters.

*Mutexes.* `HighestLocker` alone is not inductive (`LockInv`). That the
holder is not preempted needs its priority, 0, than which nothing is better.
That it still has that priority after it unlocks one of several mutexes needs
`holds_lock` to count the mutexes held (`CountsHeld`), for every tcb and not
only for those of the current set. That nobody waits for a mutex needs `bLock`
to be set only while there is a holder (`LockedIffHeld`), and that no mutex
changes hands behind the holder's back needs that no stack is suspended inside
`mutex_lock` (`NobodyInLock`). So every dispatch and every wait happens with no
mutex held, whatever an interrupt does in between: the theorem needs no
condition on `IrqWindows`, although other properties do. `TypeOK` needs
that the local which is dereferenced next holds a task (`PicksTask`).
`WaitersHaveHolder` holds without any discipline, because a mutex that is locked keeps
a holder until nobody waits (`Guarded`).

*A mutex handed over.* Once a holder has replaced the task set `LockInv` fails: the new
tcbs hold nothing, the mutexes stay taken, tasks queue for them, and `HandedOver` is about
these. The invariant, `HandInv`, treats the queues of the devices and of the mutexes alike, as
lines linked through the one field `sleep_queue`: no line is a loop and no task stands in two
(`LinesApart`). Who is in the line of a mutex is inside `mutex_lock` for that mutex and
in no slot of the run queue (`WaitersWait`), and who is inside `mutex_lock` is in that line
or has been made the holder (`WokenOwn`); so the task on the processor, which is in no line,
is the holder. That a task in a line is never loaded needs that the run queue, the
sleepers and the running task are apart (`RunApart`, `SleepersSleep`), and that the search for
the end of a line ends in that line (`TailReached`). Five lemmas (`Unlink`, `Push`, `Behind`,
`Relink`, `Clear`) say what the code does to the lines, each proved once for all queues. Up to
the first replacement `LockInv` holds, so that nobody waits when a set is replaced
(`BuildsAlone`); at the second there may be waiters, which is why the invariant, like
`WokenHolds`, ends there (`Kernel_reused.cfg`). `HandInv` allows for interrupts at two more
points than `Disciplined`, at which `NoLostTask` fails but a mutex is still handed over. TLC checked
`HandInv` on the instance of `kernel_stale`, with all of `HandWindows`, before it was proved.

*Whose stack it is.* `RunInv`: a context that was saved is of the stack of its own
tcb (`OwnContexts`), and `cur_tcb` names the running stack but for the one point
between its assignment and the switch (`OwnStack`). An interrupt there would save one
task's stack in another one's tcb.

*Tasks.* `AllInv` adds to the above: where a suspended stack will go on, and that nothing
has stopped (`StacksInv`); how far `task_create` has got (`BuildInv`); that the slots of
the run queue, the chains of sleepers and the running task share the tasks out among
them (`QueueInv`); that a task which is not running can be loaded (`ContextInv`); that a
task which holds nothing runs at its own priority (`PrioInv`), so that `runqueue_add`
finds its slot empty (`run_queue.c:75-76`); and that what was picked is still the
best (`BestInv`). The first four need each other: a task is loaded from a slot, it got
there from a chain, and it was linked into that while it ran. A chain is the
least set that is closed under the links (`Chain`), so what a step does to it is
proved from two facts, that it is closed and that nothing smaller is. While `task_create`
replaces the set nothing is said of the tasks (`Replacing`).

*Refinement.* For `KeepsPromise` the step of `Scheduler` happens where the run queue is
changed: at `DispatchRemove`, `WakeSleeper`, `Preempt` and `AllocateIdle`. `QueueInv`
makes the mapping a function, `BestInv` makes the choice of the next task the one
that `Scheduler` makes at that moment.

*Admission.* The first pass of the sort already brings a least period to the front
and no later one moves it, although the sort does not sort; every exchange is a bijection,
so `Permuted` holds. That the turns run out is by triangular numbers, which is what the two
nested loops count down.

*Timer.* There are two accounts: oscillations that have passed and are not in `sys_time`
(`Uncounted`), and those that the next interrupt will credit (`Reserve`). The match is
ahead of the count, or behind it and an interrupt pending (`Ahead`, `Behind`); each step of
the code pays from one account into the other. A sleep opens an account of its own at
the call. For a device (`DeviceInv`) the account is of milliseconds since `dev_init` read
the time (`age`) and of ticks since it stored the sum (`since`): `next_match` is the
sum read plus a period for each signal, and as long as it is behind `sys_time` every
tick gives one signal (`OnTime`).

*Entry and exit.* The invariant speaks of the activations on the kernel stack:
each has saved what it will need (`Sound`), each one relies on the younger
neighbour to put back what it needs where it was interrupted (`Covers`), and
the oldest one was entered from the program (`CoversUser`). The lemmas `Replace`,
`Push` and `Pop` say that the three things a handler does to the stack keep this;
the rest is a case for each line. `BootInv` says what has been done at each line of the
boot; since both are proved of the system that `MCSwiIrq` composes, `BootedSystem`
carries the first over.

*Console.* What keys mean is a recursive function (`Edit`); `Meaning`, that a sequence
means what its last key makes of the meaning of the others, is proved by a least
counterexample (`LeastExists`), first that such a function exists, then that
there is one only. With it, the invariant says of a task that its buffer holds what its keys mean up to
the one it has in hand (`LineIsMeant`), and of one that has the console to itself
that nobody else is in a call (`Alone`).

Only model-checked are

* liveness under fairness (`EventDelivered`, `FirstTaskRuns`, `EndsAsItDoes`) and whatever
  needs `ENABLED`;
* `MeetsIfInOrder`: that the bound of `bound_table` suffices is a theorem of scheduling
  theory about real numbers;
* the C library, of which `Printf` and `Stdlib` have `RECURSIVE` operators, which the
  provers do not take;
* the programs, whose properties are about six given texts.

## 5. Deviations

Four disagreements between the code and what the repository says of it are
findings with a run of their own:

| Run | Source | What happens |
|---|---|---|
| `kernel_lost` | `device.c:83` | `dev_wait` enables interrupts before `dispatch_sleep`: a tick in between wakes a task that still runs, `dispatch_sleep` picks it, and it is then in no queue and not running |
| `kernel_inversion` | `mutex.c:134` | `mutex_unlock` lowers the priority and does not dispatch: a task woken meanwhile may wait for ever behind one it outranks |
| `admission_order` | `ub_test.c:51` | the sort works on one task less at the wrong end: 30, 20, 10 becomes 10, 30, 20 |
| `swi_irq_entry` | `asm_handler.S:26` | SPSR_svc is saved after interrupts are enabled: the call may return to the program in supervisor mode |

More configurations are kept beside them; each violates the property it checks,
except for the first, which passes:

| Configuration | Property | What it shows |
|---|---|---|
| `Kernel_windows.cfg` | `HighestLocker` holds | with interrupts at every point of the kernel, as the theorem says |
| `Kernel_assert.cfg` | `AssertsHold` | an interrupt between `highest_prio` and `runqueue_remove` (`ctx_switch.c:94`) can make the assertion of `run_queue.c:106` stop the kernel |
| `Kernel_stalelock.cfg` | `HoldsLockCounts` | `task_create` by a holder leaves the mutex taken while the new tcb holds none (`proc.c:70`) |
| `Kernel_reused.cfg` | `WokenHolds` | when a holder replaces the task set a second time, `task_create` leaves the queues of the mutexes as they are: a task of the set before is linked into one, and its successor in the same tcb is woken for a mutex that is not its own (`proc.c:70`) |
| `RunQueue_race.cfg` | `SummaryExact` | an interrupt that adds a task while `runqueue_remove` has the summary byte loaded loses its summary bit when the byte is stored (`run_queue.c:111`, called from `ctx_switch.c:93`); with `IrqCalls <- CallsInByte` it is the bit of line 109 and `Refines` |
| `RunQueue_empty.cfg` | `EmptyIsIdle` | for an empty queue `highest_prio` answers 0 and not the idle priority that the comment of `ctx_switch.c:41-42` promises; the idle task never sleeps, so no caller meets it |
| `Admission_slow.cfg` | `DeadlinesMet` | the unsorted array is tested as if it were sorted, and a set that misses deadlines accepted |
| `Admission_zero.cfg` | `DeadlinesMet` | a task with C = T = 0 makes the sum a NaN, after which every set is accepted (`ub_test.c:69`) |
| `Timer_sleep.cfg` | `SleepAtLeast` | `sleep_syscall` counts the tick in progress as a whole one: up to a tick too short (`time.c:43`) |
| `Timer_device.cfg` | `DevicePeriod` | when `sys_time` nears 2^32, `next_match` overflows first and signals come too early |
| `Timer_freeze.cfg` | `NeverStalls` | a conversion that saturates while the count is at its greatest value sets the match to the count itself: the clock stands still for a turn of OSCR |

Interrupts at `dev_init`, `ds_pick`, `ds_remove` or `ds_cur` violate `NoLostTask`,
and at `ds_switch` `RunsAsItself`: these are the points that the `kernel` run
leaves out, and lines 29, 40, 60 and 117 are those that `swi_irq` leaves out (at
117, between loading SPSR_svc and `ldmfd ^`, an interrupt violates
`IrqRestoresCpsr`).

In the C library, each in its operator; the properties say what is left of the
promise:

* `strncpy.c:51` decrements the count past zero when the source is not shorter
  than it, and then writes zeros to the end of memory; the comment of lines 38-42
  promises exactly `count` characters.
* `strrchr` finds no NUL. `vsnprintf` writes its NUL at `s[size]`.
* `putchar` writes the four bytes of its argument. `puts` writes twice, so another
  task's output may come in between.
* `strtol` looks at a `+` but does not skip it.
* `doscan.c:148`: `%s` ends at a space only, and runs past the NUL; a conversion that
  matched nothing counts.
* `doprnt.c:470`: a text cut short by its precision and adjusted to the left is
  padded with one column too few. `-` with `0` pads zeros on the left (598); `%c`
  ignores the width; `%r` and `%n` divide by the radix that every caller gives as 0,
  so they are no inputs; the example of lines 101-103 does not give what it says.
* `math.c`: `gcd` and `gcd4` exist only with `NDEBUG`.

In the test programs, as `EndsAsItDoes` and `NumbersChased` have it:

* `mutex_chaser` never touches mutex 0 but prints a result for it ("No!", line 141);
  its comment gives 61 where the number is 624; and no task ever waits for a
  mutex, since its holder is not preempted.
* `simple_mutex` waits for a device with a mutex held, is refused, and panics at the
  holder's priority: nothing else runs any more.
* `stress` waits for devices 4 to 59, of which there are none: it panics, and its
  check of the scores never runs.
* `sys_err` leaves `tasks[0].B` uninitialised (65); if the set is refused, `main`
  returns to the end of `_start`, after which there is nothing.

In boot: a vector that could not be wired is only reported (`kernel_helpers.c:137`).
`back_to_kernel` is called by nothing, and would load its `sp` from the word that
`switch_user_app` set to NULL (`kernel_asm.S:39-40`, `:68-70`).

## 6. What is not modelled

* `raise.c`, which spins, and `rand.c`, which no program calls.
* `uboot/`: the jump table stubs; `getc` and `putc` are part of `Console`.
* `restore_handler` and `back_to_kernel`: nothing reaches them.
* The programs without tasks (`hello`, `splat`, `typo`, `twister`, `longtest`): sequences
  of the calls that `Console`, `Stdio` and `Timer` have. The copies of the programs under
  `part1tests/` and `p4grading/`, for the kernel of an earlier assignment, which differ in
  the fields of a task.
* Reads of `cur_tcb` by the first program (`proc.c:88`): it is NULL, and what address 0
  holds is U-Boot's vector table. The heap (`proc.c:57`): `malloc` is not in the repository.
* Two tasks that create mutexes at the same time, who may be given the same number
  (`mutex.c:51`): in no program of the repository do two of them.
* `ub_calc.py`, which prints the constants of `bound_table`; they are taken over.
* The checks of `read` and `write` (`io.c:38`, `:78`) are modelled, but nothing
  says which buffers they should accept, so there is no property of them.
* Single precision rounding in the admission test.

## 7. Plan

Done: run queue, its refinement and its removal under interruption; kernel core
(dispatcher, mutexes, devices, task sets under interrupts) and the abstract scheduler
that it implements; admission; clock; entry and exit; boot; console; C library; test
programs; the theorems of section 4, which state every property of `Kernel` that a run checks as holding
but for liveness.

Next, most important first:

1. Proofs: that `memmove` and the copies of `CStrings` do what `CopiesExactly` says, by
   least counterexamples as in `ConsoleProofs`.
2. A composition of `Admission` and `Kernel` for sets that the sort leaves out of order.
