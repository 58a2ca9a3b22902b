------------------------------- MODULE Timer -------------------------------
(***************************************************************************)
(* The clock of kernel/syscall/time.c, the part of C_IRQ_handler that      *)
(* advances it and the times at which dev_update signals the devices.      *)
(*                                                                         *)
(* Real time is counted in periods of the oscillator that drives OSCR; the *)
(* interrupt is taken any number of them, up to Latest, after the match,   *)
(* for interrupts may be disabled then.  Which tasks a signal wakes is the *)
(* business of module Kernel.                                              *)
(***************************************************************************)
EXTENDS Integers

CONSTANTS OSCR_MOD,          \* the registers count modulo this: 2^32
          UINT_MOD,          \* as does sys_time
          TIME_RESOLUTION,   \* milliseconds added to sys_time by a tick
          MATCH,             \* TIME_RESOLUTION * OSTMR_FREQ_KHZ, oscillations
          Soonest, Latest,   \* oscillations from the match to line 43
          Overflow,          \* what an overflow in update_timer may yield
          NUM_DEVICES,
          dev_freq,          \* device -> milliseconds
          Millis,            \* the arguments of sleep_syscall
          Horizon            \* bound: oscillations modelled

VARIABLES oscr, osmr,        \* the count and match registers of the OS timer
          pending,           \* oscillations since an unserved match, or NONE
          sys_time,
          next_match,        \* device -> the time of its next signal
          inited,            \* devices that dev_init has set up
          sum,               \* the match that it is about to store, or NONE
          sleep,             \* the caller of sleep_syscall, if there is one
          \* For the properties only:
          elapsed,           \* oscillations since init_timer
          wraps,             \* times that oscr has overflowed
          ticks,             \* times that sys_time was advanced
          stalls,            \* times that the match was set to the count itself
          age,               \* device -> milliseconds since dev_init read the time
          since, signals     \* device -> ticks and signals since it was set up

clock == <<oscr, osmr, pending, sys_time, elapsed, wraps, ticks, stalls>>
devs == <<next_match, inited, sum, age, since, signals>>
vars == <<clock, devs, sleep>>

NONE == -1
AWAKE == [deadline |-> NONE]
Device == 0 .. NUM_DEVICES - 1

ASSUME TimerAssumption ==
  /\ MATCH \in Nat \ {0} /\ OSCR_MOD \in Nat /\ OSCR_MOD > MATCH
  /\ TIME_RESOLUTION \in Nat \ {0} /\ UINT_MOD \in Nat /\ UINT_MOD > TIME_RESOLUTION
  /\ Soonest \in Nat /\ Latest \in Nat /\ Soonest <= Latest
  /\ Overflow \subseteq {"wrap", "saturate"} /\ Overflow # {}
  /\ NUM_DEVICES \in Nat /\ dev_freq \in [Device -> Nat \ {0}]
  /\ Millis \subseteq Nat /\ Horizon \in Nat

\* Fault: the sum is not brought back into the range of the register.
Match_Unbounded(r) == {r + MATCH}

\* update_timer: the sum of OSCR and MATCH is a double, whose conversion to
\* uint32_t is undefined if it is too large.  The library of ARM's compiler
\* yields the greatest value.
Match(r) ==
  IF r + MATCH < OSCR_MOD
  THEN {r + MATCH}
  ELSE {IF o = "wrap" THEN r + MATCH - OSCR_MOD ELSE OSCR_MOD - 1 : o \in Overflow}

Stall(count, match) == IF match = count THEN 1 ELSE 0

\* init_timer, and the devices as the program loader leaves them.
Init ==
  /\ oscr \in 0 .. OSCR_MOD - 1
  /\ osmr \in Match(oscr)
  /\ pending = NONE
  /\ sys_time = 0
  /\ next_match = [d \in Device |-> 0]
  /\ inited = 0 /\ sum = NONE
  /\ sleep = AWAKE
  /\ elapsed = 0 /\ wraps = 0 /\ ticks = 0
  /\ stalls = Stall(oscr, osmr)
  /\ age = [d \in Device |-> 0]
  /\ since = [d \in Device |-> 0] /\ signals = [d \in Device |-> 0]

\* The hardware: one oscillation, and the match bit if oscr is now osmr.  An
\* interrupt is served by Latest.
Oscillate ==
  /\ elapsed < Horizon
  /\ pending < Latest
  /\ elapsed' = elapsed + 1
  /\ oscr' = (oscr + 1) % OSCR_MOD
  /\ wraps' = IF oscr' = 0 THEN wraps + 1 ELSE wraps
  /\ pending' = IF pending # NONE THEN pending + 1
                                  ELSE IF oscr' = osmr THEN 0 ELSE NONE
  /\ UNCHANGED <<osmr, sys_time, ticks, stalls, devs, sleep>>

\* Fault: a device is signalled after its time only.
Due_Late(d, now) == next_match[d] < now
Due(d, now) == next_match[d] <= now

\* dev_update(now): each device is signalled at most once.
DevUpdate(now) ==
  LET due == {d \in Device : Due(d, now)}
      timed == {d \in Device : d < inited \/ (d = inited /\ sum # NONE)}
      setUp == {d \in Device : d < inited}
  IN  /\ next_match' = [d \in Device |-> IF d \in due
                                         THEN (next_match[d] + dev_freq[d]) % UINT_MOD
                                         ELSE next_match[d]]
      /\ age' = [d \in Device |-> IF d \in timed THEN age[d] + TIME_RESOLUTION ELSE age[d]]
      /\ since' = [d \in Device |-> IF d \in setUp THEN since[d] + 1 ELSE since[d]]
      /\ signals' = [d \in Device |-> IF d \in setUp \intersect due
                                      THEN signals[d] + 1 ELSE signals[d]]
      /\ UNCHANGED <<inited, sum>>

Advance ==
  /\ pending >= Soonest
  /\ sys_time' = (sys_time + TIME_RESOLUTION) % UINT_MOD
  /\ ticks' = ticks + 1
  /\ DevUpdate(sys_time')
  /\ UNCHANGED <<oscr, elapsed, wraps, sleep>>

Rearm == osmr' \in Match(oscr) /\ stalls' = stalls + Stall(oscr, osmr')

\* Fault: the match register is left as it is.
C_IRQ_handler_NoRearm == Advance /\ pending' = NONE /\ UNCHANGED <<osmr, stalls>>

\* The handler, which no interrupt interrupts up to the end of dev_update.
C_IRQ_handler == Advance /\ pending' = NONE /\ Rearm

\* task_create, which a task may call again, even one that has interrupted
\* another one's call, reaches dev_init ...
TaskCreate ==
  /\ inited' = 0 /\ sum' = NONE
  /\ age' = [d \in Device |-> 0]
  /\ since' = [d \in Device |-> 0] /\ signals' = [d \in Device |-> 0]
  /\ UNCHANGED <<clock, next_match, sleep>>

\* ... which sets up one device after the other, interrupts enabled: it reads
\* sys_time and adds the period ...
DevInitRead ==
  /\ inited < NUM_DEVICES
  /\ sum = NONE
  /\ sum' = (sys_time + dev_freq[inited]) % UINT_MOD
  /\ UNCHANGED <<clock, next_match, inited, age, since, signals, sleep>>

\* ... and stores the sum, any number of ticks later.
DevInit ==
  /\ sum # NONE
  /\ next_match' = [next_match EXCEPT ![inited] = sum]
  /\ inited' = inited + 1
  /\ sum' = NONE
  /\ UNCHANGED <<clock, age, since, signals, sleep>>

\* What the clock may have counted at most, in oscillations: an overflow of
\* oscr may cut one tick short.
Allowance == elapsed + wraps * MATCH

\* sleep_syscall up to its loop, 51.
SleepCall ==
  /\ sleep = AWAKE
  /\ \E m \in Millis :
       sleep' = [deadline |-> (sys_time + m) % UINT_MOD, millis |-> m,
                 from |-> elapsed, allowed |-> Allowance]
  /\ UNCHANGED <<clock, devs>>

\* Fault: the loop goes on at the deadline itself.
Over_Late == ~(sleep.deadline >= sys_time)

\* The condition of the loop 53 is false.
Over == ~(sleep.deadline > sys_time)

SleepReturn ==
  /\ sleep # AWAKE
  /\ Over
  /\ sleep' = AWAKE
  /\ UNCHANGED <<clock, devs>>

Next ==
  \/ Oscillate
  \/ C_IRQ_handler
  \/ TaskCreate \/ DevInitRead \/ DevInit
  \/ SleepCall \/ SleepReturn

Spec == Init /\ [][Next]_vars

(***************************************************************************)
(* Properties                                                              *)
(***************************************************************************)

TypeOK ==
  /\ oscr \in 0 .. OSCR_MOD - 1 /\ osmr \in 0 .. OSCR_MOD - 1
  /\ pending \in NONE .. Latest
  /\ sys_time \in 0 .. UINT_MOD - 1
  /\ next_match \in [Device -> 0 .. UINT_MOD - 1]
  /\ inited \in 0 .. NUM_DEVICES
  /\ sleep = AWAKE \/ sleep.deadline \in 0 .. UINT_MOD - 1
  /\ elapsed \in Nat /\ wraps \in Nat /\ ticks \in Nat /\ stalls \in Nat
  /\ sum \in NONE .. UINT_MOD - 1
  /\ sum # NONE => inited < NUM_DEVICES
  /\ age \in [Device -> Nat]
  /\ since \in [Device -> Nat] /\ signals \in [Device -> Nat]

\* The clock is never ahead of real time, but for the tick that an overflow
\* of OSCR may cut short (time.c:82).
ClockNotFast == ticks * MATCH <= Allowance

\* time.c:30-34: the time takes the overflow of OSCR into account.  A tick is
\* late by no more than the latency of the interrupts so far, and by a whole
\* turn of OSCR if the match was set to the count itself (81-84).
ClockNotSlow == elapsed <= (ticks + 1) * (MATCH + Latest) + stalls * OSCR_MOD

\* The clock keeps time, whatever the latencies and the overflows of OSCR: every
\* tick is counted once, neither early nor late (time.c:78-84).
ClockKept == ClockNotFast /\ ClockNotSlow

\* As ClockNotSlow, as if there were no such turn: the clock never stands still.
NeverStalls == elapsed <= (ticks + 1) * (MATCH + Latest)

Ticks(m) == (m + TIME_RESOLUTION - 1) \div TIME_RESOLUTION

\* sleep_syscall spans as many ticks as it should, the first of which may be
\* due already (51-55).
SleepNotShort ==
  sleep # AWAKE /\ sleep' = AWAKE
    => Allowance - sleep.allowed >= (Ticks(sleep.millis) - 1) * MATCH

\* time.c:43: sleep_syscall waits for at least the given number of
\* milliseconds.
SleepAtLeast ==
  [][sleep # AWAKE /\ sleep' = AWAKE
       => (elapsed - sleep.from) * TIME_RESOLUTION >= sleep.millis * MATCH]_vars

\* The loop of sleep_syscall comes to its end when the ticks it waits for
\* have had their time (53-55).
SleepEnds ==
  sleep # AWAKE /\ elapsed - sleep.from > Ticks(sleep.millis) * (MATCH + Latest)
                                            + stalls * OSCR_MOD
    => Over

\* A sleep lasts neither less nor more than the ticks it asks for (time.c:51-55),
\* though the deadline is the only thing it remembers.
SleepsItsTicks == [][SleepEnds' /\ SleepNotShort]_vars

\* device.c:41: the devices are signalled periodically at the frequencies
\* given.  The periods count from the time that dev_init read; ticks that were
\* served before it stored the match make the first signals overdue, and they
\* are made up for one with each tick, no sooner and no later.
DevicePeriod ==
  \A d \in Device : d < inited =>
    LET periods == age[d] \div dev_freq[d]
    IN  signals[d] = IF since[d] < periods THEN since[d] ELSE periods
=============================================================================
