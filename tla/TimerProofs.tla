----------------------------- MODULE TimerProofs ----------------------------
(***************************************************************************)
(* The clock keeps time, for registers of any width, ticks of any length   *)
(* and any latency of the interrupts; sleeps and the signals of devices    *)
(* keep it as long as the milliseconds since boot fit their word.          *)
(***************************************************************************)
EXTENDS Timer, TLAPS

\* The interrupt handler reads OSCR after the match, not at the moment of it.
ServedAfterMatch == Soonest > 0

\* No sum of a time and an argument or a period overflows.
TimeFits ==
  /\ Horizon * TIME_RESOLUTION < UINT_MOD
  /\ \A m \in Millis : Horizon * TIME_RESOLUTION + m < UINT_MOD
  /\ \A d \in Device : Horizon * TIME_RESOLUTION + dev_freq[d] < UINT_MOD

\* A device is signalled at most once by a tick.
PeriodsSpanTicks == \A d \in Device : dev_freq[d] >= TIME_RESOLUTION

(***************************************************************************)
(* Arithmetic.                                                             *)
(***************************************************************************)

\* A product grows by the other factor when one of its factors grows by one.
LEMMA NextMultiple ==
  ASSUME NEW a \in Int, NEW b \in Int
  PROVE  a * b \in Int /\ (a + 1) * b = a * b + b
  OBVIOUS

\* Products of naturals are monotone.
LEMMA MultiplesGrow ==
  ASSUME NEW a \in Int, NEW b \in Int, NEW n \in Nat, a <= b
  PROVE  a * n <= b * n
<1>1. PICK d \in Nat : b = a + d
  <2>1. b - a \in Nat /\ b = a + (b - a)
    OBVIOUS
  <2> QED BY <2>1
<1>2. b * n = a * n + d * n /\ a * n \in Int /\ d * n \in Nat
  BY <1>1
<1> QED BY <1>2

\* Ticks(m) is the least number of ticks that are worth m milliseconds.
LEMMA TicksIsLeast ==
  ASSUME NEW m \in Nat, NEW k \in Int
  PROVE  Ticks(m) \in Nat /\ (m <= k * TIME_RESOLUTION <=> Ticks(m) <= k)
<1> DEFINE r == TIME_RESOLUTION
           t == Ticks(m)
<1>1. r \in Nat \ {0}
  BY TimerAssumption
<1>2. t = (m + r - 1) \div r
  BY DEF Ticks
<1> HIDE DEF r, t
<1>3. t \in Nat /\ t * r <= m + r - 1 /\ m + r - 1 < t * r + r
  <2> DEFINE x == m + r - 1
  <2>1. x \in Nat /\ t = x \div r
    BY <1>1, <1>2
  <2> HIDE DEF x
  <2>2. t \in Nat /\ x = t * r + (x % r) /\ x % r \in 0 .. r - 1 /\ t * r \in Int
    BY <1>1, <2>1
  <2>3. t * r <= x /\ x < t * r + r
    BY <1>1, <2>1, <2>2
  <2> QED BY <2>2, <2>3 DEF x
<1>4. t * r \in Int /\ k * r \in Int
  BY <1>1, <1>3
<1>5. CASE t <= k
  <2>1. t * r <= k * r
    BY <1>1, <1>3, <1>5, MultiplesGrow
  <2> QED BY <1>1, <1>3, <1>4, <1>5, <2>1 DEF r, t
<1>6. CASE k < t
  <2>1. (k + 1) * r <= t * r
    BY <1>1, <1>3, <1>6, MultiplesGrow
  <2>2. (k + 1) * r = k * r + r
    BY <1>1, NextMultiple
  <2> QED BY <1>1, <1>3, <1>4, <1>6, <2>1, <2>2 DEF r, t
<1> QED BY <1>3, <1>5, <1>6

\* The quotient is the only number whose multiples enclose the dividend.
LEMMA QuotientUnique ==
  ASSUME NEW x \in Nat, NEW n \in Nat \ {0}, NEW q \in Nat,
         q * n <= x, x < (q + 1) * n
  PROVE  x \div n = q
<1> DEFINE p == x \div n
<1>1. p \in Nat /\ x = p * n + (x % n) /\ x % n \in 0 .. n - 1
  OBVIOUS
<1> HIDE DEF p
<1>2. p * n \in Int /\ q * n \in Int /\ (p + 1) * n = p * n + n /\ (q + 1) * n = q * n + n
  BY <1>1, NextMultiple
<1>3. CASE p < q
  <2>1. (p + 1) * n <= q * n
    BY <1>1, <1>3, MultiplesGrow
  <2> QED BY <1>1, <1>2, <2>1
<1>4. CASE q < p
  <2>1. (q + 1) * n <= p * n
    BY <1>1, <1>4, MultiplesGrow
  <2> QED BY <1>1, <1>2, <2>1
<1> QED BY <1>1, <1>3, <1>4 DEF p

\* The dividend is less than the next multiple.
LEMMA QuotientBound ==
  ASSUME NEW x \in Nat, NEW n \in Nat \ {0}
  PROVE  x \div n \in Nat /\ x < (x \div n + 1) * n
<1> DEFINE p == x \div n
<1>1. p \in Nat /\ x = p * n + (x % n) /\ x % n \in 0 .. n - 1
  OBVIOUS
<1> HIDE DEF p
<1>2. p * n \in Int /\ (p + 1) * n = p * n + n
  BY <1>1, NextMultiple
<1> QED BY <1>1, <1>2 DEF p

(***************************************************************************)
(* The registers.                                                          *)
(***************************************************************************)

SleepType ==
  sleep = AWAKE \/ sleep \in [deadline : 0 .. UINT_MOD - 1, millis : Millis,
                              from : Nat, allowed : Nat]

TypeInv == TypeOK /\ SleepType /\ (pending = 0 => oscr = osmr)

\* Where the match may be set.
LEMMA MatchType ==
  ASSUME oscr \in 0 .. OSCR_MOD - 1, NEW r \in Match(oscr)
  PROVE  /\ r \in 0 .. OSCR_MOD - 1
         /\ \/ r = oscr + MATCH
            \/ r = oscr + MATCH - OSCR_MOD /\ r < oscr
            \/ r = OSCR_MOD - 1 /\ oscr + MATCH >= OSCR_MOD
  BY TimerAssumption DEF Match

LEMMA TypeInit == Init => TypeInv
<1> SUFFICES ASSUME Init
             PROVE  TypeInv
  OBVIOUS
<1>1. oscr \in 0 .. OSCR_MOD - 1 /\ osmr \in 0 .. OSCR_MOD - 1
  BY MatchType DEF Init
<1>2. stalls \in Nat
  BY DEF Init, Stall
<1>3. /\ 0 \in 0 .. UINT_MOD - 1 /\ NONE \in NONE .. Latest /\ 0 \in 0 .. NUM_DEVICES
      /\ NONE \in NONE .. UINT_MOD - 1
  BY TimerAssumption DEF NONE
<1> QED BY <1>1, <1>2, <1>3 DEF Init, TypeInv, TypeOK, SleepType, NONE

\* The remainder is within the range of the word.
LEMMA WordType ==
  ASSUME NEW x \in Nat
  PROVE  x % UINT_MOD \in 0 .. UINT_MOD - 1 /\ (x < UINT_MOD => x % UINT_MOD = x)
  BY TimerAssumption

LEMMA SumType ==
  ASSUME NEW x \in Nat, NEW w \in Nat
  PROVE  x + w * MATCH \in Nat
<1>1. w * MATCH \in Nat
  BY TimerAssumption
<1> QED BY <1>1

LEMMA AllowanceType ==
  ASSUME TypeInv
  PROVE  Allowance \in Nat
<1>1. wraps \in Nat /\ elapsed \in Nat
  BY DEF TypeInv, TypeOK
<1> QED BY <1>1, SumType DEF Allowance

LEMMA TypeStep ==
  ASSUME TypeInv, [Next]_vars
  PROVE  TypeInv'
<1>1. CASE Oscillate
  <2>1. oscr' \in 0 .. OSCR_MOD - 1
    BY <1>1, TimerAssumption DEF TypeInv, TypeOK, Oscillate
  <2>2. pending' \in NONE .. Latest /\ (pending' = 0 => oscr' = osmr')
    BY <1>1, TimerAssumption DEF TypeInv, TypeOK, Oscillate, NONE
  <2>3. elapsed' \in Nat /\ wraps' \in Nat
    BY <1>1 DEF TypeInv, TypeOK, Oscillate
  <2> QED BY <1>1, <2>1, <2>2, <2>3 DEF TypeInv, TypeOK, SleepType, Oscillate, devs
<1>2. CASE C_IRQ_handler
  <2>1. osmr' \in 0 .. OSCR_MOD - 1 /\ UNCHANGED <<oscr, elapsed, wraps, sleep, inited>>
    BY <1>2, MatchType DEF TypeInv, TypeOK, C_IRQ_handler, Rearm, Advance, DevUpdate
  <2>2. stalls' \in Nat /\ ticks' \in Nat /\ pending' = NONE /\ NONE \in NONE .. Latest
    BY <1>2, TimerAssumption
      DEF TypeInv, TypeOK, C_IRQ_handler, Rearm, Advance, Stall, NONE
  <2>3. sys_time' \in 0 .. UINT_MOD - 1
    BY <1>2, WordType, TimerAssumption DEF TypeInv, TypeOK, C_IRQ_handler, Advance
  <2>4. \A d \in Device : (next_match[d] + dev_freq[d]) % UINT_MOD \in 0 .. UINT_MOD - 1
    BY WordType, TimerAssumption DEF TypeInv, TypeOK
  <2>5. next_match' \in [Device -> 0 .. UINT_MOD - 1]
    BY <1>2, <2>4 DEF TypeInv, TypeOK, C_IRQ_handler, Advance, DevUpdate
  <2>6. /\ age' \in [Device -> Nat] /\ signals' \in [Device -> Nat]
        /\ since' \in [Device -> Nat] /\ UNCHANGED sum
    BY <1>2, TimerAssumption DEF TypeInv, TypeOK, C_IRQ_handler, Advance, DevUpdate
  <2> QED BY <2>1, <2>2, <2>3, <2>5, <2>6 DEF TypeInv, TypeOK, SleepType, NONE
<1>3. CASE TaskCreate
  <2>1. 0 \in 0 .. NUM_DEVICES /\ NONE \in NONE .. UINT_MOD - 1
    BY TimerAssumption DEF NONE
  <2> QED BY <1>3, <2>1 DEF TypeInv, TypeOK, SleepType, TaskCreate, clock
<1>4. CASE DevInitRead
  <2>1. inited \in Device
    BY <1>4, TimerAssumption DEF TypeInv, TypeOK, DevInitRead, Device
  <2>2. (sys_time + dev_freq[inited]) % UINT_MOD \in 0 .. UINT_MOD - 1
    BY <2>1, WordType, TimerAssumption DEF TypeInv, TypeOK
  <2>3. sum' \in NONE .. UINT_MOD - 1
    BY <1>4, <2>2, TimerAssumption DEF DevInitRead, NONE
  <2> QED BY <1>4, <2>3 DEF TypeInv, TypeOK, SleepType, DevInitRead, clock
<1>8. CASE DevInit
  <2>1. inited + 1 \in 0 .. NUM_DEVICES
    BY <1>8, TimerAssumption DEF TypeInv, TypeOK, DevInit
  <2>2. sum \in 0 .. UINT_MOD - 1 /\ sum' = NONE /\ NONE \in NONE .. UINT_MOD - 1
    BY <1>8, TimerAssumption DEF TypeInv, TypeOK, DevInit, NONE
  <2> QED BY <1>8, <2>1, <2>2 DEF TypeInv, TypeOK, SleepType, DevInit, clock
<1>5. CASE SleepCall
  <2>1. PICK m \in Millis :
          sleep' = [deadline |-> (sys_time + m) % UINT_MOD, millis |-> m,
                    from |-> elapsed, allowed |-> Allowance]
    BY <1>5 DEF SleepCall
  <2>2. (sys_time + m) % UINT_MOD \in 0 .. UINT_MOD - 1 /\ elapsed \in Nat
    BY WordType, TimerAssumption DEF TypeInv, TypeOK
  <2> QED BY <1>5, <2>1, <2>2, AllowanceType
    DEF TypeInv, TypeOK, SleepType, SleepCall, clock, devs
<1>6. CASE SleepReturn
  BY <1>6 DEF TypeInv, TypeOK, SleepType, SleepReturn, clock, devs
<1>7. CASE UNCHANGED vars
  BY <1>7 DEF TypeInv, TypeOK, SleepType, vars, clock, devs
<1> QED BY <1>1, <1>2, <1>3, <1>4, <1>5, <1>6, <1>7, <1>8 DEF Next

\* Every variable of the clock stays in the range of its register or word,
\* whatever the conversion in update_timer yields (time.c:78-84).
THEOREM TypeOKHolds == Spec => []TypeOK
<1>1. TypeInv /\ [Next]_vars => TypeInv'
  BY TypeStep
<1>2. TypeInv => TypeOK
  BY DEF TypeInv
<1> QED BY TypeInit, <1>1, <1>2, PTL DEF Spec

(***************************************************************************)
(* The clock.  Both bounds are about an amount that changes by one with an *)
(* oscillation and by a tick's worth with a tick, so that neither is       *)
(* inductive alone: what is left until the match must be known.  A sleep   *)
(* starts such an account in the middle of a tick, hence the parameters.   *)
(***************************************************************************)

\* Oscillations until the match: a whole turn if it was set to the count.
Gap == IF oscr < osmr THEN osmr - oscr ELSE osmr - oscr + OSCR_MOD

\* s, what the clock could have counted and has not, is never negative: it is
\* a tick's worth at the match, or OSCR overflows before the handler runs.
Ahead(s) ==
  /\ s >= 0
  /\ pending = NONE /\ oscr < osmr /\ osmr # OSCR_MOD - 1 => s + (osmr - oscr) >= MATCH
  /\ pending # NONE => s >= MATCH \/ (pending = 0 /\ osmr = OSCR_MOD - 1)

\* r, what the clock may still be late by, is enough for the next tick.
Behind(r) ==
  /\ pending = NONE => r >= Gap + Latest
  /\ pending # NONE => r >= Latest - pending

\* Only a match that was set to the count itself is further away than a tick.
GapInv == pending = NONE /\ Gap > MATCH => stalls > 0

\* The two accounts, opened with the tick t when the allowance was x and when
\* y oscillations had passed.
Uncounted(x, t) == Allowance - x - (ticks - t) * MATCH
Reserve(y, t) == (ticks - t + 1) * (MATCH + Latest) + stalls * OSCR_MOD - (elapsed - y)

LEMMA ClockNumbers ==
  ASSUME TypeInv
  PROVE  /\ oscr \in 0 .. OSCR_MOD - 1 /\ osmr \in 0 .. OSCR_MOD - 1 /\ OSCR_MOD \in Nat
         /\ OSCR_MOD > MATCH /\ MATCH \in Nat /\ MATCH > 0
         /\ Latest \in Nat /\ Soonest \in Nat
         /\ pending \in -1 .. Latest /\ NONE = -1
         /\ ticks \in Nat /\ stalls \in Nat /\ elapsed \in Nat /\ wraps \in Nat
         /\ Gap \in 1 .. OSCR_MOD
         /\ pending = 0 => oscr = osmr
  BY TimerAssumption DEF TypeInv, TypeOK, NONE, Gap

\* An oscillation, for the account s and for the account r.
LEMMA OscillateAccounts ==
  ASSUME TypeInv, Oscillate, NEW s \in Int, NEW r \in Int,
         NEW u, u = s + (Allowance' - Allowance)
  PROVE  /\ Allowance' - Allowance \in Nat
         /\ Ahead(s) => Ahead(u)'
         /\ Behind(r) => Behind(r - 1)'
         /\ GapInv => GapInv'
<1>1. /\ elapsed' = elapsed + 1
      /\ oscr' = IF oscr = OSCR_MOD - 1 THEN 0 ELSE oscr + 1
      /\ wraps' = IF oscr' = 0 THEN wraps + 1 ELSE wraps
      /\ pending' = IF pending # NONE THEN pending + 1
                                      ELSE IF oscr' = osmr THEN 0 ELSE NONE
      /\ osmr' = osmr /\ stalls' = stalls /\ pending < Latest
  BY ClockNumbers DEF Oscillate
<1>2. Allowance' - Allowance = IF oscr' = 0 THEN 1 + MATCH ELSE 1
  <2>1. (wraps + 1) * MATCH = wraps * MATCH + MATCH /\ wraps * MATCH \in Int
    BY ClockNumbers, NextMultiple
  <2> QED BY <1>1, <2>1, ClockNumbers DEF Allowance
<1> DEFINE gain == Allowance' - Allowance
<1>3. gain = IF oscr' = 0 THEN 1 + MATCH ELSE 1
  BY <1>2
<1>4. u = s + gain
  BY DEF gain
<1> HIDE DEF gain
<1>8. Ahead(s) => Ahead(u)'
  BY <1>1, <1>3, <1>4, ClockNumbers DEF Ahead
<1>5. Behind(r) => Behind(r - 1)'
  BY <1>1, ClockNumbers DEF Behind, Gap
<1>6. GapInv => GapInv'
  BY <1>1, ClockNumbers DEF GapInv, Gap
<1>7. gain \in Nat
  BY <1>3, ClockNumbers
<1> QED BY <1>5, <1>6, <1>7, <1>8 DEF gain

\* What a match that is set to the count adds to the second account.
LEMMA TurnCounted ==
  ASSUME TypeInv, C_IRQ_handler
  PROVE  /\ stalls' \in Nat /\ stalls' >= stalls
         /\ stalls' * OSCR_MOD = stalls * OSCR_MOD + (IF osmr' = oscr THEN OSCR_MOD ELSE 0)
<1>1. stalls' = stalls + (IF osmr' = oscr THEN 1 ELSE 0)
  BY DEF C_IRQ_handler, Rearm, Stall
<1>2. stalls \in Nat /\ OSCR_MOD \in Nat /\ stalls * OSCR_MOD \in Int
      /\ (stalls + 1) * OSCR_MOD = stalls * OSCR_MOD + OSCR_MOD
  BY ClockNumbers, NextMultiple
<1>3. CASE osmr' = oscr
  BY <1>1, <1>2, <1>3
<1>4. CASE osmr' # oscr
  BY <1>1, <1>2, <1>4
<1> QED BY <1>3, <1>4

\* The handler, for the account s and for the account r.
LEMMA HandlerAccounts ==
  ASSUME TypeInv, C_IRQ_handler, NEW s \in Int, NEW r \in Int,
         NEW u, u = r + MATCH + Latest + (IF osmr' = oscr THEN OSCR_MOD ELSE 0)
  PROVE  /\ ServedAfterMatch /\ Ahead(s) => Ahead(s - MATCH)'
         /\ Behind(r) => Behind(u)'
         /\ GapInv'
<1>1. /\ UNCHANGED <<oscr, elapsed, wraps>> /\ pending >= Soonest /\ pending' = NONE
      /\ osmr' \in Match(oscr)
      /\ stalls' = stalls + (IF osmr' = oscr THEN 1 ELSE 0)
  BY DEF C_IRQ_handler, Advance, Rearm, Stall
<1>2. /\ osmr' \in 0 .. OSCR_MOD - 1
      /\ \/ osmr' = oscr + MATCH
         \/ osmr' = oscr + MATCH - OSCR_MOD /\ osmr' < oscr
         \/ osmr' = OSCR_MOD - 1 /\ oscr + MATCH >= OSCR_MOD
  BY <1>1, ClockNumbers, MatchType
<1>3. ServedAfterMatch /\ Ahead(s) => Ahead(s - MATCH)'
  BY <1>1, <1>2, ClockNumbers DEF ServedAfterMatch, Ahead
<1>4. Behind(r) => Behind(u)'
  BY <1>1, <1>2, ClockNumbers DEF Behind, Gap
<1>5. GapInv'
  BY <1>1, <1>2, ClockNumbers DEF GapInv, Gap
<1> QED BY <1>3, <1>4, <1>5

LEMMA AccountsType ==
  ASSUME TypeInv, NEW x \in Int, NEW t \in Int
  PROVE  /\ Uncounted(x, t) \in Int /\ Reserve(x, t) \in Int
         /\ (ticks - t) * MATCH \in Int /\ (ticks - t + 1) * (MATCH + Latest) \in Int
         /\ stalls * OSCR_MOD \in Int
<1>1. /\ (ticks - t) * MATCH \in Int /\ (ticks - t + 1) * (MATCH + Latest) \in Int
      /\ stalls * OSCR_MOD \in Int
  BY ClockNumbers
<1> QED BY <1>1, AllowanceType, ClockNumbers DEF Uncounted, Reserve

\* A step keeps both accounts balanced, whenever they were opened.
LEMMA AccountsStep ==
  ASSUME TypeInv, TypeInv', [Next]_vars, NEW x \in Int, NEW y \in Int,
         NEW t \in Int, NEW k \in Int
  PROVE  /\ GapInv => GapInv'
         /\ ServedAfterMatch /\ Ahead(Uncounted(x, t)) => Ahead(Uncounted(x, t))'
         /\ Behind(Reserve(y, k)) => Behind(Reserve(y, k))'
<1>1. PICK s \in Int, r \in Int : s = Uncounted(x, t) /\ r = Reserve(y, k)
  BY AccountsType
<1>2. PICK u, v : u = Uncounted(x, t)' /\ v = Reserve(y, k)'
  OBVIOUS
<1>3. (Ahead(u)' => Ahead(Uncounted(x, t))') /\ (Behind(v)' => Behind(Reserve(y, k))')
  BY <1>2 DEF Ahead, Behind
<1>4. Allowance \in Nat /\ Allowance' \in Nat
  <2>1. wraps' \in Nat /\ elapsed' \in Nat
    BY DEF TypeInv, TypeOK
  <2> QED BY <2>1, AllowanceType, SumType DEF Allowance
<1>5. CASE Oscillate
  <2>1. ticks' = ticks /\ stalls' = stalls /\ elapsed' = elapsed + 1 /\ elapsed \in Nat
    BY <1>5, ClockNumbers DEF Oscillate
  <2>2. u = s + (Allowance' - Allowance)
    <3> DEFINE p == (ticks - t) * MATCH
    <3>1. p \in Int
      BY AccountsType
    <3>2. s = Allowance - x - p /\ u = Allowance' - x - p
      BY <1>1, <1>2, <2>1 DEF Uncounted
    <3> HIDE DEF p
    <3> QED BY <1>4, <3>1, <3>2
  <2>3. v = r - 1
    <3> DEFINE p == (ticks - k + 1) * (MATCH + Latest)
               q == stalls * OSCR_MOD
    <3>1. p \in Int /\ q \in Int
      BY AccountsType
    <3>2. r = p + q - (elapsed - y) /\ v = p + q - (elapsed + 1 - y)
      BY <1>1, <1>2, <2>1 DEF Reserve
    <3> HIDE DEF p, q
    <3> QED BY <2>1, <3>1, <3>2
  <2>4. (Ahead(s) => Ahead(u)') /\ (Behind(r) => Behind(r - 1)') /\ (GapInv => GapInv')
    BY <1>5, <2>2, OscillateAccounts
  <2> QED BY <1>1, <1>3, <2>3, <2>4
<1>6. CASE C_IRQ_handler
  <2>1. ticks' = ticks + 1 /\ elapsed' = elapsed /\ Allowance' = Allowance
    BY <1>6 DEF C_IRQ_handler, Advance, Allowance
  <2>2. u = s - MATCH
    <3> DEFINE a == ticks - t
    <3>1. a \in Int /\ ticks' - t = a + 1 /\ MATCH \in Int
      BY <2>1, ClockNumbers
    <3>2. (a + 1) * MATCH = a * MATCH + MATCH /\ a * MATCH \in Int
      BY <3>1, NextMultiple
    <3>3. u = Allowance - x - (a + 1) * MATCH /\ s = Allowance - x - a * MATCH
      BY <1>1, <1>2, <2>1, <3>1 DEF Uncounted
    <3> HIDE DEF a
    <3> QED BY <1>4, <3>1, <3>2, <3>3
  <2>3. v = r + MATCH + Latest + (IF osmr' = oscr THEN OSCR_MOD ELSE 0)
    <3> DEFINE e == IF osmr' = oscr THEN OSCR_MOD ELSE 0
               c == MATCH + Latest
               a == ticks - k + 1
    <3>1. /\ stalls' * OSCR_MOD = stalls * OSCR_MOD + e /\ e \in Nat
          /\ stalls * OSCR_MOD \in Int
      BY <1>6, ClockNumbers, TurnCounted
    <3>2. a \in Int /\ c \in Int /\ elapsed - y \in Int /\ Latest \in Nat /\ MATCH \in Nat
          /\ ticks' - k + 1 = a + 1
      BY <2>1, ClockNumbers
    <3>3. a * c \in Int /\ (a + 1) * c = a * c + c
      BY <3>2, NextMultiple
    <3>4. v = (a + 1) * c + stalls' * OSCR_MOD - (elapsed - y)
      BY <1>2, <2>1, <3>2 DEF Reserve
    <3>5. r = a * c + stalls * OSCR_MOD - (elapsed - y)
      BY <1>1 DEF Reserve
    <3> HIDE DEF e, a
    <3>6. v = r + MATCH + Latest + e
      BY <3>1, <3>2, <3>3, <3>4, <3>5
    <3> QED BY <3>6 DEF e
  <2>4. /\ ServedAfterMatch /\ Ahead(s) => Ahead(s - MATCH)'
        /\ Behind(r) => Behind(v)'
        /\ GapInv'
    BY <1>6, <2>3, HandlerAccounts
  <2> QED BY <1>1, <1>3, <2>2, <2>4
<1>7. CASE UNCHANGED clock
  BY <1>7 DEF clock, GapInv, Gap, Ahead, Behind, Uncounted, Reserve, Allowance
<1>8. CASE TaskCreate \/ DevInitRead \/ DevInit \/ SleepCall \/ SleepReturn \/ UNCHANGED vars
  BY <1>7, <1>8 DEF TaskCreate, DevInitRead, DevInit, SleepCall, SleepReturn, vars
<1> QED BY <1>5, <1>6, <1>8 DEF Next

\* The accounts of the whole time since init_timer.
ClockInv ==
  /\ TypeInv
  /\ GapInv
  /\ ServedAfterMatch => Ahead(Uncounted(0, 0))
  /\ Behind(Reserve(0, 0))

LEMMA ClockInit == Init => ClockInv
<1> SUFFICES ASSUME Init
             PROVE  ClockInv
  OBVIOUS
<1>1. TypeInv
  BY TypeInit
<1>2. /\ pending = NONE /\ elapsed = 0 /\ wraps = 0 /\ ticks = 0
      /\ stalls = IF osmr = oscr THEN 1 ELSE 0
      /\ osmr \in Match(oscr)
  BY DEF Init, Stall
<1>3. \/ osmr = oscr + MATCH
      \/ osmr = oscr + MATCH - OSCR_MOD /\ osmr < oscr
      \/ osmr = OSCR_MOD - 1 /\ oscr + MATCH >= OSCR_MOD
  BY <1>1, <1>2, ClockNumbers, MatchType
<1>4. Uncounted(0, 0) = 0
  BY <1>1, <1>2, ClockNumbers DEF Uncounted, Allowance
<1>5. Reserve(0, 0) = MATCH + Latest + (IF osmr = oscr THEN OSCR_MOD ELSE 0)
  BY <1>1, <1>2, ClockNumbers DEF Reserve
<1>6. GapInv
  BY <1>1, <1>2, <1>3, ClockNumbers DEF GapInv, Gap
<1>7. Ahead(Uncounted(0, 0))
  BY <1>1, <1>2, <1>3, <1>4, ClockNumbers DEF Ahead
<1>8. Behind(Reserve(0, 0))
  BY <1>1, <1>2, <1>3, <1>5, ClockNumbers DEF Behind, Gap
<1> QED BY <1>1, <1>6, <1>7, <1>8 DEF ClockInv

LEMMA ClockStep ==
  ASSUME ClockInv, [Next]_vars
  PROVE  ClockInv'
<1>1. TypeInv /\ TypeInv'
  BY TypeStep DEF ClockInv
<1> QED BY <1>1, AccountsStep DEF ClockInv

LEMMA ClockHolds == Spec => []ClockInv
<1>1. ClockInv /\ [Next]_vars => ClockInv'
  BY ClockStep
<1> QED BY ClockInit, <1>1, PTL DEF Spec

\* The clock is late by no more than the latencies so far and the turns of
\* OSCR after a match that was set to the count (time.c:30-34).
THEOREM ClockNotSlowHolds == Spec => []ClockNotSlow
<1>1. ClockInv => ClockNotSlow
  <2> SUFFICES ASSUME ClockInv
               PROVE  ClockNotSlow
    OBVIOUS
  <2>1. TypeInv /\ Reserve(0, 0) \in Int /\ Behind(Reserve(0, 0))
    BY AccountsType DEF ClockInv
  <2>2. Reserve(0, 0) >= 0
    BY <2>1, ClockNumbers DEF Behind
  <2>3. /\ (ticks + 1) * (MATCH + Latest) \in Int /\ stalls * OSCR_MOD \in Int
        /\ elapsed \in Int /\ ticks - 0 + 1 = ticks + 1 /\ elapsed - 0 = elapsed
    BY <2>1, ClockNumbers
  <2> QED BY <2>2, <2>3 DEF Reserve, ClockNotSlow
<1> QED BY ClockHolds, <1>1, PTL

\* And it is never ahead of real time: every tick is counted once, and no
\* sooner than it is over (time.c:78-84).
THEOREM ClockKeptHolds ==
  ASSUME ServedAfterMatch
  PROVE  Spec => []ClockKept
<1>1. ClockInv => ClockNotFast
  <2> SUFFICES ASSUME ClockInv
               PROVE  ClockNotFast
    OBVIOUS
  <2>1. TypeInv /\ Uncounted(0, 0) >= 0
    BY DEF ClockInv, Ahead
  <2>2. ticks * MATCH \in Int /\ Allowance \in Int /\ ticks - 0 = ticks
    BY <2>1, ClockNumbers, AllowanceType
  <2> QED BY <2>1, <2>2 DEF Uncounted, ClockNotFast
<1> QED BY ClockHolds, ClockNotSlowHolds, <1>1, PTL DEF ClockKept

(***************************************************************************)
(* Sleeps.  The deadline is the tick of the call and the milliseconds; the *)
(* accounts are opened at the call, the first one with the tick after it,  *)
(* which may be due already.                                               *)
(***************************************************************************)

\* No tick comes before its oscillation, so sys_time does not overflow.
TimeInv ==
  /\ elapsed <= Horizon
  /\ ticks + (IF pending > 0 THEN 1 ELSE 0) <= elapsed
  /\ sys_time = ticks * TIME_RESOLUTION

LEMMA TimeNumbers ==
  ASSUME TypeInv, TimeInv, TimeFits, NEW m \in Nat, Horizon * TIME_RESOLUTION + m < UINT_MOD
  PROVE  /\ sys_time \in Nat /\ ticks \in Nat /\ elapsed \in Nat
         /\ (sys_time + m) % UINT_MOD = sys_time + m
<1>1. /\ ticks \in Nat /\ elapsed \in Nat /\ sys_time \in 0 .. UINT_MOD - 1
      /\ Horizon \in Nat /\ TIME_RESOLUTION \in Nat /\ UINT_MOD \in Nat
  BY TimerAssumption DEF TypeInv, TypeOK
<1>2. ticks <= Horizon
  BY <1>1 DEF TimeInv
<1> DEFINE now == ticks * TIME_RESOLUTION
           last == Horizon * TIME_RESOLUTION
<1>3. now <= last /\ last \in Nat /\ sys_time = now
  BY <1>1, <1>2, MultiplesGrow DEF TimeInv
<1>4. last + m < UINT_MOD
  OBVIOUS
<1> HIDE DEF now, last
<1>5. sys_time + m \in Nat /\ sys_time + m < UINT_MOD
  BY <1>1, <1>3, <1>4
<1> QED BY <1>1, <1>5, WordType

LEMMA TimeStep ==
  ASSUME ServedAfterMatch, TimeFits, TypeInv, TimeInv, [Next]_vars
  PROVE  TimeInv'
<1>1. CASE Oscillate
  BY <1>1, ClockNumbers, TimerAssumption DEF TimeInv, Oscillate, NONE
<1>2. CASE C_IRQ_handler
  <2>1. /\ pending > 0 /\ pending' = NONE /\ ticks' = ticks + 1 /\ elapsed' = elapsed
        /\ sys_time' = (sys_time + TIME_RESOLUTION) % UINT_MOD
    BY <1>2, ClockNumbers DEF ServedAfterMatch, C_IRQ_handler, Advance
  <2>2. ticks + 1 <= elapsed /\ elapsed <= Horizon
    BY <2>1 DEF TimeInv
  <2>3. sys_time' = (ticks + 1) * TIME_RESOLUTION
    <3> DEFINE now == ticks * TIME_RESOLUTION
               next == (ticks + 1) * TIME_RESOLUTION
               last == Horizon * TIME_RESOLUTION
    <3>1. /\ next = now + TIME_RESOLUTION /\ now \in Int /\ next \in Int
          /\ next <= last /\ last \in Int
      BY <2>2, ClockNumbers, NextMultiple, MultiplesGrow, TimerAssumption
    <3>2. last < UINT_MOD /\ sys_time = now /\ sys_time \in Nat
      BY DEF TimeFits, TimeInv, TypeInv, TypeOK
    <3> HIDE DEF now, next, last
    <3>3. sys_time + TIME_RESOLUTION \in Nat /\ sys_time + TIME_RESOLUTION < UINT_MOD
          /\ next = sys_time + TIME_RESOLUTION
      BY <3>1, <3>2, TimerAssumption
    <3>4. sys_time' = next
      BY <2>1, <3>3, WordType
    <3> QED BY <3>4 DEF next
  <2>4. ~(pending' > 0)
    BY <2>1 DEF NONE
  <2> QED BY <2>1, <2>2, <2>3, <2>4, ClockNumbers DEF TimeInv
<1>3. CASE UNCHANGED clock
  BY <1>3 DEF TimeInv, clock
<1>4. CASE TaskCreate \/ DevInitRead \/ DevInit \/ SleepCall \/ SleepReturn \/ UNCHANGED vars
  BY <1>3, <1>4 DEF TaskCreate, DevInitRead, DevInit, SleepCall, SleepReturn, vars
<1> QED BY <1>1, <1>2, <1>4 DEF Next

\* The sleep that began when the clock had ticked t times.
SleptSince(t) ==
  /\ sleep.deadline = t * TIME_RESOLUTION + sleep.millis
  /\ Ahead(Uncounted(sleep.allowed, t + 1))
  /\ Behind(Reserve(sleep.from, t))

SleepInv == sleep # AWAKE => \E t \in 0 .. ticks : SleptSince(t)

RunInv == ClockInv /\ TimeInv /\ SleepInv

\* A sleep begins with balanced accounts.
LEMMA SleepBegins ==
  ASSUME TimeFits, RunInv, SleepCall, TypeInv'
  PROVE  SleepInv'
<1>1. PICK m \in Millis :
        sleep' = [deadline |-> (sys_time + m) % UINT_MOD, millis |-> m,
                  from |-> elapsed, allowed |-> Allowance]
  BY DEF SleepCall
<1>2. TypeInv /\ TimeInv /\ UNCHANGED clock
  BY DEF RunInv, ClockInv, SleepCall
<1>3. /\ sleep'.deadline = (sys_time + m) % UINT_MOD /\ sleep'.millis = m
      /\ sleep'.from = elapsed /\ sleep'.allowed = Allowance
  BY <1>1
<1>4. m \in Nat /\ Horizon * TIME_RESOLUTION + m < UINT_MOD
  BY TimerAssumption DEF TimeFits
<1>5. sleep'.deadline = ticks * TIME_RESOLUTION + m
  BY <1>2, <1>3, <1>4, TimeNumbers DEF TimeInv
<1>6. PICK s, r : s = Uncounted(sleep.allowed, ticks + 1)' /\ r = Reserve(sleep.from, ticks)'
  OBVIOUS
<1>7. s = MATCH
  <2>1. s = Allowance - Allowance - (ticks - (ticks + 1)) * MATCH
    BY <1>2, <1>3, <1>6 DEF Uncounted, Allowance, clock
  <2>2. ticks - (ticks + 1) = -1 /\ (-1) * MATCH = -MATCH /\ MATCH \in Nat /\ Allowance \in Nat
    BY <1>2, ClockNumbers, AllowanceType
  <2> QED BY <2>1, <2>2
<1>8. r = MATCH + Latest + stalls * OSCR_MOD
  <2>1. r = (ticks - ticks + 1) * (MATCH + Latest) + stalls * OSCR_MOD - (elapsed - elapsed)
    BY <1>2, <1>3, <1>6 DEF Reserve, clock
  <2>2. ticks - ticks + 1 = 1 /\ elapsed - elapsed = 0 /\ stalls * OSCR_MOD \in Int
    BY <1>2, ClockNumbers
  <2> QED BY <1>2, <2>1, <2>2, ClockNumbers
<1>9. Ahead(s)'
  BY <1>2, <1>7, ClockNumbers DEF Ahead, clock
<1>10. Behind(r)'
  <2> DEFINE turns == stalls * OSCR_MOD
  <2>1. turns \in Nat /\ (stalls > 0 => turns >= OSCR_MOD)
    <3>1. CASE stalls > 0
      <4>1. 1 * OSCR_MOD <= stalls * OSCR_MOD
        BY <1>2, <3>1, ClockNumbers, MultiplesGrow
      <4>2. 1 * OSCR_MOD = OSCR_MOD /\ stalls * OSCR_MOD \in Nat
        BY <1>2, ClockNumbers
      <4> QED BY <4>1, <4>2
    <3>2. CASE stalls = 0
      BY <1>2, <3>2, ClockNumbers
    <3> QED BY <1>2, <3>1, <3>2, ClockNumbers
  <2>2. r = MATCH + Latest + turns
    BY <1>8
  <2> HIDE DEF turns
  <2>3. pending = NONE => r >= Gap + Latest
    BY <1>2, <2>1, <2>2, ClockNumbers DEF RunInv, ClockInv, GapInv
  <2>4. pending # NONE => r >= Latest - pending
    BY <1>2, <2>1, <2>2, ClockNumbers
  <2> QED BY <1>2, <2>3, <2>4 DEF Behind, Gap, clock
<1>11. ticks' = ticks /\ ticks \in Nat
  BY <1>2, ClockNumbers DEF clock
<1>12. SleptSince(ticks)'
  BY <1>3, <1>5, <1>6, <1>9, <1>10, <1>11 DEF SleptSince, Ahead, Behind
<1> QED BY <1>11, <1>12 DEF SleepInv

\* And it goes on with balanced accounts.
LEMMA SleepGoesOn ==
  ASSUME ServedAfterMatch, RunInv, TypeInv', [Next]_vars, sleep' = sleep, sleep # AWAKE
  PROVE  SleepInv'
<1>1. TypeInv /\ sleep \in [deadline : 0 .. UINT_MOD - 1, millis : Millis, from : Nat, allowed : Nat]
  BY DEF RunInv, ClockInv, TypeInv, SleepType
<1>2. PICK t \in 0 .. ticks : SleptSince(t)
  BY DEF RunInv, SleepInv
<1>3. PICK x \in Int, y \in Int : x = sleep.allowed /\ y = sleep.from
  BY <1>1
<1>4. ticks' >= ticks /\ ticks \in Nat /\ ticks' \in Nat
  <2>1. ticks' = ticks \/ ticks' = ticks + 1
    BY DEF Next, Oscillate, C_IRQ_handler, Advance, TaskCreate, DevInitRead, DevInit,
      SleepCall, SleepReturn,
           clock, vars
  <2> QED BY <1>1, <2>1, ClockNumbers
<1>5. t \in Int /\ t + 1 \in Int /\ t \in 0 .. ticks'
  BY <1>4
<1>6. /\ Ahead(Uncounted(x, t + 1)) => Ahead(Uncounted(x, t + 1))'
      /\ Behind(Reserve(y, t)) => Behind(Reserve(y, t))'
  BY <1>1, <1>5, AccountsStep
<1>7. SleptSince(t)'
  BY <1>2, <1>3, <1>6 DEF SleptSince
<1> QED BY <1>5, <1>7 DEF SleepInv

LEMMA RunStep ==
  ASSUME ServedAfterMatch, TimeFits, RunInv, [Next]_vars
  PROVE  RunInv'
<1>1. ClockInv' /\ TimeInv' /\ TypeInv'
  BY ClockStep, TimeStep DEF RunInv, ClockInv
<1>2. CASE SleepCall
  BY <1>1, <1>2, SleepBegins DEF RunInv
<1>3. CASE SleepReturn
  BY <1>1, <1>3 DEF SleepReturn, RunInv, SleepInv
<1>4. CASE sleep' = sleep
  <2>1. SleepInv'
    BY <1>1, <1>4, SleepGoesOn DEF SleepInv
  <2> QED BY <1>1, <2>1 DEF RunInv
<1>5. CASE Oscillate \/ C_IRQ_handler \/ TaskCreate \/ DevInitRead \/ DevInit \/ UNCHANGED vars
  BY <1>4, <1>5 DEF Oscillate, C_IRQ_handler, Advance, TaskCreate, DevInitRead, DevInit, vars
<1> QED BY <1>1, <1>2, <1>3, <1>5 DEF Next

LEMMA RunInit ==
  ASSUME Init
  PROVE  RunInv
<1>1. TimeInv
  BY TimerAssumption DEF Init, TimeInv, NONE
<1> QED BY <1>1, ClockInit DEF Init, RunInv, SleepInv

LEMMA RunHolds ==
  ASSUME ServedAfterMatch, TimeFits
  PROVE  Spec => []RunInv
<1>1. Init => RunInv
  BY RunInit
<1>2. RunInv /\ [Next]_vars => RunInv'
  BY RunStep
<1> QED BY <1>1, <1>2, PTL DEF Spec

\* What is behind the deadline, in ticks.
LEMMA DeadlineInTicks ==
  ASSUME RunInv, sleep # AWAKE, NEW t \in 0 .. ticks, SleptSince(t)
  PROVE  /\ sleep.millis \in Nat /\ Ticks(sleep.millis) \in Nat
         /\ Over <=> Ticks(sleep.millis) <= ticks - t
<1> DEFINE m == sleep.millis
           r == TIME_RESOLUTION
<1>1. TypeInv /\ sleep \in [deadline : 0 .. UINT_MOD - 1, millis : Millis, from : Nat, allowed : Nat]
  BY DEF RunInv, ClockInv, TypeInv, SleepType
<1>2. m \in Nat /\ r \in Nat
  BY <1>1, TimerAssumption
<1>3. ticks \in Nat /\ t \in Int /\ ticks - t \in Int
  BY <1>1, ClockNumbers
<1>4. sleep.deadline = t * r + m /\ sys_time = ticks * r
  BY DEF SleptSince, RunInv, TimeInv
<1> HIDE DEF m, r
<1>5. (ticks - t) * r = ticks * r - t * r /\ t * r \in Int /\ ticks * r \in Int
  BY <1>2, <1>3
<1> DEFINE p == (ticks - t) * r
           a == t * r
           b == ticks * r
<1>6. p = b - a /\ a \in Int /\ b \in Int /\ sleep.deadline = a + m /\ sys_time = b
  BY <1>4, <1>5
<1>7. Ticks(m) \in Nat /\ (m <= p <=> Ticks(m) <= ticks - t)
  BY <1>2, <1>3, TicksIsLeast DEF r
<1> HIDE DEF p, a, b
<1>8. Over <=> m <= p
  BY <1>2, <1>6 DEF Over
<1> QED BY <1>2, <1>7, <1>8 DEF m

LEMMA EndsInTime == RunInv => SleepEnds
<1> SUFFICES ASSUME RunInv, sleep # AWAKE, ~Over
             PROVE  ~(elapsed - sleep.from > Ticks(sleep.millis) * (MATCH + Latest)
                                               + stalls * OSCR_MOD)
  BY DEF SleepEnds
<1>1. PICK t \in 0 .. ticks : SleptSince(t)
  BY DEF RunInv, SleepInv
<1> DEFINE n == Ticks(sleep.millis)
           c == MATCH + Latest
<1>2. TypeInv /\ sleep.from \in Nat
  BY DEF RunInv, ClockInv, TypeInv, SleepType
<1>3. n \in Nat /\ ticks - t < n
  BY <1>1, <1>2, DeadlineInTicks, ClockNumbers
<1>4. elapsed \in Nat /\ c \in Nat /\ ticks - t + 1 \in Int /\ stalls * OSCR_MOD \in Int
  BY <1>2, ClockNumbers
<1> HIDE DEF n, c
<1>5. (ticks - t + 1) * c <= n * c /\ (ticks - t + 1) * c \in Int /\ n * c \in Int
  <2>1. ticks - t + 1 <= n
    BY <1>2, <1>3, ClockNumbers
  <2> QED BY <1>3, <1>4, <2>1, MultiplesGrow
<1>6. Reserve(sleep.from, t) >= 0
  <2>1. sleep.from \in Int /\ t \in Int
    BY <1>2, ClockNumbers
  <2>2. Reserve(sleep.from, t) \in Int
    BY <1>2, <2>1, AccountsType
  <2>3. Behind(Reserve(sleep.from, t))
    BY <1>1 DEF SleptSince
  <2> QED BY <1>2, <2>2, <2>3, ClockNumbers DEF Behind
<1>7. elapsed - sleep.from <= n * c + stalls * OSCR_MOD
  <2> DEFINE p == (ticks - t + 1) * c
             q == stalls * OSCR_MOD
             z == n * c
  <2>1. Reserve(sleep.from, t) = p + q - (elapsed - sleep.from)
    BY DEF Reserve, c
  <2>2. p \in Int /\ q \in Int /\ z \in Int /\ p <= z
    BY <1>4, <1>5
  <2> HIDE DEF p, q, z
  <2>3. elapsed - sleep.from <= z + q
    BY <1>2, <1>4, <1>6, <2>1, <2>2
  <2> QED BY <2>3 DEF z, q
<1>8. n * c + stalls * OSCR_MOD \in Int /\ elapsed - sleep.from \in Int
  BY <1>2, <1>4, <1>5
<1> DEFINE all == n * c + stalls * OSCR_MOD
<1>9. all \in Int /\ elapsed - sleep.from <= all /\ elapsed - sleep.from \in Int
  BY <1>7, <1>8
<1> HIDE DEF all
<1>10. ~(elapsed - sleep.from > all)
  BY <1>9
<1> QED BY <1>10 DEF all, n, c

LEMMA NotTooSoon ==
  ASSUME ServedAfterMatch, RunInv, [Next]_vars
  PROVE  SleepNotShort
<1> SUFFICES ASSUME sleep # AWAKE, sleep' = AWAKE
             PROVE  Allowance - sleep.allowed >= (Ticks(sleep.millis) - 1) * MATCH
  BY DEF SleepNotShort
<1>1. Over
  BY DEF Next, Oscillate, C_IRQ_handler, Advance, TaskCreate, DevInitRead, DevInit,
         SleepCall, SleepReturn, vars
<1>2. PICK t \in 0 .. ticks : SleptSince(t)
  BY DEF RunInv, SleepInv
<1> DEFINE n == Ticks(sleep.millis)
<1>3. TypeInv /\ sleep.allowed \in Nat /\ Allowance \in Nat
  BY AllowanceType DEF RunInv, ClockInv, TypeInv, SleepType
<1>4. n \in Nat /\ n <= ticks - t
  BY <1>1, <1>2, DeadlineInTicks
<1>5. ticks \in Nat /\ t \in Int /\ MATCH \in Nat
  BY <1>3, ClockNumbers
<1> HIDE DEF n
<1> DEFINE a == ticks - (t + 1)
<1>6. a \in Int /\ n - 1 \in Int /\ n - 1 <= a
  BY <1>4, <1>5
<1>7. Uncounted(sleep.allowed, t + 1) >= 0
  BY <1>2 DEF SleptSince, Ahead
<1>8. Uncounted(sleep.allowed, t + 1) = Allowance - sleep.allowed - a * MATCH
  BY DEF Uncounted
<1> HIDE DEF a
<1> DEFINE p == a * MATCH
           q == (n - 1) * MATCH
<1>9. q <= p /\ p \in Int /\ q \in Int
  BY <1>5, <1>6, MultiplesGrow
<1> HIDE DEF p, q
<1>10. Allowance - sleep.allowed >= q
  BY <1>3, <1>7, <1>8, <1>9 DEF p
<1> QED BY <1>10 DEF q, n

\* sleep_syscall ends within as many ticks as it asks for and not before all
\* but the first of them are over, though all it keeps is its deadline
\* (time.c:51-55).
THEOREM SleepsItsTicksHolds ==
  ASSUME ServedAfterMatch, TimeFits
  PROVE  Spec => SleepsItsTicks
<1>1. RunInv /\ RunInv' /\ [Next]_vars => [SleepEnds' /\ SleepNotShort]_vars
  <2>1. RunInv' => SleepEnds'
    BY EndsInTime, PTL
  <2> QED BY <2>1, NotTooSoon
<1> QED BY RunHolds, <1>1, PTL DEF Spec, SleepsItsTicks

(***************************************************************************)
(* Devices.  The next signal of a device is due after a whole number of    *)
(* its periods since dev_init read the time, whenever dev_init stored it.  *)
(***************************************************************************)

\* s signals in n ticks and a milliseconds, the next one at `next', for the
\* period f: no period is left out, and a tick makes up for one at most.
OnTime(s, n, a, next, now, f) ==
  /\ a <= now
  /\ next + a = now + (s + 1) * f
  /\ s <= n
  /\ s * f <= a
  /\ s = n \/ a < (s + 1) * f

DeviceInv ==
  \A d \in Device :
    /\ d < inited => OnTime(signals[d], since[d], age[d], next_match[d], sys_time, dev_freq[d])
    /\ d >= inited => since[d] = 0 /\ signals[d] = 0
    /\ d = inited /\ sum # NONE => age[d] <= sys_time /\ sum + age[d] = sys_time + dev_freq[d]
    /\ d > inited \/ (d = inited /\ sum = NONE) => age[d] = 0

\* One device, in a tick: it is due if its age reaches the next multiple of
\* its period.
LEMMA DeviceTick ==
  ASSUME NEW f \in Nat, NEW s \in Nat, NEW n \in Nat, NEW a \in Nat, NEW next \in Nat,
         NEW now \in Nat, NEW step \in Nat, f >= step, OnTime(s, n, a, next, now, f)
  PROVE  /\ next <= now + step => /\ OnTime(s + 1, n + 1, a + step, next + f, now + step, f)
                                  /\ next + f <= now + step + f
         /\ ~(next <= now + step) => OnTime(s, n + 1, a + step, next, now + step, f)
<1>1. PICK x \in Int : x = s * f
  OBVIOUS
<1>2. (s + 1) * f = x + f
  BY <1>1, NextMultiple
<1>3. (s + 1 + 1) * f = x + f + f
  BY <1>2, NextMultiple
<1>4. a <= now /\ next + a = now + x + f /\ s <= n /\ x <= a /\ (s = n \/ a < x + f)
  BY <1>1, <1>2 DEF OnTime
<1>5. ASSUME next <= now + step
      PROVE  /\ OnTime(s + 1, n + 1, a + step, next + f, now + step, f)
             /\ next + f <= now + step + f
  BY <1>2, <1>3, <1>4, <1>5 DEF OnTime
<1>6. ASSUME ~(next <= now + step)
      PROVE  OnTime(s, n + 1, a + step, next, now + step, f)
  BY <1>1, <1>2, <1>4, <1>6 DEF OnTime
<1> QED BY <1>5, <1>6

LEMMA DeviceNumbers ==
  ASSUME TypeInv, PeriodsSpanTicks, NEW d \in Device
  PROVE  /\ d \in Nat /\ inited \in Nat /\ dev_freq[d] \in Nat \ {0}
         /\ dev_freq[d] >= TIME_RESOLUTION /\ TIME_RESOLUTION \in Nat /\ UINT_MOD \in Nat
         /\ age[d] \in Nat /\ since[d] \in Nat /\ signals[d] \in Nat
         /\ next_match[d] \in Nat /\ sys_time \in Nat
         /\ sum # NONE => sum \in Nat
<1>1. /\ TIME_RESOLUTION \in Nat /\ UINT_MOD \in Nat /\ NUM_DEVICES \in Nat
      /\ dev_freq[d] \in Nat \ {0} /\ dev_freq[d] >= TIME_RESOLUTION /\ d \in Nat
  BY TimerAssumption DEF PeriodsSpanTicks, Device
<1>2. /\ age[d] \in Nat /\ since[d] \in Nat /\ signals[d] \in Nat
      /\ inited \in 0 .. NUM_DEVICES /\ next_match[d] \in 0 .. UINT_MOD - 1
      /\ sys_time \in 0 .. UINT_MOD - 1 /\ sum \in NONE .. UINT_MOD - 1
  BY DEF TypeInv, TypeOK
<1> QED BY <1>1, <1>2 DEF NONE

LEMMA DeviceStep ==
  ASSUME ServedAfterMatch, TimeFits, PeriodsSpanTicks, TypeInv, TimeInv, DeviceInv, TypeInv',
         TimeInv', [Next]_vars
  PROVE  DeviceInv'
<1>1. CASE C_IRQ_handler
  <2>1. /\ sys_time' = (sys_time + TIME_RESOLUTION) % UINT_MOD
        /\ DevUpdate(sys_time') /\ ticks' = ticks + 1
    BY <1>1 DEF C_IRQ_handler, Advance
  <2>2. /\ sys_time' = sys_time + TIME_RESOLUTION /\ sys_time \in Nat
        /\ sys_time' <= Horizon * TIME_RESOLUTION
    <3>1. /\ ticks \in Nat /\ ticks' = ticks + 1 /\ ticks' <= Horizon /\ Horizon \in Nat
          /\ TIME_RESOLUTION \in Nat
      BY <2>1, ClockNumbers, TimerAssumption DEF TypeInv, TypeOK, TimeInv, NONE
    <3>2. (ticks + 1) * TIME_RESOLUTION = ticks * TIME_RESOLUTION + TIME_RESOLUTION
      BY <3>1, NextMultiple
    <3>3. (ticks + 1) * TIME_RESOLUTION <= Horizon * TIME_RESOLUTION
      BY <3>1, MultiplesGrow
    <3> QED BY <3>1, <3>2, <3>3 DEF TimeInv, TypeInv, TypeOK
  <2>3. inited' = inited /\ sum' = sum
    BY <2>1 DEF DevUpdate
  <2> SUFFICES ASSUME NEW d \in Device
               PROVE  /\ d < inited => OnTime(signals'[d], since'[d], age'[d], next_match'[d],
                                              sys_time', dev_freq[d])
                      /\ d >= inited => since'[d] = 0 /\ signals'[d] = 0
                      /\ d = inited /\ sum # NONE
                           => age'[d] <= sys_time' /\ sum + age'[d] = sys_time' + dev_freq[d]
                      /\ d > inited \/ (d = inited /\ sum = NONE) => age'[d] = 0
    BY <2>3 DEF DeviceInv
  <2> DEFINE f == dev_freq[d]
  <2>4. CASE d >= inited
    <3>1. since'[d] = since[d] /\ signals'[d] = signals[d]
      BY <2>1, <2>4, DeviceNumbers DEF DevUpdate
    <3>2. age'[d] = IF d = inited /\ sum # NONE THEN age[d] + TIME_RESOLUTION ELSE age[d]
      BY <2>1, <2>4, DeviceNumbers DEF DevUpdate
    <3> QED BY <2>2, <2>4, <3>1, <3>2, DeviceNumbers DEF DeviceInv
  <2>5. CASE d < inited
    <3>1. age'[d] = age[d] + TIME_RESOLUTION /\ since'[d] = since[d] + 1
      BY <2>1, <2>5 DEF DevUpdate
    <3>2. OnTime(signals[d], since[d], age[d], next_match[d], sys_time, f)
      BY <2>5 DEF DeviceInv
    <3>3. /\ next_match[d] <= sys_time'
               => /\ OnTime(signals[d] + 1, since[d] + 1, age[d] + TIME_RESOLUTION,
                            next_match[d] + f, sys_time', f)
                  /\ next_match[d] + f <= sys_time' + f
          /\ ~(next_match[d] <= sys_time')
               => OnTime(signals[d], since[d] + 1, age[d] + TIME_RESOLUTION,
                         next_match[d], sys_time', f)
      <4> HIDE DEF f
      <4>1. f \in Nat /\ f >= TIME_RESOLUTION
        BY DeviceNumbers DEF f
      <4> QED BY <2>2, <3>2, <4>1, DeviceNumbers, DeviceTick
    <3>4. CASE next_match[d] <= sys_time'
      <4>1. signals'[d] = signals[d] + 1 /\ next_match'[d] = (next_match[d] + f) % UINT_MOD
        BY <2>1, <2>5, <3>4 DEF DevUpdate, Due
      <4>2. sys_time' + f < UINT_MOD
        <5> DEFINE last == Horizon * TIME_RESOLUTION
        <5>1. last \in Int /\ sys_time' <= last /\ last + f < UINT_MOD
          BY <2>2, TimerAssumption DEF TimeFits
        <5> HIDE DEF last
        <5> QED BY <2>2, <5>1, DeviceNumbers
      <4>3. next_match'[d] = next_match[d] + f
        <5>1. next_match[d] + f < UINT_MOD /\ next_match[d] + f \in Nat
          BY <2>2, <3>3, <3>4, <4>2, DeviceNumbers
        <5> QED BY <4>1, <5>1, WordType
      <4> QED BY <2>5, <3>1, <3>3, <3>4, <4>1, <4>3, DeviceNumbers
    <3>5. CASE ~(next_match[d] <= sys_time')
      <4>1. signals'[d] = signals[d] /\ next_match'[d] = next_match[d]
        BY <2>1, <2>5, <3>5 DEF DevUpdate, Due
      <4> QED BY <2>5, <3>1, <3>3, <3>5, <4>1, DeviceNumbers
    <3> QED BY <3>4, <3>5
  <2> QED BY <2>4, <2>5, DeviceNumbers
<1>2. CASE TaskCreate
  <2>1. /\ inited' = 0 /\ sum' = NONE /\ age' = [d \in Device |-> 0]
        /\ since' = [d \in Device |-> 0] /\ signals' = [d \in Device |-> 0]
    BY <1>2 DEF TaskCreate
  <2>2. \A d \in Device : ~(d < 0)
    BY DEF Device
  <2> QED BY <2>1, <2>2 DEF DeviceInv
<1>3. CASE DevInitRead
  <2>1. /\ inited \in Device /\ sum = NONE /\ sum' = (sys_time + dev_freq[inited]) % UINT_MOD
        /\ UNCHANGED <<next_match, inited, age, since, signals, sys_time>>
    BY <1>3, TimerAssumption DEF DevInitRead, clock, TypeInv, TypeOK, Device
  <2>2. sum' = sys_time + dev_freq[inited] /\ sys_time \in Nat
    <3>1. dev_freq[inited] \in Nat /\ Horizon * TIME_RESOLUTION + dev_freq[inited] < UINT_MOD
      BY <2>1, TimerAssumption DEF TimeFits
    <3> QED BY <2>1, <3>1, TimeNumbers
  <2>3. age[inited] = 0 /\ dev_freq[inited] \in Nat
    BY <2>1, TimerAssumption DEF DeviceInv
  <2>4. sum' # NONE
    BY <2>2, <2>3 DEF NONE
  <2> QED BY <2>1, <2>2, <2>3, <2>4 DEF DeviceInv
<1>4. CASE DevInit
  <2>1. /\ inited \in Device /\ inited' = inited + 1 /\ sum # NONE /\ sum' = NONE
        /\ next_match' = [next_match EXCEPT ![inited] = sum]
        /\ UNCHANGED <<age, since, signals, sys_time>>
    BY <1>4, TimerAssumption DEF DevInit, clock, TypeInv, TypeOK, Device
  <2>2. /\ age[inited] <= sys_time /\ sum + age[inited] = sys_time + dev_freq[inited]
        /\ since[inited] = 0 /\ signals[inited] = 0 /\ next_match'[inited] = sum
    BY <2>1, DeviceNumbers DEF DeviceInv, TypeInv, TypeOK
  <2>3. OnTime(signals[inited], since[inited], age[inited], next_match'[inited],
               sys_time, dev_freq[inited])
    <3>1. (0 + 1) * dev_freq[inited] = dev_freq[inited] /\ 0 * dev_freq[inited] = 0
      BY <2>1, DeviceNumbers
    <3> QED BY <2>1, <2>2, <3>1, DeviceNumbers DEF OnTime
  <2> SUFFICES ASSUME NEW d \in Device
               PROVE  /\ d < inited' => OnTime(signals[d], since[d], age[d], next_match'[d],
                                               sys_time, dev_freq[d])
                      /\ d >= inited' => since[d] = 0 /\ signals[d] = 0 /\ age[d] = 0
    <3>1. \A d \in Device : d > inited' \/ d = inited' => d >= inited'
      BY <2>1 DEF Device
    <3> QED BY <2>1, <3>1 DEF DeviceInv
  <2>4. CASE d = inited
    BY <2>1, <2>3, <2>4, DeviceNumbers
  <2>5. CASE d # inited
    <3>1. next_match'[d] = next_match[d]
      BY <2>1, <2>5 DEF TypeInv, TypeOK
    <3>2. (d < inited' <=> d < inited) /\ (d >= inited' => d > inited)
      BY <2>1, <2>5, DeviceNumbers
    <3> QED BY <3>1, <3>2, DeviceNumbers DEF DeviceInv
  <2> QED BY <2>4, <2>5
<1>5. CASE UNCHANGED <<next_match, inited, sum, age, since, signals, sys_time>>
  BY <1>5 DEF DeviceInv
<1>6. CASE Oscillate \/ SleepCall \/ SleepReturn \/ UNCHANGED vars
  BY <1>5, <1>6 DEF Oscillate, SleepCall, SleepReturn, vars, clock, devs
<1> QED BY <1>1, <1>2, <1>3, <1>4, <1>6 DEF Next

\* Every device has been signalled once for each of its periods since dev_init
\* read the time for it, or once with every tick since dev_init stored its
\* match as long as signals are overdue, though ticks come before, between and
\* after the two and the devices are set up one after the other (device.c:41, 57).
THEOREM DevicePeriodHolds ==
  ASSUME ServedAfterMatch, TimeFits, PeriodsSpanTicks
  PROVE  Spec => []DevicePeriod
<1>1. Init => DeviceInv
  BY DEF Init, DeviceInv, Device
<1>2. RunInv /\ RunInv' /\ DeviceInv /\ [Next]_vars => DeviceInv'
  BY DeviceStep DEF RunInv, ClockInv
<1>3. RunInv /\ DeviceInv => DevicePeriod
  <2> SUFFICES ASSUME RunInv, DeviceInv, NEW d \in Device, d < inited
               PROVE  LET periods == age[d] \div dev_freq[d]
                      IN  signals[d] = IF since[d] < periods THEN since[d] ELSE periods
    BY DEF DevicePeriod
  <2> DEFINE f == dev_freq[d]
             q == age[d] \div f
             s == signals[d]
  <2>1. /\ f \in Nat \ {0} /\ s \in Nat /\ age[d] \in Nat /\ since[d] \in Nat
        /\ s <= since[d] /\ s * f <= age[d] /\ (s = since[d] \/ age[d] < (s + 1) * f)
    BY DeviceNumbers DEF RunInv, ClockInv, DeviceInv, OnTime
  <2>2. q \in Nat /\ age[d] < (q + 1) * f
    BY <2>1, QuotientBound
  <2> HIDE DEF f, q, s
  <2>3. s <= q
    <3> SUFFICES ASSUME q < s
                 PROVE  FALSE
      BY <2>1, <2>2
    <3>1. (q + 1) * f <= s * f /\ (q + 1) * f \in Int /\ s * f \in Int
      BY <2>1, <2>2, MultiplesGrow
    <3> QED BY <2>1, <2>2, <3>1
  <2>4. CASE age[d] < (s + 1) * f
    <3>1. q = s
      BY <2>1, <2>4, QuotientUnique DEF q
    <3> QED BY <2>1, <2>2, <3>1 DEF s, q, f
  <2>5. CASE s = since[d]
    BY <2>1, <2>2, <2>3, <2>5 DEF s, q, f
  <2> QED BY <2>1, <2>4, <2>5
<1> QED BY RunHolds, <1>1, <1>2, <1>3, PTL DEF Spec
=============================================================================
