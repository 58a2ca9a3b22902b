--------------------------- MODULE AdmissionProofs --------------------------
(***************************************************************************)
(* valid_addr is exact, whatever the width of an address; and what the     *)
(* admission of a task set does with any array of any tasks.               *)
(***************************************************************************)
EXTENDS Admission, FiniteSetTheorems, TLAPS

\* A sum of two addresses overflows at most once.
LEMMA SumWraps ==
  ASSUME NEW start \in Address, NEW count \in Address
  PROVE  (start + count) % MAX = IF start + count < MAX THEN start + count
                                                        ELSE start + count - MAX
BY MaxAssumption, SMT DEF Address

\* memcheck.c:24-36 accepts a buffer if and only if all of it is within the
\* bounds, for sums that overflow too.
THEOREM ValidAddrCorrect ==
  ASSUME NEW start \in Address, NEW count \in Address,
         NEW base \in Address, NEW bound \in Address
  PROVE  valid_addr(start, count, base, bound) <=> WithinBounds(start, count, base, bound)
<1> DEFINE end == (start + count) % MAX
<1>1. end = IF start + count < MAX THEN start + count ELSE start + count - MAX
  BY SumWraps
<1>2. ASSUME valid_addr(start, count, base, bound)
      PROVE  WithinBounds(start, count, base, bound)
  <2>1. start + count <= bound
    BY <1>1, <1>2, MaxAssumption DEF valid_addr, Address
  <2> QED
    BY <1>2, <2>1 DEF valid_addr, WithinBounds, Address
<1>3. ASSUME WithinBounds(start, count, base, bound)
      PROVE  valid_addr(start, count, base, bound)
  <2>1. base <= start /\ start < bound
    BY <1>3 DEF WithinBounds
  <2>2. CASE count = 0
    BY <1>1, <2>1, <2>2, MaxAssumption DEF valid_addr, Address
  <2>3. CASE count # 0
    <3>1. start + count - 1 \in start .. start + count - 1
      BY <2>3 DEF Address
    <3>2. start + count - 1 < bound
      BY <1>3, <3>1 DEF WithinBounds
    <3> QED
      BY <1>1, <2>1, <2>3, <3>2, MaxAssumption DEF valid_addr, Address
  <2> QED BY <2>2, <2>3
<1> QED BY <1>2, <1>3

(***************************************************************************)
(* The invariant of the two loops.  Only the first pass of the outer one   *)
(* looks at the last task: after it the shortest period is in front, where *)
(* no later pass moves it.                                                 *)
(***************************************************************************)

Sorted == pc \in {"test", "accept", "ESCHED"}

ShapeInv ==
  /\ Size \in Nat /\ IsFiniteSet(DOMAIN tasks)
  /\ tasks \in [0 .. Size - 1 -> Task] /\ input \in [0 .. Size - 1 -> Task]
  /\ address \in Address
  /\ pc \in {"check", "sort", "test", "accept", "ESCHED", "EINVAL", "EFAULT"}

IndexInv ==
  /\ pc = "check" => i = Size - 1 /\ j = Size - 2
  /\ pc = "sort" => /\ i \in -1 .. Size - 1 /\ j \in -2 .. Size - 2
                    /\ Size > 0 => i >= 0 /\ j >= -1
  /\ Sorted => i \in 0 .. Size

FrontLeast == \A k \in DOMAIN tasks : tasks[0].T <= tasks[k].T

\* In the first pass the least of the tasks behind j is just behind it.
BubbleInv ==
  /\ pc = "sort" => IF i = Size - 1
                    THEN \A k \in DOMAIN tasks : k > j => tasks[j+1].T <= tasks[k].T
                    ELSE FrontLeast
  /\ Sorted => FrontLeast

SortInv == ShapeInv /\ IndexInv /\ BubbleInv

LEMMA SortInit == Init => SortInv
<1> SUFFICES ASSUME Init
             PROVE  SortInv
  OBVIOUS
<1> DEFINE n == Cardinality(DOMAIN input)
<1>1. IsFiniteSet(DOMAIN input) /\ input \in [0 .. n - 1 -> Task] /\ tasks = input
  BY AdmissionAssumption DEF Init
<1>2. n \in Nat
  BY <1>1, FS_CardinalityType
<1>3. Size = n
  BY <1>1 DEF Size
<1> HIDE DEF n
<1>4. ShapeInv
  BY <1>1, <1>2, <1>3 DEF ShapeInv, Init
<1>5. IndexInv /\ BubbleInv
  BY DEF IndexInv, BubbleInv, Init, Sorted
<1> QED BY <1>4, <1>5 DEF SortInv

\* Of a step that leaves the array alone.
LEMMA SizeKept ==
  ASSUME UNCHANGED tasks
  PROVE  Size' = Size
  BY DEF Size

LEMMA CompareStep ==
  ASSUME SortInv, Compare
  PROVE  SortInv'
<1> DEFINE n == Size
<1>1. /\ n \in Nat /\ tasks \in [0 .. n - 1 -> Task] /\ j \in 0 .. n - 2 /\ pc = "sort"
      /\ i \in 0 .. n - 1
  BY DEF SortInv, ShapeInv, IndexInv, Compare
<1>2. /\ tasks' = IF Misplaced(j) THEN Exchange(j) ELSE tasks
      /\ j' = j - 1 /\ UNCHANGED <<input, address, i, utilization, pc>>
  BY DEF Compare
<1>3. DOMAIN tasks' = DOMAIN tasks
  BY <1>1, <1>2 DEF Exchange
<1>4. Size' = n
  BY <1>3 DEF Size
<1> HIDE DEF n
<1>5. tasks' \in [0 .. n - 1 -> Task]
  BY <1>1, <1>2 DEF Exchange
<1>6. ShapeInv'
  BY <1>2, <1>3, <1>4, <1>5 DEF SortInv, ShapeInv, n
<1>7. IndexInv'
  BY <1>1, <1>2, <1>4 DEF IndexInv, Sorted
<1>8. \A k \in 0 .. n - 1 : tasks[k].T \in Nat
  BY <1>1 DEF Task
<1>9. BubbleInv'
  <2>1. CASE i = n - 1
    <3>1. \A k \in 0 .. n - 1 : k > j => tasks[j+1].T <= tasks[k].T
      BY <1>1, <2>1 DEF SortInv, BubbleInv, n
    <3>2. \A k \in 0 .. n - 1 : k > j - 1 => tasks'[j].T <= tasks'[k].T
      <4>1. CASE Misplaced(j)
        <5>1. tasks' = [tasks EXCEPT ![j+1] = tasks[j], ![j] = tasks[j+1]]
          BY <1>2, <4>1 DEF Exchange
        <5>2. tasks[j+1].T < tasks[j].T
          BY <4>1 DEF Misplaced
        <5> QED BY <1>1, <1>8, <3>1, <5>1, <5>2
      <4>2. CASE ~Misplaced(j)
        <5>1. tasks' = tasks /\ ~(tasks[j+1].T < tasks[j].T)
          BY <1>2, <4>2 DEF Misplaced
        <5>2. tasks[j].T <= tasks[j+1].T
          BY <1>1, <1>8, <5>1
        <5> QED BY <1>1, <1>8, <3>1, <5>1, <5>2
      <4> QED BY <4>1, <4>2
    <3>3. DOMAIN tasks' = 0 .. n - 1 /\ i' = Size' - 1 /\ pc' = "sort" /\ j' + 1 = j
      BY <1>1, <1>2, <1>4, <1>5, <2>1
    <3> QED BY <1>2, <3>2, <3>3 DEF BubbleInv, Sorted
  <2>2. CASE i # n - 1
    <3>1. \A k \in 0 .. n - 1 : tasks[0].T <= tasks[k].T
      BY <1>1, <2>2 DEF SortInv, BubbleInv, FrontLeast, n
    <3>2. \A k \in 0 .. n - 1 : tasks'[0].T <= tasks'[k].T
      <4>1. CASE Misplaced(j)
        <5>1. tasks' = [tasks EXCEPT ![j+1] = tasks[j], ![j] = tasks[j+1]]
          BY <1>2, <4>1 DEF Exchange
        <5>2. tasks[j+1].T < tasks[j].T
          BY <4>1 DEF Misplaced
        <5>3. j # 0
          BY <1>1, <1>8, <3>1, <5>2
        <5> QED BY <1>1, <1>8, <3>1, <5>1, <5>3
      <4>2. CASE ~Misplaced(j)
        BY <1>2, <3>1, <4>2
      <4> QED BY <4>1, <4>2
    <3>3. DOMAIN tasks' = 0 .. n - 1 /\ i' # Size' - 1 /\ pc' = "sort"
      BY <1>1, <1>2, <1>4, <1>5, <2>2
    <3> QED BY <3>2, <3>3 DEF BubbleInv, Sorted, FrontLeast
  <2> QED BY <2>1, <2>2
<1> QED BY <1>6, <1>7, <1>9 DEF SortInv

LEMMA NextPassStep ==
  ASSUME SortInv, NextPass
  PROVE  SortInv'
<1>1. /\ UNCHANGED <<input, address, tasks, utilization>> /\ pc = "sort" /\ j < 0
      /\ i \in -1 .. Size - 1 /\ j \in -2 .. Size - 2 /\ Size \in Nat
      /\ Size > 0 => i >= 0 /\ j >= -1
      /\ tasks \in [0 .. Size - 1 -> Task]
  BY DEF NextPass, SortInv, ShapeInv, IndexInv
<1>2. Size' = Size
  BY <1>1, SizeKept
<1>3. FrontLeast /\ FrontLeast'
  <2>1. CASE Size = 0
    BY <1>1, <2>1 DEF FrontLeast
  <2>2. CASE Size # 0 /\ i = Size - 1
    <3>1. j = -1
      BY <1>1, <2>2
    <3> QED BY <1>1, <2>2, <3>1 DEF SortInv, BubbleInv, FrontLeast
  <2>3. CASE i # Size - 1
    BY <1>1, <2>3 DEF SortInv, BubbleInv, FrontLeast
  <2> QED BY <2>1, <2>2, <2>3
<1>4. ShapeInv'
  BY <1>1, <1>2 DEF SortInv, ShapeInv, NextPass
<1>5. CASE i > 0 /\ i' = i - 1 /\ j' = i - 2 /\ pc' = pc
  BY <1>1, <1>2, <1>3, <1>4, <1>5 DEF SortInv, IndexInv, BubbleInv, Sorted
<1>6. CASE i <= 0 /\ i' = 0 /\ pc' = "test" /\ j' = j
  BY <1>1, <1>2, <1>3, <1>4, <1>6 DEF SortInv, IndexInv, BubbleInv, Sorted
<1> QED BY <1>5, <1>6 DEF NextPass

LEMMA SortStep ==
  ASSUME SortInv, [Next]_vars
  PROVE  SortInv'
<1>1. CASE Check
  <2>1. UNCHANGED <<input, address, tasks, i, j>> /\ pc = "check"
        /\ pc' \in {"EINVAL", "EFAULT", "sort"}
    BY <1>1 DEF Check
  <2>2. Size' = Size
    BY <2>1, SizeKept
  <2>3. Size \in Nat /\ i = Size - 1 /\ j = Size - 2 /\ tasks \in [0 .. Size - 1 -> Task]
    BY <2>1 DEF SortInv, ShapeInv, IndexInv
  <2>4. \A k \in DOMAIN tasks : k > j => k = j + 1 /\ tasks[k].T \in Nat
    BY <2>3 DEF Task
  <2> QED BY <2>1, <2>2, <2>3, <2>4 DEF SortInv, ShapeInv, IndexInv, BubbleInv, Sorted
<1>2. CASE Test
  <2>1. UNCHANGED <<input, address, tasks>> /\ pc = "test" /\ i < Size
        /\ \/ pc' = "ESCHED" /\ i' = i
           \/ pc' = "test" /\ i' = i + 1
    BY <1>2 DEF Test
  <2>2. Size' = Size
    BY <2>1, SizeKept
  <2> QED BY <2>1, <2>2 DEF SortInv, ShapeInv, IndexInv, BubbleInv, FrontLeast, Sorted
<1>3. CASE Accept
  <2>1. Size' = Size
    BY <1>3, SizeKept DEF Accept
  <2> QED BY <1>3, <2>1 DEF Accept, SortInv, ShapeInv, IndexInv, BubbleInv, FrontLeast, Sorted
<1>4. CASE UNCHANGED vars
  <2>1. Size' = Size
    BY <1>4, SizeKept DEF vars
  <2> QED BY <1>4, <2>1 DEF vars, SortInv, ShapeInv, IndexInv, BubbleInv, FrontLeast, Sorted
<1> QED BY <1>1, <1>2, <1>3, <1>4, CompareStep, NextPassStep DEF Next

LEMMA SortHolds == Spec => []SortInv
<1>1. SortInv /\ [Next]_vars => SortInv'
  BY SortStep
<1> QED BY SortInit, <1>1, PTL DEF Spec

(***************************************************************************)
(* The exchange keeps every task: swapping the two positions is a          *)
(* bijection between the positions of a task before and after.             *)
(***************************************************************************)

LEMMA ExchangeKeeps ==
  ASSUME NEW n \in Nat, NEW k \in 0 .. n - 2, NEW t,
         NEW a, DOMAIN a = 0 .. n - 1, NEW b, DOMAIN b = 0 .. n - 1,
         b[k] = a[k+1], b[k+1] = a[k], \A m \in (0 .. n - 1) \ {k, k + 1} : b[m] = a[m]
  PROVE  Occurrences(b, t) = Occurrences(a, t)
<1> DEFINE A == {m \in 0 .. n - 1 : a[m] = t}
           B == {m \in 0 .. n - 1 : b[m] = t}
           other(m) == IF m = k THEN k + 1 ELSE IF m = k + 1 THEN k ELSE m
           f == [m \in A |-> other(m)]
<1>1. \A m \in 0 .. n - 1 : other(m) \in 0 .. n - 1 /\ other(other(m)) = m
  OBVIOUS
<1>2. \A m \in 0 .. n - 1 : b[m] = a[other(m)]
  OBVIOUS
<1>3. IsFiniteSet(A)
  <2>1. IsFiniteSet(0 .. n - 1)
    BY FS_Interval
  <2> QED BY <2>1, FS_Subset
<1> HIDE DEF other
<1>4. \A m \in A : f[m] \in B
  BY <1>1, <1>2
<1>5. \A m \in B : other(m) \in A /\ f[other(m)] = m
  BY <1>1, <1>2
<1>6. \A l, m \in A : f[l] = f[m] => l = m
  BY <1>1
<1> HIDE DEF A, B
<1>7. f \in [A -> B]
  BY <1>4
<1> HIDE DEF f
<1>8. f \in Injection(A, B) /\ f \in Surjection(A, B)
  BY <1>5, <1>6, <1>7 DEF Injection, IsInjective, Surjection
<1>9. ExistsBijection(A, B)
  BY <1>8 DEF ExistsBijection, Bijection
<1>10. Cardinality(B) = Cardinality(A)
  BY <1>3, <1>9, FS_Bijection
<1> QED BY <1>10 DEF A, B, Occurrences

LEMMA PermutedInit == Init => Permuted
  BY DEF Init, Permuted

LEMMA PermutedStep ==
  ASSUME SortInv, Permuted, [Next]_vars
  PROVE  Permuted'
<1>1. CASE input' = input /\ tasks' = tasks
  BY <1>1 DEF Permuted
<1>2. CASE Compare
  <2> DEFINE n == Size
  <2>1. n \in Nat /\ tasks \in [0 .. n - 1 -> Task] /\ j \in 0 .. n - 2
    BY <1>2 DEF SortInv, ShapeInv, IndexInv, Compare
  <2> HIDE DEF n
  <2>2. input' = input /\ (tasks' = tasks \/ tasks' = Exchange(j))
    BY <1>2 DEF Compare
  <2>3. CASE tasks' = Exchange(j)
    <3>1. /\ tasks' = [tasks EXCEPT ![j+1] = tasks[j], ![j] = tasks[j+1]]
          /\ DOMAIN tasks' = 0 .. n - 1 /\ DOMAIN tasks = 0 .. n - 1
      BY <2>1, <2>3 DEF Exchange
    <3>2. \A k \in 0 .. n - 1 : \E l \in 0 .. n - 1 : tasks'[k] = tasks[l]
      BY <2>1, <3>1
    <3>3. \A t : Occurrences(tasks', t) = Occurrences(tasks, t)
      <4> DEFINE a == tasks
                 b == tasks'
      <4>1. /\ DOMAIN a = 0 .. n - 1 /\ DOMAIN b = 0 .. n - 1 /\ b[j] = a[j+1] /\ b[j+1] = a[j]
            /\ \A m \in (0 .. n - 1) \ {j, j + 1} : b[m] = a[m]
        BY <2>1, <3>1
      <4> HIDE DEF a, b
      <4>2. \A t : Occurrences(b, t) = Occurrences(a, t)
        BY <2>1, <4>1, ExchangeKeeps
      <4> QED BY <4>2 DEF a, b
    <3>4. \A t \in {tasks'[k] : k \in DOMAIN tasks'} : t \in {tasks[k] : k \in DOMAIN tasks}
      BY <3>1, <3>2
    <3> QED BY <2>2, <3>3, <3>4 DEF Permuted
  <2>4. CASE tasks' = tasks
    BY <2>2, <2>4, <1>1
  <2> QED BY <2>2, <2>3, <2>4
<1>3. CASE Check \/ NextPass \/ Test \/ Accept \/ UNCHANGED vars
  BY <1>1, <1>3 DEF Check, NextPass, Test, Accept, vars
<1> QED BY <1>2, <1>3 DEF Next

\* The sort loses no task and brings one of the shortest period to the front,
\* for every array (ub_test.c:51-58).
THEOREM FrontIsFastestHolds == Spec => []FrontIsFastest
<1>1. SortInv /\ Permuted /\ [Next]_vars => Permuted'
  BY PermutedStep
<1>2. SortInv /\ Permuted => FrontIsFastest
  BY DEF FrontIsFastest, SortInv, BubbleInv, FrontLeast, Sorted
<1> QED BY SortHolds, PermutedInit, <1>1, <1>2, PTL DEF Spec

(***************************************************************************)
(* The check of the array.                                                 *)
(***************************************************************************)

LEMMA ProductGrows ==
  ASSUME NEW a \in Nat, NEW b \in Nat, NEW c \in Nat, a <= b
  PROVE  a * c \in Nat /\ a * c <= b * c
<1>1. PICK d \in Nat : b = a + d
  <2>1. b - a \in Nat /\ b = a + (b - a)
    OBVIOUS
  <2> QED BY <2>1
<1>2. b * c = a * c + d * c /\ a * c \in Nat /\ d * c \in Nat
  BY <1>1
<1> QED BY <1>2

LEMMA ArrayIsValidExactly ==
  ASSUME SortInv, Size <= OS_AVAIL_TASKS
  PROVE  ArrayIsValid <=> WithinBounds(address, Size * TASK_SIZE, USR_START_ADDR, USR_END_ADDR)
<1>1. Size \in Nat /\ address \in Address
  BY DEF SortInv, ShapeInv
<1>2. /\ OS_AVAIL_TASKS \in Nat /\ TASK_SIZE \in Nat
      /\ OS_AVAIL_TASKS * TASK_SIZE \in Nat /\ OS_AVAIL_TASKS * TASK_SIZE < MAX
      /\ USR_START_ADDR \in Address /\ USR_END_ADDR \in Address /\ MAX \in Nat
  BY AdmissionAssumption, MaxAssumption
<1>3. Size * TASK_SIZE \in Nat /\ Size * TASK_SIZE <= OS_AVAIL_TASKS * TASK_SIZE
  BY <1>1, <1>2, ProductGrows
<1> DEFINE bytes == Size * TASK_SIZE
           most == OS_AVAIL_TASKS * TASK_SIZE
<1> HIDE DEF bytes, most
<1>4. bytes \in Nat /\ bytes <= most /\ most \in Nat /\ most < MAX
  BY <1>2, <1>3 DEF bytes, most
<1>5. bytes \in Address
  BY <1>2, <1>4 DEF Address
<1>6. Size * TASK_SIZE \in Address
  BY <1>5 DEF bytes
<1> QED BY <1>1, <1>2, <1>6, ValidAddrCorrect DEF ArrayIsValid

LEMMA FaultsStep ==
  ASSUME SortInv, FaultsExactly, [Next]_vars
  PROVE  FaultsExactly'
<1> DEFINE within == WithinBounds(address, Size * TASK_SIZE, USR_START_ADDR, USR_END_ADDR)
<1>1. Size' = Size /\ address' = address
  <2>1. CASE Compare
    <3>1. DOMAIN tasks' = DOMAIN tasks
      BY <2>1 DEF Compare, Exchange
    <3> QED BY <2>1, <3>1 DEF Compare, Size
  <2>2. CASE UNCHANGED <<tasks, address>>
    BY <2>2 DEF Size
  <2>3. CASE Check \/ NextPass \/ Test \/ Accept \/ UNCHANGED vars
    BY <2>2, <2>3 DEF Check, NextPass, Test, Accept, vars
  <2> QED BY <2>1, <2>3 DEF Next
<1>2. within' <=> within
  BY <1>1 DEF WithinBounds
<1>3. CASE pc = "check"
  <2>1. CASE Check
    <3>1. Size <= OS_AVAIL_TASKS => (ArrayIsValid <=> within)
      BY ArrayIsValidExactly
    <3> HIDE DEF within
    <3>2. Size' <= OS_AVAIL_TASKS => (pc' = "EFAULT" <=> ~within')
      BY <1>1, <1>2, <2>1, <3>1, AdmissionAssumption DEF Check, SortInv, ShapeInv
    <3> QED BY <3>2 DEF FaultsExactly, within
  <2>2. CASE UNCHANGED vars
    BY <1>1, <1>2, <1>3, <2>2 DEF vars, FaultsExactly
  <2> QED BY <1>3, <2>1, <2>2 DEF Next, Compare, NextPass, Test, Accept
<1>4. CASE pc # "check"
  <2>1. pc' # "check" /\ (pc' = "EFAULT" <=> pc = "EFAULT")
    BY <1>4 DEF Next, Check, Compare, NextPass, Test, Accept, vars
  <2> QED BY <1>1, <1>2, <1>4, <2>1 DEF FaultsExactly
<1> QED BY <1>3, <1>4

\* EFAULT is the answer if and only if some byte of the array is not in user
\* memory, for addresses whose sum with the size overflows too (proc.c:50).
THEOREM FaultsExactlyHolds == Spec => []FaultsExactly
<1>1. Init => FaultsExactly
  BY DEF Init, FaultsExactly
<1>2. SortInv /\ FaultsExactly /\ [Next]_vars => FaultsExactly'
  BY FaultsStep
<1> QED BY SortHolds, <1>1, <1>2, PTL DEF Spec

(***************************************************************************)
(* The turns of the loops.                                                 *)
(***************************************************************************)

\* A pass over m tasks less one leaves m turns less for the passes to come.
LEMMA Triangle ==
  ASSUME NEW m \in Int
  PROVE  (m * (m + 1)) \div 2 = ((m - 1) * m) \div 2 + m
<1> DEFINE x == (m - 1) * m
<1>1. m * (m + 1) = x + 2 * m /\ x \in Int
  OBVIOUS
<1> HIDE DEF x
<1>2. (x + 2 * m) \div 2 = x \div 2 + m
  BY <1>1
<1> QED BY <1>1, <1>2 DEF x

LEMMA TriangleNat ==
  ASSUME NEW m \in Int, m >= -1
  PROVE  (m * (m + 1)) \div 2 \in Nat
<1>1. m * (m + 1) \in Nat
  <2>1. CASE m = -1
    BY <2>1
  <2>2. CASE m \in Nat
    BY <2>2
  <2> QED BY <2>1, <2>2
<1> DEFINE x == m * (m + 1)
<1> HIDE DEF x
<1>2. x \div 2 \in Nat
  BY <1>1 DEF x
<1> QED BY <1>2 DEF x

\* Every step of the admission brings its end nearer (ub_test.c:51-58, 61-74).
THEOREM TurnsRunOutHolds == Spec => TurnsRunOut
<1> DEFINE tri(m) == (m * (m + 1)) \div 2
           sorting(m, n) == (n + 3) + tri(m) + Size + 1
<1>1. ASSUME SortInv, Next
      PROVE  TurnsLeft' < TurnsLeft /\ (TurnsLeft' = 0 => Answered')
  <2>1. Size' = Size
    <3>1. CASE Compare
      <4>1. DOMAIN tasks' = DOMAIN tasks
        BY <3>1 DEF Compare, Exchange
      <4> QED BY <4>1 DEF Size
    <3>2. CASE Check \/ NextPass \/ Test \/ Accept
      BY <3>2, SizeKept DEF Check, NextPass, Test, Accept
    <3> QED BY <1>1, <3>1, <3>2 DEF Next
  <2>2. /\ pc = "check" => TurnsLeft = sorting(Size - 1, Size - 2) + 1
        /\ pc = "sort" => TurnsLeft = sorting(i, j)
        /\ pc = "test" => TurnsLeft = Size - i + 1
        /\ pc \in {"accept", "ESCHED", "EINVAL", "EFAULT"} => TurnsLeft = 0
    BY DEF TurnsLeft
  <2>3. /\ pc' = "sort" => TurnsLeft' = (j' + 3) + tri(i') + Size + 1
        /\ pc' = "test" => TurnsLeft' = Size - i' + 1
        /\ pc' \in {"accept", "ESCHED", "EINVAL", "EFAULT"} => TurnsLeft' = 0
    BY <2>1 DEF TurnsLeft
  <2>4. Size \in Nat /\ (pc = "sort" => i \in -1 .. Size - 1 /\ j \in -2 .. Size - 2)
    BY <1>1 DEF SortInv, ShapeInv, IndexInv
  <2>5. \A m \in Int : m >= -1 => tri(m) \in Nat
    BY TriangleNat
  <2>6. \A m \in Int : tri(m) = tri(m - 1) + m
    <3> SUFFICES ASSUME NEW m \in Int
                 PROVE  tri(m) = tri(m - 1) + m
      OBVIOUS
    <3>1. m - 1 + 1 = m
      OBVIOUS
    <3> QED BY <3>1, Triangle
  <2> HIDE DEF tri
  <2>7. CASE Check
    <3>1. /\ pc = "check" /\ i = Size - 1 /\ j = Size - 2 /\ i' = i /\ j' = j
          /\ pc' \in {"EINVAL", "EFAULT", "sort"}
      BY <1>1, <2>7 DEF Check, SortInv, IndexInv
    <3>2. tri(Size - 1) \in Nat
      BY <2>4, <2>5
    <3> QED BY <2>2, <2>3, <2>4, <3>1, <3>2 DEF Answered
  <2>8. CASE Compare
    <3>1. pc = "sort" /\ pc' = "sort" /\ i' = i /\ j' = j - 1 /\ j >= 0
      BY <2>8 DEF Compare
    <3>2. tri(i) \in Nat
      BY <2>4, <2>5, <3>1
    <3> QED BY <2>2, <2>3, <2>4, <3>1, <3>2 DEF Answered
  <2>9. CASE NextPass
    <3>1. /\ pc = "sort" /\ j < 0 /\ tri(i) \in Nat /\ tri(i) = tri(i - 1) + i
          /\ i >= 0 => tri(i - 1) \in Nat
          /\ Size > 0 => i >= 0 /\ j >= -1
      BY <1>1, <2>4, <2>5, <2>6, <2>9 DEF NextPass, SortInv, IndexInv
    <3>2. CASE i > 0 /\ i' = i - 1 /\ j' = i - 2 /\ pc' = pc
      BY <2>2, <2>3, <2>4, <3>1, <3>2 DEF Answered
    <3>3. CASE i <= 0 /\ i' = 0 /\ pc' = "test"
      BY <2>2, <2>3, <2>4, <3>1, <3>3 DEF Answered
    <3> QED BY <2>9, <3>2, <3>3 DEF NextPass
  <2>10. CASE Test
    <3>1. /\ pc = "test" /\ i \in 0 .. Size /\ i < Size
          /\ (pc' = "ESCHED" /\ i' = i) \/ (pc' = "test" /\ i' = i + 1)
      BY <1>1, <2>10 DEF Test, SortInv, IndexInv, Sorted
    <3> QED BY <2>2, <2>3, <2>4, <3>1 DEF Answered
  <2>11. CASE Accept
    <3>1. pc = "test" /\ i = Size /\ pc' = "accept"
      BY <2>11 DEF Accept
    <3> QED BY <2>2, <2>3, <2>4, <3>1 DEF Answered
  <2> QED BY <1>1, <2>7, <2>8, <2>9, <2>10, <2>11 DEF Next
<1>2. SortInv /\ [Next]_vars => [TurnsLeft' < TurnsLeft /\ (TurnsLeft' = 0 => Answered')]_vars
  BY <1>1
<1> QED BY SortHolds, <1>2, PTL DEF Spec, TurnsRunOut
=============================================================================
