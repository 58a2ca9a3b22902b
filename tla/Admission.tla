------------------------------ MODULE Admission ----------------------------
(***************************************************************************)
(* task_create of kernel/syscall/proc.c up to the point at which it        *)
(* replaces the task set: the checks of its arguments, and assign_schedule *)
(* of kernel/sched/ub_test.c, which sorts the tasks by rate and applies    *)
(* the utilisation bound test, one turn of a loop at a time.               *)
(*                                                                         *)
(* A task is a record of its C, T and B.  The position a task ends up at   *)
(* is the priority that allocate_tasks gives it.  The code computes in     *)
(* single precision floating point; here a utilisation is the exact number *)
(* of 1/Hyper, and NAN is the result of 0/0, which no comparison accepts.  *)
(***************************************************************************)
EXTENDS Integers, FiniteSets, FiniteSetsExt, Addresses

CONSTANTS Inputs,        \* the arrays [0 .. n-1 -> tasks] handed to the test
          OS_AVAIL_TASKS,
          TASK_SIZE,     \* sizeof(task_t)
          USR_START_ADDR, USR_END_ADDR,
          Hyper,         \* a common multiple of the periods
          bound_table    \* index -> the bound, in 1/10000

VARIABLES input,         \* the array as it was handed over
          address,       \* where it is
          tasks,         \* the array now
          i, j,          \* loop indices
          utilization,   \* of the tasks tested so far, all at full rate
          pc             \* "check", "sort", "test"; then "accept" or an error

vars == <<input, address, tasks, i, j, utilization, pc>>

NAN == -1

Task == [C : Nat, T : Nat, B : Nat]

ASSUME AdmissionAssumption ==
  /\ OS_AVAIL_TASKS \in Nat /\ TASK_SIZE \in Nat /\ OS_AVAIL_TASKS * TASK_SIZE < MAX
  /\ USR_START_ADDR \in Address /\ USR_END_ADDR \in Address
  /\ Hyper \in Nat \ {0}
  /\ \A a \in Inputs : IsFiniteSet(DOMAIN a) /\ a \in [0 .. Cardinality(DOMAIN a) - 1 -> Task]
  /\ \A a \in Inputs : \A k \in DOMAIN a : a[k].T # 0 => Hyper % a[k].T = 0

Size == Cardinality(DOMAIN tasks)        \* num_tasks

Init ==
  /\ input \in Inputs
  /\ address \in Address
  /\ tasks = input
  /\ i = Size - 1
  /\ j = Size - 2
  /\ utilization = 0
  /\ pc = "check"

ArrayIsValid == valid_addr(address, Size * TASK_SIZE, USR_START_ADDR, USR_END_ADDR)

\* proc.c:46-55
Check ==
  /\ pc = "check"
  /\ \/ Size > OS_AVAIL_TASKS /\ pc' = "EINVAL"
     \/ Size <= OS_AVAIL_TASKS /\ ~ArrayIsValid /\ pc' = "EFAULT"
     \/ Size <= OS_AVAIL_TASKS /\ ArrayIsValid /\ pc' = "sort"
  /\ UNCHANGED <<input, address, tasks, i, j, utilization>>

\* Fault: the order of the periods is reversed.
Misplaced_Rising(k) == tasks[k+1].T > tasks[k].T

\* The test of line 53.
Misplaced(k) == tasks[k+1].T < tasks[k].T

Exchange(k) == [tasks EXCEPT ![k+1] = tasks[k], ![k] = tasks[k+1]]

\* One turn of the inner loop, 52-58.
Compare ==
  /\ pc = "sort"
  /\ j >= 0
  /\ tasks' = IF Misplaced(j) THEN Exchange(j) ELSE tasks
  /\ j' = j - 1
  /\ UNCHANGED <<input, address, i, utilization, pc>>

\* Fault: the outer loop keeps its index.
NextPass_Again ==
  /\ pc = "sort"
  /\ j < 0
  /\ j' = i - 1
  /\ UNCHANGED <<input, address, tasks, i, utilization, pc>>

\* The next turn of the outer loop, 51, over one task less.
NextPass ==
  /\ pc = "sort"
  /\ j < 0
  /\ \/ /\ i > 0
        /\ i' = i - 1
        /\ j' = i - 2
        /\ UNCHANGED pc
     \/ /\ i <= 0
        /\ i' = 0
        /\ pc' = "test"
        /\ UNCHANGED j
  /\ UNCHANGED <<input, address, tasks, utilization>>

\* c / T in single precision; the quotient of a positive number and 0 is
\* greater than every bound.
Quotient(c, T) == IF T # 0 THEN c * (Hyper \div T)
                           ELSE IF c = 0 THEN NAN ELSE 2 * Hyper

Plus(x, y) == IF NAN \in {x, y} THEN NAN ELSE x + y

\* Fault: the time that a task may be blocked is left out.
Demand_NoBlocking(task) == Quotient(task.C, task.T)
Demand(task) == Quotient(task.C + task.B, task.T)

Exceeds(x, k) == x # NAN /\ x * 10000 > bound_table[k] * Hyper

\* One turn of the loop 61-74.
Test ==
  /\ pc = "test"
  /\ i < Size
  /\ LET t == tasks[i]
     IN  \/ /\ Exceeds(Plus(utilization, Demand(t)), i)
            /\ pc' = "ESCHED"
            /\ UNCHANGED <<i, utilization>>
         \/ /\ ~Exceeds(Plus(utilization, Demand(t)), i)
            /\ utilization' = Plus(utilization, Quotient(t.C, t.T))
            /\ i' = i + 1
            /\ UNCHANGED pc
  /\ UNCHANGED <<input, address, tasks, j>>

Accept ==
  /\ pc = "test"
  /\ i = Size
  /\ pc' = "accept"
  /\ UNCHANGED <<input, address, tasks, i, j, utilization>>

Next == Check \/ Compare \/ NextPass \/ Test \/ Accept

Spec == Init /\ [][Next]_vars

(***************************************************************************)
(* Properties                                                              *)
(***************************************************************************)

Occurrences(a, t) == Cardinality({k \in DOMAIN a : a[k] = t})

\* The array only ever holds the tasks it was given, each as often: the
\* exchange loses none (54-56), so allocate_tasks gives every task a tcb.
Permuted ==
  \A t \in {input[k] : k \in DOMAIN input} \union {tasks[k] : k \in DOMAIN tasks} :
    Occurrences(tasks, t) = Occurrences(input, t)

\* What the sort does achieve: of the tasks it was given, all still there, the
\* one that gets the highest priority has the shortest period.
FrontIsFastest ==
  /\ Permuted
  /\ pc \in {"test", "accept", "ESCHED"} => \A k \in DOMAIN tasks : tasks[0].T <= tasks[k].T

Answered == pc \notin {"check", "sort", "test"}

\* The turns of the two loops that are left (51-58, 61-74), and the answer.
TurnsLeft ==
  LET sorting(m, n) == (n + 3) + (m * (m + 1)) \div 2 + Size + 1
  IN  CASE pc = "check" -> sorting(Size - 1, Size - 2) + 1
        [] pc = "sort"  -> sorting(i, j)
        [] pc = "test"  -> Size - i + 1
        [] OTHER        -> 0

\* task_create always comes to an answer, whatever it is handed: every turn
\* brings both loops nearer to their ends, though their indices run in opposite
\* directions and pass each other.
TurnsRunOut == [][TurnsLeft' < TurnsLeft /\ (TurnsLeft' = 0 => Answered')]_vars

\* proc.c:50: EFAULT is for arrays that are not wholly in user memory, and
\* no other array gets as far as being read.
FaultsExactly ==
  pc # "check" /\ Size <= OS_AVAIL_TASKS =>
    (pc = "EFAULT" <=> ~WithinBounds(address, Size * TASK_SIZE,
                                     USR_START_ADDR, USR_END_ADDR))

\* ub_test.c:30-32, 38 and sched.c:52-54: the tasks are in order of priority,
\* which is that of their rates.
InOrder ==
  pc = "accept" => \A k, l \in DOMAIN tasks : k < l => tasks[k].T <= tasks[l].T

Ceiling(x, y) == (x + y - 1) \div y

\* The work that the tasks before k have released by the time r, together
\* with that of task k.  A task whose period is 0 has no jobs to speak of.
Load(k, r) ==
  tasks[k].C + tasks[k].B
    + MapThenSumSet(LAMBDA l : tasks[l].C * Ceiling(r, tasks[l].T),
                    {l \in 0 .. k - 1 : tasks[l].T > 0})

\* proc.c:66: a set that is not rejected is schedulable.  At the priorities
\* the test gave them, every task is done within its period even when all are
\* released at once.
DeadlinesMet ==
  pc = "accept" =>
    \A k \in DOMAIN tasks :
      tasks[k].C > 0 /\ tasks[k].T > 0 => \E r \in 1 .. tasks[k].T : Load(k, r) <= r

\* As long as the program hands over its tasks fastest first and each has a
\* period, the test is right: the blocking times count, at the right bound.
MeetsIfInOrder ==
  (/\ \A k, l \in DOMAIN input : k < l => input[k].T <= input[l].T
   /\ \A k \in DOMAIN input : input[k].T > 0) => DeadlinesMet
=============================================================================
