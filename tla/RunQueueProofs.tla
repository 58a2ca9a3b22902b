--------------------------- MODULE RunQueueProofs ---------------------------
(***************************************************************************)
(* The bitmap run queue implements the abstract one, for every number of   *)
(* priorities and every group size that divides it, and although a removal *)
(* is interrupted, as long as the calls made in it are HarmlessCalls.      *)
(***************************************************************************)
EXTENDS RunQueue, MinFacts

(***************************************************************************)
(* A priority is a group and a bit.                                        *)
(***************************************************************************)

\* The product of naturals grows with a factor.
LEMMA Multiples ==
  ASSUME NEW n \in Nat, NEW a \in Nat, NEW b \in Nat, a < b
  PROVE  a * n + n <= b * n
<1>1. PICK k \in Nat : b = a + 1 + k
  <2>1. b - a - 1 \in Nat /\ b = a + 1 + (b - a - 1)
    OBVIOUS
  <2> QED BY <2>1
<1>2. b * n = a * n + n + k * n
  BY <1>1
<1>3. k * n >= 0
  OBVIOUS
<1> QED BY <1>2, <1>3

\* Division with remainder, and that it is unique.
LEMMA DivMod ==
  ASSUME NEW p \in Nat, NEW n \in Nat \ {0}
  PROVE  p \div n \in Nat /\ p % n \in 0 .. n - 1 /\ p = (p \div n) * n + (p % n)
  OBVIOUS

LEMMA DivModUnique ==
  ASSUME NEW n \in Nat \ {0}, NEW g \in Nat, NEW b \in 0 .. n - 1,
         NEW h \in Nat, NEW c \in 0 .. n - 1, g * n + b = h * n + c
  PROVE  g = h /\ b = c
<1>1. CASE g < h
  <2>1. g * n + n <= h * n
    BY <1>1, Multiples
  <2>2. g * n \in Nat /\ h * n \in Nat
    OBVIOUS
  <2> QED BY <2>1, <2>2
<1>2. CASE h < g
  <2>1. h * n + n <= g * n
    BY <1>2, Multiples
  <2>2. g * n \in Nat /\ h * n \in Nat
    OBVIOUS
  <2> QED BY <2>1, <2>2
<1> QED BY <1>1, <1>2

LEMMA GroupCount ==
  /\ OS_MAX_TASKS \div NUM_RUN_GROUP \in Nat
  /\ OS_MAX_TASKS = (OS_MAX_TASKS \div NUM_RUN_GROUP) * NUM_RUN_GROUP
<1> DEFINE top == OS_MAX_TASKS \div NUM_RUN_GROUP
           rest == OS_MAX_TASKS % NUM_RUN_GROUP
<1>1. OS_MAX_TASKS \in Nat /\ NUM_RUN_GROUP \in Nat \ {0} /\ rest = 0
  BY SizeAssumption, GroupAssumption
<1>2. top \in Nat /\ OS_MAX_TASKS = top * NUM_RUN_GROUP + rest
  BY <1>1, DivMod
<1> HIDE DEF top, rest
<1>3. OS_MAX_TASKS = top * NUM_RUN_GROUP
  BY <1>1, <1>2
<1> QED BY <1>2, <1>3 DEF top

\* A priority is a position in a group, and every position is a priority.
LEMMA Position ==
  ASSUME NEW p \in Prio
  PROVE  /\ GroupOf(p) \in Group /\ BitOf(p) \in Bit
         /\ p = GroupOf(p) * NUM_RUN_GROUP + BitOf(p)
<1> DEFINE n == NUM_RUN_GROUP
           top == OS_MAX_TASKS \div n
           g == GroupOf(p)
           b == BitOf(p)
<1>1. n \in Nat \ {0} /\ OS_MAX_TASKS \in Nat \ {0} /\ p \in Nat /\ p < OS_MAX_TASKS
  BY SizeAssumption, GroupAssumption DEF Prio
<1>2. g \in Nat /\ b \in 0 .. n - 1 /\ p = g * n + b
  BY <1>1, DivMod DEF GroupOf, BitOf
<1>3. top \in Nat /\ OS_MAX_TASKS = top * n
  BY GroupCount
<1> HIDE DEF n, top, g, b
<1>4. g < top
  <2>1. g * n \in Nat /\ top * n \in Nat
    BY <1>1, <1>2, <1>3
  <2>2. g # top
    BY <1>1, <1>2, <1>3, <2>1
  <2>3. ~(top < g)
    <3> SUFFICES ASSUME top < g
                 PROVE  FALSE
      OBVIOUS
    <3>1. top * n + n <= g * n
      BY <1>1, <1>2, <1>3, Multiples
    <3> QED BY <3>1, <2>1, <1>1, <1>2, <1>3
  <2> QED BY <2>2, <2>3, <1>2, <1>3
<1> QED BY <1>2, <1>3, <1>4 DEF n, top, g, b, Group, Bit

LEMMA Slot ==
  ASSUME NEW g \in Group, NEW b \in Bit
  PROVE  /\ g * NUM_RUN_GROUP + b \in Prio
         /\ GroupOf(g * NUM_RUN_GROUP + b) = g /\ BitOf(g * NUM_RUN_GROUP + b) = b
<1> DEFINE n == NUM_RUN_GROUP
           top == OS_MAX_TASKS \div n
           p == g * n + b
<1>1. n \in Nat \ {0} /\ OS_MAX_TASKS \in Nat \ {0} /\ b \in 0 .. n - 1
  BY SizeAssumption, GroupAssumption DEF Bit
<1>2. top \in Nat /\ OS_MAX_TASKS = top * n
  BY GroupCount
<1>3. g \in Nat /\ g < top
  BY <1>2 DEF Group
<1> HIDE DEF n, top
<1>4. g * n + n <= top * n
  BY <1>1, <1>2, <1>3, Multiples
<1>5. g * n \in Nat
  BY <1>1, <1>3
<1>6. p \in Nat /\ p < OS_MAX_TASKS
  BY <1>1, <1>2, <1>4, <1>5
<1>7. p \div n \in Nat /\ p % n \in 0 .. n - 1 /\ p = (p \div n) * n + (p % n)
  BY <1>1, <1>6, DivMod
<1>8. p \div n = g /\ p % n = b
  <2> HIDE DEF p
  <2>1. p = g * n + b
    BY DEF p
  <2> QED BY <2>1, <1>1, <1>3, <1>7, DivModUnique
<1> QED BY <1>6, <1>8, SizeAssumption DEF n, Prio, GroupOf, BitOf

\* Two priorities at the same position are the same.
LEMMA PositionUnique ==
  ASSUME NEW p \in Prio, NEW q \in Prio, GroupOf(p) = GroupOf(q), BitOf(p) = BitOf(q)
  PROVE  p = q
<1>1. p = GroupOf(p) * NUM_RUN_GROUP + BitOf(p) /\ q = GroupOf(q) * NUM_RUN_GROUP + BitOf(q)
  BY Position
<1> QED BY <1>1

(***************************************************************************)
(* The representation invariant.  BitsBacked needs the type invariant, and *)
(* SummaryExact makes highest_prio look into a group that has a task.  The *)
(* rest says what a removal has in its register: nobody has changed the    *)
(* memory that it is about to overwrite.                                   *)
(***************************************************************************)
RegisterValid ==
  /\ at = "store_bits" => BitSet(prio) /\ byte = run_bits[GroupOf(prio)]
  /\ at = "test" => byte = run_bits[GroupOf(prio)]
  /\ at = "store_group" => byte = group_run_bits

RemovalValid ==
  /\ at \in Point \ {"rest", "store_bits"} => ~BitSet(prio)
  /\ Clearing \/ at = "ret" => run_list[prio] # NULL
  /\ at = "test" /\ run_bits[GroupOf(prio)] # {} => GroupOf(prio) \in group_run_bits
  /\ at \in {"load_group", "store_group"} => run_bits[GroupOf(prio)] = {}

RepInv == TypeOK /\ SummaryExact /\ BitsBacked /\ RegisterValid /\ RemovalValid

LEMMA RepInit == Init => RepInv
<1> SUFFICES ASSUME Init
             PROVE  RepInv
  OBVIOUS
<1>1. 0 \in Prio
  BY SizeAssumption DEF Prio
<1>2. TypeOK
  BY <1>1 DEF Init, TypeOK, EmptyQueue, Queues, Point
<1>3. SummaryExact
  BY DEF Init, SummaryExact
<1>4. BitsBacked
  BY Position DEF Init, BitsBacked, BitSet
<1>5. RegisterValid /\ RemovalValid
  BY DEF Init, RegisterValid, RemovalValid, Clearing
<1> QED BY <1>2, <1>3, <1>4, <1>5 DEF RepInv

\* A whole call for p disturbs no removal.
Undisturbed(p) ==
  \/ at = "rest"
  \/ /\ at \in {"store_bits", "ret", "null"}
     /\ p # prio
     /\ at = "store_bits" => GroupOf(p) # GroupOf(prio)

LEMMA HarmlessIsUndisturbed ==
  ASSUME NEW p \in Prio, <<at, prio, p>> \in HarmlessCalls
  PROVE  Undisturbed(p)
  BY DEF HarmlessCalls, Undisturbed

\* How the bits move under the two calls that change one position.
LEMMA AddStep ==
  ASSUME RepInv, NEW t \in Tcb, NEW p \in Prio, Undisturbed(p),
         runqueue_add(t, p), UNCHANGED removal
  PROVE  /\ RepInv'
         /\ \A q \in Prio : BitSet(q)' <=> BitSet(q) \/ q = p
<1> DEFINE g == GroupOf(p)
           b == BitOf(p)
<1>1. g \in Group /\ b \in Bit
  BY Position
<1>2. /\ group_run_bits' = group_run_bits \union {g}
      /\ run_bits' = [run_bits EXCEPT ![g] = @ \union {b}]
      /\ run_list' = [run_list EXCEPT ![p] = t]
      /\ UNCHANGED <<returned, panicked, at, prio, byte>>
  BY DEF runqueue_add, removal
<1>3. TypeOK'
  BY <1>1, <1>2 DEF RepInv, TypeOK, Queues
<1>4. SummaryExact'
  <2>1. ~Clearing /\ ~Clearing'
    BY <1>2 DEF Undisturbed, Clearing
  <2> QED BY <1>1, <1>2, <2>1 DEF RepInv, TypeOK, SummaryExact
<1>5. ASSUME NEW q \in Prio
      PROVE  BitSet(q)' <=> BitSet(q) \/ q = p
  <2>1. GroupOf(q) \in Group /\ BitOf(q) \in Bit
    BY Position
  <2>2. q = p <=> GroupOf(q) = g /\ BitOf(q) = b
    BY PositionUnique
  <2> QED BY <1>1, <1>2, <2>1, <2>2 DEF RepInv, TypeOK, BitSet
<1>6. BitsBacked'
  BY <1>2, <1>5, NullAssumption DEF RepInv, TypeOK, BitsBacked, Queues
<1>7. RegisterValid' /\ RemovalValid'
  <2>1. prio \in Prio /\ GroupOf(prio) \in Group
    BY Position DEF RepInv, TypeOK
  <2>2. (BitSet(prio))' <=> BitSet(prio) \/ prio = p
    BY <1>2, <1>5, <2>1 DEF BitSet
  <2>3. CASE at = "rest"
    BY <1>2, <2>3 DEF RegisterValid, RemovalValid, Clearing
  <2>4. CASE at = "store_bits" /\ GroupOf(p) # GroupOf(prio)
    BY <1>1, <1>2, <2>1, <2>2, <2>4
      DEF RepInv, TypeOK, RegisterValid, RemovalValid, Clearing
  <2>5. CASE at \in {"ret", "null"} /\ p # prio
    BY <1>2, <2>1, <2>2, <2>5, NullAssumption
      DEF RepInv, TypeOK, Queues, RegisterValid, RemovalValid, Clearing
  <2> QED BY <2>3, <2>4, <2>5 DEF Undisturbed
<1> QED BY <1>3, <1>4, <1>5, <1>6, <1>7 DEF RepInv

LEMMA RemoveStep ==
  ASSUME RepInv, NEW p \in Prio, Undisturbed(p), runqueue_remove(p), UNCHANGED removal
  PROVE  /\ RepInv'
         /\ \A q \in Prio : BitSet(q)' <=> BitSet(q) /\ q # p
<1> DEFINE g == GroupOf(p)
           b == BitOf(p)
           rest == run_bits[g] \ {b}
<1>1. g \in Group /\ b \in Bit
  BY Position
<1>2. /\ run_bits' = [run_bits EXCEPT ![g] = rest]
      /\ group_run_bits' = IF rest = {} THEN group_run_bits \ {g} ELSE group_run_bits
      /\ run_list' = [run_list EXCEPT ![p] = NULL]
      /\ returned' = [returned EXCEPT !["irq"] = run_list[p]]
      /\ b \in run_bits[g]
      /\ UNCHANGED <<panicked, at, prio, byte>>
  BY DEF runqueue_remove, removal, BitSet
<1>3. TypeOK'
  BY <1>1, <1>2 DEF RepInv, TypeOK, Queues
<1>4. SummaryExact'
  <2>1. ~Clearing /\ ~Clearing'
    BY <1>2 DEF Undisturbed, Clearing
  <2> QED BY <1>1, <1>2, <2>1 DEF RepInv, TypeOK, SummaryExact
<1>5. ASSUME NEW q \in Prio
      PROVE  BitSet(q)' <=> BitSet(q) /\ q # p
  <2>1. GroupOf(q) \in Group /\ BitOf(q) \in Bit
    BY Position
  <2>2. q = p <=> GroupOf(q) = g /\ BitOf(q) = b
    BY PositionUnique
  <2> QED BY <1>1, <1>2, <2>1, <2>2 DEF RepInv, TypeOK, BitSet
<1>6. BitsBacked'
  BY <1>2, <1>5 DEF RepInv, TypeOK, BitsBacked, Queues
<1>7. RegisterValid' /\ RemovalValid'
  <2>1. prio \in Prio /\ GroupOf(prio) \in Group
    BY Position DEF RepInv, TypeOK
  <2>2. (BitSet(prio))' <=> BitSet(prio) /\ prio # p
    BY <1>2, <1>5, <2>1 DEF BitSet
  <2>3. CASE at = "rest"
    BY <1>2, <2>3 DEF RegisterValid, RemovalValid, Clearing
  <2>4. CASE at = "store_bits" /\ GroupOf(p) # GroupOf(prio)
    BY <1>1, <1>2, <2>1, <2>2, <2>4
      DEF RepInv, TypeOK, RegisterValid, RemovalValid, Clearing
  <2>5. CASE at \in {"ret", "null"} /\ p # prio
    BY <1>2, <2>1, <2>2, <2>5
      DEF RepInv, TypeOK, Queues, RegisterValid, RemovalValid, Clearing
  <2> QED BY <2>3, <2>4, <2>5 DEF Undisturbed
<1> QED BY <1>3, <1>4, <1>5, <1>6, <1>7 DEF RepInv

LEMMA InitStep ==
  ASSUME RepInv, at = "rest", runqueue_init, UNCHANGED removal
  PROVE  RepInv' /\ \A q \in Prio : ~BitSet(q)'
<1>1. \A q \in Prio : GroupOf(q) \in Group
  BY Position
<1> QED BY <1>1 DEF RepInv, TypeOK, SummaryExact, BitsBacked, BitSet, runqueue_init, removal,
                    RegisterValid, RemovalValid, Clearing

(***************************************************************************)
(* The steps of a removal.                                                 *)
(***************************************************************************)
LEMMA LoadBitsStep ==
  ASSUME RepInv, NEW p \in Prio, remove_load_bits(p)
  PROVE  RepInv'
<1>1. /\ GroupOf(p) \in Group
      /\ at = "rest" /\ BitSet(p) /\ at' = "store_bits" /\ prio' = p
      /\ byte' = run_bits[GroupOf(p)]
      /\ UNCHANGED <<run_list, run_bits, group_run_bits, returned, panicked>>
  BY Position DEF remove_load_bits, queue
<1>2. TypeOK'
  BY <1>1 DEF RepInv, TypeOK, Point
<1>3. SummaryExact' /\ BitsBacked'
  BY <1>1 DEF RepInv, SummaryExact, BitsBacked, BitSet, Clearing
<1>4. RegisterValid' /\ RemovalValid'
  BY <1>1 DEF RegisterValid, RemovalValid, BitSet, Clearing
<1> QED BY <1>2, <1>3, <1>4 DEF RepInv

LEMMA StoreBitsStep ==
  ASSUME RepInv, remove_store_bits
  PROVE  /\ RepInv'
         /\ BitSet(prio) /\ \A q \in Prio : BitSet(q)' <=> BitSet(q) /\ q # prio
<1> DEFINE g == GroupOf(prio)
           b == BitOf(prio)
           rest == run_bits[g] \ {b}
<1>1. prio \in Prio /\ g \in Group /\ b \in Bit
  BY Position DEF RepInv, TypeOK
<1>2. /\ at = "store_bits" /\ at' = "test" /\ BitSet(prio)
      /\ byte' = rest /\ run_bits' = [run_bits EXCEPT ![g] = rest]
      /\ UNCHANGED <<run_list, group_run_bits, returned, panicked, prio>>
  BY DEF remove_store_bits, RepInv, RegisterValid
<1>3. TypeOK'
  BY <1>1, <1>2 DEF RepInv, TypeOK, Point
<1>4. SummaryExact'
  BY <1>1, <1>2 DEF RepInv, TypeOK, SummaryExact, Clearing
<1>5. ASSUME NEW q \in Prio
      PROVE  BitSet(q)' <=> BitSet(q) /\ q # prio
  <2>1. GroupOf(q) \in Group /\ BitOf(q) \in Bit
    BY Position
  <2>2. q = prio <=> GroupOf(q) = g /\ BitOf(q) = b
    BY <1>1, PositionUnique
  <2> QED BY <1>1, <1>2, <2>1, <2>2 DEF RepInv, TypeOK, BitSet
<1>6. BitsBacked'
  BY <1>2, <1>5 DEF RepInv, BitsBacked
<1>7. RegisterValid' /\ RemovalValid'
  <2>1. ~(BitSet(prio))'
    BY <1>1, <1>2, <1>5 DEF BitSet
  <2>2. run_list[prio] # NULL
    BY <1>1, <1>2 DEF RepInv, BitsBacked
  <2>3. g \in group_run_bits
    BY <1>1, <1>2 DEF RepInv, SummaryExact, BitSet, Clearing
  <2> QED BY <1>1, <1>2, <2>1, <2>2, <2>3
        DEF RepInv, TypeOK, RegisterValid, RemovalValid, Clearing
<1> QED BY <1>2, <1>3, <1>4, <1>5, <1>6, <1>7 DEF RepInv

LEMMA TestStep ==
  ASSUME RepInv, remove_test
  PROVE  RepInv'
<1> DEFINE g == GroupOf(prio)
<1>1. prio \in Prio /\ g \in Group
  BY Position DEF RepInv, TypeOK
<1>2. /\ at = "test" /\ byte' = {}
      /\ at' = IF run_bits[g] = {} THEN "load_group" ELSE "ret"
      /\ UNCHANGED <<run_list, run_bits, group_run_bits, returned, panicked, prio>>
  BY DEF remove_test, queue, RepInv, RegisterValid
<1>3. TypeOK'
  BY <1>2 DEF RepInv, TypeOK, Point
<1>4. SummaryExact' /\ BitsBacked'
  BY <1>1, <1>2 DEF RepInv, SummaryExact, BitsBacked, BitSet, RemovalValid, Clearing
<1>5. RegisterValid' /\ RemovalValid'
  BY <1>2 DEF RepInv, RegisterValid, RemovalValid, BitSet, Clearing, Point
<1> QED BY <1>3, <1>4, <1>5 DEF RepInv

LEMMA GroupStep ==
  ASSUME RepInv, remove_load_group \/ remove_store_group
  PROVE  RepInv'
<1> DEFINE g == GroupOf(prio)
<1>1. prio \in Prio /\ g \in Group /\ run_bits[g] = {}
  BY Position DEF RepInv, TypeOK, RemovalValid, remove_load_group, remove_store_group
<1>2. CASE remove_load_group
  <2>1. /\ at = "load_group" /\ at' = "store_group" /\ byte' = group_run_bits
        /\ UNCHANGED <<run_list, run_bits, group_run_bits, returned, panicked, prio>>
    BY <1>2 DEF remove_load_group, queue
  <2>2. TypeOK'
    BY <2>1 DEF RepInv, TypeOK, Point
  <2>3. SummaryExact' /\ BitsBacked'
    BY <2>1 DEF RepInv, SummaryExact, BitsBacked, BitSet, Clearing
  <2>4. RegisterValid' /\ RemovalValid'
    BY <2>1 DEF RepInv, RegisterValid, RemovalValid, BitSet, Clearing, Point
  <2> QED BY <2>2, <2>3, <2>4 DEF RepInv
<1>3. CASE remove_store_group
  <2>1. /\ at = "store_group" /\ at' = "ret" /\ byte' = {}
        /\ group_run_bits' = group_run_bits \ {g}
        /\ UNCHANGED <<run_list, run_bits, returned, panicked, prio>>
    BY <1>3 DEF remove_store_group, RepInv, RegisterValid
  <2>2. TypeOK'
    BY <2>1 DEF RepInv, TypeOK, Point
  <2>3. SummaryExact' /\ BitsBacked'
    BY <1>1, <2>1 DEF RepInv, SummaryExact, BitsBacked, BitSet, Clearing
  <2>4. RegisterValid' /\ RemovalValid'
    BY <2>1 DEF RepInv, RegisterValid, RemovalValid, BitSet, Clearing, Point
  <2> QED BY <2>2, <2>3, <2>4 DEF RepInv
<1> QED BY <1>2, <1>3

LEMMA RetStep ==
  ASSUME RepInv, remove_ret \/ remove_null
  PROVE  RepInv'
<1>1. prio \in Prio /\ 0 \in Prio
  BY SizeAssumption DEF RepInv, TypeOK, Prio
<1>2. CASE remove_ret
  <2>1. /\ at = "ret" /\ at' = "null"
        /\ returned' = [returned EXCEPT !["task"] = run_list[prio]]
        /\ UNCHANGED <<run_list, run_bits, group_run_bits, panicked, prio, byte>>
    BY <1>2 DEF remove_ret, queue
  <2>2. TypeOK'
    BY <1>1, <2>1 DEF RepInv, TypeOK, Point, Queues
  <2>3. SummaryExact' /\ BitsBacked'
    BY <2>1 DEF RepInv, SummaryExact, BitsBacked, BitSet, Clearing
  <2>4. RegisterValid' /\ RemovalValid'
    BY <2>1 DEF RepInv, RegisterValid, RemovalValid, BitSet, Clearing, Point
  <2> QED BY <2>2, <2>3, <2>4 DEF RepInv
<1>3. CASE remove_null
  <2>1. /\ at = "null" /\ at' = "rest" /\ prio' = 0
        /\ run_list' = [run_list EXCEPT ![prio] = NULL]
        /\ UNCHANGED <<run_bits, group_run_bits, returned, panicked, byte>>
    BY <1>3 DEF remove_null
  <2>2. TypeOK'
    BY <1>1, <2>1 DEF RepInv, TypeOK, Point, Queues
  <2>3. SummaryExact'
    BY <2>1 DEF RepInv, SummaryExact, Clearing
  <2>4. ~BitSet(prio)
    BY <2>1 DEF RepInv, RemovalValid, Point
  <2>5. BitsBacked'
    BY <1>1, <2>1, <2>4 DEF RepInv, TypeOK, Queues, BitsBacked, BitSet
  <2>6. RegisterValid' /\ RemovalValid'
    BY <2>1 DEF RegisterValid, RemovalValid, Clearing
  <2> QED BY <2>2, <2>3, <2>5, <2>6 DEF RepInv
<1> QED BY <1>2, <1>3

LEMMA RepStep ==
  ASSUME RepInv, [Next]_vars, IrqCalls \subseteq HarmlessCalls
  PROVE  RepInv'
<1>1. CASE UNCHANGED vars
  BY <1>1 DEF RepInv, TypeOK, SummaryExact, BitsBacked, RegisterValid, RemovalValid, BitSet,
              Clearing, vars, queue, removal
<1>2. ASSUME NEW p \in Prio, remove_asserts(p), UNCHANGED removal
      PROVE  RepInv'
  BY <1>2 DEF RepInv, TypeOK, SummaryExact, BitsBacked, RegisterValid, RemovalValid, BitSet,
              Clearing, remove_asserts, queue, removal
<1>3. CASE Call
  BY <1>2, <1>3, AddStep, InitStep DEF Call, Undisturbed
<1>4. CASE Remove
  BY <1>4, LoadBitsStep, StoreBitsStep, TestStep, GroupStep, RetStep DEF Remove
<1>5. CASE Interrupt
  BY <1>2, <1>5, AddStep, RemoveStep, HarmlessIsUndisturbed DEF Interrupt
<1> QED BY <1>1, <1>3, <1>4, <1>5 DEF Next

\* The summary byte is exact, every high bit has a task behind it, and what a
\* removal has in its register is still what memory holds, whatever is called
\* in whatever order (run_queue.c:28-32, 106-115).
THEOREM Representation ==
  ASSUME IrqCalls \subseteq HarmlessCalls
  PROVE  Spec => []RepInv
<1>1. RepInv /\ [Next]_vars => RepInv'
  BY RepStep
<1> QED BY RepInit, <1>1, PTL DEF Spec

\* A bit of group_run_bits is set if and only if its group has a task, after
\* any sequence of calls and inside an interrupted removal, but for the group
\* whose bit that removal has still to clear (run_queue.c:85, 109-112).
THEOREM SummaryExactHolds ==
  ASSUME IrqCalls \subseteq HarmlessCalls
  PROVE  Spec => []SummaryExact
<1>1. RepInv => SummaryExact
  BY DEF RepInv
<1> QED BY <1>1, Representation, PTL

\* A byte that is not zero.
LEMMA LowestBit ==
  ASSUME NEW n \in Nat, NEW S \in SUBSET (0 .. n), S # {}
  PROVE  prio_unmap(S) \in S /\ \A x \in S : prio_unmap(S) <= x
  BY MinIsLeast DEF prio_unmap

LEMMA Bounds ==
  /\ \E n \in Nat : Bit \subseteq 0 .. n
  /\ \E n \in Nat : Group \subseteq 0 .. n
<1>1. NUM_RUN_GROUP - 1 \in Nat /\ Bit \subseteq 0 .. NUM_RUN_GROUP - 1
  BY GroupAssumption DEF Bit
<1> DEFINE top == OS_MAX_TASKS \div NUM_RUN_GROUP
<1>2. top \in Nat /\ Group = 0 .. top - 1
  BY GroupCount DEF Group
<1> HIDE DEF top
<1>3. Group \subseteq 0 .. top
  BY <1>2
<1> QED BY <1>1, <1>2, <1>3

LEMMA ZeroGroup == 0 \in Group
<1> DEFINE top == OS_MAX_TASKS \div NUM_RUN_GROUP
<1>1. top \in Nat /\ OS_MAX_TASKS = top * NUM_RUN_GROUP
  BY GroupCount
<1>2. OS_MAX_TASKS # 0 /\ NUM_RUN_GROUP \in Nat
  BY SizeAssumption, GroupAssumption
<1> HIDE DEF top
<1>3. top # 0
  <2> SUFFICES ASSUME top = 0
               PROVE  FALSE
    OBVIOUS
  <2>1. 0 * NUM_RUN_GROUP = 0
    BY <1>2
  <2> QED BY <1>1, <1>2, <2>1
<1> QED BY <1>1, <1>3 DEF top, Group

\* The two table look-ups find the least priority that has a task.
LEMMA LookUpIsLeast == RepInv => HighestIsLeast
<1> SUFFICES ASSUME RepInv, ~Clearing, Occupied(ready) # {}
             PROVE  highest_prio = Min(Occupied(ready))
  BY DEF HighestIsLeast
<1> DEFINE g == prio_unmap(group_run_bits)
           b == prio_unmap(run_bits[g])
           p == g * NUM_RUN_GROUP + b
<1>1. highest_prio = p
  BY DEF highest_prio
<1>2. \A q \in Prio : q \in Occupied(ready) <=> BitSet(q)
  BY DEF Occupied, ready, RepInv, BitsBacked
<1>3. group_run_bits # {}
  <2>1. PICK q \in Prio : BitSet(q)
    BY <1>2 DEF Occupied
  <2>2. GroupOf(q) \in Group /\ run_bits[GroupOf(q)] # {}
    BY <2>1, Position DEF BitSet
  <2> QED BY <2>2 DEF RepInv, SummaryExact
<1>4. p = Min(Occupied(ready))
  <2>1. g \in group_run_bits /\ (\A h \in group_run_bits : g <= h) /\ g \in Group
    <3>1. group_run_bits \subseteq Group
      BY DEF RepInv, TypeOK
    <3>2. PICK n \in Nat : group_run_bits \subseteq 0 .. n
      BY <3>1, Bounds
    <3> QED BY <1>3, <3>1, <3>2, LowestBit
  <2>2. run_bits[g] # {} /\ run_bits[g] \in SUBSET Bit
    BY <2>1 DEF RepInv, TypeOK, SummaryExact
  <2> HIDE DEF g
  <2>3. b \in run_bits[g] /\ (\A c \in run_bits[g] : b <= c) /\ b \in Bit
    <3>1. PICK n \in Nat : run_bits[g] \subseteq 0 .. n
      BY <2>2, Bounds
    <3> QED BY <2>2, <3>1, LowestBit
  <2> HIDE DEF b
  <2>4. p \in Prio /\ GroupOf(p) = g /\ BitOf(p) = b
    BY <2>1, <2>3, Slot
  <2>5. p \in Occupied(ready)
    BY <1>2, <2>3, <2>4 DEF BitSet
  <2>6. ASSUME NEW q \in Occupied(ready)
        PROVE  p <= q
    <3>1. q \in Prio /\ BitOf(q) \in run_bits[GroupOf(q)]
      BY <1>2, <2>6 DEF Occupied, BitSet
    <3>2. /\ GroupOf(q) \in Group /\ BitOf(q) \in Bit
          /\ q = GroupOf(q) * NUM_RUN_GROUP + BitOf(q)
      BY <3>1, Position
    <3>3. GroupOf(q) \in group_run_bits
      BY <3>1, <3>2 DEF RepInv, SummaryExact
    <3>4. g <= GroupOf(q)
      BY <2>1, <3>3
    <3> DEFINE h == GroupOf(q)
               c == BitOf(q)
               n == NUM_RUN_GROUP
    <3>5. g \in Nat /\ h \in Nat /\ n \in Nat /\ c \in 0 .. n - 1 /\ b \in 0 .. n - 1
      BY <2>1, <2>3, <3>2, GroupAssumption DEF Group, Bit
    <3>6. CASE g = h
      <4>1. b <= c
        BY <2>3, <3>1, <3>6
      <4> QED BY <3>2, <3>5, <3>6, <4>1
    <3>7. CASE g < h
      <4>1. g * n + n <= h * n
        BY <3>5, <3>7, Multiples
      <4>2. g * n \in Nat /\ h * n \in Nat
        BY <3>5
      <4> HIDE DEF h, c, n
      <4>3. p = g * n + b /\ q = h * n + c
        BY <3>2 DEF h, c, n
      <4> QED BY <4>1, <4>2, <4>3, <3>5
    <3> QED BY <3>4, <3>5, <3>6, <3>7
  <2>7. OS_MAX_TASKS - 1 \in Nat /\ Occupied(ready) \in SUBSET (0 .. OS_MAX_TASKS - 1)
    BY SizeAssumption DEF Occupied, Prio
  <2>8. /\ Min(Occupied(ready)) \in Occupied(ready)
        /\ \A x \in Occupied(ready) : Min(Occupied(ready)) <= x
    BY <2>5, <2>7, MinIsLeast
  <2>9. Min(Occupied(ready)) = p
    <3>1. Min(Occupied(ready)) <= p /\ p <= Min(Occupied(ready))
      BY <2>5, <2>6, <2>8
    <3>2. p \in Int /\ Min(Occupied(ready)) \in Int
      BY <2>4, <2>7, <2>8 DEF Prio
    <3> QED BY <3>1, <3>2
  <2> QED BY <2>9
<1> QED BY <1>1, <1>4

\* highest_prio returns the least occupied priority, if there is one, whoever
\* asks, an interrupt in a removal included (run_queue.c:124-129).
THEOREM HighestIsLeastHolds ==
  ASSUME IrqCalls \subseteq HarmlessCalls
  PROVE  Spec => []HighestIsLeast
  BY LookUpIsLeast, Representation, PTL

(***************************************************************************)
(* Refinement: `ready' is what the bits and the array represent, and       *)
(* `answered' what the removals have returned or are about to.             *)
(***************************************************************************)
LEMMA RefineInit == Init => Abstract!Init
<1> SUFFICES ASSUME Init
             PROVE  Abstract!Init
  OBVIOUS
<1>1. \A p \in Prio : ~BitSet(p)
  BY Position DEF Init, BitSet
<1>2. answered = [c \in Caller |-> NULL]
  BY DEF Init, answered, Clearing
<1> QED BY <1>1, <1>2 DEF Init, Abstract!Init, Abstract!EmptyQueue, Abstract!Prio, Prio, ready,
                          Abstract!Caller, Caller

\* What a whole call does to the answers: a removal in progress keeps its slot.
LEMMA AnswerKept ==
  ASSUME RepInv, NEW p \in Prio, Undisturbed(p), UNCHANGED removal,
         NEW x, run_list' = [run_list EXCEPT ![p] = x]
  PROVE  /\ UNCHANGED returned => UNCHANGED answered
         /\ \A y : returned' = [returned EXCEPT !["irq"] = y]
                     => answered' = [answered EXCEPT !["irq"] = y]
<1>1. prio \in Prio /\ UNCHANGED <<at, prio>> /\ run_list \in Queues
  BY DEF RepInv, TypeOK, removal
<1>2. ~Clearing /\ ~Clearing'
  BY <1>1 DEF Undisturbed, Clearing
<1>3. CASE at = "ret"
  <2>1. p # prio
    BY <1>3 DEF Undisturbed
  <2>2. run_list'[prio'] = run_list[prio]
    BY <1>1, <2>1 DEF Queues
  <2>3. /\ answered = [returned EXCEPT !["task"] = run_list[prio]]
        /\ answered' = [returned' EXCEPT !["task"] = run_list[prio]]
    BY <1>1, <1>3, <2>2 DEF answered
  <2> QED BY <2>3 DEF RepInv, TypeOK, Caller
<1>4. CASE at # "ret"
  <2>1. answered = returned /\ answered' = returned'
    BY <1>1, <1>2, <1>4 DEF answered
  <2> QED BY <2>1
<1> QED BY <1>3, <1>4

LEMMA RefineAdd ==
  ASSUME RepInv, ~panicked, NEW t \in Tcb, NEW p \in Prio, Undisturbed(p),
         runqueue_add(t, p), UNCHANGED removal
  PROVE  Abstract!Next
<1>1. \A q \in Prio : BitSet(q)' <=> BitSet(q) \/ q = p
  BY AddStep
<1>2. run_list' = [run_list EXCEPT ![p] = t] /\ UNCHANGED <<returned, panicked>>
  BY DEF runqueue_add
<1>3. ready' = Put(ready, t, p)
  BY <1>1, <1>2 DEF ready, Put, RepInv, TypeOK, Queues
<1>4. UNCHANGED answered
  BY <1>2, AnswerKept
<1> QED BY <1>2, <1>3, <1>4
  DEF Abstract!Add, Abstract!Next, Abstract!Put, Put, Abstract!Prio, Prio

LEMMA RefineRemove ==
  ASSUME RepInv, ~panicked, NEW p \in Prio, Undisturbed(p),
         runqueue_remove(p), UNCHANGED removal
  PROVE  Abstract!Next
<1>1. \A q \in Prio : BitSet(q)' <=> BitSet(q) /\ q # p
  BY RemoveStep
<1>2. /\ run_list' = [run_list EXCEPT ![p] = NULL]
      /\ returned' = [returned EXCEPT !["irq"] = run_list[p]]
      /\ UNCHANGED panicked /\ BitSet(p) /\ run_list[p] # NULL
  BY DEF runqueue_remove
<1>3. ready' = Drop(ready, p)
  BY <1>1, <1>2 DEF ready, Drop, RepInv, TypeOK, Queues
<1>4. ready[p] = run_list[p]
  BY <1>2 DEF ready
<1>5. answered' = [answered EXCEPT !["irq"] = ready[p]]
  BY <1>2, <1>4, AnswerKept
<1>6. Abstract!Take("irq", p)
  BY <1>2, <1>3, <1>4, <1>5 DEF Abstract!Take, Abstract!Drop, Drop
<1> QED BY <1>6 DEF Abstract!Next, Abstract!Prio, Prio, Abstract!Caller

LEMMA RefineAsserts ==
  ASSUME RepInv, ~panicked, NEW p \in Prio, remove_asserts(p), UNCHANGED removal
  PROVE  Abstract!Next
<1>1. ready[p] = NULL
  BY DEF ready, remove_asserts
<1>2. panicked' = TRUE /\ UNCHANGED <<ready, answered>>
  BY DEF remove_asserts, ready, BitSet, answered, Clearing, queue, removal
<1> QED BY <1>1, <1>2 DEF Abstract!TakeNothing, Abstract!Next, Abstract!Prio, Prio

\* The removal happens when the byte is stored; before and after it only works.
LEMMA RefineStore ==
  ASSUME RepInv, ~panicked, remove_store_bits
  PROVE  Abstract!Next
<1>1. /\ prio \in Prio /\ BitSet(prio)
      /\ \A q \in Prio : BitSet(q)' <=> BitSet(q) /\ q # prio
  BY StoreBitsStep DEF RepInv, TypeOK
<1>2. /\ at = "store_bits" /\ at' = "test"
      /\ UNCHANGED <<run_list, returned, panicked, prio>>
  BY DEF remove_store_bits
<1>3. ready' = Drop(ready, prio)
  BY <1>1, <1>2 DEF ready, Drop, RepInv, TypeOK, Queues
<1>4. ready[prio] = run_list[prio] /\ run_list[prio] # NULL
  BY <1>1 DEF ready, RepInv, BitsBacked
<1>5. answered' = [answered EXCEPT !["task"] = ready[prio]]
  BY <1>2, <1>4 DEF answered, Clearing
<1>6. Abstract!Take("task", prio)
  BY <1>2, <1>3, <1>4, <1>5 DEF Abstract!Take, Abstract!Drop, Drop
<1> QED BY <1>1, <1>6 DEF Abstract!Next, Abstract!Prio, Prio, Abstract!Caller

LEMMA RefineRest ==
  ASSUME RepInv,
         \/ \E p \in Prio : remove_load_bits(p)
         \/ remove_test \/ remove_load_group \/ remove_store_group
         \/ remove_ret \/ remove_null
  PROVE  UNCHANGED <<ready, answered, panicked>>
<1>1. CASE \E p \in Prio : remove_load_bits(p)
  BY <1>1 DEF remove_load_bits, ready, BitSet, answered, Clearing, queue
<1>2. CASE remove_test
  BY <1>2 DEF remove_test, ready, BitSet, answered, Clearing, queue
<1>3. CASE remove_load_group
  BY <1>3 DEF remove_load_group, ready, BitSet, answered, Clearing, queue
<1>4. CASE remove_store_group
  BY <1>4 DEF remove_store_group, ready, BitSet, answered, Clearing
<1>5. CASE remove_ret
  BY <1>5 DEF remove_ret, ready, BitSet, answered, Clearing, queue
<1>6. CASE remove_null
  <2>1. /\ at = "null" /\ at' = "rest" /\ run_list' = [run_list EXCEPT ![prio] = NULL]
        /\ UNCHANGED <<run_bits, returned, panicked>>
    BY <1>6 DEF remove_null
  <2>2. prio \in Prio /\ run_list \in Queues /\ ~BitSet(prio)
    BY <2>1 DEF RepInv, TypeOK, RemovalValid, Point
  <2>3. UNCHANGED ready
    BY <2>1, <2>2 DEF ready, BitSet, Queues
  <2> QED BY <2>1, <2>3 DEF answered, Clearing
<1> QED BY <1>1, <1>2, <1>3, <1>4, <1>5, <1>6

LEMMA RefineStep ==
  ASSUME RepInv, [Next]_vars, IrqCalls \subseteq HarmlessCalls
  PROVE  [Abstract!Next]_(Abstract!vars)
<1>1. CASE UNCHANGED vars
  BY <1>1 DEF vars, queue, removal, Abstract!vars, ready, BitSet, answered, Clearing
<1>2. CASE ~panicked /\ at = "rest" /\ runqueue_init /\ UNCHANGED removal
  <2>1. \A p \in Prio : ~BitSet(p)'
    BY <1>2, InitStep
  <2>2. UNCHANGED <<answered, panicked>>
    BY <1>2 DEF runqueue_init, removal, answered, Clearing
  <2>3. Abstract!Clear
    BY <2>1, <2>2 DEF Abstract!Clear, Abstract!EmptyQueue, Abstract!Prio, Prio, ready
  <2> QED BY <1>2, <2>3 DEF Abstract!Next
<1>3. CASE ~panicked /\ Call
  BY <1>2, <1>3, RefineAdd, RefineAsserts DEF Call, Undisturbed
<1>4. CASE ~panicked /\ Remove
  BY <1>4, RefineStore, RefineRest DEF Remove, Abstract!vars
<1>5. CASE ~panicked /\ Interrupt
  BY <1>5, RefineAdd, RefineRemove, RefineAsserts, HarmlessIsUndisturbed DEF Interrupt
<1> QED BY <1>1, <1>3, <1>4, <1>5 DEF Next

\* Every sequence of calls has the effect that the abstract queue gives it, and
\* an interrupted removal takes effect at once (run_queue.c:71-118).
THEOREM RefinesHolds ==
  ASSUME IrqCalls \subseteq HarmlessCalls
  PROVE  Spec => Refines
<1>1. RepInv /\ [Next]_vars => [Abstract!Next]_(Abstract!vars)
  BY RefineStep
<1> QED BY RefineInit, <1>1, Representation, PTL DEF Spec, Refines, Abstract!Spec
=============================================================================
