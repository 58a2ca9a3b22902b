---------------------------- MODULE ConsoleProofs ---------------------------
(***************************************************************************)
(* Theorems about Console for any number of tasks, characters and keys, and *)
(* lines of any length: the buffer of a task that reads holds the line that *)
(* its keys mean, whoever else uses the console.                           *)
(*                                                                         *)
(* The meaning of a sequence of keys is a recursive function.  What makes  *)
(* it one is proved first (Meaning): a sequence of keys means what its     *)
(* last key makes of what the others mean.                                 *)
(***************************************************************************)
EXTENDS Console, MinFacts, SequenceTheorems

(***************************************************************************)
(* The meaning of keys.                                                    *)
(***************************************************************************)

\* g is what the first n keys mean, one after another.
Means(g, keys, n) ==
  g = [i \in 0 .. n |-> IF i = 0 THEN << >> ELSE EditKey(g[i-1], keys[i])]

LEMMA MeaningAt ==
  ASSUME NEW g, NEW keys, NEW n \in Nat, Means(g, keys, n), NEW i \in 0 .. n
  PROVE  g[i] = IF i = 0 THEN << >> ELSE EditKey(g[i-1], keys[i])
  BY DEF Means

\* Such a function exists: one that goes no further than to the last key but
\* one can be continued.
LEMMA MeaningExists ==
  ASSUME NEW keys, NEW n \in Nat
  PROVE  \E g : Means(g, keys, n)
<1> DEFINE Without == {m \in 0 .. n : ~ \E g : Means(g, keys, m)}
<1>1. ASSUME Without # {} PROVE FALSE
  <2>1. Without \in SUBSET (0 .. n)
    OBVIOUS
  <2>2. PICK m \in Without : \A x \in Without : m <= x
    <3> HIDE DEF Without
    <3> QED BY <1>1, <2>1, LeastExists
  <2>3. m \in 0 .. n /\ ~ \E g : Means(g, keys, m)
    OBVIOUS
  <2>4. m # 0
    <3>1. Means([i \in 0 .. 0 |-> << >>], keys, 0)
      BY DEF Means
    <3> QED BY <3>1, <2>3
  <2>5. m - 1 \in 0 .. n /\ m - 1 \notin Without
    BY <2>2, <2>3, <2>4
  <2>6. PICK g : Means(g, keys, m - 1)
    BY <2>5
  <2> DEFINE h == [i \in 0 .. m |-> IF i = m THEN EditKey(g[m-1], keys[m]) ELSE g[i]]
  <2>7. \A i \in 0 .. m : h[i] = IF i = 0 THEN << >> ELSE EditKey(h[i-1], keys[i])
    <3> SUFFICES ASSUME NEW i \in 0 .. m
                 PROVE  h[i] = IF i = 0 THEN << >> ELSE EditKey(h[i-1], keys[i])
      OBVIOUS
    <3>1. CASE i = m
      <4>1. h[i-1] = g[m-1] /\ i # 0
        BY <2>3, <2>4, <3>1
      <4> QED BY <3>1, <4>1
    <3>2. CASE i # m
      <4>1. i \in 0 .. m - 1 /\ h[i] = g[i] /\ (i # 0 => h[i-1] = g[i-1])
        BY <2>3, <3>2
      <4>2. g[i] = IF i = 0 THEN << >> ELSE EditKey(g[i-1], keys[i])
        BY <2>6, <4>1 DEF Means
      <4> QED BY <4>1, <4>2
    <3> QED BY <3>1, <3>2
  <2>8. h = [i \in 0 .. m |-> h[i]]
    OBVIOUS
  <2> HIDE DEF h
  <2>9. Means(h, keys, m)
    BY <2>7, <2>8 DEF Means
  <2> QED BY <2>3, <2>9
<1>2. n \in 0 .. n
  OBVIOUS
<1> QED BY <1>1, <1>2

SameUpTo(keys, more, n) == \A i \in 1 .. n : keys[i] = more[i]

\* It is determined by the keys.
LEMMA MeaningUnique ==
  ASSUME NEW keys, NEW n \in Nat, NEW more, NEW m \in Nat, n <= m,
         SameUpTo(keys, more, n),
         NEW g, Means(g, keys, n), NEW h, Means(h, more, m)
  PROVE  \A i \in 0 .. n : g[i] = h[i]
<1>0. \A i \in 1 .. n : keys[i] = more[i]
  BY DEF SameUpTo
<1> DEFINE Differ == {i \in 0 .. n : g[i] # h[i]}
<1> SUFFICES ASSUME Differ # {} PROVE FALSE
  OBVIOUS
<1>1. Differ \in SUBSET (0 .. n)
  OBVIOUS
<1>2. PICK i \in Differ : \A x \in Differ : i <= x
  <2> HIDE DEF Differ
  <2> QED BY <1>1, LeastExists
<1>3. /\ g[i] = IF i = 0 THEN << >> ELSE EditKey(g[i-1], keys[i])
      /\ h[i] = IF i = 0 THEN << >> ELSE EditKey(h[i-1], more[i])
  BY DEF Means
<1>4. i # 0
  BY <1>3
<1>5. i - 1 \in 0 .. n /\ i - 1 \notin Differ /\ i \in 1 .. n
  BY <1>2, <1>4
<1> QED BY <1>0, <1>3, <1>4, <1>5

\* What a sequence of keys means is what its last key does to what the others
\* mean.
LEMMA Meaning ==
  /\ Edit(<< >>) = << >>
  /\ \A keys \in Seq(Keys), k \in Keys : Edit(Append(keys, k)) = EditKey(Edit(keys), k)
<1>1. ASSUME NEW keys \in Seq(Keys), NEW n, n = Len(keys)
      PROVE  \E g : Means(g, keys, n) /\ Edit(keys) = g[n]
  <2> DEFINE line == CHOOSE g : Means(g, keys, n)
  <2>1. n \in Nat
    BY <1>1
  <2>2. Means(line, keys, n)
    BY <2>1, MeaningExists
  <2>3. Edit(keys) = line[n]
    BY <1>1 DEF Edit, Means
  <2> QED BY <2>2, <2>3
<1>2. Edit(<< >>) = << >>
  <2>1. << >> \in Seq(Keys) /\ Len(<< >>) = 0
    OBVIOUS
  <2>2. PICK g : Means(g, << >>, 0) /\ Edit(<< >>) = g[0]
    BY <1>1, <2>1
  <2> QED BY <2>2 DEF Means
<1>3. ASSUME NEW keys \in Seq(Keys), NEW k \in Keys
      PROVE  Edit(Append(keys, k)) = EditKey(Edit(keys), k)
  <2>0. PICK more, n : more = Append(keys, k) /\ n = Len(keys)
    OBVIOUS
  <2>1. /\ more \in Seq(Keys) /\ Len(more) = n + 1 /\ n \in Nat
        /\ \A i \in 1 .. n : keys[i] = more[i]
        /\ more[n + 1] = k
    BY <2>0
  <2>2. PICK g : Means(g, keys, n) /\ Edit(keys) = g[n]
    BY <1>1, <2>0
  <2>3. PICK h : Means(h, more, n + 1) /\ Edit(more) = h[n + 1]
    BY <1>1, <2>1
  <2>4. h[n + 1] = EditKey(h[n], k)
    <3>1. n + 1 \in 0 .. n + 1 /\ n + 1 # 0 /\ n + 1 - 1 = n
      BY <2>1
    <3>2. h[n + 1] = EditKey(h[n + 1 - 1], more[n + 1])
      BY <2>1, <2>3, <3>1, MeaningAt
    <3> QED BY <2>1, <3>1, <3>2
  <2>5. g[n] = h[n]
    <3>1. n + 1 \in Nat /\ n <= n + 1 /\ n \in 0 .. n
      BY <2>1
    <3>2. \A i \in 0 .. n : g[i] = h[i]
      <4>1. PICK m \in Nat : m = n + 1 /\ n <= m
        BY <2>1
      <4>2. n \in Nat /\ SameUpTo(keys, more, n) /\ Means(g, keys, n)
        BY <2>1, <2>2 DEF SameUpTo
      <4>3. Means(h, more, m)
        BY <2>3, <4>1
      <4> QED BY <4>1, <4>2, <4>3, MeaningUnique
    <3> QED BY <3>1, <3>2
  <2> QED BY <2>0, <2>2, <2>3, <2>4, <2>5
<1> QED BY <1>2, <1>3
(***************************************************************************)
(* The line in a buffer.                                                   *)
(***************************************************************************)
Buffers == [Buffer -> Bytes]

\* The first n bytes, as a line.
LineIn(b, n) == [i \in 1 .. n |-> b[i-1]]

\* They are characters that stand for themselves.
IsLine(b, n) == b \in Buffers /\ n \in 0 .. MaxCount /\ \A i \in 0 .. n - 1 : b[i] \in Chars

LEMMA LineType ==
  ASSUME NEW b, NEW n, IsLine(b, n)
  PROVE  /\ LineIn(b, n) \in Seq(Chars) /\ Len(LineIn(b, n)) = n
         /\ n = 0 => LineIn(b, n) = << >>
<1>1. n \in Nat /\ \A i \in 1 .. n : i - 1 \in 0 .. n - 1
  BY ConsoleAssumption DEF IsLine
<1>2. \A i \in 1 .. n : b[i-1] \in Chars
  BY <1>1 DEF IsLine
<1>3. LineIn(b, n) \in [1 .. n -> Chars]
  BY <1>2 DEF LineIn
<1>4. LineIn(b, n) \in Seq(Chars) /\ Len(LineIn(b, n)) = n
  BY <1>1, <1>3
<1> QED BY <1>4

\* Storing a character behind the line appends it.
LEMMA LineGrows ==
  ASSUME NEW b, NEW n, IsLine(b, n), n < MaxCount, NEW k \in Chars
  PROVE  /\ IsLine([b EXCEPT ![n] = k], n + 1)
         /\ LineIn([b EXCEPT ![n] = k], n + 1) = Append(LineIn(b, n), k)
<1> DEFINE c == [b EXCEPT ![n] = k]
<1>1. n \in Buffer /\ n \in Nat /\ MaxCount \in Nat
  BY ConsoleAssumption DEF Buffer, IsLine
<1>2. c \in Buffers /\ c[n] = k /\ \A i \in Buffer : i # n => c[i] = b[i]
  BY <1>1 DEF Buffers, Bytes, IsLine
<1> HIDE DEF c
<1>3. IsLine(c, n + 1)
  <2> SUFFICES ASSUME NEW i \in 0 .. n PROVE c[i] \in Chars
    BY <1>1, <1>2 DEF IsLine
  <2>1. CASE i = n
    BY <1>2, <2>1
  <2>2. CASE i # n
    <3>1. i \in 0 .. n - 1 /\ i \in Buffer
      BY <1>1, <2>2 DEF Buffer
    <3> QED BY <1>2, <2>2, <3>1 DEF IsLine
  <2> QED BY <2>1, <2>2
<1>4. LineIn(c, n + 1) = Append(LineIn(b, n), k)
  <2>1. /\ LineIn(c, n + 1) \in Seq(Chars) /\ Len(LineIn(c, n + 1)) = n + 1
        /\ LineIn(b, n) \in Seq(Chars) /\ Len(LineIn(b, n)) = n
    BY <1>3, LineType
  <2>2. Append(LineIn(b, n), k) \in Seq(Chars) /\ Len(Append(LineIn(b, n), k)) = n + 1
    BY <2>1
  <2>3. ASSUME NEW i \in 1 .. n + 1 PROVE LineIn(c, n + 1)[i] = Append(LineIn(b, n), k)[i]
    <3>1. LineIn(c, n + 1)[i] = c[i-1]
      BY <2>3 DEF LineIn
    <3>2. CASE i = n + 1
      <4>1. Append(LineIn(b, n), k)[i] = k
        BY <2>1, <3>2
      <4> QED BY <1>1, <1>2, <3>1, <3>2, <4>1
    <3>3. CASE i # n + 1
      <4>1. i \in 1 .. n /\ i - 1 \in Buffer /\ i - 1 # n
        BY <1>1, <3>3 DEF Buffer
      <4>2. Append(LineIn(b, n), k)[i] = LineIn(b, n)[i]
        BY <2>1, <4>1
      <4>3. LineIn(b, n)[i] = b[i-1]
        BY <4>1 DEF LineIn
      <4> QED BY <1>2, <3>1, <4>1, <4>2, <4>3
    <3> QED BY <3>2, <3>3
  <2> QED BY <2>1, <2>2, <2>3, SeqEqual
<1> QED BY <1>3, <1>4 DEF c

LEMMA FrontOf ==
  ASSUME NEW S, NEW s \in Seq(S), NEW n \in Nat, Len(s) = n, n > 0
  PROVE  /\ Front(s) \in Seq(S) /\ Len(Front(s)) = n - 1
         /\ \A i \in 1 .. n - 1 : Front(s)[i] = s[i]
  BY DEF Front

\* Going back by one drops the last character.
LEMMA LineShrinks ==
  ASSUME NEW b, NEW n, IsLine(b, n), n > 0
  PROVE  /\ IsLine(b, n - 1) /\ LineIn(b, n) # << >>
         /\ LineIn(b, n - 1) = Front(LineIn(b, n))
<1>1. IsLine(b, n - 1) /\ n \in Nat
  BY ConsoleAssumption DEF IsLine
<1>2. /\ LineIn(b, n) \in Seq(Chars) /\ Len(LineIn(b, n)) = n
      /\ LineIn(b, n - 1) \in Seq(Chars) /\ Len(LineIn(b, n - 1)) = n - 1
  BY <1>1, LineType
<1>3. /\ Front(LineIn(b, n)) \in Seq(Chars) /\ Len(Front(LineIn(b, n))) = n - 1
      /\ \A i \in 1 .. n - 1 : Front(LineIn(b, n))[i] = LineIn(b, n)[i]
  BY <1>1, <1>2 DEF Front
<1>4. \A i \in 1 .. n - 1 : LineIn(b, n - 1)[i] = LineIn(b, n)[i]
  BY <1>1 DEF LineIn
<1>5. LineIn(b, n - 1) = Front(LineIn(b, n))
  BY <1>2, <1>3, <1>4, SeqEqual
<1> QED BY <1>1, <1>2, <1>5

\* The end of what is on the screen changes as the line does.
LEMMA ScreenGrows ==
  ASSUME NEW s \in Seq(Chars), NEW l \in Seq(Chars), NEW k \in Chars
  PROVE  Append(s \o l, k) = s \o Append(l, k)
<1>1. /\ Append(s \o l, k) \in Seq(Chars) /\ s \o Append(l, k) \in Seq(Chars)
      /\ Len(Append(s \o l, k)) = Len(s \o Append(l, k))
      /\ \A i \in 1 .. Len(Append(s \o l, k)) : Append(s \o l, k)[i] = (s \o Append(l, k))[i]
  OBVIOUS
<1> QED BY <1>1, SeqEqual

LEMMA ScreenShrinks ==
  ASSUME NEW s \in Seq(Chars), NEW l \in Seq(Chars), l # << >>
  PROVE  s \o l # << >> /\ Front(s \o l) = s \o Front(l)
<1>0. PICK m, n : m = Len(s) /\ n = Len(l)
  OBVIOUS
<1>1. /\ m \in Nat /\ n \in Nat /\ n > 0
      /\ s \o l \in Seq(Chars) /\ Len(s \o l) = m + n
  BY <1>0
<1>2. Front(l) \in Seq(Chars) /\ Len(Front(l)) = n - 1
      /\ \A i \in 1 .. n - 1 : Front(l)[i] = l[i]
  BY <1>0, <1>1, FrontOf
<1>3. Front(s \o l) \in Seq(Chars) /\ Len(Front(s \o l)) = m + n - 1
      /\ \A i \in 1 .. m + n - 1 : Front(s \o l)[i] = (s \o l)[i]
  <2>1. PICK whole, k : whole = s \o l /\ k = m + n
    OBVIOUS
  <2>2. whole \in Seq(Chars) /\ k \in Nat /\ Len(whole) = k /\ k > 0
    BY <1>1, <2>1
  <2>3. /\ Front(whole) \in Seq(Chars) /\ Len(Front(whole)) = k - 1
        /\ \A i \in 1 .. k - 1 : Front(whole)[i] = whole[i]
    BY <2>2, FrontOf
  <2>4. k - 1 = m + n - 1
    BY <1>1, <2>1
  <2>5. whole = s \o l
    BY <2>1
  <2> QED BY <2>3, <2>4, <2>5, Zenon
<1> DEFINE f == Front(l)
<1>4. s \o f \in Seq(Chars) /\ Len(s \o f) = m + n - 1
  <2> HIDE DEF f
  <2>1. f \in Seq(Chars) /\ Len(f) = n - 1
    BY <1>2 DEF f
  <2> QED BY <1>0, <1>1, <2>1
<1>5. ASSUME NEW i \in 1 .. m + n - 1
      PROVE  Front(s \o l)[i] = (s \o f)[i]
  <2>1. Front(s \o l)[i] = IF i <= m THEN s[i] ELSE l[i - m]
    BY <1>0, <1>1, <1>3
  <2>2. (s \o f)[i] = IF i <= m THEN s[i] ELSE f[i - m]
    <3> HIDE DEF f
    <3>1. f \in Seq(Chars) /\ Len(f) = n - 1
      BY <1>2 DEF f
    <3> QED BY <1>0, <1>1, <3>1
  <2>3. CASE i <= m
    BY <2>1, <2>2, <2>3
  <2>4. CASE ~(i <= m)
    <3>1. i - m \in 1 .. n - 1
      BY <1>1, <2>4
    <3> QED BY <1>2, <2>1, <2>2, <2>4, <3>1
  <2> QED BY <2>3, <2>4
<1>6. Front(s \o l) = s \o f
  BY <1>3, <1>4, <1>5, SeqEqual
<1> QED BY <1>1, <1>6
(***************************************************************************)
(* The invariant: what a task has read is a line; it is what the keys mean *)
(* that it has dealt with; a task that began when nobody used the console  *)
(* and has it to itself finds its line at the end of the screen.           *)
(***************************************************************************)
Types ==
  /\ op \in [Tasks -> {"read", "write", NONE}]
  /\ count \in [Tasks -> 0 .. MaxCount]
  /\ offset \in [Tasks -> Int]
  /\ \A t \in Tasks : offset[t] \in 0 .. count[t]
  /\ buf \in [Tasks -> Buffers]
  /\ key \in [Tasks -> Keys \union {NONE}]
  /\ result \in [Tasks -> (0 .. MaxCount) \union {-EBADF, -EFAULT}]
  /\ screen \in Seq(Chars)
  /\ typed \in [Tasks -> Seq(Keys)]
  /\ before \in [Tasks -> Seq(Chars \union {NONE})]

\* A key is asked for when there is room for it.
KeyHasRoom(t) == key[t] # NONE => op[t] = "read" /\ offset[t] < count[t]

ReadsLine(t) == op[t] = "read" => IsLine(buf[t], offset[t])

LineIsMeant(t) ==
  op[t] = "read" =>
    Edit(typed[t]) = IF key[t] = NONE THEN LineIn(buf[t], offset[t])
                     ELSE EditKey(LineIn(buf[t], offset[t]), key[t])

Alone(t) ==
  before[t] # SHARED =>
    before[t] \in Seq(Chars) /\ op[t] # NONE /\ \A u \in Tasks \ {t} : op[u] = NONE

LineIsShown(t) ==
  before[t] # SHARED /\ op[t] = "read" => screen = before[t] \o LineIn(buf[t], offset[t])

TaskInv(t) == KeyHasRoom(t) /\ ReadsLine(t) /\ LineIsMeant(t) /\ Alone(t) /\ LineIsShown(t)

ConsoleInv == Types /\ \A t \in Tasks : TaskInv(t)

\* Nothing is said of a task that is in no call.
LEMMA InNoCall ==
  ASSUME NEW t \in Tasks, op'[t] = NONE, key'[t] = NONE, before'[t] = SHARED
  PROVE  TaskInv(t)'
  BY DEF TaskInv, KeyHasRoom, ReadsLine, LineIsMeant, Alone, LineIsShown, NONE

\* A task keeps its own line when another one uses the console.
LEMMA OthersKept ==
  ASSUME ConsoleInv, NEW u \in Tasks,
         op'[u] = op[u], count'[u] = count[u], offset'[u] = offset[u], buf'[u] = buf[u],
         key'[u] = key[u], typed'[u] = typed[u], before'[u] = SHARED
  PROVE  TaskInv(u)'
  BY DEF ConsoleInv, TaskInv, KeyHasRoom, ReadsLine, LineIsMeant, Alone, LineIsShown

\* While a task is in a call no other one has the console to itself.
LEMMA NotAlone ==
  ASSUME ConsoleInv, NEW t \in Tasks, op[t] # NONE, NEW u \in Tasks \ {t}
  PROVE  before[u] = SHARED
  BY DEF ConsoleInv, TaskInv, Alone

LEMMA ConsoleStarts == Init => ConsoleInv
<1> SUFFICES ASSUME Init PROVE ConsoleInv
  OBVIOUS
<1>1. Types
  BY ConsoleAssumption DEF Init, Types, Buffers, Bytes, Keys, SHARED
<1>2. \A t \in Tasks : TaskInv(t)
  BY DEF Init, TaskInv, KeyHasRoom, ReadsLine, LineIsMeant, Alone, LineIsShown, NONE
<1> QED BY <1>1, <1>2 DEF ConsoleInv

\* A call that begins, or is refused.
LEMMA CallKeeps ==
  ASSUME ConsoleInv, NEW t \in Tasks, NEW which \in {"read", "write"}, NEW n \in Counts,
         NEW error \in {0, -EBADF, -EFAULT}, Call(t, which, n, error)
  PROVE  ConsoleInv'
<1>1. n \in 0 .. MaxCount /\ MaxCount \in Nat /\ n \in Int /\ 0 \in 0 .. n
  BY ConsoleAssumption DEF Counts
<1>2. op[t] = NONE /\ key[t] = NONE
  BY DEF Call, ConsoleInv, TaskInv, KeyHasRoom, NONE
<1>3. CASE error = 0 /\ Begin(t, which, n)
  <2>1. /\ op' = [op EXCEPT ![t] = which] /\ count' = [count EXCEPT ![t] = n]
        /\ offset' = [offset EXCEPT ![t] = 0] /\ typed' = [typed EXCEPT ![t] = << >>]
        /\ before' = [u \in Tasks |-> IF u = t /\ \A v \in Tasks : op[v] = NONE
                                      THEN screen ELSE SHARED]
        /\ result' = [result EXCEPT ![t] = 0]
        /\ UNCHANGED <<buf, key, screen>>
    BY <1>3 DEF Begin
  <2>2. screen \in Seq(Chars \union {NONE}) /\ SHARED \in Seq(Chars \union {NONE})
    BY DEF ConsoleInv, Types, SHARED
  <2>3. before' \in [Tasks -> Seq(Chars \union {NONE})]
    BY <2>1, <2>2
  <2>4. Types'
    <3>1. op' \in [Tasks -> {"read", "write", NONE}] /\ count' \in [Tasks -> 0 .. MaxCount]
          /\ offset' \in [Tasks -> Int] /\ typed' \in [Tasks -> Seq(Keys)]
      BY <1>1, <2>1 DEF ConsoleInv, Types
    <3>2. \A u \in Tasks : offset'[u] \in 0 .. count'[u]
      BY <1>1, <2>1 DEF ConsoleInv, Types
    <3>3. result' \in [Tasks -> (0 .. MaxCount) \union {-EBADF, -EFAULT}]
      BY <1>1, <2>1 DEF ConsoleInv, Types
    <3> QED BY <2>1, <2>3, <3>1, <3>2, <3>3 DEF ConsoleInv, Types
  <2>5. \A u \in Tasks \ {t} : TaskInv(u)'
    <3> SUFFICES ASSUME NEW u \in Tasks \ {t} PROVE TaskInv(u)'
      OBVIOUS
    <3>1. /\ op'[u] = op[u] /\ count'[u] = count[u] /\ offset'[u] = offset[u]
          /\ buf'[u] = buf[u] /\ key'[u] = key[u] /\ typed'[u] = typed[u]
          /\ before'[u] = SHARED
      BY <2>1 DEF ConsoleInv, Types
    <3> QED BY <3>1, OthersKept
  <2>6. TaskInv(t)'
    <3>1. /\ op'[t] = which /\ offset'[t] = 0 /\ typed'[t] = << >> /\ key'[t] = NONE
          /\ buf'[t] = buf[t] /\ buf[t] \in Buffers
          /\ before'[t] = SHARED \/ before'[t] = screen
          /\ before'[t] # SHARED => \A v \in Tasks : op[v] = NONE
      BY <1>2, <2>1 DEF ConsoleInv, Types
    <3>2. IsLine(buf[t], 0) /\ LineIn(buf[t], 0) = << >>
      <4>1. IsLine(buf[t], 0)
        BY <1>1, <3>1 DEF IsLine
      <4> QED BY <4>1, LineType
    <3>3. KeyHasRoom(t)' /\ ReadsLine(t)' /\ LineIsMeant(t)'
      BY <3>1, <3>2, Meaning DEF KeyHasRoom, ReadsLine, LineIsMeant
    <3>4. Alone(t)'
      <4>1. \A u \in Tasks \ {t} : op'[u] = op[u]
        BY <2>1 DEF ConsoleInv, Types
      <4>2. screen \in Seq(Chars)
        BY DEF ConsoleInv, Types
      <4> QED BY <3>1, <4>1, <4>2 DEF Alone, NONE
    <3>5. LineIsShown(t)'
      <4>1. screen' = screen /\ screen = screen \o << >>
        BY <2>1 DEF ConsoleInv, Types
      <4> QED BY <3>1, <3>2, <4>1 DEF LineIsShown
    <3> QED BY <3>3, <3>4, <3>5 DEF TaskInv
  <2> QED BY <2>4, <2>5, <2>6 DEF ConsoleInv
<1>4. CASE error # 0 /\ Refuse(t, error)
  <2>1. Types'
    BY <1>4 DEF Refuse, ConsoleInv, Types
  <2>2. \A u \in Tasks : TaskInv(u)'
    BY <1>4 DEF Refuse, ConsoleInv, TaskInv, KeyHasRoom, ReadsLine, LineIsMeant, Alone, LineIsShown
  <2> QED BY <2>1, <2>2 DEF ConsoleInv
<1> QED BY <1>3, <1>4 DEF Call
\* A step of a task in a call changes nothing but its own entries and the screen.
OnlyOf(t) == \A u \in Tasks \ {t} :
  /\ op'[u] = op[u] /\ count'[u] = count[u] /\ offset'[u] = offset[u] /\ buf'[u] = buf[u]
  /\ key'[u] = key[u] /\ typed'[u] = typed[u] /\ before'[u] = before[u]

LEMMA StepKeeps ==
  ASSUME ConsoleInv, NEW t \in Tasks, op[t] # NONE, OnlyOf(t), Types', TaskInv(t)'
  PROVE  ConsoleInv'
<1>1. \A u \in Tasks \ {t} : TaskInv(u)'
  <2> SUFFICES ASSUME NEW u \in Tasks \ {t} PROVE TaskInv(u)'
    OBVIOUS
  <2>1. before[u] = SHARED
    BY NotAlone
  <2> QED BY <2>1, OthersKept DEF OnlyOf
<1> QED BY <1>1 DEF ConsoleInv

\* A key that was given to a task which reads.
LEMMA KeyGiven ==
  ASSUME ConsoleInv, NEW t \in Tasks, key[t] # NONE
  PROVE  /\ op[t] = "read" /\ op[t] # NONE /\ key[t] \in Keys
         /\ offset[t] \in 0 .. MaxCount /\ offset[t] < count[t] /\ offset[t] < MaxCount
         /\ count[t] \in 0 .. MaxCount /\ MaxCount \in Nat
         /\ offset[t] \in Buffer
         /\ IsLine(buf[t], offset[t]) /\ buf[t] \in Buffers
         /\ Edit(typed[t]) = EditKey(LineIn(buf[t], offset[t]), key[t])
<1>1. op[t] = "read" /\ offset[t] < count[t] /\ key[t] \in Keys
  BY DEF ConsoleInv, TaskInv, KeyHasRoom, Types
<1>2. count[t] \in 0 .. MaxCount /\ offset[t] \in 0 .. count[t] /\ buf[t] \in Buffers
  BY DEF ConsoleInv, Types
<1>3. IsLine(buf[t], offset[t]) /\ Edit(typed[t]) = EditKey(LineIn(buf[t], offset[t]), key[t])
  BY <1>1 DEF ConsoleInv, TaskInv, ReadsLine, LineIsMeant
<1> QED BY <1>1, <1>2, <1>3, ConsoleAssumption DEF Buffer, NONE

\* The keys differ.
LEMMA KeysDiffer ==
  /\ "newline" \notin Chars /\ "erase" \notin Chars /\ "eot" \notin Chars /\ NONE \notin Chars
  /\ NONE \notin Keys /\ Chars \subseteq Bytes /\ "newline" \in Bytes
  BY ConsoleAssumption DEF Editing, Keys, Bytes, NONE

\* Whatever a call did last, it leaves nothing to be said of its task.
LEMMA ReturnKeeps ==
  ASSUME ConsoleInv, NEW t \in Tasks, op[t] # NONE, Return(t),
         key' = [key EXCEPT ![t] = NONE],
         buf' \in [Tasks -> Buffers], \A u \in Tasks \ {t} : buf'[u] = buf[u],
         screen' \in Seq(Chars)
  PROVE  ConsoleInv'
<1>1. /\ op' = [op EXCEPT ![t] = NONE] /\ result' = [result EXCEPT ![t] = offset[t]]
      /\ count' = [count EXCEPT ![t] = 0] /\ offset' = [offset EXCEPT ![t] = 0]
      /\ typed' = [typed EXCEPT ![t] = << >>] /\ before' = [before EXCEPT ![t] = SHARED]
  BY DEF Return
<1>2. Types'
  <2>1. SHARED \in Seq(Chars \union {NONE}) /\ offset[t] \in 0 .. MaxCount /\ 0 \in 0 .. MaxCount
        /\ 0 \in 0 .. 0 /\ 0 \in Int /\ << >> \in Seq(Keys)
    BY ConsoleAssumption DEF SHARED, ConsoleInv, Types
  <2>2. /\ op' \in [Tasks -> {"read", "write", NONE}]
        /\ key' \in [Tasks -> Keys \union {NONE}]
        /\ count' \in [Tasks -> 0 .. MaxCount] /\ offset' \in [Tasks -> Int]
        /\ typed' \in [Tasks -> Seq(Keys)]
        /\ before' \in [Tasks -> Seq(Chars \union {NONE})]
        /\ result' \in [Tasks -> (0 .. MaxCount) \union {-EBADF, -EFAULT}]
    BY <1>1, <2>1 DEF ConsoleInv, Types
  <2>3. \A u \in Tasks : offset'[u] \in 0 .. count'[u]
    BY <1>1, <2>1 DEF ConsoleInv, Types
  <2> QED BY <2>2, <2>3 DEF Types
<1>3. OnlyOf(t)
  BY <1>1 DEF OnlyOf, ConsoleInv, Types
<1>4. TaskInv(t)'
  <2>1. op'[t] = NONE /\ key'[t] = NONE /\ before'[t] = SHARED
    BY <1>1 DEF ConsoleInv, Types
  <2> QED BY <2>1, InNoCall
<1> QED BY <1>2, <1>3, <1>4, StepKeeps

LEMMA GetcKeeps ==
  ASSUME ConsoleInv, NEW t \in Tasks, Getc(t)
  PROVE  ConsoleInv'
<1>1. PICK k \in Keys :
        /\ key' = [key EXCEPT ![t] = k]
        /\ typed' = [typed EXCEPT ![t] = Append(@, k)]
  BY DEF Getc, Keys, Editing
<1>2. /\ op[t] = "read" /\ key[t] = NONE /\ offset[t] # count[t]
      /\ UNCHANGED <<op, count, offset, buf, result, screen, before>>
  BY DEF Getc
<1>3. Types'
  BY <1>1, <1>2 DEF ConsoleInv, Types
<1>4. OnlyOf(t)
  BY <1>1, <1>2 DEF OnlyOf, ConsoleInv, Types
<1>5. TaskInv(t)'
  <2>1. /\ key'[t] = k /\ k # NONE /\ typed'[t] = Append(typed[t], k)
        /\ typed[t] \in Seq(Keys) /\ offset[t] < count[t]
    BY <1>1, <1>2, KeysDiffer DEF ConsoleInv, Types
  <2>2. Edit(typed[t]) = LineIn(buf[t], offset[t])
    BY <1>2 DEF ConsoleInv, TaskInv, LineIsMeant
  <2>3. Edit(typed'[t]) = EditKey(LineIn(buf[t], offset[t]), k)
    BY <2>1, <2>2, Meaning
  <2>4. KeyHasRoom(t)' /\ LineIsMeant(t)'
    BY <1>2, <2>1, <2>3 DEF KeyHasRoom, LineIsMeant
  <2>5. ReadsLine(t)' /\ Alone(t)' /\ LineIsShown(t)'
    BY <1>2 DEF ConsoleInv, TaskInv, ReadsLine, Alone, LineIsShown
  <2> QED BY <2>4, <2>5 DEF TaskInv
<1>6. op[t] # NONE
  BY <1>2 DEF NONE
<1> QED BY <1>3, <1>4, <1>5, <1>6, StepKeeps

LEMMA EraseKeeps ==
  ASSUME ConsoleInv, NEW t \in Tasks, Erase(t)
  PROVE  ConsoleInv'
<1>1. /\ key[t] = "erase" /\ key[t] # NONE
      /\ key' = [key EXCEPT ![t] = NONE]
      /\ UNCHANGED <<op, count, result, typed, before, buf>>
  BY DEF Erase, Handled, GoOn, NONE
<1>2. key'[t] = NONE /\ \A u \in Tasks \ {t} : key'[u] = key[u]
  BY <1>1 DEF ConsoleInv, Types
<1> DEFINE l == LineIn(buf[t], offset[t])
<1>3. /\ op[t] = "read" /\ op[t] # NONE /\ IsLine(buf[t], offset[t]) /\ offset[t] \in Nat
      /\ Edit(typed[t]) = EditKey(l, "erase")
      /\ l \in Seq(Chars) /\ (offset[t] = 0 => l = << >>)
  BY <1>1, KeyGiven, LineType
<1>4. EditKey(l, "erase") = IF l # << >> THEN Front(l) ELSE l
  BY KeysDiffer DEF EditKey
<1>5. CASE offset[t] > 0
  <2>1. /\ offset' = [offset EXCEPT ![t] = @ - 1]
        /\ screen' = IF screen = << >> THEN screen ELSE Front(screen)
    BY <1>5 DEF Erase
  <2>2. /\ offset'[t] = offset[t] - 1 /\ offset' \in [Tasks -> Int]
        /\ \A u \in Tasks \ {t} : offset'[u] = offset[u]
    BY <2>1 DEF ConsoleInv, Types
  <2>3. /\ IsLine(buf[t], offset'[t]) /\ l # << >>
        /\ LineIn(buf[t], offset'[t]) = Front(l)
    BY <1>3, <1>5, <2>2, LineShrinks
  <2>4. screen' \in Seq(Chars)
    <3>1. screen \in Seq(Chars)
      BY DEF ConsoleInv, Types
    <3>2. screen # << >> => Front(screen) \in Seq(Chars)
      BY <3>1 DEF Front
    <3> QED BY <2>1, <3>1, <3>2
  <2>5. Types'
    <3>1. \A u \in Tasks : offset'[u] \in 0 .. count'[u]
      <4> SUFFICES ASSUME NEW u \in Tasks PROVE offset'[u] \in 0 .. count'[u]
        OBVIOUS
      <4>1. offset[u] \in 0 .. count[u] /\ count[u] \in Nat /\ count' = count
        BY <1>1, ConsoleAssumption DEF ConsoleInv, Types
      <4>2. CASE u = t
        BY <1>3, <1>5, <2>2, <4>1, <4>2
      <4>3. CASE u # t
        BY <2>2, <4>1, <4>3
      <4> QED BY <4>2, <4>3
    <3>2. key' \in [Tasks -> Keys \union {NONE}]
      BY <1>1 DEF ConsoleInv, Types
    <3> QED BY <1>1, <2>2, <2>4, <3>1, <3>2 DEF ConsoleInv, Types
  <2>6. OnlyOf(t)
    BY <1>1, <1>2, <2>2 DEF OnlyOf
  <2>7. KeyHasRoom(t)' /\ ReadsLine(t)' /\ LineIsMeant(t)'
    BY <1>1, <1>2, <1>3, <1>4, <2>3 DEF KeyHasRoom, ReadsLine, LineIsMeant
  <2>8. Alone(t)'
    BY <1>1 DEF ConsoleInv, TaskInv, Alone
  <2>9. LineIsShown(t)'
    <3> SUFFICES ASSUME before[t] # SHARED PROVE screen' = before[t] \o Front(l)
      BY <1>1, <2>3 DEF LineIsShown
    <3>1. before[t] \in Seq(Chars) /\ screen = before[t] \o l
      BY <1>3 DEF ConsoleInv, TaskInv, Alone, LineIsShown
    <3> HIDE DEF l
    <3>2. before[t] \o l # << >> /\ Front(before[t] \o l) = before[t] \o Front(l)
      BY <1>3, <2>3, <3>1, ScreenShrinks
    <3> QED BY <2>1, <3>1, <3>2
  <2> QED BY <1>3, <2>5, <2>6, <2>7, <2>8, <2>9, StepKeeps DEF TaskInv
<1>6. CASE ~(offset[t] > 0)
  <2>1. UNCHANGED <<offset, screen>> /\ offset[t] = 0
    BY <1>3, <1>6 DEF Erase
  <2>2. Types' /\ OnlyOf(t)
    BY <1>1, <1>2, <2>1 DEF ConsoleInv, Types, OnlyOf
  <2>3. TaskInv(t)'
    BY <1>1, <1>2, <1>3, <1>4, <2>1
       DEF ConsoleInv, TaskInv, KeyHasRoom, ReadsLine, LineIsMeant, Alone, LineIsShown
  <2> QED BY <1>3, <2>2, <2>3, StepKeeps
<1> QED BY <1>5, <1>6
LEMMA CharKeeps ==
  ASSUME ConsoleInv, NEW t \in Tasks, Char(t)
  PROVE  ConsoleInv'
<1> DEFINE k == key[t]
           l == LineIn(buf[t], offset[t])
           n == offset[t]
<1>1. /\ k \in Chars /\ k # NONE
      /\ key' = [key EXCEPT ![t] = NONE]
      /\ buf' = [buf EXCEPT ![t][n] = k]
      /\ offset' = [offset EXCEPT ![t] = @ + 1]
      /\ screen' = Append(screen, k)
      /\ UNCHANGED <<op, count, result, typed, before>>
  BY KeysDiffer DEF Char, Handled, Show, GoOn
<1>2. /\ op[t] = "read" /\ op[t] # NONE /\ n \in Nat /\ n < count[t] /\ n < MaxCount
      /\ count[t] \in Nat
      /\ n \in Buffer /\ IsLine(buf[t], n) /\ buf[t] \in Buffers
      /\ Edit(typed[t]) = EditKey(l, k) /\ l \in Seq(Chars)
  BY <1>1, KeyGiven, LineType
<1>3. EditKey(l, k) = Append(l, k)
  BY <1>1 DEF EditKey
<1>4. /\ key'[t] = NONE /\ buf'[t] = [buf[t] EXCEPT ![n] = k] /\ offset'[t] = n + 1
      /\ \A u \in Tasks \ {t} : key'[u] = key[u] /\ buf'[u] = buf[u] /\ offset'[u] = offset[u]
  BY <1>1 DEF ConsoleInv, Types
<1>5. IsLine(buf'[t], offset'[t]) /\ LineIn(buf'[t], offset'[t]) = Append(l, k)
  <2>1. /\ IsLine([buf[t] EXCEPT ![n] = k], n + 1)
        /\ LineIn([buf[t] EXCEPT ![n] = k], n + 1) = Append(LineIn(buf[t], n), k)
    BY <1>1, <1>2, LineGrows
  <2> QED BY <1>4, <2>1
<1>6. Types'
  <2>1. buf' \in [Tasks -> Buffers]
    <3>1. buf'[t] \in Buffers
      BY <1>5 DEF IsLine
    <3> QED BY <1>1, <1>4, <3>1 DEF ConsoleInv, Types
  <2>2. \A u \in Tasks : offset'[u] \in 0 .. count'[u]
    <3> SUFFICES ASSUME NEW u \in Tasks PROVE offset'[u] \in 0 .. count'[u]
      OBVIOUS
    <3>1. offset[u] \in 0 .. count[u] /\ count' = count
      BY <1>1 DEF ConsoleInv, Types
    <3>2. CASE u = t
      BY <1>2, <1>4, <3>1, <3>2
    <3>3. CASE u # t
      BY <1>4, <3>1, <3>3
    <3> QED BY <3>2, <3>3
  <2>3. offset' \in [Tasks -> Int] /\ key' \in [Tasks -> Keys \union {NONE}]
    BY <1>1 DEF ConsoleInv, Types
  <2>4. screen' \in Seq(Chars)
    BY <1>1 DEF ConsoleInv, Types
  <2> QED BY <1>1, <2>1, <2>2, <2>3, <2>4 DEF ConsoleInv, Types
<1>7. OnlyOf(t)
  BY <1>1, <1>4 DEF OnlyOf
<1>8. KeyHasRoom(t)' /\ ReadsLine(t)' /\ LineIsMeant(t)'
  BY <1>1, <1>2, <1>3, <1>4, <1>5 DEF KeyHasRoom, ReadsLine, LineIsMeant
<1>9. Alone(t)'
  BY <1>1 DEF ConsoleInv, TaskInv, Alone
<1>10. LineIsShown(t)'
  <2> SUFFICES ASSUME before[t] # SHARED PROVE screen' = before[t] \o Append(l, k)
    BY <1>1, <1>5 DEF LineIsShown
  <2>1. before[t] \in Seq(Chars) /\ screen = before[t] \o l
    BY <1>2 DEF ConsoleInv, TaskInv, Alone, LineIsShown
  <2> HIDE DEF l, k
  <2>2. Append(before[t] \o l, k) = before[t] \o Append(l, k)
    BY <1>1, <1>2, <2>1, ScreenGrows
  <2> QED BY <1>1, <2>1, <2>2
<1> QED BY <1>2, <1>6, <1>7, <1>8, <1>9, <1>10, StepKeeps DEF TaskInv

\* A task that writes has no line of its own to show.
LEMMA PutcKeeps ==
  ASSUME ConsoleInv, NEW t \in Tasks, Putc(t)
  PROVE  ConsoleInv'
<1> DEFINE n == offset[t]
<1>1. /\ op[t] = "write" /\ op[t] # NONE /\ n # count[t]
      /\ screen' = IF buf[t][n] = "newline" THEN << >> ELSE Append(screen, buf[t][n])
      /\ offset' = [offset EXCEPT ![t] = @ + 1]
      /\ UNCHANGED <<op, count, result, typed, before, buf, key>>
  BY DEF Putc, Show, GoOn, NONE
<1>2. n \in 0 .. count[t] /\ count[t] \in 0 .. MaxCount /\ MaxCount \in Nat /\ n \in Buffer
  BY <1>1, ConsoleAssumption DEF ConsoleInv, Types, Buffer
<1>3. offset'[t] = n + 1 /\ \A u \in Tasks \ {t} : offset'[u] = offset[u]
  BY <1>1 DEF ConsoleInv, Types
<1>4. Types'
  <2>1. screen' \in Seq(Chars)
    <3>1. buf[t][n] \in Chars \union {"newline"} /\ screen \in Seq(Chars)
      BY <1>2 DEF ConsoleInv, Types, Buffers, Bytes
    <3> QED BY <1>1, <3>1
  <2>2. \A u \in Tasks : offset'[u] \in 0 .. count'[u]
    <3> SUFFICES ASSUME NEW u \in Tasks PROVE offset'[u] \in 0 .. count'[u]
      OBVIOUS
    <3>1. offset[u] \in 0 .. count[u] /\ count' = count
      BY <1>1 DEF ConsoleInv, Types
    <3>2. CASE u = t
      BY <1>1, <1>2, <1>3, <3>1, <3>2
    <3>3. CASE u # t
      BY <1>3, <3>1, <3>3
    <3> QED BY <3>2, <3>3
  <2>3. offset' \in [Tasks -> Int]
    BY <1>1 DEF ConsoleInv, Types
  <2> QED BY <1>1, <2>1, <2>2, <2>3 DEF ConsoleInv, Types
<1>5. OnlyOf(t)
  BY <1>1, <1>3 DEF OnlyOf
<1>6. TaskInv(t)'
  BY <1>1 DEF ConsoleInv, TaskInv, KeyHasRoom, ReadsLine, LineIsMeant, Alone, LineIsShown
<1> QED BY <1>1, <1>4, <1>5, <1>6, StepKeeps

\* The three ways in which a call returns.
LEMMA NewlineKeeps ==
  ASSUME ConsoleInv, NEW t \in Tasks, Newline(t)
  PROVE  ConsoleInv'
<1>1. /\ key[t] # NONE /\ key' = [key EXCEPT ![t] = NONE]
      /\ buf' = [buf EXCEPT ![t][offset[t]] = "newline"]
      /\ screen' \in Seq(Chars) /\ Return(t)
  BY DEF Newline, Handled, NONE
<1>2. op[t] # NONE /\ offset[t] \in Buffer /\ buf[t] \in Buffers
  BY <1>1, KeyGiven
<1>3. [buf[t] EXCEPT ![offset[t]] = "newline"] \in Buffers
  BY <1>2, KeysDiffer DEF Buffers
<1>4. buf' \in [Tasks -> Buffers] /\ \A u \in Tasks \ {t} : buf'[u] = buf[u]
  BY <1>1, <1>3 DEF ConsoleInv, Types
<1> QED BY <1>1, <1>2, <1>4, ReturnKeeps

LEMMA EotKeeps ==
  ASSUME ConsoleInv, NEW t \in Tasks, Eot(t)
  PROVE  ConsoleInv'
<1>1. /\ key[t] # NONE /\ key' = [key EXCEPT ![t] = NONE]
      /\ UNCHANGED <<buf, screen>> /\ Return(t)
  BY DEF Eot, Handled, NONE
<1>2. op[t] # NONE
  BY <1>1, KeyGiven
<1> QED BY <1>1, <1>2, ReturnKeeps DEF ConsoleInv, Types

LEMMA DoneKeeps ==
  ASSUME ConsoleInv, NEW t \in Tasks, Done(t)
  PROVE  ConsoleInv'
<1>1. /\ op[t] # NONE /\ key' = [key EXCEPT ![t] = NONE]
      /\ UNCHANGED <<buf, screen>> /\ Return(t)
  BY DEF Done, ConsoleInv, Types
<1> QED BY <1>1, ReturnKeeps DEF ConsoleInv, Types

LEMMA ConsoleKept == ConsoleInv /\ [Next]_vars => ConsoleInv'
<1> SUFFICES ASSUME ConsoleInv, [Next]_vars PROVE ConsoleInv'
  OBVIOUS
<1>1. CASE UNCHANGED vars
  BY <1>1 DEF vars, ConsoleInv, Types, TaskInv, KeyHasRoom, ReadsLine, LineIsMeant, Alone,
              LineIsShown
<1>2. ASSUME NEW t \in Tasks, read_syscall(t) PROVE ConsoleInv'
  <2>1. PICK fd \in BOOLEAN, at \in Address, n \in Counts :
          Call(t, "read", n, ReadError(fd, at, n))
    BY <1>2 DEF read_syscall
  <2>2. ReadError(fd, at, n) \in {0, -EBADF, -EFAULT}
    BY DEF ReadError
  <2> QED BY <2>1, <2>2, CallKeeps
<1>3. ASSUME NEW t \in Tasks, write_syscall(t) PROVE ConsoleInv'
  <2>1. PICK fd \in BOOLEAN, at \in Address, n \in Counts :
          Call(t, "write", n, WriteError(fd, at, n))
    BY <1>3 DEF write_syscall
  <2>2. WriteError(fd, at, n) \in {0, -EBADF, -EFAULT}
    BY DEF WriteError
  <2> QED BY <2>1, <2>2, CallKeeps
<1> QED
  BY <1>1, <1>2, <1>3, GetcKeeps, EraseKeeps, CharKeeps, PutcKeeps, NewlineKeeps, EotKeeps,
     DoneKeeps DEF Next

LEMMA ConsoleInductive == Spec => []ConsoleInv
BY ConsoleStarts, ConsoleKept, PTL DEF Spec

(***************************************************************************)
(* What follows.                                                           *)
(***************************************************************************)

\* What Line says of a buffer.
LEMMA LineIsLineIn == \A t \in Tasks : Line(t) = LineIn(buf[t], offset[t])
BY DEF Line, LineIn

\* No index of read_syscall or write_syscall (io.c:43-86) leaves the buffer, and
\* no other value of theirs its range.
THEOREM TypeOKHolds == Spec => []TypeOK
<1>1. ConsoleInv => TypeOK
  BY DEF ConsoleInv, Types, TaskInv, Alone, TypeOK, Buffers
<1> QED BY <1>1, ConsoleInductive, PTL

\* Between two keys the buffer of a task that reads is what the keys mean that
\* were given to it (io.c:43-63), whatever other tasks read and write meanwhile.
THEOREM BufferIsLineHolds == Spec => []BufferIsLine
<1>1. ConsoleInv => BufferIsLine
  BY LineIsLineIn DEF ConsoleInv, TaskInv, LineIsMeant, BufferIsLine
<1> QED BY <1>1, ConsoleInductive, PTL

\* A task that had the console to itself finds its line at the end of the
\* screen, after all that was there before (io.c:47-61).
THEOREM ScreenShowsLineHolds == Spec => []ScreenShowsLine
<1>1. ConsoleInv => ScreenShowsLine
  BY LineIsLineIn DEF ConsoleInv, TaskInv, LineIsShown, ScreenShowsLine
<1> QED BY <1>1, ConsoleInductive, PTL
\* read_syscall returns the length of the line that the keys mean, with the line in
\* the buffer and its end behind it if it was ended (io.c:46, 54-58, 65).
THEOREM ResultIsLineHolds == Spec => ResultIsLine
<1> DEFINE Answers(t) ==
             op[t] = "read" /\ op'[t] = NONE =>
               /\ result'[t] = Len(Edit(typed[t]))
               /\ \A n \in 1 .. result'[t] : buf'[t][n-1] = Edit(typed[t])[n]
               /\ key[t] = "newline" => buf'[t][result'[t]] = "newline"
<1>1. ASSUME ConsoleInv, [Next]_vars, NEW t \in Tasks, op[t] = "read", op'[t] = NONE
      PROVE  /\ key[t] \in {NONE, "eot", "newline"}
             /\ result'[t] = offset[t]
             /\ key[t] # "newline" => buf' = buf
             /\ key[t] = "newline" => buf' = [buf EXCEPT ![t][offset[t]] = "newline"]
  <2>1. result \in [Tasks -> (0 .. MaxCount) \union {-EBADF, -EFAULT}]
        /\ op \in [Tasks -> {"read", "write", NONE}]
    BY <1>1 DEF ConsoleInv, Types
  <2>2. ASSUME Return(t) PROVE result'[t] = offset[t]
    BY <2>1, <2>2 DEF Return
  <2>3. UNCHANGED op => FALSE
    BY <1>1 DEF NONE
  <2>4. PICK u \in Tasks :
          \/ read_syscall(u) \/ write_syscall(u)
          \/ Getc(u) \/ Eot(u) \/ Erase(u) \/ Newline(u) \/ Char(u) \/ Putc(u) \/ Done(u)
    BY <1>1, <2>3 DEF Next, vars
  <2>5. ASSUME read_syscall(u) \/ write_syscall(u) PROVE FALSE
    <3>1. op[u] = NONE /\ \E w \in {"read", "write"} : op' = [op EXCEPT ![u] = w] \/ op' = op
      BY <2>5 DEF read_syscall, write_syscall, Call, Begin, Refuse
    <3> QED BY <1>1, <2>1, <3>1 DEF NONE
  <2>6. CASE Getc(u) \/ Erase(u) \/ Char(u) \/ Putc(u)
    BY <2>3, <2>6 DEF Getc, Erase, Char, Putc, GoOn
  <2>7. CASE Eot(u)
    <3>1. u = t
      BY <1>1, <2>1, <2>7 DEF Eot, Return, NONE
    <3> QED BY <2>2, <2>7, <3>1 DEF Eot
  <2>8. CASE Newline(u)
    <3>1. u = t
      BY <1>1, <2>1, <2>8 DEF Newline, Return, NONE
    <3> QED BY <2>2, <2>8, <3>1 DEF Newline
  <2>9. CASE Done(u)
    <3>1. u = t
      BY <1>1, <2>1, <2>9 DEF Done, Return, NONE
    <3> QED BY <2>2, <2>9, <3>1 DEF Done, NONE
  <2> QED BY <2>4, <2>5, <2>6, <2>7, <2>8, <2>9
<1>2. ASSUME ConsoleInv, NEW t \in Tasks, op[t] = "read", key[t] \in {NONE, "eot", "newline"}
      PROVE  /\ Edit(typed[t]) = LineIn(buf[t], offset[t])
             /\ IsLine(buf[t], offset[t])
             /\ key[t] = "newline" => offset[t] \in Buffer
             /\ buf \in [Tasks -> Buffers]
  <2>1. IsLine(buf[t], offset[t])
    BY <1>2 DEF ConsoleInv, TaskInv, ReadsLine
  <2>2. EditKey(LineIn(buf[t], offset[t]), key[t]) = LineIn(buf[t], offset[t])
    BY <1>2, KeysDiffer DEF EditKey, NONE
  <2> QED BY <1>2, <2>1, <2>2, KeyGiven DEF ConsoleInv, TaskInv, LineIsMeant, Types, NONE
<1>3. ASSUME ConsoleInv, [Next]_vars, NEW t \in Tasks PROVE Answers(t)
  <2> SUFFICES ASSUME op[t] = "read", op'[t] = NONE
               PROVE  /\ result'[t] = Len(Edit(typed[t]))
                      /\ \A n \in 1 .. result'[t] : buf'[t][n-1] = Edit(typed[t])[n]
                      /\ key[t] = "newline" => buf'[t][result'[t]] = "newline"
    OBVIOUS
  <2>1. PICK m : m = offset[t] /\ m \in Nat
    BY <1>3 DEF ConsoleInv, Types
  <2>2. Len(Edit(typed[t])) = m /\ Edit(typed[t]) = LineIn(buf[t], m) /\ result'[t] = m
    BY <1>1, <1>2, <1>3, <2>1, LineType
  <2>3. \A n \in 1 .. m : Edit(typed[t])[n] = buf[t][n-1]
    BY <2>2 DEF LineIn
  <2>4. CASE key[t] # "newline"
    BY <1>1, <1>3, <2>2, <2>3, <2>4
  <2>5. CASE key[t] = "newline"
    <3>1. buf' = [buf EXCEPT ![t][m] = "newline"] /\ m \in Buffer /\ buf \in [Tasks -> Buffers]
      BY <1>1, <1>2, <1>3, <2>1, <2>5
    <3>2. buf'[t] = [buf[t] EXCEPT ![m] = "newline"]
      BY <3>1
    <3>3. buf'[t][m] = "newline" /\ \A i \in Buffer : i # m => buf'[t][i] = buf[t][i]
      BY <3>1, <3>2 DEF Buffers
    <3>4. \A n \in 1 .. m : n - 1 \in Buffer /\ n - 1 # m
      BY <2>1, <3>1, ConsoleAssumption DEF Buffer
    <3> QED BY <2>2, <2>3, <3>3, <3>4
  <2> QED BY <2>4, <2>5
<1>4. ConsoleInv /\ [Next]_vars => [\A t \in Tasks : Answers(t)]_vars
  BY <1>3
<1> QED BY <1>4, ConsoleInductive, PTL DEF Spec, ResultIsLine

=============================================================================
