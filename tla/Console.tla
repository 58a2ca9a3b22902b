------------------------------- MODULE Console -----------------------------
(***************************************************************************)
(* read_syscall and write_syscall of kernel/syscall/io.c: line editing on  *)
(* a console that all tasks share and that gives a key to whoever asks     *)
(* first.  Interrupts are enabled, so that a task may be preempted after   *)
(* getc has given it a key.                                                *)
(***************************************************************************)
EXTENDS Integers, Sequences, SequencesExt, Addresses

CONSTANTS Tasks, Chars,   \* Chars: the keys that stand for themselves
          FLASH_END_ADDR, RAM_START_ADDR, RAM_END_ADDR,
          MaxCount,       \* bound: bytes asked for
          MaxKeys,        \* bound: keys typed into one call, and one to end it
          MaxScreen       \* bound: characters on the screen when a call asks for any

VARIABLES op,       \* task -> "read", "write", "none"
          count, offset,
          buf,      \* task -> its buffer
          key,      \* task -> what getc gave it, or NONE
          result,   \* task -> what the last call returned, until the next one
          screen,   \* the line on the console
          typed,    \* for the properties: task -> the keys its read has taken,
          before    \* and what was on the screen when it began, or SHARED if
                    \* another task has used the console since

vars == <<op, count, offset, buf, key, result, screen, typed, before>>

NONE == "none"
SHARED == <<NONE>>

EBADF == 9
EFAULT == 14
Editing == {"erase", "eot", "newline"}
Keys == Chars \union Editing

ASSUME ConsoleAssumption ==
  /\ FLASH_END_ADDR \in Address /\ RAM_START_ADDR \in Address /\ RAM_END_ADDR \in Address
  /\ Chars \intersect (Editing \union {NONE}) = {}
  /\ MaxCount \in Nat /\ MaxKeys \in Nat /\ MaxScreen \in Nat

Bytes == Chars \union {"newline"}
Buffer == 0 .. MaxCount - 1

Init ==
  /\ op = [t \in Tasks |-> NONE]
  /\ count = [t \in Tasks |-> 0]
  /\ offset = [t \in Tasks |-> 0]
  /\ \E c \in Chars : buf = [t \in Tasks |-> [n \in Buffer |-> c]]
  /\ key = [t \in Tasks |-> NONE]
  /\ result = [t \in Tasks |-> 0]
  /\ screen = << >>
  /\ typed = [t \in Tasks |-> << >>]
  /\ before = [t \in Tasks |-> SHARED]

\* The address of the last byte; of the one before if there is none.
LastByte(at, n) == (at + n - 1) % MAX

OutsideRam(at, n) == at < RAM_START_ADDR \/ LastByte(at, n) > RAM_END_ADDR

\* The checks of the arguments, in order; fd says whether it is the right one.
ReadError(fd, at, n) ==
  IF ~fd THEN -EBADF ELSE IF OutsideRam(at, n) THEN -EFAULT ELSE 0

WriteError(fd, at, n) ==
  IF OutsideRam(at, n) /\ LastByte(at, n) > FLASH_END_ADDR
  THEN -EFAULT ELSE IF ~fd THEN -EBADF ELSE 0

Begin(t, which, n) ==
  /\ op' = [op EXCEPT ![t] = which]
  /\ count' = [count EXCEPT ![t] = n]
  /\ offset' = [offset EXCEPT ![t] = 0]
  /\ typed' = [typed EXCEPT ![t] = << >>]
  /\ before' = [u \in Tasks |-> IF u = t /\ \A v \in Tasks : op[v] = NONE
                                THEN screen ELSE SHARED]
  /\ result' = [result EXCEPT ![t] = 0]
  /\ UNCHANGED <<buf, key, screen>>

Refuse(t, error) ==
  /\ result' = [result EXCEPT ![t] = error]
  /\ UNCHANGED <<op, count, offset, buf, key, screen, typed, before>>

Counts == 0 .. IF Len(screen) <= MaxScreen THEN MaxCount ELSE 0

Call(t, which, n, error) ==
  /\ op[t] = NONE
  /\ \/ error = 0 /\ Begin(t, which, n)
     \/ error # 0 /\ Refuse(t, error)

read_syscall(t) == \E fd \in BOOLEAN, at \in Address, n \in Counts :
  Call(t, "read", n, ReadError(fd, at, n))

write_syscall(t) == \E fd \in BOOLEAN, at \in Address, n \in Counts :
  Call(t, "write", n, WriteError(fd, at, n))

\* The loop of read_syscall asks for a key while there is room, 43-44.
Getc(t) ==
  /\ op[t] = "read" /\ key[t] = NONE
  /\ offset[t] # count[t]
  /\ \E k \in IF Len(typed[t]) < MaxKeys THEN Keys ELSE {"eot"} :
                     /\ key' = [key EXCEPT ![t] = k]
                     /\ typed' = [typed EXCEPT ![t] = Append(@, k)]
  /\ UNCHANGED <<op, count, offset, buf, result, screen, before>>

\* What the call keeps on its stack is gone.
Return(t) ==
  /\ op' = [op EXCEPT ![t] = NONE]
  /\ result' = [result EXCEPT ![t] = offset[t]]
  /\ count' = [count EXCEPT ![t] = 0]
  /\ offset' = [offset EXCEPT ![t] = 0]
  /\ typed' = [typed EXCEPT ![t] = << >>]
  /\ before' = [before EXCEPT ![t] = SHARED]

GoOn == UNCHANGED <<op, count, result, typed, before>>

Show(k) == screen' = Append(screen, k)

Handled(t) == key' = [key EXCEPT ![t] = NONE]

Eot(t) ==
  /\ key[t] = "eot"
  /\ Handled(t)
  /\ Return(t)
  /\ UNCHANGED <<buf, screen>>

\* Fault: the screen is erased although the line is empty.
Erase_Prompt(t) ==
  /\ key[t] = "erase"
  /\ Handled(t)
  /\ offset' = [offset EXCEPT ![t] = IF @ > 0 THEN @ - 1 ELSE @]
  /\ screen' = IF screen = << >> THEN screen ELSE Front(screen)
  /\ GoOn
  /\ UNCHANGED buf

\* Fault: nothing keeps offset from becoming negative.
Erase_Below(t) ==
  /\ key[t] = "erase"
  /\ Handled(t)
  /\ offset' = [offset EXCEPT ![t] = @ - 1]
  /\ GoOn
  /\ UNCHANGED <<buf, screen>>

\* Backspace and delete, 47-53: back, a blank over the character, and back.
Erase(t) ==
  /\ key[t] = "erase"
  /\ Handled(t)
  /\ IF offset[t] > 0
     THEN /\ offset' = [offset EXCEPT ![t] = @ - 1]
          /\ screen' = IF screen = << >> THEN screen ELSE Front(screen)
     ELSE UNCHANGED <<offset, screen>>
  /\ GoOn
  /\ UNCHANGED buf

\* Fault: the end of the line replaces its last character.
Newline_Over(t) ==
  /\ key[t] = "newline"
  /\ Handled(t)
  /\ buf' = [buf EXCEPT ![t][IF offset[t] > 0 THEN offset[t] - 1 ELSE 0] = "newline"]
  /\ screen' = << >>
  /\ Return(t)

\* The end of the line is stored but not counted, 54-58.
Newline(t) ==
  /\ key[t] = "newline"
  /\ Handled(t)
  /\ buf' = [buf EXCEPT ![t][offset[t]] = "newline"]
  /\ screen' = << >>
  /\ Return(t)

\* Fault: the character is stored where the next one will be.
Char_Off(t) ==
  /\ key[t] \in Chars
  /\ Handled(t)
  /\ buf' = [buf EXCEPT ![t][offset[t] + 1] = key[t]]
  /\ offset' = [offset EXCEPT ![t] = @ + 1]
  /\ Show(key[t])
  /\ GoOn

Char(t) ==
  /\ key[t] \in Chars
  /\ Handled(t)
  /\ buf' = [buf EXCEPT ![t][offset[t]] = key[t]]
  /\ offset' = [offset EXCEPT ![t] = @ + 1]
  /\ Show(key[t])
  /\ GoOn

\* One turn of the loop of write_syscall, 83-85.
Putc(t) ==
  /\ op[t] = "write"
  /\ offset[t] # count[t]
  /\ IF buf[t][offset[t]] = "newline" THEN screen' = << >> ELSE Show(buf[t][offset[t]])
  /\ offset' = [offset EXCEPT ![t] = @ + 1]
  /\ GoOn
  /\ UNCHANGED <<buf, key>>

\* Either call returns when its count is reached, 65 and 86.
Done(t) ==
  /\ op[t] # NONE /\ key[t] = NONE
  /\ offset[t] = count[t]
  /\ Return(t)
  /\ UNCHANGED <<buf, key, screen>>

Next == \E t \in Tasks :
  \/ read_syscall(t) \/ write_syscall(t)
  \/ Getc(t) \/ Eot(t) \/ Erase(t) \/ Newline(t) \/ Char(t)
  \/ Putc(t) \/ Done(t)

Spec == Init /\ [][Next]_vars

(***************************************************************************)
(* Properties                                                              *)
(***************************************************************************)

TypeOK ==
  /\ op \in [Tasks -> {"read", "write", NONE}]
  /\ count \in [Tasks -> 0 .. MaxCount]
  /\ \A t \in Tasks : offset[t] \in 0 .. count[t]
  /\ buf \in [Tasks -> [Buffer -> Bytes]]
  /\ key \in [Tasks -> Keys \union {NONE}]
  /\ result \in [Tasks -> (0 .. MaxCount) \union {-EBADF, -EFAULT}]
  /\ screen \in Seq(Chars)
  /\ typed \in [Tasks -> Seq(Keys)]
  /\ \A t \in Tasks : before[t] = SHARED \/ before[t] \in Seq(Chars)

\* What a user means by a key, and by a sequence of keys.
EditKey(line, k) ==
  IF k \in Chars THEN Append(line, k)
  ELSE IF k = "erase" /\ line # << >> THEN Front(line)
  ELSE line

Edit(keys) ==
  LET line[n \in 0 .. Len(keys)] ==
        IF n = 0 THEN << >> ELSE EditKey(line[n-1], keys[n])
  IN  line[Len(keys)]

\* What the buffer holds so far.
Line(t) == [n \in 1 .. offset[t] |-> buf[t][n-1]]

\* Between two keys the buffer holds the line that the keys mean, however
\* many tasks read at a time (43-63).
BufferIsLine ==
  \A t \in Tasks : op[t] = "read" /\ key[t] = NONE => Line(t) = Edit(typed[t])

\* read_syscall returns the length of the line, and the line is in the
\* buffer with its end after it if there is one (46, 56-58, 65).
ResultIsLine ==
  [][\A t \in Tasks : op[t] = "read" /\ op'[t] = NONE =>
       /\ result'[t] = Len(Edit(typed[t]))
       /\ \A n \in 1 .. result'[t] : buf'[t][n-1] = Edit(typed[t])[n]
       /\ key[t] = "newline" => buf'[t][result'[t]] = "newline"]_vars

\* A task that has had the console to itself shows the line it has read so far
\* after what was there before, and never erases that (47-53, 59-61).
ScreenShowsLine ==
  \A t \in Tasks : op[t] = "read" /\ key[t] = NONE /\ before[t] # SHARED
                     => screen = before[t] \o Line(t)
=============================================================================
