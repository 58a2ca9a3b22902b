---------------------------- MODULE SwiIrqProofs ---------------------------
(***************************************************************************)
(* As long as no interrupt is taken in the four lines at which swi_handler *)
(* and irq_handler depend on SPSR_svc or on what lies below the stack      *)
(* pointer, every system call and every interrupt restores what it found,  *)
(* however deep interrupts nest and whatever runs in the meantime.         *)
(*                                                                         *)
(* The invariant says of each activation on the kernel stack what it has   *)
(* saved (Sound), and of each two neighbours what the older one relies on  *)
(* the younger one to put back (Covers).                                   *)
(*                                                                         *)
(* The second part is about what comes before: when kmain jumps to the     *)
(* program, handlers, tables and arguments are where they are looked for.  *)
(***************************************************************************)
EXTENDS MCSwiIrq, SequenceTheorems, TLAPS

\* Lines before which an interrupt is harmful.
Windows == {29, 40, 60, 117}

Lines == SwiLines \union IrqLines

\* An activation has saved what it will need.
Sound(a) ==
  /\ a \in Activation
  /\ a.at # 29 => a.psr = a.from
  /\ a.at \in {40, 43, 45} => a.regs = "own"

\* What activation a will put back is what b, which it interrupted, had.
Covers(a, b) ==
  /\ a.at \in IrqLines
  /\ a.from = SVC
  /\ b.at \in {39, 43, 45, 50, 114, 116}
  /\ b.at \in {39, 50} => a.regs = "own"
  /\ b.at = 116 => a.regs = b.regs

\* The same for the oldest activation, which the program waits for.
CoversUser(a) == a.from = USER /\ (a.at \in IrqLines => a.regs = "own")

StackOK(s) ==
  /\ s \in Seq(Activation)
  /\ \A k \in 1 .. Len(s) : Sound(s[k])
  /\ \A k \in 1 .. Len(s) - 1 : Covers(s[k], s[k+1])
  /\ Len(s) > 0 => CoversUser(s[Len(s)])

\* What the registers hold while activation a runs.
RegistersOK(a) ==
  /\ cpsr = IF a.at = 108 THEN SVC_OFF ELSE SVC
  /\ a.at \in {29, 60, 117} => spsr = a.from
  /\ a.at \in {29, 39, 50, 60} => usr = "own"
  /\ a.at \in {116, 117} => usr = a.regs

IInv ==
  /\ StackOK(acts)
  /\ spsr \in Psr /\ usr \in Regs
  /\ acts = << >> => cpsr = USER /\ usr = "own"
  /\ acts # << >> => RegistersOK(Head(acts))

-----------------------------------------------------------------------------

\* Replacing the youngest activation by one that covers the same.
LEMMA Replace ==
  ASSUME NEW s, StackOK(s), s # << >>, NEW x, Sound(x), x.from = Head(s).from,
         x.at \in IrqLines <=> Head(s).at \in IrqLines,
         x.at \in IrqLines => x.regs = Head(s).regs
  PROVE  /\ StackOK(<<x>> \o Tail(s))
         /\ <<x>> \o Tail(s) # << >>
         /\ Head(<<x>> \o Tail(s)) = x
<1> DEFINE t == <<x>> \o Tail(s)
<1>1. s \in Seq(Activation) /\ x \in Activation
  BY DEF StackOK, Sound
<1>2. t \in Seq(Activation) /\ Len(t) = Len(s) /\ Len(s) \in Nat \ {0} /\ Head(s) = s[1]
  BY <1>1
<1>3. t[1] = x /\ Head(t) = x
  BY <1>1, <1>2
<1>4. \A k \in 2 .. Len(s) : t[k] = s[k]
  BY <1>1, <1>2
<1>5. \A k \in 1 .. Len(t) : Sound(t[k])
  BY <1>2, <1>3, <1>4 DEF StackOK
<1>6. \A k \in 1 .. Len(t) - 1 : Covers(t[k], t[k+1])
  <2> SUFFICES ASSUME NEW k \in 1 .. Len(t) - 1 PROVE Covers(t[k], t[k+1])
    OBVIOUS
  <2>1. Covers(s[k], s[k+1]) /\ t[k+1] = s[k+1]
    BY <1>2, <1>4 DEF StackOK
  <2>2. CASE k = 1
    BY <1>2, <1>3, <2>1, <2>2 DEF Covers
  <2>3. CASE k # 1
    BY <1>2, <1>4, <2>1, <2>3
  <2> QED BY <2>2, <2>3
<1>7. CoversUser(t[Len(t)])
  <2>1. CoversUser(s[Len(s)])
    BY <1>2 DEF StackOK
  <2>2. CASE Len(s) = 1
    BY <1>2, <1>3, <2>1, <2>2 DEF CoversUser
  <2>3. CASE Len(s) # 1
    BY <1>2, <1>4, <2>1, <2>3
  <2> QED BY <2>2, <2>3
<1>8. t # << >>
  BY <1>2
<1> QED
  BY <1>2, <1>3, <1>5, <1>6, <1>7, <1>8 DEF StackOK

\* A new activation that covers the one it interrupts.
LEMMA Push ==
  ASSUME NEW s, StackOK(s), NEW x, Sound(x),
         s = << >> => CoversUser(x), s # << >> => Covers(x, Head(s))
  PROVE  /\ StackOK(<<x>> \o s)
         /\ <<x>> \o s # << >>
         /\ Head(<<x>> \o s) = x
<1> DEFINE t == <<x>> \o s
<1>1. s \in Seq(Activation) /\ x \in Activation
  BY DEF StackOK, Sound
<1>2. t \in Seq(Activation) /\ Len(t) = Len(s) + 1 /\ Len(s) \in Nat
  BY <1>1
<1>3. t[1] = x /\ Head(t) = x /\ t # << >>
  BY <1>1, <1>2
<1>4. \A k \in 1 .. Len(s) : t[k+1] = s[k]
  BY <1>1, <1>2
<1>5. \A k \in 1 .. Len(t) : Sound(t[k])
  <2> SUFFICES ASSUME NEW k \in 1 .. Len(t) PROVE Sound(t[k])
    OBVIOUS
  <2>1. CASE k = 1
    BY <1>3, <2>1
  <2>2. CASE k # 1
    <3>1. k - 1 \in 1 .. Len(s) /\ (k - 1) + 1 = k
      BY <1>2, <2>2
    <3>2. t[k] = s[k-1]
      BY <1>4, <3>1
    <3> QED BY <3>1, <3>2 DEF StackOK
  <2> QED BY <2>1, <2>2
<1>6. \A k \in 1 .. Len(t) - 1 : Covers(t[k], t[k+1])
  <2> SUFFICES ASSUME NEW k \in 1 .. Len(t) - 1 PROVE Covers(t[k], t[k+1])
    OBVIOUS
  <2>1. k \in 1 .. Len(s) /\ t[k+1] = s[k]
    BY <1>2, <1>4
  <2>2. CASE k = 1
    <3>1. s # << >> /\ Head(s) = s[1]
      BY <1>1, <2>1
    <3> QED BY <1>3, <2>1, <2>2, <3>1
  <2>3. CASE k # 1
    <3>1. k - 1 \in 1 .. Len(s) - 1 /\ (k - 1) + 1 = k
      BY <1>2, <2>1, <2>3
    <3>2. t[k] = s[k-1] /\ Covers(s[k-1], s[(k-1)+1])
      BY <1>2, <1>4, <3>1 DEF StackOK
    <3> QED BY <2>1, <3>1, <3>2
  <2> QED BY <2>2, <2>3
<1>7. CoversUser(t[Len(t)])
  <2>1. CASE Len(s) = 0
    BY <1>1, <1>2, <1>3, <2>1
  <2>2. CASE Len(s) # 0
    <3>1. t[Len(s)+1] = s[Len(s)]
      BY <1>2, <1>4, <2>2
    <3> QED BY <1>2, <2>2, <3>1 DEF StackOK
  <2> QED BY <2>1, <2>2
<1> QED
  BY <1>2, <1>3, <1>5, <1>6, <1>7 DEF StackOK

\* The end of the youngest activation.
LEMMA Pop ==
  ASSUME NEW s, StackOK(s), s # << >>
  PROVE  /\ StackOK(Tail(s))
         /\ Tail(s) = << >> => CoversUser(Head(s))
         /\ Tail(s) # << >> => Covers(Head(s), Head(Tail(s)))
         /\ Len(Tail(s)) < Len(s)
<1> DEFINE t == Tail(s)
<1>1. s \in Seq(Activation)
  BY DEF StackOK
<1>2. t \in Seq(Activation) /\ Len(t) = Len(s) - 1 /\ Len(s) \in Nat \ {0} /\ Head(s) = s[1]
  BY <1>1
<1>3. \A k \in 1 .. Len(t) : t[k] = s[k+1]
  BY <1>1, <1>2
<1>4. \A k \in 1 .. Len(t) : Sound(t[k])
  BY <1>2, <1>3 DEF StackOK
<1>5. \A k \in 1 .. Len(t) - 1 : Covers(t[k], t[k+1])
  <2> SUFFICES ASSUME NEW k \in 1 .. Len(t) - 1 PROVE Covers(t[k], t[k+1])
    OBVIOUS
  <2>1. k + 1 \in 1 .. Len(s) - 1 /\ k \in 1 .. Len(t) /\ k + 1 \in 1 .. Len(t)
    BY <1>2
  <2>2. t[k] = s[k+1] /\ t[k+1] = s[(k+1)+1]
    BY <1>3, <2>1
  <2> QED BY <2>1, <2>2 DEF StackOK
<1>6. Len(t) > 0 => CoversUser(t[Len(t)])
  <2> SUFFICES ASSUME Len(t) > 0 PROVE CoversUser(t[Len(t)])
    OBVIOUS
  <2>1. t[Len(t)] = s[Len(t)+1]
    BY <1>2, <1>3
  <2> QED BY <1>2, <2>1 DEF StackOK
<1>7. t = << >> => CoversUser(Head(s))
  <2> SUFFICES ASSUME t = << >> PROVE CoversUser(Head(s))
    OBVIOUS
  <2>0. Len(<< >>) = 0
    OBVIOUS
  <2>1. Len(t) = 0
    BY <2>0
  <2>2. Len(s) = 1 /\ Head(s) = s[Len(s)]
    BY <1>2, <2>1
  <2> QED BY <2>2 DEF StackOK
<1>8. t # << >> => Covers(Head(s), Head(t))
  <2> SUFFICES ASSUME t # << >> PROVE Covers(Head(s), Head(t))
    OBVIOUS
  <2>1. Len(t) \in Nat \ {0} /\ Head(t) = t[1] /\ t[1] = s[2]
    BY <1>2, <1>3
  <2>2. Covers(s[1], s[1+1])
    BY <1>2, <2>1 DEF StackOK
  <2> QED BY <1>2, <2>1, <2>2
<1>9. StackOK(t)
  BY <1>2, <1>4, <1>5, <1>6 DEF StackOK
<1>10. Len(t) < Len(s)
  BY <1>2
<1> QED
  BY <1>7, <1>8, <1>9, <1>10

-----------------------------------------------------------------------------

\* What the handlers change of an activation when they go on.
LEMMA Moved ==
  ASSUME NEW a \in Activation, NEW line \in Lines
  PROVE  LET b == [a EXCEPT !.at = line]
         IN  /\ b \in Activation
             /\ b.at = line /\ b.psr = a.psr /\ b.regs = a.regs /\ b.from = a.from
  BY DEF Activation, Lines

\* A handler in progress: the facts the steps below start from.
LEMMA InProgress ==
  ASSUME IInv, NEW line \in Lines, At(line)
  PROVE  /\ acts # << >> /\ StackOK(acts)
         /\ Top.at = line
         /\ Sound(Top) /\ Top \in Activation
         /\ RegistersOK(Top)
         /\ spsr \in Psr /\ usr \in Regs
<1>1. acts # << >> /\ Head(acts).at = line
  BY DEF At, Line, Lines, SwiLines, IrqLines
<1>2. StackOK(acts) /\ acts \in Seq(Activation)
  BY DEF IInv, StackOK
<1>3. Len(acts) \in Nat \ {0} /\ Head(acts) = acts[1]
  BY <1>1, <1>2
<1>4. Sound(Head(acts))
  BY <1>2, <1>3 DEF StackOK
<1> QED
  BY <1>1, <1>2, <1>4 DEF IInv, Top, Sound

\* The program runs: nothing is on the kernel stack.
LEMMA InProgram ==
  ASSUME IInv, At(0)
  PROVE  acts = << >> /\ cpsr = USER /\ usr = "own"
<1>1. acts = << >>
  <2> SUFFICES ASSUME acts # << >> PROVE FALSE
    OBVIOUS
  <2>1. Head(acts).at = 0
    BY DEF At, Line
  <2>2. Len(acts) \in Nat \ {0} /\ Head(acts) = acts[1] /\ acts \in Seq(Activation)
    BY DEF IInv, StackOK
  <2>3. acts[1] \in Activation
    BY <2>2
  <2> QED BY <2>1, <2>2, <2>3 DEF Activation, SwiLines, IrqLines
<1> QED BY <1>1 DEF IInv

\* GoTo keeps what the stack says, if the activation is sound at its next line.
LEMMA Going ==
  ASSUME IInv, NEW line \in Lines, At(line), NEW next \in Lines, GoTo(next),
         line \in IrqLines <=> next \in IrqLines,
         next # 29 => Top.psr = Top.from,
         next \in {40, 43, 45} => Top.regs = "own"
  PROVE  /\ StackOK(acts') /\ acts' # << >>
         /\ Head(acts').at = next
         /\ Head(acts').psr = Top.psr
         /\ Head(acts').regs = Top.regs
         /\ Head(acts').from = Top.from
<1> DEFINE x == [Top EXCEPT !.at = next]
<1>1. /\ acts # << >> /\ StackOK(acts)
      /\ Top.at = line /\ Top \in Activation
  BY InProgress
<1>2. /\ x \in Activation
      /\ x.at = next /\ x.psr = Top.psr /\ x.regs = Top.regs /\ x.from = Top.from
  BY <1>1, Moved
<1>3. Sound(x)
  BY <1>2 DEF Sound
<1>4. acts' = <<x>> \o Tail(acts)
  BY DEF GoTo
<1> HIDE DEF x
<1>5. x.from = Head(acts).from /\ x.regs = Head(acts).regs /\ Head(acts).at = line
  BY <1>1, <1>2 DEF Top
<1>6. StackOK(acts') /\ acts' # << >> /\ Head(acts') = x
  BY <1>1, <1>2, <1>3, <1>4, <1>5, Replace
<1> QED
  BY <1>2, <1>6

-----------------------------------------------------------------------------

\* The invariant holds at first and is kept by every step.
LEMMA Inductive ==
  ASSUME Points \intersect Windows = {}
  PROVE  Spec => []IInv
<1>1. Init => IInv
  <2> SUFFICES ASSUME Init PROVE IInv
    OBVIOUS
  <2>1. acts = << >> /\ acts \in Seq(Activation) /\ Len(acts) = 0
    BY DEF Init
  <2>2. StackOK(acts)
    BY <2>1 DEF StackOK
  <2> QED
    BY <2>1, <2>2 DEF Init, IInv, Psr, Regs
<1>2. IInv /\ [Next]_vars => IInv'
  <2> SUFFICES ASSUME IInv, [Next]_vars PROVE IInv'
    OBVIOUS
  <2>1. CASE Swi
    <3> DEFINE x == [at |-> 29, psr |-> SVC_OFF, regs |-> "LOST", from |-> cpsr]
    <3>1. acts = << >> /\ cpsr = USER /\ usr = "own" /\ StackOK(acts)
      BY <2>1, InProgram DEF Swi, IInv
    <3>2. Sound(x) /\ CoversUser(x) /\ x.at = 29
      BY <3>1 DEF Sound, CoversUser, Activation, SwiLines, IrqLines, Psr, Regs, USER, SVC, SVC_OFF
    <3>3. acts' = <<x>> \o acts
      BY <2>1, <3>1 DEF Swi
    <3>4. spsr' = USER /\ cpsr' = SVC /\ usr' = "own" /\ x.from = USER
      BY <2>1, <3>1 DEF Swi
    <3> HIDE DEF x
    <3>5. StackOK(acts') /\ acts' # << >> /\ Head(acts') = x
      BY <3>1, <3>2, <3>3, Push
    <3> QED BY <3>2, <3>4, <3>5 DEF IInv, RegistersOK, Psr, Regs
  <2>2. CASE SaveSpsr
    <3> DEFINE x == [Top EXCEPT !.at = 39, !.psr = spsr]
    <3>1. /\ acts # << >> /\ StackOK(acts) /\ Top.at = 29
          /\ Top \in Activation /\ RegistersOK(Top) /\ spsr \in Psr /\ usr \in Regs
      BY <2>2, InProgress DEF SaveSpsr, Lines, SwiLines
    <3>2. /\ x \in Activation /\ x.at = 39 /\ x.psr = spsr
          /\ x.regs = Top.regs /\ x.from = Top.from
      BY <3>1 DEF Activation, SwiLines
    <3>3. acts' = <<x>> \o Tail(acts) /\ UNCHANGED <<cpsr, spsr, usr>>
      BY <2>2 DEF SaveSpsr
    <3> HIDE DEF x
    <3>4. spsr = Top.from /\ usr = "own" /\ cpsr = SVC
      BY <3>1 DEF RegistersOK
    <3>5. Sound(x) /\ x.from = Head(acts).from /\ Head(acts).at = 29
      BY <3>1, <3>2, <3>4 DEF Sound, Top
    <3>6. StackOK(acts') /\ acts' # << >> /\ Head(acts') = x
      BY <3>1, <3>2, <3>3, <3>5, Replace DEF IrqLines
    <3> QED BY <3>1, <3>2, <3>3, <3>4, <3>6 DEF IInv, RegistersOK
  <2>3. CASE SaveUser
    <3> DEFINE x == [Top EXCEPT !.at = 40, !.regs = usr]
    <3>1. /\ acts # << >> /\ StackOK(acts) /\ Top.at = 39 /\ Sound(Top)
          /\ Top \in Activation /\ RegistersOK(Top) /\ spsr \in Psr /\ usr \in Regs
      BY <2>3, InProgress DEF SaveUser, Lines, SwiLines
    <3>2. /\ x \in Activation /\ x.at = 40 /\ x.psr = Top.psr
          /\ x.regs = usr /\ x.from = Top.from
      BY <3>1 DEF Activation, SwiLines
    <3>3. acts' = <<x>> \o Tail(acts) /\ UNCHANGED <<cpsr, spsr, usr>>
      BY <2>3 DEF SaveUser
    <3> HIDE DEF x
    <3>4. usr = "own" /\ cpsr = SVC
      BY <3>1 DEF RegistersOK
    <3>5. Sound(x) /\ x.from = Head(acts).from /\ Head(acts).at = 39
      BY <3>1, <3>2, <3>4 DEF Sound, Top
    <3>6. StackOK(acts') /\ acts' # << >> /\ Head(acts') = x
      BY <3>1, <3>2, <3>3, <3>5, Replace DEF IrqLines
    <3> QED BY <3>1, <3>2, <3>3, <3>4, <3>6 DEF IInv, RegistersOK
  <2>4. CASE CoverUser
    <3>1. Top.at = 40 /\ Sound(Top) /\ RegistersOK(Top) /\ spsr \in Psr /\ usr \in Regs
      BY <2>4, InProgress DEF CoverUser, Lines, SwiLines
    <3>2. StackOK(acts') /\ acts' # << >> /\ Head(acts').at = 43
      BY <2>4, <3>1, Going DEF CoverUser, Lines, SwiLines, IrqLines, Sound
    <3> QED BY <2>4, <3>1, <3>2 DEF CoverUser, IInv, RegistersOK
  <2>5. CASE swi_dispatch
    <3>1. Top.at = 43 /\ Sound(Top) /\ RegistersOK(Top) /\ spsr \in Psr /\ usr \in Regs
      BY <2>5, InProgress DEF swi_dispatch, Lines, SwiLines
    <3>2. StackOK(acts') /\ acts' # << >> /\ Head(acts').at = 45
      BY <2>5, <3>1, Going DEF swi_dispatch, Lines, SwiLines, IrqLines, Sound
    <3>3. spsr' \in Psr /\ usr' \in Regs /\ cpsr' = SVC
      BY <2>5, <3>1 DEF swi_dispatch, OthersMayRun, Regs, RegistersOK
    <3> QED BY <3>2, <3>3 DEF IInv, RegistersOK
  <2>6. CASE RestoreUser(45, 50)
    <3>1. Top.at = 45 /\ Sound(Top) /\ RegistersOK(Top) /\ spsr \in Psr /\ usr \in Regs
      BY <2>6, InProgress DEF RestoreUser, Lines, SwiLines
    <3>2. StackOK(acts') /\ acts' # << >> /\ Head(acts').at = 50
      BY <2>6, <3>1, Going DEF RestoreUser, Lines, SwiLines, IrqLines, Sound
    <3>3. usr' = "own" /\ spsr' = spsr /\ cpsr' = SVC
      BY <2>6, <3>1 DEF RestoreUser, RegistersOK, Sound
    <3> QED BY <3>1, <3>2, <3>3 DEF IInv, RegistersOK, Regs
  <2>7. CASE RestoreSpsr(50, 60)
    <3>1. Top.at = 50 /\ Sound(Top) /\ Top \in Activation /\ RegistersOK(Top) /\ usr \in Regs
      BY <2>7, InProgress DEF RestoreSpsr, Lines, SwiLines
    <3>2. StackOK(acts') /\ acts' # << >> /\ Head(acts').at = 60 /\ Head(acts').from = Top.from
      BY <2>7, <3>1, Going DEF RestoreSpsr, Lines, SwiLines, IrqLines, Sound
    <3>3. usr' = "own" /\ spsr' = Top.from /\ spsr' \in Psr /\ cpsr' = SVC
      BY <2>7, <3>1 DEF RestoreSpsr, RegistersOK, Sound, Activation
    <3> QED BY <3>2, <3>3 DEF IInv, RegistersOK, Regs
  <2>8. CASE Return(60)
    <3>1. /\ acts # << >> /\ StackOK(acts) /\ Top.at = 60
          /\ RegistersOK(Top) /\ spsr \in Psr
      BY <2>8, InProgress DEF Return, Lines, SwiLines
    <3>2. acts' = Tail(acts) /\ cpsr' = spsr /\ spsr' = spsr /\ usr' = usr
      BY <2>8 DEF Return
    <3>3. spsr = Top.from /\ usr = "own"
      BY <3>1 DEF RegistersOK
    <3>4. StackOK(acts') /\ acts' = << >> /\ Top.from = USER
      BY <3>1, <3>2, Pop DEF Top, Covers, CoversUser, IrqLines
    <3> QED BY <3>1, <3>2, <3>3, <3>4 DEF IInv, Regs
  <2>9. CASE irq_handler
    <3> DEFINE x == [at |-> 108, psr |-> cpsr, regs |-> usr, from |-> cpsr]
    <3>1. spsr' = cpsr /\ cpsr' = SVC_OFF /\ usr' = usr /\ usr \in Regs
      BY <2>9 DEF irq_handler, IInv
    <3>2. CASE acts = << >>
      <4>1. cpsr = USER /\ usr = "own" /\ ~At(40) /\ StackOK(acts)
        BY <3>2 DEF IInv, At, Line
      <4>2. acts' = <<x>> \o acts
        BY <2>9, <4>1 DEF irq_handler
      <4>3. Sound(x) /\ CoversUser(x) /\ x.at = 108
        BY <4>1 DEF Sound, CoversUser, Activation, SwiLines, IrqLines, Psr, Regs, USER, SVC, SVC_OFF
      <4> HIDE DEF x
      <4>4. StackOK(acts') /\ acts' # << >> /\ Head(acts') = x
        BY <3>2, <4>1, <4>2, <4>3, Push
      <4> QED BY <3>1, <4>1, <4>3, <4>4 DEF IInv, RegistersOK, Psr
    <3>3. CASE acts # << >>
      <4>1. Line = Top.at /\ Top.at \notin Windows /\ ~At(40)
        BY <2>9, <3>3 DEF irq_handler, Line, Top, At, Windows
      <4>2. Top.at \in Lines
        <5>1. Len(acts) \in Nat \ {0} /\ Head(acts) = acts[1] /\ acts \in Seq(Activation)
          BY <3>3 DEF IInv, StackOK
        <5>2. acts[1] \in Activation
          BY <5>1
        <5> QED BY <5>1, <5>2 DEF Top, Activation, Lines
      <4>3. StackOK(acts) /\ Sound(Top) /\ RegistersOK(Top)
        BY <4>1, <4>2, InProgress DEF At
      <4>4. cpsr = SVC /\ Top.at # 108
        BY <2>9, <4>3 DEF irq_handler, RegistersOK, SVC_OFF
      <4>5. acts' = <<x>> \o acts
        BY <2>9, <4>1 DEF irq_handler
      <4>6. Sound(x) /\ x.at = 108 /\ x.from = SVC /\ x.regs = usr
        BY <3>1, <4>4 DEF Sound, Activation, SwiLines, IrqLines, Psr, SVC
      <4> HIDE DEF x
      <4>7. Top.at \in {39, 43, 45, 50, 114, 116}
        BY <4>1, <4>2, <4>4 DEF Lines, SwiLines, IrqLines, Windows
      <4>8. Covers(x, Top)
        BY <4>3, <4>6, <4>7 DEF Covers, IrqLines, RegistersOK
      <4>9. StackOK(acts') /\ acts' # << >> /\ Head(acts') = x
        BY <3>3, <4>3, <4>5, <4>6, <4>8, Push DEF Top
      <4> QED BY <3>1, <4>4, <4>6, <4>9 DEF IInv, RegistersOK, Psr
    <3> QED BY <3>2, <3>3
  <2>10. CASE C_IRQ_handler
    <3>1. Top.at = 108 /\ Sound(Top) /\ spsr \in Psr /\ usr \in Regs
      BY <2>10, InProgress DEF C_IRQ_handler, Lines, IrqLines
    <3>2. StackOK(acts') /\ acts' # << >> /\ Head(acts').at = 114
      BY <2>10, <3>1, Going DEF C_IRQ_handler, Lines, SwiLines, IrqLines, Sound
    <3>3. spsr' \in Psr /\ usr' \in Regs /\ cpsr' = SVC
      BY <2>10, <3>1 DEF C_IRQ_handler, OthersMayRun, Regs
    <3> QED BY <3>2, <3>3 DEF IInv, RegistersOK
  <2>11. CASE RestoreUser(114, 116)
    <3>1. Top.at = 114 /\ Sound(Top) /\ Top \in Activation /\ RegistersOK(Top) /\ spsr \in Psr
      BY <2>11, InProgress DEF RestoreUser, Lines, IrqLines
    <3>2. StackOK(acts') /\ acts' # << >> /\ Head(acts').at = 116 /\ Head(acts').regs = Top.regs
      BY <2>11, <3>1, Going DEF RestoreUser, Lines, SwiLines, IrqLines, Sound
    <3>3. usr' = Top.regs /\ usr' \in Regs /\ spsr' = spsr /\ cpsr' = SVC
      BY <2>11, <3>1 DEF RestoreUser, RegistersOK, Activation
    <3> QED BY <3>1, <3>2, <3>3 DEF IInv, RegistersOK
  <2>12. CASE RestoreSpsr(116, 117)
    <3>1. Top.at = 116 /\ Sound(Top) /\ Top \in Activation /\ RegistersOK(Top) /\ usr \in Regs
      BY <2>12, InProgress DEF RestoreSpsr, Lines, IrqLines
    <3>2. /\ StackOK(acts') /\ acts' # << >> /\ Head(acts').at = 117
          /\ Head(acts').from = Top.from /\ Head(acts').regs = Top.regs
      BY <2>12, <3>1, Going DEF RestoreSpsr, Lines, SwiLines, IrqLines, Sound
    <3>3. usr' = Top.regs /\ usr' \in Regs /\ spsr' = Top.from /\ spsr' \in Psr /\ cpsr' = SVC
      BY <2>12, <3>1 DEF RestoreSpsr, RegistersOK, Sound, Activation
    <3> QED BY <3>2, <3>3 DEF IInv, RegistersOK
  <2>13. CASE Return(117)
    <3>1. /\ acts # << >> /\ StackOK(acts) /\ Top.at = 117
          /\ RegistersOK(Top) /\ spsr \in Psr /\ usr \in Regs
      BY <2>13, InProgress DEF Return, Lines, IrqLines
    <3>2. acts' = Tail(acts) /\ cpsr' = spsr /\ spsr' = spsr /\ usr' = usr
      BY <2>13 DEF Return
    <3>3. spsr = Top.from /\ usr = Top.regs
      BY <3>1 DEF RegistersOK
    <3>4. /\ StackOK(acts')
          /\ acts' = << >> => CoversUser(Top)
          /\ acts' # << >> => Covers(Top, Head(acts'))
      BY <3>1, <3>2, Pop DEF Top
    <3>5. acts' = << >> => cpsr' = USER /\ usr' = "own"
      BY <3>1, <3>2, <3>3, <3>4 DEF CoversUser, IrqLines
    <3>6. (acts # << >> => RegistersOK(Head(acts)))'
      <4> SUFFICES ASSUME acts' # << >> PROVE RegistersOK(Head(acts))'
        OBVIOUS
      <4> DEFINE b == Head(acts)
      <4>1. /\ Top.from = SVC /\ b'.at \in {39, 43, 45, 50, 114, 116}
            /\ b'.at \in {39, 50} => Top.regs = "own"
            /\ b'.at = 116 => Top.regs = b'.regs
        BY <3>4 DEF Covers
      <4>2. cpsr' = SVC /\ usr' = Top.regs
        BY <3>2, <3>3, <4>1
      <4> HIDE DEF b
      <4>3. /\ cpsr' = IF b'.at = 108 THEN SVC_OFF ELSE SVC
            /\ b'.at \notin {29, 60, 117}
            /\ b'.at \in {29, 39, 50, 60} => usr' = "own"
            /\ b'.at \in {116, 117} => usr' = b'.regs
        BY <4>1, <4>2
      <4>4. RegistersOK(b)'
        BY <4>3 DEF RegistersOK
      <4> QED BY <4>4 DEF b
    <3> QED BY <3>1, <3>2, <3>4, <3>5, <3>6 DEF IInv
  <2>14. CASE UNCHANGED vars
    BY <2>14 DEF vars, IInv, RegistersOK
  <2> QED
    BY <2>1, <2>2, <2>3, <2>4, <2>5, <2>6, <2>7, <2>8, <2>9, <2>10, <2>11,
       <2>12, <2>13, <2>14 DEF Next
<1> QED
  BY <1>1, <1>2, PTL DEF Spec

-----------------------------------------------------------------------------

\* A system call returns to user mode with interrupts enabled
\* (asm_handler.S:49-60), for any nesting and any number of calls, if no
\* interrupt falls in the windows.
THEOREM UserInUserModeHolds ==
  ASSUME Points \intersect Windows = {}
  PROVE  Spec => []UserInUserMode
<1>1. IInv => UserInUserMode
  BY InProgram DEF UserInUserMode
<1> QED BY <1>1, Inductive, PTL

\* The task finds its own stack pointer and link register after a system call
\* or an interrupt (asm_handler.S:39-46 and 98-114), whatever ran meanwhile.
THEOREM UserKeepsRegistersHolds ==
  ASSUME Points \intersect Windows = {}
  PROVE  Spec => []UserKeepsRegisters
<1>1. IInv => UserKeepsRegisters
  BY InProgram DEF UserKeepsRegisters
<1> QED BY <1>1, Inductive, PTL

\* irq_handler's last instruction (asm_handler.S:117) gives what was
\* interrupted the cpsr it had, in user mode and in the kernel.
THEOREM IrqRestoresCpsrHolds ==
  ASSUME Points \intersect Windows = {}
  PROVE  Spec => IrqRestoresCpsr
<1> DEFINE Restores == At(117) /\ Len(acts') < Len(acts) => cpsr' = Top.from
<1>1. IInv /\ [Next]_vars => [Restores]_vars
  <2> SUFFICES ASSUME IInv, [Next]_vars, At(117), Len(acts') < Len(acts)
               PROVE  cpsr' = Top.from
    OBVIOUS
  <2>1. /\ acts # << >> /\ StackOK(acts) /\ Top.at = 117 /\ RegistersOK(Top)
        /\ Line = 117
    BY InProgress DEF Lines, IrqLines, At
  <2>2. CASE Return(117)
    BY <2>1, <2>2 DEF Return, RegistersOK
  <2>3. CASE irq_handler
    BY <2>1, <2>3 DEF irq_handler, RegistersOK, SVC
  <2>4. CASE UNCHANGED vars
    <3>1. Len(acts) \in Nat /\ acts' = acts
      BY <2>1, <2>4 DEF StackOK, vars
    <3> QED BY <3>1
  <2> QED
    BY <2>1, <2>2, <2>3, <2>4 DEF Next, At, Swi, SaveSpsr, SaveUser, CoverUser,
       swi_dispatch, RestoreUser, RestoreSpsr, Return, C_IRQ_handler
<1> QED BY <1>1, Inductive, PTL DEF Spec, IrqRestoresCpsr

-----------------------------------------------------------------------------

(***************************************************************************)
(* Boot.  Everything is a matter of order, so the invariant (BootInv) says *)
(* what has been done at each line of kmain and of what it calls.          *)
(***************************************************************************)

Lines_of_boot ==
  {"app_startup", "table", "init_interrupt", "init_swi", "init_timer", "mutex_init",
   "switch_user_app", "build_argv", "crt0", "main"}

\* The lines of user mode, and those at which a vector is wired already.
UserLines == {"build_argv", "crt0", "main"}
WiredLines(v) ==
  {"init_timer", "mutex_init", "switch_user_app"} \union UserLines
    \union IF v = "EX_IRQ" THEN {"init_swi"} ELSE {}

\* What app_startup has cleared stays cleared, but for what kmain stores later.
BssInv ==
  /\ bss \in [1 .. bss_end -> Nat] /\ cp \in Nat
  /\ boot = "app_startup" => \A w \in 1 .. bss_end : w < cp => bss[w] = 0
  /\ boot = "table" => \A w \in 1 .. bss_end : bss[w] = 0
  /\ boot \notin {"app_startup", "table"} =>
       /\ bss[global_data] = TABLE
       /\ bss[cur_mutex_num] = 0 /\ bss[pHolding_Tcb] = 0 /\ bss[sleep_queue] = 0
  /\ boot \in {"init_interrupt", "init_swi", "init_timer", "mutex_init"} => bss[bAvailable] = 0
  /\ boot \in {"switch_user_app"} \union UserLines => bss[bAvailable] = TRUE_WORD

\* A handler that is not wired yet is U-Boot's still.
WiringInv ==
  /\ well_formed \in [Vectors -> BOOLEAN]
  /\ code \in [Addresses_of_code -> Nat]
  /\ instruction_backup \in [Vectors -> Seq(Nat)]
  /\ \A v \in Vectors :
       IF boot \in WiredLines(v)
       THEN well_formed[v] => Wired(v)
       ELSE code[handler_at[v]] = UBOOT /\ code[handler_at[v] + 1] = UBOOT

\* The stack of the program while build_argv has the arguments above cp on it.
StackHolds(rest) ==
  /\ ustack \in Seq(Nat) /\ rest \in Nat
  /\ Len(ustack) = rest + 1
  /\ \A k \in 1 .. rest : ustack[k] = argv[Len(argv) - rest + k]
  /\ ustack[rest + 1] = NULL

ArgsInv ==
  /\ argv \in Seq(Nat)
  /\ boot = "build_argv" =>
       cp <= Len(argv) /\ r0 = Len(argv) /\ r1 = argv /\ StackHolds(Len(argv) - cp)
  /\ boot = "crt0" => ustack = <<Len(argv)>> \o argv \o <<NULL>>
  /\ boot = "main" => r0 = Len(argv) /\ r1 = argv \o <<NULL>>

BootInv ==
  /\ boot \in Lines_of_boot
  /\ cpsr_irqs => boot \in UserLines
  /\ BssInv /\ WiringInv /\ ArgsInv
\* Two handlers do not overlap, and both are within U-Boot's code.
LEMMA Apart ==
  /\ handler_at["EX_IRQ"] \in Nat \ {0} /\ handler_at["EX_SWI"] \in Nat \ {0}
  /\ handler_at["EX_IRQ"] + 1 < handler_at["EX_SWI"]
  /\ \A v \in Vectors : handler_at[v] \in Addresses_of_code /\ handler_at[v] + 1 \in Addresses_of_code
BY BootAssumption DEF Vectors, Addresses_of_code

LEMMA BootStarts == BootInit => BootInv
<1> SUFFICES ASSUME BootInit PROVE BootInv
  OBVIOUS
<1>1. BssInv
  BY DEF BootInit, BssInv, JUNK, bss_end, UserLines
<1>2. WiringInv
  <2>1. instruction_backup \in [Vectors -> Seq(Nat)] /\ code \in [Addresses_of_code -> Nat]
    BY DEF BootInit, NULL, UBOOT
  <2>2. \A v \in Vectors : boot \notin WiredLines(v)
    BY DEF BootInit, WiredLines, UserLines
  <2>3. \A v \in Vectors : code[handler_at[v]] = UBOOT /\ code[handler_at[v] + 1] = UBOOT
    BY Apart DEF BootInit
  <2> QED BY <2>1, <2>2, <2>3 DEF WiringInv, BootInit
<1>3. ArgsInv
  BY BootAssumption DEF BootInit, ArgsInv
<1> QED BY <1>1, <1>2, <1>3 DEF BootInit, BootInv, Lines_of_boot

\* wiring_handler at the line of v: its vector is wired, the other is as it was.
LEMMA Wires ==
  ASSUME BootInv, NEW v \in Vectors, wiring_handler(v),
         boot = IF v = "EX_IRQ" THEN "init_interrupt" ELSE "init_swi",
         boot' = IF v = "EX_IRQ" THEN "init_swi" ELSE "init_timer",
         UNCHANGED well_formed
  PROVE  WiringInv'
<1> DEFINE w == IF v = "EX_IRQ" THEN "EX_SWI" ELSE "EX_IRQ"
<1>1. v # w /\ Vectors = {v, w}
  BY DEF Vectors
<1>2. /\ handler_at[v] \in Nat /\ handler_at[w] \in Nat
      /\ handler_at[v] # handler_at[w] /\ handler_at[v] + 1 # handler_at[w]
      /\ handler_at[w] + 1 # handler_at[v]
      /\ handler_at[v] + 1 # handler_at[w] + 1 /\ handler_at[v] # handler_at[v] + 1
      /\ {handler_at[v], handler_at[v] + 1, handler_at[w], handler_at[w] + 1}
           \subseteq Addresses_of_code
  BY Apart DEF Vectors
<1>3. /\ boot \notin WiredLines(v) /\ boot' \in WiredLines(v)
      /\ boot \in WiredLines(w) <=> boot' \in WiredLines(w)
  BY DEF Vectors, WiredLines, UserLines
<1>4. /\ well_formed \in [Vectors -> BOOLEAN] /\ code \in [Addresses_of_code -> Nat]
      /\ instruction_backup \in [Vectors -> Seq(Nat)]
      /\ code[handler_at[v]] = UBOOT /\ code[handler_at[v] + 1] = UBOOT
      /\ IF boot \in WiredLines(w)
         THEN well_formed[w] => Wired(w)
         ELSE code[handler_at[w]] = UBOOT /\ code[handler_at[w] + 1] = UBOOT
  BY <1>1, <1>3 DEF BootInv, WiringInv
<1>5. w \in Vectors
  BY <1>1
<1> HIDE DEF w
<1>6. CASE well_formed[v]
  <2>1. /\ instruction_backup' = [instruction_backup EXCEPT ![v] = <<UBOOT, UBOOT>>]
        /\ code' = [code EXCEPT ![handler_at[v]] = JUMP, ![handler_at[v] + 1] = our_handler[v]]
    BY <1>4, <1>6 DEF wiring_handler
  <2>2. our_handler[v] \in Nat /\ UBOOT \in Nat /\ JUMP \in Nat
    BY DEF our_handler, UBOOT, JUMP
  <2>3. instruction_backup' \in [Vectors -> Seq(Nat)] /\ code' \in [Addresses_of_code -> Nat]
    <3>1. <<UBOOT, UBOOT>> \in Seq(Nat)
      BY <2>2
    <3>2. instruction_backup' \in [Vectors -> Seq(Nat)]
      BY <1>4, <2>1, <3>1
    <3>3. code' \in [Addresses_of_code -> Nat]
      BY <1>4, <2>1, <2>2
    <3> QED BY <3>2, <3>3
  <2>4. Wired(v)'
    BY <1>2, <1>4, <2>1 DEF Wired
  <2>5. /\ code'[handler_at[w]] = code[handler_at[w]]
        /\ code'[handler_at[w] + 1] = code[handler_at[w] + 1]
        /\ instruction_backup'[w] = instruction_backup[w]
    BY <1>1, <1>2, <1>4, <1>5, <2>1
  <2>6. Wired(w)' <=> Wired(w)
    BY <2>5 DEF Wired
  <2>7. \A u \in Vectors :
          IF boot' \in WiredLines(u)
          THEN well_formed'[u] => Wired(u)'
          ELSE code'[handler_at[u]] = UBOOT /\ code'[handler_at[u] + 1] = UBOOT
    BY <1>1, <1>3, <1>4, <2>4, <2>5, <2>6
  <2> QED BY <1>4, <2>3, <2>7 DEF WiringInv, WiredLines
<1>7. CASE ~well_formed[v]
  <2>1. UNCHANGED <<instruction_backup, code>>
    BY <1>4, <1>7 DEF wiring_handler
  <2>2. Wired(w)' <=> Wired(w)
    BY <2>1 DEF Wired
  <2>3. \A u \in Vectors :
          IF boot' \in WiredLines(u)
          THEN well_formed'[u] => Wired(u)'
          ELSE code'[handler_at[u]] = UBOOT /\ code'[handler_at[u] + 1] = UBOOT
    BY <1>1, <1>3, <1>4, <1>7, <2>1, <2>2
  <2> QED BY <1>4, <2>1, <2>3 DEF WiringInv, WiredLines
<1> QED BY <1>4, <1>6, <1>7

\* Nothing else touches the vectors.
LEMMA WiringKept ==
  ASSUME BootInv, UNCHANGED <<well_formed, code, instruction_backup>>,
         \A v \in Vectors : boot \in WiredLines(v) <=> boot' \in WiredLines(v)
  PROVE  WiringInv'
<1>1. \A v \in Vectors : Wired(v)' <=> Wired(v)
  BY DEF Wired
<1> QED BY <1>1 DEF BootInv, WiringInv, WiredLines
\* A sequence with one more element in front.
LEMMA InFront ==
  ASSUME NEW x \in Nat, NEW s \in Seq(Nat)
  PROVE  LET t == <<x>> \o s
         IN  /\ t \in Seq(Nat) /\ Len(t) = 1 + Len(s) /\ t[1] = x
             /\ \A k \in 1 .. Len(s) : t[k + 1] = s[k]
<1>1. <<x>> \in Seq(Nat) /\ Len(<<x>>) = 1
  OBVIOUS
<1> QED BY <1>1, ConcatProperties

\* build_argv, with cp arguments to go: one more, or argc and the end.
LEMMA Builds ==
  ASSUME BootInv, BuildArgv
  PROVE  ArgsInv'
<1>1. /\ argv \in Seq(Nat) /\ argv' = argv /\ Len(argv) \in Nat
      /\ r0 = Len(argv) /\ r1 = argv /\ r0' = r0 /\ r1' = r1
      /\ cp \in Nat /\ cp <= Len(argv)
      /\ StackHolds(Len(argv) - cp)
  BY DEF BootInv, BssInv, ArgsInv, BuildArgv
<1> DEFINE rest == Len(argv) - cp
<1>2. /\ rest \in Nat /\ ustack \in Seq(Nat) /\ Len(ustack) = rest + 1
      /\ \A k \in 1 .. rest : ustack[k] = argv[cp + k]
      /\ ustack[rest + 1] = NULL
  BY <1>1 DEF StackHolds
<1>3. CASE cp > 0
  <2>1. cp' = cp - 1 /\ ustack' = <<argv[cp]>> \o ustack /\ boot' = "build_argv"
    BY <1>1, <1>3 DEF BuildArgv
  <2>2. argv[cp] \in Nat
    BY <1>1, <1>3
  <2>3. /\ ustack' \in Seq(Nat) /\ Len(ustack') = rest + 2
        /\ ustack'[1] = argv[cp]
        /\ \A k \in 1 .. rest + 1 : ustack'[k + 1] = ustack[k]
    <3> HIDE DEF rest
    <3>1. /\ ustack' \in Seq(Nat) /\ Len(ustack') = 1 + Len(ustack)
          /\ ustack'[1] = argv[cp]
          /\ \A k \in 1 .. Len(ustack) : ustack'[k + 1] = ustack[k]
      BY <1>2, <2>1, <2>2, InFront
    <3> QED BY <1>2, <3>1
  <2>4. \A k \in 1 .. rest + 1 : ustack'[k] = argv[cp - 1 + k]
    <3> SUFFICES ASSUME NEW k \in 1 .. rest + 1 PROVE ustack'[k] = argv[cp - 1 + k]
      OBVIOUS
    <3>1. CASE k = 1
      BY <1>1, <2>3, <3>1
    <3>2. CASE k # 1
      <4>1. k - 1 \in 1 .. rest /\ k - 1 + 1 = k /\ cp + (k - 1) = cp - 1 + k
        BY <1>1, <1>2, <3>2
      <4> QED BY <1>2, <2>3, <4>1
    <3> QED BY <3>1, <3>2
  <2>5. ustack'[rest + 2] = NULL
    <3>1. rest + 1 \in 1 .. rest + 1 /\ rest + 1 + 1 = rest + 2
      BY <1>2
    <3> QED BY <1>2, <2>3, <3>1
  <2>6. /\ Len(argv) - cp' = rest + 1 /\ cp' <= Len(argv)
    BY <1>1, <2>1
  <2>7. StackHolds(Len(argv) - cp)'
    <3> HIDE DEF rest
    <3>1. Len(argv') - cp' = rest + 1
      BY <1>1, <2>6
    <3>2. \A k \in 1 .. rest + 1 : ustack'[k] = argv'[Len(argv') - (Len(argv') - cp') + k]
      <4> SUFFICES ASSUME NEW k \in 1 .. rest + 1
                   PROVE  ustack'[k] = argv'[Len(argv') - (Len(argv') - cp') + k]
        OBVIOUS
      <4>1. Len(argv') - (Len(argv') - cp') + k = cp - 1 + k
        BY <1>1, <2>1
      <4>2. ustack'[k] = argv[cp - 1 + k] /\ argv' = argv
        BY <1>1, <2>4
      <4> QED BY <4>1, <4>2, Zenon
    <3>3. Len(ustack') = rest + 1 + 1 /\ rest + 1 \in Nat /\ ustack'[rest + 1 + 1] = NULL
      BY <1>2, <2>3, <2>5
    <3> QED BY <2>3, <3>1, <3>2, <3>3 DEF StackHolds
  <2> QED BY <1>1, <2>1, <2>6, <2>7 DEF ArgsInv
<1>4. CASE ~(cp > 0)
  <2>1. cp = 0 /\ ustack' = <<r0>> \o ustack /\ boot' = "crt0"
    BY <1>1, <1>4 DEF BuildArgv
  <2>2. ustack = argv \o <<NULL>>
    <3>1. argv \o <<NULL>> \in Seq(Nat) /\ Len(argv \o <<NULL>>) = Len(argv) + 1
      BY <1>1 DEF NULL
    <3>2. \A k \in 1 .. Len(argv) + 1 : ustack[k] = (argv \o <<NULL>>)[k]
      BY <1>1, <1>2, <2>1
    <3> HIDE DEF rest
    <3>3. Len(ustack) = Len(argv) + 1
      BY <1>1, <1>2, <2>1 DEF rest
    <3> QED BY <1>2, <3>1, <3>2, <3>3, SeqEqual
  <2>3. ustack' = <<Len(argv)>> \o argv \o <<NULL>>
    BY <1>1, <2>1, <2>2
  <2> QED BY <1>1, <2>1, <2>3 DEF ArgsInv
<1> QED BY <1>3, <1>4

\* _start: argc is popped, and what is left is argv and its NULL.
LEMMA StartsProgram ==
  ASSUME BootInv, crt0_start
  PROVE  ArgsInv'
<1>1. /\ argv \in Seq(Nat) /\ argv' = argv
      /\ ustack = <<Len(argv)>> \o argv \o <<NULL>>
      /\ r0' = Head(ustack) /\ r1' = Tail(ustack) /\ boot' = "main"
  BY DEF BootInv, ArgsInv, crt0_start
<1> DEFINE above == argv \o <<NULL>>
<1>2. above \in Seq(Nat) /\ Len(argv) \in Nat
  BY <1>1 DEF NULL
<1>3. ustack = <<Len(argv)>> \o above
  BY <1>1, <1>2 DEF NULL
<1> HIDE DEF above
<1>4. ustack \in Seq(Nat) /\ ustack # << >> /\ Head(ustack) = Len(argv)
  BY <1>2, <1>3
<1>5. /\ Tail(ustack) \in Seq(Nat) /\ Len(Tail(ustack)) = Len(above)
      /\ \A k \in 1 .. Len(Tail(ustack)) : Tail(ustack)[k] = above[k]
  BY <1>2, <1>3, <1>4
<1>6. Tail(ustack) = above
  BY <1>2, <1>5, SeqEqual
<1> QED BY <1>1, <1>4, <1>6 DEF ArgsInv, above

\* Before the program's stack is set up, its arguments only have to be kept.
LEMMA ArgsKept ==
  ASSUME BootInv, UNCHANGED argv, boot' \notin UserLines
  PROVE  ArgsInv'
BY DEF BootInv, ArgsInv, UserLines
\* The invariant holds at first and is kept by every step.
LEMMA BootKept ==
  ASSUME BootInv, [BootNext]_boot_vars
  PROVE  BootInv'
<1>1. CASE AppStartup
  <2>1. WiringInv' /\ ArgsInv'
    <3>1. \A v \in Vectors : boot \in WiredLines(v) <=> boot' \in WiredLines(v)
      BY <1>1 DEF AppStartup, WiredLines, UserLines
    <3> QED BY <1>1, <3>1, WiringKept, ArgsKept DEF AppStartup, UserLines
  <2>2. BssInv'
    <3>1. CASE cp <= bss_end
      BY <1>1, <3>1 DEF BootInv, BssInv, AppStartup, bss_end, UserLines
    <3>2. CASE ~(cp <= bss_end)
      BY <1>1, <3>2 DEF BootInv, BssInv, AppStartup, bss_end, UserLines
    <3> QED BY <3>1, <3>2
  <2> QED BY <1>1, <2>1, <2>2 DEF BootInv, AppStartup, Lines_of_boot, UserLines
<1>2. CASE SaveTable
  <2>1. WiringInv' /\ ArgsInv'
    <3>1. \A v \in Vectors : boot \in WiredLines(v) <=> boot' \in WiredLines(v)
      BY <1>2 DEF SaveTable, WiredLines, UserLines
    <3> QED BY <1>2, <3>1, WiringKept, ArgsKept DEF SaveTable, UserLines
  <2>2. BssInv'
    BY <1>2 DEF BootInv, BssInv, SaveTable, UserLines, bss_end, TABLE, global_data,
       cur_mutex_num, bAvailable, pHolding_Tcb, sleep_queue
  <2> QED BY <1>2, <2>1, <2>2 DEF BootInv, SaveTable, Lines_of_boot, UserLines
<1>3. CASE InitInterrupt
  <2>1. WiringInv' /\ ArgsInv'
    BY <1>3, Wires, ArgsKept DEF InitInterrupt, Vectors, UserLines
  <2>2. BssInv'
    BY <1>3 DEF BootInv, BssInv, InitInterrupt, UserLines
  <2> QED BY <1>3, <2>1, <2>2 DEF BootInv, InitInterrupt, Lines_of_boot, UserLines
<1>4. CASE InitSwi
  <2>1. WiringInv' /\ ArgsInv'
    BY <1>4, Wires, ArgsKept DEF InitSwi, Vectors, UserLines
  <2>2. BssInv'
    BY <1>4 DEF BootInv, BssInv, InitSwi, UserLines
  <2> QED BY <1>4, <2>1, <2>2 DEF BootInv, InitSwi, Lines_of_boot, UserLines
<1>5. CASE InitTimer
  <2>1. WiringInv' /\ ArgsInv'
    <3>1. \A v \in Vectors : boot \in WiredLines(v) <=> boot' \in WiredLines(v)
      BY <1>5 DEF InitTimer, WiredLines, UserLines
    <3> QED BY <1>5, <3>1, WiringKept, ArgsKept DEF InitTimer, UserLines
  <2>2. BssInv'
    BY <1>5 DEF BootInv, BssInv, InitTimer, UserLines
  <2> QED BY <1>5, <2>1, <2>2 DEF BootInv, InitTimer, Lines_of_boot, UserLines
<1>6. CASE InitMutexes
  <2>1. WiringInv' /\ ArgsInv'
    <3>1. \A v \in Vectors : boot \in WiredLines(v) <=> boot' \in WiredLines(v)
      BY <1>6 DEF InitMutexes, WiredLines, UserLines
    <3> QED BY <1>6, <3>1, WiringKept, ArgsKept DEF InitMutexes, UserLines
  <2>2. BssInv'
    BY <1>6 DEF BootInv, BssInv, InitMutexes, UserLines, bss_end, TRUE_WORD, NULL,
       global_data, cur_mutex_num, bAvailable, pHolding_Tcb, sleep_queue
  <2> QED BY <1>6, <2>1, <2>2 DEF BootInv, InitMutexes, Lines_of_boot, UserLines
<1>7. CASE switch_user_app
  <2>1. WiringInv'
    <3>1. \A v \in Vectors : boot \in WiredLines(v) <=> boot' \in WiredLines(v)
      BY <1>7 DEF switch_user_app, WiredLines, UserLines
    <3> QED BY <1>7, <3>1, WiringKept DEF switch_user_app
  <2>2. argv \in Seq(Nat) /\ Len(argv) \in Nat
    BY DEF BootInv, ArgsInv
  <2>3. BssInv'
    BY <1>7, <2>2 DEF BootInv, BssInv, switch_user_app, UserLines
  <2>4. StackHolds(Len(argv) - cp)'
    BY <1>7, <2>2 DEF switch_user_app, StackHolds, NULL
  <2>5. ArgsInv'
    BY <1>7, <2>2, <2>4 DEF ArgsInv, switch_user_app
  <2> QED BY <1>7, <2>1, <2>3, <2>5 DEF BootInv, switch_user_app, Lines_of_boot, UserLines
<1>8. CASE BuildArgv
  <2>1. WiringInv'
    <3>1. \A v \in Vectors : boot \in WiredLines(v) <=> boot' \in WiredLines(v)
      BY <1>8 DEF BuildArgv, WiredLines, UserLines
    <3> QED BY <1>8, <3>1, WiringKept DEF BuildArgv
  <2>2. BssInv'
    BY <1>8 DEF BootInv, BssInv, BuildArgv, UserLines
  <2> QED
    BY <1>8, <2>1, <2>2, Builds DEF BootInv, BuildArgv, Lines_of_boot, UserLines
<1>9. CASE crt0_start
  <2>1. WiringInv'
    <3>1. \A v \in Vectors : boot \in WiredLines(v) <=> boot' \in WiredLines(v)
      BY <1>9 DEF crt0_start, WiredLines, UserLines
    <3> QED BY <1>9, <3>1, WiringKept DEF crt0_start
  <2>2. BssInv'
    BY <1>9 DEF BootInv, BssInv, crt0_start, UserLines
  <2> QED
    BY <1>9, <2>1, <2>2, StartsProgram DEF BootInv, crt0_start, Lines_of_boot, UserLines
<1>10. CASE UNCHANGED boot_vars
  <2>1. WiringInv'
    BY <1>10, WiringKept DEF boot_vars
  <2> QED
    BY <1>10, <2>1 DEF boot_vars, BootInv, BssInv, ArgsInv, StackHolds
<1> QED
  BY <1>1, <1>2, <1>3, <1>4, <1>5, <1>6, <1>7, <1>8, <1>9, <1>10
     DEF BootNext, TakenByUboot

\* A step of the system is one of the boot or one of the kernel's entry.
LEMMA BootInductive == BootSpec => []BootInv
<1>1. SystemInit => BootInv
  BY BootStarts DEF SystemInit
<1>2. ASSUME BootInv,
             [\/ BootNext /\ UNCHANGED vars
              \/ boot = "main" /\ Leads /\ Next /\ UNCHANGED boot_vars]_<<vars, boot_vars>>
      PROVE  BootInv'
  BY <1>2, BootKept
<1> QED BY <1>1, <1>2, PTL DEF BootSpec

\* main.c:31-38: when kmain goes to the program, which is when interrupts are
\* enabled, the bss is clear but for what was stored since, and every vector
\* that wiring_handler knows leads into the kernel.
THEOREM HandlersInPlaceHolds == BootSpec => []HandlersInPlace
<1>1. BootInv => HandlersInPlace
  <2> SUFFICES ASSUME BootInv, cpsr_irqs PROVE HandlersInPlace
    BY DEF HandlersInPlace
  <2>1. boot \in UserLines
    BY DEF BootInv
  <2>2. \A v \in Vectors : well_formed[v] => Wired(v)
    BY <2>1 DEF BootInv, WiringInv, WiredLines
  <2>3. /\ bss \in [1 .. bss_end -> Nat]
        /\ bss[global_data] = TABLE /\ bss[bAvailable] = TRUE_WORD
        /\ bss[cur_mutex_num] = 0 /\ bss[pHolding_Tcb] = 0 /\ bss[sleep_queue] = 0
    BY <2>1 DEF BootInv, BssInv, UserLines
  <2>4. \A w \in 1 .. bss_end :
          bss[w] = CASE w = global_data -> TABLE [] w = bAvailable -> TRUE_WORD [] OTHER -> 0
    BY <2>3 DEF bss_end, global_data, cur_mutex_num, bAvailable, pHolding_Tcb, sleep_queue
  <2> QED BY <2>2, <2>3, <2>4 DEF HandlersInPlace
<1> QED BY <1>1, BootInductive, PTL

\* kernel_asm.S:44-58 and crt0.S:13-17: whatever the arguments of `go' and
\* however many, main gets their number and all of them in their order.
THEOREM ArgumentsArriveHolds == BootSpec => []ArgumentsArrive
<1>1. BootInv => ArgumentsArrive
  BY DEF BootInv, ArgsInv, ArgumentsArrive
<1> QED BY <1>1, BootInductive, PTL

\* What is proved of the entries and exits holds of the system that has booted:
\* until kmain is done nothing enters swi_handler or irq_handler.
THEOREM BootedSystem == BootSpec => Spec
<1>1. SystemInit => Init
  BY DEF SystemInit
<1>2. ASSUME [\/ BootNext /\ UNCHANGED vars
              \/ boot = "main" /\ Leads /\ Next /\ UNCHANGED boot_vars]_<<vars, boot_vars>>
      PROVE  [Next]_vars
  BY <1>2
<1> QED BY <1>1, <1>2, PTL DEF BootSpec, Spec

=============================================================================
