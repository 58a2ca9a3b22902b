------------------------------- MODULE SwiIrq ------------------------------
(***************************************************************************)
(* kernel/asm_handler.S: how a system call and the timer interrupt save    *)
(* and restore the processor's state, as far as the order of their         *)
(* instructions matters.                                                   *)
(*                                                                         *)
(* spsr is SPSR_svc and usr the pair of user mode's sp and lr: one of each *)
(* for all that runs.  What is in the other registers belongs to the code  *)
(* that runs, since the handlers push what they change.  A pc is the line  *)
(* of asm_handler.S that comes next; lines that no order of events can     *)
(* tell apart are taken with the line before.                              *)
(***************************************************************************)
EXTENDS Naturals, Sequences

CONSTANTS Points,      \* the lines before which an interrupt may be taken
          MaxNesting   \* bound: handlers that one task is in at a time

VARIABLES cpsr, spsr,  \* mode and whether interrupts are enabled
          usr,         \* "own" is the sp and lr of the task
          acts         \* what the task's kernel stack holds, newest first

vars == <<cpsr, spsr, usr, acts>>

USER == [mode |-> "usr", irqs |-> TRUE]
SVC == [mode |-> "svc", irqs |-> TRUE]
SVC_OFF == [mode |-> "svc", irqs |-> FALSE]
Psr == {USER, SVC, SVC_OFF}

\* LOST is whatever an interrupt leaves below the top of the stack.
Regs == {"own", "other", "LOST"}

SwiLines == {29, 39, 40, 43, 45, 50, 60}
IrqLines == {108, 114, 116, 117}

\* One call of a handler: the next line, the spsr and the sp and lr it has
\* saved, and the cpsr of what it interrupts.
Activation == [at : SwiLines \union IrqLines, psr : Psr, regs : Regs, from : Psr]

ASSUME SwiIrqAssumption ==
  Points \subseteq {0} \union SwiLines \union IrqLines /\ MaxNesting \in Nat \ {0}

Init ==
  /\ cpsr = USER
  /\ spsr \in Psr
  /\ usr = "own"
  /\ acts = << >>

\* 0 stands for the program.
Line == IF acts = << >> THEN 0 ELSE Head(acts).at

At(line) == Line = line

Top == Head(acts)

\* The handler in progress goes on at the line given.
GoTo(line) == acts' = <<[Top EXCEPT !.at = line]>> \o Tail(acts)

\* The swi instruction, and 14-26 with interrupts disabled by it.
Swi ==
  /\ At(0)
  /\ acts' = <<[at |-> 29, psr |-> SVC_OFF, regs |-> "LOST", from |-> cpsr]>>
  /\ spsr' = cpsr
  /\ cpsr' = SVC
  /\ UNCHANGED usr

\* Fault: SPSR_svc is not pushed.
SaveSpsr_Not ==
  /\ At(29)
  /\ GoTo(39)
  /\ UNCHANGED <<cpsr, spsr, usr>>

SaveSpsr ==
  /\ At(29)
  /\ acts' = <<[Top EXCEPT !.at = 39, !.psr = spsr]>> \o Tail(acts)
  /\ UNCHANGED <<cpsr, spsr, usr>>

\* The store multiple does not move sp ...
SaveUser ==
  /\ At(39)
  /\ acts' = <<[Top EXCEPT !.at = 40, !.regs = usr]>> \o Tail(acts)
  /\ UNCHANGED <<cpsr, spsr, usr>>

\* ... which the next instruction does.
CoverUser ==
  /\ At(40)
  /\ GoTo(43)
  /\ UNCHANGED <<cpsr, spsr, usr>>

\* Other tasks may run before C code returns: they have a system call or
\* an interrupt of their own behind them, and their sp and lr in place.
OthersMayRun == spsr' \in Psr /\ usr' \in {usr, "other"}

swi_dispatch ==
  /\ At(43)
  /\ GoTo(45)
  /\ OthersMayRun
  /\ UNCHANGED cpsr

\* Fault: the banked registers are left as the last task had them.
RestoreUser_Not(line, next) ==
  /\ At(line)
  /\ GoTo(next)
  /\ UNCHANGED <<cpsr, spsr, usr>>

RestoreUser(line, next) ==
  /\ At(line)
  /\ GoTo(next)
  /\ usr' = Top.regs
  /\ UNCHANGED <<cpsr, spsr>>

RestoreSpsr(line, next) ==
  /\ At(line)
  /\ GoTo(next)
  /\ spsr' = Top.psr
  /\ UNCHANGED <<cpsr, usr>>

\* movs pc, lr and ldmfd sp!, {..., pc}^ load cpsr from spsr.
Return(line) ==
  /\ At(line)
  /\ acts' = Tail(acts)
  /\ cpsr' = spsr
  /\ UNCHANGED <<spsr, usr>>

\* Fault: the handler saves the SPSR_svc it finds, not that of the interrupt.
irq_handler_OldSpsr ==
  /\ cpsr.irqs
  /\ Line \in Points
  /\ Len(acts) < MaxNesting
  /\ acts' = <<[at |-> 108, psr |-> spsr, regs |-> usr, from |-> cpsr]>> \o acts
  /\ cpsr' = SVC_OFF
  /\ UNCHANGED <<spsr, usr>>

\* The interrupt and 66-105, interrupts disabled.  spsr becomes the cpsr that
\* was interrupted, and the pushes overwrite what is below sp.
irq_handler ==
  /\ cpsr.irqs
  /\ Line \in Points
  /\ Len(acts) < MaxNesting
  /\ LET below == IF At(40) THEN <<[Top EXCEPT !.regs = "LOST"]>> \o Tail(acts) ELSE acts
     IN  acts' = <<[at |-> 108, psr |-> cpsr, regs |-> usr, from |-> cpsr]>> \o below
  /\ spsr' = cpsr
  /\ cpsr' = SVC_OFF
  /\ UNCHANGED usr

\* dev_update enables interrupts at its end.
C_IRQ_handler ==
  /\ At(108)
  /\ GoTo(114)
  /\ OthersMayRun
  /\ cpsr' = SVC

Next ==
  \/ Swi \/ SaveSpsr \/ SaveUser \/ CoverUser \/ swi_dispatch
  \/ RestoreUser(45, 50) \/ RestoreSpsr(50, 60) \/ Return(60)
  \/ irq_handler \/ C_IRQ_handler
  \/ RestoreUser(114, 116) \/ RestoreSpsr(116, 117) \/ Return(117)

Spec == Init /\ [][Next]_vars

(***************************************************************************)
(* Properties                                                              *)
(***************************************************************************)

\* asm_handler.S:59 and 113: a system call returns to user space, and the
\* program runs in user mode with interrupts enabled.
UserInUserMode == At(0) => cpsr = USER

\* The program finds its own stack pointer and link register, whatever ran
\* in the meantime (39-46, 98-101, 114).
UserKeepsRegisters == At(0) => usr = "own"

\* asm_handler.S:113: what an interrupt interrupted goes on with the cpsr it
\* had.
IrqRestoresCpsr == [][At(117) /\ Len(acts') < Len(acts) => cpsr' = Top.from]_vars
=============================================================================
