------------------------------ MODULE MCSwiIrq -----------------------------
(* Where interrupts are taken in SwiIrq, and the boot that comes before it. *)
EXTENDS SwiIrq, Boot

AllLines == {0} \union SwiLines \union IrqLines

\* Between the load of spsr and its use, and while the saved sp and lr lie
\* below the top of the stack, an interrupt does harm.
SafeLines == AllLines \ {29, 40, 60, 117}

\* The lines of swi_handler between enabling interrupts and saving spsr.
EntryLines == SafeLines \union {29}

ArgLists == {<<>>, <<11>>, <<11, 12>>, <<11, 12, 11>>}
TwoHandlers == [v \in Vectors |-> IF v = "EX_IRQ" THEN 1 ELSE 4]

\* The program's first instruction is the initial state of SwiIrq.
SystemInit == Init /\ BootInit

BootSpec ==
  /\ SystemInit
  /\ [][\/ BootNext /\ UNCHANGED vars
        \/ boot = "main" /\ Leads /\ Next /\ UNCHANGED boot_vars]_<<vars, boot_vars>>
=============================================================================
