-------------------------------- MODULE Boot --------------------------------
(***************************************************************************)
(* From U-Boot's `go' to the first instruction of main: start.S, kmain of  *)
(* kernel/main.c with what it calls, switch_user_app of kernel_asm.S and   *)
(* the _start of tasks/libc/crt0.S.                                        *)
(*                                                                         *)
(* A kernel handler is wired by overwriting the first two words of the     *)
(* handler that U-Boot's vector leads to.  Of memory there are those       *)
(* words, the kernel's bss with one word for each variable that matters,   *)
(* and the stack of the program, top first.                                *)
(***************************************************************************)
EXTENDS Naturals, Sequences

CONSTANTS Args,        \* what argv may be: addresses of strings
          handler_at   \* vector -> address of U-Boot's handler for it

Vectors == {"EX_IRQ", "EX_SWI"}

VARIABLES
  boot,                \* the next line of kmain or of what it calls
  bss,                 \* static memory, as words
  cp,                  \* index of app_startup
  well_formed,         \* vector -> is it ldr pc, [pc, positive #imm12]?
  code,                \* address -> word of U-Boot's handlers
  uboot_handler_addr,  \* vector -> U-Boot's handler, 0 before
  instruction_backup,  \* vector -> the two words overwritten
  timer,               \* is the match interrupt of the timer unmasked?
  cpsr_irqs,           \* are interrupts enabled?
  argv,                \* the arguments of `go'
  ustack,              \* the program's stack
  r0, r1               \* its first two registers

boot_vars == <<boot, bss, cp, well_formed, code, uboot_handler_addr,
               instruction_backup, timer, cpsr_irqs, argv, ustack, r0, r1>>

\* Words, apart from the arguments.
NULL == 0
JUNK == 90
UBOOT == 91            \* an instruction of U-Boot
JUMP == 92             \* ldr pc, [pc, #-4]
TABLE == 93            \* the jump table of U-Boot
TRUE_WORD == 1
our_handler == [v \in Vectors |-> IF v = "EX_IRQ" THEN 94 ELSE 95]

\* The words of bss that are used before the first interrupt.
bss_end == 5
global_data == 1
cur_mutex_num == 2
bAvailable == 3
pHolding_Tcb == 4
sleep_queue == 5

ASSUME BootAssumption ==
  /\ handler_at \in [Vectors -> Nat \ {0}]
  /\ handler_at["EX_IRQ"] + 1 < handler_at["EX_SWI"]
  /\ Args \subseteq Seq(Nat)

Addresses_of_code == 1 .. handler_at["EX_SWI"] + 1

\* U-Boot calls the kernel with interrupts disabled.
BootInit ==
  /\ boot = "app_startup"
  /\ bss = [w \in 1 .. bss_end |-> JUNK]
  /\ cp = 1
  /\ well_formed \in [Vectors -> BOOLEAN]
  /\ code = [a \in Addresses_of_code |-> UBOOT]
  /\ uboot_handler_addr = [v \in Vectors |-> NULL]
  /\ instruction_backup = [v \in Vectors |-> <<NULL, NULL>>]
  /\ timer = FALSE
  /\ cpsr_irqs = FALSE
  /\ argv \in Args
  /\ ustack = << >>
  /\ r0 = JUNK /\ r1 = << >>

\* Fault: the last word of bss is left as it was.
AppStartup_Short ==
  /\ boot = "app_startup"
  /\ \/ cp < bss_end /\ bss' = [bss EXCEPT ![cp] = 0] /\ cp' = cp + 1 /\ UNCHANGED boot
     \/ cp >= bss_end /\ boot' = "table" /\ UNCHANGED <<bss, cp>>
  /\ UNCHANGED <<well_formed, code, uboot_handler_addr, instruction_backup,
                 timer, cpsr_irqs, argv, ustack, r0, r1>>

\* One turn of the loop of app_startup.
AppStartup ==
  /\ boot = "app_startup"
  /\ \/ cp <= bss_end /\ bss' = [bss EXCEPT ![cp] = 0] /\ cp' = cp + 1 /\ UNCHANGED boot
     \/ cp > bss_end /\ boot' = "table" /\ UNCHANGED <<bss, cp>>
  /\ UNCHANGED <<well_formed, code, uboot_handler_addr, instruction_backup,
                 timer, cpsr_irqs, argv, ustack, r0, r1>>

\* global_data = table; start.S has moved r8 into kmain's third argument.
SaveTable ==
  /\ boot = "table"
  /\ bss' = [bss EXCEPT ![global_data] = TABLE]
  /\ boot' = "init_interrupt"
  /\ UNCHANGED <<cp, well_formed, code, uboot_handler_addr, instruction_backup,
                 timer, cpsr_irqs, argv, ustack, r0, r1>>

\* wiring_handler: nothing happens when the vector has another format, and
\* the caller goes on after a message.
wiring_handler(v) ==
  LET at == handler_at[v]
  IN  \/ /\ well_formed[v]
         /\ uboot_handler_addr' = [uboot_handler_addr EXCEPT ![v] = at]
         /\ instruction_backup' = [instruction_backup EXCEPT ![v] = <<code[at], code[at + 1]>>]
         /\ code' = [code EXCEPT ![at] = JUMP, ![at + 1] = our_handler[v]]
      \/ /\ ~well_formed[v]
         /\ UNCHANGED <<uboot_handler_addr, instruction_backup, code>>

InitInterrupt ==
  /\ boot = "init_interrupt"
  /\ wiring_handler("EX_IRQ")
  /\ boot' = "init_swi"
  /\ UNCHANGED <<bss, cp, well_formed, timer, cpsr_irqs, argv, ustack, r0, r1>>

InitSwi ==
  /\ boot = "init_swi"
  /\ wiring_handler("EX_SWI")
  /\ boot' = "init_timer"
  /\ UNCHANGED <<bss, cp, well_formed, timer, cpsr_irqs, argv, ustack, r0, r1>>

\* From here on a timer interrupt is pending or soon will be.
InitTimer ==
  /\ boot = "init_timer"
  /\ timer' = TRUE
  /\ boot' = "mutex_init"
  /\ UNCHANGED <<bss, cp, well_formed, code, uboot_handler_addr, instruction_backup,
                 cpsr_irqs, argv, ustack, r0, r1>>

InitMutexes ==
  /\ boot = "mutex_init"
  /\ bss' = [bss EXCEPT ![bAvailable] = TRUE_WORD, ![pHolding_Tcb] = NULL,
                        ![cur_mutex_num] = 0]
  /\ boot' = "switch_user_app"
  /\ UNCHANGED <<cp, well_formed, code, uboot_handler_addr, instruction_backup,
                 timer, cpsr_irqs, argv, ustack, r0, r1>>

\* User mode with interrupts enabled, on the user stack: the NULL that ends
\* argv.  r1 holds the arguments, and r0 = argc becomes the index.
switch_user_app ==
  /\ boot = "switch_user_app"
  /\ cpsr_irqs' = TRUE
  /\ ustack' = <<NULL>>
  /\ r0' = Len(argv)
  /\ r1' = argv
  /\ cp' = Len(argv)
  /\ boot' = "build_argv"
  /\ UNCHANGED <<bss, well_formed, code, uboot_handler_addr, instruction_backup,
                 timer, argv>>

\* Fault: the loop ends at index 0.
BuildArgv_Short ==
  /\ boot = "build_argv"
  /\ \/ cp > 1 /\ cp' = cp - 1 /\ ustack' = <<r1[cp]>> \o ustack /\ UNCHANGED boot
     \/ cp <= 1 /\ ustack' = <<r0>> \o ustack /\ boot' = "crt0" /\ UNCHANGED cp
  /\ UNCHANGED <<bss, well_formed, code, uboot_handler_addr, instruction_backup,
                 timer, cpsr_irqs, argv, r0, r1>>

\* One turn of build_argv, from the last argument to the first; then argc.
BuildArgv ==
  /\ boot = "build_argv"
  /\ \/ cp > 0 /\ cp' = cp - 1 /\ ustack' = <<r1[cp]>> \o ustack /\ UNCHANGED boot
     \/ cp = 0 /\ ustack' = <<r0>> \o ustack /\ boot' = "crt0" /\ UNCHANGED cp
  /\ UNCHANGED <<bss, well_formed, code, uboot_handler_addr, instruction_backup,
                 timer, cpsr_irqs, argv, r0, r1>>

\* The first instructions of the program: argc, and argv just above it.
crt0_start ==
  /\ boot = "crt0"
  /\ r0' = Head(ustack)
  /\ r1' = Tail(ustack)
  /\ boot' = "main"
  /\ UNCHANGED <<bss, cp, well_formed, code, uboot_handler_addr, instruction_backup,
                 timer, cpsr_irqs, argv, ustack>>

Leads == \A v \in Vectors : well_formed[v]

\* The kernel went on without one of its handlers: sooner or later the call
\* or the interrupt ends in U-Boot's own, and the system with it.
TakenByUboot == boot = "main" /\ ~Leads /\ UNCHANGED boot_vars

BootNext ==
  \/ TakenByUboot
  \/ AppStartup \/ SaveTable \/ InitInterrupt \/ InitSwi \/ InitTimer \/ InitMutexes
  \/ switch_user_app \/ BuildArgv \/ crt0_start

(***************************************************************************)
(* Properties                                                              *)
(***************************************************************************)

\* The vector leads into the kernel, and U-Boot's code is saved.
Wired(v) ==
  /\ code[handler_at[v]] = JUMP
  /\ code[handler_at[v] + 1] = our_handler[v]
  /\ instruction_backup[v] = <<UBOOT, UBOOT>>

\* main.c:31-38: once an interrupt or a system call can happen, everything that
\* its handler reads has its first value, and the vector leads to it unless its
\* format is not known.  The order of the calls in kmain is what this rests on:
\* what is stored before the bss is cleared is lost, and the timer runs before
\* the program does.
HandlersInPlace ==
  cpsr_irqs =>
    /\ bss = [w \in 1 .. bss_end |-> CASE w = global_data -> TABLE
                                       [] w = bAvailable -> TRUE_WORD
                                       [] OTHER -> 0]
    /\ \A v \in Vectors : well_formed[v] => Wired(v)

\* kernel_asm.S:44-58 and crt0.S:13-17: main gets the arguments of `go', in
\* their order and ended by NULL.
ArgumentsArrive ==
  boot = "main" => r0 = Len(argv) /\ r1 = argv \o <<NULL>>
=============================================================================
