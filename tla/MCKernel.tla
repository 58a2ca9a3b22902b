------------------------------ MODULE MCKernel ------------------------------
(* Constants of the instances of Kernel that TLC checks. *)
EXTENDS KernelSchedules, TLC

NoWindows == {}

\* Points inside the kernel at which an interrupt does no harm.
HarmlessWindows == {"tail_scan", "locked", "rq_init", "alloc"}

\* Inside mutex_lock, and before the removal in dispatch_sleep: the queues of
\* the mutexes are not disturbed.
LockWindows == {"tail_scan", "ds_remove", "locked"}

\* Everywhere the code has interrupts enabled inside the kernel.
AllWindows == Points \ {"user"}

\* dev_wait has enabled interrupts and is about to call dispatch_sleep.
BeforeSleep == {"ds_pick"}

\* Inside dispatch_sleep, between highest_prio and runqueue_remove.
InsideSleep == {"ds_remove"}

OneDevice == (0 :> 2)
TwoDevices == (0 :> 1) @@ (1 :> 2)
=============================================================================
