----------------------------- MODULE MCSequential --------------------------
(* Code that runs from its call to its return with nobody else touching its *)
(* data: the admission of a task set, or one call of the C library.         *)
EXTENDS MCAdmission, MCLibc

\* No function of the library is called.
NoCall == call = [fn |-> "away", args |-> <<>>] /\ answer = <<>>

\* No task set is handed over.
NoAdmission ==
  /\ input = <<>> /\ tasks = <<>> /\ address = USR_START_ADDR
  /\ i = 0 /\ j = 0 /\ utilization = 0 /\ pc = "accept"

SequentialSpec ==
  /\ (Init /\ NoCall) \/ (LibcInit /\ NoAdmission)
  /\ [][(Next /\ UNCHANGED libc) \/ (LibcNext /\ UNCHANGED vars)]_<<vars, libc>>
=============================================================================
