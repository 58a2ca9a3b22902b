----------------------------- MODULE MCRunQueue ----------------------------
(* Two groups of two priorities and two tasks: enough for a group to empty   *)
(* while the other stays occupied, for a slot to be left behind by           *)
(* runqueue_init and reused by another task, and for an interrupt in a       *)
(* removal to call for the same group and for another.                       *)
EXTENDS RunQueue

\* A call for another group between the load and the store of the summary.
CallsInSummary ==
  {c \in {"store_group"} \X Prio \X Prio : GroupOf(c[2]) # GroupOf(c[3])}

\* A call for the same group between the load and the store of its byte.
CallsInByte ==
  {c \in {"store_bits"} \X Prio \X Prio : c[2] # c[3] /\ GroupOf(c[2]) = GroupOf(c[3])}
=============================================================================
