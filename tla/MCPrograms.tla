----------------------------- MODULE MCPrograms ----------------------------
(* Constants of the instance of Programs that TLC checks.  The periods of   *)
(* device.c are 20, 40, 100 and 10 ticks of TIME_RESOLUTION; here they are  *)
(* halved, which keeps their proportions.                                   *)
EXTENDS Programs, TLC

AllShipped == {"sys_err", "mutex_chaser", "simple_mutex", "cyclone", "dagger", "stress"}
HarmlessWindows == {"tail_scan", "locked", "rq_init", "alloc"}
FourDevices == (0 :> 10) @@ (1 :> 20) @@ (2 :> 50) @@ (3 :> 5)
=============================================================================
