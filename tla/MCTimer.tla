------------------------------- MODULE MCTimer -----------------------------
(* Two devices for Timer, whose periods are different multiples of the     *)
(* resolution.                                                             *)
EXTENDS Timer, TLC

TwoDevices == (0 :> 10) @@ (1 :> 15)

NoDevices == << >>
=============================================================================
