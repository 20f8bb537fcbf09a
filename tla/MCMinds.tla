------------------------------ MODULE MCMinds -------------------------------
(***************************************************************************)
(* Two residents, one of them significant, in a day of four hours of two   *)
(* ticks: one sleeps over midnight and wakes off the hour, one by day.       *)
(***************************************************************************)
EXTENDS Minds, TLC

MC_SleepAt == (1 :> 6) @@ (2 :> 3)
MC_WakeAt == (1 :> 1) @@ (2 :> 5)
MC_Importance == ("env.power" :> 1) @@ ("price.food" :> 0)
=============================================================================
