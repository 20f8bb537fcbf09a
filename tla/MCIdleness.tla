----------------------------- MODULE MCIdleness -----------------------------
(***************************************************************************)
(* One resident below Tier A without a model, who sleeps over midnight, in  *)
(* days of four hours of two ticks and the limit of three days the code has. *)
(***************************************************************************)
EXTENDS Idleness, TLC

MC_SleepAt == (1 :> 6)
MC_WakeAt == (1 :> 1)
MC_Importance == ("env.power" :> 1) @@ ("price.food" :> 0)
=============================================================================
