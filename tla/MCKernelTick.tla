---------------------------- MODULE MCKernelTick ----------------------------
(***************************************************************************)
(* Instances of KernelTick for TLC.                                        *)
(***************************************************************************)
EXTENDS KernelTick

(***************************************************************************)
(* Production-like wiring in small: power_grid (phase ENVIRONMENT, emits   *)
(* shortages), dormancy (AGENTS, consumes shortages, its step and its      *)
(* handler emit wake-ups) and history (INFORMATION, event-driven, consumes *)
(* "*", emits nothing).  One wire is added that production does not have:  *)
(* power_grid consumes wake-ups and may answer one by another shortage.    *)
(* SystemSpec allows it, and it closes the loop that drain's storm guard   *)
(* is for: two systems that answer each other's events for as long as they *)
(* please.                                                                 *)
(***************************************************************************)
MCPowerGrid == 1
MCDormancy == 2
MCHistory == 3

MCTopics == {"shortage", "flicker", "wake", "failure", "incident"}
MCImportant == {"shortage", "wake", "failure", "incident"}

MCCadence == [s \in 1..3 |-> IF s = MCHistory THEN 0 ELSE 2]
MCConsumes == [s \in 1..3 |-> CASE s = MCPowerGrid -> {"wake"}
                                [] s = MCDormancy  -> {"shortage"}
                                [] s = MCHistory   -> MCTopics]
MCStepEmits == [s \in 1..3 |-> CASE s = MCPowerGrid -> {"shortage", "flicker"}
                                 [] s = MCDormancy  -> {"wake"}
                                 [] s = MCHistory   -> {}]
MCHandlerEmits == [s \in 1..3 |-> CASE s = MCPowerGrid -> {"shortage"}
                                    [] s = MCDormancy  -> {"wake"}
                                    [] s = MCHistory   -> {}]

\* A behaviour of the model ends between two ticks, at its bounds, or with the
\* process when an event storm escapes from a tick, and nowhere else.
AtBound == \/ pc = "idle" /\ tick = MaxTick /\ scenarios = MaxScenarios
           \/ pc = "dead"

MCNext     == Next \/ (AtBound /\ UNCHANGED vars)
MCSpec     == Init /\ [][MCNext]_vars
MCFairSpec == MCSpec /\ WF_vars(Kernel)
=============================================================================
