------------------------------ MODULE MCWorker ------------------------------
(***************************************************************************)
(* Instances of Worker for TLC.                                            *)
(***************************************************************************)
EXTENDS Worker

\* Quiet ticks, ticks of one event, and ticks that fill the buffer.
MCEventsAt == [t \in 1..MaxTick |-> CASE t % 4 = 0 -> 0
                                      [] t % 4 = 2 -> 2
                                      [] OTHER     -> 1]

\* Nothing to record before tick 3: a re-simulation reaches the snapshot of
\* tick 2 before the ledger has anything to refuse.
MCQuietStart == [t \in 1..MaxTick |-> CASE t < 3 -> 0
                                        [] t = 3 -> 2
                                        [] OTHER -> 1]

MCFile       == [sealed |-> FALSE, postgres |-> FALSE]
MCFileSealed == [sealed |-> TRUE,  postgres |-> FALSE]
MCPostgres       == [sealed |-> FALSE, postgres |-> TRUE]
MCPostgresSealed == [sealed |-> TRUE,  postgres |-> TRUE]

MCEveryStore  == {MCFile, MCFileSealed, MCPostgres, MCPostgresSealed}
MCSealedStore == {MCFileSealed, MCPostgresSealed}
MCFileStores  == {MCFile, MCFileSealed}

\* The requests of the Observatory's controls.
MCRun      == [mode |-> "running"]
MCPause    == [mode |-> "paused"]
MCStep     == [mode |-> "paused", step |-> 3]
MCTarget   == [target |-> 2]
MCFast     == [fast |-> TRUE]
MCScenario == [scenario |-> TRUE]
MCFastStep == [mode |-> "paused", step |-> 3, fast |-> TRUE]

MCOperator     == {MCRun, MCPause, MCStep, MCTarget, MCFast, MCScenario, MCFastStep}
MCRunOnly      == {MCRun}
MCRunScenario  == {MCRun, MCScenario, MCStep}

\* The worker polls in vain: nobody has asked for ticks or for a scenario, and
\* nobody is about to.
AtRest == /\ pc = "poll" /\ calls = <<>> /\ request = NoValue
          /\ ~Moving(control) /\ ~control.scenario

MCNext     == Next \/ (AtRest /\ UNCHANGED vars)
MCSpec     == Init /\ [][MCNext]_vars
MCFairSpec == MCSpec /\ WF_vars(Working) /\ WF_vars(SetControl)
=============================================================================
