------------------------------ MODULE Idleness ------------------------------
(***************************************************************************)
(* Minds with a history variable: for how many hours nothing relevant has   *)
(* happened to a resident.  It states what the lifecycle of residents is     *)
(* documented to be (docs/ARCHITECTURE.md:252, "LIGHT_IDLE --> DORMANT: no   *)
(* relevant events for N days").                                            *)
(***************************************************************************)
EXTENDS Minds

CONSTANT
    MaxQuiet    \* a number of hours: longer quiet is not told apart (bound of the model)

VARIABLE
    quiet       \* hours since something relevant happened to each resident

\* What is relevant: a waking hour with work, hunger or something salient to do, an
\* event that ends a rest, or an observation of some importance.
Relevant(p) ==
    \/ /\ Visiting("dormancy", p) /\ ~Asleep(p)
       /\ activity'[p] = "active"
    \/ /\ system \in {"due", "none"} /\ activity[p] # "active"
       /\ activity'[p] = "active"
    \/ inbox'[p] # inbox[p] /\ Salient(inbox'[p])

Count(p) == IF quiet[p] < MaxQuiet THEN quiet[p] + 1 ELSE quiet[p]

\* DormancySystem visits everybody once an hour.
CountHours ==
    quiet' = [p \in People |->
                IF Relevant(p) THEN 0
                ELSE IF Visiting("dormancy", p) THEN Count(p)
                ELSE quiet[p]]

IdleInit == Init /\ quiet = [p \in People |-> 0]

IdleSpec == IdleInit /\ [][Next /\ CountHours]_<<vars, quiet>>

\* Whoever has nothing relevant happen to them for the configured number of days goes
\* DORMANT: a day later at the latest, nobody below Tier A is still only LIGHT_IDLE.
IdleGoDormant ==
    \A p \in alive \ persistent :
        quiet[p] > DormantAfter + HoursPerDay => activity[p] # "light_idle"
=============================================================================
