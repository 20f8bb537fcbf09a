---------------------------- MODULE WorldHistory ----------------------------
(***************************************************************************)
(* What the worker and the store promise of a timeline while the worker is *)
(* not killed: "the past is append-only" (hydra.persistence.store).  The   *)
(* ledger grows by events later than the published world, and a world is   *)
(* published with exactly the ledger as its past.                          *)
(***************************************************************************)
EXTENDS Integers, Sequences

VARIABLES
    ledger,     \* the events of the timeline, as the store has them
    published   \* the world readers see

Init ==
    /\ ledger = <<>>
    /\ published.tick = 0
    /\ published.past = <<>>

\* Ledger.flush.
Record ==
    /\ Len(ledger') > Len(ledger)
    /\ SubSeq(ledger', 1, Len(ledger)) = ledger
    /\ \A k \in (Len(ledger) + 1)..Len(ledger') :
        /\ ledger'[k].tick > published.tick
        /\ k > 1 => ledger'[k - 1].id < ledger'[k].id
    /\ UNCHANGED published

\* WorldStore.write_live.
Publish ==
    /\ published'.tick >= published.tick
    /\ published'.past = ledger
    /\ UNCHANGED ledger

Spec == Init /\ [][Record \/ Publish]_<<ledger, published>>

=============================================================================
