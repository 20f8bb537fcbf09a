---------------------------- MODULE MCTimelines ----------------------------
(***************************************************************************)
(* Instances of Timelines for TLC: the three ways to deploy it, files      *)
(* alone, Postgres alone, and Postgres behind Redis, each with what it is  *)
(* asked and for how long.                                                 *)
(***************************************************************************)
EXTENDS Timelines

MCForkIds == <<"tl_001", "tl_002">>

Deployed(postgres, redis, bounds) == [postgres |-> postgres, redis |-> redis, bounds |-> bounds]

\* Two threads fork at the same time, and one of them creates worlds.
MCForkers  == Deployed(FALSE, FALSE, "two forkers")
\* One thread changes the store, the other reads it; runs are killed twice.
MCFiles    == Deployed(FALSE, FALSE, "files")
\* The same for longer: three ticks, the third past a snapshot.
MCPostgres == Deployed(TRUE, FALSE, "postgres")
\* What dies half made, and what is forked after it.
MCHalfMade == Deployed(TRUE, FALSE, "half made")
\* Copies that expire or are not written.
MCCloud    == Deployed(TRUE, TRUE, "cloud")

MCStores  == {MCForkers, MCFiles, MCPostgres, MCHalfMade, MCCloud}
MCTwoFork == {MCForkers}

MCServes == [s \in Stores |-> [t \in Threads |->
    CASE s = MCForkers -> IF t = "first" THEN {"create", "fork"} ELSE {"fork"}
      [] s \in {MCFiles, MCPostgres} ->
            IF t = "first" THEN {"create", "fork", "replay"} ELSE {"read"}
      [] s = MCHalfMade -> IF t = "first" THEN {"create", "fork"} ELSE {}
      [] s = MCCloud -> IF t = "first" THEN {"create", "fork"} ELSE {"read"}]]

MCMost == [s \in Stores |->
    CASE s = MCForkers  -> [ticks |-> 1, requests |-> 3, incidents |-> 0]
      [] s = MCFiles    -> [ticks |-> 2, requests |-> 2, incidents |-> 2]
      [] s = MCPostgres -> [ticks |-> 3, requests |-> 2, incidents |-> 1]
      [] s = MCHalfMade -> [ticks |-> 1, requests |-> 3, incidents |-> 1]
      [] s = MCCloud    -> [ticks |-> 1, requests |-> 2, incidents |-> 2]]

MCSymmetry == Permutations(Worlds)
=============================================================================
