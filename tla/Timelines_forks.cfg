\* A world, and two forks of it at the same time, with two salts to choose from.
SPECIFICATION Spec
CHECK_DEADLOCK FALSE
CONSTANTS
    Worlds = {v, w}
    Zero = "tl_zero"
    ForkIds <- MCForkIds
    Threads = {"first", "second"}
    Serves <- MCServes
    Salts = {"a", "b"}
    Stores <- MCTwoFork
    SnapshotInterval = 2
    CheckpointInterval = 1
    None = None
    MaxTick = 3
    Most <- MCMost
SYMMETRY MCSymmetry
INVARIANT ForksDiverge
