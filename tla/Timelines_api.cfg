SPECIFICATION Spec
CHECK_DEADLOCK FALSE
CONSTANTS
    Worlds = {v, w}
    Zero = "tl_zero"
    ForkIds <- MCForkIds
    Threads = {"first", "second"}
    Serves <- MCServes
    Salts = {"a"}
    Stores <- MCStores
    SnapshotInterval = 2
    CheckpointInterval = 1
    None = None
    MaxTick = 3
    Most <- MCMost
SYMMETRY MCSymmetry
INVARIANT ReadIsFresh
INVARIANT ReplayFaithful
INVARIANT ForksAreKept
INVARIANT RunnableIsLoadable
