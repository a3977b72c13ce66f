\* Three attesters, three views of one epoch, everybody on time.
CONSTANTS
    Seats = {1, 2, 3}
    Attesters = {1, 2, 3}
    Quorum = 2
    Blocks = {1, 2}
    BadBlocks = {}
    MaxViews = 3
    MaxEpoch = 1
    MaxRestarts = 0
    LeaderOf <- Turning
    Schedule <- TurningSchedule
    Lazy = {}
    Silent = {}
    Late = {}
    Restartable = {}
    None = None
SPECIFICATION Spec
INVARIANTS IInv OneBlockPerEpoch
PROPERTY KeepsThePromise
CHECK_DEADLOCK FALSE
