\* Three attesters on two views of an epoch, and the next epoch at the same height.
CONSTANTS
    Seats = {1, 2, 3}
    Attesters = {1, 2, 3}
    Quorum = 2
    Blocks = {1, 2}
    BadBlocks = {}
    MaxViews = 2
    MaxEpoch = 2
    MaxRestarts = 0
    LeaderOf <- Ascending
    Lazy = {}
    Silent = {}
    Late = {}
    Restartable = {}
    None = None
SPECIFICATION Spec
INVARIANT OneBlockPerHeight
\* An epoch ends without a block, and a finished seat is done.
CHECK_DEADLOCK FALSE
