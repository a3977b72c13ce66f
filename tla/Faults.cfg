\* Seat 1, the first leader, may restart once inside the epoch, seat 3 is lazy, block 3 is invalid.
CONSTANTS
    Seats = {1, 2, 3}
    Attesters = {1, 2, 3}
    Quorum = 2
    Blocks = {1, 2, 3}
    BadBlocks = {3}
    MaxViews = 2
    MaxEpoch = 1
    MaxRestarts = 1
    LeaderOf <- Ascending
    Lazy = {3}
    Silent = {}
    Late = {}
    Restartable = {1}
    None = None
SPECIFICATION Spec
INVARIANT FaultsAreContained
\* An epoch ends without a block, and a finished seat is done.
CHECK_DEADLOCK FALSE
