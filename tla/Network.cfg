SPECIFICATION NetworkSpec
CONSTANTS
  Threads = {"t", "u"}
  Sockets = {1, 2, 3}
  EpochSlack = 1
  MaxSeen = 2
  MaxFrames = 3
  MaxPath = 1
  MaxEpochs = 2
  Addresses = {"x", "y"}
  Links = {1, 2, 3}
  MaxConnections = 2
  MaxPerAddress = 1
  PenaltySeconds = 1
  PenaltyMax = 2
  MaxPenalised = 1
  IdleSeconds = 2
  PartialSeconds = 1
  MaxSeconds = 3
  Clients = {"a", "b"}
  Validators = {"v"}
  Capacity = 2
  Rate = 1
  PeerCapacity = 2
  PeerRate = 1
  QueryCost = 1
  TxCost = 1
  BytesCost = 1
  MaxMultiple = 2
  IdleAfter = 3
  MaxSources = 2
  MaxTime = 4
  Roster = {1, 2, 3}
  Configured <- Files
  Restarters = {2}
  Movers = {}
  MaxAge = 1
  LastRestart = 1
  LastEpoch = 2
  Builds <- UnequalBuilds
  AcceptingBuilds = 2
  ScheduleEntries <- Entries
  MaxUpgradeHeight = 4
  Seats = {1, 2, 3, 4}
  Attesters = {1, 2, 3, 4}
  Quorum = 3
  Blocks = {1, 2}
  BadBlocks = {}
  MaxViews = 3
  MaxEpoch = 1
  MaxRestarts = 0
  LeaderOf <- Ascending
  Lazy = {}
  Silent = {1, 2}
  Late = {}
  Restartable = {}
  None = None
INVARIANTS
  MeshIsFaithful HonestFramesAreTaken SocketsAreCounted PenaltiesAreServed
  BudgetIsABound MeterIsBearable UpgradesAreSafe
PROPERTIES SeatsFindEachOther SilentLeadersCostNoEpoch
CHECK_DEADLOCK FALSE
