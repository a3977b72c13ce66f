SPECIFICATION Spec
CONSTANTS
  Helpers = {h}
  Views = {0}
  Window = 2
  Batch = 2
  Parts <- PartsOfState
  AtOnce = 1
  MaxTip = 3
  MaxFaults = 1
  MaxOnWire = 2
  Turns = {1, 2, 3, 4, 5, 6}
  Width = 3
  Threshold = 2
  Seats = {"s", "r"}
  OwnerOf <- Owners
  MaxHeight = 3
  MaxMishaps = 1
  MaxRubbish = 1
  Hashes = {1, 2, 3, 4}
  Stampings <- SomeTurns
  ReorgLimit = 1
  Held = {1, 2, 5, 6}
  Page = 1
  MaxRetaken = 1
  MaxMark = 2
  MaxCrashes = 2
INVARIANTS HoldsOneState StampsAreWitness HistoryIsEarned SignsOnceUnlessEmptied
PROPERTIES ReorgsAreReversible BackToTheTip StampsHarden
CHECK_DEADLOCK FALSE
