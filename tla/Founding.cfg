SPECIFICATION Spec
CONSTANTS
  Orders <- Deals
  Schemer = "s"
  Networks = {"main", "rehearsal"}
  Turns = 3
  MaxRuns = 2
  Asked <- Questions
  GroebnerFloor = 1
  RangeFloor = 1
  SoundnessBits = 1
  Keepers = {"a", "b", "c"}
  Others = {"d"}
  Drafts <- LaunchOrTest
  Edits <- OneField
  MaxEdits = 1
  Booting = {"a"}
  GridSize = 5
  Implements = 1
  Absent = Absent
INVARIANTS FoundingIsByConsent TurnsAreTheirs SlicesPartThePool
CHECK_DEADLOCK FALSE
