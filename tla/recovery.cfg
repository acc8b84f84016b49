SPECIFICATION Steps
CONSTANTS
  Names <- mcNames
  GrokNames <- mcGrokNames
  Path = "sequential"
  Configs <- mcConfigs
  PrdModels <- mcPrdModels
  EditModels <- mcEdits
  Accounts <- mcAccounts
  MaxDisturbances = 2
INVARIANTS TypeOK OverridesWatched ModelFitsRunner NoBounce
PROPERTIES ValveOnlyForEdits NoAttemptTwice LadderEnds
CHECK_DEADLOCK FALSE
