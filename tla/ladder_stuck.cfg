SPECIFICATION Spec
CONSTANTS
  Names <- mcNames
  GrokNames <- mcGrokNames
  Path = "wave"
  Configs <- mcClaude
  PrdModels <- mcNull
  EditModels <- mcNone
  Accounts <- mcCalm
  MaxDisturbances = 0
PROPERTIES LadderEnds
CHECK_DEADLOCK FALSE
