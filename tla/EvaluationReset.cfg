SPECIFICATION Spec
CONSTANT
  Configs <- MCConfigs
INVARIANT ResetHasItsCells
CHECK_DEADLOCK FALSE
