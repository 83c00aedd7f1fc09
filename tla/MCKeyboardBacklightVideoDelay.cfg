CONSTANTS
  MaxLevel = 10
  InitialLevel = 4
  RawUserSteps <- MCRawUserSteps
  NoAlsPercents <- MCNoAlsPercents
  AlsPercents <- MCAlsPercents
  KeepOnDelay = 2
  KeepOnDuringVideoDelay = 1
  VideoTimeoutInterval = 2
  MaxTime = 3
SPECIFICATION Spec
INVARIANT LevelFollowsPolicy
CONSTRAINT ConditionBound
