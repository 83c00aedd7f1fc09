CONSTANTS
  MaxLevel = 10
  InitialLevel = 4
  RawUserSteps <- MCRawUserSteps
  NoAlsPercents <- MCNoAlsPercents
  AlsPercents <- MCAlsPercents
  KeepOnDelay = 2
  KeepOnDuringVideoDelay = 2
  VideoTimeoutInterval = 2
  MaxTime = 3
CONSTRAINT ConditionBound
SPECIFICATION Spec
INVARIANT TypeOK
INVARIANT LevelFollowsPolicy
