CONSTANTS
  cb1 = cb1
  cb2 = cb2
  S1 = S1
  S2 = S2
  G = G
  D = D
  GoodSecret = GoodSecret
  BadSecret = BadSecret
  Callbacks <- MCCallbacks
  MachineInfos <- MCMachineInfos
  GoodSecrets <- MCGoodSecrets
  QuantumPower = 1
  FutureQuanta = 2
  MaxTime = 3
  MaxInits = 2
SPECIFICATION Spec
\* With every callback requested, both InitMachineInfo() calls made and the
\* clock at its bound, the generator waits for requests that never come.
CHECK_DEADLOCK FALSE
INVARIANT TypeOK
INVARIANT CallbacksRunOnceInOrder
INVARIANT KeysIdentifyQuanta
