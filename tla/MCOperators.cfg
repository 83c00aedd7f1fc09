\* The generator's constants are unused here; ReadPipeToString's sizes are
\* small enough to run every partial-read schedule.
CONSTANTS
  Callbacks = {}
  MachineInfos = {}
  GoodSecrets = {}
  QuantumPower = 1
  FutureQuanta = 1
  MaxTime = 0
  MaxInits = 0
  kBufferSize = 3
  kMaxReadSize = 5
SPECIFICATION OpSpec
INVARIANT PackUnpackRoundTrip
INVARIANT TextRoundTrip
INVARIANT ParseMatchesReference
INVARIANT ReadsWholeFileWithinLimit
INVARIANT EsnDecimalRoundTrip
INVARIANT FirstTypeErrorKept
INVARIANT BuildIdFromPreferredSection
INVARIANT GpoListFromBlocks
INVARIANT TgtLifetimeFromFirstTicket
INVARIANT DeltaOperationFromFlags
INVARIANT MetricsCallFromArguments
