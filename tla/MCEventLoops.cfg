\* IpHelper: two good addresses and a bad one (so that a later command
\* must override an earlier one, and a CHECK can fail), three commands,
\* three container retries.  GlibMessageLoop: four posts on 3-bit ids, so
\* that ids never wrap, as a 64-bit TaskId never does.  PerformPipeIo():
\* a blocking or non-blocking stdin pipe, input_str of four units (more
\* than a pipe holds), input_fd given or not, and a child whose stdout
\* stays within or goes over kMaxReadSize.  Uid switching: the process's
\* own uid, the one it parks in the saved set-user-ID and a third one it
\* must never reach; scoped switches nested two deep.
CONSTANTS
  Addresses = {a1, a2}
  BadAddresses = {b1}
  ClearCommand = clear
  kMaxContainerRetries = 3
  MaxMessages = 3
  IdBits = 3
  MaxPosts = 4
  InputLen = 4
  InputFdLen = 1
  OutLens = {2, 4}
  ErrLen = 1
  PipeCap = 3
  BufferSize = 2
  MaxReadSize = 3
  BlockingModes = {FALSE, TRUE}
  Uids = {ua, ux, uo}
  InitialUid = ua
  MaxDepth = 2
SPECIFICATION MCSpec
INVARIANTS
  MCTypeOK
  AddressFollowsLastCommand
  ContainerRetryBudget
  TaskTableMatchesSources
  ReturnsCompleteOutput
  ConfinedToDroppedUids
PROPERTIES
  SetupEnds
  TerminatesNonBlocking
\* The helper stops at Quit() or LOG(FATAL), PerformPipeIo() returns, and
\* an idle GLib loop blocks.
CHECK_DEADLOCK FALSE
