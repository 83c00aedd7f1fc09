\* An empty input_str and no input_fd: nothing has to reach the child.
CONSTANTS
  InputLen = 0
  InputFdLen = 0
  OutLens = {1}
  ErrLen = 0
  PipeCap = 2
  BufferSize = 2
  MaxReadSize = 3
  BlockingModes = {FALSE}
SPECIFICATION Spec
INVARIANT FailsOnlyForCause
CHECK_DEADLOCK FALSE
