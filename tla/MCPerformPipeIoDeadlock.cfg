\* A blocking stdin pipe, more input than the pipe holds, and a child that
\* writes more than a pipe holds before it reads its input.
CONSTANTS
  InputLen = 3
  InputFdLen = 0
  OutLens = {3}
  ErrLen = 0
  PipeCap = 2
  BufferSize = 2
  MaxReadSize = 3
  BlockingModes = {TRUE}
SPECIFICATION Spec
PROPERTY Terminates
CHECK_DEADLOCK FALSE
