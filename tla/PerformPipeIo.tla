---------------------------- MODULE PerformPipeIo ----------------------------
(***************************************************************************)
(* authpolicy's PerformPipeIo() (authpolicy/platform_helper.cc): the poll  *)
(* loop that feeds a child process's stdin from input_str (or by splicing  *)
(* input_fd first) and collects its stdout and stderr, against the child   *)
(* and the three kernel pipes.                                             *)
(*                                                                         *)
(* Data are counted in units (a unit is at least one byte); the pipes are  *)
(* FIFO, so counts say everything the properties need.  One iteration of   *)
(* the while loop is split into the steps between which the child can run: *)
(* poll(), the stdout read, the stderr read, the stdin write, the size     *)
(* check.  SIGPIPE is taken to be ignored, so a write without a reader     *)
(* fails with EPIPE.                                                       *)
(***************************************************************************)
EXTENDS Naturals

CONSTANTS
  InputLen,       \* units of input_str
  InputFdLen,     \* units input_fd holds, when it is given
  OutLens,        \* the numbers of units the child may write to stdout
  ErrLen,         \* units the child writes to stderr
  PipeCap,        \* capacity of a pipe
  BufferSize,     \* kBufferSize: the most ReadPipe() reads at once
  MaxReadSize,    \* kMaxReadSize
  BlockingModes   \* whether the stdin pipe's write end may be blocking, non-blocking

NoFd == "NoFd"
Fd == "Fd"
Min2(a, b) == IF a < b THEN a ELSE b

VARIABLES
  pc,              \* where the loop is: "poll", "stdout", "stderr", "stdin", "limit", "done"
  revents,         \* the revents poll() returned, per pipe
  stdin_blocking,  \* the stdin pipe's write end is in blocking mode
  result,          \* "running", then the return value: "ok" or "failed"
  stdin_open,      \* stdin_scoped_fd.is_valid()
  stdout_open,     \* stdout_scoped_fd.is_valid()
  stderr_open,     \* stderr_scoped_fd.is_valid()
  input_fd,        \* input_fd (NoFd for -1)
  splicing,        \* splicing_input_fd
  spliced,         \* units of input_fd spliced so far
  input_pos,       \* input_str_pos
  stdout_len,      \* stdout->size()
  stderr_len,      \* stderr->size()
  in_pipe,         \* units in the stdin pipe
  out_pipe,        \* units in the stdout pipe
  err_pipe,        \* units in the stderr pipe
  child_alive,     \* the child holds its ends of the pipes
  child_out,       \* units the child has written to stdout
  out_total,       \* units the child writes to stdout in all
  child_err        \* units the child has written to stderr

parent == <<pc, revents, stdin_blocking, result, stdin_open, stdout_open, stderr_open,
            input_fd, splicing, spliced, input_pos, stdout_len, stderr_len>>
pipes == <<in_pipe, out_pipe, err_pipe>>
child == <<child_alive, child_out, child_err, out_total>>
vars == <<parent, pipes, child>>

NoEvents == [in |-> {}, out |-> {}, err |-> {}]

Init ==
  /\ pc = "poll"
  /\ revents = NoEvents
  /\ stdin_blocking \in BlockingModes
  /\ result = "running"
  /\ stdin_open = TRUE /\ stdout_open = TRUE /\ stderr_open = TRUE
  /\ input_fd \in {NoFd, Fd}
  /\ splicing = (input_fd # NoFd)
  /\ spliced = 0
  /\ input_pos = 0
  /\ stdout_len = 0 /\ stderr_len = 0
  /\ in_pipe = 0 /\ out_pipe = 0 /\ err_pipe = 0
  /\ child_alive = TRUE /\ child_out = 0 /\ child_err = 0
  /\ out_total \in OutLens

Return(r) == result' = r /\ pc' = "done"

(***************************************************************************)
(* The parent.                                                             *)
(***************************************************************************)
\* The events of a read end and of the stdin write end (pipe_poll()): data
\* or no writer left; room or no reader left.  A closed fd has none.
ReadEvents(open, buffered) ==
  IF ~open THEN {}
  ELSE (IF buffered > 0 THEN {"POLLIN"} ELSE {})
         \cup (IF ~child_alive THEN {"POLLHUP"} ELSE {})
WriteEvents ==
  IF ~stdin_open THEN {}
  ELSE (IF in_pipe < PipeCap THEN {"POLLOUT"} ELSE {})
         \cup (IF ~child_alive THEN {"POLLERR"} ELSE {})

\* Variant: the loop stops when stdin and stderr are closed.
PollIgnoringStdout ==
  /\ pc = "poll"
  /\ IF ~(stdin_open \/ stderr_open)
       THEN Return("ok") /\ UNCHANGED revents
       ELSE LET ev == [in |-> WriteEvents,
                       out |-> ReadEvents(stdout_open, out_pipe),
                       err |-> ReadEvents(stderr_open, err_pipe)]
            IN  IF \E p \in {"in", "out", "err"} : "POLLERR" \in ev[p]
                  THEN Return("failed") /\ revents' = ev
                  ELSE pc' = "stdout" /\ revents' = ev /\ UNCHANGED result
  /\ UNCHANGED <<stdin_blocking, stdin_open, stdout_open, stderr_open, input_fd, splicing,
                 spliced, input_pos, stdout_len, stderr_len, pipes, child>>

\* The loop condition, poll() (a timeout returns no events) and the
\* POLLERR/POLLNVAL check.
Poll ==
  /\ pc = "poll"
  /\ IF ~(stdin_open \/ stdout_open \/ stderr_open)
       THEN Return("ok") /\ UNCHANGED revents
       ELSE LET ev == [in |-> WriteEvents,
                       out |-> ReadEvents(stdout_open, out_pipe),
                       err |-> ReadEvents(stderr_open, err_pipe)]
            IN  IF \E p \in {"in", "out", "err"} : "POLLERR" \in ev[p]
                  THEN Return("failed") /\ revents' = ev
                  ELSE pc' = "stdout" /\ revents' = ev /\ UNCHANGED result
  /\ UNCHANGED <<stdin_blocking, stdin_open, stdout_open, stderr_open, input_fd, splicing,
                 spliced, input_pos, stdout_len, stderr_len, pipes, child>>

\* Variant: the whole buffer is appended, not the bytes read.
ReadStdoutAppendsBuffer ==
  /\ pc = "stdout"
  /\ pc' = "stderr"
  /\ IF revents.out \cap {"POLLIN", "POLLHUP"} # {}
       THEN LET n == Min2(out_pipe, BufferSize)
            IN  /\ out_pipe' = out_pipe - n
                /\ stdout_len' = stdout_len + (IF n > 0 THEN BufferSize ELSE 0)
                /\ stdout_open' = (n > 0 \/ child_alive)
       ELSE UNCHANGED <<out_pipe, stdout_len, stdout_open>>
  /\ UNCHANGED <<revents, stdin_blocking, result, stdin_open, stderr_open, input_fd, splicing,
                 spliced, input_pos, stderr_len, in_pipe, err_pipe, child>>

\* Variant: stdout is read on POLLIN only, not on POLLHUP.
ReadStdoutPollinOnly ==
  /\ pc = "stdout"
  /\ pc' = "stderr"
  /\ IF "POLLIN" \in revents.out
       THEN LET n == Min2(out_pipe, BufferSize)
            IN  /\ out_pipe' = out_pipe - n
                /\ stdout_len' = stdout_len + n
                /\ stdout_open' = (n > 0 \/ child_alive)
       ELSE UNCHANGED <<out_pipe, stdout_len, stdout_open>>
  /\ UNCHANGED <<revents, stdin_blocking, result, stdin_open, stderr_open, input_fd, splicing,
                 spliced, input_pos, stderr_len, in_pipe, err_pipe, child>>

\* ReadPipe(): up to BufferSize units; 0 means EOF, EAGAIN reads nothing.
ReadStdout ==
  /\ pc = "stdout"
  /\ pc' = "stderr"
  /\ IF revents.out \cap {"POLLIN", "POLLHUP"} # {}
       THEN LET n == Min2(out_pipe, BufferSize)
            IN  /\ out_pipe' = out_pipe - n
                /\ stdout_len' = stdout_len + n
                /\ stdout_open' = (n > 0 \/ child_alive)
       ELSE UNCHANGED <<out_pipe, stdout_len, stdout_open>>
  /\ UNCHANGED <<revents, stdin_blocking, result, stdin_open, stderr_open, input_fd, splicing,
                 spliced, input_pos, stderr_len, in_pipe, err_pipe, child>>

ReadStderr ==
  /\ pc = "stderr"
  /\ pc' = "stdin"
  /\ IF revents.err \cap {"POLLIN", "POLLHUP"} # {}
       THEN LET n == Min2(err_pipe, BufferSize)
            IN  /\ err_pipe' = err_pipe - n
                /\ stderr_len' = stderr_len + n
                /\ stderr_open' = (n > 0 \/ child_alive)
       ELSE UNCHANGED <<err_pipe, stderr_len, stderr_open>>
  /\ UNCHANGED <<revents, stdin_blocking, result, stdin_open, stdout_open, input_fd, splicing,
                 spliced, input_pos, stdout_len, in_pipe, out_pipe, child>>

Room == PipeCap - in_pipe

\* SplicePipe(): moves what input_fd has and the pipe takes; 0 at the end of
\* input_fd ends splicing; EAGAIN when the pipe is full; EPIPE without reader.
Splice ==
  IF ~child_alive THEN Return("failed") /\ UNCHANGED <<splicing, spliced, in_pipe>>
  ELSE LET n == Min2(InputFdLen - spliced, Room)
       IN  /\ pc' = "limit"
           /\ UNCHANGED result
           /\ IF spliced = InputFdLen
                THEN splicing' = FALSE /\ UNCHANGED <<spliced, in_pipe>>
                ELSE /\ spliced' = spliced + n
                     /\ in_pipe' = in_pipe + n
                     /\ UNCHANGED splicing

\* WritePipe(): nothing left closes stdin; a write takes what the pipe
\* takes, or, on a blocking fd, waits until it takes the rest; EPIPE
\* without reader.
Write ==
  /\ UNCHANGED <<splicing, spliced>>
  /\ IF input_pos = InputLen
       THEN /\ stdin_open' = FALSE /\ pc' = "limit"
            /\ UNCHANGED <<result, input_pos, in_pipe>>
     ELSE IF ~child_alive
       THEN Return("failed") /\ UNCHANGED <<stdin_open, input_pos, in_pipe>>
     ELSE IF stdin_blocking /\ Room < InputLen - input_pos
       THEN /\ input_pos' = input_pos + Room
            /\ in_pipe' = PipeCap
            /\ pc' = "blocked"
            /\ UNCHANGED <<stdin_open, result>>
     ELSE LET n == Min2(InputLen - input_pos, Room)
          IN  /\ input_pos' = input_pos + n
              /\ in_pipe' = in_pipe + n
              /\ stdin_open' = (input_pos + n # InputLen)
              /\ pc' = "limit"
              /\ UNCHANGED result

WriteStdin ==
  /\ pc = "stdin"
  /\ IF "POLLOUT" \in revents.in
       THEN IF splicing THEN Splice /\ UNCHANGED <<stdin_open, input_pos>>
            ELSE Write
       ELSE pc' = "limit" /\ UNCHANGED <<result, stdin_open, splicing, spliced,
                                         input_pos, in_pipe>>
  /\ UNCHANGED <<revents, stdin_blocking, stdout_open, stderr_open, input_fd, stdout_len,
                 stderr_len, out_pipe, err_pipe, child>>

\* A blocking write() in progress: it goes on as the pipe drains and
\* returns a short count when the reader goes away.
BlockedWrite ==
  /\ pc = "blocked"
  /\ Room > 0 \/ ~child_alive
  /\ IF ~child_alive
       THEN /\ pc' = "limit" /\ UNCHANGED <<input_pos, in_pipe, stdin_open>>
       ELSE LET n == Min2(InputLen - input_pos, Room)
            IN  /\ input_pos' = input_pos + n
                /\ in_pipe' = in_pipe + n
                /\ IF input_pos + n = InputLen
                     THEN stdin_open' = FALSE /\ pc' = "limit"
                     ELSE UNCHANGED <<stdin_open, pc>>
  /\ UNCHANGED <<revents, stdin_blocking, result, stdout_open, stderr_open, input_fd, splicing,
                 spliced, stdout_len, stderr_len, out_pipe, err_pipe, child>>

\* The size limits, checked once per iteration.
CheckSizeLimits ==
  /\ pc = "limit"
  /\ IF stdout_len > MaxReadSize \/ stderr_len > MaxReadSize
       THEN Return("failed")
       ELSE pc' = "poll" /\ UNCHANGED result
  /\ UNCHANGED <<revents, stdin_blocking, stdin_open, stdout_open, stderr_open, input_fd,
                 splicing, spliced, input_pos, stdout_len, stderr_len, pipes,
                 child>>

(***************************************************************************)
(* The child: it may read its stdin or not, writes all its output (blocked *)
(* while a pipe is full) and then exits, closing its ends.                 *)
(***************************************************************************)
ChildRead ==
  /\ child_alive /\ in_pipe > 0
  /\ in_pipe' = in_pipe - 1
  /\ UNCHANGED <<parent, out_pipe, err_pipe, child>>

ChildWriteStdout ==
  /\ child_alive /\ child_out < out_total /\ out_pipe < PipeCap
  /\ out_pipe' = out_pipe + 1 /\ child_out' = child_out + 1
  /\ UNCHANGED <<parent, in_pipe, err_pipe, child_alive, child_err, out_total>>

ChildWriteStderr ==
  /\ child_alive /\ child_err < ErrLen /\ err_pipe < PipeCap
  /\ err_pipe' = err_pipe + 1 /\ child_err' = child_err + 1
  /\ UNCHANGED <<parent, in_pipe, out_pipe, child_alive, child_out, out_total>>

ChildExit ==
  /\ child_alive /\ child_out = out_total /\ child_err = ErrLen
  /\ child_alive' = FALSE
  /\ UNCHANGED <<parent, pipes, child_out, child_err, out_total>>

ParentStep ==
  Poll \/ ReadStdout \/ ReadStderr \/ WriteStdin \/ BlockedWrite \/ CheckSizeLimits
ChildStep == ChildRead \/ ChildWriteStdout \/ ChildWriteStderr \/ ChildExit

Next == ParentStep \/ ChildStep

\* The parent thread runs; the child eventually writes its output and
\* exits, but need not read its stdin.
Fairness ==
  /\ WF_vars(ParentStep)
  /\ WF_vars(ChildWriteStdout) /\ WF_vars(ChildWriteStderr) /\ WF_vars(ChildExit)

Spec == Init /\ [][Next]_vars /\ Fairness

(***************************************************************************)
(* Properties                                                              *)
(***************************************************************************)
TypeOK ==
  /\ pc \in {"poll", "stdout", "stderr", "stdin", "blocked", "limit", "done"}
  /\ result \in {"running", "ok", "failed"}
  /\ in_pipe \in 0..PipeCap /\ out_pipe \in 0..PipeCap /\ err_pipe \in 0..PipeCap
  /\ input_pos \in 0..InputLen /\ spliced \in 0..InputFdLen
  /\ stdout_len \in 0..out_total /\ stderr_len \in 0..ErrLen

\* When PerformPipeIo() returns true, the caller has everything: stdout and
\* stderr hold all the child wrote and nothing else, within the size limit,
\* and all of input_fd and input_str went into the child's stdin pipe.
ReturnsCompleteOutput ==
  result = "ok" =>
    /\ stdout_len = child_out /\ stderr_len = child_err
    /\ ~child_alive
    /\ stdout_len <= MaxReadSize /\ stderr_len <= MaxReadSize
    /\ input_pos = InputLen
    /\ input_fd = Fd => spliced = InputFdLen

\* PerformPipeIo() returns, once the child has written its output and
\* exited, whether or not the child read its stdin (WritePipe() "handles
\* blocking dst_fd").
Terminates == <>(pc = "done")

\* With a non-blocking stdin pipe, PerformPipeIo() returns, once the child
\* has written its output and exited, whether or not it read its stdin.
TerminatesNonBlocking == ~stdin_blocking => <>(pc = "done")

\* A failure has a cause: the output went over the size limit, or the
\* child went away before all of the input was delivered to it.
FailsOnlyForCause ==
  result = "failed" =>
    \/ stdout_len > MaxReadSize \/ stderr_len > MaxReadSize
    \/ input_pos < InputLen
    \/ input_fd = Fd /\ spliced < InputFdLen
=============================================================================
