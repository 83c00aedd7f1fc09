---------------------------- MODULE MCEventLoops ----------------------------
(***************************************************************************)
(* Four components, checked in one run: arc-networkd's IpHelper (a        *)
(* libchrome message loop running posted tasks and a watched fd),         *)
(* libchromeos's GlibMessageLoop, authpolicy's PerformPipeIo() (a poll()  *)
(* loop against a child process) and authpolicy's uid switching.  The     *)
(* variable which, chosen in Init, selects the component whose actions a  *)
(* behaviour takes; the others keep their initial states, so the four     *)
(* state spaces add up.                                                   *)
(***************************************************************************)
EXTENDS Naturals

CONSTANTS Addresses, BadAddresses, ClearCommand, kMaxContainerRetries,
          MaxMessages,
          IdBits, MaxPosts,
          InputLen, InputFdLen, OutLens, ErrLen, PipeCap, BufferSize,
          MaxReadSize, BlockingModes,
          Uids, InitialUid, MaxDepth

VARIABLES phase, setup_posted, con_init_tries, init_done, pending_command,
          watching, address, channel, parent_closed, sent, received, attempts,
          last_id, tasks, sources, running, next_sid, posts,
          pc, revents, stdin_blocking, result, stdin_open, stdout_open,
          stderr_open, input_fd, splicing, spliced, input_pos, stdout_len,
          stderr_len, in_pipe, out_pipe, err_pipe, child_alive, child_out,
          out_total, child_err,
          cred, eff, perm, bnd, scopes, dropped, alive,
          which

IP == INSTANCE IpHelper
GL == INSTANCE GlibMessageLoop
PP == INSTANCE PerformPipeIo
SU == INSTANCE SavedUidSwitch

\* The variable tuples are spelled out: TLC does not take them through the
\* instances inside ENABLED.
ipvars == <<phase, setup_posted, con_init_tries, init_done, pending_command,
           watching, address, channel, parent_closed, sent, received, attempts>>
glvars == <<last_id, tasks, sources, running, next_sid, posts>>
ppvars == <<pc, revents, stdin_blocking, result, stdin_open, stdout_open,
           stderr_open, input_fd, splicing, spliced, input_pos, stdout_len,
           stderr_len, in_pipe, out_pipe, err_pipe, child_alive, child_out,
           out_total, child_err>>
suvars == <<cred, eff, perm, bnd, scopes, dropped, alive>>
all == <<ipvars, glvars, ppvars, suvars, which>>

\* PerformPipeIo()'s inputs vary only where its actions run.
MCInit ==
  /\ which \in {"ip", "glib", "pipe", "uid"}
  /\ IP!Init /\ GL!Init /\ PP!Init /\ SU!Init
  /\ which # "pipe" => input_fd = PP!NoFd /\ ~stdin_blocking
                       /\ out_total = CHOOSE n \in OutLens : TRUE

IpStep(A) == which = "ip" /\ A /\ UNCHANGED <<glvars, ppvars, suvars, which>>
GlStep(A) == which = "glib" /\ A /\ UNCHANGED <<ipvars, ppvars, suvars, which>>
PipeStep(A) == which = "pipe" /\ A /\ UNCHANGED <<ipvars, glvars, suvars, which>>
UidStep(A) == which = "uid" /\ A /\ UNCHANGED <<ipvars, glvars, ppvars, which>>

MCNext ==
  IpStep(IP!Next) \/ GlStep(GL!Next) \/ PipeStep(PP!Next) \/ UidStep(SU!Next)

\* IP!Fairness and PP!Fairness, each on its own component's steps.
MCFairness ==
  /\ WF_all(IpStep(IP!OnInit))
  /\ WF_all(IpStep(IP!InitialSetup))
  /\ WF_all(IpStep(IP!OnFileCanReadWithoutBlocking))
  /\ WF_all(PipeStep(PP!ParentStep))
  /\ WF_all(PipeStep(PP!ChildWriteStdout))
  /\ WF_all(PipeStep(PP!ChildWriteStderr))
  /\ WF_all(PipeStep(PP!ChildExit))

MCSpec == MCInit /\ [][MCNext]_all /\ MCFairness

\* The four type invariants.
MCTypeOK == IP!TypeOK /\ GL!TypeOK /\ PP!TypeOK /\ SU!TypeOK

\* IpHelper: the address follows the last command read
\* (IP!AddressFollowsLastCommand).
AddressFollowsLastCommand == IP!AddressFollowsLastCommand

\* IpHelper: at most kMaxContainerRetries ContainerInit() calls, and
\* LOG(FATAL) only after exactly that many (IP!ContainerRetryBudget).
ContainerRetryBudget == IP!ContainerRetryBudget

\* IpHelper: setup ends, with the container up, or the helper quit or
\* failed (IP!SetupEnds).
SetupEnds == which = "ip" => IP!SetupEnds

\* GlibMessageLoop: tasks_ matches the GLib sources
\* (GL!TaskTableMatchesSources).
TaskTableMatchesSources == GL!TaskTableMatchesSources

\* PerformPipeIo(): a successful return hands back all the child wrote
\* (PP!ReturnsCompleteOutput).
ReturnsCompleteOutput == PP!ReturnsCompleteOutput

\* PerformPipeIo(): with a non-blocking stdin pipe the loop returns
\* (PP!TerminatesNonBlocking).
TerminatesNonBlocking == which = "pipe" => PP!TerminatesNonBlocking

\* Uid switching: after SetSavedUserAndDropCaps() returned true, no code
\* of the process can hold another uid (SU!ConfinedToDroppedUids).
ConfinedToDroppedUids == SU!ConfinedToDroppedUids

=============================================================================
