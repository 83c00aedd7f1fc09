------------------------------ MODULE IpHelper ------------------------------
(***************************************************************************)
(* arc-networkd's IpHelper (arc-networkd/ip_helper.cc): the subprocess     *)
(* that configures the ARC container's IPv6 address.  It waits for the    *)
(* container (InitialSetup() retries ContainerInit() on a delayed task),   *)
(* reads Set and Clear commands from its control fd, keeps only the most   *)
(* recent one until initialization is done, and applies commands with     *)
(* ArcIpConfig.                                                            *)
(*                                                                         *)
(* A command is a model value; ArcIpConfig is abstracted to the address    *)
(* it has set (NoAddress after Clear()).  Each read() is taken to return   *)
(* one whole message.  LOG(FATAL) and failed CHECKs end the process.       *)
(***************************************************************************)
EXTENDS Naturals, Sequences

CONSTANTS
  Addresses,             \* SetArcIp commands that pass HandleCommand()'s CHECKs
  BadAddresses,          \* SetArcIp commands with a bad prefix_len or lan_ifname
  ClearCommand,          \* a ClearArcIp command
  kMaxContainerRetries,
  MaxMessages            \* bound on the commands the parent sends

NoCommand == "NoCommand"    \* pending_command_ after Clear()
NoAddress == "NoAddress"    \* ArcIpConfig with no address set
Commands == Addresses \cup BadAddresses \cup {ClearCommand}

VARIABLES
  phase,             \* "created", "running", "quit", "fatal"
  setup_posted,      \* an InitialSetup task is posted (at once or delayed)
  con_init_tries,    \* con_init_tries_
  init_done,         \* init_done_
  pending_command,   \* pending_command_
  watching,          \* control_watcher_ watches control_fd_
  address,           \* what ArcIpConfig has set
  channel,           \* commands sent by the parent, not yet read
  parent_closed,     \* the parent closed its end of the control fd
  sent,              \* history: commands the parent has sent
  received,          \* history: commands read from control_fd_
  attempts           \* history: ContainerInit() calls

vars == <<phase, setup_posted, con_init_tries, init_done, pending_command,
          watching, address, channel, parent_closed, sent, received, attempts>>

Init ==
  /\ phase = "created"
  /\ setup_posted = FALSE
  /\ con_init_tries = 0
  /\ init_done = FALSE
  /\ pending_command = NoCommand
  /\ watching = FALSE
  /\ address = NoAddress
  /\ channel = <<>> /\ parent_closed = FALSE
  /\ sent = <<>> /\ received = <<>>
  /\ attempts = 0

\* The effect of HandleCommand() on the address and the process.
AfterCommand(cmd) ==
  CASE cmd = ClearCommand  -> [address |-> NoAddress, fatal |-> FALSE]
    [] cmd \in Addresses    -> [address |-> cmd, fatal |-> FALSE]
    [] cmd \in BadAddresses -> [address |-> address, fatal |-> TRUE]
    [] OTHER                -> [address |-> address, fatal |-> FALSE]

\* HandleCommand(): Clear() or Set() for the pending command, then
\* pending_command_.Clear().
HandleCommand(cmd) ==
  /\ address' = AfterCommand(cmd).address
  /\ phase' = IF AfterCommand(cmd).fatal THEN "fatal" ELSE phase
  /\ pending_command' = NoCommand

\* OnInit(): the control fd is watched and InitialSetup() posted.
OnInit ==
  /\ phase = "created"
  /\ phase' = "running"
  /\ watching' = TRUE
  /\ setup_posted' = TRUE
  /\ UNCHANGED <<con_init_tries, init_done, pending_command, address, channel,
                 parent_closed, sent, received, attempts>>

\* Variant: the pending command is not handled when the container is up.
InitialSetupSkipsPending ==
  /\ phase = "running" /\ setup_posted
  /\ attempts' = attempts + 1
  /\ UNCHANGED <<watching, channel, parent_closed, sent, received>>
  /\ \/ /\ con_init_tries' = con_init_tries + 1
        /\ IF con_init_tries + 1 >= kMaxContainerRetries
             THEN phase' = "fatal" /\ setup_posted' = FALSE
             ELSE UNCHANGED <<phase, setup_posted>>
        /\ UNCHANGED <<init_done, pending_command, address>>
     \/ /\ init_done' = TRUE
        /\ setup_posted' = FALSE
        /\ UNCHANGED <<con_init_tries, phase, pending_command, address>>

\* Variant: LOG(FATAL) once con_init_tries_ exceeds kMaxContainerRetries.
InitialSetupOffByOne ==
  /\ phase = "running" /\ setup_posted
  /\ attempts' = attempts + 1
  /\ UNCHANGED <<watching, channel, parent_closed, sent, received>>
  /\ \/ /\ con_init_tries' = con_init_tries + 1
        /\ IF con_init_tries + 1 > kMaxContainerRetries
             THEN phase' = "fatal" /\ setup_posted' = FALSE
             ELSE UNCHANGED <<phase, setup_posted>>
        /\ UNCHANGED <<init_done, pending_command, address>>
     \/ /\ init_done' = TRUE
        /\ setup_posted' = FALSE
        /\ HandleCommand(pending_command)
        /\ UNCHANGED con_init_tries

\* Variant: a failed ContainerInit() posts no retry.
InitialSetupNoRetry ==
  /\ phase = "running" /\ setup_posted
  /\ attempts' = attempts + 1
  /\ UNCHANGED <<watching, channel, parent_closed, sent, received>>
  /\ \/ /\ con_init_tries' = con_init_tries + 1
        /\ IF con_init_tries + 1 >= kMaxContainerRetries
             THEN phase' = "fatal" ELSE UNCHANGED phase
        /\ setup_posted' = FALSE
        /\ UNCHANGED <<init_done, pending_command, address>>
     \/ /\ init_done' = TRUE
        /\ setup_posted' = FALSE
        /\ HandleCommand(pending_command)
        /\ UNCHANGED con_init_tries

\* InitialSetup(): ContainerInit() fails and a retry is posted (LOG(FATAL)
\* once ++con_init_tries_ reaches kMaxContainerRetries), or it succeeds
\* and the pending command is handled.
InitialSetup ==
  /\ phase = "running" /\ setup_posted
  /\ attempts' = attempts + 1
  /\ UNCHANGED <<watching, channel, parent_closed, sent, received>>
  /\ \/ /\ con_init_tries' = con_init_tries + 1
        /\ IF con_init_tries + 1 >= kMaxContainerRetries
             THEN phase' = "fatal" /\ setup_posted' = FALSE
             ELSE UNCHANGED <<phase, setup_posted>>
        /\ UNCHANGED <<init_done, pending_command, address>>
     \/ /\ init_done' = TRUE
        /\ setup_posted' = FALSE
        /\ HandleCommand(pending_command)
        /\ UNCHANGED con_init_tries

\* OnFileCanReadWithoutBlocking(): end of file stops watching and quits;
\* a command replaces pending_command_ and is handled at once after
\* initialization.
OnFileCanReadWithoutBlocking ==
  /\ phase = "running" /\ watching
  /\ channel # <<>> \/ parent_closed
  /\ UNCHANGED <<setup_posted, con_init_tries, init_done, parent_closed, sent,
                 attempts>>
  /\ IF channel = <<>>
       THEN /\ watching' = FALSE /\ phase' = "quit"
            /\ UNCHANGED <<pending_command, address, channel, received>>
       ELSE /\ channel' = Tail(channel)
            /\ received' = Append(received, Head(channel))
            /\ UNCHANGED watching
            /\ IF init_done
                 THEN HandleCommand(Head(channel))
                 ELSE /\ pending_command' = Head(channel)
                      /\ UNCHANGED <<phase, address>>

(***************************************************************************)
(* The parent process (arc-networkd's manager) on the control fd.          *)
(***************************************************************************)
SendCommand(cmd) ==
  /\ ~parent_closed /\ Len(sent) < MaxMessages
  /\ channel' = Append(channel, cmd) /\ sent' = Append(sent, cmd)
  /\ UNCHANGED <<phase, setup_posted, con_init_tries, init_done,
                 pending_command, watching, address, parent_closed, received,
                 attempts>>

CloseControl ==
  /\ ~parent_closed
  /\ parent_closed' = TRUE
  /\ UNCHANGED <<phase, setup_posted, con_init_tries, init_done,
                 pending_command, watching, address, channel, sent, received,
                 attempts>>

Next ==
  \/ OnInit \/ InitialSetup \/ OnFileCanReadWithoutBlocking
  \/ \E cmd \in Commands : SendCommand(cmd)
  \/ CloseControl

\* The message loop runs posted tasks and watched fds.
Fairness ==
  WF_vars(OnInit) /\ WF_vars(InitialSetup) /\ WF_vars(OnFileCanReadWithoutBlocking)

Spec == Init /\ [][Next]_vars /\ Fairness

(***************************************************************************)
(* Properties                                                              *)
(***************************************************************************)
TypeOK ==
  /\ phase \in {"created", "running", "quit", "fatal"}
  /\ con_init_tries \in Nat
  /\ pending_command \in Commands \cup {NoCommand}
  /\ address \in Addresses \cup {NoAddress}

\* The address follows the last command read: once initialization is done
\* (and the process alive), ArcIpConfig holds what the most recent command
\* asks for, however many commands came before the container was up.  The
\* code relies on this ("This works because the subprocess only handles Set
\* and Clear operations").
AddressFollowsLastCommand ==
  init_done /\ phase = "running" =>
    address = IF received = <<>> THEN NoAddress
              ELSE AfterCommand(received[Len(received)]).address

\* ContainerInit() is called at most kMaxContainerRetries times, and the
\* process gives up on the container only after exactly that many
\* failures.
ContainerRetryBudget ==
  /\ attempts <= kMaxContainerRetries
  /\ phase = "fatal" /\ ~init_done => attempts = kMaxContainerRetries

\* Setting up ends: the container comes up, or the helper gives up or is
\* told to quit, as long as the message loop runs the posted retries.
SetupEnds == <>(init_done \/ phase \in {"quit", "fatal"})
=============================================================================
