------------------------------ MODULE Suspender ------------------------------
(***************************************************************************)
(* powerd's suspend state machine, src/power_manager/powerd/policy/        *)
(* suspender.cc, composed with its two SuspendDelayController instances    *)
(* and with the parts of its collaborators whose answers steer it:         *)
(* Delegate (the kernel suspend result, the wakeup-count read, the lid,    *)
(* the persisted "suspend announced" flag) and DarkResume (in dark resume  *)
(* or not, the suspend/shut-down decision, CanSafelyExitDarkResume).       *)
(*                                                                         *)
(* Reentrancy.  HandleEvent() queues an event raised while an event is     *)
(* being handled and the outermost call drains the queue.  The model       *)
(* processes one event per ProcessEvent step; while the queue is not       *)
(* empty nothing else can happen (the thread is inside HandleEvent), so    *)
(* the steps of one drain are exactly the code's single call.  A callback  *)
(* that calls HandleEvent() from outside the handler (a client's vote, a   *)
(* timer) runs the event at once, which is the same as queueing it on an   *)
(* empty queue.                                                            *)
(***************************************************************************)
EXTENDS Integers, Sequences, FiniteSets

CONSTANTS
  Clients,          \* D-Bus clients that may register (dark) suspend delays
  MaxRequests,      \* bound: suspend request ids 1..MaxRequests
  MaxDarkSuspends,  \* bound: dark suspend ids 1..MaxDarkSuspends
  MaxRetries,       \* kRetrySuspendAttemptsPref, read once at Init
  WakeReasons       \* wake reasons daemons report in dark resume

ASSUME MaxRequests \in Nat \ {0} /\ MaxDarkSuspends \in Nat \ {0}
ASSUME MaxRetries \in Nat

kDefaultWakeReason == "Other"

\* Suspender::State
IDLE == "IDLE"
WAITING_FOR_SUSPEND_DELAYS == "WAITING_FOR_SUSPEND_DELAYS"
WAITING_TO_RESUSPEND == "WAITING_TO_RESUSPEND"
SHUTTING_DOWN == "SHUTTING_DOWN"
States == {IDLE, WAITING_FOR_SUSPEND_DELAYS, WAITING_TO_RESUSPEND, SHUTTING_DOWN}
Active == {WAITING_FOR_SUSPEND_DELAYS, WAITING_TO_RESUSPEND}

\* Suspender::Event
SUSPEND_REQUESTED == "SUSPEND_REQUESTED"
SUSPEND_DELAYS_READY == "SUSPEND_DELAYS_READY"
READY_TO_RESUSPEND == "READY_TO_RESUSPEND"
USER_ACTIVITY == "USER_ACTIVITY"
SHUTDOWN_STARTED == "SHUTDOWN_STARTED"
Events == {SUSPEND_REQUESTED, SUSPEND_DELAYS_READY, READY_TO_RESUSPEND,
           USER_ACTIVITY, SHUTDOWN_STARTED}

\* Delegate::SuspendResult and DarkResumeInterface::Action
SUCCESS == "SUCCESS"
FAILURE == "FAILURE"
CANCELED == "CANCELED"
SUSPEND == "SUSPEND"
SHUT_DOWN == "SHUT_DOWN"

\* Why the daemon went to SHUTTING_DOWN (history, for the properties).
ShutdownCauses == {"none", "requested", "dark_resume", "failed_suspend"}

VARIABLES
  state,                   \* state_
  queued_events,           \* queued_events_
  suspend_request_id,      \* suspend_request_id_
  dark_suspend_id,         \* dark_suspend_id_
  suspend_request_supplied_wakeup_count,  \* suspend_request_supplied_wakeup_count_
  wakeup_count_valid,      \* wakeup_count_valid_ (the count itself is abstracted)
  current_num_attempts,    \* current_num_attempts_
  initial_num_attempts,    \* initial_num_attempts_
  resuspend_timer,         \* resuspend_timer_.IsRunning()
  normal,                  \* *suspend_delay_controller_
  dark,                    \* *dark_suspend_delay_controller_
  lost_client,             \* {name} while HandleDBusNameOwnerChanged still has
                           \* to tell the dark controller, else {}
  in_dark_resume,          \* DarkResume: InDarkResume()
  can_safely_exit,         \* DarkResume: CanSafelyExitDarkResume(), per platform
  suspend_announced,       \* Delegate: Get/SetSuspendAnnounced(), survives restarts
  \* history variables
  unanswered,              \* SuspendImminent signals not yet followed by SuspendDone
  request_supplied,        \* the supplied-count flag the current request started with
  failed_in_row,           \* kernel attempts of this request that failed since the last success
  shutdown_cause,
  dark_resume_wake_durations,    \* dark_resume_wake_durations_: the wake
                                 \* reason of each dark resume (durations
                                 \* are abstracted)
  last_dark_resume_wake_reason,  \* last_dark_resume_wake_reason_
  reason_this_wake               \* history: the last reason reported since
                                 \* the current dark resume wake began

wakeVars == <<dark_resume_wake_durations, last_dark_resume_wake_reason,
              reason_this_wake>>

vars == <<state, queued_events, suspend_request_id, dark_suspend_id,
          suspend_request_supplied_wakeup_count, wakeup_count_valid,
          current_num_attempts, initial_num_attempts, resuspend_timer,
          normal, dark, lost_client, in_dark_resume, can_safely_exit,
          suspend_announced, unanswered, request_supplied, failed_in_row,
          shutdown_cause, wakeVars>>

N == INSTANCE SuspendDelayController WITH ctl <- normal, RoundIds <- 1..MaxRequests
D == INSTANCE SuspendDelayController WITH ctl <- dark, RoundIds <- 1..MaxDarkSuspends

\* The SuspendImminent and SuspendDone signals, counted by the history
\* variable `unanswered` (their payload, the ids, is not modelled).
EmitSuspendImminentSignal == unanswered' = unanswered + 1
EmitSuspendDoneSignal == unanswered' = unanswered - 1

\* Nothing is being handled: an external call may start.
Quiet == queued_events = <<>> /\ lost_client = {}

(***************************************************************************)
(* OnReadyForSuspend(): a controller notified in this step.  The id is     *)
(* compared with the ids as they are when the callback runs (after any     *)
(* increment made earlier in the same step); the event it raises is        *)
(* queued.  For the dark controller the wakeup count is re-read now.       *)
(***************************************************************************)
NormalReadyEvent ==
  IF N!NotifiedNow /\ N!NotifiedId = suspend_request_id'
  THEN <<SUSPEND_DELAYS_READY>> ELSE <<>>

\* Variant: the dark id compared as it was before this step.
DarkReadyEventStale ==
  IF D!NotifiedNow /\ D!NotifiedId = dark_suspend_id
  THEN <<READY_TO_RESUSPEND>> ELSE <<>>

DarkReadyEvent ==
  IF D!NotifiedNow /\ D!NotifiedId = dark_suspend_id'
  THEN <<READY_TO_RESUSPEND>> ELSE <<>>

\* wakeup_count_valid_ after a possible dark "ready" in this step.
WakeupCountAfterDarkReady(readValid) ==
  IF DarkReadyEvent # <<>> /\ ~suspend_request_supplied_wakeup_count
  THEN readValid ELSE wakeup_count_valid

(***************************************************************************)
(* Init: the constructor and Init().                                       *)
(***************************************************************************)
Init ==
  /\ state = IDLE
  /\ queued_events = <<>>
  /\ suspend_request_id = 0
  /\ dark_suspend_id = 0
  /\ suspend_request_supplied_wakeup_count = FALSE
  /\ wakeup_count_valid = FALSE
  /\ current_num_attempts = 0
  /\ initial_num_attempts = 0
  /\ resuspend_timer = FALSE
  /\ normal = N!Fresh
  /\ dark = D!Fresh
  /\ lost_client = {}
  /\ in_dark_resume = FALSE
  /\ can_safely_exit \in BOOLEAN
  /\ suspend_announced = FALSE
  /\ unanswered = 0
  /\ request_supplied = FALSE
  /\ failed_in_row = 0
  /\ shutdown_cause = "none"
  /\ dark_resume_wake_durations = <<>>
  /\ last_dark_resume_wake_reason = kDefaultWakeReason
  /\ reason_this_wake = kDefaultWakeReason

(***************************************************************************)
(* FinishRequest(success): stop the resuspend timer, discard both rounds,  *)
(* emit SuspendDone, clear the persisted flag, UndoPrepareToSuspend()      *)
(* (which may request a new suspend: RequestSuspend() then clears the      *)
(* supplied-count flag and queues SUSPEND_REQUESTED) and                   *)
(* DarkResume's UndoPrepareForSuspendRequest().  `rest` is the queue the   *)
(* step started from.  The success flag and the metrics only feed the      *)
(* delegate and are not modelled.                                          *)
(***************************************************************************)
\* Variant: FinishRequest() without resuspend_timer_.Stop().
FinishRequestKeepsTimer(rest, again) ==
  /\ resuspend_timer' = resuspend_timer
  /\ normal' = N!AfterFinishSuspend(normal, suspend_request_id)
  /\ dark' = D!AfterFinishSuspend(dark, dark_suspend_id)
  /\ EmitSuspendDoneSignal
  /\ suspend_announced' = FALSE
  /\ in_dark_resume' = FALSE
  /\ IF again /\ suspend_request_id < MaxRequests
       THEN /\ suspend_request_supplied_wakeup_count' = FALSE
            /\ queued_events' = Append(rest, SUSPEND_REQUESTED)
       ELSE /\ UNCHANGED suspend_request_supplied_wakeup_count
            /\ queued_events' = rest

\* Variant: FinishRequest() without dark_resume_->UndoPrepareForSuspendRequest().
FinishRequestStaysDark(rest, again) ==
  /\ resuspend_timer' = FALSE
  /\ normal' = N!AfterFinishSuspend(normal, suspend_request_id)
  /\ dark' = D!AfterFinishSuspend(dark, dark_suspend_id)
  /\ EmitSuspendDoneSignal
  /\ suspend_announced' = FALSE
  /\ in_dark_resume' = in_dark_resume
  /\ IF again /\ suspend_request_id < MaxRequests
       THEN /\ suspend_request_supplied_wakeup_count' = FALSE
            /\ queued_events' = Append(rest, SUSPEND_REQUESTED)
       ELSE /\ UNCHANGED suspend_request_supplied_wakeup_count
            /\ queued_events' = rest

FinishRequest(rest, again) ==
  /\ resuspend_timer' = FALSE
  /\ normal' = N!AfterFinishSuspend(normal, suspend_request_id)
  /\ dark' = D!AfterFinishSuspend(dark, dark_suspend_id)
  /\ EmitSuspendDoneSignal
  /\ suspend_announced' = FALSE
  /\ in_dark_resume' = FALSE
  /\ IF again /\ suspend_request_id < MaxRequests
       THEN /\ suspend_request_supplied_wakeup_count' = FALSE
            /\ queued_events' = Append(rest, SUSPEND_REQUESTED)
       ELSE /\ UNCHANGED suspend_request_supplied_wakeup_count
            /\ queued_events' = rest

(***************************************************************************)
(* StartRequest(): run on SUSPEND_REQUESTED in IDLE.  The normal round is  *)
(* started after the id is incremented; with no delays registered it is    *)
(* ready at once and SUSPEND_DELAYS_READY is queued behind this event.     *)
(***************************************************************************)
\* Variant: StartRequest() without delegate_->SetSuspendAnnounced(true).
StartRequestUnannounced(rest, readValid) ==
  /\ suspend_request_id' = suspend_request_id + 1
  /\ wakeup_count_valid' =
       IF suspend_request_supplied_wakeup_count THEN TRUE ELSE readValid
  /\ current_num_attempts' = 0
  /\ initial_num_attempts' = 0
  /\ normal' = N!AfterPrepareForSuspend(normal, suspend_request_id')
  /\ suspend_announced' = suspend_announced
  /\ EmitSuspendImminentSignal
  /\ queued_events' = rest \o NormalReadyEvent
  /\ request_supplied' = suspend_request_supplied_wakeup_count
  /\ failed_in_row' = 0
  /\ dark_resume_wake_durations' = <<>>
  /\ last_dark_resume_wake_reason' = kDefaultWakeReason
  /\ reason_this_wake' = kDefaultWakeReason

\* Variant: StartRequest() without resetting the attempt counters.
StartRequestKeepsAttempts(rest, readValid) ==
  /\ suspend_request_id' = suspend_request_id + 1
  /\ wakeup_count_valid' =
       IF suspend_request_supplied_wakeup_count THEN TRUE ELSE readValid
  /\ current_num_attempts' = current_num_attempts
  /\ initial_num_attempts' = initial_num_attempts
  /\ normal' = N!AfterPrepareForSuspend(normal, suspend_request_id')
  /\ suspend_announced' = TRUE
  /\ EmitSuspendImminentSignal
  /\ queued_events' = rest \o NormalReadyEvent
  /\ request_supplied' = suspend_request_supplied_wakeup_count
  /\ failed_in_row' = 0
  /\ dark_resume_wake_durations' = <<>>
  /\ last_dark_resume_wake_reason' = kDefaultWakeReason
  /\ reason_this_wake' = kDefaultWakeReason

StartRequest(rest, readValid) ==
  /\ suspend_request_id' = suspend_request_id + 1
  /\ wakeup_count_valid' =
       IF suspend_request_supplied_wakeup_count THEN TRUE ELSE readValid
  /\ current_num_attempts' = 0
  /\ initial_num_attempts' = 0
  /\ normal' = N!AfterPrepareForSuspend(normal, suspend_request_id')
  /\ suspend_announced' = TRUE
  /\ EmitSuspendImminentSignal
  /\ queued_events' = rest \o NormalReadyEvent
  /\ request_supplied' = suspend_request_supplied_wakeup_count
  /\ failed_in_row' = 0
  /\ dark_resume_wake_durations' = <<>>
  /\ last_dark_resume_wake_reason' = kDefaultWakeReason
  /\ reason_this_wake' = kDefaultWakeReason

(***************************************************************************)
(* Suspend(): one attempt, run on SUSPEND_DELAYS_READY in                  *)
(* WAITING_FOR_SUSPEND_DELAYS or READY_TO_RESUSPEND in                     *)
(* WAITING_TO_RESUSPEND.  The inputs are the collaborators' answers:       *)
(* DarkResume's action, DoSuspend()'s result (CANCELED needs a valid       *)
(* wakeup count: only a mismatch cancels), whether the system woke in dark *)
(* resume after a success, the validity of a wakeup-count read, and        *)
(* whether UndoPrepareToSuspend() requests a new suspend.                  *)
(***************************************************************************)
Results == {SUCCESS, FAILURE} \cup (IF wakeup_count_valid THEN {CANCELED} ELSE {})

\* The condition of the first branch: resumed fully, or canceled with an
\* externally supplied wakeup count (a test's wake alarm would be missed).
FinishesRequest(result, inDark) ==
  /\ ~inDark
  /\ \/ result = SUCCESS
     \/ result = CANCELED /\ suspend_request_supplied_wakeup_count

\* The condition of the "dark resume or canceled" branch.
EntersDarkBranch(result, inDark, attempts) ==
  \/ inDark /\ result = SUCCESS
  \/ result = CANCELED /\ attempts <= MaxRetries

\* Variant: the retry limit checked with >=.
RetriesExhaustedEarly(attempts) == attempts >= MaxRetries

\* The condition for ShutDownForFailedSuspend(): more attempts than retries.
RetriesExhausted(attempts) == attempts > MaxRetries

\* ShutDownForDarkResume() / ShutDownForFailedSuspend(): the delegate starts
\* the shutdown, which calls HandleShutdown() while the event is handled.
ShutDown(rest, cause) ==
  /\ state' = SHUTTING_DOWN
  /\ queued_events' = Append(rest, SHUTDOWN_STARTED)
  /\ shutdown_cause' = cause

SuspendShutDownForDarkResume(rest) ==
  /\ ShutDown(rest, "dark_resume")
  /\ UNCHANGED <<suspend_request_id, dark_suspend_id,
                 suspend_request_supplied_wakeup_count, wakeup_count_valid,
                 current_num_attempts, initial_num_attempts, resuspend_timer,
                 normal, dark, in_dark_resume, suspend_announced, unanswered,
                 request_supplied, failed_in_row, wakeVars>>

\* The wake list with the current wake's entry given the last reported
\* reason, as Suspend() does before DoSuspend().
RecordedWakes ==
  IF dark_resume_wake_durations = <<>> THEN <<>>
  ELSE [dark_resume_wake_durations EXCEPT
          ![Len(dark_resume_wake_durations)] = last_dark_resume_wake_reason]

\* Variant: a new dark resume wake without resetting the last reason.
StartWakeKeepsReason ==
  /\ dark_resume_wake_durations' = Append(RecordedWakes, kDefaultWakeReason)
  /\ UNCHANGED last_dark_resume_wake_reason
  /\ reason_this_wake' = kDefaultWakeReason

\* A successful resuspend woke the system in dark resume again: a new
\* entry with the default reason.
StartWake ==
  /\ dark_resume_wake_durations' = Append(RecordedWakes, kDefaultWakeReason)
  /\ last_dark_resume_wake_reason' = kDefaultWakeReason
  /\ reason_this_wake' = kDefaultWakeReason

\* Any other outcome of the attempt: the entry keeps the reason written.
KeepWake ==
  /\ dark_resume_wake_durations' = RecordedWakes
  /\ UNCHANGED <<last_dark_resume_wake_reason, reason_this_wake>>

SuspendAttempt(rest, result, darkAfter, readValid, again) ==
  LET attempts == current_num_attempts + 1
      inDark   == IF result = SUCCESS THEN darkAfter ELSE in_dark_resume
      failures == IF result = SUCCESS THEN 0 ELSE failed_in_row + 1
  IN
  /\ result \in Results
  \* bound: the environment stops offering dark/cancel rounds at the last id
  /\ EntersDarkBranch(result, inDark, attempts) => dark_suspend_id < MaxDarkSuspends
  /\ failed_in_row' = failures
  /\ UNCHANGED <<suspend_request_id, request_supplied>>
  /\ \/ /\ FinishesRequest(result, inDark)
        /\ current_num_attempts' = attempts
        /\ FinishRequest(rest, again)
        /\ state' = IDLE
        /\ KeepWake
        /\ UNCHANGED <<dark_suspend_id, wakeup_count_valid, initial_num_attempts,
                       shutdown_cause>>
     \/ \* woke in dark resume, or canceled within the retry budget
        /\ ~FinishesRequest(result, inDark)
        /\ EntersDarkBranch(result, inDark, attempts)
        /\ initial_num_attempts' =
             IF inDark /\ initial_num_attempts = 0 THEN attempts ELSE initial_num_attempts
        /\ dark_suspend_id' = dark_suspend_id + 1
        /\ current_num_attempts' = IF result = SUCCESS THEN 0 ELSE attempts
        /\ in_dark_resume' = inDark
        /\ IF result = SUCCESS THEN StartWake ELSE KeepWake
        /\ IF can_safely_exit
             THEN /\ dark' = D!AfterPrepareForSuspend(dark, dark_suspend_id')
                  /\ wakeup_count_valid' = WakeupCountAfterDarkReady(readValid)
                  /\ queued_events' = rest \o DarkReadyEvent
                  /\ UNCHANGED resuspend_timer
             ELSE /\ wakeup_count_valid' = FALSE
                  /\ resuspend_timer' = TRUE
                  /\ queued_events' = rest
                  /\ UNCHANGED dark
        /\ state' = WAITING_TO_RESUSPEND
        /\ UNCHANGED <<normal, suspend_request_supplied_wakeup_count,
                       suspend_announced, unanswered, shutdown_cause>>
     \/ \* failed, or canceled past the budget: shut down or retry later
        /\ ~FinishesRequest(result, inDark)
        /\ ~EntersDarkBranch(result, inDark, attempts)
        /\ current_num_attempts' = attempts
        /\ KeepWake
        /\ in_dark_resume' = inDark
        /\ UNCHANGED <<dark_suspend_id, initial_num_attempts, normal, dark,
                       suspend_request_supplied_wakeup_count,
                       suspend_announced, unanswered>>
        /\ \/ /\ RetriesExhausted(attempts)
              /\ ShutDown(rest, "failed_suspend")
              /\ UNCHANGED <<wakeup_count_valid, resuspend_timer>>
           \/ /\ ~RetriesExhausted(attempts)
              /\ wakeup_count_valid' =
                   IF suspend_request_supplied_wakeup_count THEN wakeup_count_valid
                   ELSE readValid
              /\ resuspend_timer' = TRUE
              /\ queued_events' = rest
              /\ state' = WAITING_TO_RESUSPEND
              /\ UNCHANGED shutdown_cause

Suspend(rest, action, result, darkAfter, readValid, again) ==
  \/ action = SHUT_DOWN /\ SuspendShutDownForDarkResume(rest)
  \/ action = SUSPEND /\ SuspendAttempt(rest, result, darkAfter, readValid, again)

(***************************************************************************)
(* HandleEvent(): one event, taken from the head of the queue, against     *)
(* the current state.  Every collaborator answer the handler may need is   *)
(* chosen up front.                                                        *)
(***************************************************************************)
HandleSuspendRequested(rest, readValid) ==
  \/ /\ state = IDLE
     /\ StartRequest(rest, readValid)
     /\ state' = WAITING_FOR_SUSPEND_DELAYS
     /\ UNCHANGED <<dark_suspend_id, suspend_request_supplied_wakeup_count,
                    resuspend_timer, dark, in_dark_resume, shutdown_cause>>
  \/ /\ state # IDLE
     /\ queued_events' = rest
     /\ UNCHANGED <<state, suspend_request_id, dark_suspend_id,
                    suspend_request_supplied_wakeup_count, wakeup_count_valid,
                    current_num_attempts, initial_num_attempts, resuspend_timer,
                    normal, dark, in_dark_resume, suspend_announced, unanswered,
                    request_supplied, failed_in_row, shutdown_cause, wakeVars>>

\* SUSPEND_DELAYS_READY and READY_TO_RESUSPEND: Suspend() in the state the
\* event belongs to, ignored in any other.
HandleReady(rest, event, action, result, darkAfter, readValid, again) ==
  \/ /\ \/ event = SUSPEND_DELAYS_READY /\ state = WAITING_FOR_SUSPEND_DELAYS
        \/ event = READY_TO_RESUSPEND /\ state = WAITING_TO_RESUSPEND
     /\ Suspend(rest, action, result, darkAfter, readValid, again)
  \/ /\ ~\/ event = SUSPEND_DELAYS_READY /\ state = WAITING_FOR_SUSPEND_DELAYS
         \/ event = READY_TO_RESUSPEND /\ state = WAITING_TO_RESUSPEND
     /\ queued_events' = rest
     /\ UNCHANGED <<state, suspend_request_id, dark_suspend_id,
                    suspend_request_supplied_wakeup_count, wakeup_count_valid,
                    current_num_attempts, initial_num_attempts, resuspend_timer,
                    normal, dark, in_dark_resume, suspend_announced, unanswered,
                    request_supplied, failed_in_row, shutdown_cause, wakeVars>>

\* An active request may be abandoned unless the system is in dark resume
\* on a platform that cannot leave it safely.
MayAbandon ==
  \/ state = WAITING_FOR_SUSPEND_DELAYS
  \/ ~in_dark_resume
  \/ can_safely_exit

\* USER_ACTIVITY (HandleUserActivity(), HandleLidOpened()): ignored while
\* the lid is closed for suspend, since closing it generates input events.
HandleUserActivityEvent(rest, lidClosed, again) ==
  \/ /\ state \in Active
     /\ ~lidClosed
     /\ MayAbandon
     /\ FinishRequest(rest, again)
     /\ state' = IDLE
     /\ UNCHANGED <<suspend_request_id, dark_suspend_id, wakeup_count_valid,
                    current_num_attempts, initial_num_attempts,
                    request_supplied, failed_in_row, shutdown_cause, wakeVars>>
  \/ /\ ~(state \in Active /\ ~lidClosed /\ MayAbandon)
     /\ queued_events' = rest
     /\ UNCHANGED <<state, suspend_request_id, dark_suspend_id,
                    suspend_request_supplied_wakeup_count, wakeup_count_valid,
                    current_num_attempts, initial_num_attempts, resuspend_timer,
                    normal, dark, in_dark_resume, suspend_announced, unanswered,
                    request_supplied, failed_in_row, shutdown_cause, wakeVars>>

\* SHUTDOWN_STARTED: an active request is finished first when that is safe.
HandleShutdownEvent(rest, again) ==
  \/ /\ state \in Active
     /\ MayAbandon
     /\ FinishRequest(rest, again)
     /\ state' = SHUTTING_DOWN
     /\ shutdown_cause' = "requested"
     /\ UNCHANGED <<suspend_request_id, dark_suspend_id, wakeup_count_valid,
                    current_num_attempts, initial_num_attempts,
                    request_supplied, failed_in_row, wakeVars>>
  \/ /\ \/ state = IDLE
        \/ state \in Active /\ ~MayAbandon
     /\ state' = SHUTTING_DOWN
     /\ shutdown_cause' = "requested"
     /\ queued_events' = rest
     /\ UNCHANGED <<suspend_request_id, dark_suspend_id,
                    suspend_request_supplied_wakeup_count, wakeup_count_valid,
                    current_num_attempts, initial_num_attempts, resuspend_timer,
                    normal, dark, in_dark_resume, suspend_announced, unanswered,
                    request_supplied, failed_in_row, wakeVars>>
  \/ /\ state = SHUTTING_DOWN
     /\ queued_events' = rest
     /\ UNCHANGED <<state, suspend_request_id, dark_suspend_id,
                    suspend_request_supplied_wakeup_count, wakeup_count_valid,
                    current_num_attempts, initial_num_attempts, resuspend_timer,
                    normal, dark, in_dark_resume, suspend_announced, unanswered,
                    request_supplied, failed_in_row, shutdown_cause, wakeVars>>

ProcessEvent ==
  /\ queued_events # <<>>
  /\ LET event == Head(queued_events)
         rest  == Tail(queued_events)
     IN  \E readValid, darkAfter, lidClosed, again \in BOOLEAN :
           \/ event = SUSPEND_REQUESTED /\ HandleSuspendRequested(rest, readValid)
           \/ /\ event \in {SUSPEND_DELAYS_READY, READY_TO_RESUSPEND}
              /\ \E action \in {SUSPEND, SHUT_DOWN}, result \in {SUCCESS, FAILURE, CANCELED} :
                   HandleReady(rest, event, action, result, darkAfter, readValid, again)
           \/ event = USER_ACTIVITY /\ HandleUserActivityEvent(rest, lidClosed, again)
           \/ event = SHUTDOWN_STARTED /\ HandleShutdownEvent(rest, again)
  /\ UNCHANGED <<lost_client, can_safely_exit>>

(***************************************************************************)
(* External calls, each entering HandleEvent() or a controller from the    *)
(* event loop.                                                             *)
(***************************************************************************)
\* The controllers and the Suspender's own bookkeeping stay as they are.
Untouched == <<state, suspend_request_id, dark_suspend_id, wakeup_count_valid,
               current_num_attempts, initial_num_attempts, resuspend_timer,
               in_dark_resume, can_safely_exit, suspend_announced, unanswered,
               request_supplied, failed_in_row, shutdown_cause, wakeVars>>

\* RequestSuspend() and RequestSuspendWithExternalWakeupCount(): the flag is
\* written before the event is handled, in whatever state the daemon is.
RequestSuspend(supplied) ==
  /\ Quiet
  /\ suspend_request_id < MaxRequests
  /\ suspend_request_supplied_wakeup_count' = supplied
  /\ queued_events' = <<SUSPEND_REQUESTED>>
  /\ UNCHANGED <<Untouched, normal, dark, lost_client>>

HandleUserActivity ==
  /\ Quiet
  /\ queued_events' = <<USER_ACTIVITY>>
  /\ UNCHANGED <<Untouched, normal, dark, lost_client,
                 suspend_request_supplied_wakeup_count>>

HandleShutdown ==
  /\ Quiet
  /\ queued_events' = <<SHUTDOWN_STARTED>>
  /\ UNCHANGED <<Untouched, normal, dark, lost_client,
                 suspend_request_supplied_wakeup_count>>

\* resuspend_timer_ fires: HandleEvent(READY_TO_RESUSPEND).
ResuspendTimerFires ==
  /\ Quiet
  /\ resuspend_timer
  /\ resuspend_timer' = FALSE
  /\ queued_events' = <<READY_TO_RESUSPEND>>
  /\ UNCHANGED <<state, suspend_request_id, dark_suspend_id, wakeup_count_valid,
                 current_num_attempts, initial_num_attempts, in_dark_resume,
                 can_safely_exit, suspend_announced, unanswered,
                 request_supplied, failed_in_row, shutdown_cause,
                 normal, dark, lost_client, suspend_request_supplied_wakeup_count,
                 wakeVars>>

(***************************************************************************)
(* D-Bus calls into the controllers (RegisterSuspendDelay() ...            *)
(* HandleDarkSuspendReadiness(), via the *Internal() helpers) and their    *)
(* deadline timers.  A notification for the current id raises its event;  *)
(* a dark one re-reads the wakeup count first.                             *)
(***************************************************************************)
ControllerStep(newNormal, newDark, readValid) ==
  /\ UNCHANGED <<state, suspend_request_id, dark_suspend_id,
                 suspend_request_supplied_wakeup_count, current_num_attempts,
                 initial_num_attempts, resuspend_timer, lost_client,
                 in_dark_resume, can_safely_exit, suspend_announced, unanswered,
                 request_supplied, failed_in_row, shutdown_cause, wakeVars>>
  /\ normal' = newNormal
  /\ dark' = newDark
  /\ queued_events' = NormalReadyEvent \o DarkReadyEvent
  /\ wakeup_count_valid' = WakeupCountAfterDarkReady(readValid)

RegisterSuspendDelay(client) ==
  Quiet /\ ControllerStep(N!AfterRegister(normal, client), dark, FALSE)
UnregisterSuspendDelay(client) ==
  Quiet /\ ControllerStep(N!AfterUnregister(normal, client), dark, FALSE)
HandleSuspendReadiness(client, id) ==
  Quiet /\ ControllerStep(N!AfterReadiness(normal, client, id), dark, FALSE)
NormalMaxDelayExpires ==
  /\ Quiet
  /\ normal.timer
  /\ ControllerStep(N!AfterMaxDelayExpiration(normal), dark, FALSE)

RegisterDarkSuspendDelay(client) ==
  Quiet /\ ControllerStep(normal, D!AfterRegister(dark, client), FALSE)
UnregisterDarkSuspendDelay(client, readValid) ==
  Quiet /\ ControllerStep(normal, D!AfterUnregister(dark, client), readValid)
HandleDarkSuspendReadiness(client, id, readValid) ==
  Quiet /\ ControllerStep(normal, D!AfterReadiness(dark, client, id), readValid)
DarkMaxDelayExpires(readValid) ==
  /\ Quiet
  /\ dark.timer
  /\ ControllerStep(normal, D!AfterMaxDelayExpiration(dark), readValid)

\* HandleDBusNameOwnerChanged() with an empty new owner: the normal
\* controller is told first and any event it raises is handled before the
\* dark controller is told (DarkClientDisconnected).
HandleDBusNameOwnerChanged(client) ==
  /\ Quiet
  /\ UNCHANGED <<state, suspend_request_id, dark_suspend_id,
                 suspend_request_supplied_wakeup_count, wakeup_count_valid,
                 current_num_attempts, initial_num_attempts, resuspend_timer,
                 dark, in_dark_resume, can_safely_exit, suspend_announced,
                 unanswered, request_supplied, failed_in_row, shutdown_cause, wakeVars>>
  /\ normal' = N!AfterUnregister(normal, client)
  /\ lost_client' = {client}
  /\ queued_events' = NormalReadyEvent

DarkClientDisconnected(readValid) ==
  /\ queued_events = <<>>
  /\ lost_client # {}
  /\ lost_client' = {}
  /\ UNCHANGED <<state, suspend_request_id, dark_suspend_id>>
  /\ LET client == CHOOSE c \in lost_client : TRUE
     IN  /\ dark' = D!AfterUnregister(dark, client)
         /\ queued_events' = DarkReadyEvent
         /\ wakeup_count_valid' = WakeupCountAfterDarkReady(readValid)
  /\ UNCHANGED <<suspend_request_supplied_wakeup_count, current_num_attempts,
                 initial_num_attempts, resuspend_timer, normal, in_dark_resume,
                 can_safely_exit, suspend_announced, unanswered,
                 request_supplied, failed_in_row, shutdown_cause, wakeVars>>

\* RecordDarkResumeWakeReason(): a daemon reports why the system woke; the
\* last report wins.  A request whose proto does not parse gets an error
\* reply and changes nothing.
RecordDarkResumeWakeReason(reason) ==
  /\ Quiet
  /\ last_dark_resume_wake_reason' = reason
  /\ reason_this_wake' = reason
  /\ UNCHANGED <<state, queued_events, suspend_request_id, dark_suspend_id,
                 suspend_request_supplied_wakeup_count, wakeup_count_valid,
                 current_num_attempts, initial_num_attempts, resuspend_timer,
                 normal, dark, lost_client, in_dark_resume, can_safely_exit,
                 suspend_announced, unanswered, request_supplied,
                 failed_in_row, shutdown_cause, dark_resume_wake_durations>>

(***************************************************************************)
(* The process is restarted (a crash, or the reboot that follows a         *)
(* shutdown) at any point, also between two events of one drain.  Only the *)
(* delegate's persisted flag survives; ids stay fresh because the delegate *)
(* derives the initial ids anew.  Init() then emits a SuspendDone for an   *)
(* announcement that the previous run left unanswered.                     *)
(***************************************************************************)
Restart ==
  /\ state' = IDLE
  /\ queued_events' = <<>>
  /\ lost_client' = {}
  /\ suspend_request_supplied_wakeup_count' = FALSE
  /\ wakeup_count_valid' = FALSE
  /\ current_num_attempts' = 0
  /\ initial_num_attempts' = 0
  /\ resuspend_timer' = FALSE
  /\ normal' = N!AfterRestart(normal)
  /\ dark' = D!AfterRestart(dark)
  /\ in_dark_resume' = FALSE
  /\ suspend_announced' = FALSE
  /\ unanswered' = IF suspend_announced THEN unanswered - 1 ELSE unanswered
  /\ request_supplied' = FALSE
  /\ failed_in_row' = 0
  /\ shutdown_cause' = "none"
  /\ dark_resume_wake_durations' = <<>>
  /\ last_dark_resume_wake_reason' = kDefaultWakeReason
  /\ reason_this_wake' = kDefaultWakeReason
  /\ UNCHANGED <<suspend_request_id, dark_suspend_id, can_safely_exit>>

Next ==
  \/ ProcessEvent
  \/ \E supplied \in BOOLEAN : RequestSuspend(supplied)
  \/ HandleUserActivity
  \/ HandleShutdown
  \/ ResuspendTimerFires
  \/ \E client \in Clients, readValid \in BOOLEAN :
       \/ RegisterSuspendDelay(client)
       \/ UnregisterSuspendDelay(client)
       \/ \E id \in 1..MaxRequests : HandleSuspendReadiness(client, id)
       \/ RegisterDarkSuspendDelay(client)
       \/ UnregisterDarkSuspendDelay(client, readValid)
       \/ \E id \in 1..MaxDarkSuspends : HandleDarkSuspendReadiness(client, id, readValid)
       \/ HandleDBusNameOwnerChanged(client)
  \/ NormalMaxDelayExpires
  \/ \E readValid \in BOOLEAN : DarkMaxDelayExpires(readValid)
  \/ \E readValid \in BOOLEAN : DarkClientDisconnected(readValid)
  \/ \E reason \in WakeReasons : RecordDarkResumeWakeReason(reason)
  \/ Restart

\* The rest of a call runs to its end (ProcessEvent, DarkClientDisconnected:
\* nothing else can run meanwhile), and the event loop eventually runs every
\* timer that stays armed, even while D-Bus calls keep arriving in between
\* (strong fairness: a call leaves the loop non-quiet for a moment).  Users,
\* clients, the kernel and crashes owe nothing.
Fairness ==
  /\ WF_vars(ProcessEvent)
  /\ WF_vars(\E readValid \in BOOLEAN : DarkClientDisconnected(readValid))
  /\ SF_vars(ResuspendTimerFires)
  /\ SF_vars(NormalMaxDelayExpires)
  /\ SF_vars(\E readValid \in BOOLEAN : DarkMaxDelayExpires(readValid))

Spec == Init /\ [][Next]_vars /\ Fairness

(***************************************************************************)
(* Properties                                                              *)
(***************************************************************************)
TypeOK ==
  /\ state \in States
  /\ queued_events \in Seq(Events)
  /\ suspend_request_id \in 0..MaxRequests
  /\ dark_suspend_id \in 0..MaxDarkSuspends
  /\ suspend_request_supplied_wakeup_count \in BOOLEAN
  /\ wakeup_count_valid \in BOOLEAN
  /\ current_num_attempts \in 0..(MaxRetries + 1)
  /\ initial_num_attempts \in 0..(MaxRetries + 1)
  /\ resuspend_timer \in BOOLEAN
  /\ normal \in N!Controller
  /\ dark \in D!Controller
  /\ lost_client \subseteq Clients
  /\ in_dark_resume \in BOOLEAN
  /\ can_safely_exit \in BOOLEAN
  /\ suspend_announced \in BOOLEAN
  /\ unanswered \in -1..2
  /\ request_supplied \in BOOLEAN
  /\ failed_in_row \in Nat
  /\ shutdown_cause \in ShutdownCauses
  /\ dark_resume_wake_durations \in Seq(WakeReasons \cup {kDefaultWakeReason})
  /\ last_dark_resume_wake_reason \in WakeReasons \cup {kDefaultWakeReason}

\* Clients see SuspendImminent and SuspendDone alternate, across crashes and
\* shutdowns: at most one announcement is outstanding; while one is, the
\* delegate's persisted flag records it (so a restart's Init() answers it);
\* and the daemon is never idle with an announcement unanswered.  Broken by
\* a path out of a request that skips FinishRequest() without shutting down,
\* or by a restart that loses the flag.
AnnouncementsAnswered ==
  /\ unanswered \in {0, 1}
  /\ unanswered = 1 => suspend_announced
  /\ state = IDLE => unanswered = 0

\* Number of copies of an event in the queue.
Queued(e) == Len(SelectSeq(queued_events, LAMBDA x : x = e))
Armed(b) == IF b THEN 1 ELSE 0

\* An active request has exactly one thing that will move it on, and idle
\* has none: while waiting for suspend delays, the open normal round or its
\* queued SUSPEND_DELAYS_READY; while waiting to resuspend, exactly one of
\* the resuspend timer, an open dark round and a queued READY_TO_RESUSPEND.
\* None means the request hangs; two means a second Suspend() from a stale
\* source.  It takes the timer, both controllers' rounds, the id checks of
\* OnReadyForSuspend() and the reentrancy queue to keep.
ExactlyOneWakeSource ==
  /\ state = WAITING_FOR_SUSPEND_DELAYS =>
       /\ Armed(normal.pending # {}) + Queued(SUSPEND_DELAYS_READY) = 1
       /\ dark.pending = {} /\ ~resuspend_timer
  /\ state = WAITING_TO_RESUSPEND =>
       /\ Armed(resuspend_timer) + Armed(dark.pending # {})
            + Queued(READY_TO_RESUSPEND) = 1
       /\ normal.pending = {}
  /\ state = IDLE =>
       /\ normal.pending = {} /\ dark.pending = {} /\ ~resuspend_timer
       /\ Queued(SUSPEND_DELAYS_READY) + Queued(READY_TO_RESUSPEND) = 0

\* The retry budget: no request makes more than MaxRetries + 1 kernel
\* attempts in a row without a success, and ShutDownForFailedSuspend() is
\* called exactly when that many have failed or been canceled (the counter
\* is reset by a successful dark resume only, and shared by the canceled
\* and failed paths).
RetryBudget ==
  /\ [](failed_in_row <= MaxRetries + 1)
  /\ [][shutdown_cause' = "failed_suspend" /\ shutdown_cause # "failed_suspend"
          => failed_in_row' = MaxRetries + 1]_vars

\* Spec 4.2: "the externally-supplied-wakeup-count flag, once set for a
\* request, is sticky for the whole request's lifetime".  RequestSuspend()
\* and RequestSuspendWithExternalWakeupCount() write the flag before
\* HandleEvent() ignores their event in an active state.
SuppliedCountSticky ==
  state \in Active => suspend_request_supplied_wakeup_count = request_supplied
\* The wake-reason metrics name the right wake: whenever Suspend() writes
\* the reason of the current dark resume wake into its entry of
\* dark_resume_wake_durations_, that is the last reason a daemon reported
\* during this wake, or the default when none did, never one left over
\* from an earlier wake, across failed and canceled resuspends, retries
\* and reports arriving between them.
WakeReasonOfOwnWake ==
  [][LET d == dark_resume_wake_durations
         k == Len(d)
     IN  k > 0 /\ Len(dark_resume_wake_durations') >= k
           /\ dark_resume_wake_durations'[k] # d[k]
           => dark_resume_wake_durations'[k] = reason_this_wake]_vars

(***************************************************************************)
(* Refinement: the Suspender implements SuspendAnnouncements.  The         *)
(* announcement count is the signal history, the ids and dark resume are   *)
(* the daemon's and DarkResume's own, and SHUTTING_DOWN is the shutdown.   *)
(***************************************************************************)
Announcements == INSTANCE SuspendAnnouncements WITH
  outstanding <- unanswered,
  request     <- suspend_request_id,
  dark_round  <- dark_suspend_id,
  dark_resume <- in_dark_resume,
  down        <- (state = SHUTTING_DOWN)

\* Seen from outside, the Suspender only announces a request with a fresh
\* id when none is outstanding and it is not shutting down, starts dark
\* rounds and enters dark resume only inside an announced request, leaves
\* dark resume when it answers, never leaves SHUTTING_DOWN but by a
\* restart, and answers every announcement unless it shuts down.
ImplementsAnnouncements == Announcements!Spec

\* Both delay controllers, driven by the Suspender itself: no round is
\* notified ready twice or after it was discarded (by FinishRequest(), a
\* newer round or a restart), whatever the clients do meanwhile.
RoundsReadyAtMostOnce == N!ReadyAtMostOnce /\ D!ReadyAtMostOnce

=============================================================================
