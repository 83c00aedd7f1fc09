# TLA+ models of platform2 components

This directory holds TLA+ modules and TLC configurations for the sources under
`src/`. The core is powerd's `Suspender`
(`src/power_manager/powerd/policy/suspender.cc`) together with the two
`SuspendDelayController` instances it owns; `spec.md` describes both. Around it
are models of the keyboard backlight controller, the server-backed state key
generator, arc-networkd's IP helper, libchromeos's GLib message loop,
authpolicy's pipe I/O, cromo's SMS text codecs and powerd's WiFi
transmit-power helper. `SuspendAnnouncements` is an abstract specification
of what the Suspender promises its clients, and `Suspender` is checked to
implement it.

## 1. Inventory

### 1.1 Parts of the system

| Part | Source | State | Operations |
|---|---|---|---|
| Suspender | `powerd/policy/suspender.cc` | `state_`, `queued_events_`, `handling_event_`/`processing_queued_events_`, `suspend_request_id_`, `dark_suspend_id_`, `suspend_request_supplied_wakeup_count_`, `wakeup_count_valid_`, `current_num_attempts_`, `initial_num_attempts_`, `resuspend_timer_`, `dark_resume_wake_durations_` (reasons only), `last_dark_resume_wake_reason_` | `Init`, `RequestSuspend[WithExternalWakeupCount]`, the six delay D-Bus methods, `RecordDarkResumeWakeReason`, `HandleLidOpened`/`HandleUserActivity`, `HandleShutdown`, `HandleDBusNameOwnerChanged`, `OnReadyForSuspend`, `HandleEvent`, `StartRequest`, `Suspend`, `FinishRequest`, the resuspend timer |
| SuspendDelayController (×2: normal, dark) | not in `src/`; spec §4.1 | registrations, the current round's id, pending clients, one deadline timer | Register, Unregister, client disconnect, PrepareForSuspend, HandleReadiness, FinishSuspend, deadline |
| Delegate, DarkResume | not in `src/`; spec §6 | the persisted "suspend announced" flag; in-dark-resume | answers to `DoSuspend`, `ReadSuspendWakeupCount`, `IsLidClosedForSuspend`, `GetActionForSuspendAttempt`, `InDarkResume`, `CanSafelyExitDarkResume`; callbacks `UndoPrepareToSuspend` (may request suspend again) and `ShutDownFor*` (call `HandleShutdown`) |
| Keyboard backlight controller | `powerd/policy/keyboard_backlight_controller.cc` | user step, automated percent, activity and hover times, hover, fullscreen, forcing flags, video and turn-off timers, current level | every handler, the two timers, `Init` |
| State key generator | `login_manager/server_backed_state_key_generator.cc` | machine info identifiers, pending callbacks | `RequestStateKeys`, `InitMachineInfo`; `ParseMachineInfo`, `ComputeKeys` as operators |
| GLib message loop | `libchromeos/chromeos/message_loops/glib_message_loop.cc` | `last_id_`, `tasks_`, the GLib sources | `PostDelayedTask`, `CancelTask`, dispatch, `OnRanPostedTask` |
| IP helper | `arc-networkd/ip_helper.cc` | `con_init_tries_`, `init_done_`, `pending_command_`, the address set | `OnInit`, `InitialSetup`, `OnFileCanReadWithoutBlocking`, `HandleCommand` |
| authpolicy pipe I/O | `authpolicy/platform_helper.cc` | the fds, positions, output buffers, three pipes, a child | `PerformPipeIo` (with `ReadPipe`, `SplicePipe`, `WritePipe`) step by step; `ReadPipeToString` as an operator |
| authpolicy uid switching | `authpolicy/platform_helper.cc` | real/effective/saved uid, capability sets, live `ScopedSwitchToSavedUid` objects | `SetSavedUserAndDropCaps`, the scope's constructor and destructor; other code's `setresuid()`/`capset()` |
| WiFi transmit power helper | `powerd/set_wifi_transmit_power.cc` | `err_`, the message, the socket's receive queue | `SetPowerMode()` step by step, the libnl callbacks; the kernel's answer inside `nl_send_auto()` |
| cromo utilities | `cromo/utilities.cc` | none (pure algorithms) | GSM 7-bit and UCS-2 codecs, `HexEsnToDecimal`, `ExtractString`/`ExtractUint32` as operators |
| quipper build-id lookup | `chromiumos-wide-profiling/dso.cc` | none (pure algorithm) | `ReadElfBuildId`, `FindElfSection`, `GetBuildID` as operators |
| authpolicy parser tool | `authpolicy/authpolicy_parser_main.cc` | none (pure algorithms) | `ParseGpoList` (with `GpoEntry`, `PushGpo`, the filesyspath split) and `ParseTgtLifetime` as operators |
| delta generator tool | `update_engine/payload_generator/generate_delta_main.cc` | none (one invocation) | `Main()` with `ParseSignatureSizes`, `ParseImageInfo` and the five operations, as an operator |
| metrics client tool | `metrics/metrics_client.cc` | none (one invocation) | `main()` with getopt, `SendStats` and the library calls, as an operator |
| CLIs, parsers, wrappers, headers, tests | the rest | none worth exploring | not modelled (see `PROJECT.json`) |

### 1.2 How the suspend parts interact

An external call enters `HandleEvent()`, the event loop fires a timer, or a
client votes through D-Bus. The state machine then may:
- start a normal voting round;
- call the blocking `DoSuspend()`;
- start a dark round;
- arm the resuspend timer;
- finish the request.

A controller reports "ready" through `OnReadyForSuspend()`, which calls
`HandleEvent()` again. Delegate callbacks re-enter `HandleEvent()` too. All of
this runs on one thread. Reentrancy is resolved by a FIFO queue that only the
outermost `HandleEvent()` drains.

### 1.3 Hard behaviours

- Events raised inside handlers are queued and handled in order.
- A readiness callback may run synchronously inside `PrepareForSuspend()`.
- A client that vanishes is removed from the normal controller. The resulting
  events run to completion before the dark controller hears of it.
- Stale rounds and stale timers.
- Crashes between SuspendImminent and SuspendDone. The persisted flag is
  answered by the next `Init()`.
- The retry budget is shared by CANCELED and FAILURE and reset only on
  success.
- Dark-resume cycles, and platforms that cannot leave dark resume.
- Shutdown paths that deliberately skip `FinishRequest()`.

`PROJECT.json` lists each hazard at its source line.

## 2. Plan

Done:
1. `SuspendDelayController`, the voting mechanism on its own.
2. `Suspender`, composing two controller instances and the collaborators'
   answers.
3. `KeyboardBacklightController`: activity, video and hover timers and
   brightness steps.
4. `ServerBackedStateKeyGenerator`: parked callbacks and time-quantized keys.
5. `PerformPipeIo` and `ReadPipeToString` (authpolicy).
6. `CromoUtilities`: the codecs as operators, checked against references.
7. `IpHelper` and `GlibMessageLoop`.
8. `SuspendAnnouncements`, the abstract specification of the Suspender, and
   the refinement; the dark-resume wake reasons.
9. `SetWifiTransmitPower`, the helper and the kernel over netlink.
10. `SavedUidSwitch`, authpolicy's uid and capability handling.
11. `QuipperDso`, the ELF build-id lookup.
12. `AuthpolicyParser`, the GPO list and TGT lifetime parsers.
13. `DeltaGeneratorMain`, delta_generator's operation dispatch.
14. `MetricsClient`, metrics_client's option and argument handling.

Left for later sittings, most valuable first:
- the same for `GlibMessageLoop` against an abstract task set (post, cancel,
  run once);
- the GLib task-id wrap with a narrow id (a violation run);
- more of cromo's 128-entry GSM table.

## 3. Modules

### `SuspendDelayController.tla` (from spec §4.1)

The controller is a record value `ctl` with these fields:
- `registered`;
- `pending`;
- `current` (the round id);
- `timer` (the aggregate deadline is armed);
- two history fields: `notified` (the ids of "ready" notifications, in order) and `dropped` (rounds discarded while clients were pending).

Each operation is a pure operator (`AfterRegister`, `AfterUnregister`,
`AfterPrepareForSuspend`, `AfterReadiness`, `AfterMaxDelayExpiration`,
`AfterFinishSuspend`, `AfterRestart`). `Suspender` can therefore apply them
inside its own steps. The controller is checked only under its real owner, the Suspender: both
instances, with the Suspender starting, finishing and restarting rounds. The
per-client timeouts are
abstracted to a single deadline that may fire at any time while it is armed.
This matches "maximum of the timeouts, one timer".

### `Suspender.tla` (from `suspender.cc`)

Each variable is a member of `Suspender`; the comment beside it names the
member. Ghost variables record history for the properties:
- `unanswered`: SuspendImminent signals not yet followed by SuspendDone, counted by
  `EmitSuspendImminentSignal` and `EmitSuspendDoneSignal` (the emit helpers);
- `request_supplied`: the flag the request started with;
- `failed_in_row`;
- `shutdown_cause`.

`normal` and `dark` are the two controllers, instanced as `N` and `D` with
round ids `1..MaxRequests` and `1..MaxDarkSuspends`. Collaborators are
represented only by their answers, chosen with `\E` at the step where the code
asks for them:
- `DoSuspend` returns CANCELED only when a valid wakeup count was passed;
- `InDarkResume` changes only after a success (`HandleSuccessfulResume`);
- the wakeup-count read is valid or not;
- the lid is closed or open;
- `UndoPrepareToSuspend` may call `RequestSuspend()`;
- `GetActionForSuspendAttempt` returns SUSPEND or SHUT_DOWN;
- `CanSafelyExitDarkResume` is fixed per platform, chosen at `Init`.

**Reentrancy.** `queued_events` is `queued_events_`. An external call puts its
event on an empty queue. `ProcessEvent` handles the head against the current
`state` with the whole `HandleEvent()` case: `StartRequest`, `Suspend`
(`SuspendAttempt`) or `FinishRequest`, including every nested call.
- Events raised by nested calls are appended: an immediate controller ready,
  SUSPEND_REQUESTED from `UndoPrepareToSuspend`, SHUTDOWN_STARTED from
  `ShutDownFor*`.
- External calls require `Quiet` (empty queue, no unfinished disconnect). The
  steps of one drain are therefore exactly one call of the outermost
  `HandleEvent()`.
- `HandleDBusNameOwnerChanged` tells the normal controller, then
  `DarkClientDisconnected` finishes the same call with the dark controller once
  the events it raised have been handled.

**Readiness ids.** `NormalReadyEvent` and `DarkReadyEvent` model
`OnReadyForSuspend()`. They compare the notified id with the ids as they are
when the callback runs: after an increment made earlier in the same handler.

**Wake reasons.** `dark_resume_wake_durations` keeps, per dark resume wake,
only the reason (`WakeReasons`, plus `kDefaultWakeReason`). `Suspend()`
updates the last entry with `last_dark_resume_wake_reason_` after each
attempt (`RecordedWakes`) and, when an attempt succeeds into dark resume,
appends a new entry and resets the reason (`StartWake`).
`RecordDarkResumeWakeReason` sets the reason. The ghost `reason_this_wake`
holds the reason reported since the current wake began.

**Crash.** `Restart` models a crash or reboot at any point, including between
two events of one drain. It keeps only the persisted announced flag and then
runs `Init()`'s cleanup, which answers an unanswered announcement. Ids stay
fresh because the delegate derives the initial ids anew.

### `SuspendAnnouncements.tla` (abstract)

What clients see of the Suspender, with no events, delays or timers:
`outstanding` SuspendImminent signals (0 or 1), the last request id, the last
dark round id, whether the system is in dark resume, and whether it is
shutting down. `Announce` starts a request with a fresh id, `DarkRound` starts
a dark round inside it (and may enter dark resume), `Answer` sends SuspendDone
and leaves dark resume, `ShutDown` may leave the request unanswered, `Restart`
answers what was left. `Spec` requires `WF(Answer)`: every announcement is
answered unless the system shuts down. `Suspender` instances it as
`Announcements` with `outstanding <- unanswered`, `request <-
suspend_request_id`, `dark_round <- dark_suspend_id`, `dark_resume <-
in_dark_resume` and `down <- (state = SHUTTING_DOWN)`; each Suspender step is
one abstract step or a stutter.

### `SetWifiTransmitPower.tla` (from `set_wifi_transmit_power.cc`)

`pc` follows `SetPowerMode()`: `GenlConnect`, `GenlCtrlResolve` (each may fail
its CHECK), `BuildMessage` (`GetWirelessDeviceIndex`, `GetWirelessDriverType`
and `FillMessageMwifiex`/`FillMessageIwl` as operators, with the real
attribute ids and values), `NlSendAuto`, the `while (err_ != 0)` loop
(`NlRecvmsgs` runs one answer through the callbacks) and `Return`. `to_user`
is the socket's receive queue. Linux handles generic netlink inside
`sendmsg()`, so the kernel's answer is part of `NlSendAuto`: the device's
driver ACKs its own vendor command and takes it (`applied`), and any other
command is answered with `-EOPNOTSUPP`. Both happen before `nl_send_auto()`
returns. The tablet flag, the device's
driver (mwifiex, iwl7000, or another) and which interfaces exist are chosen
in `Init`.

### `KeyboardBacklightController.tla` (from `keyboard_backlight_controller.cc`)

Variables are the controller's members. `now` is the clock (`clock_`), an
integer advanced by `Tick` up to `MaxTime`. The two `base::Timer`s are
deadlines (`NoTimer` when stopped): `Tick` may not pass an armed deadline, so
`HandleVideoTimeout` and `TurnOffTimerFires` run at exactly their time. Null
times are `Null`. The prefs (sensor present, hover support, turn on for user
activity) are chosen at `Init`; the percents the ambient light handler may
report and the user steps are constants.

Each handler is one action, including the `UpdateTurnOffTimer()` and
`UpdateState()` calls it makes, in the code's order. `UpdateStatePercent` is
`UpdateState()`'s decision; `ApplyBrightnessPercent` has three outcomes: the
level is already right, `SetBrightnessLevel()` succeeds, or it fails and
`current_level_` stays. The ghost `unapplied` records that the last
application failed (or, with a sensor, that no percent has been reported yet).
Handlers that return early when nothing changes are enabled only when something
does. The eight flag setters share `SetFlag`.

`MCKeyboardBacklightController` bounds the forcing conditions (`tablet_mode`,
dimmed, off, suspended, shutting down, docked, forced off, display zero) to at
most one at a time (`ConditionBound`): they all lead to the same early branches
of `UpdateState()`, and combinations only multiply states.

### `ServerBackedStateKeyGenerator.tla` (from `server_backed_state_key_generator.cc`)

Variables are the generator's members plus `now` (the wall clock) and history
(`requested`, `answers`, `inits`). `RequestStateKeys(cb)` parks the callback
until the machine info is there and answers it at once afterwards.
`InitMachineInfo(params)` stores the identifiers (the serial number from the
first key present in priority order, keeping the old one when none is),
computes the keys once and runs the parked callbacks after swapping the list
out. `ComputeKeys` quantizes the time by masking its low `QuantumPower` bits
and yields `FutureQuanta` keys, or none when identifiers are missing or a
crypto step fails. HMAC-SHA256 and SHA-256 are injective constructors of their
inputs: the properties are about which inputs keys are made of, not about
hashing. `ParseMachineInfo` is an operator over the key-value pairs
`SplitStringIntoKeyValuePairs` yields; `TrimString` strips quotes and spaces.

### `PerformPipeIo.tla` (from `authpolicy/platform_helper.cc`)

The parent's loop is a program counter: `Poll` computes `revents` for the
open fds as Linux reports them for pipes (POLLIN with data, POLLHUP without
writers, POLLOUT with room, POLLERR without readers) and checks POLLERR first;
`ReadStdout`/`ReadStderr` are `ReadPipe`; `WriteStdin` is `SplicePipe` while
`input_fd` lasts, then `WritePipe`; `BlockedWrite` is a blocking `write()` of
more than the pipe holds, waiting for room; `CheckSizeLimits` ends the
iteration. The child reads stdin, writes `out_total` units to stdout and
`ErrLen` to stderr, and exits; pipes hold `PipeCap` units. Data are counts of
units: what the properties distinguish is how much arrived.

### `SavedUidSwitch.tla` (from `authpolicy/platform_helper.cc`)

`cred` holds the real, effective and saved uid. `eff`, `perm` and `bnd` are
the effective, permitted and bounding capability sets, over `CAP_SETUID` and
`CAP_SETPCAP`. `scopes` is the stack of live `ScopedSwitchToSavedUid` objects,
each with its two members. The kernel's rules are operators: without `CAP_SETUID`, `setresuid()`
may only pick ids the process already holds. `capset()` can only shrink the
permitted set. The actions are:
- `SetSavedUserAndDropCaps`, in its order, where the first failing step
  returns false and keeps what earlier steps did;
- the constructor and the destructor, where a failed CHECK ends the process;
- `OtherSetresuid` and `OtherCapset`, any other code of the process.

Nothing in the repository calls these functions, so every order of calls is
allowed. The process starts as a non-root user holding both capabilities, as
minijail starts authpolicyd.

### `ReadPipeToString.tla`

`ReadPipeToString` is the set of its outcomes over all the ways its `read()`
calls may go: short reads, failures, the end of the file, and the one-byte
read past `kMaxReadSize` that tells a file of exactly that size from a longer
one. `ReadLoop` is recursive over the bytes read so far.

### `CromoUtilities.tla` (from `cromo/utilities.cc`)

Operators on sequences of byte values, with `uint8_t` truncation (`Byte`) and
the bit operations of `Bitwise`: `Gsm7ToUtf8String` (unpacking, then the map
loop with its escape handling), `Utf8StringToGsm7` (the encode loop over UTF-8
lead bytes, then packing), `Ucs2ToUtf8String`, `Utf8StringToUcs2`,
`HexEsnToDecimal` and `Extract` (both `ExtractString` and `ExtractUint32`).
The 128-entry GSM table is restricted to seven codes, among them the two that
map to a space; the extension table is complete. `HexEsnToDecimal` includes
`strtoul` as glibc does it (white space, sign, `0x` prefix, negation modulo
2^64) and keeps 32-bit values split at bit 24, since TLC's integers are 32-bit.
A D-Bus property map is a function from keys to typed values.

### `QuipperDso.tla` (from `chromiumos-wide-profiling/dso.cc`)

An ELF file is a record with four parts:
- what `open()`/`elf_begin()`/`elf_kind()` make of it;
- whether the section-name string table is readable;
- whether `elf_getdata()` returns the chosen note section's data;
- its sections in order, each with a name (or `Unreadable`) and its notes as
  `gelf_getnote()` yields them.

`FindLoop` is `FindElfSection`'s loop. It has the early return for the most
preferred name, the strict `found < best_match`, and the `nullptr` return at
an unreadable name. `NoteLoop` is `GetBuildID`'s note loop. libelf itself is
taken to be right.

### `AuthpolicyParser.tla` (from `authpolicy/authpolicy_parser_main.cc`)

The input has already been split into trimmed, non-empty lines. A `net ads
gpo list` line is a record: a separator, a skipped line, or a known key with
its value. The value of a name or filesyspath is text. A version or flags
value is what `ParseGpoVersion()`/`ParseGpFlags()` return. Their code is not
in `src/`, so `samba_helper.h`'s contract stands for it: a number, or
`BadValue`.
- `ParseLine` is one iteration of `ParseGpoList`'s loop, with the
  already-set tests exactly as written. A version counts as set only when it
  is non-zero, and flags only when they are valid.
- `PushGpo` drops empty and invalid entries, and filters by scope with
  `Bitwise`'s `&`.
- `SplitFilesyspath` is `base::SplitString(..., "\\/", TRIM_WHITESPACE,
  SPLIT_WANT_ALL)` over characters, followed by the checks, the base path
  and `JoinString`.
- `TgtLoop` is `ParseTgtLifetime`'s loop. A date on a klist line is the time
  `ParseTgtDateTime()` reads, or `BadValue`.

### `DeltaGeneratorMain.tla` (from `update_engine/payload_generator/generate_delta_main.cc`)

`Main` is an operator over one invocation. An invocation is the set of flags
`Main()` tests that are given, the pieces of `--signature_size` as
`StringToInt()` reads them, the state of each image-info group (none, all
four, or some), the minor version on the command line, the one
`GetMinorVersion()` finds in the conf, and whether the `CHECK`ed library
steps and `GenerateDeltaUpdateFile()` succeed. The result is the exit status
(134 for `LOG(FATAL)` and a failed `CHECK`), the operation, and for a
generated payload its minor version and old image info.
- `ParseSignatureSizes` runs before any operation is chosen, so a bad size
  aborts every operation.
- The operations are tried in `Main()`'s order: hash for signing, sign,
  verify, apply, and payload generation when no selecting flag is given.
  Each one's `LOG_IF(FATAL, ...empty())` is `Need`.
- `Generate` has the `CHECK`s on the payload flags, `ParseImageInfo`'s
  `CHECK_EQ` for both groups, the directory checks of a delta,
  `MinorVersion`, and the supported-version test.

The conf is read from `--old_dir`. For a full payload `--old_dir` is
normally empty, so `etc/update_engine.conf` is resolved against the working
directory. This is not what the comment says ("in the old image"). The model
takes the conf's answer as an input, so the run shows the dispatch for any
answer, and does not judge where the file is read from.

### `MetricsClient.tla` (from `metrics/metrics_client.cc`)

`Main` is an operator over the argument list and the library's answer. An
argument carries its text, its option character when it is `-x`, and the
numbers `ParseInt()` and `ParseDouble()*1000` read from it (`NoNumber` when
the whole text is not a number).
- `ParseArgs` is the `getopt()` loop with `main()`'s switch. glibc's
  `getopt()` permutes, so a non-option is set aside and later options are
  still read, and `--` ends the options. An unknown option ends in
  `ShowUsage`.
- `ExpectedArgs` and the `-t` test are the checks before the dispatch.
- `SendStats` parses the sample, and then max or min/max/nbuckets.
- `SendUserAction` through `ShowConsentId` are the library calls. Each is
  abstracted to its name, arguments and answer.

Two things the checked behaviour shows that the usage text does not:
- the last form option wins, and `-t` is silently ignored with
  `-u`, `-v`, `-c`, `-C`, `-D`, `-g` and `-i`;
- a negative number before `--` reads as an unknown option.

The usage text does not mention `-i`.

### `IpHelper.tla` (from `arc-networkd/ip_helper.cc`)

`phase` is created, running, quit or fatal (LOG(FATAL) and failed CHECKs end
the process). `setup_posted` is the posted `InitialSetup` task;
`InitialSetup` fails (and re-posts itself, or gives up after
`kMaxContainerRetries`) or succeeds and handles the pending command.
`OnFileCanReadWithoutBlocking` reads one command (one `read()` is taken to
return one whole message), keeps it as `pending_command` and handles it at
once after initialization; end of file quits. The control socket is created
by arc-networkd's manager, which is not in `src/`, so its type, and with it
whether a `read()` can split or join messages, is unknown here. `HandleCommand` applies Clear or
Set; a Set with a bad prefix length or interface name fails a CHECK. The
parent sends up to `MaxMessages` commands and may close the fd.

### `GlibMessageLoop.tla` (from `glib_message_loop.cc`)

`tasks` is `tasks_` (task id to GLib source id); `sources` the pending GLib
timeout sources; `running` the source whose `OnRanPostedTask` is running its
closure. Delays are left out: any pending source may be dispatched next. A
running closure may post and cancel tasks, its own included; `CancelTask` then
still finds the source (GLib destroys it after dispatch). Task ids are
`IdBits` wide with the zero id skipped.

### MC modules

`MCOperators` checks the pure operators: its variable `input` holds a
`<<kind, data>>` pair chosen in `Init` and never changes, so each property is
evaluated once for every bounded input. `MCEventLoops` checks `IpHelper`,
`GlibMessageLoop`, `PerformPipeIo` and `SavedUidSwitch` in one run: the variable `which`,
chosen in `Init`, selects the component whose steps a behaviour takes, so the
state spaces add up. `MCCromoUtilities` holds the inputs of the two cromo
violation runs.

## 4. Runs

| Run | Checks | Shows |
|---|---|---|
| `suspender` | `TypeOK`, `AnnouncementsAnswered`, `ExactlyOneWakeSource`, `RetryBudget`, `WakeReasonOfOwnWake`, `ImplementsAnnouncements`, `RoundsReadyAtMostOnce` | See below. |
| `suspender_sticky_flag` (violation) | `SuppliedCountSticky` | Finding below. |
| `backlight_policy` | `TypeOK`, `LevelFollowsPolicy` | With `keep_on_delay_` equal to `keep_on_during_video_delay_`, the backlight level is always what `UpdateState()` would choose now, unless the last brightness change failed or the turn-off timer is due this instant. |
| `backlight_video_delay` (violation) | `LevelFollowsPolicy` | Finding below: with a shorter video delay the level goes stale. |
| `state_keys` | `TypeOK`, `CallbacksRunOnceInOrder`, `KeysIdentifyQuanta` | Every request is answered once, in request order, across two `InitMachineInfo` calls and the passing of time; keys of one machine info name the same quantum whenever they are computed, and differ between quanta. |
| `operators` | `PackUnpackRoundTrip`, `TextRoundTrip`, `ParseMatchesReference`, `ReadsWholeFileWithinLimit`, `EsnDecimalRoundTrip`, `FirstTypeErrorKept`, `BuildIdFromPreferredSection`, `GpoListFromBlocks`, `TgtLifetimeFromFirstTicket`, `DeltaOperationFromFlags`, `MetricsCallFromArguments` | The operators agree with independent references over every bounded input (see below). |
| `gsm7_decode_bounds` (violation) | `DecodeInBounds` | Finding below. |
| `ucs2_roundtrip` (violation) | `Ucs2RoundTrip` | Finding below. |
| `event_loops` | `MCTypeOK`, `AddressFollowsLastCommand`, `ContainerRetryBudget`, `SetupEnds`, `TaskTableMatchesSources`, `ReturnsCompleteOutput`, `TerminatesNonBlocking`, `ConfinedToDroppedUids` | See below. |
| `pipe_io_blocking_deadlock` (violation) | `Terminates` | Finding below. |
| `pipe_io_empty_input` (violation) | `FailsOnlyForCause` | Finding below. |
| `wifi_power_ack` (violation) | `ReturnMeansApplied` | Finding below. |

`suspender` shows:
- **`AnnouncementsAnswered`**: clients see SuspendImminent and SuspendDone alternate, across crashes and the shutdown paths that skip `FinishRequest()`.
- **`ExactlyOneWakeSource`**: an active request always has exactly one thing that will move it on, and IDLE has none. Those things are a round, a queued ready event, or the resuspend timer; with none the request hangs, with two a stale source triggers a second `Suspend()`.
- **`RetryBudget`**: shutdown for failed suspend happens after exactly `MaxRetries + 1` unsuccessful attempts in a row.
- **`WakeReasonOfOwnWake`**: whenever `Suspend()` writes the last wake-duration entry, it writes the reason reported during that wake, or the default when none was, never the previous wake's reason.
- **`ImplementsAnnouncements`**: the Suspender implements `SuspendAnnouncements` under the mapping above. Request ids are fresh and announced only when nothing is outstanding and the system is not shutting down. Dark rounds and dark resume occur only inside an announced request. Answering leaves dark resume. SHUTTING_DOWN is left only by a restart. Every announcement is answered unless the system shuts down, which replaces an earlier `RequestCompletes` liveness property.
- **`RoundsReadyAtMostOnce`**: in both controllers, no round is notified ready twice or after it was discarded, under the Suspender's own use of them.

`operators` shows, for each bounded input:
- **`PackUnpackRoundTrip`**: packing up to nine septets and unpacking them gives them back, in `1 + ceil(7n/8)` octets;
- **`TextRoundTrip`**: a text of up to three characters survives `Utf8StringToGsm7` and `Gsm7ToUtf8String`, with each character GSM 7-bit lacks replaced by a space;
- **`ParseMatchesReference`**: `ParseMachineInfo` keeps, per trimmed name, the trimmed value of the first pair;
- **`ReadsWholeFileWithinLimit`**: `ReadPipeToString` succeeds exactly for files of at most `kMaxReadSize` bytes that no `read()` fails on, and then holds the whole file;
- **`EsnDecimalRoundTrip`**: `HexEsnToDecimal` accepts exactly what `strtoul` consumes whole within eight characters, and the 11 digits give back the manufacturer code and serial;
- **`BuildIdFromPreferredSection`**: `ReadElfBuildId` returns the first GNU build-id note of the section with the most preferred note-section name (the first such section on a tie). It fails exactly when the file is unreadable or not ELF, the name table is missing, no note section or build-id note exists, or an unreadable section name comes before every `.note.gnu.build-id` section;
- **`GpoListFromBlocks`**: `ParseGpoList` lists exactly the GPOs of the separator-delimited blocks (each described by the last line of each key) that have a name, a path, valid flags and policy of the scope with the scope's disabled bit clear, in order, each with its split path: `\\service\share\dir...` becomes the base path `service/share` and the directory with its pieces joined by `\`, stated over the separator positions. It fails when there is no separator, a value is bad, a block repeats a key whose member was already set, or a listed path does not split. So a missing separator between two GPOs never merges them silently;
- **`TgtLifetimeFromFirstTicket`**: `ParseTgtLifetime` reports the first krbtgt line whose dates parse. Its validity is the time to expiry, and its renewal the time to a renew-until date on the very next line. Both are clamped at 0;
- **`DeltaOperationFromFlags`**: delta_generator runs the operation named by the first of its selecting flags in `Main()`'s order, or generates a payload when none is given. It exits 0 only when every flag that operation must be passed ("Must pass --x") is there and its steps succeed. It dies on a malformed `--signature_size` whatever the operation. A payload gets the requested, configured or default minor version, or the tool dies if that version is unsupported, and it gets the old image info only for a delta. This is checked against a table of the operations written from the usage messages;
- **`MetricsCallFromArguments`**: metrics_client makes the call of the last form option given anywhere before `--`, or the default histogram call when there is none. It passes exactly the arguments the usage line names, with the sample in milliseconds under `-t`. It exits 1 with the usage for an unknown option, a wrong argument count, `-t` with `-e` or `-s`, or a number that does not parse. Otherwise its exit status is the library's answer where there is one. This is checked against a table of the forms taken from the usage text, with options and operands separated by `SelectSeq`;
- **`FirstTypeErrorKept`**: a caller extracting several properties with one `DBus::Error` gets the right values and keeps the first type error.

`event_loops` shows:
- **`AddressFollowsLastCommand`**: once the container is up, the IP helper's address is what the last command read asks for, however many commands arrived before;
- **`ContainerRetryBudget`**: `ContainerInit` is called at most `kMaxContainerRetries` times, and the helper gives up only after exactly that many failures;
- **`SetupEnds`**: the container comes up, or the helper quits or gives up;
- **`TaskTableMatchesSources`**: `tasks_` and the GLib sources agree, also when closures post and cancel. A `CancelTask` that erased the entry but left the source would break it, and so would an `OnRanPostedTask` that kept the entry;
- **`ReturnsCompleteOutput`**: `PerformPipeIo` returns true only with all the child's output, all input delivered and the output within the limit;
- **`TerminatesNonBlocking`**: with a non-blocking stdin pipe it always returns;
- **`ConfinedToDroppedUids`**: once `SetSavedUserAndDropCaps` has returned true, no sequence of `setresuid()`/`capset()` calls by any code of the process reaches a uid other than the ones it held then.

Every property of a passing run has a mutant in `PROJECT.json`: a plausible
bug in the mapped code that TLC finds the property violated for. Each mutant
is defined just before the definition it replaces and says what it changes.

### Findings

**Sticky wakeup-count flag.**

`RequestSuspend()` and `RequestSuspendWithExternalWakeupCount()` write
`suspend_request_supplied_wakeup_count_` (`suspender.cc:107-117`) before
`HandleEvent()` ignores the SUSPEND_REQUESTED event in an active state. A
second request arriving mid-suspend therefore changes the flag of the
request in flight. That flag decides whether a CANCELED attempt ends the
request (`:521-523`) and whether the wakeup count is re-read (`:243`, `:596`).
Spec §4.2 says the flag is "sticky for the whole request's lifetime". TLC finds
the violation in 5 steps: a request, its delays ready, a dark resume, then
`RequestSuspendWithExternalWakeupCount`.

**Keyboard backlight stays on after the video delay.** `HandleVideoActivity()`
(`keyboard_backlight_controller.cc:184-205`) changes `fullscreen_video_playing_`,
which makes `RecentlyHoveringOrUserActive()` use `keep_on_during_video_delay_`
(`:386-387`). It does not call `UpdateTurnOffTimer()`, so the armed turn-off
timer keeps the deadline computed with `keep_on_delay_`. With keep-on 2 and
video 1, TLC finds: user activity at 0 arms the timer for 2, fullscreen video
starts, and at 1 `UpdateState()` would choose 0% while the backlight stays lit
until 2. The TODO at `:469-471` notes the video/hover interplay is unfinished.

**GSM 7-bit decoding reads past the message.** The map loop of
`Gsm7ToUtf8String` (`cromo/utilities.cc:192`) reads the septet after an escape
without checking that one is left, so a message whose last septet is `0x1b`
reads past the vector. An unknown escaped septet leaves the table iterator on
the last extension entry: the euro sign is written and the loop counters move
apart, so it reads beyond the end again. TLC finds the first case with the
single septet `<<27>>`.

**UCS-2 encoding loses two bits.** For a three-byte UTF-8 character
`Utf8StringToUcs2` (`:335`) masks the second byte with `0x30` where the four
bits it contributes need `0x3c`. U+0A05 comes back from `Ucs2ToUtf8String` as
U+0805.

**Pipe I/O deadlocks with a blocking stdin.** The comment on `WritePipe`
(`authpolicy/platform_helper.cc:72`) says it handles a blocking `dst_fd`. A
blocking `write()` of more than the pipe holds waits for the child to read
(`:88`); a child that first fills its stdout pipe waits for the parent, which
never reads stdout again. TLC finds it with three units of input, three of
output and pipes of two.

**The WiFi helper never waits for the kernel.** The constructor sets `err_`
to 0 (`set_wifi_transmit_power.cc:107`) and nothing changes it before
`while (err_ != 0) nl_recvmsgs(...)` (`:232`). So the loop never runs, and the
ACK or error that libnl requests for the vendor command is never read. The
callbacks registered for it (`:112-115`) never fire, and the helper exits 0
either way. TLC's trace is an ath10k device. The helper takes it for
Intel, sends the iwl SAR command, and the kernel queues `-EOPNOTSUPP` on the
socket within `nl_send_auto()`. `SetPowerMode()` then returns without reading
that answer, and the helper exits 0. Starting `err_` at
1 would not be enough alone: `ErrorHandler` stores a negative error, and the
`!= 0` loop would then block in `nl_recvmsgs()` forever.

**Pipe I/O fails with nothing to write.** `PerformPipeIo` returns false on
POLLERR for any fd before looking at POLLOUT (`:154`). With an empty
`input_str` and no `input_fd`, stdin is closed only at the first POLLOUT; a
child that exits before the first `poll()` leaves the stdin pipe without a
reader, POLLERR is reported on it, and the call fails although all output was
collected. `WritePipe` (`:80-84`) treats an empty input as done at once.

## 5. Bounds

- Two clients (model values). With two, one
  client can vanish while the other is still pending, and a client can hold
  both a normal and a dark delay.
- `MaxRequests = 2`. A request can follow one that was aborted, crashed, or
  re-requested from `UndoPrepareToSuspend`.
- `MaxDarkSuspends = 2`. A dark wake can be followed by a canceled resuspend.
  At the bound, the environment no longer offers outcomes that open another
  dark round.
- `MaxRetries = 1`. Both the retry path and the shutdown after the last failure
  are reached.

- `WakeReasons = {w1}`: one reported reason besides the default tells an
  entry that kept the previous wake's reason from its own.

The suspender run explores about 670,000 states in about two minutes.

WiFi helper: all 24 environments (tablet or not, three drivers, any
subset of the two interface names). The violation needs five steps.

Keyboard backlight: `MaxLevel = 10` (so percent-to-level rounding matters),
user steps `<<0, 40, 100>>`, no-ALS pref 120% (out of range, exercising the
clamp), one ALS percent 30, delays of 2 ticks (1 for video in the violation
run), video timeout 2, `MaxTime = 3`. Three ticks let a timer armed by
activity or a hover end expire, and video start and time out within one
behaviour. About 719,000 states, under a minute.

State keys: two callbacks, two serial numbers (so the priority order of the
serial keys matters), a secret absent, good or malformed, `QuantumPower = 1`,
`FutureQuanta = 2`, the clock up to 3 (two quanta) and two `InitMachineInfo`
calls (so a second one meets answered and parked callbacks). About 30,000
states.

Operators: septet strings up to nine (past an octet boundary, values 0, 85
and 127), texts of up to three characters from eleven (in the table, in the
extension table, and missing, of one to three bytes), up to three key-value
pairs over names that trim to nothing or collide, file sizes up to
`kMaxReadSize + 2` with buffers of 3 and a limit of 5, ESN strings of up to
three characters over digits, space, sign, `x` and a non-hex letter plus
all seven- to nine-digit strings over `1` and `f`, and property maps over two
keys with up to three extractions. ELF files have up to three sections, each
named by one of the three preferences, `.text` or unreadably. Each holds no
note, the build-id note, another note before it, or a build-id note with the
wrong name. GPO lists come in four families:
- two entries, each with any subset of its five key lines in net's order
  (a path that splits or one that does not, options 0 or user-disabled),
  with or without a separator after each; this reaches lists of two GPOs, a
  missing separator, and a last entry without a separator;
- up to four lines in any order over the same lines;
- up to three lines over every kind, skipped lines, zero and bad versions,
  and every flags value among them;
- one complete entry for every trimmed filesyspath of up to seven
  characters over both separators, a letter and a space, which is enough
  for two directory pieces.

Each family is checked for both scopes. klist outputs have up to three lines, with dates
before, at or after now or unparsable. delta_generator invocations come in two
families:
- every subset of the eleven flags `Main()` tests, with no, good or bad
  signature sizes, and steps that succeed or fail;
- every subset of the six payload flags, crossed with each image-info state
  of both groups, the minor version not given, 1 or 2 (unsupported), the
  conf missing or saying 0 or 2, and both step outcomes.

metrics_client gets any three arguments over every option, an unknown
one, `--`, a name, an integer, a real and a negative integer. It also gets a
name followed by up to four numbers, after no option, one option, or two of
`-t` and the form options, and a name followed by an option or `--`. Each
is tried with the library answering yes and no.

About 245,000 inputs, 75 seconds.

Event loops: the IP helper gets two valid addresses, a bad one and Clear,
three commands (so one can override another before initialization) and three
container retries. The GLib loop gets four posts on 3-bit ids, so ids never
wrap, as 64-bit ids never do. `PerformPipeIo` gets four units of input (more
than a pipe holds), `input_fd` of one unit or none, stdout of 2 or 4 units
against a limit of 3, one unit of stderr, pipes of 3 and reads of 2, and both
blocking modes. Uid switching gets three uids: the process's own, the one it
parks in the saved uid, and one it must never reach. Scopes nest two deep,
which is enough for an inner scope to swap back. About 119,000 states in
about 20 seconds.

## 6. Fairness

- `ProcessEvent` and `DarkClientDisconnected` are weakly fair: they are the
  rest of a call that is already running.
- The resuspend timer and both deadline timers are strongly fair. The event
  loop runs every armed timer even if D-Bus calls keep arriving; each call
  briefly makes the loop non-quiet, which would defeat weak fairness.
- The IP helper's `OnInit`, posted `InitialSetup` and fd handler are weakly
  fair: the message loop runs posted tasks and readable watched fds.
- `PerformPipeIo`'s own steps are weakly fair (it runs until it returns), and
  so are the child's writes and its exit; the child's reading of stdin is
  not, so a child that never reads is allowed.
- `SuspendAnnouncements` assumes `WF(Answer)`. The Suspender meets it through
  the fairness above, and the refinement check confirms this.
- Users, clients, the kernel, the arc-networkd parent and crashes get no
  fairness. The GLib loop and the state key generator have only safety
  properties and no fairness.

## 7. Not modelled

- Timestamps and the wake durations themselves (Suspender): only the reason
  of each entry is kept; transition durations and metrics
  counters (keyboard backlight).
- The wakeup count's value; only its validity is kept.
- Malformed D-Bus requests: they are rejected before any state changes.
- `suspend_request_wakeup_count_` as a number.
- The GLib task-id wrap: no run posts `2^IdBits - 1` tasks.
- The framing of the IP helper's protobuf messages on the control socket.
  The socket is created by arc-networkd's manager, which is not in `src/`.
  A `SOCK_SEQPACKET` or datagram socket keeps message boundaries. A stream
  socket would not.
- authpolicy_parser's `ParseRealmInfo`, `ParseWorkgroup` and
  `ParseAccountInfo`: `FindToken`'s code is not in `src/`, and the rest is a
  substring. `ParsePreg`'s PReg parser is not in `src/` either. Also left out
  are protobuf serialization, `strptime()`/`mktime()` (a date is the time
  they give), and `main`'s command dispatch.
- metrics_client's usage text and MetricsLibrary itself (each call is its
  name, arguments and answer).
- delta_generator's library calls (hashing, signing, verification,
  `DeltaPerformer`, `DeltaDiffGenerator::GenerateDeltaUpdateFile`) are abstracted to whether
  they succeed. Logging setup and the flags that are only passed through
  are also left out.
- authpolicy's `DuplicatePipe` (one `tee()`), `GetUserId` and
  `GetEffectiveUserId`: lookups with no state of their own.
- `poll()` and `read()` failures in `PerformPipeIo` other than EINTR/EAGAIN.
- cromo's `DumpHex` (logging) and the rest of the GSM table.
- The WiFi helper's flag parsing and the `nla_put` failure CHECKs (a few
  dozen bytes in a page-sized message never fail). The allocation CHECKs in
  the constructor (`:108-109`) and after `nlmsg_alloc()` (`:208`) are left
  out too: they abort the same way as `GenlConnect`'s failing CHECK.
- quipper's `ReadModuleBuildId` and `ReadBuildIdNote`: their `DataReader`
  and `Align` are not among the sources. `IsKernelNonModuleName` is a string
  prefix test.
- Command-line tools, parsers, stubs, headers and tests, as listed in
  `PROJECT.json`.
