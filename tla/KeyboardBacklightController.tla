--------------------- MODULE KeyboardBacklightController ---------------------
(***************************************************************************)
(* powerd's keyboard backlight policy,                                     *)
(* src/power_manager/powerd/policy/keyboard_backlight_controller.cc.       *)
(*                                                                         *)
(* Time is a tick counter `now`.  The clock's TimeTicks are ticks, a null  *)
(* TimeTicks is Null, and each one-shot timer is its deadline or NoTimer.  *)
(* A timer fires at its deadline: time does not advance past an armed     *)
(* deadline until the timer has run.  Percentages are integers; a level   *)
(* is computed with lround() as the code does.  SetBrightnessLevel() may  *)
(* fail and TransitionInProgress() may hold at any call; both are chosen  *)
(* where ApplyBrightnessPercent() asks.  The adjustment counters and the  *)
(* observer notifications only feed metrics and other controllers and are *)
(* left out.                                                               *)
(***************************************************************************)
EXTENDS Integers, Sequences

CONSTANTS
  MaxLevel,            \* backlight_->GetMaxBrightnessLevel()
  InitialLevel,        \* backlight_->GetCurrentBrightnessLevel() at Init
  RawUserSteps,        \* kKeyboardBacklightUserStepsPref, one percent per line
  NoAlsPercents,       \* kKeyboardBacklightNoAlsBrightnessPref if set (any double)
  AlsPercents,         \* percents the ambient light handler may report
  KeepOnDelay,         \* kKeyboardBacklightKeepOnMsPref, in ticks
  KeepOnDuringVideoDelay, \* kKeyboardBacklightKeepOnDuringVideoMsPref, in ticks
  VideoTimeoutInterval,   \* kVideoTimeoutIntervalMs, in ticks
  MaxTime              \* bound: the clock stops at MaxTime

ASSUME MaxLevel \in Nat /\ InitialLevel \in 0..MaxLevel /\ Len(RawUserSteps) > 0
ASSUME KeepOnDelay \in Nat /\ KeepOnDuringVideoDelay \in Nat
ASSUME VideoTimeoutInterval \in Nat \ {0} /\ MaxTime \in Nat

Null == -1        \* base::TimeTicks() (is_null())
NoTimer == -1     \* a stopped timer
kDimPercent == 10
STOPPED == "STOPPED"
STARTED == "STARTED"

ClampPercent(p) == IF p < 0 THEN 0 ELSE IF p > 100 THEN 100 ELSE p

\* user_steps_: the pref's lines, each clamped (Init()).
UserSteps == [i \in 1..Len(RawUserSteps) |-> ClampPercent(RawUserSteps[i])]
\* user_step_index_ is 0-based in the code; -1 is "no user choice".
Step(idx) == UserSteps[idx + 1]
LastStepIndex == Len(RawUserSteps) - 1

\* Variant: the percent is not clamped before the level is computed.
PercentToLevelUnclamped(percent) ==
  IF MaxLevel = 0 THEN -1 ELSE (2 * MaxLevel * percent + 100) \div 200

\* PercentToLevel(): lround(max_level_ * percent / 100) of a clamped percent.
PercentToLevel(percent) ==
  IF MaxLevel = 0 THEN -1
  ELSE (2 * MaxLevel * ClampPercent(percent) + 100) \div 200

Abs(x) == IF x < 0 THEN -x ELSE x

\* InitUserStepIndex(): the first step nearest to LevelToPercent(level),
\* compared as |level * 100 / max - step| scaled by max_level_.
NearestStepIndex(level) ==
  LET dist(i) == Abs(level * 100 - Step(i) * MaxLevel)
  IN  CHOOSE i \in 0..LastStepIndex :
        /\ \A j \in 0..LastStepIndex : dist(i) <= dist(j)
        /\ \A j \in 0..(i - 1) : dist(j) > dist(i)

VARIABLES
  has_sensor,                   \* ambient_light_handler_ exists (Init())
  supports_hover,               \* supports_hover_ (kDetectHoverPref)
  turn_on_for_user_activity,    \* turn_on_for_user_activity_ (its pref)
  now,                          \* clock_->GetCurrentTime()
  session_state,                \* session_state_
  tablet_mode,                  \* tablet_mode_ = TabletMode::ON
  hovering,                     \* hovering_
  fullscreen_video_playing,     \* fullscreen_video_playing_
  dimmed_for_inactivity,        \* dimmed_for_inactivity_
  off_for_inactivity,           \* off_for_inactivity_
  suspended,                    \* suspended_
  shutting_down,                \* shutting_down_
  docked,                       \* docked_
  forced_off,                   \* forced_off_
  display_brightness_is_zero,   \* display_brightness_is_zero_
  user_step_index,              \* user_step_index_
  automated_percent,            \* automated_percent_
  last_user_activity_time,      \* last_user_activity_time_
  last_hover_time,              \* last_hover_time_
  video_timer,                  \* video_timer_ deadline
  turn_off_timer,               \* turn_off_timer_ deadline
  current_level,                \* current_level_
  unapplied                     \* the last UpdateState() left the level unset

vars == <<has_sensor, supports_hover, turn_on_for_user_activity, now, session_state, tablet_mode, hovering, fullscreen_video_playing,
          dimmed_for_inactivity, off_for_inactivity, suspended, shutting_down,
          docked, forced_off, display_brightness_is_zero, user_step_index,
          automated_percent, last_user_activity_time, last_hover_time,
          video_timer, turn_off_timer, current_level, unapplied>>

(***************************************************************************)
(* The policy, over the current values of the variables.                   *)
(***************************************************************************)

\* RecentlyHoveringOrUserActive()
RecentlyHoveringOrUserActive ==
  LET delay == IF fullscreen_video_playing THEN KeepOnDuringVideoDelay
               ELSE KeepOnDelay
  IN  \/ hovering
      \/ last_hover_time # Null /\ now - last_hover_time < delay
      \/ last_user_activity_time # Null /\ now - last_user_activity_time < delay

\* The percent UpdateState() passes to ApplyBrightnessPercent().
UpdateStatePercent ==
  CASE forced_off \/ shutting_down \/ docked \/ suspended \/ tablet_mode -> 0
    [] user_step_index # -1 ->
         IF (off_for_inactivity \/ dimmed_for_inactivity) /\ ~hovering
         THEN IF off_for_inactivity THEN 0
              ELSE IF kDimPercent < Step(user_step_index) THEN kDimPercent
                   ELSE Step(user_step_index)
         ELSE Step(user_step_index)
    [] supports_hover \/ turn_on_for_user_activity ->
         IF RecentlyHoveringOrUserActive THEN automated_percent ELSE 0
    [] fullscreen_video_playing \/ display_brightness_is_zero
         \/ off_for_inactivity -> 0
    [] dimmed_for_inactivity ->
         IF kDimPercent < automated_percent THEN kDimPercent
         ELSE automated_percent
    [] OTHER -> automated_percent

\* Variant: the deadline counted from the last user activity only.
TurnOffDeadlineActivityOnly ==
  LET start == last_user_activity_time
      delay == IF fullscreen_video_playing THEN KeepOnDuringVideoDelay
               ELSE KeepOnDelay
  IN  CASE hovering \/ start = Null -> NoTimer
        [] delay - (now - start) <= 0 -> NoTimer
        [] OTHER -> start + delay

\* The deadline UpdateTurnOffTimer() arms turn_off_timer_ with, NoTimer when
\* it leaves it stopped: the later of the last hover end and the last user
\* activity, plus the delay that applies now.
TurnOffDeadline ==
  LET start == IF last_hover_time > last_user_activity_time
               THEN last_hover_time ELSE last_user_activity_time
      delay == IF fullscreen_video_playing THEN KeepOnDuringVideoDelay
               ELSE KeepOnDelay
  IN  CASE hovering \/ start = Null -> NoTimer
        [] delay - (now - start) <= 0 -> NoTimer
        [] OTHER -> start + delay

\* UpdateTurnOffTimer(), on the values this step gives the other variables.
UpdateTurnOffTimer ==
  IF ~supports_hover /\ ~turn_on_for_user_activity
  THEN UNCHANGED turn_off_timer
  ELSE turn_off_timer' = TurnOffDeadline'

(***************************************************************************)
(* UpdateState() and ApplyBrightnessPercent(), on the values this step     *)
(* gives the other variables.  The outcomes over both answers of the       *)
(* backlight: a level that is already right is kept (no transition in     *)
(* progress, or one re-set successfully); another level is set when       *)
(* SetBrightnessLevel() succeeds; and whenever SetBrightnessLevel() is     *)
(* called (a different level, or a transition in progress) it may fail,   *)
(* leaving current_level_ as it was.                                      *)
(***************************************************************************)
ApplyBrightnessPercent(percent) ==
  LET level == PercentToLevel(percent)
  IN  \/ level = current_level /\ UNCHANGED current_level /\ unapplied' = FALSE
      \/ level # current_level /\ current_level' = level /\ unapplied' = FALSE
      \/ UNCHANGED current_level /\ unapplied' = TRUE

UpdateState == ApplyBrightnessPercent(UpdateStatePercent')

(***************************************************************************)
(* Init(): prefs are read, the level is taken from the backlight.  Without *)
(* a sensor, automated_percent_ is the last user step unless the no-ALS    *)
(* pref overrides it, and UpdateState() runs; with one, the ambient light *)
(* handler reports a percent later.  The other members start as the       *)
(* constructor leaves them.                                                *)
(***************************************************************************)
Init ==
  /\ has_sensor \in BOOLEAN
  /\ supports_hover \in BOOLEAN
  /\ turn_on_for_user_activity \in BOOLEAN
  /\ now = 0
  /\ session_state = STOPPED
  /\ tablet_mode \in BOOLEAN
  /\ hovering = FALSE
  /\ fullscreen_video_playing = FALSE
  /\ dimmed_for_inactivity = FALSE
  /\ off_for_inactivity = FALSE
  /\ suspended = FALSE
  /\ shutting_down = FALSE
  /\ docked = FALSE
  /\ forced_off = FALSE
  /\ display_brightness_is_zero = FALSE
  /\ user_step_index = -1
  /\ last_user_activity_time = Null
  /\ last_hover_time = Null
  /\ video_timer = NoTimer
  /\ turn_off_timer = NoTimer
  /\ IF has_sensor
       THEN /\ automated_percent \in AlsPercents
            /\ current_level = InitialLevel
            /\ unapplied = TRUE
       ELSE /\ automated_percent \in {UserSteps[Len(UserSteps)]} \cup NoAlsPercents
            /\ LET level == PercentToLevel(UpdateStatePercent)
               IN  \/ current_level = level /\ unapplied = FALSE
                   \/ current_level = InitialLevel /\ unapplied = TRUE

(***************************************************************************)
(* Handlers.  Each one that returns early when nothing changes is enabled *)
(* only when something does (the early return is a stuttering step).      *)
(***************************************************************************)
Prefs == <<has_sensor, supports_hover, turn_on_for_user_activity>>
Flags == <<Prefs, session_state, tablet_mode, hovering, fullscreen_video_playing,
           dimmed_for_inactivity, off_for_inactivity, suspended, shutting_down,
           docked, forced_off, display_brightness_is_zero, user_step_index,
           automated_percent>>
Times == <<now, last_user_activity_time, last_hover_time, video_timer,
           turn_off_timer>>

\* HandleSessionStateChange(): only resets metrics counters besides.
HandleSessionStateChange(s) ==
  /\ session_state' = s
  /\ UNCHANGED <<Prefs, tablet_mode, hovering, fullscreen_video_playing,
                 dimmed_for_inactivity, off_for_inactivity, suspended,
                 shutting_down, docked, forced_off, display_brightness_is_zero,
                 user_step_index, automated_percent, Times, current_level,
                 unapplied>>

HandleUserActivity ==
  /\ last_user_activity_time' = now
  /\ UNCHANGED <<Flags, now, last_hover_time, video_timer>>
  /\ UpdateTurnOffTimer
  /\ UpdateState

\* Fullscreen video reported while no user is logged in is ignored; the
\* video timer is restarted on every report.
HandleVideoActivity(fullscreen) ==
  LET isFullscreen == fullscreen /\ session_state # STOPPED
  IN  /\ video_timer' = IF isFullscreen THEN now + VideoTimeoutInterval ELSE NoTimer
      /\ fullscreen_video_playing' = isFullscreen
      /\ UNCHANGED <<Prefs, session_state, tablet_mode, hovering, dimmed_for_inactivity,
                     off_for_inactivity, suspended, shutting_down, docked,
                     forced_off, display_brightness_is_zero, user_step_index,
                     automated_percent, now, last_user_activity_time,
                     last_hover_time, turn_off_timer>>
      /\ IF isFullscreen # fullscreen_video_playing
           THEN UpdateState
           ELSE UNCHANGED <<current_level, unapplied>>

HandleHoverStateChange(h) ==
  /\ supports_hover
  /\ h # hovering
  /\ hovering' = h
  /\ last_hover_time' = IF h THEN Null ELSE now
  /\ UNCHANGED <<Prefs, session_state, tablet_mode, fullscreen_video_playing,
                 dimmed_for_inactivity, off_for_inactivity, suspended,
                 shutting_down, docked, forced_off, display_brightness_is_zero,
                 user_step_index, automated_percent, now,
                 last_user_activity_time, video_timer>>
  /\ turn_off_timer' = IF h THEN NoTimer ELSE TurnOffDeadline'
  /\ UpdateState

\* A setter of one flag that, when the value changes, calls UpdateState():
\* HandleTabletModeChange(), SetDimmedForInactivity(), SetOffForInactivity(),
\* SetSuspended(), SetShuttingDown(), SetDocked(), SetForcedOff(),
\* OnBrightnessChange() (display_brightness_is_zero_).
SetFlag(flag, value, others) ==
  /\ value # flag
  /\ flag' = value
  /\ UNCHANGED <<others, Prefs, Times>>
  /\ UpdateState

HandleTabletModeChange(m) ==
  SetFlag(tablet_mode, m,
          <<session_state, hovering, fullscreen_video_playing,
            dimmed_for_inactivity, off_for_inactivity, suspended, shutting_down,
            docked, forced_off, display_brightness_is_zero, user_step_index,
            automated_percent>>)
SetDimmedForInactivity(b) ==
  SetFlag(dimmed_for_inactivity, b,
          <<session_state, tablet_mode, hovering, fullscreen_video_playing,
            off_for_inactivity, suspended, shutting_down, docked, forced_off,
            display_brightness_is_zero, user_step_index, automated_percent>>)
SetOffForInactivity(b) ==
  SetFlag(off_for_inactivity, b,
          <<session_state, tablet_mode, hovering, fullscreen_video_playing,
            dimmed_for_inactivity, suspended, shutting_down, docked, forced_off,
            display_brightness_is_zero, user_step_index, automated_percent>>)
SetSuspended(b) ==
  SetFlag(suspended, b,
          <<session_state, tablet_mode, hovering, fullscreen_video_playing,
            dimmed_for_inactivity, off_for_inactivity, shutting_down, docked,
            forced_off, display_brightness_is_zero, user_step_index,
            automated_percent>>)
SetShuttingDown(b) ==
  SetFlag(shutting_down, b,
          <<session_state, tablet_mode, hovering, fullscreen_video_playing,
            dimmed_for_inactivity, off_for_inactivity, suspended, docked,
            forced_off, display_brightness_is_zero, user_step_index,
            automated_percent>>)
SetDocked(b) ==
  SetFlag(docked, b,
          <<session_state, tablet_mode, hovering, fullscreen_video_playing,
            dimmed_for_inactivity, off_for_inactivity, suspended, shutting_down,
            forced_off, display_brightness_is_zero, user_step_index,
            automated_percent>>)
SetForcedOff(b) ==
  SetFlag(forced_off, b,
          <<session_state, tablet_mode, hovering, fullscreen_video_playing,
            dimmed_for_inactivity, off_for_inactivity, suspended, shutting_down,
            docked, display_brightness_is_zero, user_step_index,
            automated_percent>>)
\* The display controller reports a brightness; only zero/non-zero matters.
OnBrightnessChange(zero) ==
  SetFlag(display_brightness_is_zero, zero,
          <<session_state, tablet_mode, hovering, fullscreen_video_playing,
            dimmed_for_inactivity, off_for_inactivity, suspended, shutting_down,
            docked, forced_off, user_step_index, automated_percent>>)

\* IncreaseUserBrightness() / DecreaseUserBrightness(allow_off): the first
\* user adjustment starts from the step nearest to the current level.
StartIndex == IF user_step_index = -1 THEN NearestStepIndex(current_level)
              ELSE user_step_index

IncreaseUserBrightness ==
  /\ user_step_index' =
       IF StartIndex < LastStepIndex THEN StartIndex + 1 ELSE StartIndex
  /\ UNCHANGED <<Prefs, session_state, tablet_mode, hovering, fullscreen_video_playing,
                 dimmed_for_inactivity, off_for_inactivity, suspended,
                 shutting_down, docked, forced_off, display_brightness_is_zero,
                 automated_percent, Times>>
  /\ UpdateState

DecreaseUserBrightness(allow_off) ==
  /\ user_step_index' =
       IF StartIndex > (IF allow_off THEN 0 ELSE 1) THEN StartIndex - 1
       ELSE StartIndex
  /\ UNCHANGED <<Prefs, session_state, tablet_mode, hovering, fullscreen_video_playing,
                 dimmed_for_inactivity, off_for_inactivity, suspended,
                 shutting_down, docked, forced_off, display_brightness_is_zero,
                 automated_percent, Times>>
  /\ UpdateState

\* The ambient light handler's callback (SetBrightnessPercentForAmbientLight).
SetBrightnessPercentForAmbientLight(percent) ==
  /\ has_sensor
  /\ automated_percent' = percent
  /\ UNCHANGED <<Prefs, session_state, tablet_mode, hovering, fullscreen_video_playing,
                 dimmed_for_inactivity, off_for_inactivity, suspended,
                 shutting_down, docked, forced_off, display_brightness_is_zero,
                 user_step_index, Times>>
  /\ UpdateState

\* video_timer_ fires: HandleVideoTimeout().
HandleVideoTimeout ==
  /\ video_timer = now
  /\ video_timer' = NoTimer
  /\ fullscreen_video_playing' = FALSE
  /\ UNCHANGED <<Prefs, session_state, tablet_mode, hovering, dimmed_for_inactivity,
                 off_for_inactivity, suspended, shutting_down, docked,
                 forced_off, display_brightness_is_zero, user_step_index,
                 automated_percent, now, last_user_activity_time,
                 last_hover_time>>
  /\ UpdateState
  /\ UpdateTurnOffTimer

\* turn_off_timer_ fires: UpdateState(SLOW, AUTOMATED).
TurnOffTimerFires ==
  /\ turn_off_timer = now
  /\ turn_off_timer' = NoTimer
  /\ UNCHANGED <<Flags, now, last_user_activity_time, last_hover_time,
                 video_timer>>
  /\ UpdateState

\* Time passes, but not beyond an armed timer's deadline.
Tick ==
  /\ now < MaxTime
  /\ video_timer # now /\ turn_off_timer # now
  /\ now' = now + 1
  /\ UNCHANGED <<Flags, last_user_activity_time, last_hover_time, video_timer,
                 turn_off_timer, current_level, unapplied>>

Next ==
  \/ \E s \in {STOPPED, STARTED} : s # session_state /\ HandleSessionStateChange(s)
  \/ HandleUserActivity
  \/ \E b \in BOOLEAN :
       \/ HandleVideoActivity(b)
       \/ HandleHoverStateChange(b)
       \/ HandleTabletModeChange(b)
       \/ SetDimmedForInactivity(b)
       \/ SetOffForInactivity(b)
       \/ SetSuspended(b)
       \/ SetShuttingDown(b)
       \/ SetDocked(b)
       \/ SetForcedOff(b)
       \/ OnBrightnessChange(b)
       \/ DecreaseUserBrightness(b)
  \/ IncreaseUserBrightness
  \/ \E p \in AlsPercents : SetBrightnessPercentForAmbientLight(p)
  \/ HandleVideoTimeout
  \/ TurnOffTimerFires
  \/ Tick

Spec == Init /\ [][Next]_vars

(***************************************************************************)
(* Properties                                                              *)
(***************************************************************************)
TypeOK ==
  /\ {has_sensor, supports_hover, turn_on_for_user_activity} \subseteq BOOLEAN
  /\ now \in 0..MaxTime
  /\ session_state \in {STOPPED, STARTED}
  /\ {tablet_mode, hovering, fullscreen_video_playing, dimmed_for_inactivity,
      off_for_inactivity, suspended, shutting_down, docked, forced_off,
      display_brightness_is_zero, unapplied} \subseteq BOOLEAN
  /\ user_step_index \in -1..LastStepIndex
  /\ last_user_activity_time \in {Null} \cup 0..MaxTime
  /\ last_hover_time \in {Null} \cup 0..MaxTime
  /\ video_timer \in {NoTimer} \cup now..(now + VideoTimeoutInterval)
  /\ turn_off_timer \in {NoTimer} \cup now..(MaxTime + KeepOnDelay + KeepOnDuringVideoDelay)
  /\ current_level \in {-1} \cup 0..MaxLevel

\* The backlight is never stale: whenever the last brightness change
\* succeeded and no turn-off timer is due right now, the level is the one
\* UpdateState() would choose at this moment.  Time makes
\* RecentlyHoveringOrUserActive() turn false without any call, so this
\* holds only if turn_off_timer_ is armed for exactly that moment after
\* every change of hover, activity and fullscreen video.
LevelFollowsPolicy ==
  (~unapplied /\ turn_off_timer # now) =>
    current_level = PercentToLevel(UpdateStatePercent)
=============================================================================
