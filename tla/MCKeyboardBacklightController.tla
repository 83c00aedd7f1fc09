------------------- MODULE MCKeyboardBacklightController -------------------
(* Model-checking instance of KeyboardBacklightController.  A level range *)
(* of 10 so that the 10% dim level and the rounding of steps are visible;  *)
(* three user steps (off, a middle one, full) so that increase, decrease  *)
(* with and without allow_off and both ends are reached; a no-ALS pref     *)
(* above 100% to exercise the clamping; one ALS percent.  Time runs to    *)
(* MaxTime = 3 ticks with delays of 2: enough for an activity, a hover end *)
(* and a video report to expire at different moments.                     *)
EXTENDS KeyboardBacklightController, FiniteSets

MCRawUserSteps == <<0, 40, 100>>
MCNoAlsPercents == {120}
MCAlsPercents == {30}

\* bound: at most MaxConditions of the conditions that force the backlight
\* off or dim it hold at once (each is set and cleared by its own caller).
MaxConditions == 1
Conditions == <<tablet_mode, dimmed_for_inactivity, off_for_inactivity,
                suspended, shutting_down, docked, forced_off,
                display_brightness_is_zero>>
ConditionBound ==
  Cardinality({i \in DOMAIN Conditions : Conditions[i]}) <= MaxConditions
=============================================================================
