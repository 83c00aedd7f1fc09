\* The helper runs once and exits: its end states are final.
SPECIFICATION Spec
CHECK_DEADLOCK FALSE
INVARIANT ReturnMeansApplied
