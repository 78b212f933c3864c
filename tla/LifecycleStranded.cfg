\* One window, no user at all.
CONSTANTS
  Surfaces = {s1}
  Layers = {}
  Acts = {a1}
  MaxUserActions = 0
  LaunchMayFail = FALSE
SPECIFICATION Spec
INVARIANT NoStrandedActivity
