\* One window, one death of the process.
CONSTANTS
  Surfaces = {s1}
  Layers = {}
  Acts = {a1, a2}
  MaxUserActions = 1
  LaunchMayFail = FALSE
SPECIFICATION RestartSpec
INVARIANT OwnActivity
