\* One window whose launches may fail, and two user or system actions in any
\* order: an Activity is replaced, and its successor again.
CONSTANTS
  Surfaces = {s1}
  Layers = {}
  Acts = {a1, a2, a3}
  MaxUserActions = 2
  LaunchMayFail = TRUE
SPECIFICATION FairSpec
INVARIANT TypeOK
INVARIANT RegisteredIsCreated
INVARIANT ClosingMeansRemoved
INVARIANT LiveSurfaceManaged
INVARIANT OneActivityPerWindow
INVARIANT NativeWindowFollowsSurface
PROPERTY ImplementsSession
PROPERTY PostedFinishEndsActivity
PROPERTY UserCloseReachesClient
PROPERTY RefusedCloseRelaunches
