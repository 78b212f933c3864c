\* Two requests with one id or two, and one fault.
CONSTANTS
  Requests = {r1, r2}
  Ids = {i1, i2}
  MaxFaults = 1
SPECIFICATION Spec
INVARIANT TypeOK
INVARIANT FilesComeFromOwnChooser
INVARIANT OneShot
INVARIANT PendingIsAwaited
INVARIANT WaitingCanBeAnswered
PROPERTY EveryRequestAnswered
INVARIANT NoHandlerLeftBehind
CHECK_DEADLOCK FALSE
