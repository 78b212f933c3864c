\* The same window, and a client that goes back to shm buffers.
CONSTANTS
  Sizes = {1, 2}
  BackToShm = TRUE
  ZeroCopy = FALSE
  MaxFrames = 2
  MaxViewChanges = 2
  MaxFailures = 0
SPECIFICATION Spec
PROPERTY FrameCallbackAnswered
CHECK_DEADLOCK FALSE
