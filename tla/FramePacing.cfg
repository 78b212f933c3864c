\* Two sizes of buffers, two frames, two surfaces or one surface and a resize, one driver failure.
CONSTANTS
  Sizes = {1, 2}
  BackToShm = FALSE
  ZeroCopy = TRUE
  MaxFrames = 2
  MaxViewChanges = 2
  MaxFailures = 1
SPECIFICATION Spec
INVARIANT TypeOK
INVARIANT OneFrameInFlight
INVARIANT OneProducer
PROPERTY AnsweredUnlessFrozen
PROPERTY NewestFrameShown
CHECK_DEADLOCK FALSE
