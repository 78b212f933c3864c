\* Two calls of pacman, three faults: two deaths and a failure, or a setup that gives up.
CONSTANTS
  MAX_INSTALL_ATTEMPTS = 2
  MaxFaults = 3
SPECIFICATION Spec
INVARIANT TypeOK
INVARIANT RootfsIsWhole
INVARIANT ServicesReady
INVARIANT SetupConverges
PROPERTY RootfsKept
PROPERTY SetupEnds
PROPERTY SinksConnect
CHECK_DEADLOCK FALSE
