\* The first start, without any fault.
CONSTANTS
  MAX_INSTALL_ATTEMPTS = 1
  MaxFaults = 0
SPECIFICATION Spec
INVARIANT SocketReachable
CHECK_DEADLOCK FALSE
