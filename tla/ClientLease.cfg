SPECIFICATION LeaseSpec
CONSTANTS
  Clients = {c1, c2, c3}
  Wanting = {c1, c2}
  Interval = 2
  Late = 1
  Trip = 2
  Configuring = 2
  Timeouts = {10, 12}
  DefaultTimeout = 10
  TimeoutOf <- MCTimeoutOf
INVARIANTS
  NotClosedUnderClient
PROPERTIES
  ClosedWhenAllGone
CHECK_DEADLOCK FALSE
