SPECIFICATION Spec
CONSTANTS
  EventKinds = {"renew", "nb", "command"}
  Configured = FALSE
  Resettable = TRUE
  MaxQueue = 2
  Clients = {"cli", "gui"}
  Requests = {"reset", "get_reset", "command", "commit"}
INVARIANTS TypeOK  SteadyTicks
PROPERTIES  ResetReached TimeGoesOn
