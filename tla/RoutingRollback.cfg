\* One commit more, two scripts.
SPECIFICATION RolloutSpec
CONSTANTS
  MaxMain = 2
  MaxJobs = 2
INVARIANT
  RoutingRolledBack
CHECK_DEADLOCK FALSE
