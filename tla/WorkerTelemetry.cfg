CONSTANTS
  Launches = 2
  Limit = 1
SPECIFICATION Spec
INVARIANT TelemetryHarmless
CHECK_DEADLOCK FALSE
