CONSTANTS
  Enabled = {"scd", "vrp"}
  NumBackoffs = 2
  MaxOutages = 1
  MaxCrashes = 1
SPECIFICATION Spec
INVARIANTS TypeOK OneCollector ServesSupportedSchemas OnlyCrashesStick
PROPERTIES EventuallyServing
CHECK_DEADLOCK FALSE
