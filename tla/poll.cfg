\* Two instances; one Metric, the waits and the disks; names are resolved.
CONSTANTS
  Instances = {x, y}
  NumAccs = 3
  LookupMayFail = FALSE
  NONE = NONE
SPECIFICATION FairSpec
INVARIANTS TypeOK CleanDeltasWithinInstance NeverSkips
PROPERTIES Recovers Stops
