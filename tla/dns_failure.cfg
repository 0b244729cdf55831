\* Two instances; one Metric, the waits and the disks; a name may be unknown.
CONSTANTS
  Instances = {x, y}
  NumAccs = 3
  LookupMayFail = TRUE
  NONE = NONE
SPECIFICATION FairSpec
PROPERTY Stops
