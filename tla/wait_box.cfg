\* One session and two instances; waits of up to two milliseconds.
CONSTANTS
  Sessions = {s}
  Starts = {t1, t2}
  Types = {a, b, h}
  Kept = {a, b}
  Hidden = {h}
  Instances = {x, y}
  MaxMs = 2
  MaxWaits = 2
  NONE = NONE
SPECIFICATION FairSpec
INVARIANTS TypeOK NeverTwice WholeWaitsCounted
PROPERTY Recovers
