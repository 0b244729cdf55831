\* Two groups on two servers; a group is removed after five minutes.
CONSTANTS
  AGs = {g1, g2}
  Servers = {s1, s2}
  Healthy = 3
  Expire = 5
  Quiet = 9
  NONE = NONE
SPECIFICATION Spec
INVARIANTS TypeOK ShownAtPrimary GoneExpire LatenciesOfPrimary
SYMMETRY Symmetry
