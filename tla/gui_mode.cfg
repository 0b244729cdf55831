CONSTANTS
  k1 = k1  k2 = k2
  n1 = n1  n2 = n2  good = good  bad = bad
  NONE = NONE
  Keys = {k1, k2}
  Insts = {i1, i2}
  Names = {n1, n2}
  Logins = {good}
  GoodLogins = {good}
  Configs = {}
  Watchers = {}
  Editors = {e1}
  Batchers = {batch}
  Viewers = {viewer}
SPECIFICATION Spec
INVARIANTS RegisteredIsPolled DeletedIsStopped
SYMMETRY GuiSymmetry
CHECK_DEADLOCK FALSE
