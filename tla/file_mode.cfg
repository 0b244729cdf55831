\* FILE mode: the watcher and the batch ticker over two keys.
CONSTANTS
  k1 = k1  k2 = k2
  n1 = n1  n2 = n2  good = good  bad = bad
  NONE = NONE
  Keys = {k1, k2}
  Insts = {i1, i2}
  Names = {n1, n2}
  Logins = {good, bad}
  GoodLogins = {good}
  Configs <- FileConfigs
  Watchers = {watcher}
  Editors = {}
  Batchers = {batch}
  Viewers = {}
SPECIFICATION FairSpec
INVARIANTS TypeOK DeletedIsStopped ReloadApplied
PROPERTY Settles
CHECK_DEADLOCK FALSE
