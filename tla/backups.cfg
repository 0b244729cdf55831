\* A database with full and log backups on two replicas.
CONSTANTS
  s1 = s1
  s2 = s2
  full = full
  log = log
  Servers = {s1, s2}
  Kinds = {full, log}
  Taking <- MCTaking
  MaxBackups <- MCMaxBackups
SPECIFICATION FairSpec
INVARIANT TypeOK
PROPERTIES OnlyTrueAllClear AnyNodeCounts
