SPECIFICATION Spec
CONSTANTS
  Capacity = 3
  NIL = NIL
  UNPOLLED = UNPOLLED
  Readings = {r1}
  Pages = {p1}
INVARIANTS
  TypeOK
  OnlyOldestReplaced
  LockLimitsDamage
PROPERTY
  IsWindow
