\* One server; an hour of three ticks, files of two, kept for five.
CONSTANTS
  Keys = {k1}
  Capacity = 3
  FileTicks = 2
  HourTicks = 3
  RetainTicks = 5
  MaxFiles = 3
SPECIFICATION Spec
INVARIANTS TypeOK HourRestored InOrder RingCoversHour
