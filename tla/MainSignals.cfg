\* Two threads iterate, two subscribers come and go.
SPECIFICATION Spec
CONSTANTS
  Threads = {background, validation}
  Subscribers = {s1, s2}
  MaxEntries = 4
  None = None
INVARIANTS CountExact NothingDangles
PROPERTIES EveryoneNotified
CHECK_DEADLOCK FALSE
