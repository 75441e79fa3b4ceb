\* One thread, as the node has, or two, as in the unit tests.
SPECIFICATION FairSpec
CONSTANTS
  Threads = {t1, t2}
  Tasks = {k1, k2}
  MaxTime = 1
  None = None
INVARIANTS NotBeforeItsTimeAlone
PROPERTIES AllCalled ThreadsReturn
CHECK_DEADLOCK FALSE
