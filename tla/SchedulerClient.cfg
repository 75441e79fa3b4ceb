\* Two scheduler threads, two clients, three callbacks.
SPECIFICATION FairSpec
CONSTANTS
  Servants = {s1, s2}
  Clients = {a, b}
  Main = main
  Callbacks = {c1, c2, c3}
  None = None
INVARIANTS Serial NotStranded Emptied
PROPERTIES ImplementsExecutor AllExecuted
CHECK_DEADLOCK FALSE
