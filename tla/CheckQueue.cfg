\* Two masters, two workers, four checks of which one fails.
SPECIFICATION FairSpec
CONSTANTS
  w1 = w1  w2 = w2  m1 = m1  m2 = m2  c1 = c1  c2 = c2  c3 = c3  c4 = c4
  Workers = {w1, w2}
  Masters = {m1, m2}
  Checks = {c1, c2, c3, c4}
  Failing = {c1}
  BatchSize = 2
  None = None
INVARIANTS ResultExact FinishedBeforeContinuing TodoExact
PROPERTIES WaitReturns
