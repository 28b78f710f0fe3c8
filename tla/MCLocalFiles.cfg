\* when everybody has opened, or all outputs are made, nothing happens any more
CONSTANTS
  p1 = p1
  p2 = p2
  p3 = p3
  Processes = {p1, p2, p3}
  Nobody = Nobody
  MaxFaults = 2
  m1 = m1
  m2 = m2
  Makers = {m1, m2}
  f1 = f1
  f2 = f2
  Paths = {f1, f2}
  NoFile = NoFile
  MaxFailures = 2
SPECIFICATION LocalSpec
CHECK_DEADLOCK FALSE
INVARIANTS OpenIsReady MadeStands NothingLeft
PROPERTIES ForeignUntouched EveryoneOpens
