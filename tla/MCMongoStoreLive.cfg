SPECIFICATION FairSpec
CONSTANTS
  t1 = t1
  t2 = t2
  w1 = w1
  w2 = w2
  d1 = d1
  d2 = d2
  open = open
  done = done
  lost = lost
  k1 = k1
  Tenants = {t1, t2}
  WorkflowIds = {w1, w2}
  RecordIds = {d1, d2}
  States = {open, done, lost}
  StateLists <- MCStateLists
  Keys = {k1}
  NoKey = NoKey
  NoState = NoState
  NoRecord = NoRecord
  NoCall = NoCall
  Requests = {r1, r2, r3}
  Calls <- MCRaces
  Faults = FALSE
CHECK_DEADLOCK FALSE
PROPERTIES
  EveryRequestAnswered
