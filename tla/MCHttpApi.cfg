SPECIFICATION Spec
CONSTANTS
  t1 = t1
  t2 = t2
  w1 = w1
  w2 = w2
  d1 = d1
  d2 = d2
  open = open
  done = done
  k1 = k1
  Tenants = {t1, t2}
  WorkflowIds = {w1}
  RecordIds = {d1}
  States = {open, done}
  StateLists <- MCStateLists
  Keys = {k1}
  NoKey = NoKey
  NoState = NoState
  NoRecord = NoRecord
  NoCall = NoCall
  Requests = {r1, r2, r3}
  Calls <- MCCalls
  Faults = TRUE
  Tokens <- MCTokens
  HttpRequests <- MCRequests
  NoToken = NoToken
  NoTenant = NoTenant
  NoHeader = NoHeader
  Unreadable = Unreadable
  BadBody = BadBody
  NoRequest = NoRequest
  MaxTime = 1
SYMMETRY Symmetry
CHECK_DEADLOCK FALSE
INVARIANTS
  TypeOK
  TenantIsolation
  ChangesAreAuthorized
  RefusalsHaveNoEffect
  NoSilentOverwrite
