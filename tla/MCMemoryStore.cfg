SPECIFICATION Spec
CONSTANTS
  tokA = tokA
  tokB = tokB
  tokC = tokC
  open = open
  done = done
  lost = lost
  Colon = Colon
  Tokens <- MCTokens
  MaxAttempts = 1
  Tenants <- PlainTenants
  WorkflowIds <- MCWorkflowIds
  RecordIds <- MCRecordIds
  States = {open, done, lost}
  StateLists <- MCStateLists
  Keys <- PlainKeys
  NoKey <- Empty
  NoState = NoState
  NoRecord = NoRecord
  NoCall = NoCall
  Requests = {r1, r2, r3}
  Calls <- PlainCalls
SYMMETRY Symmetry
CHECK_DEADLOCK FALSE
INVARIANTS
  IdsAreUnique
PROPERTIES
  ImplementsRecordStore
