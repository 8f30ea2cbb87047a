SPECIFICATION WebSpec
CONSTANTS
  auditor = auditor
  requester = requester
  t1 = t1
  t2 = t2
  c1 = c1
  c2 = c2
  c3 = c3
  Tokens = {auditor, requester}
  Auditors = {auditor}
  TenantOf <- Two
  NoToken = NoToken
  NotMade = NotMade
  Workflows = {w1, w2}
  Records = {d1}
  Calls = {c1, c2, c3}
SYMMETRY Symmetry
CHECK_DEADLOCK FALSE
PROPERTIES
  RefreshSettles
