SPECIFICATION InboxSpec
CONSTANTS
  d1 = d1
  d2 = d2
  t1 = t1
  t2 = t2
  Ids = {d1, d2}
  Tenants = {t1, t2}
  OwnerOf <- OneTenantEach
  States = {submitted, approved}
  Submitted = submitted
  Approved = approved
  NoTenant = NoTenant
  NoRecord = NoRecord
  MaxVersion = 3
  MaxLost = 1
CHECK_DEADLOCK FALSE
PROPERTIES
  ApprovesWhatWasShown
  RefreshCorrects
