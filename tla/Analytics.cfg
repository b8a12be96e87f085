CONSTANTS
  u1 = u1  u2 = u2
  f1 = f1  f2 = f2
  w1 = w1
  r1 = r1
  all = all
  None = None
  Users = {u1, u2}
  Workers = {w1}
  Requests = {r1}
  Facilities = {f1, f2}
  FacilityOf <- Own
  Families = {"sales", "cost"}
  AllStores = all
  Grants <- SomeGrants
  TTL_SECONDS = 2
  MAX_ENTRIES = 1
  MaxExports = 2
  STALE = 1
  EXPIRY = 1
SPECIFICATION Spec
INVARIANT
  ScreenIsRecent
PROPERTIES
  NobodySeesMore
  DownloadableUntilExpiry
  LostRunShowsFailed
  ExpiredIsDeleted
CONSTRAINT
  Scenarios
CHECK_DEADLOCK FALSE
