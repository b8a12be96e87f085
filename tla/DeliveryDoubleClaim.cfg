CONSTANTS
  s1 = s1  l1 = l1  v1 = v1  f1 = f1  r1 = r1  r2 = r2
  None = None
  Requests = {r1,r2}
  Sales = {s1}
  SaleLines = {l1}
  SaleOf <- SaleOfLine
  Sold <- TwoUnits
  Stocked = {l1}
  WarehouseOf <- FromFirst
  TransitOf <- ThroughSecond
  Warehouses = {1, 2}
  FacilityOf <- FirstFacility
  Deliveries = {1, 2}
  Trips = {1, 2}
  Stops = {1, 2}
  Entries = {1, 2}
  Vehicles = {v1}
  Approval = FALSE
  SplitLoads = TRUE
  Overlaps <- TwoWholeOrders
  Opening <- FourOnHand
SPECIFICATION Spec
INVARIANT NeverCommittedTwice
CHECK_DEADLOCK FALSE
