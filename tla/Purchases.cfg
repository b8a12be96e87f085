CONSTANTS
  q1 = q1  q2 = q2  p1 = p1  r1 = r1  r2 = r2
  None = None
  Requests = {r1, r2}
  Forms = {q1, q2}
  FormLines = {1, 2}
  FormOf <- TwoForms
  ProductOf <- OneProduct
  WarehouseOf <- TwoWarehouses
  Asked <- TwoThenOne
  FacilityOf <- TwoFacilities
  HomeOf <- Home
  SupplierOf <- OneSupplier
  Stockable = {p1}
  Orders = {1, 2}
  OrderLines = {1, 2}
  Receipts = {1, 2, 3}
  Prices = {4, 9}
  OpeningCost <- Uncosted
  OpeningStock <- OneOnHand
  Overlaps <- Rivals
  StalePreReads = FALSE
SPECIFICATION Spec
INVARIANTS
  NeverOverReceived
  CostIsItsHistory
  RestoresUndoOneReceipt
  OrderedOnce
CONSTRAINT Scenarios
SYMMETRY Symmetry
CHECK_DEADLOCK FALSE
