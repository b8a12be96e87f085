CONSTANTS
  ana = ana  d1 = d1  f1 = f1  sup1 = sup1
  r1 = r1  r2 = r2  t1 = t1  v1 = v1  l1 = l1
  None = None
  Requests = {r1, r2}
  Sessions = {1, 2}
  Cashiers = {ana}
  Drawers = {d1}
  Takings = {t1}
  Vouchers = {v1}
  VoucherLines = {l1}
  Opening = 1
  Floats = {1}
  Tenders <- InAndOut
  Expenses = {1}
  POs = {1, 2}
  Suppliers = {sup1}
  SupplierOf <- AllFromSup1
  OrderTotal <- TwoAndThree
  Counting = {1, 2}
  Facilities = {f1}
  FacilityOf <- InF1
  PaymentAmounts = {4}
  ItemLists <- OneOrBoth
  MaxPayments = 2
  MaxApplications = 2
SPECIFICATION SupplierSpec
SYMMETRY Crew
INVARIANTS
  SettledVoucherSound
  PayablesReconcile
  NoCrossedWaits
PROPERTY
  ClosedDrawerFixed
CONSTRAINT Scenarios
CHECK_DEADLOCK FALSE
