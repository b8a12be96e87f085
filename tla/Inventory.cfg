CONSTANTS
  d1 = d1  d2 = d2  p1 = p1  f1 = f1  f2 = f2  r1 = r1  r2 = r2
  None = None
  Requests = {r1, r2}
  Docs = {d1, d2}
  Products = {p1}
  Places = {1, 2, 3, 4, 5}
  Facilities = {f1, f2}
  FacilityOf <- Owners
  TransitOf <- Transits
  Opening <- TwoInSome
  Scope <- Administrators
  Headers <- Drafts
  Sold <- SoldFromFirst
  Quantities = {2}
  MaxLine = 2
  MaxClaims = 1
SPECIFICATION InventorySpec
SYMMETRY InventorySymmetry
INVARIANTS
  GoodsAccountedFor
  
PROPERTIES
  LedgerIsABook
CHECK_DEADLOCK FALSE
