CONSTANTS
  o1 = o1  o2 = o2
  l1 = l1  l2 = l2
  ana = ana  walkin = walkin
  f1 = f1  f2 = f2
  w1 = w1
  p1 = p1  p2 = p2
  pay1 = pay1  pay2 = pay2  pay3 = pay3
  a1 = a1  a2 = a2  a3 = a3  e1 = e1  r1 = r1  r2 = r2  n1 = n1  n2 = n2
  None = None
  Orders = {o1, o2}
  LineIds = {l1, l2}
  Customers = {ana}
  WalkIn = walkin
  Facilities = {f1, f2}
  Warehouses = {w1}
  Products = {p1, p2}
  Stocked = {p1}
  Payments = {}
  Applications = {}
  Refunds = {}
  Requests = {r1, r2}
  CreditLimit <- LimitOf3
  LineMenu <- StockMenu
  ListPrice <- ListPrices
  PriceList <- ListsDiffer
  Origins = {TRUE}
  Clock = {}
  Movements = {1}
  MaxOnHand = 1
  Confirmed <- TwoUnits
  OrderTerms = "NET_D"
  StalePaid <- NoLegacy
  Tenders = {}
  Amounts = {}
  Changes = {}
  Verifiers = {}
  ReturnTo <- ToW1
  Payouts = {}
  Quantities = {}
  Desk <- NoDesk
SPECIFICATION Spec
SYMMETRY StockSymmetry
INVARIANTS
  TypeOK
  FoliosUnique
  
  
  ClaimsMatchLines
PROPERTY
  CompletedIsFrozen
CHECK_DEADLOCK FALSE
