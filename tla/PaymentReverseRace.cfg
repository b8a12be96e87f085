CONSTANTS
  o1 = o1  o2 = o2
  l1 = l1  l2 = l2
  ana = ana  walkin = walkin
  f1 = f1  f2 = f2  w1 = w1  p1 = p1  p2 = p2
  pay1 = pay1  pay2 = pay2  pay3 = pay3
  a1 = a1  a2 = a2  a3 = a3
  r1 = r1  r2 = r2  e1 = e1  n1 = n1  n2 = n2
  None = None
  Orders = {o1}
  LineIds = {l1}
  Customers = {ana, walkin}
  WalkIn = walkin
  Facilities = {f1}
  Warehouses = {w1}
  Products = {p1}
  Stocked = {p1}
  Payments = {pay1, pay2}
  Applications = {a1, a2, a3}
  Refunds = {}
  Requests = {r1, r2}
  CreditLimit <- NoLimit
  LineMenu = {}
  ListPrice <- ListPrices
  PriceList <- ListsDiffer
  Origins = {FALSE}
  Clock = {"promise", "cutoff", "scheduled_cutoff"}
  Movements = {}
  MaxOnHand = 2
  Confirmed <- OneLineOf3
  OrderTerms = "IMMEDIATE"
  StalePaid <- NoLegacy
  Tenders = {2, 3}
  Amounts = {1, 2}
  Changes = {0}
  Verifiers = {}
  ReturnTo <- ToW1
  Payouts = {}
  Quantities = {}
  Desk <- NoDesk
SPECIFICATION RefundSpec
INVARIANT
  PaidMeansSettled
CHECK_DEADLOCK FALSE
