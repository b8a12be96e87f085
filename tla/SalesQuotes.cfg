CONSTANTS
  o1 = o1  o2 = o2
  q1 = q1  q2 = q2
  l1 = l1
  ana = ana
  f1 = f1
  w1 = w1
  p1 = p1  r1 = r1  r2 = r2
  None = None
  Orders = {o1, o2}
  Quotes = {q1, q2}
  LineIds = {l1}
  Customers = {ana}
  WalkIn = None
  Facilities = {f1}
  Warehouses = {w1}
  Products = {p1}
  Stocked = {p1}
  Payments = {}
  Applications = {}
  Refunds = {}
  Requests = {r1, r2}
  CreditLimit <- NoLimit
  LineMenu <- FromW1
  QuoteMenu <- Offers
  MaxSends = 1
  ListPrice <- ListPrices
  PriceList <- OneList
  Origins = {}
  Clock = {"promise", "cutoff", "scheduled_cutoff"}
  Movements = {}
  MaxOnHand = 2
SPECIFICATION FairQuoteSpec
PROPERTIES
  OfferStands
  
  AbandonedIsRetired
CONSTRAINT
  Scenarios
CHECK_DEADLOCK FALSE
