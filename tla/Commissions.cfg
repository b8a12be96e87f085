CONSTANTS
  a = a  b = b  o1 = o1  c1 = c1  c2 = c2
  None = None
  Clerks = {c1}
  Orders = {o1}
  Agents = {a, b}
  Salespeople = {a, b}
  Schemes <- OneMayLeave
  LabelRates = {0, 1}
  OrderAgent <- SoldByA
  Amount <- Three
  Returned <- One
  Payments = {2, 3}
  LastMonth = 3
  ChangeMonths = {2}
  Interleaved = FALSE
SPECIFICATION CommissionSpec
INVARIANTS
  CapHolds
  RefundChargedOnce
PROPERTIES
  NothingLeftBehind
CHECK_DEADLOCK FALSE
