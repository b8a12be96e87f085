CONSTANTS
  c1 = c1  c2 = c2
  None = None
  Clerks = {c1, c2}
  Invoices = {1, 2}
  Receipts = {3, 5}
  Notes = {4}
  InvoiceSeries = {"A", "B"}
  ReceiptSeries = {"P"}
  NoteSeries = {"E"}
  OrderLines = {1, 2}
  OrderOf <- OneLineEach
  Sold <- TwoUnits
  Price <- Ones
  Applied <- FirstIsPaid
  Amounts = {1, 2}
  ByHand = {4}
  SharedSources = FALSE
SPECIFICATION FiscalSpec
INVARIANTS
  
  CreditIsSharedOut
  
PROPERTIES
  SealedAtPosition
CONSTRAINT Scenarios
SYMMETRY Symmetry
CHECK_DEADLOCK FALSE
