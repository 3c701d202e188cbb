SPECIFICATION BillingSpec
CONSTANTS
  pay1 = pay1
  pay2 = pay2
  r1 = r1
  r2 = r2
  Payments = {pay1, pay2}
  Requests = {r1, r2}
  Limit <- MCLimit
  Free = "FREE"
  Priced = {"PRO", "ENTERPRISE"}
  Unlimited = Unlimited
  None = None
  MaxRequests = 3
  MaxNotices = 1
  MaxRows = 2
PROPERTIES
  PendingIsAskedAgain
CHECK_DEADLOCK FALSE
