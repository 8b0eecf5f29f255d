SPECIFICATION MCSpec
CONSTANTS
  r1 = r1  r2 = r2  a = a  b = b  bonus = bonus  i1 = i1  i2 = i2
  Requests = {r1, r2}
  ProcessOf <- MCProcessOf
  Customers = {a, b}
  Codes = {bonus}
  NoCode = NoCode
  NoOwner = NoOwner
  Owner <- MCOwner
  MaxUsage <- MCMaxUsage
  Inbounds = {i1, i2}
  NoInbound = NoInbound
  OperatorRoutes = {}
  PlanRoutes = {i1}
  Priority <- MCPriority
  Capacity = 1
  AllowFallback = TRUE
  Legacy = TRUE
  MaxOrders = 2
  MaxFaults = 1
  MaxStaff = 1
INVARIANTS TypeOK UsesAccounted DiscountWithinLimit SmsPaysOnce
CHECK_DEADLOCK FALSE
