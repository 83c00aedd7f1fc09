CONSTANTS
  c1 = c1
  c2 = c2
  Clients <- MCClients
  MaxRequests = 2
  MaxDarkSuspends = 2
  MaxRetries = 1
  WakeReasons = {w1}
SPECIFICATION Spec
INVARIANT SuppliedCountSticky
