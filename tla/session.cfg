SPECIFICATION FairSpec
CONSTANTS
  orders = orders
  ordersEU = ordersEU
  Names = {orders, ordersEU}
  KeyedUnder <- Unrelated
  MayRelease = TRUE
  ReleaseOnce = TRUE
  MayDestroy = TRUE
  MaxClients = 3
  MaxCalls = 2
  MaxDrops = 1
  MaxTimeouts = 1
  MaxLost = 1
INVARIANTS TypeOK HoldsTheActive NothingHeldAfterShutdown ClosedExactly
PROPERTIES ImplementsSession CloseCompletes CallsSettle
CHECK_DEADLOCK FALSE
