SPECIFICATION PlacementSpec
CONSTANTS
  WebThread = {t1, t2}
  WebInstance = {i1, i2}
  InstanceOf <- EachItsOwn
  Key = {k1}
  NoKey = NoKey
  Product <- Catalogue
  MaxOpen = 1
  MaxPaid = 2
  MaxOrders = 3
INVARIANTS OneOrderPerKey OpenOrdersBounded
PROPERTY PricedOnCurrentMember
CHECK_DEADLOCK FALSE
