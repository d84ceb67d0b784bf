SPECIFICATION Spec
CONSTANTS
  o1 = o1
  o2 = o2
  n1 = n1
  n2 = n2
  c1 = c1
  r1 = r1
  r2 = r2
  NoOrder = NoOrder
  Order = {o1}
  Notifier = {n1}
  Courier = {}
  Refunder = {r1}
  Product <- OneProduct
  RevokeChoices = {TRUE}
  RefundEnabled = TRUE
INVARIANT RefundRevokesDays
