\* Two orders of one member: tiers, upgrades, days; one thread of each kind.
SPECIFICATION Spec
CONSTANTS
  o1 = o1
  o2 = o2
  n1 = n1
  n2 = n2
  c1 = c1
  r1 = r1
  r2 = r2
  NoOrder = NoOrder
  Order = {o1, o2}
  Notifier = {n1}
  Courier = {c1}
  Refunder = {r1}
  Product <- Upgrades
  RevokeChoices = {TRUE}
  RefundEnabled = TRUE
SYMMETRY OrderSymmetry
INVARIANT DaysAreBacked
