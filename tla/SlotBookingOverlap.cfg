SPECIFICATION FairSpec
CONSTANTS
  p1 = p1
  p2 = p2
  o1 = o1
  i1 = i1
  None = None
  Procs = {p1, p2}
  Orders = {o1}
  Items = {i1}
  MaxDishes = 1
  NumSlots = 2
  Capacities = {1}
  SerialPerOrder = FALSE
INVARIANT TypeOK
PROPERTY CallsFinish
