SPECIFICATION Spec
CONSTANTS
  p1 = p1
  p2 = p2
  o1 = o1
  o2 = o2
  i1 = i1
  i2 = i2
  None = None
  Procs = {p1, p2}
  Orders = {o1, o2}
  Items = {i1, i2}
  MaxDishes = 2
  NumSlots = 2
  Capacities = {1, 2}
  SerialPerOrder = FALSE
SYMMETRY Symmetry
INVARIANT ScheduledOrdersBacked
