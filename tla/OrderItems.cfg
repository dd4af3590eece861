SPECIFICATION Spec
CONSTANTS
  p1 = p1
  p2 = p2
  i1 = i1
  i2 = i2
  None = None
  Procs = {p1, p2}
  Items = {i1, i2}
  Totals = {1, 2}
SYMMETRY Symmetry
CONSTRAINT OnePriceOverlapped
INVARIANTS TypeOK PreparedWasSent SerialTotal
PROPERTY SerialKitchen
