SPECIFICATION Spec
CONSTANTS
  p1 = p1
  p2 = p2
  o1 = o1
  None = None
  Procs = {p1, p2}
  Orders = {o1}
  MaxEvents = 2
SYMMETRY Symmetry
INVARIANTS TypeOK MoneyAccounted CancellationSticks CancellationsAnnounced
