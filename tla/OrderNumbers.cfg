SPECIFICATION Spec
CONSTANTS
  p1 = p1
  p2 = p2
  p3 = p3
  o1 = o1
  o2 = o2
  o3 = o3
  o4 = o4
  o5 = o5
  None = None
  Procs = {p1, p2, p3}
  Orders = {o1, o2, o3, o4, o5}
SYMMETRY Symmetry
INVARIANTS TypeOK NoGaps LaterIsLarger SharedOnlyByConcurrent
