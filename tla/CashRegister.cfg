SPECIFICATION Spec
CONSTANTS
  p1 = p1
  p2 = p2
  p3 = p3
  o1 = o1
  o2 = o2
  s1 = s1
  s2 = s2
  s3 = s3
  None = None
  Procs = {p1, p2, p3}
  Orders = {o1, o2}
  Sessions = {s1, s2, s3}
SYMMETRY Symmetry
INVARIANTS TypeOK CashHandedOver SettledAtCount ClosingIsExclusive
PROPERTY NeverWithoutSession
