SPECIFICATION Spec
CONSTANTS
  p1 = p1
  p2 = p2
  t1 = t1
  o1 = o1
  o2 = o2
  o3 = o3
  None = None
  Procs = {p1, p2}
  Tables = {t1}
  Orders = {o1, o2, o3}
  CreatedAs = {"FREE", "OCCUPIED", "RESERVED"}
SYMMETRY Symmetry
INVARIANTS TypeOK GuestsKeepTheirTable OccupiedByItsOrder NoWaitCycle SeatingIsAtomic
