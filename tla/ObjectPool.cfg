SPECIFICATION Spec
CONSTANTS
  Threads = {t1, t2, t3}
  Objects = {o1, o2, o3}
  NoObject = NoObject
SYMMETRY ThreadAndObjectSymmetry
INVARIANTS OnePlace PoolOutlivesItsUse ReusesBeforeAllocating
CHECK_DEADLOCK FALSE
