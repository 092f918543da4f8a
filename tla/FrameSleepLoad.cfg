CONSTANTS
  t1 = t1
  t2 = t2
  t3 = t3
  p = p
  q = q
  Threads = {t1, t2, t3}
  Tags = {p,q}
  Ops <- LoadOps
  MaxPins = 3
  MaxShared = 2
SPECIFICATION Spec
SYMMETRY Symmetry
INVARIANTS LoadWaitersWoken
