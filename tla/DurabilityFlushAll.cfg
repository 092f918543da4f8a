CONSTANTS
  t1 = t1
  t2 = t2
  fa = fa
  NoFile = NoFile
  Threads = {t1, t2}
  Calls <- EveryCall
  Processes = {{t1,t2}}
  Shared = FALSE
  Capacity = 1
  Files = {fa}
  MaxVersion = 1
  MaxPins = 1
  MaxShared = 1
SPECIFICATION Spec
SYMMETRY Symmetry
INVARIANTS FlushAllDurable
