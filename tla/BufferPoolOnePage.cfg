CONSTANTS
  t1 = t1
  t2 = t2
  f1 = f1
  f2 = f2
  p = p
  c1 = c1
  Zero = Zero
  Torn = Torn
  NoTag = NoTag
  NoFrame = NoFrame
  Threads = {t1,t2}
  Frames = {f1,f2}
  Tags = {p}
  DefaultTag = p
  Contents = {c1}
  MaxPins = 2
  MaxShared = 2
  Ops = {"read", "write", "zero", "prefetch", "flush", "flushall", "clean", "drop"}
SPECIFICATION Spec
SYMMETRY Symmetry
INVARIANTS TypeOK SingleCopy LatchesMatchHolders
