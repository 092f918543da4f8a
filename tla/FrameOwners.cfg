CONSTANTS
  t1 = t1
  t2 = t2
  t3 = t3
  f1 = f1
  p = p
  q = q
  c1 = c1
  Zero = Zero
  Torn = Torn
  NoTag = NoTag
  NoFrame = NoFrame
  Threads = {t1, t2, t3}
  Frames = {f1}
  Tags = {p, q}
  DefaultTag = p
  Contents = {c1}
  MaxPins = 3
  MaxShared = 3
  Ops = {"read", "write", "prefetch", "flush", "flushall", "clean", "drop"}
SPECIFICATION OwnersSpec
SYMMETRY Symmetry
INVARIANTS FrameOwnership PinsMatchHolders TransfersExclusive DirtyCountExact
PROPERTIES KeepsFrameLife KeepsContentLatch
