CONSTANTS
  t1 = t1
  t2 = t2
  f1 = f1
  p = p
  c1 = c1
  c2 = c2
  Zero = Zero
  Torn = Torn
  NoTag = NoTag
  NoFrame = NoFrame
  Threads = {t1,t2}
  Frames = {f1}
  Tags = {p}
  DefaultTag = p
  Contents = {c1,c2}
  MaxPins = 2
  MaxShared = 2
  Ops = {"write", "flushall"}
SPECIFICATION Spec
PROPERTY FlushAllReturnsClean
