CONSTANTS
  t1 = t1
  t2 = t2
  f1 = f1
  f2 = f2
  p = p
  q = q
  c1 = c1
  c2 = c2
  Zero = Zero
  Torn = Torn
  NoTag = NoTag
  NoFrame = NoFrame
  Threads = {t1,t2}
  Frames = {f1,f2}
  Tags = {p,q}
  DefaultTag = p
  Contents = {c1,c2}
  MaxPins = 2
  MaxShared = 2
  Ops = {"read", "write"}
SPECIFICATION Spec
SYMMETRY Symmetry
INVARIANTS ReadsLatest NothingLost
