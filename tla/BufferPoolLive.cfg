SPECIFICATION LiveSpec
CONSTANTS
  MaxPins = 2
  MaxShared = 1
  Threads = {t1, t2}
  Frames = {f1}
  Tags = {p, q}
  DefaultTag = p
  Contents = {c1}
  Zero = Zero
  Torn = Torn
  NoTag = NoTag
  NoFrame = NoFrame
  Ops = {"read", "write", "prefetch", "flush", "drop"}
  Budget = 2
CHECK_DEADLOCK FALSE
PROPERTY CallsReturn
