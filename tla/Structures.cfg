CONSTANTS
  actorA = actorA
  actorB = actorB
  slotA = slotA
  slotB = slotB
  none = none
  Actors = {actorA, actorB}
  Slots = {slotA, slotB}
SPECIFICATION Spec
SYMMETRY Symmetry
INVARIANTS
  MutexSound
  TableExact
  LookupCurrent
  OneCache
  AttachmentsExact
  AreaShared
  SnapshotWhole
  NoLostWakeup
  
  OfferedColdestFirst
  SweepFinds
  PrefetchedOnce
PROPERTY ActsAsASet
CHECK_DEADLOCK FALSE
