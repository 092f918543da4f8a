CONSTANTS
  actorA = actorA
  actorB = actorB
  slotA = slotA
  slotB = slotB
  none = none
  Actors = {actorA, actorB}
  Slots = {slotA, slotB}
SPECIFICATION Spec
SYMMETRY Symmetry
INVARIANTS
  NoWriteForgotten
  SyncsDurable
  LsnsSafe
  TasksKept
  CompletionsExact
  RingsDrain
  CompletionsFaithful
  ReadsExact
  WritesKept
  SizesRight
CHECK_DEADLOCK FALSE
