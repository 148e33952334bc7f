\* Three dispatches, two asks to a batch, two batches to a dispatch.
SPECIFICATION FairSpec
CONSTANTS
  Dispatch = {d1, d2, d3}
  Slot = {s1, s2}
  Batches <- SingleCallBatches
  MaxRounds = 1
  NoCaller = NoCaller
INVARIANTS
  TypeOK
  EvaluationExclusive
  NoDispatchWaitsOnItsCaller
  NoHoldOutlivesItsDispatch
PROPERTIES
  QueueIsFifoLock
  EveryDispatchAnswered
