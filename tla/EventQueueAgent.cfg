\* One agent port ask in flight: the nested dispatch queues behind its caller.
SPECIFICATION Spec
CONSTANTS
  Dispatch = {d1, d2}
  Slot = {s1}
  Batches <- AgentBatches
  MaxRounds = 1
  NoCaller = NoCaller
INVARIANTS
  NoDispatchWaitsOnItsCaller
