\* Three dispatches of any origin, each with one ask of any kind.  A request that
\* runs inside a turn that does not await it may wedge the host, which then stops
\* (NoViewStalls, which no run has).
SPECIFICATION FairSpec
CONSTANTS
  Dispatch = {d1, d2, d3}
  Tick = {t}
  Kinds = {"row", "call", "agent", "deferred"}
  MaxRounds = 1
  None = None
CHECK_DEADLOCK FALSE
INVARIANTS
  OneWhileContained
  NoDispatchWaitsOnItsCaller
  TicksDoNotPileUp
PROPERTIES
  PersonFirst
  EveryRequestAnswered
