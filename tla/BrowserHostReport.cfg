\* A watched element reports while a view's request holds the slot.
SPECIFICATION Spec
CONSTANTS
  Dispatch = {d1, d2}
  Tick = {t}
  Kinds = {"row"}
  MaxRounds = 1
  None = None
INVARIANTS
  OneRequestAtATime
