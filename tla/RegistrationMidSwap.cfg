\* A dispatch lands while the first orbital of the new app is registered.
SPECIFICATION Spec
CONSTANTS
  App = {"a1", "a2"}
  Orbitals <- SharedName
  NoApp = NoApp
  Swap = {b1, b2}
  Nested = {b1}
  Plain = {boot}
  MaxLinks = 3
  Dispatch = {d1}
  NoName = NoName
PROPERTIES
  MidSwapDispatchWaits
