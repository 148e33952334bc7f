\* A plain register, two swaps (one nested), bare clears and one dispatch over two apps.
SPECIFICATION FairSpec
CONSTANTS
  App = {"a1", "a2"}
  Orbitals <- SharedName
  NoApp = NoApp
  Swap = {b1, b2}
  Nested = {b1}
  Plain = {boot}
  MaxLinks = 3
  Dispatch = {d1}
  NoName = NoName
INVARIANTS
  MutationsSerialize
  RegistryIsOneApp
PROPERTIES
  NoMissDuringMutation
  WaiterFindsWholeApp
  NothingWedges
