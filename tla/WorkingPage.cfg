CONSTANTS
  NumPages = 3
  Value = {"a", "b"}
  Rom <- MCRom
  MinRuns = 2
SPECIFICATION Spec
INVARIANT LoadsWhole
PROPERTIES SavesOnce ImplementsStore
