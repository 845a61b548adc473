\* Nothing is lost and the subscriber takes every level, but the programs were
\* compiled with a level that leaves the starts of some spans out.
CONSTANTS
  Cpus = {0}
  Parallelism = 1
  Names = {"a", "b"}
  MaxLevel = 2
  BuildLevel = 1
  Sites <- NamesOfTheirOwn
  Filters = {2}
  MaxDepth = 2
  MaxInFlight = 2
  MaxLosses = 0
  Ids = {1, 2, 3, 4}

SPECIFICATION Spec

INVARIANTS
  NestedUntilItsEnd
