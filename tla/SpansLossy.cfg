\* One CPU, spans of the same and of different names, one level that is
\* compiled in and one that is not, a level filter that is switched off and on
\* at run time, and at most two lost events.
CONSTANTS
  Cpus = {1}
  Parallelism = 1
  Names = {"a", "b"}
  MaxLevel = 2
  BuildLevel = 1
  Sites <- EverySite
  Filters = {0, 1}
  MaxDepth = 2
  MaxInFlight = 2
  MaxLosses = 2
  Ids = {1, 2, 3, 4, 5, 6}

SPECIFICATION Spec

INVARIANTS
  OpenUntilItsEnd
  LeftOpenOnlyByLostEnd

