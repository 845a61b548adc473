\* Two CPUs that interleave their events; available_parallelism counts only
\* the first one and the ids have a gap.  At most one event is lost.
CONSTANTS
  Cpus = {0, 2}
  Parallelism = 1
  Names = {"a"}
  MaxLevel = 1
  BuildLevel = 1
  Sites <- EverySite
  Filters = {1}
  MaxDepth = 2
  MaxInFlight = 2
  MaxLosses = 1
  Ids = {1, 2, 3, 4, 5, 6}

SPECIFICATION FairSpec

INVARIANTS
  TypeOK
  MessageInItsSpan
  StackIsTheProgramsStack

PROPERTIES
  SpansAreLeft
