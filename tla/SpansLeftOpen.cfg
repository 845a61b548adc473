\* A single event may be lost; the CPU keeps running its program afterwards.
CONSTANTS
  Cpus = {0}
  Parallelism = 1
  Names = {"a"}
  MaxLevel = 1
  BuildLevel = 1
  Sites <- EverySite
  Filters = {1}
  MaxDepth = 1
  MaxInFlight = 2
  MaxLosses = 1
  Ids = {1, 2, 3, 4}

SPECIFICATION BusySpec

PROPERTIES
  NothingStaysOpenForever
