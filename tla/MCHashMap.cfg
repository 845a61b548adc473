\* Two threads and the eBPF programs share a map of two entries and three keys,
\* and change it while it is walked.  A batch writes one value to all its keys.
\* A behaviour may end when all calls and writes are used up.
CONSTANTS
  Clients = {c1, c2}
  Keys = {"k1", "k2", "k3"}
  BucketOf <- SomeBuckets
  MaxEntries = 2
  MaxWrites = 2
  MaxCalls = 2
  Batches <- SomeBatches

SPECIFICATION FairSpec

INVARIANTS
  TypeOK
  ReturnsWhatItReplaced
  EntriesHaveOneOwner
  ClearIsExact
  LenIsExact
  BatchWritesAPrefix

PROPERTIES
  OperationsReturn

CHECK_DEADLOCK FALSE
