\* Two threads, two calls of try_init, for one object or for two, and two records.
\* A behaviour may end when all calls and records are used up.
CONSTANTS
  Threads = {"t1", "t2"}
  Builders = {"t1"}
  MaxCalls = 2
  Events <- SomeEvents
  Undecodable <- Garbage
  Levels = {"info"}
  MaxRecords = 2

SPECIFICATION FairSpec

INVARIANTS
  TypeOK
  FailedInitLeavesNothing
  EmittedOnce

PROPERTIES
  CallbackKept
  EventsOutliveTheProgram

CHECK_DEADLOCK FALSE
