\* Three programs, five records through a ring of three slots and channels of one and two
\* records; the drop counter wraps at 3.  A behaviour ends once all five are
\* reserved and the handle is dropped, so reaching the end is no deadlock.
CONSTANTS
  Producers = {p1, p2, p3}
  Records = {1, 2, 3, 4, 5}
  MaxRecords = 5
  Stale = Stale
  Submitted = Submitted
  RingCapacity = 3
  Capacities = {1, 2}
  DroppedModulus = 3

SPECIFICATION LogFairSpec

INVARIANTS
  ReceivedInOrder
  GapsAreCounted
  DroppedIsExact
  NothingVanishes

PROPERTIES
  EveryRecordSettles
  ImplementsLossyStream

CHECK_DEADLOCK FALSE
