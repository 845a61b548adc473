CONSTANTS
  Producers = {p1, p2}
  Records = {r1}
  Stale = Stale
  Submitted = Submitted
  RingCapacity = 2
  Capacities = {1}
  DroppedModulus = 2

SPECIFICATION FairSpec

PROPERTIES
  StopIsNoticed
