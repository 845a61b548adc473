\* Two programs racing for a ring of two slots, channels of one and two
\* records and the rejected capacity zero; the drop counter wraps at 3.
CONSTANTS
  Producers = {p1, p2}
  Records = {r1}
  Stale = Stale
  Submitted = Submitted
  RingCapacity = 2
  Capacities = {0, 1, 2}
  DroppedModulus = 3

SPECIFICATION FairSpec

INVARIANTS
  TypeOK
  NoTornRecord
  OpenReaderKeepsRunning
  NoneIsFinal

PROPERTIES
  NothingConsumedAfterDrop
  FullRingIsDrained
  DropReturnsWhenQuiet
