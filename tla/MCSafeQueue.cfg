SPECIFICATION Spec
CONSTANTS
  Consumers = {c1, c2, c3}
  MaxPushes = 4
INVARIANTS
  TypeOK
  NoLostWakeup
  StopReleasesAll
  FifoExactlyOnce
PROPERTY
  ImplementsChannel
