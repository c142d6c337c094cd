SPECIFICATION FairSpec
CONSTANTS
  Producers = {p1, p2}
  Consumers = {c}
  Items = {x, y}
  Capacity = 2
  Wrap = 4
  Nobody = Nobody
INVARIANTS
  NoSlotRace
  NoLostWakeup
PROPERTIES
  FifoSpec
  SleepersWake
  StopEndsWait
