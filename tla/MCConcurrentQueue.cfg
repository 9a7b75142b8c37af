\* Two producers (the two receivers), three slots, six items: the indices wrap.
CONSTANTS
  Producers = {p1, p2}
  Capacity = 2
  MaxItems = 3
  NoOne = NoOne
SPECIFICATION QueueSpec
CHECK_DEADLOCK FALSE
INVARIANTS
  QueueTypeOK
  NoSlotRace
PROPERTIES
  ImplementsFIFO
  ImplementsProgress
