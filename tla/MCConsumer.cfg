SPECIFICATION Spec
CONSTANTS
  Items = {a, b, bad}
  Rejected = {bad}
  MaxBacklog = 3
INVARIANTS
  NoLostWakeup
  ConsumerInv
PROPERTIES
  ShutdownEnds
  ImplementsChannel
