CONSTANTS
  o1 = o1
  o2 = o2
  Objects = {o1, o2}
  MAX_SERIAL = 2
  MAX_PENDING = 2
  IGNORED_MAX = 0
  CONTROL_SLOTS = 1
  OBJECT_BYTES = 2
  DATA_BYTES = 2
  BURST = 1
SPECIFICATION FairSpec
PROPERTIES
  EveryCallReturns
  ImplementsProtocol
