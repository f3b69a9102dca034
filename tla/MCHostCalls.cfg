CONSTANTS
  o1 = o1
  o2 = o2
  Objects = {o1, o2}
  MAX_SERIAL = 3
  MAX_PENDING = 2
  IGNORED_MAX = 0
  CONTROL_SLOTS = 1
  OBJECT_BYTES = 2
  DATA_BYTES = 3
  BURST = 1
SPECIFICATION Spec
SYMMETRY Symmetry
INVARIANTS
  PendingIsExact
  NothingOutlivesItsOwner
  CancelIsTruthful
  ReplyReachesItsCall
