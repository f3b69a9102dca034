CONSTANTS
  r1 = r1
  o1 = o1
  o2 = o2
  Requests = {r1}
  Objects = {o1, o2}
  Lengths = {1}
  MAX_FRAME = 4
  CONTROL_SLOTS = 1
  OBJECT_BYTES = 4
  DATA_BYTES = 4
  BURST = 1
  DROPPED_MAX = 0
SPECIFICATION Spec
INVARIANTS
  DrainedWhenFinished
