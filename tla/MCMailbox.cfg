CONSTANTS
  e1 = e1
  e2 = e2
  e3 = e3
  e4 = e4
  EventIds = {e1, e2, e3, e4}
  Sizes = {1, 2, 3}
  MAX_VALUE_BYTES = 2
  MAX_ENTRIES = 2
  MAX_BYTES = 3
  WINDOW = 2
  MAX_HANDLES = 1
  MaxAccepts = 5
SPECIFICATION Spec
CHECK_DEADLOCK FALSE
INVARIANTS
  BytesAreCounted
  DeliveryIsFifo
  WindowIsExact
  ReceiverNeverSleepsOnEvent
