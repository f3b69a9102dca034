SPECIFICATION GuestSpec
CONSTANTS
  MAX_HANDLES = 2
  I64_MAX = 4
  MAX_DEPTH = 1
  MAX_NODES = 3
  MAX_VALUE_BYTES = 50
  Lengths = {46, 49, 60}
  Texts <- MCTexts
  Payloads <- MCPayloads
  Config <- MCConfig
  Capabilities <- MCCapabilities
CHECK_DEADLOCK FALSE
INVARIANT ValuesAreBounded
PROPERTIES HandlesAreFresh ErrorsChangeNothing EventIsHandedOver
