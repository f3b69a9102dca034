SPECIFICATION Spec
CONSTANTS
  Bundles <- MCBundles
  Paths <- MCPaths
  Messages <- MCMessages
  SDK <- MCSDK
  MAX_FILES = 2
  MAX_BUNDLE = 3
  MAX_PATH = 6
  MAX_NAME = 14
  LONG = 5
  MAX_OPEN = 2
  MAX_FD = 5
  MAX_OUTPUT = 3
  MAGIC = 2
  MAX_TEXT = 5
CHECK_DEADLOCK FALSE
INVARIANTS BundleIsReachable OpenFilesAreSound DiagnosticsAreHonest
