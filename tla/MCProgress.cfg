SPECIFICATION Spec
CONSTANTS
  NULL = NULL
  NoThread = NoThread
  NoAddr = NoAddr
PROPERTIES
  LocksReleased WaitsEnd
