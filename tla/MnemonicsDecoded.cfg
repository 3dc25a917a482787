\* One program with mnemonics that the parser encodes and the control unit reads otherwise.
\* The loading of a batch ends, so the system stops.
CONSTANTS
  large = large
  small = small
  twin = twin
  stray = stray
  capital = capital
  odd = odd
  bare = bare
  unnamed = unnamed
  missing = missing
  lost = lost
  Proc = {small}
  NONE = NONE
  pid <- MCpid
  procFile <- MCprocFile
  Programs <- MCPingPong
  Batches <- MCPingPongBatches
  Capitals <- MCCapitals
  SHAMTS = 4
  UINT32_MAX = 536870911
  Page = {0, 1, 2, 3, 4, 5}
  PAGE_SIZE = 8
  WORD_SIZE = 4
  numFrames = 3
  diskPages = 12
  CACHE_CAPACITY = 2
  Loads = {}
  Stores <- MCStores
  MaxSwaps = 12
  MaxQueue = 2
CHECK_DEADLOCK FALSE
SPECIFICATION LoaderSpec
INVARIANTS QueuedAsWritten
