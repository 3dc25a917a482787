\* Batches of up to five processes, 3 frames of 2 words, one cache line less than frames.
\* The loading of a batch ends, so the system stops.
CONSTANTS
  large = large
  small = small
  twin = twin
  stray = stray
  capital = capital
  odd = odd
  bare = bare
  unnamed = unnamed
  missing = missing
  lost = lost
  Proc = {large, small, twin, stray, capital, odd, bare, unnamed, missing, lost}
  NONE = NONE
  pid <- MCpid
  procFile <- MCprocFile
  Programs <- MCPrograms
  Batches <- MCBatches
  Capitals <- MCCapitals
  SHAMTS = 4
  UINT32_MAX = 536870911
  Page = {0, 1, 2, 3, 4, 5}
  PAGE_SIZE = 8
  WORD_SIZE = 4
  numFrames = 3
  diskPages = 12
  CACHE_CAPACITY = 2
  Loads = {}
  Stores <- MCStores
  MaxSwaps = 12
  MaxQueue = 2
CHECK_DEADLOCK FALSE
SPECIFICATION LoaderSpec
INVARIANTS LoaderTypeOK FramesMatchPages FrameOwnersAlive QueuedInOrder QueuedIsLoaded
