\* Paging: 2 processes with 3 pages of 2 words, 2 frames, room for 3 pages on disk.
\* A full queue stops an instance, so it may deadlock.
CONSTANTS
  p1 = p1
  p2 = p2
  Proc = {p1, p2}
  NONE = NONE
  UINT32_MAX = UINT32_MAX
  pid <- MCpid
  Page = {0, 1}
  PAGE_SIZE = 4
  WORD_SIZE = 2
  numFrames = 2
  diskPages = 3
  CACHE_CAPACITY = 2
  Loads <- MCLoads
  Stores <- MCStores
  MaxSwaps = 4
  MaxQueue = 3
CHECK_DEADLOCK FALSE
SPECIFICATION MemorySpec
INVARIANTS MemoryTypeOK FramesMatchPages DiskPagesDistinct CacheReplaceable
PROPERTIES SwapKeepsWords ImplementsFifoPaging TransparentUntilSwap
