\* Programs see their pages move: the instance of MemoryPaging.
CONSTANTS
  p1 = p1
  p2 = p2
  Proc = {p1, p2}
  NONE = NONE
  UINT32_MAX = UINT32_MAX
  pid <- MCpid
  Page = {0, 1}
  PAGE_SIZE = 4
  WORD_SIZE = 2
  numFrames = 2
  diskPages = 3
  CACHE_CAPACITY = 2
  Loads <- MCLoads
  Stores <- MCStores
  MaxSwaps = 4
  MaxQueue = 3
CHECK_DEADLOCK FALSE
SPECIFICATION MemorySpec
PROPERTIES SwappingIsTransparent
