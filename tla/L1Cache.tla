------------------------------ MODULE L1Cache ------------------------------
(***************************************************************************)
(* The L1 cache (src/memory/cache.cpp, cachePolicy.cpp): one word for each *)
(* physical address, replaced first in, first out.  Entries are tagged     *)
(* with physical addresses <<frame, offset in the frame>>, and nothing     *)
(* calls invalidate, so every entry is valid.                              *)
(***************************************************************************)
EXTENDS Integers, Sequences, FiniteSets, Functions

CONSTANTS
  CACHE_CAPACITY,
  UINT32_MAX       \* both CACHE_MISS and MEMORY_ACCESS_ERROR

ASSUME CacheAssumption == CACHE_CAPACITY \in Nat \ {0}

VARIABLES
  cacheMap,     \* address -> CacheEntry
  fifo_queue    \* addresses in the order they were put

cacheVars == <<cacheMap, fifo_queue>>

CACHE_MISS == UINT32_MAX

CacheInit == cacheMap = <<>> /\ fifo_queue = <<>>

\* A word equal to CACHE_MISS cannot be told from a miss.
get(address) ==
  IF address \in DOMAIN cacheMap THEN cacheMap[address].data ELSE CACHE_MISS

\* What put removes first: the head of the queue when the map is full, even if
\* the address has left the map since.
Removed ==
  IF Cardinality(DOMAIN cacheMap) >= CACHE_CAPACITY /\ fifo_queue # <<>>
  THEN {Head(fifo_queue)} ELSE {}

\* The removed entries that go back to memory: the dirty ones.
WriteBacks == {address \in Removed \cap DOMAIN cacheMap : cacheMap[address].isDirty}

\* Mutant of put: the address is not queued.
put_Unqueued(address, word) ==
  /\ cacheMap' = [a \in {address} \cup (DOMAIN cacheMap \ Removed) |->
                    IF a = address THEN [data |-> word, isDirty |-> FALSE] ELSE cacheMap[a]]
  /\ fifo_queue' = IF Removed = {} THEN fifo_queue ELSE Tail(fifo_queue)

put(address, word) ==
  /\ cacheMap' = [a \in {address} \cup (DOMAIN cacheMap \ Removed) |->
                    IF a = address THEN [data |-> word, isDirty |-> FALSE] ELSE cacheMap[a]]
  /\ fifo_queue' = Append(IF Removed = {} THEN fifo_queue ELSE Tail(fifo_queue), address)

\* Mutant of update: the entry keeps its word.
update_Stale(address, word) ==
  /\ cacheMap' = [cacheMap EXCEPT ![address].isDirty = TRUE]
  /\ UNCHANGED fifo_queue

update(address, word) ==
  /\ cacheMap' = [cacheMap EXCEPT ![address] = [data |-> word, isDirty |-> TRUE]]
  /\ UNCHANGED fifo_queue
=============================================================================
