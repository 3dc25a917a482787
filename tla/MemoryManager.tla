--------------------------- MODULE MemoryManager ---------------------------
(***************************************************************************)
(* The memory hierarchy (src/memory/MemoryManager.cpp): main memory in     *)
(* frames, the swap area on secondary memory, the page tables, and the L1  *)
(* cache in front.  A call holds memMutex from its first line to its last, *)
(* so it is one step, whichever core makes it.                             *)
(***************************************************************************)
EXTENDS L1Cache

CONSTANTS
  Proc,        \* the PCBs
  pid,         \* PCB::pid, read from the file of the process
  NONE,        \* nullptr, and "no such entry" in a table
  Page,        \* virtual page numbers
  PAGE_SIZE,   \* bytes in a page
  WORD_SIZE,   \* bytes in a word: 4
  numFrames,
  diskPages,   \* pages that fit in secondary memory
  Loads,       \* the <<process, page, offset>> that programs read
  Stores,      \* the <<process, page, offset, word>> that programs write
  MaxSwaps,    \* bound on swap-outs
  MaxQueue     \* bound on the length of fifo_queue

Offset == 0 .. PAGE_SIZE - 1
wordOf(offset) == offset \div WORD_SIZE
WordIndex == {wordOf(offset) : offset \in Offset}
Data == {store[4] : store \in Stores}
Word == Data \cup {0, UINT32_MAX}
Frame == 0 .. numFrames - 1
Slot == 0 .. diskPages - 1
Pid == {pid[p] : p \in Proc}

ASSUME MemoryAssumption ==
  /\ numFrames \in Nat \ {0} /\ diskPages \in Nat
  /\ PAGE_SIZE \in Nat \ {0} /\ WORD_SIZE \in Nat \ {0}
  /\ Loads \subseteq Proc \X Page \X Offset
  /\ Stores \subseteq Proc \X Page \X Offset \X Data
  /\ NONE \notin Proc \cup Page \cup Nat
  /\ NONE \notin [WordIndex -> Word]
  /\ pid = [p \in Proc |-> pid[p]]
  /\ MaxSwaps \in Nat /\ MaxQueue \in Nat

VARIABLES
  ram, disk,           \* the words of every frame and of every page of disk
  framesMap, frameOwnerTable,
  pageTable,           \* PCB::pageTable of every process
  swapTable,
  nextSwapAddress,     \* counted in pages
  victimFramePtr,
  reply                \* what the last call returned

tableVars == <<framesMap, frameOwnerTable, pageTable, swapTable>>
swapVars == <<disk, nextSwapAddress, victimFramePtr>>
memVars == <<ram, tableVars, swapVars, cacheVars, reply>>

FrameInfo == [ownerProcess : Proc, virtualPageNumber : Page]
NoOwner == [ownerProcess |-> NONE, virtualPageNumber |-> NONE]
Unwritten == [w \in WordIndex |-> UINT32_MAX]

MemoryInit ==
  /\ CacheInit
  /\ ram = [f \in Frame |-> Unwritten]
  /\ disk = [s \in Slot |-> Unwritten]
  /\ framesMap = [f \in Frame |-> FALSE]
  /\ frameOwnerTable = [f \in Frame |-> NoOwner]
  /\ pageTable = [p \in Proc |-> [n \in Page |-> NONE]]
  /\ swapTable = [i \in Pid |-> [n \in Page |-> NONE]]
  /\ nextSwapAddress = 0 /\ victimFramePtr = 0
  /\ reply = NONE

-----------------------------------------------------------------------------
(* The MMU *)

Resident(p, n) == pageTable[p][n] # NONE
Swapped(p, n) == swapTable[pid[p]][n] # NONE

\* Secondary memory ignores what is written past its end, and reads it as an error.
DiskWith(slot, page) == IF slot \in Slot THEN [disk EXCEPT ![slot] = page] ELSE disk
ReadDisk(pages, slot) == IF slot \in Slot THEN pages[slot] ELSE Unwritten

freeFrames == {f \in Frame : ~framesMap[f]}

\* allocateFrame looks for the first free frame before it takes the victim's.
allocatable(frame) ==
  IF freeFrames = {} THEN frame = victimFramePtr
  ELSE frame \in freeFrames /\ \A f \in freeFrames : frame <= f

\* The page swapOut removes: none while a frame is free.
Victim == IF freeFrames = {} THEN frameOwnerTable[victimFramePtr] ELSE NoOwner

\* Mutants of swapOut: the pointer stays; the pointer is not wrapped.
swapOut_SameVictim ==
  IF freeFrames # {} THEN UNCHANGED swapVars
  ELSE /\ UNCHANGED victimFramePtr
       /\ nextSwapAddress' = nextSwapAddress + 1
       /\ disk' = DiskWith(nextSwapAddress, ram[victimFramePtr])

swapOut_NoModulo ==
  IF freeFrames # {} THEN UNCHANGED swapVars
  ELSE /\ victimFramePtr' = victimFramePtr + 1
       /\ nextSwapAddress' = nextSwapAddress + 1
       /\ disk' = DiskWith(nextSwapAddress, ram[victimFramePtr])

\* swapOut runs when no frame is free: the pointer moves on, and the page of
\* the frame, if it has one, goes to a new place on disk.
swapOut ==
  IF freeFrames # {} THEN UNCHANGED swapVars
  ELSE /\ victimFramePtr' = (victimFramePtr + 1) % numFrames
       /\ IF Victim = NoOwner THEN UNCHANGED <<disk, nextSwapAddress>>
          ELSE /\ nextSwapAddress' = nextSwapAddress + 1
               /\ disk' = DiskWith(nextSwapAddress, ram[victimFramePtr])

\* Mutant of pagesLeft: the victim keeps its page table entry.
pagesLeft_Victim == pageTable

\* The page tables after swapOut.
pagesLeft ==
  IF Victim = NoOwner THEN pageTable
  ELSE [pageTable EXCEPT ![Victim.ownerProcess][Victim.virtualPageNumber] = NONE]

\* The swap table after swapOut.
swapsNow ==
  IF Victim = NoOwner THEN swapTable
  ELSE [swapTable EXCEPT ![pid[Victim.ownerProcess]][Victim.virtualPageNumber] = nextSwapAddress]

\* Mutant of swapIn: the entry of the page that came back is kept.
swapIn_Kept(p, n) == swapTable' = swapsNow

\* swapIn erases the entry last: the entry of another process with the same
\* pid would go too.
swapIn(p, n) ==
  swapTable' = IF Swapped(p, n) THEN [swapsNow EXCEPT ![pid[p]][n] = NONE] ELSE swapsNow

\* allocateFrame and, for a page on disk, swapIn.
allocateFrame(p, n, frame) ==
  /\ allocatable(frame)
  /\ swapOut
  /\ swapIn(p, n)
  /\ framesMap' = [framesMap EXCEPT ![frame] = TRUE]
  /\ frameOwnerTable' = [frameOwnerTable EXCEPT ![frame] =
                           [ownerProcess |-> p, virtualPageNumber |-> n]]
  /\ pageTable' = [pagesLeft EXCEPT ![p][n] = frame]

\* The frame number translateAddress finds, and the tables it leaves.
translateAddress(p, n, frame) ==
  IF Resident(p, n) THEN frame = pageTable[p][n] /\ UNCHANGED <<tableVars, swapVars>>
  ELSE allocateFrame(p, n, frame)

\* Mutant of pagedRam: the page is not copied from disk.
pagedRam_NotCopied(p, n, frame) == ram

\* Main memory once the page is in the frame: a new page keeps the words the
\* frame had.
pagedRam(p, n, frame) ==
  IF Resident(p, n) \/ ~Swapped(p, n) THEN ram
  ELSE LET diskNow == IF Victim = NoOwner THEN disk
                      ELSE DiskWith(nextSwapAddress, ram[victimFramePtr])
       IN  [ram EXCEPT ![frame] = ReadDisk(diskNow, swapTable[pid[p]][n])]

-----------------------------------------------------------------------------
(* The calls of the cores and of the loader *)

\* writeToFile of what put removes from the cache, by physical address.
writeToFile(memory) ==
  [f \in Frame |-> [w \in WordIndex |->
     IF \E a \in WriteBacks : a[1] = f /\ wordOf(a[2]) = w
     THEN cacheMap[CHOOSE a \in WriteBacks : TRUE].data
     ELSE memory[f][w]]]

\* A read of a page that was never written returns 0 and leaves no trace.
ReadNothing(p, n) ==
  /\ ~Resident(p, n) /\ ~Swapped(p, n)
  /\ reply' = 0
  /\ UNCHANGED <<ram, tableVars, swapVars, cacheVars>>

ReadHit(p, n, frame, offset) ==
  /\ get(<<frame, offset>>) # CACHE_MISS
  /\ ram' = pagedRam(p, n, frame)
  /\ reply' = get(<<frame, offset>>)
  /\ UNCHANGED cacheVars

ReadMiss(p, n, frame, offset) ==
  LET data_from_mem == pagedRam(p, n, frame)[frame][wordOf(offset)]
  IN  /\ get(<<frame, offset>>) = CACHE_MISS
      /\ put(<<frame, offset>>, data_from_mem)
      /\ ram' = writeToFile(pagedRam(p, n, frame))
      /\ reply' = data_from_mem

read(p, n, offset) ==
  \/ ReadNothing(p, n)
  \/ /\ Resident(p, n) \/ Swapped(p, n)
     /\ \E frame \in Frame :
          /\ translateAddress(p, n, frame)
          /\ ReadHit(p, n, frame, offset) \/ ReadMiss(p, n, frame, offset)

\* A write goes to main memory first and to the cache after.
Stored(p, n, frame, offset, word) ==
  [pagedRam(p, n, frame) EXCEPT ![frame][wordOf(offset)] = word]

WriteHit(p, n, frame, offset, word) ==
  /\ get(<<frame, offset>>) # CACHE_MISS
  /\ update(<<frame, offset>>, word)
  /\ ram' = Stored(p, n, frame, offset, word)

WriteMiss(p, n, frame, offset, word) ==
  /\ get(<<frame, offset>>) = CACHE_MISS
  /\ put(<<frame, offset>>, word)
  /\ ram' = writeToFile(Stored(p, n, frame, offset, word))

write(p, n, offset, word) ==
  /\ \E frame \in Frame :
       /\ translateAddress(p, n, frame)
       /\ WriteHit(p, n, frame, offset, word) \/ WriteMiss(p, n, frame, offset, word)
  /\ reply' = NONE

\* The bounds of an instance.
WithinBounds == nextSwapAddress' <= MaxSwaps /\ Len(fifo_queue') <= MaxQueue

MemoryCall ==
  \/ \E load \in Loads : read(load[1], load[2], load[3])
  \/ \E store \in Stores : write(store[1], store[2], store[3], store[4])

MemoryNext == MemoryCall /\ WithinBounds

MemorySpec == MemoryInit /\ [][MemoryNext]_memVars

-----------------------------------------------------------------------------
(* Properties *)

MemoryTypeOK ==
  /\ ram \in [Frame -> [WordIndex -> Word]]
  /\ disk \in [Slot -> [WordIndex -> Word]]
  /\ framesMap \in [Frame -> BOOLEAN]
  /\ frameOwnerTable \in [Frame -> FrameInfo \cup {NoOwner}]
  /\ pageTable \in [Proc -> [Page -> Frame \cup {NONE}]]
  /\ swapTable \in [Pid -> [Page -> Nat \cup {NONE}]]
  /\ nextSwapAddress \in Nat
  /\ victimFramePtr \in Frame
  /\ DOMAIN cacheMap \subseteq Frame \X Offset
  /\ \A a \in DOMAIN cacheMap : cacheMap[a] \in [data : Word, isDirty : BOOLEAN]
  /\ fifo_queue \in Seq(Frame \X Offset)
  /\ reply \in Word \cup {NONE}

\* The frame table and the page tables of the processes are inverse: a frame
\* has one page of one process, whoever was swapped out of it, and swapOut
\* never meets a taken frame with no owner.
FramesMatchPages ==
  /\ \A f \in Frame : framesMap[f] <=> frameOwnerTable[f] # NoOwner
  /\ \A f \in Frame : framesMap[f] =>
       pageTable[frameOwnerTable[f].ownerProcess][frameOwnerTable[f].virtualPageNumber] = f
  /\ \A p \in Proc, n \in Page : Resident(p, n) =>
       frameOwnerTable[pageTable[p][n]] = [ownerProcess |-> p, virtualPageNumber |-> n]

\* A page is in main memory or on disk, and two pages are never at the same
\* place of the disk.
DiskPagesDistinct ==
  /\ \A p \in Proc, n \in Page : ~(Resident(p, n) /\ Swapped(p, n))
  /\ \A i \in Pid, n \in Page : swapTable[i][n] # NONE => swapTable[i][n] < nextSwapAddress
  /\ \A i, j \in Pid, n, m \in Page :
       swapTable[i][n] = swapTable[j][m] /\ swapTable[i][n] # NONE => i = j /\ n = m

\* Whatever the cache holds can be replaced: its address is queued.
CacheReplaceable == DOMAIN cacheMap \subseteq Range(fifo_queue)

\* The words of a page, wherever it is.
contentsOf(p, n) ==
  CASE Resident(p, n) -> ram[pageTable[p][n]]
    [] ~Resident(p, n) /\ Swapped(p, n) -> ReadDisk(disk, swapTable[pid[p]][n])
    [] OTHER -> NONE

\* The step writes word w of page n of process p.
Writes(p, n, w) ==
  \E store \in Stores :
    /\ store[1] = p /\ store[2] = n /\ wordOf(store[3]) = w
    /\ write(p, n, store[3], store[4])

\* Swapping moves pages and changes no word, while the disk has room: a word of
\* a page changes by a write of its process, or when a dirty word is written
\* back to the frame the page is in.
SwapKeepsWords ==
  [][\A p \in Proc, n \in Page, w \in WordIndex :
       contentsOf(p, n) # NONE /\ nextSwapAddress' <= diskPages =>
         \/ contentsOf(p, n)'[w] = contentsOf(p, n)[w]
         \/ Writes(p, n, w)
         \/ \E a \in WriteBacks : a[1] = pageTable'[p][n] /\ wordOf(a[2]) = w]_memVars

\* The frames in the order their pages were loaded, and the pages on disk.
Loaded ==
  [i \in 1 .. Cardinality(Frame \ freeFrames) |->
     frameOwnerTable[(victimFramePtr + i - 1) % numFrames]]
OnDisk == {page \in FrameInfo : Swapped(page.ownerProcess, page.virtualPageNumber)}

Paging == INSTANCE FifoPaging
            WITH PageId <- FrameInfo, FrameCount <- numFrames,
                 resident <- Loaded, swapped <- OnDisk

\* The victim pointer makes the replacement first in, first out: swapOut always
\* takes the page that has been in main memory longest, and no page is lost.
ImplementsFifoPaging == Paging!PagingSpec

VM == INSTANCE VirtualMemory
        WITH contents <- [p \in Proc |-> [n \in Page |-> contentsOf(p, n)]],
             ABSENT <- NONE, ZERO <- 0, VOID <- NONE

\* Until a page is swapped out, a process reads the words it wrote, through the
\* cache and its write-backs, and nobody else's.
TransparentUntilSwap ==
  VM!VMInit /\ [][nextSwapAddress' = 0 => [VM!VMNext]_(VM!vmVars)]_memVars

\* What cache.cpp says of put, that a full cache removes an entry first: there
\* are never more entries than its capacity.
CacheWithinCapacity == Cardinality(DOMAIN cacheMap) <= CACHE_CAPACITY

\* What README.md calls virtual memory with paging and swap: programs cannot
\* tell that their pages move.
SwappingIsTransparent == VM!VMSpec
=============================================================================
