------------------------- MODULE TransparencyProofs -------------------------
(***************************************************************************)
(* Until the first page is swapped out, the cache and main memory together *)
(* implement VirtualMemory: for any capacity, any number of frames and any *)
(* programs that access whole words and do not store the word that means   *)
(* a miss.                                                                 *)
(***************************************************************************)
EXTENDS MemoryProofs

UsedOffsets == {load[3] : load \in Loads} \cup {store[3] : store \in Stores}

\* Two accesses to a word use the same address.
AlignedAccesses ==
  \A o1, o2 \in UsedOffsets : wordOf(o1) = wordOf(o2) => o1 = o2

\* The cache agrees with main memory as long as no frame has changed hands, and
\* a dirty word is never the one get takes for a miss.
Coherent ==
  /\ \A a \in DOMAIN cacheMap : a[2] \in UsedOffsets
  /\ \A a \in DOMAIN cacheMap : cacheMap[a].isDirty => cacheMap[a].data # UINT32_MAX
  /\ nextSwapAddress = 0 =>
       \A a \in DOMAIN cacheMap : cacheMap[a].data = ram[a[1]][wordOf(a[2])]

\* Before the first swap-out, no page is on disk and translation moves nothing.
LEMMA NothingSwapped ==
  ASSUME MemFullInv, nextSwapAddress = 0
  PROVE  /\ \A p \in Proc, n \in Page : ~Swapped(p, n)
         /\ \A p \in Proc, n \in Page, frame \in Frame : pagedRam(p, n, frame) = ram
<1>1. \A p \in Proc, n \in Page : ~Swapped(p, n)
  BY PidOfProc DEF MemFullInv, MemInv, SwapTypeOK, SlotsBelow, Swapped
<1> QED BY <1>1 DEF pagedRam

\* put writes one word back at most.
LEMMA OneWriteBack == \A a, b \in WriteBacks : a = b /\ a \in DOMAIN cacheMap /\ cacheMap[a].isDirty
BY DEF WriteBacks, Removed

\* Writing back words that main memory has already changes nothing.
LEMMA NothingWrittenBack ==
  ASSUME NEW memory \in [Frame -> PageImage],
         \A a \in WriteBacks : cacheMap[a].data = memory[a[1]][wordOf(a[2])]
  PROVE  writeToFile(memory) = memory
<1>1. ASSUME NEW f \in Frame, NEW w \in WordIndex
      PROVE  writeToFile(memory)[f][w] = memory[f][w]
  <2>1. ASSUME NEW a \in WriteBacks, a[1] = f, wordOf(a[2]) = w
        PROVE  cacheMap[CHOOSE b \in WriteBacks : TRUE].data = memory[f][w]
    <3>1. (CHOOSE b \in WriteBacks : TRUE) = a
      BY OneWriteBack
    <3> QED BY <2>1, <3>1
  <2> QED BY <2>1 DEF writeToFile
<1> QED BY <1>1 DEF writeToFile, PageImage

\* Where the page a call needs is after it, when nothing was swapped out: in a
\* frame of its own, and the other pages where they were.
LEMMA PlaceOfPage ==
  ASSUME MemFullInv, MemoryCall, nextSwapAddress' = 0,
         NEW p \in Proc, NEW n \in Page, NEW frame \in Frame, translateAddress(p, n, frame)
  PROVE  /\ nextSwapAddress = 0
         /\ pageTable'[p][n] = frame
         /\ \A a \in Proc, b \in Page : a # p \/ b # n =>
              pageTable'[a][b] = pageTable[a][b] /\ pageTable[a][b] # frame
<1> USE DEF MemFullInv, MemInv, TableInv
<1>1. nextSwapAddress = 0
  BY SlotsKept DEF SwapTypeOK
<1>2. CASE Resident(p, n)
  <2>1. pageTable[p][n] = frame /\ pageTable' = pageTable
    BY <1>2 DEF translateAddress, tableVars
  <2>2. ASSUME NEW a \in Proc, NEW b \in Page, pageTable[a][b] = frame
        PROVE  a = p /\ b = n
    <3>1. /\ frameOwnerTable[frame] = [ownerProcess |-> a, virtualPageNumber |-> b]
          /\ frameOwnerTable[frame] = [ownerProcess |-> p, virtualPageNumber |-> n]
      BY <2>1, <2>2, NoneIsNoFrame DEF FramesMatchPages, Resident
    <3> QED BY <3>1
  <2> QED BY <1>1, <2>1, <2>2
<1>3. CASE ~Resident(p, n)
  <2>1. LoadsPage(p, n, frame) /\ freeFrames # {}
    BY <1>1, <1>3, SlotsKept DEF translateAddress, LoadsPage, SwapTypeOK
  <2>2. ~framesMap[frame] /\ pageTable' = [pageTable EXCEPT ![p][n] = frame]
    BY <2>1, NoneIsNoFrame
       DEF LoadsPage, allocateFrame, allocatable, freeFrames, pagesLeft, Victim
  <2>3. ASSUME NEW a \in Proc, NEW b \in Page, pageTable[a][b] = frame PROVE FALSE
    <3>1. frameOwnerTable[frame] = [ownerProcess |-> a, virtualPageNumber |-> b]
      BY <2>3, NoneIsNoFrame DEF FramesMatchPages, Resident
    <3>2. frameOwnerTable[frame] = NoOwner
      BY <2>2 DEF FramesMatchPages
    <3>3. [ownerProcess |-> a, virtualPageNumber |-> b].ownerProcess = NONE
      BY <3>1, <3>2 DEF NoOwner
    <3> QED BY <3>3, NoneIsNoFrame
  <2> QED BY <1>1, <2>2, <2>3 DEF TablesTypeOK
<1> QED BY <1>2, <1>3

\* A call keeps the cache coherent, and main memory changes by the word that is
\* written only.
LEMMA ReadCoherent ==
  ASSUME MemFullInv, Coherent, MemoryCall, NEW p \in Proc, NEW n \in Page,
         NEW frame \in Frame, NEW offset \in UsedOffsets \cap Offset, translateAddress(p, n, frame),
         ReadHit(p, n, frame, offset) \/ ReadMiss(p, n, frame, offset)
  PROVE  /\ Coherent'
         /\ nextSwapAddress' = 0 => ram' = ram /\ reply' = ram[frame][wordOf(offset)]
<1> USE DEF MemFullInv, MemInv
<1>1. ASSUME nextSwapAddress' = 0
      PROVE  /\ nextSwapAddress = 0 /\ pagedRam(p, n, frame) = ram
             /\ \A a \in DOMAIN cacheMap : cacheMap[a].data = ram[a[1]][wordOf(a[2])]
  <2>1. nextSwapAddress = 0
    BY <1>1, PlaceOfPage
  <2> QED BY <2>1, NothingSwapped DEF Coherent
<1>2. CASE ReadHit(p, n, frame, offset)
  <2>1. <<frame, offset>> \in DOMAIN cacheMap /\ reply' = cacheMap[<<frame, offset>>].data
    BY <1>2 DEF ReadHit, get
  <2>2. UNCHANGED cacheVars /\ ram' = pagedRam(p, n, frame)
    BY <1>2 DEF ReadHit
  <2> QED BY <1>1, <2>1, <2>2 DEF Coherent, cacheVars
<1>3. CASE ReadMiss(p, n, frame, offset)
  <2> DEFINE word == pagedRam(p, n, frame)[frame][wordOf(offset)]
  <2>1. /\ put(<<frame, offset>>, word) /\ reply' = word
        /\ ram' = writeToFile(pagedRam(p, n, frame))
    BY <1>3 DEF ReadMiss
  <2>2. ASSUME nextSwapAddress' = 0 PROVE ram' = ram /\ word = ram[frame][wordOf(offset)]
    <3>1. writeToFile(ram) = ram
      BY <1>1, <2>2, NothingWrittenBack, OneWriteBack DEF ImagesTypeOK
    <3> QED BY <1>1, <2>1, <2>2, <3>1
  <2> HIDE DEF word
  <2>3. /\ \A a \in DOMAIN cacheMap' : a # <<frame, offset>> => a \in DOMAIN cacheMap
        /\ \A a \in DOMAIN cacheMap' : cacheMap'[a] =
             IF a = <<frame, offset>> THEN [data |-> word, isDirty |-> FALSE] ELSE cacheMap[a]
    BY <2>1 DEF put
  <2>4. \A a \in DOMAIN cacheMap' : a[2] \in UsedOffsets
    BY <2>3 DEF Coherent
  <2>5. \A a \in DOMAIN cacheMap' : cacheMap'[a].isDirty => cacheMap'[a].data # UINT32_MAX
    BY <2>3 DEF Coherent
  <2>6. ASSUME nextSwapAddress' = 0, NEW a \in DOMAIN cacheMap'
        PROVE  cacheMap'[a].data = ram'[a[1]][wordOf(a[2])]
    <3>1. CASE a = <<frame, offset>>
      BY <2>2, <2>3, <2>6, <3>1
    <3>2. CASE a # <<frame, offset>>
      BY <1>1, <2>2, <2>3, <2>6, <3>2
    <3> QED BY <3>1, <3>2
  <2> QED BY <2>1, <2>2, <2>4, <2>5, <2>6 DEF Coherent
<1> QED BY <1>2, <1>3

LEMMA WriteCoherent ==
  ASSUME MemFullInv, Coherent, MemoryCall, AlignedAccesses, UINT32_MAX \notin Data,
         NEW p \in Proc, NEW n \in Page, NEW frame \in Frame,
         NEW offset \in UsedOffsets \cap Offset, NEW word \in Data,
         translateAddress(p, n, frame),
         WriteHit(p, n, frame, offset, word) \/ WriteMiss(p, n, frame, offset, word)
  PROVE  /\ Coherent'
         /\ nextSwapAddress' = 0 =>
              ram' = [ram EXCEPT ![frame] = [ram[frame] EXCEPT ![wordOf(offset)] = word]]
<1> USE DEF MemFullInv, MemInv
<1> DEFINE address == <<frame, offset>>
           now == [ram EXCEPT ![frame] = [ram[frame] EXCEPT ![wordOf(offset)] = word]]
<1>0. frame \in Frame /\ wordOf(offset) \in WordIndex /\ word \in Word
  BY DEF WordIndex, Word
<1>1. ASSUME nextSwapAddress' = 0
      PROVE  /\ nextSwapAddress = 0 /\ Stored(p, n, frame, offset, word) = now
             /\ now \in [Frame -> PageImage]
             /\ \A a \in DOMAIN cacheMap : cacheMap[a].data = ram[a[1]][wordOf(a[2])]
  <2>1. nextSwapAddress = 0
    BY <1>1, PlaceOfPage
  <2>2. pagedRam(p, n, frame) = ram
    BY <2>1, NothingSwapped
  <2>3. Stored(p, n, frame, offset, word) = now
    BY <2>2 DEF Stored
  <2>4. now \in [Frame -> PageImage]
    <3>1. ram \in [Frame -> PageImage] /\ ram[frame] \in [WordIndex -> Word]
      BY DEF ImagesTypeOK, PageImage
    <3> QED BY <1>0, <3>1 DEF PageImage
  <2> QED BY <2>1, <2>3, <2>4 DEF Coherent
<1>2. \A a \in DOMAIN cacheMap : a \in Address /\ a[1] \in Frame /\ wordOf(a[2]) \in WordIndex
                                 /\ a[2] \in UsedOffsets
  BY DEF CacheInv, CacheTypeOK, Coherent, Address, WordIndex
<1>3. ASSUME nextSwapAddress' = 0
      PROVE  /\ now[frame][wordOf(offset)] = word
             /\ \A a \in DOMAIN cacheMap : a # address =>
                  now[a[1]][wordOf(a[2])] = ram[a[1]][wordOf(a[2])]
  <2>1. ram \in [Frame -> [WordIndex -> Word]]
    BY DEF ImagesTypeOK, PageImage
  <2>2. ASSUME NEW a \in DOMAIN cacheMap, a # address
        PROVE  a[1] # frame \/ wordOf(a[2]) # wordOf(offset)
    BY <1>2, <2>2 DEF AlignedAccesses, Address
  <2> QED BY <1>0, <1>2, <2>1, <2>2
<1> HIDE DEF now
<1>4. CASE WriteHit(p, n, frame, offset, word)
  <2>1. /\ address \in DOMAIN cacheMap
        /\ cacheMap' = [cacheMap EXCEPT ![address] = [data |-> word, isDirty |-> TRUE]]
        /\ ram' = Stored(p, n, frame, offset, word)
    BY <1>4 DEF WriteHit, get, update
  <2>2. DOMAIN cacheMap' = DOMAIN cacheMap
    BY <2>1
  <2>3. \A a \in DOMAIN cacheMap' : cacheMap'[a] =
          IF a = address THEN [data |-> word, isDirty |-> TRUE] ELSE cacheMap[a]
    BY <2>1
  <2>4. \A a \in DOMAIN cacheMap' : a[2] \in UsedOffsets
    BY <1>2, <2>2
  <2>5. \A a \in DOMAIN cacheMap' : cacheMap'[a].isDirty => cacheMap'[a].data # UINT32_MAX
    BY <2>2, <2>3 DEF Coherent
  <2>6. ASSUME nextSwapAddress' = 0, NEW a \in DOMAIN cacheMap'
        PROVE  cacheMap'[a].data = ram'[a[1]][wordOf(a[2])]
    <3>1. CASE a = address
      BY <1>1, <1>3, <2>1, <2>3, <2>6, <3>1
    <3>2. CASE a # address
      BY <1>1, <1>3, <2>1, <2>2, <2>3, <2>6, <3>2
    <3> QED BY <3>1, <3>2
  <2> QED BY <1>1, <2>1, <2>4, <2>5, <2>6 DEF Coherent, now
<1>5. CASE WriteMiss(p, n, frame, offset, word)
  <2>1. /\ put(address, word) /\ get(address) = UINT32_MAX
        /\ ram' = writeToFile(Stored(p, n, frame, offset, word))
    BY <1>5 DEF WriteMiss, CACHE_MISS
  <2>2. address \notin WriteBacks
    BY <2>1, OneWriteBack DEF get, Coherent
  <2>3. ASSUME nextSwapAddress' = 0 PROVE ram' = now
    <3>1. \A a \in WriteBacks : cacheMap[a].data = now[a[1]][wordOf(a[2])]
      BY <1>1, <1>3, <2>2, <2>3, OneWriteBack
    <3> QED BY <1>1, <2>1, <2>3, <3>1, NothingWrittenBack
  <2>4. /\ \A a \in DOMAIN cacheMap' : a # address => a \in DOMAIN cacheMap
        /\ \A a \in DOMAIN cacheMap' : cacheMap'[a] =
             IF a = address THEN [data |-> word, isDirty |-> FALSE] ELSE cacheMap[a]
    BY <2>1 DEF put
  <2>5. \A a \in DOMAIN cacheMap' : a[2] \in UsedOffsets
    BY <1>2, <2>4
  <2>6. \A a \in DOMAIN cacheMap' : cacheMap'[a].isDirty => cacheMap'[a].data # UINT32_MAX
    BY <2>4 DEF Coherent
  <2>7. ASSUME nextSwapAddress' = 0, NEW a \in DOMAIN cacheMap'
        PROVE  cacheMap'[a].data = ram'[a[1]][wordOf(a[2])]
    <3>1. CASE a = address
      BY <1>3, <2>3, <2>4, <2>7, <3>1
    <3>2. CASE a # address
      BY <1>1, <1>3, <2>3, <2>4, <2>7, <3>2
    <3> QED BY <3>1, <3>2
  <2> QED BY <2>3, <2>5, <2>6, <2>7 DEF Coherent, now
<1> QED BY <1>4, <1>5

\* What read and write find and leave, for the offsets programs use.
LEMMA UsedOffset ==
  /\ \A load \in Loads : load[1] \in Proc /\ load[2] \in Page /\ load[3] \in UsedOffsets \cap Offset
  /\ \A store \in Stores : /\ store[1] \in Proc /\ store[2] \in Page
                           /\ store[3] \in UsedOffsets \cap Offset /\ store[4] \in Data
BY MemoryAssumption DEF UsedOffsets

LEMMA CoherentInit == MemoryInit => Coherent
BY DEF MemoryInit, CacheInit, Coherent

LEMMA CoherentKept ==
  ASSUME AlignedAccesses, UINT32_MAX \notin Data, MemFullInv, Coherent, [MemoryCall]_memVars
  PROVE  Coherent'
<1>1. ASSUME UNCHANGED <<ram, swapVars, cacheVars>> PROVE Coherent'
  BY <1>1 DEF Coherent, swapVars, cacheVars
<1>2. ASSUME MemoryCall, NEW load \in Loads, read(load[1], load[2], load[3]) PROVE Coherent'
  <2>1. CASE ReadNothing(load[1], load[2])
    BY <1>1, <2>1 DEF ReadNothing
  <2> QED BY <1>2, <2>1, UsedOffset, ReadCoherent DEF read
<1>3. ASSUME MemoryCall, NEW store \in Stores, write(store[1], store[2], store[3], store[4])
      PROVE  Coherent'
  BY <1>3, UsedOffset, WriteCoherent DEF write
<1>4. CASE UNCHANGED memVars
  BY <1>1, <1>4 DEF memVars
<1>5. CASE MemoryCall
  <2>1. CASE \E load \in Loads : read(load[1], load[2], load[3])
    BY <1>2, <1>5, <2>1
  <2>2. CASE \E store \in Stores : write(store[1], store[2], store[3], store[4])
    BY <1>3, <1>5, <2>2
  <2> QED BY <1>5, <2>1, <2>2 DEF MemoryCall
<1> QED BY <1>4, <1>5

\* The contents of the pages when none is on disk, before and after a step.
LEMMA ContentsNow ==
  ASSUME MemFullInv, nextSwapAddress = 0, NEW p \in Proc, NEW n \in Page
  PROVE  contentsOf(p, n) = IF Resident(p, n) THEN ram[pageTable[p][n]] ELSE NONE
BY NothingSwapped DEF contentsOf

LEMMA ContentsThen ==
  ASSUME MemFullInv', nextSwapAddress' = 0, NEW p \in Proc, NEW n \in Page
  PROVE  contentsOf(p, n)' = IF Resident(p, n)' THEN ram'[pageTable'[p][n]] ELSE NONE
<1>1. ~Swapped(p, n)'
  BY PidOfProc DEF MemFullInv, MemInv, SwapTypeOK, SlotsBelow, Swapped
<1> QED BY <1>1 DEF contentsOf, Resident

\* A read returns the word of the page, and changes no page.
LEMMA ReadImplements ==
  ASSUME MemFullInv, MemFullInv', Coherent, MemoryCall, nextSwapAddress' = 0,
         NEW p \in Proc, NEW n \in Page, NEW offset \in UsedOffsets \cap Offset, read(p, n, offset)
  PROVE  VM!VMRead(p, n, wordOf(offset))
<1>1. CASE ReadNothing(p, n)
  <2>1. nextSwapAddress = 0 /\ UNCHANGED <<ram, pageTable>>
    BY <1>1 DEF ReadNothing, tableVars, swapVars
  <2>2. \A a \in Proc, b \in Page : contentsOf(a, b)' = contentsOf(a, b)
    BY <2>1, ContentsNow, ContentsThen DEF Resident
  <2>3. contentsOf(p, n) = NONE /\ reply' = 0
    BY <1>1, <2>1, ContentsNow DEF ReadNothing
  <2> QED BY <2>2, <2>3 DEF VM!VMRead
<1>2. ASSUME Resident(p, n) \/ Swapped(p, n), NEW frame \in Frame, translateAddress(p, n, frame),
             ReadHit(p, n, frame, offset) \/ ReadMiss(p, n, frame, offset)
      PROVE  VM!VMRead(p, n, wordOf(offset))
  <2>1. nextSwapAddress = 0
    BY <1>2, PlaceOfPage
  <2>2. Resident(p, n)
    BY <1>2, <2>1, NothingSwapped
  <2>3. pageTable[p][n] = frame /\ pageTable' = pageTable
    BY <1>2, <2>2 DEF translateAddress, tableVars
  <2>4. ram' = ram /\ reply' = ram[frame][wordOf(offset)]
    BY <1>2, ReadCoherent
  <2>5. \A a \in Proc, b \in Page : contentsOf(a, b)' = contentsOf(a, b)
    BY <2>1, <2>3, <2>4, ContentsNow, ContentsThen DEF Resident
  <2>6. contentsOf(p, n) = ram[frame] /\ ram[frame] # NONE
    <3>1. ram[frame] \in [WordIndex -> Word]
      BY DEF MemFullInv, MemInv, ImagesTypeOK, PageImage
    <3> QED BY <2>1, <2>2, <2>3, <3>1, ContentsNow, MemoryAssumption
  <2> QED BY <2>4, <2>5, <2>6 DEF VM!VMRead
<1> QED BY <1>1, <1>2 DEF read

\* A write changes the word of the page, and no other page.
LEMMA WriteImplements ==
  ASSUME AlignedAccesses, UINT32_MAX \notin Data,
         MemFullInv, MemFullInv', Coherent, MemoryCall, nextSwapAddress' = 0,
         NEW p \in Proc, NEW n \in Page, NEW offset \in UsedOffsets \cap Offset,
         NEW word \in Data, write(p, n, offset, word)
  PROVE  VM!VMWrite(p, n, wordOf(offset), word)
<1>1. PICK frame \in Frame :
        /\ translateAddress(p, n, frame)
        /\ WriteHit(p, n, frame, offset, word) \/ WriteMiss(p, n, frame, offset, word)
  BY DEF write
<1> DEFINE stored == [ram[frame] EXCEPT ![wordOf(offset)] = word]
<1>2. /\ nextSwapAddress = 0 /\ pageTable'[p][n] = frame
      /\ \A a \in Proc, b \in Page : a # p \/ b # n =>
           pageTable'[a][b] = pageTable[a][b] /\ pageTable[a][b] # frame
  BY <1>1, PlaceOfPage
<1>3. ram' = [ram EXCEPT ![frame] = stored]
  BY <1>1, WriteCoherent
<1>4. /\ ram[frame] \in [WordIndex -> Word] /\ frame # NONE /\ DOMAIN ram = Frame
      /\ pageTable \in [Proc -> [Page -> Frame \cup {NONE}]]
  BY NoneIsNoFrame
     DEF MemFullInv, MemInv, ImagesTypeOK, PageImage, TableInv, TablesTypeOK
<1> HIDE DEF stored
<1>5. contentsOf(p, n)' = stored
  BY <1>2, <1>3, <1>4, ContentsThen DEF Resident
<1>6. ASSUME NEW a \in Proc, NEW b \in Page, a # p \/ b # n
      PROVE  contentsOf(a, b)' = contentsOf(a, b)
  <2>1. pageTable'[a][b] = pageTable[a][b] /\ pageTable[a][b] # frame
    BY <1>2, <1>6
  <2>2. pageTable[a][b] # NONE => ram'[pageTable[a][b]] = ram[pageTable[a][b]]
    BY <1>3, <1>4, <2>1
  <2> QED BY <1>2, <2>1, <2>2, ContentsNow, ContentsThen DEF Resident
<1>7. contentsOf(p, n) = NONE \/ contentsOf(p, n) = ram[frame]
  <2>1. Resident(p, n) => pageTable[p][n] = frame
    BY <1>1 DEF translateAddress
  <2> QED BY <1>2, <2>1, ContentsNow
<1>8. reply' = NONE
  BY DEF write
<1> DEFINE before == [a \in Proc |-> [b \in Page |-> contentsOf(a, b)]]
<1>9. [a \in Proc |-> [b \in Page |-> contentsOf(a, b)]]' = [before EXCEPT ![p][n] = stored]
  BY <1>5, <1>6
<1>10. before[p][n] = contentsOf(p, n)
  OBVIOUS
<1> HIDE DEF before
<1>11. ram[frame] \in IF before[p][n] = NONE THEN [WordIndex -> Word] ELSE {before[p][n]}
  BY <1>4, <1>7, <1>10
<1>12. \E page \in IF before[p][n] = NONE THEN [WordIndex -> Word] ELSE {before[p][n]} :
         [a \in Proc |-> [b \in Page |-> contentsOf(a, b)]]' =
           [before EXCEPT ![p][n] = [page EXCEPT ![wordOf(offset)] = word]]
  BY <1>9, <1>11 DEF stored
<1> QED BY <1>8, <1>12 DEF VM!VMWrite, before

\* Until the first page goes to disk, a process reads what it wrote, whatever
\* the cache holds, replaces and writes back.
THEOREM CacheTransparent ==
  ASSUME AlignedAccesses, UINT32_MAX \notin Data
  PROVE  MemorySpec => TransparentUntilSwap
<1>1. MemoryInit => VM!VMInit
  <2> SUFFICES ASSUME MemoryInit PROVE VM!VMInit
    OBVIOUS
  <2>1. ASSUME NEW p \in Proc, NEW n \in Page PROVE contentsOf(p, n) = NONE
    BY PidOfProc DEF MemoryInit, contentsOf, Resident, Swapped
  <2> QED BY <2>1 DEF MemoryInit, VM!VMInit
<1>2. MemFullInv /\ MemFullInv' /\ Coherent /\ [MemoryCall]_memVars =>
        [nextSwapAddress' = 0 => [VM!VMNext]_(VM!vmVars)]_memVars
  <2> SUFFICES ASSUME MemFullInv, MemFullInv', Coherent, MemoryCall, nextSwapAddress' = 0
               PROVE  VM!VMNext
    OBVIOUS
  <2>1. ASSUME NEW load \in Loads, read(load[1], load[2], load[3]) PROVE VM!VMNext
    <3>1. VM!VMRead(load[1], load[2], wordOf(load[3]))
      BY <2>1, ReadImplements, UsedOffset
    <3> QED BY <3>1, UsedOffset DEF VM!VMNext, WordIndex
  <2>2. ASSUME NEW store \in Stores, write(store[1], store[2], store[3], store[4])
        PROVE  VM!VMNext
    <3>1. VM!VMWrite(store[1], store[2], wordOf(store[3]), store[4])
      BY <2>2, WriteImplements, UsedOffset
    <3> QED BY <3>1, UsedOffset DEF VM!VMNext, WordIndex
  <2> QED BY <2>1, <2>2 DEF MemoryCall
<1> QED BY <1>1, <1>2, InitMem, MemKept, CoherentInit, CoherentKept, NextIsCall, PTL
        DEF MemorySpec, TransparentUntilSwap
=============================================================================
