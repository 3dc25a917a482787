---------------------------- MODULE MemoryProofs ----------------------------
(***************************************************************************)
(* The tables of the MMU, for any number of processes, pages and frames:   *)
(* the frame table and the page tables stay inverse, the swap table never  *)
(* names one place of the disk twice, and the cache can always replace     *)
(* what it holds.                                                          *)
(***************************************************************************)
EXTENDS MemoryManager, ContainerLemmas, FiniteSetTheorems

USE DEF FrameInfo, NoOwner

\* The types of the tables the MMU keeps.
TablesTypeOK ==
  /\ framesMap \in [Frame -> BOOLEAN]
  /\ frameOwnerTable \in [Frame -> FrameInfo \cup {NoOwner}]
  /\ pageTable \in [Proc -> [Page -> Frame \cup {NONE}]]
  /\ victimFramePtr \in Frame

TableInv == TablesTypeOK /\ FramesMatchPages

\* A call that loads a page which is not in main memory.
LoadsPage(p, n, frame) == ~Resident(p, n) /\ allocateFrame(p, n, frame)

\* A step of an instance is a call within its bounds.
LEMMA NextIsCall == [MemoryNext]_memVars => [MemoryCall]_memVars
BY DEF MemoryNext

\* Every call leaves the tables alone, or loads the page it needs.
LEMMA StepTables ==
  ASSUME MemoryCall
  PROVE  \/ UNCHANGED <<tableVars, swapVars>>
         \/ \E p \in Proc, n \in Page, frame \in Frame : LoadsPage(p, n, frame)
<1>1. ASSUME NEW load \in Loads, read(load[1], load[2], load[3])
      PROVE  \/ UNCHANGED <<tableVars, swapVars>>
             \/ \E frame \in Frame : LoadsPage(load[1], load[2], frame)
  BY <1>1 DEF read, ReadNothing, translateAddress, LoadsPage
<1>2. ASSUME NEW store \in Stores, write(store[1], store[2], store[3], store[4])
      PROVE  \/ UNCHANGED <<tableVars, swapVars>>
             \/ \E frame \in Frame : LoadsPage(store[1], store[2], frame)
  BY <1>2 DEF write, translateAddress, LoadsPage
<1>3. \A load \in Loads : load[1] \in Proc /\ load[2] \in Page
  BY MemoryAssumption
<1>4. \A store \in Stores : store[1] \in Proc /\ store[2] \in Page
  BY MemoryAssumption
<1> QED BY <1>1, <1>2, <1>3, <1>4 DEF MemoryCall

\* No frame is NONE, and a page that is loaded has no frame named NONE.
LEMMA NoneIsNoFrame == NONE \notin Frame /\ NONE \notin Proc /\ NONE \notin Page
BY MemoryAssumption DEF Frame

\* Initially every frame is free and every page table empty.
LEMMA InitTables == MemoryInit => TableInv
BY MemoryAssumption, NoneIsNoFrame
   DEF MemoryInit, TableInv, TablesTypeOK, FramesMatchPages, Resident, Frame

\* The page swapOut removes is resident, in the frame of the victim pointer.
LEMMA VictimIsResident ==
  ASSUME TableInv, freeFrames = {}
  PROVE  /\ Victim \in FrameInfo
         /\ pageTable[Victim.ownerProcess][Victim.virtualPageNumber] = victimFramePtr
         /\ frameOwnerTable[victimFramePtr] = Victim
BY DEF TableInv, TablesTypeOK, FramesMatchPages, freeFrames, Victim

\* Loading a page into a free frame keeps the tables inverse.
LEMMA LoadFree ==
  ASSUME TableInv, NEW p \in Proc, NEW n \in Page, NEW frame \in Frame,
         LoadsPage(p, n, frame), freeFrames # {}
  PROVE  TableInv'
<1>1. ~framesMap[frame] /\ UNCHANGED victimFramePtr /\ pagesLeft = pageTable
  BY NoneIsNoFrame DEF LoadsPage, allocateFrame, allocatable, freeFrames, swapOut, swapVars,
     pagesLeft, Victim
<1>2. /\ framesMap' = [framesMap EXCEPT ![frame] = TRUE]
      /\ frameOwnerTable' = [frameOwnerTable EXCEPT ![frame] =
                               [ownerProcess |-> p, virtualPageNumber |-> n]]
      /\ pageTable' = [pageTable EXCEPT ![p][n] = frame]
  BY <1>1 DEF LoadsPage, allocateFrame
<1>3. TablesTypeOK'
  BY <1>1, <1>2 DEF TableInv, TablesTypeOK
<1>4. FramesMatchPages'
  BY <1>1, <1>2, NoneIsNoFrame
     DEF TableInv, TablesTypeOK, FramesMatchPages, Resident, LoadsPage
<1> QED BY <1>3, <1>4 DEF TableInv

\* So does loading a page into the frame of the victim.
LEMMA LoadOverVictim ==
  ASSUME TableInv, NEW p \in Proc, NEW n \in Page, NEW frame \in Frame,
         LoadsPage(p, n, frame), freeFrames = {}
  PROVE  TableInv'
<1> DEFINE q == Victim.ownerProcess
           m == Victim.virtualPageNumber
<1>1. frame = victimFramePtr /\ framesMap[frame] /\ Victim # NoOwner
  BY VictimIsResident, NoneIsNoFrame
     DEF LoadsPage, allocateFrame, allocatable, freeFrames, TableInv, TablesTypeOK
<1>2. q \in Proc /\ m \in Page /\ pageTable[q][m] = frame /\ frameOwnerTable[frame] = Victim
  BY <1>1, VictimIsResident
<1>3. /\ framesMap' = [framesMap EXCEPT ![frame] = TRUE]
      /\ frameOwnerTable' = [frameOwnerTable EXCEPT ![frame] =
                               [ownerProcess |-> p, virtualPageNumber |-> n]]
      /\ pageTable' = [[pageTable EXCEPT ![q][m] = NONE] EXCEPT ![p][n] = frame]
  BY <1>1 DEF LoadsPage, allocateFrame, pagesLeft
<1>4. victimFramePtr' \in Frame
  BY <1>1, MemoryAssumption
     DEF LoadsPage, allocateFrame, swapOut, TableInv, TablesTypeOK, Frame
<1>5. TablesTypeOK'
  BY <1>2, <1>3, <1>4 DEF TableInv, TablesTypeOK
<1>6. \A a \in Proc, b \in Page :
        pageTable'[a][b] = IF a = p /\ b = n THEN frame
                           ELSE IF a = q /\ b = m THEN NONE ELSE pageTable[a][b]
  BY <1>2, <1>3 DEF TableInv, TablesTypeOK
<1> HIDE DEF q, m
<1>7. ASSUME NEW a \in Proc, NEW b \in Page, Resident(a, b), pageTable[a][b] = frame
      PROVE  a = q /\ b = m
  <2>1. Victim = [ownerProcess |-> a, virtualPageNumber |-> b]
    BY <1>2, <1>7 DEF TableInv, FramesMatchPages
  <2> QED BY <2>1 DEF q, m
<1>8. ~(q = p /\ m = n)
  BY <1>2, NoneIsNoFrame DEF LoadsPage, Resident
<1>9. FramesMatchPages'
  <2>1. ASSUME NEW f \in Frame
        PROVE  framesMap'[f] <=> frameOwnerTable'[f] # NoOwner
    BY <1>3, <2>1, NoneIsNoFrame DEF TableInv, TablesTypeOK, FramesMatchPages
  <2>2. ASSUME NEW f \in Frame, framesMap'[f]
        PROVE  pageTable'[frameOwnerTable'[f].ownerProcess]
                         [frameOwnerTable'[f].virtualPageNumber] = f
    <3>1. CASE f = frame
      BY <1>3, <1>6, <3>1 DEF TableInv, TablesTypeOK
    <3>2. CASE f # frame
      <4> DEFINE owner == frameOwnerTable[f]
      <4>1. framesMap[f] /\ frameOwnerTable'[f] = owner
        BY <1>3, <2>2, <3>2 DEF TableInv, TablesTypeOK
      <4>2. /\ owner.ownerProcess \in Proc /\ owner.virtualPageNumber \in Page
            /\ pageTable[owner.ownerProcess][owner.virtualPageNumber] = f
        BY <4>1 DEF TableInv, TablesTypeOK, FramesMatchPages
      <4>3. ~(owner.ownerProcess = p /\ owner.virtualPageNumber = n)
        BY <4>2, NoneIsNoFrame DEF LoadsPage, Resident
      <4>4. ~(owner.ownerProcess = q /\ owner.virtualPageNumber = m)
        BY <1>2, <3>2, <4>2
      <4> HIDE DEF owner
      <4> QED BY <1>6, <4>1, <4>2, <4>3, <4>4
    <3> QED BY <3>1, <3>2
  <2>3. ASSUME NEW a \in Proc, NEW b \in Page, pageTable'[a][b] # NONE
        PROVE  frameOwnerTable'[pageTable'[a][b]] =
                 [ownerProcess |-> a, virtualPageNumber |-> b]
    <3>1. CASE a = p /\ b = n
      BY <1>3, <1>6, <3>1 DEF TableInv, TablesTypeOK
    <3>2. CASE ~(a = p /\ b = n)
      <4>1. pageTable'[a][b] = pageTable[a][b] /\ Resident(a, b) /\ ~(a = q /\ b = m)
        BY <1>6, <2>3, <3>2 DEF Resident
      <4>2. pageTable[a][b] # frame /\ pageTable[a][b] \in Frame
        BY <1>7, <4>1 DEF TableInv, TablesTypeOK, Resident
      <4> QED BY <1>3, <4>1, <4>2 DEF TableInv, TablesTypeOK, FramesMatchPages
    <3> QED BY <3>1, <3>2
  <2> QED BY <2>1, <2>2, <2>3 DEF FramesMatchPages, Resident
<1> QED BY <1>5, <1>9 DEF TableInv

\* Every step of the hierarchy keeps the tables inverse.
LEMMA TablesKept == TableInv /\ [MemoryCall]_memVars => TableInv'
<1> SUFFICES ASSUME TableInv, [MemoryCall]_memVars PROVE TableInv'
  OBVIOUS
<1>1. CASE UNCHANGED <<tableVars, swapVars>>
  BY <1>1 DEF TableInv, TablesTypeOK, FramesMatchPages, Resident, tableVars, swapVars
<1>2. ASSUME NEW p \in Proc, NEW n \in Page, NEW frame \in Frame, LoadsPage(p, n, frame)
      PROVE  TableInv'
  BY <1>2, LoadFree, LoadOverVictim
<1>3. CASE UNCHANGED memVars
  BY <1>1, <1>3 DEF memVars
<1> QED BY <1>1, <1>2, <1>3, StepTables

\* A frame has one page of one process, and a page one frame: no process reaches
\* a frame through its page table that MemoryManager gave to somebody else.
THEOREM FramesExclusive == MemorySpec => []FramesMatchPages
<1>1. TableInv => FramesMatchPages
  BY DEF TableInv
<1> QED BY <1>1, InitTables, TablesKept, NextIsCall, PTL DEF MemorySpec

-----------------------------------------------------------------------------
(* The swap area *)

SwapTypeOK ==
  /\ swapTable \in [Pid -> [Page -> Nat \cup {NONE}]]
  /\ nextSwapAddress \in Nat

SwapInv == TableInv /\ SwapTypeOK /\ DiskPagesDistinct

\* The process of a page indexes the swap table with its pid.
LEMMA PidOfProc == \A p \in Proc : pid[p] \in Pid
BY DEF Pid

\* The tables after a page is loaded into a free frame.
LEMMA TablesLoadFree ==
  ASSUME TableInv, SwapTypeOK, NEW p \in Proc, NEW n \in Page, NEW frame \in Frame,
         LoadsPage(p, n, frame), freeFrames # {}
  PROVE  /\ UNCHANGED nextSwapAddress /\ SwapTypeOK'
         /\ \A i \in Pid, b \in Page : swapTable'[i][b] =
              IF i = pid[p] /\ b = n THEN NONE ELSE swapTable[i][b]
         /\ \A a \in Proc, b \in Page :
              pageTable'[a][b] = IF a = p /\ b = n THEN frame ELSE pageTable[a][b]
<1>1. /\ UNCHANGED nextSwapAddress
      /\ pageTable' = [pageTable EXCEPT ![p][n] = frame]
      /\ swapTable' = IF Swapped(p, n) THEN [swapTable EXCEPT ![pid[p]][n] = NONE] ELSE swapTable
  BY NoneIsNoFrame DEF LoadsPage, allocateFrame, swapOut, swapVars, swapIn, swapsNow,
     pagesLeft, Victim
<1>2. SwapTypeOK'
  BY <1>1, PidOfProc DEF SwapTypeOK
<1>3. \A i \in Pid, b \in Page : swapTable'[i][b] =
        IF i = pid[p] /\ b = n THEN NONE ELSE swapTable[i][b]
  BY <1>1, PidOfProc DEF SwapTypeOK, Swapped
<1>4. \A a \in Proc, b \in Page :
        pageTable'[a][b] = IF a = p /\ b = n THEN frame ELSE pageTable[a][b]
  BY <1>1 DEF TableInv, TablesTypeOK
<1> QED BY <1>1, <1>2, <1>3, <1>4

LEMMA SwapLoadFree ==
  ASSUME IsInjective(pid), SwapInv, NEW p \in Proc, NEW n \in Page, NEW frame \in Frame,
         LoadsPage(p, n, frame), freeFrames # {}
  PROVE  SwapTypeOK' /\ DiskPagesDistinct'
<1>1. UNCHANGED nextSwapAddress
  BY TablesLoadFree DEF SwapInv
<1>2. SwapTypeOK'
  BY TablesLoadFree DEF SwapInv
<1>3. \A i \in Pid, b \in Page : swapTable'[i][b] =
        IF i = pid[p] /\ b = n THEN NONE ELSE swapTable[i][b]
  BY TablesLoadFree DEF SwapInv
<1>4. \A a \in Proc, b \in Page :
        pageTable'[a][b] = IF a = p /\ b = n THEN frame ELSE pageTable[a][b]
  BY TablesLoadFree DEF SwapInv
<1>5. \A a \in Proc : pid[a] = pid[p] => a = p
  BY MemoryAssumption DEF IsInjective
<1>6. DiskPagesDistinct'
  BY <1>1, <1>3, <1>4, <1>5, PidOfProc
     DEF SwapInv, SwapTypeOK, DiskPagesDistinct, Resident, Swapped
<1> QED BY <1>2, <1>6

\* The same after a page is loaded over the victim, page m of q.
LEMMA TablesOver ==
  ASSUME TableInv, SwapTypeOK, NEW p \in Proc, NEW n \in Page, NEW frame \in Frame,
         LoadsPage(p, n, frame), freeFrames = {},
         NEW q, NEW m, q = Victim.ownerProcess, m = Victim.virtualPageNumber
  PROVE  /\ Victim # NoOwner /\ q \in Proc /\ m \in Page /\ pageTable[q][m] = frame
         /\ nextSwapAddress' = nextSwapAddress + 1 /\ SwapTypeOK' /\ ~(q = p /\ m = n)
         /\ \A i \in Pid, b \in Page : swapTable'[i][b] =
              IF Swapped(p, n) /\ i = pid[p] /\ b = n THEN NONE
              ELSE IF i = pid[q] /\ b = m THEN nextSwapAddress ELSE swapTable[i][b]
         /\ \A a \in Proc, b \in Page :
              pageTable'[a][b] = IF a = p /\ b = n THEN frame
                                 ELSE IF a = q /\ b = m THEN NONE ELSE pageTable[a][b]
<1>1. Victim # NoOwner /\ q \in Proc /\ m \in Page /\ pageTable[q][m] = frame
  BY VictimIsResident, NoneIsNoFrame DEF LoadsPage, allocateFrame, allocatable
<1>2. /\ nextSwapAddress' = nextSwapAddress + 1
      /\ pageTable' = [[pageTable EXCEPT ![q][m] = NONE] EXCEPT ![p][n] = frame]
      /\ swapTable' = LET now == [swapTable EXCEPT ![pid[q]][m] = nextSwapAddress]
                      IN  IF Swapped(p, n) THEN [now EXCEPT ![pid[p]][n] = NONE] ELSE now
  BY <1>1 DEF LoadsPage, allocateFrame, swapOut, swapIn, swapsNow, pagesLeft
<1>3. SwapTypeOK'
  <2> DEFINE now == [swapTable EXCEPT ![pid[q]][m] = nextSwapAddress]
  <2>1. now \in [Pid -> [Page -> Nat \cup {NONE}]]
    BY <1>1, PidOfProc DEF SwapTypeOK
  <2>2. swapTable' = IF Swapped(p, n) THEN [now EXCEPT ![pid[p]][n] = NONE] ELSE now
    BY <1>2
  <2>3. nextSwapAddress' \in Nat
    BY <1>2 DEF SwapTypeOK
  <2> HIDE DEF now
  <2>4. swapTable' \in [Pid -> [Page -> Nat \cup {NONE}]]
    BY <2>1, <2>2, PidOfProc
  <2> QED BY <2>3, <2>4 DEF SwapTypeOK
<1>4. ~(q = p /\ m = n)
  BY <1>1, NoneIsNoFrame DEF LoadsPage, Resident
<1>5. \A i \in Pid, b \in Page : swapTable'[i][b] =
        IF Swapped(p, n) /\ i = pid[p] /\ b = n THEN NONE
        ELSE IF i = pid[q] /\ b = m THEN nextSwapAddress ELSE swapTable[i][b]
  BY <1>1, <1>2, PidOfProc DEF SwapTypeOK
<1>6. \A a \in Proc, b \in Page :
        pageTable'[a][b] = IF a = p /\ b = n THEN frame
                           ELSE IF a = q /\ b = m THEN NONE ELSE pageTable[a][b]
  BY <1>1, <1>2 DEF TableInv, TablesTypeOK
<1> QED BY <1>1, <1>2, <1>3, <1>4, <1>5, <1>6

\* With distinct pids, the entry that swapIn erases is not the victim's.
LEMMA TablesLoadOver ==
  ASSUME IsInjective(pid), SwapInv, NEW p \in Proc, NEW n \in Page, NEW frame \in Frame,
         LoadsPage(p, n, frame), freeFrames = {},
         NEW q, NEW m, q = Victim.ownerProcess, m = Victim.virtualPageNumber
  PROVE  /\ Victim # NoOwner /\ q \in Proc /\ m \in Page /\ pageTable[q][m] = frame
         /\ nextSwapAddress' = nextSwapAddress + 1 /\ SwapTypeOK' /\ ~(q = p /\ m = n)
         /\ \A i \in Pid, b \in Page : swapTable'[i][b] =
              IF i = pid[p] /\ b = n THEN NONE
              ELSE IF i = pid[q] /\ b = m THEN nextSwapAddress ELSE swapTable[i][b]
         /\ \A a \in Proc, b \in Page :
              pageTable'[a][b] = IF a = p /\ b = n THEN frame
                                 ELSE IF a = q /\ b = m THEN NONE ELSE pageTable[a][b]
<1>1. \A a, b \in Proc : pid[a] = pid[b] => a = b
  BY MemoryAssumption DEF IsInjective
<1>2. /\ q \in Proc /\ m \in Page /\ ~(q = p /\ m = n)
      /\ \A i \in Pid, b \in Page : swapTable'[i][b] =
           IF Swapped(p, n) /\ i = pid[p] /\ b = n THEN NONE
           ELSE IF i = pid[q] /\ b = m THEN nextSwapAddress ELSE swapTable[i][b]
  BY TablesOver DEF SwapInv
<1>3. \A i \in Pid, b \in Page : swapTable'[i][b] =
        IF i = pid[p] /\ b = n THEN NONE
        ELSE IF i = pid[q] /\ b = m THEN nextSwapAddress ELSE swapTable[i][b]
  BY <1>1, <1>2 DEF Swapped
<1> QED BY <1>3, TablesOver DEF SwapInv

LEMMA SwapLoadOverVictim ==
  ASSUME IsInjective(pid), SwapInv, NEW p \in Proc, NEW n \in Page, NEW frame \in Frame,
         LoadsPage(p, n, frame), freeFrames = {}
  PROVE  SwapTypeOK' /\ DiskPagesDistinct'
<1> DEFINE q == Victim.ownerProcess
           m == Victim.virtualPageNumber
<1>1. q \in Proc /\ m \in Page
  BY TablesLoadOver
<1>2. nextSwapAddress' = nextSwapAddress + 1
  BY TablesLoadOver
<1>3. SwapTypeOK'
  BY TablesLoadOver
<1>5. \A a, b \in Proc : pid[a] = pid[b] => a = b
  BY MemoryAssumption DEF IsInjective
<1>6. \A i \in Pid, b \in Page : swapTable'[i][b] =
        IF i = pid[p] /\ b = n THEN NONE
        ELSE IF i = pid[q] /\ b = m THEN nextSwapAddress ELSE swapTable[i][b]
  BY TablesLoadOver
<1>7. \A a \in Proc, b \in Page :
        pageTable'[a][b] = IF a = p /\ b = n THEN frame
                           ELSE IF a = q /\ b = m THEN NONE ELSE pageTable[a][b]
  BY TablesLoadOver
<1> HIDE DEF q, m
<1>8. ASSUME NEW a \in Proc, NEW b \in Page
      PROVE  ~(pageTable'[a][b] # NONE /\ swapTable'[pid[a]][b] # NONE)
  BY <1>1, <1>5, <1>6, <1>7, PidOfProc DEF SwapInv, DiskPagesDistinct, Resident, Swapped
<1>9. ASSUME NEW i \in Pid, NEW b \in Page, swapTable'[i][b] # NONE
      PROVE  swapTable'[i][b] < nextSwapAddress'
  BY <1>2, <1>6, <1>9 DEF SwapInv, SwapTypeOK, DiskPagesDistinct
<1>10. ASSUME NEW i \in Pid, NEW j \in Pid, NEW b \in Page, NEW d \in Page,
              swapTable'[i][b] = swapTable'[j][d], swapTable'[i][b] # NONE
       PROVE  i = j /\ b = d
  BY <1>6, <1>10 DEF SwapInv, SwapTypeOK, DiskPagesDistinct
<1>11. DiskPagesDistinct'
  BY <1>8, <1>9, <1>10 DEF DiskPagesDistinct, Resident, Swapped
<1> QED BY <1>3, <1>11

\* Every step keeps the swap area consistent.
LEMMA SwapKept ==
  ASSUME IsInjective(pid), SwapInv, [MemoryCall]_memVars
  PROVE  SwapInv'
<1>1. TableInv'
  BY TablesKept DEF SwapInv
<1>2. CASE UNCHANGED <<tableVars, swapVars>>
  BY <1>1, <1>2
     DEF SwapInv, SwapTypeOK, DiskPagesDistinct, Resident, Swapped, tableVars, swapVars
<1>3. ASSUME NEW p \in Proc, NEW n \in Page, NEW frame \in Frame, LoadsPage(p, n, frame)
      PROVE  SwapInv'
  BY <1>1, <1>3, SwapLoadFree, SwapLoadOverVictim DEF SwapInv
<1>4. CASE UNCHANGED memVars
  BY <1>2, <1>4 DEF memVars
<1> QED BY <1>2, <1>3, <1>4, StepTables

\* When no two processes share a pid, a page is in main memory or on disk and
\* never in both, and no two pages share a place on disk, however often pages
\* have moved.
THEOREM SwapConsistent == IsInjective(pid) => (MemorySpec => []DiskPagesDistinct)
<1> SUFFICES ASSUME IsInjective(pid) PROVE MemorySpec => []DiskPagesDistinct
  OBVIOUS
<1>1. MemoryInit => SwapInv
  BY InitTables, NoneIsNoFrame, MemoryAssumption, PidOfProc
     DEF MemoryInit, SwapInv, SwapTypeOK, DiskPagesDistinct, Resident, Swapped
<1>2. SwapInv /\ [MemoryCall]_memVars => SwapInv'
  BY SwapKept
<1>3. SwapInv => DiskPagesDistinct
  BY DEF SwapInv
<1> QED BY <1>1, <1>2, <1>3, NextIsCall, PTL DEF MemorySpec

-----------------------------------------------------------------------------
(* The replacement of pages is first in, first out *)

\* The frames are given out in order, and the victim pointer starts to move
\* when none is free.
TakenTo(k) ==
  /\ freeFrames = k .. numFrames - 1
  /\ k < numFrames => victimFramePtr = 0

PagingInv == SwapInv /\ \E k \in 0 .. numFrames : TakenTo(k)

HIDE DEF FrameInfo, NoOwner

\* The frame i places behind the victim pointer v.
Turn(v, i) == (v + i - 1) % numFrames

\* The owners of the frames in use by turn, as Loaded has them, and what that
\* sequence is.
OwnersByTurn(owner, free, v) ==
  [i \in 1 .. Cardinality(Frame \ free) |-> owner[(v + i - 1) % numFrames]]

InTurn(owner, v, k, seq) ==
  /\ seq \in Seq(FrameInfo) /\ Len(seq) = k
  /\ \A i \in 1 .. k : seq[i] = owner[Turn(v, i)]

HavePages(owner, free) == \A f \in Frame \ free : owner[f] \in FrameInfo
Placed(owner, owner2, frame, page) ==
  /\ owner2[frame] = page
  /\ \A f \in Frame : f # frame => owner2[f] = owner[f]

LEMMA SameSequence ==
  ASSUME NEW S, NEW s \in Seq(S), NEW t \in Seq(S), Len(s) = Len(t),
         \A i \in 1 .. Len(s) : s[i] = t[i]
  PROVE  s = t
OBVIOUS

LEMMA FunctionIsSequence ==
  ASSUME NEW S, NEW k \in Nat, NEW f \in [1 .. k -> S]
  PROVE  f \in Seq(S) /\ Len(f) = k
OBVIOUS

\* A place in a ring, at most once around.
LEMMA Around ==
  ASSUME NEW N \in Nat \ {0}, NEW x \in 0 .. 2 * N - 1
  PROVE  x % N = IF x < N THEN x ELSE x - N
<1>1. CASE x < N
  BY <1>1
<1>2. CASE ~(x < N)
  <2> DEFINE r == x % N
             q == x \div N
  <2>1. x = q * N + r /\ r \in 0 .. N - 1 /\ q \in Int
    OBVIOUS
  <2> HIDE DEF r, q
  <2>2. (q - 1) * N = (x - N) - r
    BY <2>1
  <2>3. (q - 1) * N < N /\ (q - 1) * N > 0 - N
    BY <1>2, <2>1, <2>2
  <2>4. q - 1 = 0
    <3>1. \A d \in Int : d >= 1 => d * N >= N
      OBVIOUS
    <3>2. \A d \in Int : d <= -1 => d * N <= 0 - N
      OBVIOUS
    <3> QED BY <2>1, <2>3, <3>1, <3>2
  <2>5. r = x - N
    BY <2>1, <2>2, <2>4
  <2> QED BY <1>2, <2>5 DEF r
<1> QED BY <1>1, <1>2

LEMMA Turns ==
  ASSUME NEW v \in Frame, NEW i \in 1 .. numFrames
  PROVE  Turn(v, i) = IF v + i <= numFrames THEN (v + i) - 1 ELSE (v + i) - 1 - numFrames
<1> DEFINE x == v + i - 1
<1>1. numFrames \in Nat \ {0} /\ x \in 0 .. 2 * numFrames - 1
  BY MemoryAssumption DEF Frame
<1>2. x % numFrames = IF x < numFrames THEN x ELSE x - numFrames
  <2> HIDE DEF x
  <2> QED BY <1>1, Around
<1> QED BY <1>1, <1>2 DEF Turn, Frame

LEMMA NextVictim ==
  ASSUME NEW v \in Frame
  PROVE  (v + 1) % numFrames = IF v + 1 < numFrames THEN v + 1 ELSE 0
<1> DEFINE x == v + 1
<1>1. numFrames \in Nat \ {0} /\ x \in 0 .. 2 * numFrames - 1
  BY MemoryAssumption DEF Frame
<1>2. x % numFrames = IF x < numFrames THEN x ELSE x - numFrames
  <2> HIDE DEF x
  <2> QED BY <1>1, Around
<1> QED BY <1>1, <1>2 DEF Frame

\* The pages of the frames in use, in the order of their turns.
LEMMA OrderOfFrames ==
  ASSUME NEW owner, NEW v \in Frame, NEW k \in 0 .. numFrames, k < numFrames => v = 0,
         HavePages(owner, k .. numFrames - 1)
  PROVE  /\ \A i \in 1 .. k : Turn(v, i) \in Frame \ (k .. numFrames - 1)
         /\ InTurn(owner, v, k, OwnersByTurn(owner, k .. numFrames - 1, v))
<1> DEFINE free == k .. numFrames - 1
           seq == OwnersByTurn(owner, free, v)
<1>1. numFrames \in Nat \ {0} /\ k \in Nat /\ v \in Nat
  BY MemoryAssumption DEF Frame
<1>2. Frame \ free = 0 .. k - 1
  BY <1>1 DEF Frame
<1>3. Cardinality(0 .. k - 1) = k
  BY <1>1, FS_Interval
<1>4. seq = [i \in 1 .. k |-> owner[(v + i - 1) % numFrames]]
  BY <1>2, <1>3 DEF OwnersByTurn
<1>10. HavePages(owner, free)
  OBVIOUS
<1> HIDE DEF free, seq
<1>5. \A i \in 1 .. k : seq[i] = owner[Turn(v, i)]
  <2> DEFINE at(i) == owner[Turn(v, i)]
  <2>1. seq = [i \in 1 .. k |-> at(i)]
    BY <1>4 DEF Turn
  <2> HIDE DEF at
  <2>2. \A i \in 1 .. k : seq[i] = at(i)
    BY <2>1
  <2> QED BY <2>2 DEF at
<1>6. ASSUME NEW i \in 1 .. k PROVE Turn(v, i) \in Frame \ free
  <2>1. Turn(v, i) = IF v + i <= numFrames THEN (v + i) - 1 ELSE (v + i) - 1 - numFrames
    BY <1>1, Turns
  <2> HIDE DEF Turn
  <2> QED BY <1>1, <1>2, <2>1 DEF Frame
<1>7. \A i \in 1 .. k : seq[i] \in FrameInfo
  BY <1>10, <1>5, <1>6 DEF HavePages
<1>8. seq \in [1 .. k -> FrameInfo]
  BY <1>4, <1>7
<1>9. seq \in Seq(FrameInfo) /\ Len(seq) = k
  BY <1>1, <1>8, FunctionIsSequence
<1> QED BY <1>5, <1>6, <1>9 DEF InTurn, free, seq

\* A page loaded into the first free frame comes last.
LEMMA AddedLast ==
  ASSUME NEW owner, NEW owner2, NEW k \in 0 .. numFrames - 1, NEW page \in FrameInfo,
         Placed(owner, owner2, k, page), NEW seq, InTurn(owner, 0, k, seq),
         NEW seq2, InTurn(owner2, 0, k + 1, seq2)
  PROVE  seq2 = Append(seq, page)
<1>1. numFrames \in Nat \ {0} /\ k \in Nat /\ 0 \in Frame
  BY MemoryAssumption DEF Frame
<1> USE DEF InTurn, Placed
<1>2. \A i \in 1 .. k + 1 : Turn(0, i) = i - 1
  BY <1>1, Turns
<1> DEFINE added == Append(seq, page)
<1>3. added \in Seq(FrameInfo) /\ Len(added) = k + 1 /\ added[k + 1] = page
      /\ \A i \in 1 .. k : added[i] = seq[i]
  BY <1>1
<1> HIDE DEF added
<1>4. ASSUME NEW i \in 1 .. k + 1 PROVE seq2[i] = added[i]
  <2>1. CASE i = k + 1
    BY <1>1, <1>2, <1>3, <2>1
  <2>2. CASE i \in 1 .. k
    <3>1. i - 1 \in Frame /\ i - 1 # k
      BY <1>1, <2>2 DEF Frame
    <3> QED BY <1>2, <1>3, <2>2, <3>1
  <2> QED BY <1>1, <2>1, <2>2
<1>5. seq2 = added
  BY <1>1, <1>3, <1>4, SameSequence
<1> QED BY <1>5 DEF added

\* A page loaded over the victim comes last, and the others move up.
LEMMA MovedUp ==
  ASSUME NEW owner, NEW owner2, NEW v \in Frame, NEW page \in FrameInfo,
         Placed(owner, owner2, v, page), NEW seq, InTurn(owner, v, numFrames, seq),
         NEW seq2, InTurn(owner2, (v + 1) % numFrames, numFrames, seq2)
  PROVE  Head(seq) = owner[v] /\ seq2 = Append(Tail(seq), page)
<1> DEFINE w == (v + 1) % numFrames
           tail == Tail(seq)
           moved == Append(tail, page)
<1>1. numFrames \in Nat \ {0} /\ v \in 0 .. numFrames - 1
  BY MemoryAssumption DEF Frame
<1>2. w = IF v + 1 < numFrames THEN v + 1 ELSE 0
  BY NextVictim
<1> USE DEF InTurn, Placed
<1>3. /\ \A i \in 1 .. numFrames : seq2[i] = owner2[Turn(w, i)]
      /\ seq2 \in Seq(FrameInfo) /\ Len(seq2) = numFrames
  OBVIOUS
<1> HIDE DEF w
<1>4. w \in Frame
  BY <1>1, <1>2 DEF Frame
<1>5. \A i \in 1 .. numFrames :
        Turn(w, i) = IF w + i <= numFrames THEN (w + i) - 1 ELSE (w + i) - 1 - numFrames
  BY <1>4, Turns
<1>7. Head(seq) = owner[v]
  <2>1. 1 \in 1 .. numFrames /\ Head(seq) = seq[1]
    BY <1>1
  <2>2. Turn(v, 1) = IF v + 1 <= numFrames THEN (v + 1) - 1 ELSE (v + 1) - 1 - numFrames
    BY <2>1, Turns
  <2>3. Turn(v, 1) = v
    BY <1>1, <2>2
  <2> QED BY <2>1, <2>3
<1>8. tail \in Seq(FrameInfo) /\ Len(tail) = numFrames - 1
      /\ \A i \in 1 .. numFrames - 1 : tail[i] = seq[i + 1]
  BY <1>1
<1> HIDE DEF tail
<1>9. moved \in Seq(FrameInfo) /\ Len(moved) = numFrames /\ moved[numFrames] = page
      /\ \A i \in 1 .. numFrames - 1 : moved[i] = tail[i]
  BY <1>1, <1>8
<1> HIDE DEF moved
<1>10. ASSUME NEW i \in 1 .. numFrames PROVE seq2[i] = moved[i]
  <2>1. CASE i = numFrames
    <3>1. Turn(w, i) = v
      BY <1>1, <1>2, <1>5, <2>1
    <3> QED BY <1>3, <1>9, <2>1, <3>1
  <2>2. CASE i # numFrames
    <3>1. i \in 1 .. numFrames - 1 /\ i + 1 \in 1 .. numFrames
      BY <1>1, <2>2
    <3>2. Turn(w, i) = Turn(v, i + 1) /\ Turn(w, i) # v /\ Turn(w, i) \in Frame
      <4>1. Turn(w, i) = IF w + i <= numFrames THEN (w + i) - 1 ELSE (w + i) - 1 - numFrames
        BY <1>5
      <4>2. Turn(v, i + 1) = IF v + (i + 1) <= numFrames THEN (v + (i + 1)) - 1
                             ELSE (v + (i + 1)) - 1 - numFrames
        BY <3>1, Turns
      <4> QED BY <1>1, <1>2, <3>1, <4>1, <4>2 DEF Frame
    <3>3. seq2[i] = owner[Turn(v, i + 1)]
      BY <1>3, <3>2
    <3>4. moved[i] = seq[i + 1]
      BY <1>8, <1>9, <3>1
    <3> QED BY <3>1, <3>3, <3>4
  <2> QED BY <2>1, <2>2
<1>11. seq2 = moved
  BY <1>3, <1>9, <1>10, SameSequence
<1> QED BY <1>7, <1>11 DEF moved, tail

USE DEF FrameInfo, NoOwner

\* What is on disk after a page is loaded, without and with a victim.
LEMMA OnDiskAfter ==
  ASSUME IsInjective(pid), SwapInv, NEW p \in Proc, NEW n \in Page, NEW frame \in Frame,
         LoadsPage(p, n, frame)
  PROVE  OnDisk' = (IF Victim = NoOwner THEN OnDisk ELSE OnDisk \cup {Victim})
                     \ {[ownerProcess |-> p, virtualPageNumber |-> n]}
<1>1. swapTable' = IF Swapped(p, n) THEN [swapsNow EXCEPT ![pid[p]][n] = NONE] ELSE swapsNow
  BY DEF LoadsPage, allocateFrame, swapIn
<1>2. \A a, b \in Proc : pid[a] = pid[b] => a = b
  BY MemoryAssumption DEF IsInjective
<1>3. nextSwapAddress # NONE
  BY MemoryAssumption DEF SwapInv, SwapTypeOK
<1>4. Victim = NoOwner \/ (Victim \in FrameInfo /\ Resident(Victim.ownerProcess, Victim.virtualPageNumber))
  BY VictimIsResident, NoneIsNoFrame DEF Victim, Resident, SwapInv, TableInv, TablesTypeOK
<1>5. swapsNow \in [Pid -> [Page -> Nat \cup {NONE}]]
  BY <1>4, PidOfProc DEF swapsNow, SwapInv, SwapTypeOK
<1>6. \A a \in Proc, b \in Page : swapsNow[pid[a]][b] # NONE <=>
        (Swapped(a, b) \/ Victim = [ownerProcess |-> a, virtualPageNumber |-> b])
  <2>1. CASE Victim = NoOwner
    BY <2>1, NoneIsNoFrame DEF swapsNow, Swapped
  <2>2. CASE Victim # NoOwner
    <3>1. PICK q \in Proc, m \in Page : Victim = [ownerProcess |-> q, virtualPageNumber |-> m]
      BY <1>4, <2>2
    <3>2. swapsNow = [swapTable EXCEPT ![pid[q]][m] = nextSwapAddress]
      BY <2>2, <3>1 DEF swapsNow
    <3>3. \A a \in Proc, b \in Page : swapsNow[pid[a]][b] =
            IF a = q /\ b = m THEN nextSwapAddress ELSE swapTable[pid[a]][b]
      BY <1>2, <3>2, PidOfProc DEF SwapInv, SwapTypeOK
    <3> QED BY <1>3, <3>1, <3>3 DEF Swapped
  <2> QED BY <2>1, <2>2
<1>7. \A a \in Proc, b \in Page : swapTable'[pid[a]][b] =
        IF a = p /\ b = n /\ Swapped(p, n) THEN NONE ELSE swapsNow[pid[a]][b]
  BY <1>1, <1>2, <1>5, PidOfProc
<1>8. Victim # [ownerProcess |-> p, virtualPageNumber |-> n]
  BY <1>4, NoneIsNoFrame DEF LoadsPage
<1>9. \A a \in Proc, b \in Page : swapTable'[pid[a]][b] # NONE <=>
        /\ ~(a = p /\ b = n)
        /\ Swapped(a, b) \/ Victim = [ownerProcess |-> a, virtualPageNumber |-> b]
  BY <1>6, <1>7, <1>8
<1>10. \A page \in FrameInfo :
         page = [ownerProcess |-> page.ownerProcess, virtualPageNumber |-> page.virtualPageNumber]
  OBVIOUS
<1> DEFINE before == IF Victim = NoOwner THEN OnDisk ELSE OnDisk \cup {Victim}
<1>11. ASSUME NEW page \in FrameInfo
       PROVE  page \in OnDisk' <=>
                page \in before /\ page # [ownerProcess |-> p, virtualPageNumber |-> n]
  <2>1. PICK a \in Proc, b \in Page : page = [ownerProcess |-> a, virtualPageNumber |-> b]
    BY <1>10
  <2>2. page \in OnDisk' <=> swapTable'[pid[a]][b] # NONE
    BY <2>1 DEF OnDisk, Swapped
  <2>3. page \in OnDisk <=> Swapped(a, b)
    BY <2>1 DEF OnDisk
  <2>4. page \in before <=> (Swapped(a, b) \/ Victim = page)
    BY <2>3, <1>4, NoneIsNoFrame
  <2>5. page = [ownerProcess |-> p, virtualPageNumber |-> n] <=> a = p /\ b = n
    BY <2>1
  <2> QED BY <1>9, <2>1, <2>2, <2>4, <2>5
<1>12. OnDisk' \subseteq FrameInfo /\ before \subseteq FrameInfo
  BY <1>4 DEF OnDisk
<1> HIDE DEF before
<1>13. OnDisk' = before \ {[ownerProcess |-> p, virtualPageNumber |-> n]}
  BY <1>11, <1>12
<1> QED BY <1>13 DEF before

\* The pages in main memory, when k frames are taken.
LEMMA LoadedPages ==
  ASSUME TableInv, NEW k \in 0 .. numFrames, TakenTo(k)
  PROVE  /\ InTurn(frameOwnerTable, victimFramePtr, k, Loaded)
         /\ \A page \in Range(Loaded) : Resident(page.ownerProcess, page.virtualPageNumber)
<1>1. \A f \in Frame \ freeFrames :
        /\ frameOwnerTable[f] \in FrameInfo
        /\ Resident(frameOwnerTable[f].ownerProcess, frameOwnerTable[f].virtualPageNumber)
  BY NoneIsNoFrame DEF freeFrames, TableInv, TablesTypeOK, FramesMatchPages, Resident
<1>2. victimFramePtr \in Frame
  BY DEF TableInv, TablesTypeOK
<1>3. HavePages(frameOwnerTable, k .. numFrames - 1)
  BY <1>1 DEF HavePages, TakenTo
<1>4. Loaded = OwnersByTurn(frameOwnerTable, k .. numFrames - 1, victimFramePtr)
  BY DEF Loaded, OwnersByTurn, TakenTo
<1>5. /\ \A i \in 1 .. k : Turn(victimFramePtr, i) \in Frame \ freeFrames
      /\ InTurn(frameOwnerTable, victimFramePtr, k, Loaded)
  BY <1>2, <1>3, <1>4, OrderOfFrames DEF TakenTo
<1>6. DOMAIN Loaded = 1 .. k
  BY <1>5 DEF InTurn
<1> QED BY <1>1, <1>5, <1>6 DEF InTurn, Range

LEMMA PagingLoadFree ==
  ASSUME IsInjective(pid), SwapInv, TableInv', NEW k \in 0 .. numFrames, TakenTo(k),
         NEW p \in Proc, NEW n \in Page, NEW frame \in Frame, LoadsPage(p, n, frame), k < numFrames
  PROVE  /\ TakenTo(k + 1)'
         /\ Paging!Load([ownerProcess |-> p, virtualPageNumber |-> n])
<1> DEFINE page == [ownerProcess |-> p, virtualPageNumber |-> n]
<1>1. numFrames \in Nat \ {0} /\ k \in 0 .. numFrames - 1 /\ k + 1 \in 0 .. numFrames
      /\ k \in freeFrames /\ victimFramePtr = 0 /\ TableInv
  BY MemoryAssumption DEF TakenTo, SwapInv
<1>2. frame = k /\ UNCHANGED victimFramePtr
  BY <1>1 DEF LoadsPage, allocateFrame, allocatable, swapOut, swapVars, TakenTo
<1>3. /\ framesMap' = [framesMap EXCEPT ![k] = TRUE]
      /\ frameOwnerTable' = [frameOwnerTable EXCEPT ![k] = page]
  BY <1>2 DEF LoadsPage, allocateFrame
<1>4. freeFrames' = freeFrames \ {k}
  BY <1>1, <1>3 DEF freeFrames, TableInv, TablesTypeOK
<1>5. TakenTo(k + 1)'
  BY <1>1, <1>2, <1>4 DEF TakenTo
<1>6. page \in FrameInfo /\ Placed(frameOwnerTable, frameOwnerTable', k, page)
  BY <1>2, <1>3 DEF Placed, TableInv, TablesTypeOK, SwapInv
<1>7. InTurn(frameOwnerTable', 0, k + 1, Loaded')
  <2>1. HavePages(frameOwnerTable', freeFrames')
    BY NoneIsNoFrame DEF HavePages, freeFrames, TableInv, TablesTypeOK, FramesMatchPages
  <2>2. 0 \in Frame /\ victimFramePtr' = 0 /\ freeFrames' = k + 1 .. numFrames - 1
    BY <1>1, <1>2, <1>5 DEF Frame, TakenTo
  <2>3. Loaded' = OwnersByTurn(frameOwnerTable', k + 1 .. numFrames - 1, 0)
    BY <2>2 DEF Loaded, OwnersByTurn
  <2> QED BY <1>1, <2>1, <2>2, <2>3, OrderOfFrames
<1>8. InTurn(frameOwnerTable, 0, k, Loaded) /\ page \notin Range(Loaded)
  BY <1>1, LoadedPages DEF LoadsPage
<1>9. Loaded' = Append(Loaded, page)
  <2> DEFINE owner2 == frameOwnerTable'
             seq == Loaded
             seq2 == Loaded'
  <2>1. page \in FrameInfo /\ Placed(frameOwnerTable, owner2, k, page)
    BY <1>6
  <2>2. InTurn(owner2, 0, k + 1, seq2) /\ InTurn(frameOwnerTable, 0, k, seq)
    BY <1>7, <1>8
  <2> HIDE DEF page, FrameInfo, owner2, seq, seq2
  <2>3. seq2 = Append(seq, page)
    BY <1>1, <2>1, <2>2, AddedLast
  <2> QED BY <2>3 DEF seq, seq2
<1>10. OnDisk' = OnDisk \ {page}
  <2>1. Victim = NoOwner
    BY <1>1 DEF Victim
  <2> QED BY <2>1, OnDiskAfter
<1>11. Len(Loaded) < numFrames
  BY <1>8 DEF InTurn
<1> HIDE DEF page
<1>12. Paging!Load(page)
  BY <1>8, <1>9, <1>10, <1>11 DEF Paging!Load, Range, Paging!Range
<1> QED BY <1>5, <1>12 DEF page

LEMMA PagingLoadOverVictim ==
  ASSUME IsInjective(pid), SwapInv, TableInv', TakenTo(numFrames),
         NEW p \in Proc, NEW n \in Page, NEW frame \in Frame, LoadsPage(p, n, frame)
  PROVE  /\ TakenTo(numFrames)'
         /\ Paging!Load([ownerProcess |-> p, virtualPageNumber |-> n])
<1> DEFINE page == [ownerProcess |-> p, virtualPageNumber |-> n]
<1>1. /\ numFrames \in Nat \ {0} /\ numFrames \in 0 .. numFrames
      /\ victimFramePtr \in Frame /\ victimFramePtr' \in Frame /\ TableInv
  BY MemoryAssumption DEF SwapInv, TableInv, TablesTypeOK
<1>2. freeFrames = {}
  BY <1>1 DEF TakenTo
<1>3. frame = victimFramePtr /\ victimFramePtr' = (victimFramePtr + 1) % numFrames
  BY <1>1, <1>2 DEF LoadsPage, allocateFrame, allocatable, swapOut
<1>4. /\ framesMap' = [framesMap EXCEPT ![victimFramePtr] = TRUE]
      /\ frameOwnerTable' = [frameOwnerTable EXCEPT ![victimFramePtr] = page]
  BY <1>3 DEF LoadsPage, allocateFrame
<1>5. freeFrames' = {} /\ numFrames .. numFrames - 1 = {}
  BY <1>1, <1>2, <1>3, <1>4 DEF freeFrames, TableInv, TablesTypeOK
<1>6. TakenTo(numFrames)'
  BY <1>1, <1>5 DEF TakenTo
<1>7. page \in FrameInfo /\ Placed(frameOwnerTable, frameOwnerTable', victimFramePtr, page)
  BY <1>1, <1>3, <1>4 DEF Placed, TableInv, TablesTypeOK
<1>8. InTurn(frameOwnerTable', (victimFramePtr + 1) % numFrames, numFrames, Loaded')
  <2>1. HavePages(frameOwnerTable', freeFrames')
    BY NoneIsNoFrame DEF HavePages, freeFrames, TableInv, TablesTypeOK, FramesMatchPages
  <2>2. freeFrames' = numFrames .. numFrames - 1 /\ ~(numFrames < numFrames)
    BY <1>1, <1>5
  <2>3. Loaded' = OwnersByTurn(frameOwnerTable', numFrames .. numFrames - 1, victimFramePtr')
    BY <2>2 DEF Loaded, OwnersByTurn
  <2>4. InTurn(frameOwnerTable', victimFramePtr', numFrames, Loaded')
    BY <1>1, <2>1, <2>2, <2>3, OrderOfFrames
  <2> QED BY <1>3, <2>4
<1>9. InTurn(frameOwnerTable, victimFramePtr, numFrames, Loaded) /\ page \notin Range(Loaded)
  BY <1>1, LoadedPages DEF LoadsPage
<1>10. Head(Loaded) = frameOwnerTable[victimFramePtr] /\ Loaded' = Append(Tail(Loaded), page)
  <2> DEFINE owner2 == frameOwnerTable'
             v == victimFramePtr
             seq == Loaded
             seq2 == Loaded'
  <2>1. page \in FrameInfo /\ v \in Frame /\ Placed(frameOwnerTable, owner2, v, page)
    BY <1>1, <1>7
  <2>2. /\ InTurn(owner2, (v + 1) % numFrames, numFrames, seq2)
        /\ InTurn(frameOwnerTable, v, numFrames, seq)
    BY <1>8, <1>9
  <2> HIDE DEF page, FrameInfo, owner2, v, seq, seq2
  <2>3. Head(seq) = frameOwnerTable[v] /\ seq2 = Append(Tail(seq), page)
    BY <2>1, <2>2, MovedUp
  <2> QED BY <2>3 DEF v, seq, seq2
<1>11. Victim = frameOwnerTable[victimFramePtr] /\ Victim # NoOwner
  BY <1>1, <1>2, VictimIsResident, NoneIsNoFrame DEF Victim
<1>12. OnDisk' = (OnDisk \cup {Head(Loaded)}) \ {page}
  BY <1>10, <1>11, OnDiskAfter
<1> HIDE DEF page
<1>13. Paging!Load(page)
  BY <1>9, <1>10, <1>12 DEF InTurn, Paging!Load, Range, Paging!Range
<1> QED BY <1>6, <1>13 DEF page

LEMMA PagingKept ==
  ASSUME IsInjective(pid), PagingInv, [MemoryCall]_memVars
  PROVE  /\ PagingInv'
         /\ (\E page \in FrameInfo : Paging!Load(page)) \/ UNCHANGED Paging!pagingVars
<1>1. SwapInv' /\ TableInv'
  BY SwapKept DEF PagingInv, SwapInv
<1>2. PICK k \in 0 .. numFrames : TakenTo(k)
  BY DEF PagingInv
<1>3. CASE UNCHANGED <<tableVars, swapVars>>
  <2>1. TakenTo(k)'
    BY <1>2, <1>3 DEF TakenTo, freeFrames, tableVars, swapVars
  <2>2. UNCHANGED <<Loaded, OnDisk>>
    BY <1>3 DEF Loaded, freeFrames, OnDisk, Swapped, tableVars, swapVars
  <2> QED BY <1>1, <2>1, <2>2 DEF PagingInv, Paging!pagingVars
<1>4. ASSUME NEW p \in Proc, NEW n \in Page, NEW frame \in Frame, LoadsPage(p, n, frame)
      PROVE  PagingInv' /\ \E page \in FrameInfo : Paging!Load(page)
  <2>1. [ownerProcess |-> p, virtualPageNumber |-> n] \in FrameInfo /\ numFrames \in Nat
    BY MemoryAssumption
  <2>2. CASE k < numFrames
    <3>1. k + 1 \in 0 .. numFrames
      BY <2>1, <2>2
    <3>2. TakenTo(k + 1)' /\ Paging!Load([ownerProcess |-> p, virtualPageNumber |-> n])
      BY <1>1, <1>2, <1>4, <2>2, PagingLoadFree DEF PagingInv
    <3> QED BY <1>1, <2>1, <3>1, <3>2 DEF PagingInv
  <2>3. CASE k = numFrames
    <3>1. TakenTo(k)' /\ Paging!Load([ownerProcess |-> p, virtualPageNumber |-> n])
      BY <1>1, <1>2, <1>4, <2>3, PagingLoadOverVictim DEF PagingInv
    <3> QED BY <1>1, <2>1, <3>1 DEF PagingInv
  <2> QED BY <2>1, <2>2, <2>3
<1>5. CASE UNCHANGED memVars
  BY <1>3, <1>5 DEF memVars
<1> QED BY <1>3, <1>4, <1>5, StepTables

\* With distinct pids the victim pointer makes the replacement first in, first
\* out, on any number of frames, and every page that leaves is on disk.
THEOREM PagingIsFifo == IsInjective(pid) => (MemorySpec => ImplementsFifoPaging)
<1> SUFFICES ASSUME IsInjective(pid) PROVE MemorySpec => ImplementsFifoPaging
  OBVIOUS
<1>1. MemoryInit => PagingInv /\ Paging!PagingInit
  <2> SUFFICES ASSUME MemoryInit PROVE PagingInv /\ Paging!PagingInit
    OBVIOUS
  <2>1. SwapInv
    BY InitTables, NoneIsNoFrame, MemoryAssumption, PidOfProc
       DEF MemoryInit, SwapInv, SwapTypeOK, DiskPagesDistinct, Resident, Swapped
  <2>2. 0 \in 0 .. numFrames /\ TakenTo(0)
    BY MemoryAssumption DEF MemoryInit, TakenTo, freeFrames, Frame
  <2>3. Loaded = <<>>
    <3>1. Loaded \in Seq(FrameInfo) /\ Len(Loaded) = 0
      BY <2>1, <2>2, LoadedPages DEF SwapInv, InTurn
    <3> QED BY <3>1
  <2>4. OnDisk = {}
    BY PidOfProc DEF MemoryInit, OnDisk, Swapped
  <2> QED BY <2>1, <2>2, <2>3, <2>4 DEF PagingInv, Paging!PagingInit
<1>2. PagingInv /\ [MemoryCall]_memVars =>
        PagingInv' /\ [\E page \in FrameInfo : Paging!Load(page)]_(Paging!pagingVars)
  BY PagingKept
<1> QED BY <1>1, <1>2, NextIsCall, PTL DEF MemorySpec, ImplementsFifoPaging, Paging!PagingSpec

-----------------------------------------------------------------------------
(* The cache *)

Address == Frame \X Offset
CacheEntry == [data : Word, isDirty : BOOLEAN]

CacheTypeOK ==
  /\ DOMAIN cacheMap \subseteq Address
  /\ \A a \in DOMAIN cacheMap : cacheMap[a] \in CacheEntry
  /\ fifo_queue \in Seq(Address)

CacheInv == CacheTypeOK /\ CacheReplaceable

\* put keeps every address of the map queued.
LEMMA PutKept ==
  ASSUME CacheInv, NEW address \in Address, NEW word \in Word, put(address, word)
  PROVE  CacheInv'
<1> DEFINE rest == IF Removed = {} THEN fifo_queue ELSE Tail(fifo_queue)
<1>1. DOMAIN cacheMap' = {address} \cup (DOMAIN cacheMap \ Removed)
  BY DEF put
<1>2. \A a \in DOMAIN cacheMap' : cacheMap'[a] \in CacheEntry
  BY DEF put, CacheInv, CacheTypeOK, CacheEntry
<1>3. rest \in Seq(Address) /\ DOMAIN cacheMap \ Removed \subseteq Range(rest)
  <2>1. CASE Removed = {}
    BY <2>1 DEF CacheInv, CacheTypeOK, CacheReplaceable
  <2>2. CASE Removed # {}
    <3>1. fifo_queue # <<>> /\ Removed = {Head(fifo_queue)}
      BY <2>2 DEF Removed
    <3> QED BY <2>2, <3>1, TailContents DEF CacheInv, CacheTypeOK, CacheReplaceable
  <2> QED BY <2>1, <2>2
<1>4. fifo_queue' = Append(rest, address)
  BY DEF put
<1> HIDE DEF rest
<1>5. fifo_queue' \in Seq(Address) /\ Range(fifo_queue') = Range(rest) \cup {address}
  BY <1>3, <1>4, AppendContents
<1> QED BY <1>1, <1>2, <1>3, <1>5 DEF CacheInv, CacheTypeOK, CacheReplaceable

\* update changes an entry the map has.
LEMMA UpdateKept ==
  ASSUME CacheInv, NEW address \in Address, NEW word \in Word, update(address, word)
  PROVE  CacheInv'
<1>1. DOMAIN cacheMap' = DOMAIN cacheMap /\ UNCHANGED fifo_queue
  BY DEF update
<1>2. \A a \in DOMAIN cacheMap' : cacheMap'[a] \in CacheEntry
  BY DEF update, CacheInv, CacheTypeOK, CacheEntry
<1> QED BY <1>1, <1>2 DEF CacheInv, CacheTypeOK, CacheReplaceable

-----------------------------------------------------------------------------
(* Main memory and the types *)

PageImage == [WordIndex -> Word]

ImagesTypeOK ==
  /\ ram \in [Frame -> PageImage]
  /\ disk \in [Slot -> PageImage]
  /\ reply \in Word \cup {NONE}

MemInv == TableInv /\ SwapTypeOK /\ CacheInv /\ ImagesTypeOK

\* What a page of disk, or a place past its end, holds.
LEMMA DiskImages ==
  ASSUME ImagesTypeOK, NEW slot, NEW page \in PageImage
  PROVE  /\ DiskWith(slot, page) \in [Slot -> PageImage]
         /\ ReadDisk(disk, slot) \in PageImage
         /\ \A s : ReadDisk(DiskWith(slot, page), s) \in PageImage
<1>1. Unwritten \in PageImage
  BY DEF Unwritten, PageImage, Word
<1>2. DiskWith(slot, page) \in [Slot -> PageImage]
  BY DEF DiskWith, ImagesTypeOK
<1> QED BY <1>1, <1>2 DEF ReadDisk, ImagesTypeOK

LEMMA PagedRamType ==
  ASSUME ImagesTypeOK, TablesTypeOK, NEW p, NEW n, NEW frame \in Frame
  PROVE  pagedRam(p, n, frame) \in [Frame -> PageImage]
<1>1. ram[victimFramePtr] \in PageImage
  BY DEF ImagesTypeOK, TablesTypeOK
<1>2. ReadDisk(IF Victim = NoOwner THEN disk ELSE DiskWith(nextSwapAddress, ram[victimFramePtr]),
               swapTable[pid[p]][n]) \in PageImage
  BY <1>1, DiskImages
<1> QED BY <1>2 DEF pagedRam, ImagesTypeOK

LEMMA StoredType ==
  ASSUME ImagesTypeOK, TablesTypeOK, NEW p, NEW n, NEW frame \in Frame,
         NEW offset \in Offset, NEW word \in Word
  PROVE  Stored(p, n, frame, offset, word) \in [Frame -> PageImage]
<1>1. pagedRam(p, n, frame) \in [Frame -> PageImage] /\ wordOf(offset) \in WordIndex
  BY PagedRamType DEF WordIndex
<1> HIDE DEF PageImage
<1>2. pagedRam(p, n, frame)[frame] \in [WordIndex -> Word]
  BY <1>1 DEF PageImage
<1>3. [pagedRam(p, n, frame)[frame] EXCEPT ![wordOf(offset)] = word] \in PageImage
  BY <1>1, <1>2 DEF PageImage
<1> QED BY <1>1, <1>3 DEF Stored

LEMMA WrittenBackType ==
  ASSUME CacheTypeOK, NEW memory \in [Frame -> PageImage]
  PROVE  writeToFile(memory) \in [Frame -> PageImage]
<1>1. ASSUME WriteBacks # {}
      PROVE  cacheMap[CHOOSE a \in WriteBacks : TRUE].data \in Word
  <2>1. (CHOOSE a \in WriteBacks : TRUE) \in DOMAIN cacheMap
    BY <1>1 DEF WriteBacks
  <2> QED BY <2>1 DEF CacheTypeOK, CacheEntry
<1> QED BY <1>1 DEF writeToFile, PageImage

\* swapOut writes whole pages to disk.
LEMMA DiskKept ==
  ASSUME ImagesTypeOK, TablesTypeOK, NEW p, NEW n, NEW frame, translateAddress(p, n, frame)
  PROVE  disk' \in [Slot -> PageImage]
<1>1. ram[victimFramePtr] \in PageImage
  BY DEF ImagesTypeOK, TablesTypeOK
<1> QED BY <1>1, DiskImages
        DEF translateAddress, allocateFrame, swapOut, swapVars, ImagesTypeOK

\* Every step keeps the types of the images and of the cache.
LEMMA ImagesKept ==
  ASSUME MemInv, MemoryCall
  PROVE  CacheInv' /\ ImagesTypeOK'
<1> USE DEF MemInv, TableInv
<1>1. ASSUME NEW p \in Proc, NEW n \in Page, ReadNothing(p, n)
      PROVE  CacheInv' /\ ImagesTypeOK'
  BY <1>1 DEF ReadNothing, cacheVars, swapVars, CacheInv, CacheTypeOK, CacheReplaceable,
     ImagesTypeOK, Word
<1>2. ASSUME NEW p \in Proc, NEW n \in Page, NEW frame \in Frame, NEW offset \in Offset,
             translateAddress(p, n, frame), ReadHit(p, n, frame, offset)
      PROVE  CacheInv' /\ ImagesTypeOK'
  <2>1. CacheInv'
    BY <1>2 DEF ReadHit, cacheVars, CacheInv, CacheTypeOK, CacheReplaceable
  <2>2. reply' \in Word
    BY <1>2 DEF ReadHit, get, CACHE_MISS, CacheInv, CacheTypeOK, CacheEntry
  <2> QED BY <1>2, <2>1, <2>2, DiskKept, PagedRamType DEF ReadHit, ImagesTypeOK
<1>3. ASSUME NEW p \in Proc, NEW n \in Page, NEW frame \in Frame, NEW offset \in Offset,
             translateAddress(p, n, frame), ReadMiss(p, n, frame, offset)
      PROVE  CacheInv' /\ ImagesTypeOK'
  <2> DEFINE word == pagedRam(p, n, frame)[frame][wordOf(offset)]
  <2>1. pagedRam(p, n, frame) \in [Frame -> PageImage] /\ wordOf(offset) \in WordIndex
    BY PagedRamType DEF WordIndex
  <2>2. word \in Word
    BY <2>1 DEF PageImage
  <2>3. put(<<frame, offset>>, word) /\ reply' = word /\ ram' = writeToFile(pagedRam(p, n, frame))
    BY <1>3 DEF ReadMiss
  <2> HIDE DEF word
  <2>4. CacheInv'
    BY <2>2, <2>3, PutKept DEF Address
  <2>5. ram' \in [Frame -> PageImage]
    BY <2>1, <2>3, WrittenBackType DEF CacheInv
  <2> QED BY <1>3, <2>2, <2>3, <2>4, <2>5, DiskKept DEF ImagesTypeOK
<1>4. ASSUME NEW p \in Proc, NEW n \in Page, NEW frame \in Frame, NEW offset \in Offset,
             NEW word \in Word, translateAddress(p, n, frame), reply' = NONE,
             WriteHit(p, n, frame, offset, word) \/ WriteMiss(p, n, frame, offset, word)
      PROVE  CacheInv' /\ ImagesTypeOK'
  <2>1. <<frame, offset>> \in Address
    BY DEF Address
  <2>2. Stored(p, n, frame, offset, word) \in [Frame -> PageImage]
    BY StoredType
  <2>3. CacheInv'
    BY <1>4, <2>1, PutKept, UpdateKept DEF WriteHit, WriteMiss
  <2>4. ram' \in [Frame -> PageImage]
    BY <1>4, <2>2, WrittenBackType DEF WriteHit, WriteMiss, CacheInv
  <2> QED BY <1>4, <2>3, <2>4, DiskKept DEF ImagesTypeOK
<1>5. ASSUME NEW load \in Loads, read(load[1], load[2], load[3])
      PROVE  CacheInv' /\ ImagesTypeOK'
  <2>1. load[1] \in Proc /\ load[2] \in Page /\ load[3] \in Offset
    BY MemoryAssumption
  <2> QED BY <1>1, <1>2, <1>3, <1>5, <2>1 DEF read
<1>6. ASSUME NEW store \in Stores, write(store[1], store[2], store[3], store[4])
      PROVE  CacheInv' /\ ImagesTypeOK'
  <2>1. store[1] \in Proc /\ store[2] \in Page /\ store[3] \in Offset /\ store[4] \in Word
    BY MemoryAssumption DEF Word
  <2> QED BY <1>4, <1>6, <2>1 DEF write
<1> QED BY <1>5, <1>6 DEF MemoryCall

\* Places on disk are given out in order: none is in use beyond the next one.
SlotsBelow ==
  \A i \in Pid, n \in Page : swapTable[i][n] # NONE => swapTable[i][n] < nextSwapAddress

LEMMA SlotsKept ==
  ASSUME MemInv, SlotsBelow, [MemoryCall]_memVars
  PROVE  /\ SwapTypeOK' /\ SlotsBelow' /\ nextSwapAddress <= nextSwapAddress'
         /\ \A p \in Proc, n \in Page, frame \in Frame :
               LoadsPage(p, n, frame) /\ freeFrames = {} => nextSwapAddress < nextSwapAddress'
<1> USE DEF MemInv
<1>1. ASSUME UNCHANGED <<tableVars, swapVars>>
      PROVE  SwapTypeOK' /\ SlotsBelow' /\ nextSwapAddress <= nextSwapAddress'
  BY <1>1 DEF SwapTypeOK, SlotsBelow, tableVars, swapVars
<1>2. ASSUME NEW p \in Proc, NEW n \in Page, NEW frame \in Frame, LoadsPage(p, n, frame)
      PROVE  /\ SwapTypeOK' /\ SlotsBelow' /\ nextSwapAddress <= nextSwapAddress'
             /\ freeFrames = {} => nextSwapAddress < nextSwapAddress'
  <2>1. ASSUME freeFrames # {}
        PROVE  nextSwapAddress' = nextSwapAddress /\ swapsNow = swapTable
    BY <1>2, <2>1, NoneIsNoFrame
       DEF LoadsPage, allocateFrame, swapOut, swapVars, swapsNow, Victim
  <2>2. ASSUME freeFrames = {}
        PROVE  /\ nextSwapAddress' = nextSwapAddress + 1
               /\ swapsNow \in [Pid -> [Page -> Nat \cup {NONE}]]
               /\ \A i \in Pid, b \in Page : swapsNow[i][b] # NONE => swapsNow[i][b] < nextSwapAddress'
    <3>1. Victim # NoOwner /\ Victim.ownerProcess \in Proc /\ Victim.virtualPageNumber \in Page
      BY <2>2, VictimIsResident, NoneIsNoFrame
    <3>2. nextSwapAddress' = nextSwapAddress + 1
      BY <1>2, <2>2, <3>1 DEF LoadsPage, allocateFrame, swapOut
    <3>3. swapsNow = [swapTable EXCEPT ![pid[Victim.ownerProcess]][Victim.virtualPageNumber] =
                        nextSwapAddress]
      BY <3>1 DEF swapsNow
    <3> QED BY <3>1, <3>2, <3>3, PidOfProc DEF SwapTypeOK, SlotsBelow
  <2>3. /\ swapsNow \in [Pid -> [Page -> Nat \cup {NONE}]]
        /\ nextSwapAddress' \in Nat /\ nextSwapAddress <= nextSwapAddress'
        /\ \A i \in Pid, b \in Page : swapsNow[i][b] # NONE => swapsNow[i][b] < nextSwapAddress'
    BY <2>1, <2>2 DEF SwapTypeOK, SlotsBelow
  <2>4. swapTable' = IF Swapped(p, n) THEN [swapsNow EXCEPT ![pid[p]][n] = NONE] ELSE swapsNow
    BY <1>2 DEF LoadsPage, allocateFrame, swapIn
  <2> QED BY <2>2, <2>3, <2>4, PidOfProc DEF SwapTypeOK, SlotsBelow
<1>3. CASE MemoryCall
  BY <1>1, <1>2, <1>3, StepTables DEF SwapTypeOK
<1>4. CASE UNCHANGED memVars
  <2>1. UNCHANGED <<tableVars, swapVars>>
    BY <1>4 DEF memVars
  <2> QED BY <1>1, <1>2, <2>1
<1> QED BY <1>3, <1>4

MemFullInv == MemInv /\ SlotsBelow

LEMMA InitMem == MemoryInit => MemFullInv
<1> SUFFICES ASSUME MemoryInit PROVE MemFullInv
  OBVIOUS
<1>1. SwapTypeOK /\ SlotsBelow
  BY DEF MemoryInit, SwapTypeOK, SlotsBelow
<1>2. Unwritten \in PageImage
  BY DEF Unwritten, PageImage, Word
<1>3. ImagesTypeOK
  BY <1>2 DEF MemoryInit, ImagesTypeOK
<1>4. CacheInv
  BY DEF MemoryInit, CacheInit, CacheInv, CacheTypeOK, CacheReplaceable
<1> QED BY <1>1, <1>3, <1>4, InitTables DEF MemFullInv, MemInv

LEMMA MemKept == MemFullInv /\ [MemoryCall]_memVars => MemFullInv'
<1> SUFFICES ASSUME MemFullInv, [MemoryCall]_memVars PROVE MemFullInv'
  OBVIOUS
<1>1. TableInv' /\ SwapTypeOK' /\ SlotsBelow'
  BY TablesKept, SlotsKept DEF MemFullInv, MemInv
<1>2. CacheInv' /\ ImagesTypeOK'
  <2>1. CASE MemoryCall
    BY <2>1, ImagesKept DEF MemFullInv
  <2>2. CASE UNCHANGED memVars
    BY <2>2 DEF MemFullInv, MemInv, memVars, swapVars, cacheVars, CacheInv, CacheTypeOK,
       CacheReplaceable, ImagesTypeOK
  <2> QED BY <2>1, <2>2
<1> QED BY <1>1, <1>2 DEF MemFullInv, MemInv

LEMMA FullIsTyped == MemFullInv => MemoryTypeOK
BY DEF MemFullInv, MemInv, TableInv, TablesTypeOK, SwapTypeOK, CacheInv, CacheTypeOK,
   CacheEntry, Address, ImagesTypeOK, PageImage, MemoryTypeOK

\* Every variable of the hierarchy keeps its type.
THEOREM MemoryTypeCorrect == MemorySpec => []MemoryTypeOK
BY FullIsTyped, InitMem, MemKept, NextIsCall, PTL DEF MemorySpec

\* Every word in the cache is queued for replacement, although put may take an
\* address off the queue that is not in the map any more.
THEOREM CacheAlwaysReplaceable == MemorySpec => []CacheReplaceable
<1>1. MemFullInv => CacheReplaceable
  BY DEF MemFullInv, MemInv, CacheInv
<1> QED BY <1>1, InitMem, MemKept, NextIsCall, PTL DEF MemorySpec

-----------------------------------------------------------------------------
(* The words of the pages *)

WordsInv == SwapInv /\ MemFullInv

\* Who has frames is in S, and nobody else there has the pid of a process.
AloneIn(S, p) ==
  /\ \A f \in Frame : framesMap[f] => frameOwnerTable[f].ownerProcess \in S
  /\ \A q \in S : pid[q] = pid[p] => q = p

\* Where a page is once the one of the call is in its frame, before the call
\* writes: no word of it has changed.
Carried(p, n, memory) ==
  IF Resident(p, n)' THEN memory[pageTable'[p][n]] = contentsOf(p, n)
  ELSE Swapped(p, n)' /\ ReadDisk(disk', swapTable'[pid[p]][n]) = contentsOf(p, n)

LEMMA ContentsThere ==
  ASSUME NEW p, NEW n, contentsOf(p, n) # NONE
  PROVE  /\ Resident(p, n) => contentsOf(p, n) = ram[pageTable[p][n]]
         /\ ~Resident(p, n) =>
              Swapped(p, n) /\ contentsOf(p, n) = ReadDisk(disk, swapTable[pid[p]][n])
BY DEF contentsOf

\* A page in main memory has a frame that is taken.
LEMMA ResidentFrame ==
  ASSUME TableInv, NEW p \in Proc, NEW n \in Page, Resident(p, n)
  PROVE  /\ pageTable[p][n] \in Frame \ freeFrames
         /\ \A q \in Proc, m \in Page : pageTable[q][m] = pageTable[p][n] => q = p /\ m = n
<1>1. pageTable[p][n] \in Frame
  BY DEF TableInv, TablesTypeOK, Resident
<1>2. \A q \in Proc, m \in Page : Resident(q, m) =>
        frameOwnerTable[pageTable[q][m]] = [ownerProcess |-> q, virtualPageNumber |-> m]
  BY DEF TableInv, FramesMatchPages
<1>3. frameOwnerTable[pageTable[p][n]] = [ownerProcess |-> p, virtualPageNumber |-> n]
  BY <1>2
<1>4. framesMap[pageTable[p][n]]
  <2>1. [ownerProcess |-> p, virtualPageNumber |-> n] # NoOwner
    BY NoneIsNoFrame
  <2>2. \A f \in Frame : framesMap[f] <=> frameOwnerTable[f] # NoOwner
    BY DEF TableInv, FramesMatchPages
  <2> QED BY <1>1, <1>3, <2>1, <2>2
<1>5. ASSUME NEW q \in Proc, NEW m \in Page, pageTable[q][m] = pageTable[p][n]
      PROVE  q = p /\ m = n
  <2>1. Resident(q, m)
    BY <1>1, <1>5, NoneIsNoFrame DEF Resident
  <2>2. [ownerProcess |-> q, virtualPageNumber |-> m] = [ownerProcess |-> p, virtualPageNumber |-> n]
    BY <1>2, <1>3, <1>5, <2>1
  <2> QED BY <2>2
<1> QED BY <1>1, <1>4, <1>5 DEF freeFrames

\* Pages are carried when a page is loaded into a free frame.
LEMMA CarriedFree ==
  ASSUME MemFullInv, NEW p \in Proc, NEW n \in Page, NEW frame \in Frame,
         LoadsPage(p, n, frame), freeFrames # {},
         NEW S, p \in S, NEW a \in Proc, NEW b \in Page, AloneIn(S, a), contentsOf(a, b) # NONE
  PROVE  Carried(a, b, pagedRam(p, n, frame))
<1>1. /\ SwapTypeOK /\ TableInv /\ Victim = NoOwner /\ frame \in freeFrames
      /\ ram \in [Frame -> PageImage]
  BY DEF MemFullInv, MemInv, ImagesTypeOK, Victim, LoadsPage, allocateFrame,
         allocatable
<1>2. /\ \A i \in Pid, d \in Page : swapTable'[i][d] =
           IF i = pid[p] /\ d = n THEN NONE ELSE swapTable[i][d]
      /\ \A c \in Proc, d \in Page :
           pageTable'[c][d] = IF c = p /\ d = n THEN frame ELSE pageTable[c][d]
  BY <1>1, TablesLoadFree
<1>3. disk' = disk
  BY DEF LoadsPage, allocateFrame, swapOut, swapVars
<1>4. pagedRam(p, n, frame) =
        IF Swapped(p, n) THEN [ram EXCEPT ![frame] = ReadDisk(disk, swapTable[pid[p]][n])] ELSE ram
  BY <1>1 DEF pagedRam, LoadsPage
<1>5. CASE a = p /\ b = n
  <2>1. ~Resident(a, b) /\ Swapped(a, b) /\ contentsOf(a, b) = ReadDisk(disk, swapTable[pid[a]][b])
    BY <1>5, ContentsThere DEF LoadsPage
  <2>2. Resident(a, b)' /\ pageTable'[a][b] = frame
    BY <1>2, <1>5, NoneIsNoFrame DEF Resident
  <2>3. pagedRam(p, n, frame)[frame] = contentsOf(a, b)
    BY <1>1, <1>4, <1>5, <2>1
  <2> QED BY <2>2, <2>3 DEF Carried
<1>6. CASE ~(a = p /\ b = n) /\ Resident(a, b)
  <2>1. pageTable[a][b] \in Frame /\ pageTable[a][b] # frame
    BY <1>1, <1>6, ResidentFrame
  <2>2. Resident(a, b)' /\ pageTable'[a][b] = pageTable[a][b]
    BY <1>2, <1>6 DEF Resident
  <2>3. pagedRam(p, n, frame)[pageTable[a][b]] = ram[pageTable[a][b]]
    BY <1>1, <1>4, <2>1
  <2> QED BY <1>6, <2>2, <2>3, ContentsThere DEF Carried
<1>7. CASE ~(a = p /\ b = n) /\ ~Resident(a, b)
  <2>1. ~(pid[a] = pid[p] /\ b = n)
    BY <1>7 DEF AloneIn
  <2>2. ~Resident(a, b)' /\ swapTable'[pid[a]][b] = swapTable[pid[a]][b]
    BY <1>2, <1>7, <2>1, PidOfProc DEF Resident
  <2> QED BY <1>3, <1>7, <2>2, ContentsThere DEF Carried, Swapped
<1> QED BY <1>5, <1>6, <1>7

\* What is on disk below the next place is not touched by a page written there.
LEMMA DiskBelow ==
  ASSUME ImagesTypeOK, NEW next \in Nat, NEW image
  PROVE  /\ \A s \in Nat : s < next => ReadDisk(DiskWith(next, image), s) = ReadDisk(disk, s)
         /\ next < diskPages => ReadDisk(DiskWith(next, image), next) = image
BY MemoryAssumption DEF ReadDisk, DiskWith, ImagesTypeOK, Slot

\* Pages are carried when one is loaded over the victim and the disk has room.
LEMMA CarriedOver ==
  ASSUME MemFullInv, NEW p \in Proc, NEW n \in Page, NEW frame \in Frame,
         LoadsPage(p, n, frame), freeFrames = {}, nextSwapAddress' <= diskPages,
         NEW S, p \in S, NEW a \in Proc, NEW b \in Page, AloneIn(S, a), contentsOf(a, b) # NONE
  PROVE  Carried(a, b, pagedRam(p, n, frame))
<1> DEFINE q == Victim.ownerProcess
           m == Victim.virtualPageNumber
           next == nextSwapAddress
           diskNow == DiskWith(next, ram[frame])
<1>1. /\ SwapTypeOK /\ TableInv /\ SlotsBelow /\ ImagesTypeOK /\ frame = victimFramePtr
      /\ ram \in [Frame -> PageImage] /\ next \in Nat
  BY DEF SwapTypeOK, MemFullInv, MemInv, ImagesTypeOK, LoadsPage,
         allocateFrame, allocatable
<1>2. /\ Victim # NoOwner /\ q \in Proc /\ m \in Page /\ pageTable[q][m] = frame
      /\ nextSwapAddress' = next + 1 /\ ~(q = p /\ m = n)
  BY <1>1, TablesOver
<1>3. /\ \A i \in Pid, d \in Page : swapTable'[i][d] =
           IF Swapped(p, n) /\ i = pid[p] /\ d = n THEN NONE
           ELSE IF i = pid[q] /\ d = m THEN next ELSE swapTable[i][d]
      /\ \A c \in Proc, d \in Page :
           pageTable'[c][d] = IF c = p /\ d = n THEN frame
                              ELSE IF c = q /\ d = m THEN NONE ELSE pageTable[c][d]
  BY <1>1, TablesOver
<1>4. disk' = diskNow
  BY <1>1, <1>2 DEF LoadsPage, allocateFrame, swapOut
<1>5. pagedRam(p, n, frame) =
        IF Swapped(p, n) THEN [ram EXCEPT ![frame] = ReadDisk(diskNow, swapTable[pid[p]][n])]
        ELSE ram
  BY <1>1, <1>2 DEF pagedRam, LoadsPage
<1>6. /\ \A s \in Nat : s < next => ReadDisk(diskNow, s) = ReadDisk(disk, s)
      /\ ReadDisk(diskNow, next) = ram[frame]
  <2>1. next < diskPages
    BY <1>1, <1>2, MemoryAssumption
  <2> HIDE DEF next
  <2> QED BY <1>1, <2>1, DiskBelow
<1>7. \A c \in Proc, d \in Page : Swapped(c, d) =>
        ReadDisk(diskNow, swapTable[pid[c]][d]) = ReadDisk(disk, swapTable[pid[c]][d])
  <2>1. \A c \in Proc, d \in Page : Swapped(c, d) =>
          swapTable[pid[c]][d] \in Nat /\ swapTable[pid[c]][d] < next
    BY <1>1, PidOfProc DEF SwapTypeOK, SlotsBelow, Swapped
  <2> HIDE DEF diskNow, next
  <2> QED BY <1>6, <2>1
<1>8. (pid[p] = pid[a] => p = a) /\ (pid[q] = pid[a] => q = a)
  <2>1. Victim = frameOwnerTable[victimFramePtr] /\ framesMap[victimFramePtr]
    BY <1>1 DEF Victim, freeFrames, TableInv, TablesTypeOK
  <2>2. q \in S
    BY <1>1, <2>1 DEF AloneIn
  <2> QED BY <2>2 DEF AloneIn
<1> HIDE DEF q, m, diskNow
<1>9. CASE a = p /\ b = n
  <2>1. ~Resident(a, b) /\ Swapped(a, b) /\ contentsOf(a, b) = ReadDisk(disk, swapTable[pid[a]][b])
    BY <1>9, ContentsThere DEF LoadsPage
  <2>2. Resident(a, b)' /\ pageTable'[a][b] = frame
    BY <1>3, <1>9, NoneIsNoFrame DEF Resident
  <2>3. pagedRam(p, n, frame)[frame] = contentsOf(a, b)
    BY <1>1, <1>5, <1>7, <1>9, <2>1
  <2> QED BY <2>2, <2>3 DEF Carried
<1>10. CASE a = q /\ b = m
  <2>1. Resident(a, b) /\ contentsOf(a, b) = ram[frame]
    BY <1>2, <1>10, ContentsThere, NoneIsNoFrame DEF Resident
  <2>2. ~Resident(a, b)' /\ swapTable'[pid[a]][b] = next
    BY <1>2, <1>3, <1>8, <1>10, PidOfProc DEF Resident
  <2>3. Swapped(a, b)'
    BY <1>1, <2>2, MemoryAssumption DEF Swapped
  <2> QED BY <1>4, <1>6, <2>1, <2>2, <2>3 DEF Carried
<1>11. CASE ~(a = p /\ b = n) /\ ~(a = q /\ b = m) /\ Resident(a, b)
  <2>1. pageTable[a][b] \in Frame /\ pageTable[a][b] # frame
    BY <1>1, <1>2, <1>11, ResidentFrame
  <2>2. Resident(a, b)' /\ pageTable'[a][b] = pageTable[a][b]
    BY <1>3, <1>11 DEF Resident
  <2>3. pagedRam(p, n, frame)[pageTable[a][b]] = ram[pageTable[a][b]]
    BY <1>1, <1>5, <2>1
  <2> QED BY <1>11, <2>2, <2>3, ContentsThere DEF Carried
<1>12. CASE ~(a = p /\ b = n) /\ ~(a = q /\ b = m) /\ ~Resident(a, b)
  <2>1. ~(pid[a] = pid[p] /\ b = n) /\ ~(pid[a] = pid[q] /\ b = m)
    BY <1>2, <1>8, <1>12
  <2>2. ~Resident(a, b)' /\ swapTable'[pid[a]][b] = swapTable[pid[a]][b]
    BY <1>3, <1>12, <2>1, PidOfProc DEF Resident
  <2> QED BY <1>4, <1>7, <1>12, <2>2, ContentsThere DEF Carried, Swapped
<1> QED BY <1>9, <1>10, <1>11, <1>12

\* Whatever translateAddress does, no word of a page changes.
LEMMA PagesCarried ==
  ASSUME MemFullInv, NEW p \in Proc, NEW n \in Page, NEW frame \in Frame,
         translateAddress(p, n, frame), nextSwapAddress' <= diskPages,
         NEW S, p \in S, NEW a \in Proc, NEW b \in Page, AloneIn(S, a), contentsOf(a, b) # NONE
  PROVE  Carried(a, b, pagedRam(p, n, frame))
<1>1. CASE Resident(p, n)
  BY <1>1, ContentsThere
     DEF translateAddress, pagedRam, Carried, Resident, Swapped, tableVars, swapVars
<1>2. CASE ~Resident(p, n)
  BY <1>2, CarriedFree, CarriedOver DEF translateAddress, LoadsPage
<1> QED BY <1>1, <1>2

\* The page of the call is in the frame translateAddress finds.
LEMMA FrameOfCall ==
  ASSUME TableInv, TableInv', NEW p \in Proc, NEW n \in Page, NEW frame \in Frame,
         translateAddress(p, n, frame)
  PROVE  /\ pageTable'[p][n] = frame
         /\ \A a \in Proc, b \in Page : pageTable'[a][b] = frame => a = p /\ b = n
<1>1. pageTable'[p][n] = frame
  <2>1. CASE Resident(p, n)
    BY <2>1 DEF translateAddress, tableVars
  <2>2. CASE ~Resident(p, n)
    <3>1. pagesLeft \in [Proc -> [Page -> Frame \cup {NONE}]]
      BY VictimIsResident, NoneIsNoFrame
         DEF pagesLeft, Victim, TableInv, TablesTypeOK
    <3> QED BY <2>2, <3>1 DEF translateAddress, allocateFrame
  <2> QED BY <2>1, <2>2
<1>2. \A a \in Proc, b \in Page : pageTable'[a][b] = frame =>
        frameOwnerTable'[frame] = [ownerProcess |-> a, virtualPageNumber |-> b]
  BY NoneIsNoFrame DEF TableInv, FramesMatchPages, Resident
<1>3. ASSUME NEW a \in Proc, NEW b \in Page, pageTable'[a][b] = frame
      PROVE  a = p /\ b = n
  <2>1. [ownerProcess |-> a, virtualPageNumber |-> b] = [ownerProcess |-> p, virtualPageNumber |-> n]
    BY <1>1, <1>2, <1>3
  <2> QED BY <2>1
<1> QED BY <1>1, <1>3

\* A dirty entry goes back to word w of the frame.
WrittenBack(f, w) == \E a \in WriteBacks : a[1] = f /\ wordOf(a[2]) = w

\* What a step may do to word w of page n of process p.
WordKept(p, n, w) ==
  contentsOf(p, n) # NONE /\ nextSwapAddress' <= diskPages =>
    \/ contentsOf(p, n)'[w] = contentsOf(p, n)[w]
    \/ Writes(p, n, w)
    \/ WrittenBack(pageTable'[p][n], w)

\* The rest of the call leaves word w of page n of p alone.
LeftAlone(p, n, w, memory) ==
  \A f \in Frame : pageTable'[p][n] = f => ram'[f][w] = memory[f][w]

\* A carried page keeps the words that the rest of the call leaves alone.
LEMMA CarriedWord ==
  ASSUME TableInv', NEW memory, NEW p \in Proc, NEW n \in Page, NEW w \in WordIndex,
         Carried(p, n, memory),
         LeftAlone(p, n, w, memory)
  PROVE  contentsOf(p, n)'[w] = contentsOf(p, n)[w]
<1>1. CASE Resident(p, n)'
  <2>1. pageTable'[p][n] \in Frame
    BY <1>1 DEF TableInv, TablesTypeOK, Resident
  <2>2. contentsOf(p, n)' = ram'[pageTable'[p][n]]
    BY <1>1 DEF contentsOf
  <2> QED BY <1>1, <2>1, <2>2 DEF Carried, LeftAlone
<1>2. CASE ~Resident(p, n)'
  <2>1. contentsOf(p, n)' = ReadDisk(disk', swapTable'[pid[p]][n])
    BY <1>2 DEF contentsOf, Carried
  <2> QED BY <1>2, <2>1 DEF Carried
<1> QED BY <1>1, <1>2

\* What writeToFile leaves alone.
LEMMA NotWrittenBack ==
  ASSUME NEW memory, NEW f \in Frame, NEW w \in WordIndex,
         ~WrittenBack(f, w)
  PROVE  writeToFile(memory)[f][w] = memory[f][w]
BY DEF writeToFile, WrittenBack

\* A read changes words by writing a cache entry back, and not otherwise.
LEMMA ReadKeepsWords ==
  ASSUME MemFullInv, TableInv', NEW p \in Proc, NEW n \in Page,
         NEW offset \in Offset, read(p, n, offset),
         NEW S, p \in S, NEW a \in Proc, NEW b \in Page, AloneIn(S, a), NEW w \in WordIndex
  PROVE  WordKept(a, b, w)
<1> SUFFICES ASSUME contentsOf(a, b) # NONE, nextSwapAddress' <= diskPages
             PROVE  contentsOf(a, b)'[w] = contentsOf(a, b)[w] \/ WrittenBack(pageTable'[a][b], w)
  BY DEF WordKept
<1>1. CASE ReadNothing(p, n)
  BY <1>1 DEF ReadNothing, contentsOf, Resident, Swapped, tableVars, swapVars
<1>2. ASSUME NEW frame \in Frame, translateAddress(p, n, frame),
             ReadHit(p, n, frame, offset) \/ ReadMiss(p, n, frame, offset),
             ~WrittenBack(pageTable'[a][b], w)
      PROVE  contentsOf(a, b)'[w] = contentsOf(a, b)[w]
  <2> DEFINE memory == pagedRam(p, n, frame)
  <2>1. Carried(a, b, memory)
    BY <1>2, PagesCarried
  <2>2. ram' = memory \/ ram' = writeToFile(memory)
    BY <1>2 DEF ReadHit, ReadMiss
  <2> HIDE DEF memory
  <2>3. LeftAlone(a, b, w, memory)
    BY <1>2, <2>2, NotWrittenBack DEF LeftAlone
  <2> QED BY <2>1, <2>3, CarriedWord
<1> QED BY <1>1, <1>2 DEF read

\* So does a write, but for the word it writes.
LEMMA WriteKeepsOthers ==
  ASSUME MemFullInv, TableInv', NEW p \in Proc, NEW n \in Page, NEW offset \in Offset,
         NEW word \in Word, write(p, n, offset, word), nextSwapAddress' <= diskPages,
         NEW S, p \in S, NEW a \in Proc, NEW b \in Page, AloneIn(S, a), NEW w \in WordIndex,
         contentsOf(a, b) # NONE, ~(a = p /\ b = n /\ w = wordOf(offset)),
         ~WrittenBack(pageTable'[a][b], w)
  PROVE  contentsOf(a, b)'[w] = contentsOf(a, b)[w]
<1>1. PICK frame \in Frame :
        /\ translateAddress(p, n, frame)
        /\ WriteHit(p, n, frame, offset, word) \/ WriteMiss(p, n, frame, offset, word)
  BY DEF write
<1> DEFINE memory == pagedRam(p, n, frame)
           stored == Stored(p, n, frame, offset, word)
<1>2. Carried(a, b, memory)
  BY <1>1, PagesCarried
<1>3. ram' = stored \/ ram' = writeToFile(stored)
  BY <1>1 DEF WriteHit, WriteMiss
<1>4. memory \in [Frame -> [WordIndex -> Word]]
  BY PagedRamType DEF MemFullInv, MemInv, TableInv, PageImage
<1>5. \A f \in Frame : pageTable'[a][b] = f => stored[f][w] = memory[f][w]
  <2>1. ASSUME pageTable'[a][b] = frame PROVE wordOf(offset) # w
    BY <1>1, <2>1, FrameOfCall DEF MemFullInv, MemInv
  <2>2. stored = [memory EXCEPT ![frame] = [memory[frame] EXCEPT ![wordOf(offset)] = word]]
    BY DEF Stored
  <2> HIDE DEF stored, memory
  <2> QED BY <1>4, <2>1, <2>2
<1> HIDE DEF stored, memory
<1>6. LeftAlone(a, b, w, memory)
  BY <1>3, <1>5, NotWrittenBack DEF LeftAlone
<1> QED BY <1>2, <1>6, CarriedWord

LEMMA WriteKeepsWords ==
  ASSUME MemFullInv, TableInv', NEW store \in Stores,
         write(store[1], store[2], store[3], store[4]),
         NEW S, store[1] \in S, NEW a \in Proc, NEW b \in Page, AloneIn(S, a), NEW w \in WordIndex
  PROVE  WordKept(a, b, w)
<1> DEFINE p == store[1]
           n == store[2]
           offset == store[3]
           word == store[4]
<1>1. p \in Proc /\ n \in Page /\ offset \in Offset /\ word \in Word
  BY MemoryAssumption DEF Word
<1> SUFFICES ASSUME contentsOf(a, b) # NONE, nextSwapAddress' <= diskPages, ~Writes(a, b, w),
                    ~WrittenBack(pageTable'[a][b], w)
             PROVE  contentsOf(a, b)'[w] = contentsOf(a, b)[w]
  BY DEF WordKept
<1>2. ~(a = p /\ b = n /\ w = wordOf(offset))
  BY DEF Writes
<1> HIDE DEF p, n, offset, word
<1>3. p \in S /\ write(p, n, offset, word)
  BY DEF p, n, offset, word
<1> QED BY <1>1, <1>2, <1>3, WriteKeepsOthers

\* With distinct pids and room on disk, moving pages between frames and disk
\* changes no word of any of them, on any number of frames: a word changes when
\* its process writes it or when a dirty entry goes back to its frame.
THEOREM SwappingKeepsWords == IsInjective(pid) => (MemorySpec => SwapKeepsWords)
<1> SUFFICES ASSUME IsInjective(pid) PROVE MemorySpec => SwapKeepsWords
  OBVIOUS
<1>1. MemoryInit => WordsInv
  BY InitMem, InitTables, NoneIsNoFrame, MemoryAssumption, PidOfProc
     DEF MemoryInit, WordsInv, SwapInv, SwapTypeOK, DiskPagesDistinct, Resident, Swapped
<1>2. WordsInv /\ [MemoryCall]_memVars => WordsInv'
  BY SwapKept, MemKept DEF WordsInv
<1>3. WordsInv /\ WordsInv' /\ [MemoryCall]_memVars =>
        [\A p \in Proc, n \in Page, w \in WordIndex : WordKept(p, n, w)]_memVars
  <2> SUFFICES ASSUME WordsInv, WordsInv', MemoryCall,
                      NEW p \in Proc, NEW n \in Page, NEW w \in WordIndex
               PROVE  WordKept(p, n, w)
    OBVIOUS
  <2>1. MemFullInv /\ TableInv' /\ AloneIn(Proc, p)
    BY VictimIsResident, NoneIsNoFrame, MemoryAssumption
       DEF WordsInv, SwapInv, TableInv, TablesTypeOK, FramesMatchPages, AloneIn, FrameInfo,
           IsInjective
  <2>2. ASSUME NEW load \in Loads, read(load[1], load[2], load[3])
        PROVE  WordKept(p, n, w)
    <3>1. load[1] \in Proc /\ load[2] \in Page /\ load[3] \in Offset
      BY MemoryAssumption
    <3> QED BY <2>1, <2>2, <3>1, ReadKeepsWords
  <2>3. ASSUME NEW store \in Stores, write(store[1], store[2], store[3], store[4])
        PROVE  WordKept(p, n, w)
    <3>1. store[1] \in Proc
      BY MemoryAssumption
    <3> QED BY <2>1, <2>3, <3>1, WriteKeepsWords
  <2> QED BY <2>2, <2>3 DEF MemoryCall
<1> QED BY <1>1, <1>2, <1>3, NextIsCall, PTL DEF MemorySpec, SwapKeepsWords, WordKept, WrittenBack
=============================================================================
