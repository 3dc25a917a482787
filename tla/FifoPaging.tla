----------------------------- MODULE FifoPaging -----------------------------
(***************************************************************************)
(* First in, first out page replacement: a page that is not resident is    *)
(* loaded, and when every frame is taken the page loaded first goes to the *)
(* swap area.                                                              *)
(***************************************************************************)
EXTENDS Naturals, Sequences, Functions

CONSTANTS PageId, FrameCount

VARIABLES
  resident,   \* the pages in RAM, in the order they were loaded
  swapped     \* the pages on disk

pagingVars == <<resident, swapped>>

PagingInit == resident = <<>> /\ swapped = {}

Load(page) ==
  /\ page \notin Range(resident)
  /\ \/ /\ Len(resident) < FrameCount
        /\ resident' = Append(resident, page)
        /\ swapped' = swapped \ {page}
     \/ /\ Len(resident) = FrameCount
        /\ resident' = Append(Tail(resident), page)
        /\ swapped' = (swapped \cup {Head(resident)}) \ {page}

PagingSpec == PagingInit /\ [][\E page \in PageId : Load(page)]_pagingVars
=============================================================================
