------------------------------- MODULE Frames -------------------------------
(***************************************************************************)
(* Physical frames and page tables: the loops of memory.c, kernelbrk.c and *)
(* their callers, as operators.                                            *)
(*                                                                         *)
(* A page table is a function from page to frame, Invalid for an entry     *)
(* whose valid bit is off; protections are left out.  Handing out frames   *)
(* is deterministic: FrameAlloc returns the lowest free one, so a loop     *)
(* that asks for a frame per page is known by the order in which it visits *)
(* the pages, and it stops when the free frames run out.                   *)
(***************************************************************************)
EXTENDS Integers, FiniteSets, FiniteSetsExt

CONSTANTS
  FrameCount,   \* physical_frame_count
  PtLen,        \* MAX_PT_LEN: the pages of Region 1
  FirstText,    \* _first_kernel_text_page
  OrigBrk,      \* _orig_kernel_brk_page: the kernel image ends here
  StackBase,    \* KERNEL_STACK_BASE >> PAGESHIFT
  StackPages,   \* KERNEL_STACK_MAXSIZE / PAGESIZE
  Invalid       \* an entry whose valid bit is off

ASSUME FramesAssumption ==
  /\ {FrameCount, PtLen, OrigBrk, StackBase, StackPages} \subseteq Nat \ {0}
  /\ FirstText \in 0 .. OrigBrk - 1
  /\ OrigBrk < StackBase
  /\ StackBase + StackPages <= FrameCount
  /\ Invalid \notin Int

Frame == 0 .. FrameCount - 1
Page == 0 .. PtLen - 1
KernelPage == 0 .. StackBase + StackPages - 1
StackPage == StackBase .. StackBase + StackPages - 1

(* The page of Region 0 through which the kernel reaches a frame it copies *)
(* into.                                                                   *)
ScratchPage == StackBase - 1

----------------------------------------------------------------------------

(* The k-th smallest member of a finite set of integers.                   *)
Nth(S, k) == CHOOSE x \in S : Cardinality({y \in S : y <= x}) = k

(* The order in which a loop visits the pages of G, upwards or downwards.  *)
Up(G) == [page \in G |-> Cardinality({q \in G : q <= page})]
Down(G) == [page \in G |-> Cardinality({q \in G : q >= page})]

(* What the k-th of several calls of FrameAlloc in a row returns.          *)
FrameAlloc(free, k) == Nth(free, k)

(* The pages a loop in order rank gets a frame for before FrameAlloc       *)
(* returns ERROR, the frames it takes and the table it leaves.             *)
Served(free, rank) == {page \in DOMAIN rank : rank[page] <= Cardinality(free)}
Taken(free, rank) == {FrameAlloc(free, rank[page]) : page \in Served(free, rank)}
Mapped(pt, free, rank) ==
  [page \in DOMAIN pt |-> IF page \in Served(free, rank)
                          THEN FrameAlloc(free, rank[page]) ELSE pt[page]]
Fits(free, rank) == Served(free, rank) = DOMAIN rank

Valid(pt) == {page \in DOMAIN pt : pt[page] # Invalid}

(* The frames that FrameFree gets from the valid entries of pt among G,    *)
(* and the table after MemoryUnmapPage on all of G.                        *)
Held(pt, G) == {pt[page] : page \in G \cap Valid(pt)}
Unmapped(pt, G) == [page \in DOMAIN pt |-> IF page \in G THEN Invalid ELSE pt[page]]

(* The pages a break that runs out of frames has to give back.             *)
Undone(free, old) == old .. old + Cardinality(free) - 1

(* Moving a break from page old to page new, as SysBrk and SetKernelBrk    *)
(* do: map the new pages from the bottom and undo that when the frames run *)
(* out, or else unmap the pages above the new break.                       *)
MoveBreak(pt, allocated, old, new) ==
  LET free == Frame \ allocated
      rank == Up(old .. new - 1)
      tried == Mapped(pt, free, rank)
      dropped == IF Fits(free, rank) THEN new .. old - 1 ELSE Undone(free, old)
  IN  [ok |-> Fits(free, rank),
       pt |-> Unmapped(tried, dropped),
       allocated |-> (allocated \cup Taken(free, rank)) \ Held(tried, dropped)]

=============================================================================
