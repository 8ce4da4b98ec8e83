---------------------------- MODULE MemoryProofs ----------------------------
(***************************************************************************)
(* The invariants of module Memory and its refinement of AddressSpaces,    *)
(* proved for every number of frames, pages and processes, every layout of *)
(* the kernel and every set of executables.                                *)
(***************************************************************************)
EXTENDS Memory, FramesProofs

----------------------------------------------------------------------------
(* Types and layouts.                                                      *)

(* LayoutSound for a process with table pt, whose heap starts at hs, whose *)
(* break is brk and whose stack goes down to low.                          *)
LaidOut(pt, hs, brk, low) ==
  /\ hs <= brk
  /\ brk < low
  /\ low < PtLen
  /\ \A page \in hs .. brk - 1 : pt[page] # Invalid
  /\ \A page \in brk .. low - 1 : pt[page] = Invalid
  /\ \A page \in low .. PtLen - 1 : pt[page] # Invalid

Laid(p) ==
  LaidOut(region1_pt[p], user_heap_start[p], user_brk[p], user_stack_low_page[p])

(* TypeOK and LayoutSound are inductive once the process on the CPU is     *)
(* alive.                                                                  *)
LayoutInv ==
  /\ TypeOK
  /\ status[current_process] = "LIVE"
  /\ LayoutSound

LEMMA LayoutIs ==
  LayoutSound <=> \A p \in Proc \ {Idle} : status[p] = "LIVE" /\ ~halted => Laid(p)
  BY DEF LayoutSound, Laid, LaidOut

(* A step that changes the layout of p only, and brings nobody else to     *)
(* life.                                                                   *)
LEMMA LayoutStep ==
  ASSUME LayoutSound, NEW p \in Proc,
         halted' = FALSE => halted = FALSE,
         halted' \in BOOLEAN, halted \in BOOLEAN,
         \A q \in Proc \ {p} :
           /\ status'[q] = "LIVE" => status[q] = "LIVE"
           /\ region1_pt'[q] = region1_pt[q]
           /\ user_heap_start'[q] = user_heap_start[q]
           /\ user_brk'[q] = user_brk[q]
           /\ user_stack_low_page'[q] = user_stack_low_page[q],
         status'[p] = "LIVE" /\ halted' = FALSE /\ p # Idle =>
           LaidOut(region1_pt'[p], user_heap_start'[p], user_brk'[p],
                   user_stack_low_page'[p])
  PROVE  LayoutSound'
  <1>1. \A q \in Proc \ {Idle} : status[q] = "LIVE" /\ ~halted => Laid(q)
    BY LayoutIs
  <1>2. \A q \in Proc \ {Idle} : status'[q] = "LIVE" /\ ~halted' => Laid(q)'
    <2> SUFFICES ASSUME NEW q \in Proc \ {Idle}, status'[q] = "LIVE", ~halted'
                 PROVE  Laid(q)'
      OBVIOUS
    <2>1. CASE q = p
      BY <2>1 DEF Laid
    <2>2. CASE q # p
      BY <1>1, <2>2 DEF Laid
    <2> QED
      BY <2>1, <2>2
  <1> QED
    BY <1>2 DEF LayoutSound, Laid, LaidOut

(* ... and one that changes none.                                          *)
LEMMA LayoutSame ==
  ASSUME LayoutSound, UNCHANGED <<region1_pt, layoutVars>>,
         halted' = FALSE => halted = FALSE,
         halted' \in BOOLEAN, halted \in BOOLEAN,
         \A q \in Proc : status'[q] = "LIVE" => status[q] = "LIVE"
  PROVE  LayoutSound'
  BY DEF LayoutSound, layoutVars

(* The sizes of the constants, and the memory's parts as types.            *)
LEMMA MemoryFacts ==
  /\ Idle \in Proc /\ InitProc \in Proc /\ InitProc # Idle /\ NULL \notin Proc
  /\ MaxKernelBrk \in Nat /\ OrigBrk <= MaxKernelBrk /\ MaxKernelBrk <= StackBase
  /\ LateGrowth \in Nat
  /\ ScratchPage \in KernelPage /\ ScratchPage \notin StackPage
  /\ StackPage \subseteq KernelPage
  /\ Page \in SUBSET Int /\ IsFiniteSet(Page)
  <1>1. IsFiniteSet(Page)
    BY FrameFacts, FS_Interval DEF Page
  <1> QED
    BY <1>1, FrameFacts, MemoryAssumption DEF ScratchPage, KernelPage, StackPage, Page

LEMMA KeptType ==
  ASSUME NEW contents, \A f \in Frame : contents[f] \in Value \cup {Image, Junk}
  PROVE  Kept(contents) \in [Frame -> Value \cup {Image, Junk}]
  BY DEF Kept

LEMMA StackOfType ==
  ASSUME TypeOK, NEW next \in Proc
  PROVE  StackOf(kernel_region0_pt, next) \in [KernelPage -> Entry]
  <1>1. \A page \in StackPage : page - StackBase + 1 \in 1 .. StackPages
    BY FrameFacts DEF StackPage
  <1>2. \A page \in StackPage : kernel_stack_pfns[next][page - StackBase + 1] \in Frame
    BY <1>1 DEF TypeOK
  <1>3. \A page \in KernelPage : kernel_region0_pt[page] \in Entry
    BY DEF TypeOK, Entry
  <1> QED
    BY <1>2, <1>3 DEF StackOf, Entry

----------------------------------------------------------------------------
(* One lemma per handler.                                                  *)

LEMMA SetKernelBrkLayout ==
  ASSUME LayoutInv, NEW requested \in 0 .. MaxKernelBrk, SetKernelBrk(requested)
  PROVE  LayoutInv'
  <1>1. TypeOK /\ status[current_process] = "LIVE" /\ LayoutSound
    BY DEF LayoutInv
  <1>2. PICK old, new, m :
          /\ old = current_kernel_brk_page /\ new = NotBelowImage(requested)
          /\ m = MoveBreak(kernel_region0_pt, frame_allocated, old, new)
    OBVIOUS
  <1>3. /\ new <= StackBase /\ kernel_region0_pt' = m.pt /\ frame_allocated' = m.allocated
        /\ current_kernel_brk_page' = IF m.ok THEN new ELSE current_kernel_brk_page
        /\ pmem' = Kept(pmem)
        /\ UNCHANGED <<current_process, pcbVars, layoutVars, halted>>
    BY <1>2 DEF SetKernelBrk, HeapLimit
  <1>4. old \in Nat /\ new \in Nat /\ OrigBrk <= new
    BY <1>1, <1>2, MemoryFacts, FrameFacts DEF NotBelowImage, TypeOK
  <1>5. kernel_region0_pt \in [KernelPage -> Entry] /\ frame_allocated \in SUBSET Frame
    BY <1>1 DEF TypeOK, Entry
  <1>6. old .. new - 1 \subseteq KernelPage
    BY <1>3, <1>4, FrameFacts DEF KernelPage
  <1>7. BreakMoved(kernel_region0_pt, frame_allocated, old, new, m)
    BY <1>2, <1>4, <1>5, <1>6, MoveBreakGives
  <1>8. m.pt \in [KernelPage -> Entry] /\ m.allocated \in SUBSET Frame
    BY <1>5, <1>7, MovedType
  <1>9. current_kernel_brk_page' \in OrigBrk .. StackBase
    BY <1>1, <1>3, <1>4, FrameFacts DEF TypeOK
  <1>10. pmem' \in [Frame -> Value \cup {Image, Junk}]
    BY <1>1, <1>3, KeptType DEF TypeOK
  <1>11. TypeOK'
    BY <1>1, <1>3, <1>8, <1>9, <1>10 DEF TypeOK, pcbVars, layoutVars, Entry
  <1>12. LayoutSound'
    BY <1>1, <1>3, LayoutSame DEF pcbVars, TypeOK
  <1> QED
    BY <1>1, <1>3, <1>11, <1>12 DEF LayoutInv, pcbVars

LEMMA HaltsLayout ==
  ASSUME LayoutInv, halted' = TRUE,
         UNCHANGED <<kernelVars, current_process, pcbVars, layoutVars>>
  PROVE  LayoutInv'
  BY DEF LayoutInv, TypeOK, LayoutSound, kernelVars, pcbVars, layoutVars

LEMMA StoreLayout ==
  ASSUME LayoutInv, NEW page \in Page, NEW v \in Value, Store(page, v)
  PROVE  LayoutInv'
  <1>1. /\ pmem' = [pmem EXCEPT ![region1_pt[current_process][page]] = v]
        /\ UNCHANGED <<frame_allocated, kernel_region0_pt, current_kernel_brk_page,
                       current_process, pcbVars, layoutVars, halted>>
    BY DEF Store
  <1>2. pmem' \in [Frame -> Value \cup {Image, Junk}]
    BY <1>1 DEF LayoutInv, TypeOK
  <1> QED
    BY <1>1, <1>2 DEF LayoutInv, TypeOK, LayoutSound, pcbVars, layoutVars

(* SysBrk leaves a table that agrees with the break it leaves.             *)
LEMMA BrkLaysOut ==
  ASSUME NEW pt \in [Page -> Entry], NEW allocated \in SUBSET Frame,
         NEW hs \in Nat, NEW old \in Nat, NEW low \in Nat, LaidOut(pt, hs, old, low),
         NEW new \in Nat, hs <= new, new < low,
         NEW m, BreakMoved(pt, allocated, old, new, m)
  PROVE  LaidOut(m.pt, hs, IF m.ok THEN new ELSE old, low)
  <1>1. PtLen \in Nat /\ low < PtLen /\ hs <= old /\ old < low
    BY FrameFacts DEF LaidOut
  <1>2. CASE /\ m.ok /\ old <= new
             /\ Filled(pt, m.pt, old .. new - 1, Frame \ allocated)
    <2>1. /\ \A page \in old .. new - 1 : m.pt[page] # Invalid
          /\ \A page \in Page \ (old .. new - 1) : m.pt[page] = pt[page]
      <3>1. PICK N, free : N = old .. new - 1 /\ free = Frame \ allocated /\ free \in SUBSET Frame
        OBVIOUS
      <3> QED
        BY <1>2, <3>1, FilledType
    <2>2. \A page \in hs .. new - 1 : m.pt[page] # Invalid
      <3> TAKE page \in hs .. new - 1
      <3>1. page \in old .. new - 1 \/ (page \in Page \ (old .. new - 1) /\ page \in hs .. old - 1)
        BY <1>1 DEF Page
      <3> QED
        BY <2>1, <3>1 DEF LaidOut
    <2>3. \A page \in new .. low - 1 : m.pt[page] = Invalid
      <3> TAKE page \in new .. low - 1
      <3>1. page \in Page \ (old .. new - 1) /\ page \in old .. low - 1
        BY <1>1, <1>2 DEF Page
      <3> QED
        BY <2>1, <3>1 DEF LaidOut
    <2>4. \A page \in low .. PtLen - 1 : m.pt[page] # Invalid
      <3> TAKE page \in low .. PtLen - 1
      <3>1. page \in Page \ (old .. new - 1)
        BY <1>1 DEF Page
      <3> QED
        BY <2>1, <3>1 DEF LaidOut
    <2> QED
      BY <1>1, <1>2, <2>2, <2>3, <2>4 DEF LaidOut
  <1>3. CASE m.ok /\ new < old /\ m.pt = Unmapped(pt, new .. old - 1)
    <2>1. \A page \in Page : m.pt[page] = IF page \in new .. old - 1 THEN Invalid ELSE pt[page]
      BY <1>3, UnmappedType
    <2>2. \A page \in hs .. new - 1 : m.pt[page] # Invalid
      <3> TAKE page \in hs .. new - 1
      <3>1. page \in Page /\ page \notin new .. old - 1 /\ page \in hs .. old - 1
        BY <1>1, <1>3 DEF Page
      <3> QED
        BY <2>1, <3>1 DEF LaidOut
    <2>3. \A page \in new .. low - 1 : m.pt[page] = Invalid
      <3> TAKE page \in new .. low - 1
      <3>1. page \in Page /\ (page \in new .. old - 1 \/ page \in old .. low - 1)
        BY <1>1, <1>3 DEF Page
      <3> QED
        BY <2>1, <3>1 DEF LaidOut
    <2>4. \A page \in low .. PtLen - 1 : m.pt[page] # Invalid
      <3> TAKE page \in low .. PtLen - 1
      <3>1. page \in Page /\ page \notin new .. old - 1
        BY <1>1 DEF Page
      <3> QED
        BY <2>1, <3>1 DEF LaidOut
    <2> QED
      BY <1>1, <1>3, <2>2, <2>3, <2>4 DEF LaidOut
  <1>4. CASE ~m.ok /\ \E U \in SUBSET (old .. new - 1) : m.pt = Unmapped(pt, U)
    <2>1. PICK U \in SUBSET (old .. new - 1) : m.pt = Unmapped(pt, U)
      BY <1>4
    <2>2. \A page \in Page : m.pt[page] = IF page \in U THEN Invalid ELSE pt[page]
      BY <2>1, UnmappedType
    <2>3. \A page \in U : page \in old .. low - 1
      BY <1>1
    <2>4. \A page \in Page : m.pt[page] = pt[page]
      BY <2>2, <2>3 DEF LaidOut
    <2>5. /\ \A page \in hs .. old - 1 : page \in Page
          /\ \A page \in old .. low - 1 : page \in Page
          /\ \A page \in low .. PtLen - 1 : page \in Page
      BY <1>1 DEF Page
    <2> QED
      BY <1>4, <2>4, <2>5 DEF LaidOut
  <1> QED
    BY <1>2, <1>3, <1>4 DEF BreakMoved

(* What SysBrk finds and leaves.                                           *)
LEMMA SysBrkMoves ==
  ASSUME LayoutInv, NEW new \in 0 .. PtLen, SysBrk(new), NEW p, p = current_process,
         NEW m, m = MoveBreak(region1_pt[p], frame_allocated, user_brk[p], new)
  PROVE  /\ p \in Proc /\ p # Idle /\ ~halted /\ Laid(p)
         /\ region1_pt[p] \in [Page -> Entry] /\ frame_allocated \in SUBSET Frame
         /\ user_heap_start[p] \in Nat /\ user_brk[p] \in Nat
         /\ user_stack_low_page[p] \in Nat /\ new \in Nat
         /\ user_heap_start[p] <= new /\ new < user_stack_low_page[p]
         /\ BreakMoved(region1_pt[p], frame_allocated, user_brk[p], new, m)
  <1>1. TypeOK /\ status[current_process] = "LIVE" /\ LayoutSound
    BY DEF LayoutInv
  <1>2. p \in Proc /\ p # Idle /\ ~halted
    BY <1>1 DEF SysBrk, Calling, TypeOK
  <1>3. Laid(p)
    BY <1>1, <1>2, LayoutIs
  <1>4. /\ region1_pt[p] \in [Page -> Entry] /\ frame_allocated \in SUBSET Frame
        /\ user_heap_start[p] \in 0 .. PtLen /\ user_brk[p] \in 0 .. PtLen
        /\ user_stack_low_page[p] \in 0 .. PtLen
    BY <1>1, <1>2 DEF TypeOK, Entry
  <1>5. /\ user_heap_start[p] \in Nat /\ user_brk[p] \in Nat
        /\ user_stack_low_page[p] \in Nat /\ new \in Nat
    BY <1>4, FrameFacts
  <1>6. user_heap_start[p] <= new /\ new < user_stack_low_page[p]
    BY <1>5 DEF SysBrk, BrkAllowed
  <1>7. user_brk[p] .. new - 1 \subseteq Page
    BY <1>4, <1>5, <1>6, FrameFacts DEF Page
  <1>8. BreakMoved(region1_pt[p], frame_allocated, user_brk[p], new, m)
    BY <1>4, <1>5, <1>7, MoveBreakGives
  <1> QED
    BY <1>2, <1>3, <1>4, <1>5, <1>6, <1>8

LEMMA SysBrkLayout ==
  ASSUME LayoutInv, NEW new \in 0 .. PtLen, SysBrk(new)
  PROVE  LayoutInv'
  <1>1. TypeOK /\ status[current_process] = "LIVE" /\ LayoutSound
    BY DEF LayoutInv
  <1>2. PICK p, m : /\ p = current_process
                    /\ m = MoveBreak(region1_pt[p], frame_allocated, user_brk[p], new)
    OBVIOUS
  <1>3. /\ region1_pt' = [region1_pt EXCEPT ![p] = m.pt]
        /\ frame_allocated' = m.allocated
        /\ user_brk' = [user_brk EXCEPT ![p] = IF m.ok THEN new ELSE @]
        /\ pmem' = Kept(pmem)
        /\ UNCHANGED <<kernel_region0_pt, current_kernel_brk_page, current_process,
                       status, parent, kernel_stack_pfns, user_heap_start,
                       user_stack_low_page, halted>>
    BY <1>2 DEF SysBrk
  <1>4. /\ p \in Proc /\ p # Idle /\ ~halted /\ Laid(p)
        /\ region1_pt[p] \in [Page -> Entry] /\ frame_allocated \in SUBSET Frame
        /\ user_heap_start[p] \in Nat /\ user_brk[p] \in Nat
        /\ user_stack_low_page[p] \in Nat /\ new \in Nat
        /\ user_heap_start[p] <= new /\ new < user_stack_low_page[p]
        /\ BreakMoved(region1_pt[p], frame_allocated, user_brk[p], new, m)
    BY <1>2, SysBrkMoves
  <1>5. m.pt \in [Page -> Entry] /\ m.allocated \in SUBSET Frame
    BY <1>4, MovedType
  <1>6. LaidOut(m.pt, user_heap_start[p], IF m.ok THEN new ELSE user_brk[p],
                user_stack_low_page[p])
    BY <1>4, BrkLaysOut DEF Laid
  <1>7. pmem' \in [Frame -> Value \cup {Image, Junk}]
    BY <1>1, <1>3, KeptType DEF TypeOK
  <1>8. TypeOK'
    BY <1>1, <1>3, <1>4, <1>5, <1>7 DEF TypeOK, Entry
  <1>9. LayoutSound'
    <2>1. /\ region1_pt'[p] = m.pt /\ user_heap_start'[p] = user_heap_start[p]
          /\ user_brk'[p] = (IF m.ok THEN new ELSE user_brk[p])
          /\ user_stack_low_page'[p] = user_stack_low_page[p]
      BY <1>1, <1>3, <1>4 DEF TypeOK
    <2>2. \A q \in Proc \ {p} :
            /\ region1_pt'[q] = region1_pt[q]
            /\ user_brk'[q] = user_brk[q]
      BY <1>1, <1>3 DEF TypeOK
    <2>3. halted \in BOOLEAN
      BY <1>1 DEF TypeOK
    <2>4. LaidOut(region1_pt'[p], user_heap_start'[p], user_brk'[p], user_stack_low_page'[p])
      BY <1>6, <2>1
    <2> QED
      BY <1>1, <1>3, <1>4, <2>2, <2>3, <2>4, LayoutStep
  <1> QED
    BY <1>1, <1>3, <1>8, <1>9 DEF LayoutInv

(* ProcessExitCurrent.                                                     *)
LEMMA ExitGives ==
  ASSUME TypeOK, status[current_process] = "LIVE", NEW next \in Proc,
         ProcessExitCurrent(next)
  PROVE  /\ halted' \in BOOLEAN /\ status' \in [Proc -> Status]
         /\ parent' \in [Proc -> Proc \cup {NULL}]
         /\ current_process' \in Proc /\ status'[current_process'] = "LIVE"
         /\ kernel_region0_pt' \in [KernelPage -> Entry]
         /\ \A q \in Proc : status'[q] = "LIVE" => status[q] = "LIVE"
         /\ \A q \in Proc : status'[q] = "EMPTY" => status[q] = "EMPTY"
         /\ halted' = FALSE => halted = FALSE /\ status'[current_process] = "ZOMBIE"
         /\ \/ UNCHANGED <<kernel_region0_pt, current_process>>
            \/ kernel_region0_pt' = StackOf(kernel_region0_pt, current_process')
  <1>1. /\ current_process \in Proc /\ status \in [Proc -> Status]
        /\ halted \in BOOLEAN /\ parent \in [Proc -> Proc \cup {NULL}]
        /\ kernel_region0_pt \in [KernelPage -> Entry]
    BY DEF TypeOK, Entry
  <1>2. CASE /\ halted' = TRUE
             /\ UNCHANGED <<status, parent, current_process, kernel_region0_pt>>
    BY <1>1, <1>2
  <1>3. CASE /\ next # current_process /\ status[next] = "LIVE"
             /\ status' = [status EXCEPT ![current_process] = "ZOMBIE"]
             /\ parent' = [c \in Proc |-> IF parent[c] = current_process THEN NULL ELSE parent[c]]
             /\ current_process' = next
             /\ kernel_region0_pt' = StackOf(kernel_region0_pt, next)
             /\ UNCHANGED halted
    <2>1. kernel_region0_pt' \in [KernelPage -> Entry]
      BY <1>3, StackOfType
    <2>2. status' \in [Proc -> Status]
      BY <1>1, <1>3 DEF Status
    <2>3. parent' \in [Proc -> Proc \cup {NULL}]
      BY <1>1, <1>3
    <2> QED
      BY <1>1, <1>3, <2>1, <2>2, <2>3
  <1> QED
    BY <1>2, <1>3 DEF ProcessExitCurrent

LEMMA ExitLayout ==
  ASSUME LayoutInv, NEW next \in Proc, Exit(next)
  PROVE  LayoutInv'
  <1>1. TypeOK /\ status[current_process] = "LIVE" /\ LayoutSound
    BY DEF LayoutInv
  <1>2. /\ ProcessExitCurrent(next)
        /\ UNCHANGED <<frame_allocated, current_kernel_brk_page, pmem, region1_pt,
                       kernel_stack_pfns, layoutVars>>
    BY DEF Exit
  <1>3. /\ halted' \in BOOLEAN /\ status' \in [Proc -> Status]
        /\ parent' \in [Proc -> Proc \cup {NULL}]
        /\ current_process' \in Proc /\ status'[current_process'] = "LIVE"
        /\ kernel_region0_pt' \in [KernelPage -> Entry]
        /\ \A q \in Proc : status'[q] = "LIVE" => status[q] = "LIVE"
        /\ halted' = FALSE => halted = FALSE
    BY <1>1, <1>2, ExitGives
  <1>4. TypeOK'
    BY <1>1, <1>2, <1>3 DEF TypeOK, layoutVars, Entry
  <1>5. LayoutSound'
    BY <1>1, <1>2, <1>3, LayoutSame DEF TypeOK
  <1> QED
    BY <1>3, <1>4, <1>5 DEF LayoutInv

(* What ProcessGrowStack finds and leaves.                                 *)
LEMMA GrowStackFills ==
  ASSUME LayoutInv, NEW page \in Page, NEW next \in Proc, TrapMemory(page, next),
         NEW p, p = current_process, NEW G, G = page .. user_stack_low_page[p] - 1,
         NEW N, N = Served(Free, Down(G)), NEW pt2, pt2 = Mapped(region1_pt[p], Free, Down(G))
  PROVE  /\ p \in Proc /\ p # Idle /\ ~halted /\ Laid(p)
         /\ region1_pt[p] \in [Page -> Entry] /\ Free \in SUBSET Frame
         /\ page \in Nat /\ user_brk[p] \in Nat /\ user_stack_low_page[p] \in Nat
         /\ user_brk[p] < page /\ page < user_stack_low_page[p]
         /\ G \subseteq Page
         /\ \A i \in G : region1_pt[p][i] = Invalid
         /\ Looped(region1_pt[p], pt2, Free, Down(G), N, G)
  <1>1. TypeOK /\ status[current_process] = "LIVE" /\ LayoutSound
    BY DEF LayoutInv
  <1>2. p \in Proc /\ p # Idle /\ ~halted
    BY <1>1 DEF TrapMemory, Calling, TypeOK
  <1>3. Laid(p)
    BY <1>1, <1>2, LayoutIs
  <1>4. /\ region1_pt[p] \in [Page -> Entry] /\ Free \in SUBSET Frame
        /\ user_brk[p] \in 0 .. PtLen /\ user_stack_low_page[p] \in 0 .. PtLen
    BY <1>1, <1>2 DEF TypeOK, Entry, Free
  <1>5. /\ page \in Nat /\ user_brk[p] \in Nat /\ user_stack_low_page[p] \in Nat
        /\ user_stack_low_page[p] < PtLen
    BY <1>3, <1>4, FrameFacts DEF Page, Laid, LaidOut
  <1>6. user_brk[p] < page /\ page < user_stack_low_page[p]
    BY DEF TrapMemory
  <1>7. G \subseteq Page /\ G \subseteq user_brk[p] .. user_stack_low_page[p] - 1
    <2>1. PICK b, low : b = user_brk[p] /\ low = user_stack_low_page[p]
      OBVIOUS
    <2>2. /\ page \in Nat /\ b \in Nat /\ low \in Nat /\ PtLen \in Nat
          /\ b < page /\ low < PtLen
      BY <1>5, <1>6, <2>1, FrameFacts
    <2>3. \A i \in page .. low - 1 : i \in 0 .. PtLen - 1 /\ i \in b .. low - 1
      BY <2>2
    <2> QED
      BY <2>1, <2>3 DEF Page
  <1>8. \A i \in G : region1_pt[p][i] = Invalid
    BY <1>3, <1>7 DEF Laid, LaidOut
  <1>9. G \in SUBSET Int /\ IsFiniteSet(G)
    <2>1. PICK b : b = user_stack_low_page[p] - 1
      OBVIOUS
    <2>2. page \in Int /\ b \in Int /\ G = page .. b
      BY <1>5, <2>1
    <2>3. IsFiniteSet(page .. b)
      BY <2>2, FS_Interval
    <2> QED
      BY <2>2, <2>3
  <1>10. Ranks(Down(G), G) /\ G \subseteq DOMAIN region1_pt[p]
    BY <1>4, <1>7, <1>9, DownRanks
  <1>11. Looped(region1_pt[p], pt2, Free, Down(G), N, G)
    BY <1>4, <1>9, <1>10, MappedFills
  <1> QED
    BY <1>2, <1>3, <1>4, <1>5, <1>6, <1>7, <1>8, <1>11

LEMMA TrapMemoryLayout ==
  ASSUME LayoutInv, NEW page \in Page, NEW next \in Proc, TrapMemory(page, next)
  PROVE  LayoutInv'
  <1>1. TypeOK /\ status[current_process] = "LIVE" /\ LayoutSound
    BY DEF LayoutInv
  <1>2. PICK p, G, N, pt2 :
          /\ p = current_process /\ G = page .. user_stack_low_page[p] - 1
          /\ N = Served(Free, Down(G)) /\ pt2 = Mapped(region1_pt[p], Free, Down(G))
    OBVIOUS
  <1>3. /\ p \in Proc /\ p # Idle /\ ~halted /\ Laid(p)
        /\ region1_pt[p] \in [Page -> Entry] /\ Free \in SUBSET Frame
        /\ page \in Nat /\ user_brk[p] \in Nat /\ user_stack_low_page[p] \in Nat
        /\ user_brk[p] < page /\ page < user_stack_low_page[p]
        /\ G \subseteq Page
        /\ Looped(region1_pt[p], pt2, Free, Down(G), N, G)
    BY <1>2, GrowStackFills
  <1>4. /\ region1_pt' = [region1_pt EXCEPT ![p] = pt2]
        /\ frame_allocated' = frame_allocated \cup Taken(Free, Down(G))
        /\ UNCHANGED <<current_kernel_brk_page, pmem, kernel_stack_pfns,
                       user_heap_start, user_brk>>
    BY <1>2 DEF TrapMemory
  <1>5. /\ Filled(region1_pt[p], pt2, N, Free) /\ N \subseteq G
        /\ Taken(Free, Down(G)) \subseteq Frame
        /\ Fits(Free, Down(G)) <=> N = G
    BY <1>3 DEF Looped
  <1>6. /\ pt2 \in [Page -> Entry]
        /\ \A i \in N : pt2[i] # Invalid
        /\ \A i \in Page \ N : pt2[i] = region1_pt[p][i]
    BY <1>3, <1>5, FilledType
  <1>7. /\ region1_pt' \in [Proc -> [Page -> Entry]] /\ frame_allocated' \subseteq Frame
        /\ region1_pt'[p] = pt2 /\ \A q \in Proc \ {p} : region1_pt'[q] = region1_pt[q]
    <2>1. region1_pt \in [Proc -> [Page -> Entry]] /\ frame_allocated \subseteq Frame
      BY <1>1 DEF TypeOK, Entry
    <2> QED
      BY <1>3, <1>4, <1>5, <1>6, <2>1
  <1>8. CASE /\ Fits(Free, Down(G))
             /\ user_stack_low_page' = [user_stack_low_page EXCEPT ![p] = page]
             /\ UNCHANGED <<status, parent, current_process, kernel_region0_pt, halted>>
    <2>1. /\ user_stack_low_page'[p] = page /\ user_stack_low_page' \in [Proc -> 0 .. PtLen]
          /\ \A q \in Proc \ {p} : user_stack_low_page'[q] = user_stack_low_page[q]
      BY <1>1, <1>3, <1>8, FrameFacts DEF TypeOK, Page
    <2>2. TypeOK'
      BY <1>1, <1>4, <1>7, <1>8, <2>1 DEF TypeOK, Entry
    <2>3. LaidOut(pt2, user_heap_start[p], user_brk[p], page)
      <3>1. \A i \in page .. PtLen - 1 : pt2[i] # Invalid
        <4> TAKE i \in page .. PtLen - 1
        <4>1. i \in N \/ (i \in Page \ N /\ i \in user_stack_low_page[p] .. PtLen - 1)
          <5>1. i \in Page /\ (i \in G \/ i \in user_stack_low_page[p] .. PtLen - 1)
            BY <1>2, <1>3, FrameFacts DEF Page
          <5>2. N = G
            BY <1>5, <1>8
          <5> QED
            BY <5>1, <5>2
        <4> QED
          BY <1>3, <1>6, <4>1 DEF Laid, LaidOut
      <3>2. \A i \in user_brk[p] .. page - 1 : pt2[i] = Invalid
        <4> TAKE i \in user_brk[p] .. page - 1
        <4>1. i \in Page \ N /\ i \in user_brk[p] .. user_stack_low_page[p] - 1
          <5>1. user_stack_low_page[p] < PtLen
            BY <1>3 DEF Laid, LaidOut
          <5>2. i \in Int /\ user_brk[p] <= i /\ i < page
            BY <1>3
          <5>3. i \in Page /\ i \in user_brk[p] .. user_stack_low_page[p] - 1 /\ i \notin G
            BY <1>2, <1>3, <5>1, <5>2, FrameFacts DEF Page
          <5> QED
            BY <1>5, <5>3
        <4> QED
          BY <1>3, <1>6, <4>1 DEF Laid, LaidOut
      <3>3. \A i \in user_heap_start[p] .. user_brk[p] - 1 : pt2[i] # Invalid
        <4> TAKE i \in user_heap_start[p] .. user_brk[p] - 1
        <4>1. user_heap_start[p] \in 0 .. PtLen
          BY <1>1, <1>3 DEF TypeOK
        <4>2. i \in Page \ N
          BY <1>2, <1>3, <1>5, <4>1, FrameFacts DEF Page
        <4> QED
          BY <1>3, <1>6, <4>2 DEF Laid, LaidOut
      <3>4. page < PtLen /\ user_heap_start[p] <= user_brk[p]
        BY <1>3, FrameFacts DEF Page, Laid, LaidOut
      <3> QED
        BY <1>3, <3>1, <3>2, <3>3, <3>4 DEF LaidOut
    <2>4. LaidOut(region1_pt'[p], user_heap_start'[p], user_brk'[p], user_stack_low_page'[p])
      BY <1>4, <1>7, <2>1, <2>3
    <2>5. LayoutSound'
      <3>1. halted \in BOOLEAN
        BY <1>1 DEF TypeOK
      <3> QED
        BY <1>1, <1>3, <1>4, <1>7, <1>8, <2>1, <2>4, <3>1, LayoutStep
    <2> QED
      BY <1>1, <1>8, <2>2, <2>5 DEF LayoutInv
  <1>9. CASE ProcessExitCurrent(next) /\ UNCHANGED user_stack_low_page
    <2>1. /\ halted' \in BOOLEAN /\ status' \in [Proc -> Status]
          /\ parent' \in [Proc -> Proc \cup {NULL}]
          /\ current_process' \in Proc /\ status'[current_process'] = "LIVE"
          /\ kernel_region0_pt' \in [KernelPage -> Entry]
          /\ \A q \in Proc : status'[q] = "LIVE" => status[q] = "LIVE"
          /\ halted' = FALSE => halted = FALSE /\ status'[p] = "ZOMBIE"
      BY <1>1, <1>2, <1>9, ExitGives
    <2>2. TypeOK'
      BY <1>1, <1>4, <1>7, <1>9, <2>1 DEF TypeOK, Entry
    <2>3. LayoutSound'
      <3>1. halted \in BOOLEAN
        BY <1>1 DEF TypeOK
      <3> QED
        BY <1>1, <1>3, <1>4, <1>7, <1>9, <2>1, <3>1, LayoutStep
    <2> QED
      BY <2>1, <2>2, <2>3 DEF LayoutInv
  <1> QED
    BY <1>2, <1>8, <1>9 DEF TrapMemory

LEMMA SwitchLayout ==
  ASSUME LayoutInv, NEW next \in Proc, Switch(next)
  PROVE  LayoutInv'
  <1>1. /\ status[next] = "LIVE" /\ current_process' = next
        /\ kernel_region0_pt' = StackOf(kernel_region0_pt, next)
        /\ UNCHANGED <<frame_allocated, current_kernel_brk_page, pmem, pcbVars,
                       layoutVars, halted>>
    BY DEF Switch
  <1>2. kernel_region0_pt' \in [KernelPage -> Entry]
    BY <1>1, StackOfType DEF LayoutInv
  <1> QED
    BY <1>1, <1>2 DEF LayoutInv, TypeOK, LayoutSound, pcbVars, layoutVars, Entry

----------------------------------------------------------------------------
(* The tables Fork and LoadProgram build.                                  *)

LEMMA EmptyTables ==
  /\ NoTable \in [Page -> Entry] /\ DOMAIN NoTable = Page
  /\ \A page \in Page : NoTable[page] = Invalid
  /\ NoStack \in [1 .. StackPages -> Frame] /\ DOMAIN NoStack = 1 .. StackPages
  /\ \A i \in 1 .. StackPages : NoStack[i] = 0
  /\ 0 \in Frame
  <1>1. 0 \in Frame
    BY FrameFacts DEF Frame
  <1> QED
    BY <1>1 DEF NoTable, NoStack, Entry

(* The kernel stack of a new process.                                      *)
LEMMA ChildStackFills ==
  ASSUME TypeOK, NEW N, N = Served(Free, StackRank)
  PROVE  /\ Looped(NoStack, ChildStack, Free, StackRank, N, 1 .. StackPages)
         /\ Free \in SUBSET Frame /\ FreeForCopy \in SUBSET Free
         /\ ChildStack \in [1 .. StackPages -> Frame]
  <1>1. Free \in SUBSET Frame /\ FreeForCopy \in SUBSET Free
    BY DEF Free, FreeForCopy
  <1>2. PICK G : G = 1 .. StackPages
    OBVIOUS
  <1>3. G \in SUBSET Int /\ IsFiniteSet(G)
    BY <1>2, FrameFacts, FS_Interval
  <1>4. Ranks(StackRank, G)
    BY <1>2, <1>3, UpRanks DEF StackRank
  <1>5. G \subseteq DOMAIN NoStack
    BY <1>2, EmptyTables
  <1>6. Looped(NoStack, ChildStack, Free, StackRank, N, G)
    BY <1>1, <1>3, <1>4, <1>5, MappedFills DEF ChildStack
  <1>7. Filled(NoStack, ChildStack, N, Free)
    BY <1>6 DEF Looped
  <1>8. \A i \in G : ChildStack[i] \in Frame
    BY <1>1, <1>2, <1>7, EmptyTables DEF Filled, Fresh
  <1>9. ChildStack = [i \in G |-> ChildStack[i]]
    BY <1>2, <1>7, EmptyTables DEF Filled
  <1> QED
    BY <1>1, <1>2, <1>6, <1>8, <1>9

(* Its Region 1.                                                           *)
LEMMA ChildTableFills ==
  ASSUME TypeOK, NEW p \in Proc, NEW N, N = Served(FreeForCopy, CopyRank(p))
  PROVE  /\ Looped(NoTable, ChildTable(p), FreeForCopy, CopyRank(p), N,
                   Valid(region1_pt[p]))
         /\ ChildTable(p) \in [Page -> Entry]
         /\ Valid(region1_pt[p]) \in SUBSET Page
         /\ N \in SUBSET Page /\ N \in SUBSET Int /\ IsFiniteSet(N)
         /\ \A page \in Page : ChildTable(p)[page] # Invalid <=> page \in N
         /\ \A page \in N : ChildTable(p)[page] \in FreeForCopy
  <1>1. FreeForCopy \in SUBSET Frame
    BY ChildStackFills
  <1>2. PICK G : G = Valid(region1_pt[p])
    OBVIOUS
  <1>3. region1_pt[p] \in [Page -> Entry]
    BY DEF TypeOK, Entry
  <1>4. G \in SUBSET Page
    BY <1>2, <1>3 DEF Valid
  <1>5. G \in SUBSET Int /\ IsFiniteSet(G)
    BY <1>4, MemoryFacts, FS_Subset
  <1>6. Ranks(CopyRank(p), G)
    BY <1>2, <1>5, UpRanks DEF CopyRank
  <1>7. G \subseteq DOMAIN NoTable
    BY <1>4, EmptyTables
  <1>8. Looped(NoTable, ChildTable(p), FreeForCopy, CopyRank(p), N, G)
    BY <1>1, <1>5, <1>6, <1>7, MappedFills DEF ChildTable
  <1>9. N \subseteq G /\ Filled(NoTable, ChildTable(p), N, FreeForCopy)
    BY <1>8 DEF Looped
  <1>10. /\ ChildTable(p) \in [Page -> Entry]
         /\ \A page \in N : ChildTable(p)[page] \in FreeForCopy /\ ChildTable(p)[page] # Invalid
         /\ \A page \in Page \ N : ChildTable(p)[page] = NoTable[page]
    BY <1>1, <1>9, EmptyTables, FilledType
  <1>11. N \in SUBSET Int /\ IsFiniteSet(N) /\ N \in SUBSET Page
    BY <1>4, <1>5, <1>9, FS_Subset
  <1> QED
    BY <1>2, <1>4, <1>8, <1>10, <1>11, EmptyTables

(* The table of a program.                                                 *)
LEMMA ProgramFills ==
  ASSUME NEW prog \in Programs, Loadable(prog), NEW free \in SUBSET Frame,
         NEW rank, rank = Up(ProgramPages(prog)), NEW N, N = Served(free, rank),
         NEW pt2, pt2 = Mapped(NoTable, free, rank)
  PROVE  /\ Looped(NoTable, pt2, free, rank, N, ProgramPages(prog))
         /\ pt2 \in [Page -> Entry]
         /\ DataEnd(prog) \in 0 .. PtLen /\ StackBasePage(prog) \in 0 .. PtLen
         /\ Fits(free, rank) =>
              LaidOut(pt2, DataEnd(prog), DataEnd(prog), StackBasePage(prog))
         /\ \A page \in Page : pt2[page] # Invalid <=> page \in N
         /\ \A page \in N : pt2[page] \in free
  <1>1. PICK text, tn, data, dn, sn :
          /\ text = prog.text_pg1 /\ tn = prog.t_npg /\ data = prog.data_pg1
          /\ dn = prog.data_npg /\ sn = prog.stack_npg
    OBVIOUS
  <1>2. /\ text \in Int /\ tn \in Nat /\ data \in Int /\ dn \in Nat
        /\ sn \in Nat /\ sn # 0 /\ text + tn <= data /\ PtLen \in Nat
    BY <1>1, MemoryAssumption, FrameFacts
  <1>3. /\ 0 <= text /\ text <= data /\ text + tn <= PtLen
        /\ data + dn <= PtLen - sn - 1
        /\ DataEnd(prog) = data + dn /\ StackBasePage(prog) = PtLen - sn
    BY <1>1, <1>2 DEF Loadable, DataEnd, StackBasePage
  <1>4. PICK G : G = ProgramPages(prog)
    OBVIOUS
  <1>5. G = (text .. text + tn - 1) \cup (data .. data + dn - 1) \cup (PtLen - sn .. PtLen - 1)
    <2>1. prog.text_pg1 .. prog.text_pg1 + prog.t_npg - 1 = text .. text + tn - 1
      BY <1>1
    <2>2. prog.data_pg1 .. DataEnd(prog) - 1 = data .. data + dn - 1
      <3>1. DataEnd(prog) - 1 = data + dn - 1
        BY <1>2, <1>3
      <3> QED
        BY <1>1, <3>1, Zenon
    <2>3. StackBasePage(prog) .. PtLen - 1 = PtLen - sn .. PtLen - 1
      BY <1>3
    <2> QED
      BY <1>4, <2>1, <2>2, <2>3, Zenon DEF ProgramPages
  <1>6. \A page \in G : page \in Int /\ 0 <= page /\ page <= PtLen - 1
    BY <1>2, <1>3, <1>5
  <1>7. G \in SUBSET Page
    BY <1>2, <1>6 DEF Page
  <1>8. G \in SUBSET Int /\ IsFiniteSet(G)
    BY <1>7, MemoryFacts, FS_Subset
  <1>9. Ranks(rank, G)
    BY <1>4, <1>8, UpRanks
  <1>10. G \subseteq DOMAIN NoTable
    BY <1>7, EmptyTables
  <1>11. Looped(NoTable, pt2, free, rank, N, G)
    BY <1>8, <1>9, <1>10, MappedFills
  <1>12. /\ N \subseteq G /\ Filled(NoTable, pt2, N, free)
         /\ Fits(free, rank) <=> N = G
    BY <1>11 DEF Looped
  <1>13. /\ pt2 \in [Page -> Entry]
         /\ \A page \in N : pt2[page] \in free /\ pt2[page] # Invalid
         /\ \A page \in Page \ N : pt2[page] = NoTable[page]
    BY <1>12, EmptyTables, FilledType
  <1>14. \A page \in Page : pt2[page] # Invalid <=> page \in N
    BY <1>13, EmptyTables
  <1>15. DataEnd(prog) \in 0 .. PtLen /\ StackBasePage(prog) \in 0 .. PtLen
    BY <1>2, <1>3
  <1>16. ASSUME Fits(free, rank)
         PROVE  LaidOut(pt2, DataEnd(prog), DataEnd(prog), StackBasePage(prog))
    <2>1. N = G
      BY <1>12, <1>16
    <2>2. \A page \in data + dn .. PtLen - sn - 1 : page \in Page /\ page \notin G
      BY <1>2, <1>3, <1>5 DEF Page
    <2>3. \A page \in PtLen - sn .. PtLen - 1 : page \in Page /\ page \in G
      BY <1>2, <1>3, <1>5 DEF Page
    <2>4. data + dn .. data + dn - 1 = {}
      BY <1>2
    <2>5. data + dn <= data + dn /\ data + dn < PtLen - sn /\ PtLen - sn < PtLen
      BY <1>2, <1>3
    <2>6. PICK de, sb : de = data + dn /\ sb = PtLen - sn
      OBVIOUS
    <2>7. /\ \A page \in de .. sb - 1 : pt2[page] = Invalid
          /\ \A page \in sb .. PtLen - 1 : pt2[page] # Invalid
          /\ \A page \in de .. de - 1 : pt2[page] # Invalid
      BY <1>14, <2>1, <2>2, <2>3, <2>4, <2>6
    <2>8. LaidOut(pt2, de, de, sb)
      BY <2>5, <2>6, <2>7 DEF LaidOut
    <2> QED
      BY <1>3, <2>6, <2>8
  <1> QED
    BY <1>4, <1>11, <1>13, <1>14, <1>15, <1>16

----------------------------------------------------------------------------
(* Fork, Wait, Exec and boot.                                              *)

(* A child's layout is its parent's, page for page.                        *)
LEMMA LaidOutAlike ==
  ASSUME NEW pt, NEW pt2, NEW hs \in Nat, NEW brk \in Nat, NEW low \in Nat,
         LaidOut(pt, hs, brk, low),
         \A page \in Page : pt2[page] = Invalid <=> pt[page] = Invalid
  PROVE  LaidOut(pt2, hs, brk, low)
  <1>1. hs <= brk /\ brk < low /\ low < PtLen /\ PtLen \in Nat
    BY FrameFacts DEF LaidOut
  <1>2. /\ \A page \in hs .. brk - 1 : page \in Page
        /\ \A page \in brk .. low - 1 : page \in Page
        /\ \A page \in low .. PtLen - 1 : page \in Page
    BY <1>1 DEF Page
  <1> QED
    BY <1>2 DEF LaidOut

LEMMA SysForkLayout ==
  ASSUME LayoutInv, NEW child \in Proc, SysFork(child)
  PROVE  LayoutInv'
  <1>1. TypeOK /\ status[current_process] = "LIVE" /\ LayoutSound
    BY DEF LayoutInv
  <1>2. PICK p, N, C : /\ p = current_process /\ N = Served(FreeForCopy, CopyRank(p))
                       /\ C = ChildTable(p)
    OBVIOUS
  <1>3. /\ ~halted /\ p # Idle /\ status[child] = "EMPTY" /\ Fits(FreeForCopy, CopyRank(p))
        /\ status' = [status EXCEPT ![child] = "LIVE"]
        /\ parent' = [parent EXCEPT ![child] = p]
        /\ kernel_stack_pfns' = [kernel_stack_pfns EXCEPT ![child] = ChildStack]
        /\ region1_pt' = [region1_pt EXCEPT ![child] = C]
        /\ frame_allocated' = AllocatedForChild(p)
        /\ pmem' = Copied(p)
        /\ kernel_region0_pt' = [kernel_region0_pt EXCEPT ![ScratchPage] = Invalid]
        /\ user_heap_start' = [user_heap_start EXCEPT ![child] = user_heap_start[p]]
        /\ user_brk' = [user_brk EXCEPT ![child] = user_brk[p]]
        /\ user_stack_low_page' =
             [user_stack_low_page EXCEPT ![child] = user_stack_low_page[p]]
        /\ UNCHANGED <<current_kernel_brk_page, current_process, halted>>
    BY <1>2 DEF SysFork, Calling
  <1>4. p \in Proc /\ p # child
    BY <1>1, <1>2, <1>3 DEF TypeOK
  <1>5. /\ Looped(NoTable, C, FreeForCopy, CopyRank(p), N, Valid(region1_pt[p]))
        /\ C \in [Page -> Entry] /\ N \in SUBSET Page
        /\ \A page \in Page : C[page] # Invalid <=> page \in N
        /\ \A page \in N : C[page] \in FreeForCopy
    BY <1>1, <1>2, <1>4, ChildTableFills
  <1>6. /\ N = Valid(region1_pt[p])
        /\ Taken(FreeForCopy, CopyRank(p)) \subseteq FreeForCopy
    BY <1>3, <1>5 DEF Looped
  <1>7. /\ Taken(Free, StackRank) \subseteq Free /\ Free \in SUBSET Frame
        /\ FreeForCopy \in SUBSET Free /\ ChildStack \in [1 .. StackPages -> Frame]
    BY <1>1, ChildStackFills DEF Looped
  <1>8. frame_allocated' \subseteq Frame
    BY <1>1, <1>3, <1>6, <1>7 DEF AllocatedForChild, TypeOK
  <1>9. pmem' \in [Frame -> Value \cup {Image, Junk}]
    <2>0. \A f \in Frame : pmem[f] \in Value \cup {Image, Junk}
      BY <1>1 DEF TypeOK
    <2>1. ASSUME NEW f \in Frame, \E page \in Page : C[page] = f
          PROVE  pmem[region1_pt[p][CHOOSE page \in Page : C[page] = f]]
                   \in Value \cup {Image, Junk}
      <3>1. PICK i : i = CHOOSE page \in Page : C[page] = f
        OBVIOUS
      <3>2. i \in Page /\ C[i] = f
        BY <2>1, <3>1
      <3>3. i \in Valid(region1_pt[p])
        BY <1>5, <1>6, <3>2, FrameFacts
      <3>4. region1_pt[p][i] \in Frame
        BY <1>1, <1>4, <3>2, <3>3 DEF TypeOK, Valid
      <3> QED
        BY <2>0, <3>1, <3>4
    <2>2. pmem' = [f \in Frame |->
                     IF \E page \in Page : C[page] = f
                     THEN pmem[region1_pt[p][CHOOSE page \in Page : C[page] = f]]
                     ELSE pmem[f]]
      BY <1>2, <1>3 DEF Copied
    <2> QED
      BY <2>0, <2>1, <2>2
  <1>10. kernel_region0_pt' \in [KernelPage -> Entry]
    BY <1>1, <1>3, MemoryFacts DEF TypeOK, Entry
  <1>11. /\ status' \in [Proc -> Status] /\ parent' \in [Proc -> Proc \cup {NULL}]
         /\ kernel_stack_pfns' \in [Proc -> [1 .. StackPages -> Frame]]
         /\ region1_pt' \in [Proc -> [Page -> Entry]]
    <2>1. /\ status \in [Proc -> Status] /\ parent \in [Proc -> Proc \cup {NULL}]
          /\ kernel_stack_pfns \in [Proc -> [1 .. StackPages -> Frame]]
          /\ region1_pt \in [Proc -> [Page -> Entry]]
      BY <1>1 DEF TypeOK, Entry
    <2>2. status' \in [Proc -> Status]
      BY <1>3, <2>1 DEF Status
    <2>3. parent' \in [Proc -> Proc \cup {NULL}]
      BY <1>3, <1>4, <2>1
    <2>4. kernel_stack_pfns' \in [Proc -> [1 .. StackPages -> Frame]]
      BY <1>3, <1>7, <2>1
    <2>5. region1_pt' \in [Proc -> [Page -> Entry]]
      BY <1>3, <1>5, <2>1
    <2> QED
      BY <2>2, <2>3, <2>4, <2>5
  <1>12. /\ user_heap_start' \in [Proc -> 0 .. PtLen] /\ user_brk' \in [Proc -> 0 .. PtLen]
         /\ user_stack_low_page' \in [Proc -> 0 .. PtLen]
    BY <1>1, <1>3, <1>4 DEF TypeOK
  <1>13. TypeOK'
    BY <1>1, <1>3, <1>8, <1>9, <1>10, <1>11, <1>12 DEF TypeOK, Entry
  <1>14. LaidOut(C, user_heap_start[p], user_brk[p], user_stack_low_page[p])
    <2>1. Laid(p)
      BY <1>1, <1>2, <1>3, <1>4, LayoutIs
    <2>2. region1_pt[p] \in [Page -> Entry]
      BY <1>1, <1>4 DEF TypeOK, Entry
    <2>3. \A page \in Page : C[page] = Invalid <=> region1_pt[p][page] = Invalid
      BY <1>5, <1>6, <2>2 DEF Valid
    <2>4. /\ user_heap_start[p] \in Nat /\ user_brk[p] \in Nat
          /\ user_stack_low_page[p] \in Nat
      <3>1. /\ user_heap_start[p] \in 0 .. PtLen /\ user_brk[p] \in 0 .. PtLen
            /\ user_stack_low_page[p] \in 0 .. PtLen
        BY <1>1, <1>4 DEF TypeOK
      <3> QED
        BY <3>1, FrameFacts
    <2> QED
      BY <2>1, <2>3, <2>4, LaidOutAlike DEF Laid
  <1>15. LayoutSound'
    <2>1. /\ region1_pt'[child] = C /\ user_heap_start'[child] = user_heap_start[p]
          /\ user_brk'[child] = user_brk[p]
          /\ user_stack_low_page'[child] = user_stack_low_page[p]
      BY <1>1, <1>3 DEF TypeOK
    <2>2. \A q \in Proc \ {child} :
            /\ status'[q] = status[q]
            /\ region1_pt'[q] = region1_pt[q]
            /\ user_heap_start'[q] = user_heap_start[q]
            /\ user_brk'[q] = user_brk[q]
            /\ user_stack_low_page'[q] = user_stack_low_page[q]
      BY <1>1, <1>3 DEF TypeOK
    <2>3. halted \in BOOLEAN
      BY <1>1 DEF TypeOK
    <2>4. LaidOut(region1_pt'[child], user_heap_start'[child], user_brk'[child],
                  user_stack_low_page'[child])
      BY <1>14, <2>1
    <2> QED
      BY <1>1, <1>3, <2>2, <2>3, <2>4, LayoutStep
  <1>16. status'[current_process'] = "LIVE"
    BY <1>1, <1>2, <1>3, <1>4 DEF TypeOK
  <1> QED
    BY <1>13, <1>15, <1>16 DEF LayoutInv

LEMMA SysForkFailsLayout ==
  ASSUME LayoutInv, SysForkFails
  PROVE  LayoutInv'
  <1>1. TypeOK /\ status[current_process] = "LIVE" /\ LayoutSound
    BY DEF LayoutInv
  <1>2. PICK p, N, C : /\ p = current_process /\ N = Served(FreeForCopy, CopyRank(p))
                       /\ C = ChildTable(p)
    OBVIOUS
  <1>3. p \in Proc /\ kernel_region0_pt \in [KernelPage -> Entry]
    BY <1>1, <1>2 DEF TypeOK, Entry
  <1>4. /\ C \in [Page -> Entry] /\ N \in SUBSET Page /\ N \in SUBSET Int /\ IsFiniteSet(N)
        /\ Taken(FreeForCopy, CopyRank(p)) \subseteq FreeForCopy
    BY <1>1, <1>2, <1>3, ChildTableFills DEF Looped
  <1>5. /\ Taken(Free, StackRank) \subseteq Free /\ Free \in SUBSET Frame
        /\ FreeForCopy \in SUBSET Free
    BY <1>1, ChildStackFills DEF Looped
  <1>6. frame_allocated' \subseteq Frame
    <2>1. /\ frame_allocated \cup Taken(Free, StackRank) \subseteq Frame
          /\ AllocatedForChild(p) \subseteq Frame
      BY <1>1, <1>4, <1>5 DEF AllocatedForChild, TypeOK
    <2>2. \/ frame_allocated' \subseteq frame_allocated \cup Taken(Free, StackRank)
          \/ frame_allocated' \subseteq AllocatedForChild(p)
      BY <1>2 DEF SysForkFails, NoForkFrames
    <2> QED
      BY <2>1, <2>2
  <1>7. kernel_region0_pt' \in [KernelPage -> Entry]
    <2>1. \/ UNCHANGED kernel_region0_pt
          \/ N # {} /\ kernel_region0_pt' = [kernel_region0_pt EXCEPT ![ScratchPage] = C[Max(N)]]
          \/ kernel_region0_pt' = [kernel_region0_pt EXCEPT ![ScratchPage] = Invalid]
      BY <1>2 DEF SysForkFails
    <2>2. CASE UNCHANGED kernel_region0_pt
      BY <1>3, <2>2
    <2>3. CASE N # {} /\ kernel_region0_pt' = [kernel_region0_pt EXCEPT ![ScratchPage] = C[Max(N)]]
      <3>1. Max(N) \in N
        BY <1>4, <2>3, MaxIs
      <3>2. C[Max(N)] \in Entry
        BY <1>4, <3>1
      <3> QED
        BY <1>3, <2>3, <3>2
    <2>4. CASE kernel_region0_pt' = [kernel_region0_pt EXCEPT ![ScratchPage] = Invalid]
      BY <1>3, <2>4 DEF Entry
    <2> QED
      BY <2>1, <2>2, <2>3, <2>4
  <1>8. /\ pmem' = Kept(pmem)
        /\ UNCHANGED <<current_kernel_brk_page, current_process, pcbVars, layoutVars,
                       halted>>
    BY DEF SysForkFails
  <1>9. pmem' \in [Frame -> Value \cup {Image, Junk}]
    BY <1>1, <1>8, KeptType DEF TypeOK
  <1>10. TypeOK'
    BY <1>1, <1>6, <1>7, <1>8, <1>9 DEF TypeOK, Entry, pcbVars, layoutVars
  <1>11. LayoutSound'
    BY <1>1, <1>8, LayoutSame DEF pcbVars, TypeOK
  <1> QED
    BY <1>1, <1>8, <1>10, <1>11 DEF LayoutInv, pcbVars

LEMMA SysWaitLayout ==
  ASSUME LayoutInv, NEW child \in Proc, SysWait(child)
  PROVE  LayoutInv'
  <1>1. TypeOK /\ status[current_process] = "LIVE" /\ LayoutSound
    BY DEF LayoutInv
  <1>2. /\ status[child] = "ZOMBIE"
        /\ status' = [status EXCEPT ![child] = "EMPTY"]
        /\ parent' = [parent EXCEPT ![child] = NULL]
        /\ frame_allocated' = (frame_allocated \ Held(region1_pt[child], Page))
                                \ FreedStack(kernel_stack_pfns[child])
        /\ region1_pt' = [region1_pt EXCEPT ![child] = NoTable]
        /\ kernel_stack_pfns' = [kernel_stack_pfns EXCEPT ![child] = NoStack]
        /\ user_heap_start' = [user_heap_start EXCEPT ![child] = 0]
        /\ user_brk' = [user_brk EXCEPT ![child] = 0]
        /\ user_stack_low_page' = [user_stack_low_page EXCEPT ![child] = 0]
        /\ pmem' = Kept(pmem)
        /\ UNCHANGED <<kernel_region0_pt, current_kernel_brk_page, current_process, halted>>
    BY DEF SysWait
  <1>3. pmem' \in [Frame -> Value \cup {Image, Junk}]
    BY <1>1, <1>2, KeptType DEF TypeOK
  <1>4. 0 \in 0 .. PtLen
    BY FrameFacts
  <1>5. /\ user_heap_start' \in [Proc -> 0 .. PtLen] /\ user_brk' \in [Proc -> 0 .. PtLen]
        /\ user_stack_low_page' \in [Proc -> 0 .. PtLen]
    BY <1>1, <1>2, <1>4 DEF TypeOK
  <1>6. /\ status' \in [Proc -> Status] /\ parent' \in [Proc -> Proc \cup {NULL}]
        /\ kernel_stack_pfns' \in [Proc -> [1 .. StackPages -> Frame]]
        /\ region1_pt' \in [Proc -> [Page -> Entry]]
    BY <1>1, <1>2, EmptyTables DEF TypeOK, Status, Entry
  <1>7. TypeOK'
    BY <1>1, <1>2, <1>3, <1>5, <1>6 DEF TypeOK, Entry
  <1>8. LayoutSound'
    <2>1. \A q \in Proc \ {child} :
            /\ status'[q] = status[q]
            /\ region1_pt'[q] = region1_pt[q]
            /\ user_heap_start'[q] = user_heap_start[q]
            /\ user_brk'[q] = user_brk[q]
            /\ user_stack_low_page'[q] = user_stack_low_page[q]
      BY <1>1, <1>2 DEF TypeOK
    <2>2. halted \in BOOLEAN /\ status'[child] = "EMPTY"
      BY <1>1, <1>2 DEF TypeOK
    <2> QED
      BY <1>1, <1>2, <2>1, <2>2, LayoutStep
  <1>9. status'[current_process'] = "LIVE"
    BY <1>1, <1>2 DEF TypeOK
  <1> QED
    BY <1>7, <1>8, <1>9 DEF LayoutInv

(* What LoadProgram leaves for p.                                          *)
LEMMA LoadGives ==
  ASSUME TypeOK, NEW p \in Proc, NEW prog \in Programs, NEW allocated \in SUBSET Frame,
         LoadProgram(p, prog, allocated)
  PROVE  /\ frame_allocated' \subseteq Frame
         /\ region1_pt' \in [Proc -> [Page -> Entry]]
         /\ pmem' \in [Frame -> Value \cup {Image, Junk}]
         /\ user_heap_start' \in [Proc -> 0 .. PtLen] /\ user_brk' \in [Proc -> 0 .. PtLen]
         /\ user_stack_low_page' \in [Proc -> 0 .. PtLen]
         /\ LaidOut(region1_pt'[p], user_heap_start'[p], user_brk'[p],
                    user_stack_low_page'[p])
         /\ \A q \in Proc \ {p} :
              /\ region1_pt'[q] = region1_pt[q]
              /\ user_heap_start'[q] = user_heap_start[q]
              /\ user_brk'[q] = user_brk[q]
              /\ user_stack_low_page'[q] = user_stack_low_page[q]
  <1>1. PICK emptied, rank, free, pt2, N :
          /\ emptied = allocated \ Held(region1_pt[p], Page)
          /\ rank = Up(ProgramPages(prog)) /\ free = Frame \ emptied
          /\ pt2 = Mapped(NoTable, free, rank) /\ N = Served(free, rank)
    OBVIOUS
  <1>2. /\ Loadable(prog) /\ Fits(free, rank)
        /\ region1_pt' = [region1_pt EXCEPT ![p] = pt2]
        /\ frame_allocated' = emptied \cup Taken(free, rank)
        /\ pmem' = Kept([f \in Frame |-> IF f \in Taken(free, rank) THEN Image ELSE pmem[f]])
        /\ user_heap_start' = [user_heap_start EXCEPT ![p] = DataEnd(prog)]
        /\ user_brk' = [user_brk EXCEPT ![p] = DataEnd(prog)]
        /\ user_stack_low_page' = [user_stack_low_page EXCEPT ![p] = StackBasePage(prog)]
    BY <1>1 DEF LoadProgram
  <1>3. emptied \in SUBSET Frame /\ free \in SUBSET Frame
    BY <1>1
  <1>4. /\ Looped(NoTable, pt2, free, rank, N, ProgramPages(prog))
        /\ pt2 \in [Page -> Entry]
        /\ DataEnd(prog) \in 0 .. PtLen /\ StackBasePage(prog) \in 0 .. PtLen
        /\ LaidOut(pt2, DataEnd(prog), DataEnd(prog), StackBasePage(prog))
    BY <1>1, <1>2, <1>3, ProgramFills
  <1>5. frame_allocated' \subseteq Frame
    BY <1>2, <1>3, <1>4 DEF Looped
  <1>6. pmem' \in [Frame -> Value \cup {Image, Junk}]
    <2>1. PICK c : c = [f \in Frame |-> IF f \in Taken(free, rank) THEN Image ELSE pmem[f]]
      OBVIOUS
    <2>2. \A f \in Frame : c[f] \in Value \cup {Image, Junk}
      BY <2>1 DEF TypeOK
    <2> QED
      BY <1>2, <2>1, <2>2, KeptType
  <1>7. /\ region1_pt \in [Proc -> [Page -> Entry]]
        /\ user_heap_start \in [Proc -> 0 .. PtLen] /\ user_brk \in [Proc -> 0 .. PtLen]
        /\ user_stack_low_page \in [Proc -> 0 .. PtLen]
    BY DEF TypeOK, Entry
  <1>8. /\ region1_pt' \in [Proc -> [Page -> Entry]] /\ region1_pt'[p] = pt2
        /\ \A q \in Proc \ {p} : region1_pt'[q] = region1_pt[q]
    BY <1>2, <1>4, <1>7
  <1>9. /\ user_heap_start' \in [Proc -> 0 .. PtLen] /\ user_heap_start'[p] = DataEnd(prog)
        /\ user_brk' \in [Proc -> 0 .. PtLen] /\ user_brk'[p] = DataEnd(prog)
        /\ user_stack_low_page' \in [Proc -> 0 .. PtLen]
        /\ user_stack_low_page'[p] = StackBasePage(prog)
        /\ \A q \in Proc \ {p} :
             /\ user_heap_start'[q] = user_heap_start[q]
             /\ user_brk'[q] = user_brk[q]
             /\ user_stack_low_page'[q] = user_stack_low_page[q]
    BY <1>2, <1>4, <1>7
  <1>10. LaidOut(region1_pt'[p], user_heap_start'[p], user_brk'[p], user_stack_low_page'[p])
    BY <1>4, <1>8, <1>9
  <1> QED
    BY <1>5, <1>6, <1>8, <1>9, <1>10

LEMMA SysExecLayout ==
  ASSUME LayoutInv, NEW prog \in Programs, SysExec(prog)
  PROVE  LayoutInv'
  <1>1. TypeOK /\ status[current_process] = "LIVE" /\ LayoutSound
    BY DEF LayoutInv
  <1>2. PICK p : p = current_process
    OBVIOUS
  <1>3. /\ LoadProgram(p, prog, frame_allocated)
        /\ UNCHANGED <<kernel_region0_pt, current_kernel_brk_page, current_process,
                       status, parent, kernel_stack_pfns, halted>>
    BY <1>2 DEF SysExec
  <1>4. p \in Proc /\ frame_allocated \in SUBSET Frame /\ halted \in BOOLEAN
    BY <1>1, <1>2 DEF TypeOK
  <1>5. /\ frame_allocated' \subseteq Frame
        /\ region1_pt' \in [Proc -> [Page -> Entry]]
        /\ pmem' \in [Frame -> Value \cup {Image, Junk}]
        /\ user_heap_start' \in [Proc -> 0 .. PtLen] /\ user_brk' \in [Proc -> 0 .. PtLen]
        /\ user_stack_low_page' \in [Proc -> 0 .. PtLen]
        /\ LaidOut(region1_pt'[p], user_heap_start'[p], user_brk'[p], user_stack_low_page'[p])
        /\ \A q \in Proc \ {p} :
             /\ region1_pt'[q] = region1_pt[q]
             /\ user_heap_start'[q] = user_heap_start[q]
             /\ user_brk'[q] = user_brk[q]
             /\ user_stack_low_page'[q] = user_stack_low_page[q]
    BY <1>1, <1>3, <1>4, LoadGives
  <1>6. TypeOK'
    BY <1>1, <1>3, <1>5 DEF TypeOK, Entry
  <1>7. LayoutSound'
    BY <1>1, <1>3, <1>4, <1>5, LayoutStep
  <1> QED
    BY <1>1, <1>3, <1>6, <1>7 DEF LayoutInv

LEMMA SysExecKillsLayout ==
  ASSUME LayoutInv, NEW prog \in Programs, NEW next \in Proc, SysExecKills(prog, next)
  PROVE  LayoutInv'
  <1>1. TypeOK /\ status[current_process] = "LIVE" /\ LayoutSound
    BY DEF LayoutInv
  <1>2. PICK p, emptied, rank, free, pt2, N :
          /\ p = current_process /\ emptied = frame_allocated \ Held(region1_pt[p], Page)
          /\ rank = Up(ProgramPages(prog)) /\ free = Frame \ emptied
          /\ pt2 = Mapped(NoTable, free, rank) /\ N = Served(free, rank)
    OBVIOUS
  <1>3. /\ Loadable(prog)
        /\ region1_pt' = [region1_pt EXCEPT ![p] = pt2]
        /\ frame_allocated' = emptied \cup Taken(free, rank)
        /\ pmem' = [f \in Frame |-> IF f \in emptied THEN pmem[f] ELSE Junk]
        /\ ProcessExitCurrent(next)
        /\ UNCHANGED <<current_kernel_brk_page, kernel_stack_pfns, layoutVars>>
    BY <1>2 DEF SysExecKills
  <1>4. /\ p \in Proc /\ halted \in BOOLEAN /\ emptied \in SUBSET Frame /\ free \in SUBSET Frame
        /\ region1_pt \in [Proc -> [Page -> Entry]]
    BY <1>1, <1>2 DEF TypeOK, Entry
  <1>5. /\ Looped(NoTable, pt2, free, rank, N, ProgramPages(prog)) /\ pt2 \in [Page -> Entry]
    BY <1>2, <1>3, <1>4, ProgramFills
  <1>6. frame_allocated' \subseteq Frame
    BY <1>3, <1>4, <1>5 DEF Looped
  <1>7. pmem' \in [Frame -> Value \cup {Image, Junk}]
    BY <1>1, <1>3 DEF TypeOK
  <1>8. /\ region1_pt' \in [Proc -> [Page -> Entry]]
        /\ \A q \in Proc \ {p} : region1_pt'[q] = region1_pt[q]
    BY <1>3, <1>4, <1>5
  <1>9. /\ halted' \in BOOLEAN /\ status' \in [Proc -> Status]
        /\ parent' \in [Proc -> Proc \cup {NULL}]
        /\ current_process' \in Proc /\ status'[current_process'] = "LIVE"
        /\ kernel_region0_pt' \in [KernelPage -> Entry]
        /\ \A q \in Proc : status'[q] = "LIVE" => status[q] = "LIVE"
        /\ halted' = FALSE => halted = FALSE /\ status'[p] = "ZOMBIE"
    BY <1>1, <1>2, <1>3, ExitGives
  <1>10. TypeOK'
    BY <1>1, <1>3, <1>6, <1>7, <1>8, <1>9 DEF TypeOK, Entry, layoutVars
  <1>11. LayoutSound'
    <2>1. UNCHANGED <<user_heap_start, user_brk, user_stack_low_page>>
      BY <1>3 DEF layoutVars
    <2> QED
      BY <1>1, <1>4, <1>8, <1>9, <2>1, LayoutStep
  <1> QED
    BY <1>9, <1>10, <1>11 DEF LayoutInv

LEMMA StartInitLayout ==
  ASSUME LayoutInv, NEW prog \in Programs, StartInit(prog)
  PROVE  LayoutInv'
  <1>1. TypeOK /\ status[current_process] = "LIVE" /\ LayoutSound
    BY DEF LayoutInv
  <1>2. PICK p, allocated : p = InitProc /\ allocated = frame_allocated \cup Taken(Free, StackRank)
    OBVIOUS
  <1>3. /\ status[p] = "EMPTY"
        /\ LoadProgram(p, prog, allocated)
        /\ status' = [status EXCEPT ![p] = "LIVE"]
        /\ kernel_stack_pfns' = [kernel_stack_pfns EXCEPT ![p] = ChildStack]
        /\ kernel_region0_pt' =
             [page \in KernelPage |->
                IF page \in StackPage THEN ChildStack[page - StackBase + 1]
                ELSE IF page = ScratchPage THEN Invalid ELSE kernel_region0_pt[page]]
        /\ current_process' = p
        /\ UNCHANGED <<current_kernel_brk_page, parent, halted>>
    BY <1>2 DEF StartInit
  <1>4. /\ Taken(Free, StackRank) \subseteq Free /\ Free \in SUBSET Frame
        /\ ChildStack \in [1 .. StackPages -> Frame]
    BY <1>1, ChildStackFills DEF Looped
  <1>5. p \in Proc /\ allocated \in SUBSET Frame /\ halted \in BOOLEAN
    BY <1>1, <1>2, <1>4, MemoryFacts DEF TypeOK
  <1>6. /\ frame_allocated' \subseteq Frame
        /\ region1_pt' \in [Proc -> [Page -> Entry]]
        /\ pmem' \in [Frame -> Value \cup {Image, Junk}]
        /\ user_heap_start' \in [Proc -> 0 .. PtLen] /\ user_brk' \in [Proc -> 0 .. PtLen]
        /\ user_stack_low_page' \in [Proc -> 0 .. PtLen]
        /\ LaidOut(region1_pt'[p], user_heap_start'[p], user_brk'[p], user_stack_low_page'[p])
        /\ \A q \in Proc \ {p} :
             /\ region1_pt'[q] = region1_pt[q]
             /\ user_heap_start'[q] = user_heap_start[q]
             /\ user_brk'[q] = user_brk[q]
             /\ user_stack_low_page'[q] = user_stack_low_page[q]
    BY <1>1, <1>3, <1>5, LoadGives
  <1>7. kernel_region0_pt' \in [KernelPage -> Entry]
    <2>1. \A page \in StackPage : page - StackBase + 1 \in 1 .. StackPages
      BY FrameFacts DEF StackPage
    <2>2. \A page \in StackPage : ChildStack[page - StackBase + 1] \in Frame
      BY <1>4, <2>1
    <2>3. \A page \in KernelPage : kernel_region0_pt[page] \in Entry
      BY <1>1 DEF TypeOK, Entry
    <2> QED
      BY <1>3, <2>2, <2>3 DEF Entry
  <1>8. /\ status' \in [Proc -> Status] /\ status'[p] = "LIVE"
        /\ \A q \in Proc \ {p} : status'[q] = status[q]
        /\ kernel_stack_pfns' \in [Proc -> [1 .. StackPages -> Frame]]
    BY <1>1, <1>3, <1>4, <1>5 DEF TypeOK, Status
  <1>9. TypeOK'
    BY <1>1, <1>3, <1>5, <1>6, <1>7, <1>8 DEF TypeOK, Entry
  <1>10. LayoutSound'
    BY <1>1, <1>3, <1>5, <1>6, <1>8, LayoutStep
  <1> QED
    BY <1>3, <1>8, <1>9, <1>10 DEF LayoutInv

----------------------------------------------------------------------------

(* What boot leaves for idle: the boot stack, and one frame that MemoryInit *)
(* has not reserved.                                                       *)
LEMMA BootGives ==
  ASSUME Init
  PROVE  \E start, built, on \in OrigBrk .. MaxKernelBrk, stack_pfn \in Frame :
           /\ start <= built /\ built <= on /\ on <= built + LateGrowth
           /\ Boot(start, built, on)
           /\ stack_pfn \notin MemoryInit(start, built)
           /\ MemoryInit(start, built) \subseteq Frame
           /\ frame_allocated = MemoryInit(start, built) \cup {stack_pfn}
           /\ region1_pt = [p \in Proc |->
                IF p = Idle THEN [NoTable EXCEPT ![PtLen - 1] = stack_pfn] ELSE NoTable]
  <1>1. PICK start, built, on \in OrigBrk .. MaxKernelBrk :
          start <= built /\ built <= on /\ on <= built + LateGrowth /\ Boot(start, built, on)
    BY DEF Init
  <1>2. PICK R, free, f : R = MemoryInit(start, built) /\ free = Frame \ R /\ f = FrameAlloc(free, 1)
    OBVIOUS
  <1>3. free # {} /\ free \in SUBSET Frame
    BY <1>1, <1>2 DEF Boot
  <1>4. IsFiniteSet(free) /\ free \in SUBSET Int /\ Cardinality(free) \in Nat
    BY <1>3, FreeFinite
  <1>5. Cardinality(free) # 0
    BY <1>3, <1>4, FS_EmptySet
  <1>6. 1 \in 1 .. Cardinality(free)
    BY <1>4, <1>5
  <1>7. f \in free
    BY <1>2, <1>4, <1>6, NthIs DEF FrameAlloc
  <1>8. /\ frame_allocated = R \cup {f}
        /\ region1_pt = [p \in Proc |->
                IF p = Idle THEN [NoTable EXCEPT ![PtLen - 1] = f] ELSE NoTable]
    BY <1>1, <1>2 DEF Boot
  <1>9. start \in Nat /\ built \in Nat /\ start <= StackBase /\ built <= StackBase
    BY <1>1, MemoryFacts, FrameFacts
  <1>10. R \subseteq Frame
    BY <1>2, <1>9, FrameFacts DEF MemoryInit, Frame, StackPage
  <1>11. /\ start <= built /\ built <= on /\ on <= built + LateGrowth
         /\ Boot(start, built, on)
         /\ f \in Frame /\ f \notin MemoryInit(start, built)
         /\ MemoryInit(start, built) \subseteq Frame
         /\ frame_allocated = MemoryInit(start, built) \cup {f}
    BY <1>1, <1>2, <1>3, <1>7, <1>8, <1>10
  <1> QED
    BY <1>8, <1>11

LEMMA InitLayout ==
  ASSUME Init
  PROVE  LayoutInv
  <1>1. PICK start, built, on \in OrigBrk .. MaxKernelBrk, stack_pfn \in Frame :
          /\ Boot(start, built, on)
          /\ MemoryInit(start, built) \subseteq Frame
          /\ frame_allocated = MemoryInit(start, built) \cup {stack_pfn}
          /\ region1_pt = [p \in Proc |->
               IF p = Idle THEN [NoTable EXCEPT ![PtLen - 1] = stack_pfn] ELSE NoTable]
    BY BootGives
  <1>2. frame_allocated \subseteq Frame
    BY <1>1
  <1>3. kernel_region0_pt \in [KernelPage -> Entry]
    <2>1. kernel_region0_pt = MemoryBuildKernelRegion0(built)
      BY <1>1 DEF Boot
    <2>2. KernelPage \subseteq Frame
      BY FrameFacts DEF KernelPage, Frame
    <2> QED
      BY <2>1, <2>2 DEF MemoryBuildKernelRegion0, Entry
  <1>4. current_kernel_brk_page \in OrigBrk .. StackBase
    BY <1>1, MemoryFacts, FrameFacts DEF Boot
  <1>5. region1_pt \in [Proc -> [Page -> Entry]]
    <2>1. [NoTable EXCEPT ![PtLen - 1] = stack_pfn] \in [Page -> Entry]
      BY EmptyTables DEF Entry
    <2> QED
      BY <1>1, <2>1, EmptyTables
  <1>6. kernel_stack_pfns \in [Proc -> [1 .. StackPages -> Frame]]
    <2>1. \A i \in 1 .. StackPages : StackBase + i - 1 \in Frame
      BY FrameFacts DEF Frame
    <2>2. [i \in 1 .. StackPages |-> StackBase + i - 1] \in [1 .. StackPages -> Frame]
      BY <2>1
    <2>3. kernel_stack_pfns = [p \in Proc |->
            IF p = Idle THEN [i \in 1 .. StackPages |-> StackBase + i - 1] ELSE NoStack]
      BY <1>1 DEF Boot
    <2> QED
      BY <2>2, <2>3, EmptyTables
  <1>7. 0 \in 0 .. PtLen
    BY FrameFacts
  <1>8. /\ user_heap_start \in [Proc -> 0 .. PtLen] /\ user_brk \in [Proc -> 0 .. PtLen]
        /\ user_stack_low_page \in [Proc -> 0 .. PtLen]
    BY <1>1, <1>7 DEF Boot
  <1>9. /\ pmem \in [Frame -> Value \cup {Image, Junk}] /\ current_process \in Proc
        /\ status \in [Proc -> Status] /\ parent \in [Proc -> Proc \cup {NULL}]
        /\ halted \in BOOLEAN /\ status[current_process] = "LIVE"
        /\ \A p \in Proc \ {Idle} : status[p] = "EMPTY"
    BY <1>1, MemoryFacts DEF Boot, Status
  <1>10. TypeOK
    BY <1>2, <1>3, <1>4, <1>5, <1>6, <1>8, <1>9 DEF TypeOK, Entry
  <1>11. LayoutSound
    BY <1>9 DEF LayoutSound
  <1> QED
    BY <1>9, <1>10, <1>11 DEF LayoutInv

LEMMA NextLayout ==
  ASSUME LayoutInv, [Next]_vars
  PROVE  LayoutInv'
  <1>1. CASE UNCHANGED vars
    BY <1>1 DEF vars, kernelVars, pcbVars, layoutVars, LayoutInv, TypeOK, LayoutSound
  <1>2. CASE MemoryAllocPageTableFails
    BY <1>2, HaltsLayout DEF MemoryAllocPageTableFails
  <1>3. CASE StartInitFails
    BY <1>3, HaltsLayout DEF StartInitFails
  <1>4. CASE \E requested \in 0 .. MaxKernelBrk : SetKernelBrk(requested)
    BY <1>4, SetKernelBrkLayout
  <1>5. CASE \E page \in Page, v \in Value : Store(page, v)
    BY <1>5, StoreLayout
  <1>6. CASE \E new \in 0 .. PtLen : SysBrk(new)
    BY <1>6, SysBrkLayout
  <1>7. CASE \E next \in Proc : Exit(next)
    BY <1>7, ExitLayout
  <1>8. CASE \E page \in Page, next \in Proc : TrapMemory(page, next)
    BY <1>8, TrapMemoryLayout
  <1>9. CASE \E child \in Proc : SysFork(child)
    BY <1>9, SysForkLayout
  <1>10. CASE SysForkFails
    BY <1>10, SysForkFailsLayout
  <1>11. CASE \E child \in Proc : SysWait(child)
    BY <1>11, SysWaitLayout
  <1>12. CASE \E prog \in Programs : SysExec(prog)
    BY <1>12, SysExecLayout
  <1>13. CASE \E prog \in Programs, next \in Proc : SysExecKills(prog, next)
    BY <1>13, SysExecKillsLayout
  <1>14. CASE \E prog \in Programs : StartInit(prog)
    BY <1>14, StartInitLayout
  <1>15. CASE \E next \in Proc : Switch(next)
    BY <1>15, SwitchLayout
  <1>16. CASE Stopped
    BY <1>1, <1>16 DEF Stopped
  <1> QED
    BY <1>1, <1>2, <1>3, <1>4, <1>5, <1>6, <1>7, <1>8, <1>9, <1>10, <1>11,
       <1>12, <1>13, <1>14, <1>15, <1>16 DEF Next

LEMMA LayoutInvariant == Spec => []LayoutInv
  BY InitLayout, NextLayout, PTL DEF Spec

(* The frame map, the page tables and the PCBs keep their types through    *)
(* every path, also those that fail half way: no table entry is ever a     *)
(* frame that does not exist, and the kernel break stays between the image *)
(* and the stack.                                                          *)
THEOREM TypeCorrect == Spec => []TypeOK
  <1>1. LayoutInv => TypeOK
    BY DEF LayoutInv
  <1> QED
    BY <1>1, LayoutInvariant, PTL

(* For every program that can run, the PCB's break and stack page agree    *)
(* with its page table: SysBrk and ProcessGrowStack, which map pages       *)
(* without looking at them, never overwrite an entry that is in use.       *)
THEOREM LayoutCorrect == Spec => []LayoutSound
  <1>1. LayoutInv => LayoutSound
    BY DEF LayoutInv
  <1> QED
    BY <1>1, LayoutInvariant, PTL

----------------------------------------------------------------------------
(* Who holds which frames.                                                 *)

(* The owners of frames: the unused memory below the kernel, the kernel's  *)
(* image and heap, and for each process its page table and its kernel      *)
(* stack.                                                                  *)
Low == <<"low", NULL>>
Heap == <<"heap", NULL>>
Table(p) == <<"table", p>>
Stack(p) == <<"stack", p>>
Owner == {Low, Heap} \cup {Table(p) : p \in Proc} \cup {Stack(p) : p \in Proc}

HeapFrames == Held(kernel_region0_pt, HeapPage)

holds ==
  [o \in Owner |-> IF o = Low THEN 0 .. FirstText - 1
                   ELSE IF o = Heap THEN HeapFrames
                   ELSE IF o[1] = "table" THEN TableFrames(o[2])
                   ELSE StackFrames(o[2])]

(* A PCB that is not in use holds nothing.                                 *)
EmptyHolds ==
  \A p \in Proc : status[p] = "EMPTY" =>
    region1_pt[p] = NoTable /\ kernel_stack_pfns[p] = NoStack

(* SetKernelBrk never unmaps the kernel's image.                           *)
ImageMapped == \A page \in FirstText .. OrigBrk - 1 : kernel_region0_pt[page] = page

FreeJunk == \A f \in Frame : f \notin frame_allocated => pmem[f] = Junk

Unshared ==
  /\ \A p \in Proc : Single(region1_pt[p], Page, Invalid)
  /\ \A p \in Proc : Single(kernel_stack_pfns[p], 1 .. StackPages, 0)
  /\ Single(kernel_region0_pt, HeapPage, Invalid)

(* FramesExclusive and FramesAccounted together are inductive.  The image  *)
(* has to stay mapped, because frame 0 stands for none in a kernel stack   *)
(* and may not be handed out.                                              *)
FrameInv ==
  /\ LayoutInv
  /\ current_kernel_brk_page < StackBase
  /\ EmptyHolds
  /\ ImageMapped
  /\ Unshared
  /\ Divided(frame_allocated, holds, Owner)
  /\ FreeJunk

LEMMA OwnersAre ==
  /\ Low \in Owner /\ Heap \in Owner /\ Low # Heap
  /\ \A p \in Proc :
       /\ Table(p) \in Owner /\ Stack(p) \in Owner
       /\ Table(p) # Low /\ Table(p) # Heap /\ Stack(p) # Low /\ Stack(p) # Heap
       /\ \A q \in Proc : /\ Table(p) # Stack(q)
                          /\ Table(p) = Table(q) => p = q
                          /\ Stack(p) = Stack(q) => p = q
  /\ \A o \in Owner : o = Low \/ o = Heap \/ \E p \in Proc : o = Table(p) \/ o = Stack(p)
  BY DEF Owner, Low, Heap, Table, Stack

LEMMA HoldsAre ==
  /\ holds[Low] = 0 .. FirstText - 1 /\ holds[Heap] = HeapFrames
  /\ \A p \in Proc : holds[Table(p)] = TableFrames(p) /\ holds[Stack(p)] = StackFrames(p)
  <1>1. \A p \in Proc : /\ Table(p)[1] = "table" /\ Table(p)[2] = p
                        /\ Stack(p)[1] = "stack" /\ Stack(p)[2] = p
    BY DEF Table, Stack
  <1> QED
    BY <1>1, OwnersAre DEF holds

LEMMA HoldsAfter ==
  /\ holds'[Low] = 0 .. FirstText - 1 /\ holds'[Heap] = HeapFrames'
  /\ \A p \in Proc : holds'[Table(p)] = TableFrames(p)' /\ holds'[Stack(p)] = StackFrames(p)'
  <1>1. \A p \in Proc : /\ Table(p)[1] = "table" /\ Table(p)[2] = p
                        /\ Stack(p)[1] = "stack" /\ Stack(p)[2] = p
    BY DEF Table, Stack
  <1> QED
    BY <1>1, OwnersAre DEF holds

(* Every frame that somebody holds is allocated; frame 0 is.               *)
LEMMA HeldAllocated ==
  ASSUME FrameInv
  PROVE  /\ \A p \in Proc : /\ \A f \in TableFrames(p) : f \in frame_allocated
                            /\ \A f \in StackFrames(p) : f \in frame_allocated
         /\ \A f \in HeapFrames : f \in frame_allocated
         /\ \A f \in 0 .. FirstText - 1 : f \in frame_allocated
         /\ 0 \in frame_allocated
  <1>1. \A o \in Owner : \A f \in holds[o] : f \in frame_allocated
    BY DEF FrameInv, Divided
  <1>2. /\ \A p \in Proc : /\ \A f \in TableFrames(p) : f \in frame_allocated
                           /\ \A f \in StackFrames(p) : f \in frame_allocated
        /\ \A f \in HeapFrames : f \in frame_allocated
        /\ \A f \in 0 .. FirstText - 1 : f \in frame_allocated
    <2>1. /\ \A f \in holds[Low] : f \in frame_allocated
          /\ \A f \in holds[Heap] : f \in frame_allocated
      BY <1>1, OwnersAre
    <2>2. ASSUME NEW p \in Proc
          PROVE  /\ \A f \in holds[Table(p)] : f \in frame_allocated
                 /\ \A f \in holds[Stack(p)] : f \in frame_allocated
      BY <1>1, OwnersAre
    <2> QED
      BY <2>1, <2>2, HoldsAre
  <1>3. CASE FirstText # 0
    <2>1. 0 \in 0 .. FirstText - 1
      BY <1>3, FrameFacts
    <2> QED
      BY <1>2, <2>1
  <1>4. CASE FirstText = 0
    <2>1. current_kernel_brk_page \in Nat /\ OrigBrk <= current_kernel_brk_page
      BY FrameFacts DEF FrameInv, LayoutInv, TypeOK
    <2>2. 0 \in HeapPage /\ 0 \in FirstText .. OrigBrk - 1 /\ 0 \in KernelPage
      BY <1>4, <2>1, FrameFacts DEF HeapPage, KernelPage
    <2>3. kernel_region0_pt[0] = 0 /\ kernel_region0_pt \in [KernelPage -> Entry]
      BY <2>2 DEF FrameInv, ImageMapped, LayoutInv, TypeOK, Entry
    <2>4. kernel_region0_pt[0] # Invalid /\ DOMAIN kernel_region0_pt = KernelPage
      BY <2>3, FrameFacts
    <2>5. 0 \in HeapFrames
      BY <2>2, <2>3, <2>4 DEF HeapFrames, Held, Valid
    <2> QED
      BY <1>2, <2>5
  <1> QED
    BY <1>2, <1>3, <1>4

(* No page of the heap is the scratch page or a page of the stack.         *)
LEMMA HeapPages ==
  ASSUME TypeOK, current_kernel_brk_page < StackBase
  PROVE  /\ HeapPage \in SUBSET KernelPage /\ FirstText .. OrigBrk - 1 \subseteq HeapPage
         /\ \A page \in HeapPage : page # ScratchPage /\ page \notin StackPage
  <1>1. current_kernel_brk_page \in Nat /\ OrigBrk <= current_kernel_brk_page
    BY FrameFacts DEF TypeOK
  <1> QED
    BY <1>1, FrameFacts DEF HeapPage, KernelPage, ScratchPage, StackPage

(* A step that changes Region 0 at most at the scratch page and at the     *)
(* stack leaves the heap alone.                                            *)
KeepsHeap ==
  /\ UNCHANGED current_kernel_brk_page
  /\ \A page \in KernelPage : page # ScratchPage /\ page \notin StackPage =>
       kernel_region0_pt'[page] = kernel_region0_pt[page]

LEMMA HeapKept ==
  ASSUME FrameInv, TypeOK', KeepsHeap
  PROVE  /\ (current_kernel_brk_page < StackBase)' /\ ImageMapped'
         /\ HeapFrames' = HeapFrames
         /\ Single(kernel_region0_pt, HeapPage, Invalid)'
  <1>1. PICK W, pt, pt2 : W = HeapPage /\ pt = kernel_region0_pt /\ pt2 = kernel_region0_pt'
    OBVIOUS
  <1>2. HeapPage' = W /\ current_kernel_brk_page' < StackBase
    BY <1>1 DEF KeepsHeap, HeapPage, FrameInv
  <1>3. pt \in [KernelPage -> Entry] /\ pt2 \in [KernelPage -> Entry]
    BY <1>1 DEF FrameInv, LayoutInv, TypeOK, Entry
  <1>4. /\ W \in SUBSET KernelPage /\ FirstText .. OrigBrk - 1 \subseteq W
        /\ \A page \in W : pt2[page] = pt[page]
    BY <1>1, HeapPages DEF FrameInv, LayoutInv, KeepsHeap
  <1>5. Single(pt, W, Invalid)
    BY <1>1 DEF FrameInv, Unshared
  <1>6. Held(pt2, W) = Held(pt, W) /\ Single(pt2, W, Invalid)
    BY <1>3, <1>4, <1>5, SameHeld
  <1>7. ImageMapped'
    BY <1>1, <1>4 DEF FrameInv, ImageMapped
  <1>8. HeapFrames' = HeapFrames
    BY <1>1, <1>2, <1>6 DEF HeapFrames
  <1>9. Single(kernel_region0_pt, HeapPage, Invalid)'
    BY <1>1, <1>2, <1>6
  <1> QED
    BY <1>2, <1>7, <1>8, <1>9

(* A step on the memory of p.                                              *)
Others(p) ==
  \A q \in Proc \ {p} :
    /\ region1_pt'[q] = region1_pt[q]
    /\ kernel_stack_pfns'[q] = kernel_stack_pfns[q]
    /\ status'[q] = "EMPTY" => status[q] = "EMPTY"

LEMMA FrameStep ==
  ASSUME FrameInv, LayoutInv', KeepsHeap, NEW p \in Proc, Others(p),
         status'[p] = "EMPTY" => region1_pt'[p] = NoTable /\ kernel_stack_pfns'[p] = NoStack,
         Single(region1_pt'[p], Page, Invalid),
         Single(kernel_stack_pfns'[p], 1 .. StackPages, 0),
         NEW A, Exchanged(frame_allocated, A, StackFrames(p), StackFrames(p)'),
         Exchanged(A, frame_allocated', TableFrames(p), TableFrames(p)'),
         FreeJunk'
  PROVE  FrameInv'
  <1>1. /\ (current_kernel_brk_page < StackBase)' /\ ImageMapped'
        /\ HeapFrames' = HeapFrames
        /\ Single(kernel_region0_pt, HeapPage, Invalid)'
    BY HeapKept DEF LayoutInv
  <1>2. EmptyHolds'
    BY DEF EmptyHolds, Others, FrameInv
  <1>3. Unshared'
    BY <1>1 DEF Unshared, Others, FrameInv
  <1>4. \A q \in Proc \ {p} : TableFrames(q)' = TableFrames(q) /\ StackFrames(q)' = StackFrames(q)
    BY DEF TableFrames, StackFrames, Others
  <1>5. PICK H : H = [holds EXCEPT ![Stack(p)] = StackFrames(p)']
    OBVIOUS
  <1>6. /\ H[Stack(p)] = StackFrames(p)' /\ H[Table(p)] = TableFrames(p)
        /\ \A o \in Owner \ {Stack(p)} : H[o] = holds[o]
    BY <1>5, OwnersAre, HoldsAre DEF holds
  <1>7. Divided(frame_allocated, holds, Owner) /\ holds[Stack(p)] = StackFrames(p)
    BY HoldsAre DEF FrameInv
  <1>8. Divided(A, H, Owner)
    BY <1>6, <1>7, OwnersAre, ExchangeDivides
  <1>9. \A o \in Owner \ {Table(p)} : holds'[o] = H[o]
    <2> TAKE o \in Owner \ {Table(p)}
    <2>1. CASE o = Low
      BY <1>6, <2>1, OwnersAre, HoldsAre, HoldsAfter
    <2>2. CASE o = Heap
      BY <1>1, <1>6, <2>2, OwnersAre, HoldsAre, HoldsAfter
    <2>3. CASE o = Stack(p)
      BY <1>6, <2>3, HoldsAfter
    <2>4. ASSUME NEW q \in Proc \ {p}, o = Table(q) \/ o = Stack(q)
          PROVE  holds'[o] = H[o]
      BY <1>4, <1>6, <2>4, OwnersAre, HoldsAre, HoldsAfter
    <2> QED
      BY <2>1, <2>2, <2>3, <2>4, OwnersAre
  <1>10. holds'[Table(p)] = TableFrames(p)'
    BY HoldsAfter
  <1>11. PICK H2, A2 : H2 = holds' /\ A2 = frame_allocated'
    OBVIOUS
  <1>12. Divided(A2, H2, Owner)
    BY <1>6, <1>8, <1>9, <1>10, <1>11, OwnersAre, ExchangeDivides
  <1>13. Divided(frame_allocated, holds, Owner)'
    BY <1>11, <1>12
  <1> QED
    BY <1>1, <1>2, <1>3, <1>13 DEF FrameInv

(* A step that gives nobody another frame.                                 *)
LEMMA FrameSame ==
  ASSUME FrameInv, LayoutInv', KeepsHeap, UNCHANGED <<region1_pt, kernel_stack_pfns>>,
         \A q \in Proc : status'[q] = "EMPTY" => status[q] = "EMPTY",
         frame_allocated' = frame_allocated, FreeJunk'
  PROVE  FrameInv'
  <1>1. Others(Idle) /\ Idle \in Proc
    BY MemoryFacts DEF Others
  <1>2. TableFrames(Idle)' = TableFrames(Idle) /\ StackFrames(Idle)' = StackFrames(Idle)
    BY DEF TableFrames, StackFrames
  <1>3. /\ Exchanged(frame_allocated, frame_allocated, TableFrames(Idle), TableFrames(Idle))
        /\ Exchanged(frame_allocated, frame_allocated, StackFrames(Idle), StackFrames(Idle))
    BY HeldAllocated, FramesKept, <1>1
  <1>4. /\ Exchanged(frame_allocated, frame_allocated, StackFrames(Idle), StackFrames(Idle)')
        /\ Exchanged(frame_allocated, frame_allocated', TableFrames(Idle), TableFrames(Idle)')
    BY <1>2, <1>3
  <1>5. /\ status'[Idle] = "EMPTY" =>
             region1_pt'[Idle] = NoTable /\ kernel_stack_pfns'[Idle] = NoStack
        /\ Single(region1_pt'[Idle], Page, Invalid)
        /\ Single(kernel_stack_pfns'[Idle], 1 .. StackPages, 0)
    BY <1>1 DEF FrameInv, EmptyHolds, Unshared
  <1> QED
    BY <1>1, <1>4, <1>5, FrameStep

----------------------------------------------------------------------------
(* One lemma per handler.                                                  *)

LEMMA KeptJunk ==
  ASSUME NEW contents, pmem' = Kept(contents)
  PROVE  FreeJunk'
  BY DEF Kept, FreeJunk

HeapTo(brk) == FirstText .. brk - 1

(* What SetKernelBrk does to the frames of the heap.                       *)
LEMMA HeapMoves ==
  ASSUME NEW pt, NEW allocated \in SUBSET Frame, NEW old \in Nat, NEW new \in Nat,
         OrigBrk <= old, OrigBrk <= new, old <= StackBase, new <= StackBase,
         Window(KernelPage, pt, HeapTo(old), allocated),
         NEW m, BreakMoved(pt, allocated, old, new, m)
  PROVE  /\ m.ok => Moved(pt, HeapTo(old), allocated, m.pt, HeapTo(new), m.allocated)
         /\ ~m.ok => Moved(pt, HeapTo(old), allocated, m.pt, HeapTo(old), m.allocated)
         /\ \A page \in FirstText .. OrigBrk - 1 : m.pt[page] = pt[page]
  <1>1. /\ FirstText \in Nat /\ FirstText < OrigBrk /\ OrigBrk \in Nat /\ StackBase \in Nat
        /\ StackPages \in Nat
    BY FrameFacts
  <1>2. PICK W, pt2, A2 : W = HeapTo(old) /\ pt2 = m.pt /\ A2 = m.allocated
    OBVIOUS
  <1>3. /\ W \in SUBSET KernelPage /\ FirstText .. OrigBrk - 1 \subseteq W
        /\ FirstText .. OrigBrk - 1 \subseteq KernelPage
    BY <1>1, <1>2 DEF KernelPage, HeapTo
  <1>4. Window(KernelPage, pt, W, allocated) /\ pt \in [KernelPage -> Entry]
    BY <1>2 DEF Window
  <1>5. CASE /\ m.ok /\ old <= new
             /\ Filled(pt, m.pt, old .. new - 1, Frame \ allocated)
             /\ m.allocated = allocated \cup {m.pt[page] : page \in old .. new - 1}
    <2>1. PICK N, free : N = old .. new - 1 /\ free = Frame \ allocated
      OBVIOUS
    <2>2. /\ Filled(pt, pt2, N, free) /\ free \in SUBSET Frame
          /\ \A f \in free : f \notin allocated
          /\ A2 = allocated \cup {pt2[page] : page \in N}
      BY <1>2, <1>5, <2>1
    <2>3. /\ N \cap W = {} /\ W \cup N = HeapTo(new)
          /\ (FirstText .. OrigBrk - 1) \cap N = {}
      BY <1>1, <1>2, <1>5, <2>1 DEF HeapTo
    <2>4. \A page \in N \cap W : pt[page] = Invalid
      BY <2>3
    <2>5. Moved(pt, W, allocated, pt2, W \cup N, A2)
      BY <1>4, <2>2, <2>4, WindowFilled
    <2>6. \A page \in KernelPage \ N : pt2[page] = pt[page]
      BY <1>4, <2>2 DEF Filled
    <2> QED
      BY <1>2, <1>3, <1>5, <2>3, <2>5, <2>6
  <1>6. CASE /\ m.ok /\ new < old
             /\ m.pt = Unmapped(pt, new .. old - 1)
             /\ m.allocated = allocated \ Held(pt, new .. old - 1)
    <2>1. PICK G : G = new .. old - 1
      OBVIOUS
    <2>2. pt2 = Unmapped(pt, G) /\ A2 = allocated \ Held(pt, G)
      BY <1>2, <1>6, <2>1
    <2>3. /\ G \in SUBSET W /\ W \ G = HeapTo(new)
          /\ (FirstText .. OrigBrk - 1) \cap G = {}
      BY <1>1, <1>2, <1>6, <2>1 DEF HeapTo
    <2>4. Moved(pt, W, allocated, pt2, W \ G, A2)
      BY <1>4, <2>2, <2>3, WindowUnmapped
    <2>5. \A page \in KernelPage : pt2[page] = IF page \in G THEN Invalid ELSE pt[page]
      BY <1>4, <2>2, UnmappedType
    <2> QED
      BY <1>2, <1>3, <1>6, <2>3, <2>4, <2>5
  <1>7. CASE /\ ~m.ok /\ old < new
             /\ \E U \in SUBSET (old .. new - 1) : m.pt = Unmapped(pt, U)
             /\ m.allocated = allocated
    <2>1. PICK U \in SUBSET (old .. new - 1) : pt2 = Unmapped(pt, U)
      BY <1>2, <1>7
    <2>2. /\ pt2 \in [KernelPage -> Entry]
          /\ \A page \in KernelPage : pt2[page] = IF page \in U THEN Invalid ELSE pt[page]
      BY <1>4, <2>1, UnmappedType
    <2>3. W = HeapTo(old) /\ U \cap W = {}
      BY <1>1, <1>2, <1>7, <2>1 DEF HeapTo
    <2>4. \A page \in W : pt2[page] = pt[page]
      BY <1>3, <2>2, <2>3
    <2>5. Moved(pt, W, allocated, pt2, W, allocated)
      BY <1>4, <2>2, <2>4, WindowSame
    <2> QED
      BY <1>2, <1>3, <1>7, <2>3, <2>4, <2>5
  <1> QED
    BY <1>5, <1>6, <1>7 DEF BreakMoved

LEMMA SetKernelBrkFrames ==
  ASSUME MaxKernelBrk < StackBase, FrameInv, LayoutInv',
         NEW requested \in 0 .. MaxKernelBrk, SetKernelBrk(requested)
  PROVE  FrameInv'
  <1>1. PICK old, new, m, pt, A :
          /\ old = current_kernel_brk_page /\ new = NotBelowImage(requested)
          /\ pt = kernel_region0_pt /\ A = frame_allocated
          /\ m = MoveBreak(pt, A, old, new)
    OBVIOUS
  <1>2. /\ kernel_region0_pt' = m.pt /\ frame_allocated' = m.allocated
        /\ current_kernel_brk_page' = IF m.ok THEN new ELSE old
        /\ pmem' = Kept(pmem)
        /\ UNCHANGED <<current_process, pcbVars, layoutVars, halted>>
    BY <1>1 DEF SetKernelBrk
  <1>3. /\ old \in Nat /\ OrigBrk <= old /\ old < StackBase
        /\ pt \in [KernelPage -> Entry] /\ A \in SUBSET Frame
    <2>1. /\ old \in OrigBrk .. StackBase /\ old < StackBase
          /\ pt \in [KernelPage -> Entry] /\ A \in SUBSET Frame
      BY <1>1 DEF FrameInv, LayoutInv, TypeOK, Entry
    <2>2. OrigBrk \in Nat /\ StackBase \in Nat
      BY FrameFacts
    <2> QED
      BY <2>1, <2>2
  <1>4. new \in Nat /\ OrigBrk <= new /\ new < StackBase
    BY <1>1, MemoryFacts, FrameFacts DEF NotBelowImage
  <1>5. old .. new - 1 \subseteq KernelPage
    BY <1>3, <1>4, FrameFacts DEF KernelPage
  <1>6. BreakMoved(pt, A, old, new, m)
    BY <1>1, <1>3, <1>4, <1>5, MoveBreakGives
  <1>7. PICK brk, W, W2 : /\ brk = IF m.ok THEN new ELSE old
                          /\ W = HeapTo(old) /\ W2 = HeapTo(brk)
    OBVIOUS
  <1>8. /\ HeapPage = W /\ HeapPage' = W2
        /\ HeapFrames = Held(pt, W) /\ HeapFrames' = Held(m.pt, W2)
    BY <1>1, <1>2, <1>7 DEF HeapPage, HeapFrames, HeapTo
  <1>9. Window(KernelPage, pt, W, A)
    BY <1>1, <1>3, <1>8, HeldAllocated, HeapPages DEF FrameInv, LayoutInv, Unshared, Window
  <1>10. /\ Moved(pt, W, A, m.pt, W2, m.allocated)
         /\ \A page \in FirstText .. OrigBrk - 1 : m.pt[page] = pt[page]
    <2>1. old <= StackBase /\ new <= StackBase
      BY <1>3, <1>4, FrameFacts
    <2> QED
      <3>1. Window(KernelPage, pt, HeapTo(old), A)
        BY <1>7, <1>9
      <3>2. /\ m.ok => Moved(pt, HeapTo(old), A, m.pt, HeapTo(new), m.allocated)
            /\ ~m.ok => Moved(pt, HeapTo(old), A, m.pt, HeapTo(old), m.allocated)
            /\ \A page \in FirstText .. OrigBrk - 1 : m.pt[page] = pt[page]
        BY <1>3, <1>4, <1>6, <2>1, <3>1, HeapMoves
      <3> QED
        BY <1>7, <3>2
  <1>11. (current_kernel_brk_page < StackBase)'
    BY <1>2, <1>3, <1>4
  <1>12. EmptyHolds' /\ FreeJunk'
    BY <1>2, KeptJunk DEF FrameInv, EmptyHolds, pcbVars
  <1>13. ImageMapped'
    BY <1>1, <1>2, <1>10 DEF FrameInv, ImageMapped
  <1>14. Unshared'
    BY <1>2, <1>8, <1>10 DEF FrameInv, Unshared, pcbVars, Moved
  <1>15. \A q \in Proc : TableFrames(q)' = TableFrames(q) /\ StackFrames(q)' = StackFrames(q)
    BY <1>2 DEF TableFrames, StackFrames, pcbVars
  <1>16. \A o \in Owner \ {Heap} : holds'[o] = holds[o]
    <2> TAKE o \in Owner \ {Heap}
    <2>1. CASE o = Low
      BY <2>1, HoldsAre, HoldsAfter
    <2>2. ASSUME NEW q \in Proc, o = Table(q) \/ o = Stack(q)
          PROVE  holds'[o] = holds[o]
      BY <1>15, <2>2, HoldsAre, HoldsAfter
    <2> QED
      BY <2>1, <2>2, OwnersAre
  <1>17. PICK H, H2, A2 : H = holds /\ H2 = holds' /\ A2 = frame_allocated'
    OBVIOUS
  <1>18. Exchanged(A, A2, H[Heap], H2[Heap])
    BY <1>2, <1>8, <1>10, <1>17, HoldsAre, HoldsAfter DEF Moved
  <1>19. Divided(A2, H2, Owner)
    <2>1. Divided(A, H, Owner)
      BY <1>1, <1>17 DEF FrameInv
    <2>2. \A o \in Owner \ {Heap} : H2[o] = H[o]
      BY <1>16, <1>17
    <2> QED
      BY <1>18, <2>1, <2>2, OwnersAre, ExchangeDivides
  <1>20. Divided(frame_allocated, holds, Owner)'
    BY <1>17, <1>19
  <1> QED
    BY <1>11, <1>12, <1>13, <1>14, <1>20 DEF FrameInv

LEMMA HaltsFrames ==
  ASSUME FrameInv, LayoutInv',
         UNCHANGED <<kernelVars, current_process, pcbVars, layoutVars>>
  PROVE  FrameInv'
  <1>1. KeepsHeap /\ FreeJunk'
    BY DEF KeepsHeap, kernelVars, FreeJunk, FrameInv
  <1> QED
    BY <1>1, FrameSame DEF kernelVars, pcbVars

LEMMA StoreFrames ==
  ASSUME FrameInv, LayoutInv', NEW page \in Page, NEW v \in Value, Store(page, v)
  PROVE  FrameInv'
  <1>1. PICK p, pfn : p = current_process /\ pfn = region1_pt[p][page]
    OBVIOUS
  <1>2. /\ pfn # Invalid /\ pmem' = [pmem EXCEPT ![pfn] = v]
        /\ UNCHANGED <<frame_allocated, kernel_region0_pt, current_kernel_brk_page,
                       current_process, pcbVars, layoutVars, halted>>
    BY <1>1 DEF Store
  <1>3. p \in Proc /\ region1_pt[p] \in [Page -> Entry] /\ pmem \in [Frame -> Value \cup {Image, Junk}]
    BY <1>1 DEF FrameInv, LayoutInv, TypeOK, Entry
  <1>4. pfn \in TableFrames(p)
    BY <1>1, <1>2, <1>3, HeldIs DEF TableFrames
  <1>5. pfn \in frame_allocated
    BY <1>3, <1>4, HeldAllocated
  <1>6. FreeJunk'
    BY <1>2, <1>3, <1>5 DEF FrameInv, FreeJunk
  <1>7. KeepsHeap
    BY <1>2 DEF KeepsHeap
  <1> QED
    BY <1>2, <1>6, <1>7, FrameSame DEF pcbVars

LEMMA ExitKeepsHeap ==
  ASSUME TypeOK, status[current_process] = "LIVE", NEW next \in Proc,
         ProcessExitCurrent(next), UNCHANGED current_kernel_brk_page
  PROVE  KeepsHeap
  <1>1. \/ UNCHANGED kernel_region0_pt
        \/ kernel_region0_pt' = StackOf(kernel_region0_pt, current_process')
    BY ExitGives
  <1> QED
    BY <1>1 DEF KeepsHeap, StackOf

LEMMA ExitFrames ==
  ASSUME FrameInv, LayoutInv', NEW next \in Proc, Exit(next)
  PROVE  FrameInv'
  <1>1. /\ ProcessExitCurrent(next)
        /\ UNCHANGED <<frame_allocated, current_kernel_brk_page, pmem, region1_pt,
                       kernel_stack_pfns, layoutVars>>
    BY DEF Exit
  <1>2. TypeOK /\ status[current_process] = "LIVE"
    BY DEF FrameInv, LayoutInv
  <1>3. KeepsHeap /\ \A q \in Proc : status'[q] = "EMPTY" => status[q] = "EMPTY"
    BY <1>1, <1>2, ExitKeepsHeap, ExitGives
  <1>4. FreeJunk'
    BY <1>1 DEF FrameInv, FreeJunk
  <1> QED
    BY <1>1, <1>3, <1>4, FrameSame

LEMMA SwitchFrames ==
  ASSUME FrameInv, LayoutInv', NEW next \in Proc, Switch(next)
  PROVE  FrameInv'
  <1>1. /\ kernel_region0_pt' = StackOf(kernel_region0_pt, next)
        /\ UNCHANGED <<frame_allocated, current_kernel_brk_page, pmem, pcbVars,
                       layoutVars, halted>>
    BY DEF Switch
  <1>2. KeepsHeap
    BY <1>1 DEF KeepsHeap, StackOf
  <1>3. FreeJunk'
    BY <1>1 DEF FrameInv, FreeJunk
  <1> QED
    BY <1>1, <1>2, <1>3, FrameSame DEF pcbVars

LEMMA TableWindow ==
  ASSUME FrameInv, NEW p \in Proc
  PROVE  /\ Window(Page, region1_pt[p], Page, frame_allocated)
         /\ TableFrames(p) = Held(region1_pt[p], Page)
  <1>1. region1_pt[p] \in [Page -> Entry]
    BY DEF FrameInv, LayoutInv, TypeOK, Entry
  <1>2. Single(region1_pt[p], Page, Invalid)
    BY DEF FrameInv, Unshared
  <1>3. TableFrames(p) = Held(region1_pt[p], Page)
    BY DEF TableFrames
  <1>4. \A f \in Held(region1_pt[p], Page) : f \in frame_allocated
    BY <1>3, HeldAllocated
  <1> QED
    BY <1>1, <1>2, <1>3, <1>4 DEF Window

(* A step that changes only the table of p.                                *)
LEMMA TableStep ==
  ASSUME FrameInv, LayoutInv', KeepsHeap, NEW p \in Proc, NEW pt2,
         region1_pt' = [region1_pt EXCEPT ![p] = pt2], UNCHANGED kernel_stack_pfns,
         \A q \in Proc : status'[q] = "EMPTY" => status[q] = "EMPTY" /\ q # p,
         Moved(region1_pt[p], Page, frame_allocated, pt2, Page, frame_allocated'),
         FreeJunk'
  PROVE  FrameInv'
  <1>1. /\ region1_pt'[p] = pt2 /\ Others(p)
    BY DEF FrameInv, LayoutInv, TypeOK, Others
  <1>2. /\ Single(region1_pt'[p], Page, Invalid)
        /\ Single(kernel_stack_pfns'[p], 1 .. StackPages, 0)
    BY <1>1 DEF Moved, FrameInv, Unshared
  <1>3. StackFrames(p)' = StackFrames(p) /\ TableFrames(p)' = Held(pt2, Page)
    BY <1>1 DEF StackFrames, TableFrames
  <1>4. Exchanged(frame_allocated, frame_allocated, StackFrames(p), StackFrames(p))
    BY HeldAllocated, FramesKept
  <1>5. Exchanged(frame_allocated, frame_allocated, StackFrames(p), StackFrames(p)')
    BY <1>3, <1>4
  <1>6. Exchanged(frame_allocated, frame_allocated', TableFrames(p), TableFrames(p)')
    BY <1>3 DEF Moved, TableFrames
  <1>7. status'[p] # "EMPTY"
    OBVIOUS
  <1> QED
    BY <1>1, <1>2, <1>5, <1>6, <1>7, FrameStep

(* What SysBrk does to the frames of a program.                            *)
LEMMA BrkMoves ==
  ASSUME NEW pt, NEW allocated \in SUBSET Frame, Window(Page, pt, Page, allocated),
         NEW hs \in Nat, NEW old \in Nat, NEW low \in Nat, LaidOut(pt, hs, old, low),
         NEW new \in Nat, hs <= new, new < low,
         NEW m, BreakMoved(pt, allocated, old, new, m)
  PROVE  Moved(pt, Page, allocated, m.pt, Page, m.allocated)
  <1>1. PtLen \in Nat /\ low < PtLen /\ hs <= old /\ old < low
    BY FrameFacts DEF LaidOut
  <1>2. PICK pt2, A2 : pt2 = m.pt /\ A2 = m.allocated
    OBVIOUS
  <1>3. pt \in [Page -> Entry]
    BY DEF Window
  <1>4. ASSUME NEW page \in old .. new - 1
        PROVE  page \in Page /\ pt[page] = Invalid
    <2>1. page \in Page /\ page \in old .. low - 1
      BY <1>1 DEF Page
    <2> QED
      BY <2>1 DEF LaidOut
  <1>5. CASE /\ m.ok /\ old <= new
             /\ Filled(pt, m.pt, old .. new - 1, Frame \ allocated)
             /\ m.allocated = allocated \cup {m.pt[page] : page \in old .. new - 1}
    <2>1. PICK N, free : N = old .. new - 1 /\ free = Frame \ allocated
      OBVIOUS
    <2>2. /\ Filled(pt, pt2, N, free) /\ free \in SUBSET Frame
          /\ \A f \in free : f \notin allocated
          /\ A2 = allocated \cup {pt2[page] : page \in N}
      BY <1>2, <1>5, <2>1
    <2>3. Page \cup N = Page /\ \A page \in N \cap Page : pt[page] = Invalid
      BY <1>4, <2>1
    <2>4. Moved(pt, Page, allocated, pt2, Page \cup N, A2)
      BY <2>2, <2>3, WindowFilled
    <2> QED
      BY <1>2, <2>3, <2>4
  <1>6. CASE /\ m.pt = Unmapped(pt, new .. old - 1)
             /\ m.allocated = allocated \ Held(pt, new .. old - 1)
    <2>1. PICK G : G = new .. old - 1
      OBVIOUS
    <2>2. pt2 = Unmapped(pt, G) /\ A2 = allocated \ Held(pt, G)
      BY <1>2, <1>6, <2>1
    <2>3. G \in SUBSET Page
      BY <1>1, <2>1 DEF Page
    <2>4. Moved(pt, Page, allocated, pt2, Page, A2)
      BY <2>2, <2>3, WindowUnmapped
    <2> QED
      BY <1>2, <2>4
  <1>7. CASE /\ \E U \in SUBSET (old .. new - 1) : m.pt = Unmapped(pt, U)
             /\ m.allocated = allocated
    <2>1. PICK U \in SUBSET (old .. new - 1) : pt2 = Unmapped(pt, U)
      BY <1>2, <1>7
    <2>2. /\ pt2 \in [Page -> Entry]
          /\ \A page \in Page : pt2[page] = IF page \in U THEN Invalid ELSE pt[page]
      BY <1>3, <2>1, UnmappedType
    <2>3. \A page \in Page : pt2[page] = pt[page]
      BY <1>4, <2>2
    <2>4. Moved(pt, Page, allocated, pt2, Page, allocated)
      BY <2>2, <2>3, WindowSame
    <2> QED
      BY <1>2, <1>7, <2>4
  <1> QED
    BY <1>5, <1>6, <1>7 DEF BreakMoved

LEMMA SysBrkFrames ==
  ASSUME FrameInv, LayoutInv', NEW new \in 0 .. PtLen, SysBrk(new)
  PROVE  FrameInv'
  <1>1. PICK p, m : /\ p = current_process
                    /\ m = MoveBreak(region1_pt[p], frame_allocated, user_brk[p], new)
    OBVIOUS
  <1>2. /\ region1_pt' = [region1_pt EXCEPT ![p] = m.pt]
        /\ frame_allocated' = m.allocated
        /\ pmem' = Kept(pmem)
        /\ UNCHANGED <<kernel_region0_pt, current_kernel_brk_page, status, kernel_stack_pfns>>
    BY <1>1 DEF SysBrk
  <1>3. LayoutInv /\ status[p] = "LIVE"
    BY <1>1 DEF FrameInv, LayoutInv
  <1>4. /\ p \in Proc /\ Laid(p) /\ frame_allocated \in SUBSET Frame
        /\ user_heap_start[p] \in Nat /\ user_brk[p] \in Nat
        /\ user_stack_low_page[p] \in Nat /\ new \in Nat
        /\ user_heap_start[p] <= new /\ new < user_stack_low_page[p]
        /\ BreakMoved(region1_pt[p], frame_allocated, user_brk[p], new, m)
    BY <1>1, <1>3, SysBrkMoves
  <1>5. Moved(region1_pt[p], Page, frame_allocated, m.pt, Page, m.allocated)
    BY <1>4, TableWindow, BrkMoves DEF Laid
  <1>6. KeepsHeap /\ FreeJunk'
    BY <1>2, KeptJunk DEF KeepsHeap
  <1> QED
    BY <1>2, <1>3, <1>4, <1>5, <1>6, TableStep

LEMMA TrapMemoryFrames ==
  ASSUME FrameInv, LayoutInv', NEW page \in Page, NEW next \in Proc, TrapMemory(page, next)
  PROVE  FrameInv'
  <1>1. PICK p, G, N, pt2 :
          /\ p = current_process /\ G = page .. user_stack_low_page[p] - 1
          /\ N = Served(Free, Down(G)) /\ pt2 = Mapped(region1_pt[p], Free, Down(G))
    OBVIOUS
  <1>2. LayoutInv /\ TypeOK /\ status[p] = "LIVE"
    BY <1>1 DEF FrameInv, LayoutInv
  <1>3. /\ p \in Proc /\ Free \in SUBSET Frame /\ G \subseteq Page
        /\ \A i \in G : region1_pt[p][i] = Invalid
        /\ Looped(region1_pt[p], pt2, Free, Down(G), N, G)
    BY <1>1, <1>2, GrowStackFills
  <1>4. /\ region1_pt' = [region1_pt EXCEPT ![p] = pt2]
        /\ frame_allocated' = frame_allocated \cup Taken(Free, Down(G))
        /\ UNCHANGED <<current_kernel_brk_page, pmem, kernel_stack_pfns>>
    BY <1>1 DEF TrapMemory
  <1>5. /\ Filled(region1_pt[p], pt2, N, Free) /\ N \subseteq G
        /\ frame_allocated' = frame_allocated \cup {pt2[i] : i \in N}
    BY <1>3, <1>4 DEF Looped
  <1>6. Page \cup N = Page /\ \A i \in N \cap Page : region1_pt[p][i] = Invalid
    BY <1>3, <1>5
  <1>7. \A f \in Free : f \notin frame_allocated
    BY DEF Free
  <1>8. Moved(region1_pt[p], Page, frame_allocated, pt2, Page, frame_allocated')
    <2>1. PICK A2 : A2 = frame_allocated'
      OBVIOUS
    <2>2. Moved(region1_pt[p], Page, frame_allocated, pt2, Page \cup N, A2)
      BY <1>3, <1>5, <1>6, <1>7, <2>1, TableWindow, WindowFilled
    <2> QED
      BY <1>6, <2>1, <2>2
  <1>9. /\ KeepsHeap
        /\ \A q \in Proc : status'[q] = "EMPTY" => status[q] = "EMPTY" /\ q # p
    <2>1. CASE ProcessExitCurrent(next)
      BY <1>1, <1>2, <1>4, <2>1, ExitKeepsHeap, ExitGives
    <2>2. CASE UNCHANGED <<status, kernel_region0_pt>>
      BY <1>2, <1>4, <2>2 DEF KeepsHeap
    <2> QED
      BY <1>1, <2>1, <2>2 DEF TrapMemory
  <1>10. FreeJunk'
    BY <1>4 DEF FrameInv, FreeJunk
  <1> QED
    BY <1>3, <1>4, <1>8, <1>9, <1>10, TableStep

(* The frames of new stacks and tables.                                    *)
LEMMA NewStackHolds ==
  ASSUME FrameInv
  PROVE  /\ FreedStack(ChildStack) = Taken(Free, StackRank)
         /\ Taken(Free, StackRank) \subseteq Free /\ Free = Frame \ frame_allocated
         /\ Single(ChildStack, 1 .. StackPages, 0)
         /\ ChildStack \in [1 .. StackPages -> Frame]
  <1>1. PICK N, G, T : N = Served(Free, StackRank) /\ G = 1 .. StackPages /\ T = Taken(Free, StackRank)
    OBVIOUS
  <1>2. /\ Looped(NoStack, ChildStack, Free, StackRank, N, G)
        /\ ChildStack \in [G -> Frame]
    BY <1>1, ChildStackFills DEF FrameInv, LayoutInv
  <1>3. /\ N \subseteq G /\ T = {ChildStack[i] : i \in N} /\ T \subseteq Free
        /\ \A i \in N : ChildStack[i] \in Free
        /\ \A i, j \in N : ChildStack[i] = ChildStack[j] => i = j
        /\ \A i \in G \ N : ChildStack[i] = 0
    BY <1>1, <1>2, EmptyTables DEF Looped, Filled, Fresh
  <1>4. \A i \in N : ChildStack[i] # 0
    BY <1>3, HeldAllocated DEF Free
  <1>5. Single(ChildStack, G, 0)
    BY <1>3, <1>4 DEF Single
  <1>6. \A f : f \in {ChildStack[i] : i \in G} \ {0} <=> \E i \in N : f = ChildStack[i]
    BY <1>3, <1>4
  <1>7. FreedStack(ChildStack) = T
    BY <1>1, <1>3, <1>6 DEF FreedStack
  <1> QED
    BY <1>1, <1>2, <1>3, <1>5, <1>7 DEF Free

LEMMA NewTableHolds ==
  ASSUME NEW pt2, NEW free \in SUBSET Frame, NEW rank, NEW N, NEW G,
         Looped(NoTable, pt2, free, rank, N, G)
  PROVE  /\ Single(pt2, Page, Invalid) /\ Held(pt2, Page) = Taken(free, rank)
         /\ Taken(free, rank) \subseteq free
  <1>1. /\ Filled(NoTable, pt2, N, free) /\ Taken(free, rank) = {pt2[page] : page \in N}
        /\ Taken(free, rank) \subseteq free
    BY DEF Looped
  <1>2. /\ pt2 \in [Page -> Entry] /\ N \subseteq Page
        /\ \A page \in N : pt2[page] \in free /\ pt2[page] # Invalid
        /\ \A page \in Page \ N : pt2[page] = NoTable[page]
    BY <1>1, EmptyTables, FilledType
  <1>3. /\ \A page \in Page : pt2[page] # Invalid <=> page \in N
        /\ \A i, j \in N : pt2[i] = pt2[j] => i = j
    BY <1>1, <1>2, EmptyTables DEF Filled, Fresh
  <1>4. Single(pt2, Page, Invalid)
    BY <1>3 DEF Single
  <1>5. \A f : f \in Held(pt2, Page) <=> \E page \in Page : pt2[page] # Invalid /\ f = pt2[page]
    BY <1>2, HeldIs
  <1>6. \A f : f \in Held(pt2, Page) <=> \E page \in N : f = pt2[page]
    BY <1>2, <1>3, <1>5
  <1> QED
    BY <1>1, <1>4, <1>6

LEMMA ChildTableHolds ==
  ASSUME FrameInv, NEW p \in Proc
  PROVE  /\ Single(ChildTable(p), Page, Invalid)
         /\ Held(ChildTable(p), Page) = Taken(FreeForCopy, CopyRank(p))
         /\ Taken(FreeForCopy, CopyRank(p)) \subseteq FreeForCopy
         /\ FreeForCopy = (Frame \ frame_allocated) \ Taken(Free, StackRank)
  <1>1. PICK N, V : N = Served(FreeForCopy, CopyRank(p)) /\ V = Valid(region1_pt[p])
    OBVIOUS
  <1>2. Looped(NoTable, ChildTable(p), FreeForCopy, CopyRank(p), N, V)
    BY <1>1, ChildTableFills DEF FrameInv, LayoutInv
  <1>3. FreeForCopy \in SUBSET Frame
    BY DEF FreeForCopy, Free
  <1>4. FreeForCopy = (Frame \ frame_allocated) \ Taken(Free, StackRank)
    BY DEF FreeForCopy, Free
  <1> QED
    BY <1>2, <1>3, <1>4, NewTableHolds

LEMMA EmptyFrames ==
  ASSUME NEW p \in Proc
  PROVE  /\ region1_pt[p] = NoTable => TableFrames(p) = {}
         /\ region1_pt'[p] = NoTable => TableFrames(p)' = {}
         /\ kernel_stack_pfns[p] = NoStack => StackFrames(p) = {}
         /\ kernel_stack_pfns'[p] = NoStack => StackFrames(p)' = {}
  <1>1. Held(NoTable, Page) = {}
    BY DEF Held, Valid, NoTable
  <1>2. {NoStack[i] : i \in 1 .. StackPages} \ {0} = {}
    BY EmptyTables
  <1> QED
    BY <1>1, <1>2 DEF TableFrames, StackFrames

LEMMA NoTableSingle ==
  Single(NoTable, Page, Invalid) /\ Single(NoStack, 1 .. StackPages, 0)
  BY EmptyTables DEF Single

(* A new process gets a kernel stack and a table from free frames.         *)
LEMMA CreateStep ==
  ASSUME FrameInv, LayoutInv', KeepsHeap, NEW p \in Proc, status[p] = "EMPTY",
         NEW stack, NEW pt2, NEW TS, NEW TT,
         region1_pt' = [region1_pt EXCEPT ![p] = pt2],
         kernel_stack_pfns' = [kernel_stack_pfns EXCEPT ![p] = stack],
         status' = [status EXCEPT ![p] = "LIVE"],
         Single(pt2, Page, Invalid), Held(pt2, Page) = TT,
         Single(stack, 1 .. StackPages, 0), FreedStack(stack) = TS,
         \A f \in TS : f \notin frame_allocated,
         \A f \in TT : f \notin frame_allocated /\ f \notin TS,
         frame_allocated' = (frame_allocated \cup TS) \cup TT,
         FreeJunk'
  PROVE  FrameInv'
  <1>1. /\ region1_pt'[p] = pt2 /\ kernel_stack_pfns'[p] = stack /\ status'[p] = "LIVE"
        /\ Others(p)
    BY DEF FrameInv, LayoutInv, TypeOK, Others
  <1>2. TableFrames(p) = {} /\ StackFrames(p) = {}
    BY EmptyFrames DEF FrameInv, EmptyHolds
  <1>3. TableFrames(p)' = TT /\ StackFrames(p)' = TS
    BY <1>1 DEF TableFrames, StackFrames, FreedStack
  <1>4. PICK A : A = frame_allocated \cup TS
    OBVIOUS
  <1>5. Exchanged(frame_allocated, A, {}, TS) /\ Exchanged(A, frame_allocated', {}, TT)
    BY <1>4 DEF Exchanged
  <1>6. /\ Exchanged(frame_allocated, A, StackFrames(p), StackFrames(p)')
        /\ Exchanged(A, frame_allocated', TableFrames(p), TableFrames(p)')
    BY <1>2, <1>3, <1>5
  <1>7. status'[p] # "EMPTY"
    BY <1>1
  <1> QED
    BY <1>1, <1>6, <1>7, FrameStep

LEMMA SysForkFrames ==
  ASSUME FrameInv, LayoutInv', NEW child \in Proc, SysFork(child)
  PROVE  FrameInv'
  <1>1. PICK p, TS, TT, C, S :
          /\ p = current_process /\ TS = Taken(Free, StackRank)
          /\ TT = Taken(FreeForCopy, CopyRank(p)) /\ C = ChildTable(p) /\ S = ChildStack
    OBVIOUS
  <1>2. /\ status[child] = "EMPTY"
        /\ status' = [status EXCEPT ![child] = "LIVE"]
        /\ kernel_stack_pfns' = [kernel_stack_pfns EXCEPT ![child] = S]
        /\ region1_pt' = [region1_pt EXCEPT ![child] = C]
        /\ frame_allocated' = AllocatedForChild(p)
        /\ pmem' = Copied(p)
        /\ kernel_region0_pt' = [kernel_region0_pt EXCEPT ![ScratchPage] = Invalid]
        /\ UNCHANGED current_kernel_brk_page
    BY <1>1 DEF SysFork
  <1>3. p \in Proc /\ kernel_region0_pt \in [KernelPage -> Entry]
    BY <1>1 DEF FrameInv, LayoutInv, TypeOK, Entry
  <1>4. /\ FreedStack(S) = TS /\ TS \subseteq Free /\ Free = Frame \ frame_allocated
        /\ Single(S, 1 .. StackPages, 0)
    BY <1>1, NewStackHolds
  <1>5. /\ Single(C, Page, Invalid) /\ Held(C, Page) = TT
        /\ TT \subseteq FreeForCopy /\ FreeForCopy = (Frame \ frame_allocated) \ TS
    BY <1>1, <1>3, ChildTableHolds
  <1>6. /\ \A f \in TS : f \notin frame_allocated
        /\ \A f \in TT : f \notin frame_allocated /\ f \notin TS
    BY <1>4, <1>5
  <1>7. frame_allocated' = (frame_allocated \cup TS) \cup TT
    BY <1>1, <1>2 DEF AllocatedForChild
  <1>8. KeepsHeap
    BY <1>2, <1>3 DEF KeepsHeap
  <1>9. FreeJunk'
    <2> SUFFICES ASSUME NEW f \in Frame, f \notin frame_allocated'
                 PROVE  pmem'[f] = Junk
      BY DEF FreeJunk
    <2>1. f \notin frame_allocated /\ f \notin Held(C, Page)
      BY <1>5, <1>7
    <2>2. C \in [Page -> Entry]
      BY <1>1, <1>3, ChildTableFills DEF FrameInv, LayoutInv
    <2>3. f # Invalid
      BY FrameFacts
    <2>4. ~\E page \in Page : C[page] = f
      BY <2>1, <2>2, <2>3, HeldIs
    <2>5. pmem'[f] = pmem[f]
      BY <1>1, <1>2, <2>4 DEF Copied
    <2> QED
      BY <2>1, <2>5 DEF FrameInv, FreeJunk
  <1> QED
    BY <1>2, <1>4, <1>5, <1>6, <1>7, <1>8, <1>9, CreateStep

LEMMA SysForkFailsFrames ==
  ASSUME FrameInv, LayoutInv', SysForkFails
  PROVE  FrameInv' /\ frame_allocated' = frame_allocated
  <1>1. PICK p, TS, TT :
          /\ p = current_process /\ TS = Taken(Free, StackRank)
          /\ TT = Taken(FreeForCopy, CopyRank(p))
    OBVIOUS
  <1>2. p \in Proc /\ kernel_region0_pt \in [KernelPage -> Entry]
    BY <1>1 DEF FrameInv, LayoutInv, TypeOK, Entry
  <1>3. /\ FreedStack(ChildStack) = TS /\ TS \subseteq Free /\ Free = Frame \ frame_allocated
    BY <1>1, NewStackHolds
  <1>4. /\ Held(ChildTable(p), Page) = TT
        /\ TT \subseteq FreeForCopy /\ FreeForCopy = (Frame \ frame_allocated) \ TS
    BY <1>1, <1>2, ChildTableHolds
  <1>5. /\ \A f \in TS : f \notin frame_allocated
        /\ \A f \in TT : f \notin frame_allocated /\ f \notin TS
    BY <1>3, <1>4
  <1>6. \/ frame_allocated' = (frame_allocated \cup TS) \ TS
        \/ frame_allocated' = (((frame_allocated \cup TS) \cup TT) \ TT) \ TS
    BY <1>1, <1>3, <1>4 DEF SysForkFails, NoForkFrames, AllocatedForChild
  <1>7. frame_allocated' = frame_allocated
    BY <1>5, <1>6
  <1>8. KeepsHeap
    <2>1. /\ UNCHANGED current_kernel_brk_page
          /\ \/ UNCHANGED kernel_region0_pt
             \/ \E e : kernel_region0_pt' = [kernel_region0_pt EXCEPT ![ScratchPage] = e]
      BY DEF SysForkFails
    <2> QED
      BY <1>2, <2>1 DEF KeepsHeap
  <1>9. FreeJunk' /\ UNCHANGED pcbVars
    BY KeptJunk DEF SysForkFails
  <1> QED
    BY <1>7, <1>8, <1>9, FrameSame DEF pcbVars

LEMMA SysWaitFrames ==
  ASSUME FrameInv, LayoutInv', NEW child \in Proc, SysWait(child)
  PROVE  FrameInv'
  <1>1. PICK TF, SF : TF = TableFrames(child) /\ SF = StackFrames(child)
    OBVIOUS
  <1>2. /\ status' = [status EXCEPT ![child] = "EMPTY"]
        /\ frame_allocated' = (frame_allocated \ Held(region1_pt[child], Page))
                                \ FreedStack(kernel_stack_pfns[child])
        /\ region1_pt' = [region1_pt EXCEPT ![child] = NoTable]
        /\ kernel_stack_pfns' = [kernel_stack_pfns EXCEPT ![child] = NoStack]
        /\ pmem' = Kept(pmem)
        /\ UNCHANGED <<kernel_region0_pt, current_kernel_brk_page>>
    BY DEF SysWait
  <1>3. frame_allocated' = (frame_allocated \ TF) \ SF
    BY <1>1, <1>2 DEF TableFrames, StackFrames, FreedStack
  <1>4. /\ region1_pt'[child] = NoTable /\ kernel_stack_pfns'[child] = NoStack
        /\ Others(child)
    BY <1>2 DEF FrameInv, LayoutInv, TypeOK, Others
  <1>5. TableFrames(child)' = {} /\ StackFrames(child)' = {}
    BY <1>4, EmptyFrames
  <1>6. PICK A : A = frame_allocated \ SF
    OBVIOUS
  <1>7. Exchanged(frame_allocated, A, SF, {}) /\ Exchanged(A, frame_allocated', TF, {})
    BY <1>3, <1>6 DEF Exchanged
  <1>8. /\ Exchanged(frame_allocated, A, StackFrames(child), StackFrames(child)')
        /\ Exchanged(A, frame_allocated', TableFrames(child), TableFrames(child)')
    BY <1>1, <1>5, <1>7
  <1>9. KeepsHeap /\ FreeJunk'
    BY <1>2, KeptJunk DEF KeepsHeap
  <1>10. /\ Single(region1_pt'[child], Page, Invalid)
         /\ Single(kernel_stack_pfns'[child], 1 .. StackPages, 0)
    BY <1>4, NoTableSingle
  <1> QED
    BY <1>4, <1>8, <1>9, <1>10, FrameStep

(* LoadProgram into a table that holds T when A is allocated: the frames   *)
(* of the new one replace T.                                               *)
Loads(A, T, prog) ==
  LET free == Frame \ (A \ T)
      rank == Up(ProgramPages(prog))
  IN  /\ Single(Mapped(NoTable, free, rank), Page, Invalid)
      /\ Held(Mapped(NoTable, free, rank), Page) = Taken(free, rank)
      /\ \A f \in Taken(free, rank) : f \in T \/ f \notin A
      /\ Exchanged(A, (A \ T) \cup Taken(free, rank), T, Taken(free, rank))

LEMMA LoadHolds ==
  ASSUME NEW prog \in Programs, Loadable(prog), NEW A \in SUBSET Frame, NEW T
  PROVE  Loads(A, T, prog)
  <1> PICK free, rank : free = Frame \ (A \ T) /\ rank = Up(ProgramPages(prog))
    OBVIOUS
  <1>1. free \in SUBSET Frame
    OBVIOUS
  <1>2. PICK pt2, N, G, Y : /\ pt2 = Mapped(NoTable, free, rank) /\ N = Served(free, rank)
                            /\ G = ProgramPages(prog) /\ Y = Taken(free, rank)
    OBVIOUS
  <1>3. Looped(NoTable, pt2, free, rank, N, G)
    BY <1>1, <1>2, ProgramFills
  <1>4. Single(pt2, Page, Invalid) /\ Held(pt2, Page) = Y /\ Y \subseteq free
    BY <1>1, <1>2, <1>3, NewTableHolds
  <1>5. \A f \in Y : f \in T \/ f \notin A
    BY <1>4
  <1>6. Exchanged(A, (A \ T) \cup Y, T, Y)
    BY <1>5, FramesReplaced
  <1> QED
    BY <1>2, <1>4, <1>5, <1>6 DEF Loads

LEMMA SysExecFrames ==
  ASSUME FrameInv, LayoutInv', NEW prog \in Programs, SysExec(prog)
  PROVE  FrameInv'
  <1>1. PICK p, T, rank, free, pt2 :
          /\ p = current_process /\ T = Held(region1_pt[p], Page)
          /\ rank = Up(ProgramPages(prog)) /\ free = Frame \ (frame_allocated \ T)
          /\ pt2 = Mapped(NoTable, free, rank)
    OBVIOUS
  <1>2. /\ Loadable(prog)
        /\ region1_pt' = [region1_pt EXCEPT ![p] = pt2]
        /\ frame_allocated' = (frame_allocated \ T) \cup Taken(free, rank)
        /\ \E c : pmem' = Kept(c)
        /\ UNCHANGED <<kernel_region0_pt, current_kernel_brk_page, status, kernel_stack_pfns>>
    BY <1>1 DEF SysExec, LoadProgram
  <1>3. p \in Proc /\ status[p] = "LIVE" /\ frame_allocated \in SUBSET Frame
    BY <1>1 DEF FrameInv, LayoutInv, TypeOK
  <1>4. /\ Single(pt2, Page, Invalid) /\ Held(pt2, Page) = Taken(free, rank)
        /\ Exchanged(frame_allocated, frame_allocated', T, Taken(free, rank))
    <2>1. Loads(frame_allocated, T, prog)
      BY <1>2, <1>3, LoadHolds
    <2> QED
      BY <1>1, <1>2, <2>1 DEF Loads
  <1>5. Moved(region1_pt[p], Page, frame_allocated, pt2, Page, frame_allocated')
    BY <1>1, <1>4 DEF Moved
  <1>6. KeepsHeap /\ FreeJunk'
    BY <1>2, KeptJunk DEF KeepsHeap
  <1> QED
    BY <1>2, <1>3, <1>5, <1>6, TableStep

LEMMA SysExecKillsFrames ==
  ASSUME FrameInv, LayoutInv', NEW prog \in Programs, NEW next \in Proc,
         SysExecKills(prog, next)
  PROVE  FrameInv'
  <1>1. PICK p, T, rank, free, pt2 :
          /\ p = current_process /\ T = Held(region1_pt[p], Page)
          /\ rank = Up(ProgramPages(prog)) /\ free = Frame \ (frame_allocated \ T)
          /\ pt2 = Mapped(NoTable, free, rank)
    OBVIOUS
  <1>2. /\ Loadable(prog)
        /\ region1_pt' = [region1_pt EXCEPT ![p] = pt2]
        /\ frame_allocated' = (frame_allocated \ T) \cup Taken(free, rank)
        /\ pmem' = [f \in Frame |-> IF f \in frame_allocated \ T THEN pmem[f] ELSE Junk]
        /\ ProcessExitCurrent(next)
        /\ UNCHANGED <<current_kernel_brk_page, kernel_stack_pfns>>
    BY <1>1 DEF SysExecKills
  <1>3. p \in Proc /\ status[p] = "LIVE" /\ frame_allocated \in SUBSET Frame /\ TypeOK
    BY <1>1 DEF FrameInv, LayoutInv, TypeOK
  <1>4. /\ Single(pt2, Page, Invalid) /\ Held(pt2, Page) = Taken(free, rank)
        /\ Exchanged(frame_allocated, frame_allocated', T, Taken(free, rank))
    <2>1. Loads(frame_allocated, T, prog)
      BY <1>2, <1>3, LoadHolds
    <2> QED
      BY <1>1, <1>2, <2>1 DEF Loads
  <1>5. Moved(region1_pt[p], Page, frame_allocated, pt2, Page, frame_allocated')
    BY <1>1, <1>4 DEF Moved
  <1>6. KeepsHeap /\ \A q \in Proc : status'[q] = "EMPTY" => status[q] = "EMPTY" /\ q # p
    BY <1>1, <1>2, <1>3, ExitKeepsHeap, ExitGives
  <1>7. FreeJunk'
    BY <1>2 DEF FreeJunk
  <1> QED
    BY <1>2, <1>3, <1>5, <1>6, <1>7, TableStep

LEMMA StartInitFrames ==
  ASSUME FrameInv, LayoutInv', NEW prog \in Programs, StartInit(prog)
  PROVE  FrameInv'
  <1>1. PICK p, TS, A, rank, free, pt2, S, TT :
          /\ p = InitProc /\ TS = Taken(Free, StackRank) /\ A = frame_allocated \cup TS
          /\ rank = Up(ProgramPages(prog)) /\ free = Frame \ A
          /\ pt2 = Mapped(NoTable, free, rank) /\ S = ChildStack /\ TT = Taken(free, rank)
    OBVIOUS
  <1>2. p \in Proc /\ status[p] = "EMPTY"
    BY <1>1, MemoryFacts DEF StartInit
  <1>3. Held(region1_pt[p], Page) = {}
    BY <1>2, EmptyFrames DEF FrameInv, EmptyHolds, TableFrames
  <1>4. A \ Held(region1_pt[p], Page) = A
    BY <1>3
  <1>5. /\ Loadable(prog)
        /\ region1_pt' = [region1_pt EXCEPT ![p] = pt2]
        /\ frame_allocated' = A \cup TT
        /\ \E c : pmem' = Kept(c)
    BY <1>1, <1>4 DEF StartInit, LoadProgram
  <1>6. /\ status' = [status EXCEPT ![p] = "LIVE"]
        /\ kernel_stack_pfns' = [kernel_stack_pfns EXCEPT ![p] = S]
        /\ kernel_region0_pt' =
             [page \in KernelPage |->
                IF page \in StackPage THEN S[page - StackBase + 1]
                ELSE IF page = ScratchPage THEN Invalid ELSE kernel_region0_pt[page]]
        /\ UNCHANGED current_kernel_brk_page
    BY <1>1 DEF StartInit
  <1>7. /\ FreedStack(S) = TS /\ TS \subseteq Free /\ Free = Frame \ frame_allocated
        /\ Single(S, 1 .. StackPages, 0)
    BY <1>1, NewStackHolds
  <1>8. A \in SUBSET Frame
    BY <1>1, <1>7 DEF FrameInv, LayoutInv, TypeOK
  <1>9. Single(pt2, Page, Invalid) /\ Held(pt2, Page) = TT /\ \A f \in TT : f \notin A
    <2>1. PICK T : T = {}
      OBVIOUS
    <2>2. free = Frame \ (A \ T)
      BY <1>1, <2>1
    <2>3. /\ Single(pt2, Page, Invalid) /\ Held(pt2, Page) = TT
          /\ \A f \in TT : f \in T \/ f \notin A
      <3>1. Loads(A, T, prog)
        BY <1>5, <1>8, LoadHolds
      <3> QED
        BY <1>1, <2>2, <3>1 DEF Loads
    <2> QED
      BY <2>1, <2>3
  <1>10. /\ \A f \in TS : f \notin frame_allocated
         /\ \A f \in TT : f \notin frame_allocated /\ f \notin TS
         /\ frame_allocated' = (frame_allocated \cup TS) \cup TT
    BY <1>1, <1>5, <1>7, <1>9
  <1>11. KeepsHeap
    BY <1>6 DEF KeepsHeap
  <1>12. FreeJunk'
    BY <1>5, KeptJunk
  <1> QED
    BY <1>2, <1>5, <1>6, <1>7, <1>9, <1>10, <1>11, <1>12, CreateStep

----------------------------------------------------------------------------

(* The frames at power-on.                                                 *)
LEMMA BootHolds ==
  ASSUME MaxKernelBrk < StackBase, Init
  PROVE  \E built \in Nat, stack_pfn \in Frame :
           /\ FirstText < built /\ built < StackBase
           /\ current_kernel_brk_page < StackBase
           /\ stack_pfn \notin (0 .. built - 1) \cup StackPage
           /\ frame_allocated = (0 .. built - 1) \cup StackPage \cup {stack_pfn}
           /\ HeapFrames = FirstText .. built - 1
           /\ Single(kernel_region0_pt, HeapPage, Invalid) /\ ImageMapped
           /\ region1_pt[Idle] = [NoTable EXCEPT ![PtLen - 1] = stack_pfn]
           /\ kernel_stack_pfns[Idle] = [i \in 1 .. StackPages |-> StackBase + i - 1]
           /\ \A p \in Proc \ {Idle} : region1_pt[p] = NoTable /\ kernel_stack_pfns[p] = NoStack
           /\ LateGrowth = 0 => HeapMapped
  <1>1. PICK start, built, on \in OrigBrk .. MaxKernelBrk, stack_pfn \in Frame :
          /\ start <= built /\ built <= on /\ on <= built + LateGrowth
          /\ Boot(start, built, on)
          /\ stack_pfn \notin MemoryInit(start, built)
          /\ MemoryInit(start, built) \subseteq Frame
          /\ frame_allocated = MemoryInit(start, built) \cup {stack_pfn}
          /\ region1_pt = [p \in Proc |->
               IF p = Idle THEN [NoTable EXCEPT ![PtLen - 1] = stack_pfn] ELSE NoTable]
    BY BootGives
  <1>2. /\ start \in Nat /\ built \in Nat /\ on \in Nat
        /\ OrigBrk <= built /\ on < StackBase /\ start <= built /\ built <= on
    BY <1>1, MemoryFacts, FrameFacts
  <1>3. MemoryInit(start, built) = (0 .. built - 1) \cup StackPage
    BY <1>2 DEF MemoryInit
  <1>4. /\ kernel_region0_pt = MemoryBuildKernelRegion0(built)
        /\ current_kernel_brk_page = on
        /\ kernel_stack_pfns = [p \in Proc |->
             IF p = Idle THEN [i \in 1 .. StackPages |-> StackBase + i - 1] ELSE NoStack]
    BY <1>1 DEF Boot
  <1>5. /\ FirstText < built /\ built < StackBase
        /\ current_kernel_brk_page < StackBase
    BY <1>2, <1>4, FrameFacts
  <1>6. HeapPage = FirstText .. on - 1
    BY <1>4 DEF HeapPage
  <1>7. ASSUME NEW page \in HeapPage
        PROVE  /\ page \in KernelPage
               /\ kernel_region0_pt[page] = IF page \in FirstText .. built - 1 THEN page ELSE Invalid
    <2>1. page \in KernelPage /\ page \notin StackPage
      BY <1>2, <1>6, FrameFacts DEF KernelPage, StackPage
    <2> QED
      BY <1>4, <2>1 DEF MemoryBuildKernelRegion0
  <1>8. FirstText .. built - 1 \subseteq HeapPage /\ Invalid \notin FirstText .. built - 1
    BY <1>2, <1>6, FrameFacts
  <1>9. HeapFrames = FirstText .. built - 1
    <2>1. DOMAIN kernel_region0_pt = KernelPage
      BY <1>4 DEF MemoryBuildKernelRegion0
    <2>2. \A f : f \in HeapFrames <=> \E page \in HeapPage : kernel_region0_pt[page] # Invalid /\ f = kernel_region0_pt[page]
      BY <1>7, <2>1 DEF HeapFrames, Held, Valid
    <2>3. \A f : f \in HeapFrames <=> f \in FirstText .. built - 1
      BY <1>7, <1>8, <2>2
    <2> QED
      BY <2>3
  <1>10. Single(kernel_region0_pt, HeapPage, Invalid)
    BY <1>7 DEF Single
  <1>11. ImageMapped
    <2>1. FirstText .. OrigBrk - 1 \subseteq FirstText .. built - 1
      BY <1>2, FrameFacts
    <2> QED
      BY <1>7, <1>8, <2>1 DEF ImageMapped
  <1>12. LateGrowth = 0 => HeapMapped
    <2>1. LateGrowth = 0 => HeapPage = FirstText .. built - 1
      BY <1>1, <1>2, <1>6
    <2> QED
      BY <1>7, <1>8, <2>1 DEF HeapMapped
  <1>13. /\ region1_pt[Idle] = [NoTable EXCEPT ![PtLen - 1] = stack_pfn]
         /\ kernel_stack_pfns[Idle] = [i \in 1 .. StackPages |-> StackBase + i - 1]
         /\ \A p \in Proc \ {Idle} : region1_pt[p] = NoTable /\ kernel_stack_pfns[p] = NoStack
    BY <1>1, <1>4, MemoryFacts
  <1> QED
    BY <1>1, <1>2, <1>3, <1>5, <1>9, <1>10, <1>11, <1>12, <1>13

LEMMA InitFrames ==
  ASSUME MaxKernelBrk < StackBase, Init
  PROVE  FrameInv
  <1>1. PICK built \in Nat, stack_pfn \in Frame :
           /\ FirstText < built /\ built < StackBase
           /\ current_kernel_brk_page < StackBase
           /\ stack_pfn \notin (0 .. built - 1) \cup StackPage
           /\ frame_allocated = (0 .. built - 1) \cup StackPage \cup {stack_pfn}
           /\ HeapFrames = FirstText .. built - 1
           /\ Single(kernel_region0_pt, HeapPage, Invalid) /\ ImageMapped
           /\ region1_pt[Idle] = [NoTable EXCEPT ![PtLen - 1] = stack_pfn]
           /\ kernel_stack_pfns[Idle] = [i \in 1 .. StackPages |-> StackBase + i - 1]
           /\ \A p \in Proc \ {Idle} : region1_pt[p] = NoTable /\ kernel_stack_pfns[p] = NoStack
    BY BootHolds
  <1>2. LayoutInv /\ Idle \in Proc
    BY InitLayout, MemoryFacts
  <1>3. \A p \in Proc \ {Idle} : TableFrames(p) = {} /\ StackFrames(p) = {}
    BY <1>1, EmptyFrames
  <1>4. PICK pt2 : pt2 = region1_pt[Idle]
    OBVIOUS
  <1>5. /\ PtLen - 1 \in Page /\ stack_pfn # Invalid
        /\ \A page \in Page : pt2[page] = IF page = PtLen - 1 THEN stack_pfn ELSE Invalid
    BY <1>1, <1>4, FrameFacts, EmptyTables DEF Page
  <1>6. TableFrames(Idle) = {stack_pfn}
    <2>1. pt2 \in [Page -> Entry]
      BY <1>2, <1>4 DEF LayoutInv, TypeOK, Entry
    <2>2. \A f : f \in Held(pt2, Page) <=> \E page \in Page : pt2[page] # Invalid /\ f = pt2[page]
      BY <2>1, HeldIs
    <2>3. \A f : f \in Held(pt2, Page) <=> f = stack_pfn
      BY <1>5, <2>2
    <2> QED
      BY <1>4, <2>3 DEF TableFrames
  <1>7. /\ \A i \in 1 .. StackPages : /\ kernel_stack_pfns[Idle][i] = StackBase + i - 1
                                      /\ StackBase + i - 1 \in StackPage
                                      /\ StackBase + i - 1 # 0
        /\ \A f \in StackPage : /\ f - StackBase + 1 \in 1 .. StackPages
                                /\ StackBase + (f - StackBase + 1) - 1 = f
    BY <1>1, FrameFacts DEF StackPage
  <1>8. StackFrames(Idle) = StackPage
    <2>1. \A f : f \in StackFrames(Idle) <=> \E i \in 1 .. StackPages : f = StackBase + i - 1
      BY <1>7 DEF StackFrames
    <2>2. \A f : f \in StackFrames(Idle) <=> f \in StackPage
      BY <1>7, <2>1
    <2> QED
      BY <2>2
  <1>9. EmptyHolds
    BY <1>1, <1>2 DEF EmptyHolds, LayoutInv, Init, Boot
  <1>10. Unshared
    <2>1. Single(pt2, Page, Invalid)
      BY <1>5 DEF Single
    <2>2. \A i, j \in 1 .. StackPages : i # j => StackBase + i - 1 # StackBase + j - 1
      BY FrameFacts
    <2>3. Single(kernel_stack_pfns[Idle], 1 .. StackPages, 0)
      BY <1>7, <2>2 DEF Single
    <2> QED
      BY <1>1, <1>4, <2>1, <2>3, NoTableSingle DEF Unshared
  <1>11. FreeJunk
    BY DEF Init, Boot, FreeJunk
  <1>12. PICK L, K, I : L = 0 .. FirstText - 1 /\ K = FirstText .. built - 1 /\ I = 0 .. built - 1
    OBVIOUS
  <1>13. /\ I = L \cup K /\ L \cap K = {} /\ I \cap StackPage = {}
    BY <1>1, <1>12, FrameFacts DEF StackPage
  <1>14. /\ holds[Low] = L /\ holds[Heap] = K /\ holds[Table(Idle)] = {stack_pfn}
         /\ holds[Stack(Idle)] = StackPage
         /\ \A p \in Proc \ {Idle} : holds[Table(p)] = {} /\ holds[Stack(p)] = {}
    BY <1>1, <1>2, <1>3, <1>6, <1>8, <1>12, HoldsAre
  <1>15. /\ frame_allocated = I \cup StackPage \cup {stack_pfn}
         /\ stack_pfn \notin I /\ stack_pfn \notin StackPage
    BY <1>1, <1>12
  <1>16. \A o \in Owner : o \in {Low, Heap, Table(Idle), Stack(Idle)} \/ holds[o] = {}
    BY <1>14, OwnersAre
  <1>17. Divided(frame_allocated, holds, Owner)
    <2>1. ASSUME NEW o \in Owner, NEW f \in holds[o]
          PROVE  f \in frame_allocated
      BY <1>13, <1>14, <1>15, <1>16, <2>1
    <2>2. ASSUME NEW f \in frame_allocated
          PROVE  \E o \in Owner : f \in holds[o]
      <3>1. f \in L \/ f \in K \/ f \in StackPage \/ f = stack_pfn
        BY <1>13, <1>15, <2>2
      <3>2. f \in holds[Low] \/ f \in holds[Heap] \/ f \in holds[Stack(Idle)] \/ f \in holds[Table(Idle)]
        BY <1>14, <3>1
      <3> QED
        BY <1>2, <3>2, OwnersAre
    <2>3. ASSUME NEW o \in Owner, NEW x \in Owner, NEW f \in holds[o], f \in holds[x]
          PROVE  o = x
      <3>1. o \in {Low, Heap, Table(Idle), Stack(Idle)} /\ x \in {Low, Heap, Table(Idle), Stack(Idle)}
        BY <1>16, <2>3
      <3> QED
        BY <1>13, <1>14, <1>15, <2>3, <3>1
    <2> QED
      BY <2>1, <2>2, <2>3 DEF Divided
  <1> QED
    BY <1>1, <1>2, <1>9, <1>10, <1>11, <1>17 DEF FrameInv

LEMMA NextFrames ==
  ASSUME MaxKernelBrk < StackBase, FrameInv, [Next]_vars
  PROVE  FrameInv'
  <1> USE DEF vars
  <1>0. LayoutInv /\ LayoutInv'
    BY NextLayout DEF FrameInv
  <1>1. CASE UNCHANGED <<kernelVars, current_process, pcbVars, layoutVars>>
    BY <1>0, <1>1, HaltsFrames
  <1>2. CASE UNCHANGED vars \/ MemoryAllocPageTableFails \/ StartInitFails \/ Stopped
    BY <1>1, <1>2 DEF MemoryAllocPageTableFails, StartInitFails, Stopped
  <1>4. CASE \E requested \in 0 .. MaxKernelBrk : SetKernelBrk(requested)
    BY <1>0, <1>4, SetKernelBrkFrames
  <1>5. CASE \E page \in Page, v \in Value : Store(page, v)
    BY <1>0, <1>5, StoreFrames
  <1>6. CASE \E new \in 0 .. PtLen : SysBrk(new)
    BY <1>0, <1>6, SysBrkFrames
  <1>7. CASE \E next \in Proc : Exit(next)
    BY <1>0, <1>7, ExitFrames
  <1>8. CASE \E page \in Page, next \in Proc : TrapMemory(page, next)
    BY <1>0, <1>8, TrapMemoryFrames
  <1>9. CASE \E child \in Proc : SysFork(child)
    BY <1>0, <1>9, SysForkFrames
  <1>10. CASE SysForkFails
    BY <1>0, <1>10, SysForkFailsFrames
  <1>11. CASE \E child \in Proc : SysWait(child)
    BY <1>0, <1>11, SysWaitFrames
  <1>12. CASE \E prog \in Programs : SysExec(prog)
    BY <1>0, <1>12, SysExecFrames
  <1>13. CASE \E prog \in Programs, next \in Proc : SysExecKills(prog, next)
    BY <1>0, <1>13, SysExecKillsFrames
  <1>14. CASE \E prog \in Programs : StartInit(prog)
    BY <1>0, <1>14, StartInitFrames
  <1>15. CASE \E next \in Proc : Switch(next)
    BY <1>0, <1>15, SwitchFrames
  <1> QED
    BY <1>2, <1>4, <1>5, <1>6, <1>7, <1>8, <1>9, <1>10, <1>11,
       <1>12, <1>13, <1>14, <1>15 DEF Next

LEMMA FramesInvariant ==
  ASSUME MaxKernelBrk < StackBase
  PROVE  Spec => []FrameInv
  <1>1. Init => FrameInv
    BY InitFrames
  <1>2. FrameInv /\ [Next]_vars => FrameInv'
    BY NextFrames
  <1> QED
    BY <1>1, <1>2, PTL DEF Spec

(* What FrameInv says of the kernel's frames and of two processes.         *)
LEMMA FramesApart ==
  ASSUME FrameInv
  PROVE  FramesExclusive
  <1>1. \A o1, o2 \in Owner : \A f : f \in holds[o1] /\ f \in holds[o2] => o1 = o2
    BY DEF FrameInv, Divided
  <1>2. ASSUME NEW p \in Proc
        PROVE  /\ \A f \in TableFrames(p) : f \notin 0 .. FirstText - 1 /\ f \notin HeapFrames
               /\ \A f \in StackFrames(p) : f \notin 0 .. FirstText - 1 /\ f \notin HeapFrames
    <2>1. /\ \A f \in holds[Table(p)] : f \notin holds[Low] /\ f \notin holds[Heap]
          /\ \A f \in holds[Stack(p)] : f \notin holds[Low] /\ f \notin holds[Heap]
      BY <1>1, OwnersAre
    <2> QED
      BY <2>1, HoldsAre
  <1>3. ASSUME NEW p \in Proc, NEW q \in Proc
        PROVE  /\ \A f \in TableFrames(p) : f \notin StackFrames(q)
               /\ q # p => \A f \in TableFrames(p) : f \notin TableFrames(q)
               /\ q # p => \A f \in StackFrames(p) : f \notin StackFrames(q)
    BY <1>1, OwnersAre, HoldsAre
  <1>4. \A f : f \in KernelFrames <=> f \in 0 .. FirstText - 1 \/ f \in HeapFrames
    BY DEF KernelFrames, HeapFrames
  <1>5. \A p \in Proc :
          /\ TableFrames(p) \cap KernelFrames = {}
          /\ StackFrames(p) \cap KernelFrames = {}
          /\ \A q \in Proc : TableFrames(p) \cap StackFrames(q) = {}
          /\ \A q \in Proc \ {p} : TableFrames(p) \cap TableFrames(q) = {}
          /\ \A q \in Proc \ {p} : StackFrames(p) \cap StackFrames(q) = {}
    BY <1>2, <1>3, <1>4
  <1>6. /\ \A p \in Proc : \A i, j \in Page :
             i # j /\ region1_pt[p][i] # Invalid => region1_pt[p][i] # region1_pt[p][j]
        /\ \A p \in Proc : \A i, j \in 1 .. StackPages :
             i # j /\ kernel_stack_pfns[p][i] # 0 =>
               kernel_stack_pfns[p][i] # kernel_stack_pfns[p][j]
        /\ \A i, j \in HeapPage :
             i # j /\ kernel_region0_pt[i] # Invalid =>
               kernel_region0_pt[i] # kernel_region0_pt[j]
    BY DEF FrameInv, Unshared, Single
  <1> QED
    BY <1>5, <1>6 DEF FramesExclusive

LEMMA FramesAllHeld ==
  ASSUME FrameInv
  PROVE  FramesAccounted
  <1>1. \A f : f \in frame_allocated <=> \E o \in Owner : f \in holds[o]
    BY DEF FrameInv, Divided
  <1>2. \A f : (\E o \in Owner : f \in holds[o])
                 <=> \/ f \in 0 .. FirstText - 1 \/ f \in HeapFrames
                     \/ \E p \in Proc : f \in TableFrames(p) \/ f \in StackFrames(p)
    <2>1. \A f : (\E o \in Owner : f \in holds[o])
                   <=> \/ f \in holds[Low] \/ f \in holds[Heap]
                       \/ \E p \in Proc : f \in holds[Table(p)] \/ f \in holds[Stack(p)]
      BY OwnersAre
    <2> QED
      BY <2>1, HoldsAre
  <1>3. \A f : f \in KernelFrames <=> f \in 0 .. FirstText - 1 \/ f \in HeapFrames
    BY DEF KernelFrames, HeapFrames
  <1>4. \A f : f \in (UNION {TableFrames(p) \cup StackFrames(p) : p \in Proc})
                 <=> \E p \in Proc : f \in TableFrames(p) \/ f \in StackFrames(p)
    OBVIOUS
  <1> QED
    BY <1>1, <1>2, <1>3, <1>4 DEF FramesAccounted

(* For every size of the machine and every set of programs, no frame ever  *)
(* serves two purposes, whatever Fork, Exec, Brk, stack growth and the     *)
(* kernel's malloc do and wherever they fail, as long as the kernel heap   *)
(* stays out of the scratch page: MemoryMapScratchPage overwrites what     *)
(* SetKernelBrk has mapped there.                                          *)
THEOREM FramesExclusiveCorrect == MaxKernelBrk < StackBase /\ Spec => []FramesExclusive
  <1> SUFFICES ASSUME MaxKernelBrk < StackBase
               PROVE  Spec => []FramesExclusive
    OBVIOUS
  <1>1. FrameInv => FramesExclusive
    BY FramesApart
  <1> QED
    BY <1>1, FramesInvariant, PTL

(* ... and frame_allocated is exact: FrameFree never gives back a frame    *)
(* that is in use, and no failing call loses one.                          *)
THEOREM FramesAccountedCorrect == MaxKernelBrk < StackBase /\ Spec => []FramesAccounted
  <1> SUFFICES ASSUME MaxKernelBrk < StackBase
               PROVE  Spec => []FramesAccounted
    OBVIOUS
  <1>1. FrameInv => FramesAccounted
    BY FramesAllHeld
  <1> QED
    BY <1>1, FramesInvariant, PTL

----------------------------------------------------------------------------
(* The kernel's own mappings.                                              *)

StackMapped ==
  \A page \in StackPage : kernel_region0_pt[page] =
    kernel_stack_pfns[current_process][page - StackBase + 1]

(* A step that leaves the kernel stack of the current process alone.       *)
LEMMA StackKept ==
  ASSUME StackMapped,
         \A page \in StackPage : kernel_region0_pt'[page] = kernel_region0_pt[page],
         current_process' = current_process,
         kernel_stack_pfns'[current_process] = kernel_stack_pfns[current_process]
  PROVE  StackMapped'
  BY DEF StackMapped

(* ... and one that changes to another process.                            *)
LEMMA StackSwitched ==
  ASSUME kernel_region0_pt' = StackOf(kernel_region0_pt, current_process'),
         UNCHANGED kernel_stack_pfns
  PROVE  StackMapped'
  BY MemoryFacts DEF StackMapped, StackOf

LEMMA SetKernelBrkMapped ==
  ASSUME MaxKernelBrk < StackBase, FrameInv, HeapMapped, StackMapped,
         NEW requested \in 0 .. MaxKernelBrk, SetKernelBrk(requested)
  PROVE  HeapMapped' /\ StackMapped'
  <1>1. PICK old, new, m, pt, A :
          /\ old = current_kernel_brk_page /\ new = NotBelowImage(requested)
          /\ pt = kernel_region0_pt /\ A = frame_allocated
          /\ m = MoveBreak(pt, A, old, new)
    OBVIOUS
  <1>2. /\ kernel_region0_pt' = m.pt
        /\ current_kernel_brk_page' = IF m.ok THEN new ELSE old
        /\ UNCHANGED <<current_process, kernel_stack_pfns>>
    BY <1>1 DEF SetKernelBrk, pcbVars
  <1>3. /\ old \in Nat /\ OrigBrk <= old /\ old < StackBase
        /\ pt \in [KernelPage -> Entry] /\ A \in SUBSET Frame
    <2>1. /\ old \in OrigBrk .. StackBase /\ old < StackBase
          /\ pt \in [KernelPage -> Entry] /\ A \in SUBSET Frame
      BY <1>1 DEF FrameInv, LayoutInv, TypeOK, Entry
    <2>2. OrigBrk \in Nat /\ StackBase \in Nat
      BY FrameFacts
    <2> QED
      BY <2>1, <2>2
  <1>4. new \in Nat /\ OrigBrk <= new /\ new < StackBase
    BY <1>1, MemoryFacts, FrameFacts DEF NotBelowImage
  <1>5. old .. new - 1 \subseteq KernelPage
    BY <1>3, <1>4, FrameFacts DEF KernelPage
  <1>6. BreakMoved(pt, A, old, new, m)
    BY <1>1, <1>3, <1>4, <1>5, MoveBreakGives
  <1>7. /\ \A page \in FirstText .. old - 1 : page \in KernelPage /\ pt[page] # Invalid
        /\ \A page \in StackPage : /\ page \in KernelPage
                                   /\ page \notin old .. new - 1 /\ page \notin new .. old - 1
    BY <1>1, <1>3, <1>4, FrameFacts DEF HeapMapped, HeapPage, KernelPage, StackPage
  <1>8. HeapPage' = IF m.ok THEN FirstText .. new - 1 ELSE FirstText .. old - 1
    BY <1>2 DEF HeapPage
  <1>9. CASE /\ m.ok /\ old <= new
             /\ Filled(pt, m.pt, old .. new - 1, Frame \ A)
    <2>1. /\ \A page \in old .. new - 1 : m.pt[page] # Invalid
          /\ \A page \in KernelPage : page \notin old .. new - 1 => m.pt[page] = pt[page]
      BY <1>3, <1>9, FrameFacts DEF Filled, Fresh
    <2>2. \A page \in FirstText .. new - 1 :
            page \in old .. new - 1 \/ (page \in FirstText .. old - 1 /\ page \notin old .. new - 1)
      <3>1. FirstText \in Nat /\ old \in Nat /\ new \in Nat
        BY <1>3, <1>4, FrameFacts
      <3> QED
        BY <3>1
    <2>3. \A page \in FirstText .. new - 1 : m.pt[page] # Invalid
      BY <1>7, <2>1, <2>2
    <2> QED
      BY <1>1, <1>2, <1>7, <1>8, <1>9, <2>1, <2>3, StackKept DEF HeapMapped
  <1>10. CASE m.ok /\ new < old /\ m.pt = Unmapped(pt, new .. old - 1)
    <2>1. \A page \in KernelPage : page \notin new .. old - 1 => m.pt[page] = pt[page]
      BY <1>3, <1>10 DEF Unmapped
    <2>2. \A page \in FirstText .. new - 1 : page \in FirstText .. old - 1 /\ page \notin new .. old - 1
      BY <1>3, <1>4, <1>10, FrameFacts
    <2>3. \A page \in FirstText .. new - 1 : m.pt[page] # Invalid
      BY <1>7, <2>1, <2>2
    <2> QED
      BY <1>1, <1>2, <1>7, <1>8, <1>10, <2>1, <2>3, StackKept DEF HeapMapped
  <1>11. CASE ~m.ok /\ \E U \in SUBSET (old .. new - 1) : m.pt = Unmapped(pt, U)
    <2>1. \A page \in KernelPage : page \notin old .. new - 1 => m.pt[page] = pt[page]
      BY <1>3, <1>11 DEF Unmapped
    <2>2. \A page \in FirstText .. old - 1 : page \notin old .. new - 1
      BY <1>3, <1>4, FrameFacts
    <2>3. \A page \in FirstText .. old - 1 : m.pt[page] # Invalid
      BY <1>7, <2>1, <2>2
    <2> QED
      BY <1>1, <1>2, <1>7, <1>8, <1>11, <2>1, <2>3, StackKept DEF HeapMapped
  <1> QED
    BY <1>6, <1>9, <1>10, <1>11 DEF BreakMoved

(* The other steps touch the scratch page and the stack only.              *)
LEMMA ExitMapped ==
  ASSUME FrameInv, StackMapped, NEW next \in Proc, ProcessExitCurrent(next),
         UNCHANGED <<current_kernel_brk_page, kernel_stack_pfns>>
  PROVE  KeepsHeap /\ StackMapped'
  <1>1. KeepsHeap
    BY ExitKeepsHeap DEF FrameInv, LayoutInv
  <1>2. \/ UNCHANGED <<kernel_region0_pt, current_process>>
        \/ kernel_region0_pt' = StackOf(kernel_region0_pt, current_process')
    BY ExitGives DEF FrameInv, LayoutInv
  <1> QED
    BY <1>1, <1>2, StackKept, StackSwitched

LEMMA ForkMapped ==
  ASSUME FrameInv, StackMapped, UNCHANGED <<current_kernel_brk_page, current_process>>,
         kernel_stack_pfns'[current_process] = kernel_stack_pfns[current_process],
         \/ UNCHANGED kernel_region0_pt
         \/ \E e : kernel_region0_pt' = [kernel_region0_pt EXCEPT ![ScratchPage] = e]
  PROVE  KeepsHeap /\ StackMapped'
  <1>1. \A page \in KernelPage : page # ScratchPage =>
          kernel_region0_pt'[page] = kernel_region0_pt[page]
    BY DEF FrameInv, LayoutInv, TypeOK
  <1>2. \A page \in StackPage : kernel_region0_pt'[page] = kernel_region0_pt[page]
    BY <1>1, MemoryFacts
  <1> QED
    BY <1>1, <1>2, StackKept DEF KeepsHeap

LEMMA StartInitMapped ==
  ASSUME FrameInv, NEW prog \in Programs, StartInit(prog)
  PROVE  KeepsHeap /\ StackMapped'
  <1>1. /\ \A page \in StackPage : kernel_region0_pt'[page] = ChildStack[page - StackBase + 1]
        /\ \A page \in KernelPage : page # ScratchPage /\ page \notin StackPage =>
             kernel_region0_pt'[page] = kernel_region0_pt[page]
        /\ UNCHANGED current_kernel_brk_page /\ current_process' = InitProc
    BY MemoryFacts DEF StartInit
  <1>2. kernel_stack_pfns'[InitProc] = ChildStack
    BY MemoryFacts DEF StartInit, FrameInv, LayoutInv, TypeOK
  <1> QED
    BY <1>1, <1>2 DEF KeepsHeap, StackMapped

LEMMA NextMapped ==
  ASSUME MaxKernelBrk < StackBase, FrameInv, FrameInv', HeapMapped, StackMapped, [Next]_vars
  PROVE  HeapMapped' /\ StackMapped'
  <1>1. ASSUME KeepsHeap
        PROVE  HeapMapped'
    <2>1. HeapPage' = HeapPage
      BY <1>1 DEF KeepsHeap, HeapPage
    <2>2. \A page \in HeapPage : kernel_region0_pt'[page] = kernel_region0_pt[page]
      BY <1>1, HeapPages DEF FrameInv, LayoutInv, KeepsHeap
    <2> QED
      BY <2>1, <2>2 DEF HeapMapped
  <1>2. ASSUME UNCHANGED <<kernel_region0_pt, current_kernel_brk_page, current_process>>,
               kernel_stack_pfns'[current_process] = kernel_stack_pfns[current_process]
        PROVE  KeepsHeap /\ StackMapped'
    BY <1>2, StackKept DEF KeepsHeap
  <1>3. CASE \/ UNCHANGED vars \/ MemoryAllocPageTableFails \/ StartInitFails \/ Stopped
             \/ \E page \in Page, v \in Value : Store(page, v)
             \/ \E new \in 0 .. PtLen : SysBrk(new)
             \/ \E prog \in Programs : SysExec(prog)
    <2>1. UNCHANGED <<kernel_region0_pt, current_kernel_brk_page, current_process, kernel_stack_pfns>>
      BY <1>3 DEF vars, kernelVars, pcbVars, MemoryAllocPageTableFails, StartInitFails,
                  Stopped, Store, SysBrk, SysExec
    <2> QED
      BY <1>1, <1>2, <2>1
  <1>4. CASE \E requested \in 0 .. MaxKernelBrk : SetKernelBrk(requested)
    BY <1>4, SetKernelBrkMapped
  <1>5. CASE \E next \in Proc : Exit(next)
    BY <1>1, <1>5, ExitMapped DEF Exit
  <1>6. ASSUME NEW page \in Page, NEW next \in Proc, TrapMemory(page, next)
        PROVE  HeapMapped' /\ StackMapped'
    <2>1. /\ UNCHANGED <<current_kernel_brk_page, kernel_stack_pfns>>
          /\ UNCHANGED <<kernel_region0_pt, current_process>> \/ ProcessExitCurrent(next)
      BY <1>6 DEF TrapMemory
    <2> QED
      BY <1>1, <1>2, <2>1, ExitMapped
  <1>7. ASSUME NEW child \in Proc, SysFork(child)
        PROVE  HeapMapped' /\ StackMapped'
    <2>1. /\ UNCHANGED <<current_kernel_brk_page, current_process>>
          /\ kernel_region0_pt' = [kernel_region0_pt EXCEPT ![ScratchPage] = Invalid]
          /\ kernel_stack_pfns' = [kernel_stack_pfns EXCEPT ![child] = ChildStack]
          /\ status[child] = "EMPTY"
      BY <1>7 DEF SysFork
    <2>2. kernel_stack_pfns'[current_process] = kernel_stack_pfns[current_process]
      BY <2>1 DEF FrameInv, LayoutInv, TypeOK
    <2> QED
      BY <1>1, <2>1, <2>2, ForkMapped
  <1>8. CASE SysForkFails
    <2>1. /\ UNCHANGED <<current_kernel_brk_page, current_process, kernel_stack_pfns>>
          /\ \/ UNCHANGED kernel_region0_pt
             \/ \E e : kernel_region0_pt' = [kernel_region0_pt EXCEPT ![ScratchPage] = e]
      BY <1>8 DEF SysForkFails, pcbVars
    <2> QED
      BY <1>1, <2>1, ForkMapped
  <1>9. ASSUME NEW child \in Proc, SysWait(child)
        PROVE  HeapMapped' /\ StackMapped'
    <2>1. /\ UNCHANGED <<kernel_region0_pt, current_kernel_brk_page, current_process>>
          /\ kernel_stack_pfns' = [kernel_stack_pfns EXCEPT ![child] = NoStack]
          /\ status[child] = "ZOMBIE"
      BY <1>9 DEF SysWait
    <2>2. kernel_stack_pfns'[current_process] = kernel_stack_pfns[current_process]
      BY <2>1 DEF FrameInv, LayoutInv, TypeOK
    <2> QED
      BY <1>1, <1>2, <2>1, <2>2
  <1>10. CASE \E prog \in Programs, next \in Proc : SysExecKills(prog, next)
    BY <1>1, <1>10, ExitMapped DEF SysExecKills
  <1>11. CASE \E prog \in Programs : StartInit(prog)
    BY <1>1, <1>11, StartInitMapped
  <1>12. ASSUME NEW next \in Proc, Switch(next)
         PROVE  HeapMapped' /\ StackMapped'
    <2>1. /\ kernel_region0_pt' = StackOf(kernel_region0_pt, current_process')
          /\ UNCHANGED <<current_kernel_brk_page, kernel_stack_pfns>>
      BY <1>12 DEF Switch, pcbVars
    <2>2. KeepsHeap
      BY <2>1 DEF KeepsHeap, StackOf
    <2> QED
      BY <1>1, <2>1, <2>2, StackSwitched
  <1> QED
    BY <1>3, <1>4, <1>5, <1>6, <1>7, <1>8, <1>9, <1>10, <1>11, <1>12 DEF Next

LEMMA InitMapped ==
  ASSUME MaxKernelBrk < StackBase, LateGrowth = 0, Init
  PROVE  HeapMapped /\ StackMapped
  <1>1. /\ HeapMapped
        /\ kernel_stack_pfns[Idle] = [i \in 1 .. StackPages |-> StackBase + i - 1]
    BY BootHolds
  <1>2. /\ \A page \in StackPage : kernel_region0_pt[page] = page
        /\ current_process = Idle
    BY MemoryFacts DEF Init, Boot, MemoryBuildKernelRegion0
  <1>3. \A page \in StackPage : /\ page - StackBase + 1 \in 1 .. StackPages
                                /\ StackBase + (page - StackBase + 1) - 1 = page
    BY FrameFacts DEF StackPage
  <1> QED
    BY <1>1, <1>2, <1>3 DEF StackMapped

LEMMA MappedIs ==
  ASSUME FrameInv, HeapMapped, StackMapped
  PROVE  KernelMapped
  <1>1. PICK p : p = current_process
    OBVIOUS
  <1>2. p \in Proc /\ \A f \in StackFrames(p) : f \in frame_allocated
    BY <1>1, HeldAllocated DEF FrameInv, LayoutInv, TypeOK
  <1>3. \A page \in StackPage : page - StackBase + 1 \in 1 .. StackPages
    BY FrameFacts DEF StackPage
  <1>4. \A i \in 1 .. StackPages : kernel_stack_pfns[p][i] \in frame_allocated
    BY <1>2, HeldAllocated DEF StackFrames
  <1> QED
    BY <1>1, <1>3, <1>4 DEF KernelMapped, StackMapped

(* The kernel never loses its own memory: every page of its heap and the   *)
(* kernel stack of the process that runs stay mapped to allocated frames   *)
(* through Fork, exit, Wait and every switch.  This asks two things of     *)
(* malloc: that it stays below the scratch page, and that it takes no heap *)
(* between MemoryInit and the enabling of virtual memory, which nobody     *)
(* would map.                                                              *)
THEOREM KernelMappedCorrect ==
  MaxKernelBrk < StackBase /\ LateGrowth = 0 /\ Spec => []KernelMapped
  <1> SUFFICES ASSUME MaxKernelBrk < StackBase, LateGrowth = 0
               PROVE  Spec => []KernelMapped
    OBVIOUS
  <1>1. Init => HeapMapped /\ StackMapped
    BY InitMapped
  <1>2. FrameInv /\ FrameInv' /\ HeapMapped /\ StackMapped /\ [Next]_vars
          => HeapMapped' /\ StackMapped'
    BY NextMapped
  <1>3. FrameInv /\ HeapMapped /\ StackMapped => KernelMapped
    BY MappedIs
  <1> QED
    BY <1>1, <1>2, <1>3, FramesInvariant, PTL DEF Spec

----------------------------------------------------------------------------
(* Private address spaces.                                                 *)

(* What FrameInv says of the tables, before and after a step.              *)
TablesApart ==
  /\ \A p \in Proc : \A f \in TableFrames(p) : f \in frame_allocated
  /\ \A p, q \in Proc : p # q => \A f \in TableFrames(p) : f \notin TableFrames(q)

LEMMA FrameInvApart == FrameInv => TablesApart
  <1> SUFFICES ASSUME FrameInv PROVE TablesApart
    OBVIOUS
  <1>1. \A p, q \in Proc : p # q => TableFrames(p) \cap TableFrames(q) = {}
    BY FramesApart DEF FramesExclusive
  <1> QED
    BY <1>1, HeldAllocated DEF TablesApart

LEMMA ApartAfter == FrameInv' => TablesApart'
  BY FrameInvApart, PTL

LEMMA SpacesAre ==
  /\ DOMAIN spaces = Proc /\ DOMAIN spaces' = Proc
  /\ \A p \in Proc :
       /\ spaces[p] = [page \in Page |-> IF region1_pt[p][page] = Invalid THEN Invalid
                                         ELSE pmem[region1_pt[p][page]]]
       /\ spaces'[p] = [page \in Page |-> IF region1_pt'[p][page] = Invalid THEN Invalid
                                          ELSE pmem'[region1_pt'[p][page]]]
  BY DEF spaces

(* Every valid entry of a table is one of the table's frames.              *)
LEMMA TableHolds ==
  ASSUME TypeOK, NEW p \in Proc, NEW page \in Page, region1_pt[p][page] # Invalid
  PROVE  region1_pt[p][page] \in TableFrames(p) /\ region1_pt[p][page] \in Frame
  <1>1. region1_pt[p] \in [Page -> Entry]
    BY DEF TypeOK, Entry
  <1> QED
    BY <1>1 DEF TableFrames, Held, Valid, Entry

LEMMA TableHoldsAfter ==
  ASSUME TypeOK', NEW p \in Proc, NEW page \in Page, region1_pt'[p][page] # Invalid
  PROVE  region1_pt'[p][page] \in TableFrames(p)' /\ region1_pt'[p][page] \in Frame
  <1>1. region1_pt'[p] \in [Page -> Entry]
    BY DEF TypeOK, Entry
  <1> QED
    BY <1>1 DEF TableFrames, Held, Valid, Entry

(* A process keeps its address space when its table and the contents of    *)
(* its frames stay.                                                        *)
KeepsSpace(q) ==
  region1_pt'[q] = region1_pt[q] /\ \A f \in TableFrames(q) : pmem'[f] = pmem[f]

LEMMA SpaceKept ==
  ASSUME TypeOK, NEW q \in Proc, KeepsSpace(q)
  PROVE  spaces'[q] = spaces[q]
  <1>1. \A page \in Page : region1_pt[q][page] # Invalid =>
          pmem'[region1_pt[q][page]] = pmem[region1_pt[q][page]]
    BY TableHolds DEF KeepsSpace
  <1>2. region1_pt'[q] = region1_pt[q]
    BY DEF KeepsSpace
  <1> QED
    BY <1>1, <1>2, SpacesAre

(* A step that concerns p only.                                            *)
LEMMA SpaceBecomes ==
  ASSUME TypeOK, NEW p \in Proc, \A q \in Proc \ {p} : KeepsSpace(q),
         NEW new, spaces'[p] = new
  PROVE  Spaces!Becomes(p, new)
  <1>1. \A q \in Proc : spaces'[q] = IF q = p THEN new ELSE spaces[q]
    BY SpaceKept
  <1>2. spaces' = [q \in Proc |-> spaces'[q]] /\ spaces = [q \in Proc |-> spaces[q]]
    BY DEF spaces
  <1> QED
    BY <1>1, <1>2 DEF Spaces!Becomes

LEMMA SpacesSame ==
  ASSUME TypeOK, \A q \in Proc : KeepsSpace(q)
  PROVE  spaces' = spaces
  <1>1. \A q \in Proc : spaces'[q] = spaces[q]
    BY SpaceKept
  <1>2. spaces' = [q \in Proc |-> spaces'[q]] /\ spaces = [q \in Proc |-> spaces[q]]
    BY DEF spaces
  <1> QED
    BY <1>1, <1>2

(* Frames of others are not touched by a step that keeps what is allocated *)
(* after it.                                                               *)
LEMMA OthersKept ==
  ASSUME TablesApart', \A f \in frame_allocated' : pmem'[f] = pmem[f],
         NEW q \in Proc, region1_pt'[q] = region1_pt[q]
  PROVE  KeepsSpace(q)
  <1>1. TableFrames(q)' = TableFrames(q)
    BY DEF TableFrames
  <1> QED
    BY <1>1 DEF KeepsSpace, TablesApart

(* A table whose entries stay, go or are frames that were free, on pages   *)
(* that were not mapped.                                                   *)
LEMMA SpaceResizes ==
  ASSUME FrameInv, FrameInv', NEW p \in Proc,
         \A q \in Proc \ {p} : region1_pt'[q] = region1_pt[q],
         \A f \in frame_allocated' : pmem'[f] = pmem[f],
         \A page \in Page :
           \/ region1_pt'[p][page] = Invalid
           \/ region1_pt'[p][page] = region1_pt[p][page]
           \/ region1_pt[p][page] = Invalid /\ region1_pt'[p][page] \in Free
  PROVE  Spaces!Resize(p)
  <1>1. TypeOK /\ TypeOK' /\ TablesApart'
    BY ApartAfter DEF FrameInv, LayoutInv
  <1>2. \A q \in Proc \ {p} : KeepsSpace(q)
    BY <1>1, OthersKept
  <1>3. PICK new : new = spaces'[p]
    OBVIOUS
  <1>4. Spaces!Becomes(p, new)
    BY <1>1, <1>2, <1>3, SpaceBecomes
  <1>5. ASSUME NEW page \in Page
        PROVE  \/ new[page] \in {spaces[p][page], Invalid}
               \/ spaces[p][page] = Invalid /\ new[page] = Junk
    <2>1. PICK e, e2 : e = region1_pt[p][page] /\ e2 = region1_pt'[p][page]
      OBVIOUS
    <2>2. /\ spaces[p][page] = IF e = Invalid THEN Invalid ELSE pmem[e]
          /\ new[page] = IF e2 = Invalid THEN Invalid ELSE pmem'[e2]
      BY <1>3, <2>1, SpacesAre
    <2>3. CASE e2 # Invalid
      <3>1. e2 \in frame_allocated' /\ e2 \in Frame
        BY <1>1, <2>1, <2>3, TableHoldsAfter DEF TablesApart
      <3>2. pmem'[e2] = pmem[e2]
        BY <3>1
      <3>3. e2 \in Free => pmem[e2] = Junk
        BY <3>1 DEF FrameInv, FreeJunk, Free
      <3> QED
        BY <2>1, <2>2, <2>3, <3>2, <3>3
    <2> QED
      BY <2>2, <2>3
  <1> QED
    BY <1>3, <1>4, <1>5 DEF Spaces!Resize

(* What a step of the kernel is to the programs.                           *)
SpaceStep == Spaces!Next \/ UNCHANGED spaces

LEMMA KeptContents ==
  ASSUME NEW contents, pmem' = Kept(contents), TypeOK'
  PROVE  \A f \in frame_allocated' : pmem'[f] = contents[f]
  BY DEF Kept, TypeOK

(* Malloc, a Fork that fails, exit, a switch.                              *)
LEMMA TablesSame ==
  ASSUME FrameInv, FrameInv', UNCHANGED region1_pt,
         \A f \in frame_allocated' : pmem'[f] = pmem[f]
  PROVE  SpaceStep
  <1>1. \A q \in Proc : KeepsSpace(q)
    BY ApartAfter, OthersKept
  <1> QED
    BY <1>1, SpacesSame DEF SpaceStep, FrameInv, LayoutInv

LEMMA StoreSpace ==
  ASSUME FrameInv, NEW page \in Page, NEW v \in Value, Store(page, v)
  PROVE  SpaceStep
  <1>1. PICK p, pfn : p = current_process /\ pfn = region1_pt[p][page]
    OBVIOUS
  <1>2. /\ pfn # Invalid /\ pmem' = [pmem EXCEPT ![pfn] = v] /\ UNCHANGED region1_pt
    BY <1>1 DEF Store, pcbVars
  <1>3. p \in Proc /\ TypeOK
    BY <1>1 DEF FrameInv, LayoutInv, TypeOK
  <1>4. pfn \in TableFrames(p) /\ pfn \in Frame
    BY <1>1, <1>2, <1>3, TableHolds
  <1>5. \A f : f # pfn => pmem'[f] = pmem[f]
    BY <1>2, <1>3 DEF TypeOK
  <1>6. pmem'[pfn] = v /\ pmem[pfn] # Invalid
    BY <1>2, <1>3, <1>4, MemoryAssumption DEF TypeOK
  <1>7. \A q \in Proc \ {p} : KeepsSpace(q)
    BY <1>2, <1>3, <1>4, <1>5, FrameInvApart DEF KeepsSpace, TablesApart
  <1>8. \A i \in Page : i # page => region1_pt[p][i] # pfn
    BY <1>1, <1>2, <1>3 DEF FrameInv, Unshared, Single
  <1>9. spaces'[p] = [spaces[p] EXCEPT ![page] = v]
    <2>1. spaces[p] = [i \in Page |-> IF region1_pt[p][i] = Invalid THEN Invalid
                                      ELSE pmem[region1_pt[p][i]]]
      BY <1>3, SpacesAre
    <2>2. spaces'[p] = [i \in Page |-> IF region1_pt[p][i] = Invalid THEN Invalid
                                       ELSE pmem'[region1_pt[p][i]]]
      BY <1>2, <1>3, SpacesAre
    <2>3. \A i \in Page : spaces'[p][i] = IF i = page THEN v ELSE spaces[p][i]
      BY <1>1, <1>2, <1>5, <1>6, <1>8, <2>1, <2>2
    <2>4. spaces[p] = [i \in Page |-> spaces[p][i]] /\ spaces'[p] = [i \in Page |-> spaces'[p][i]]
      BY <2>1, <2>2
    <2> QED
      BY <2>3, <2>4
  <1>10. spaces[p][page] # Invalid
    BY <1>1, <1>2, <1>3, <1>6, SpacesAre
  <1>11. Spaces!Becomes(p, [spaces[p] EXCEPT ![page] = v])
    BY <1>3, <1>7, <1>9, SpaceBecomes
  <1> QED
    BY <1>3, <1>10, <1>11 DEF SpaceStep, Spaces!Next, Spaces!Store

(* What moving a break does to the entries of a table laid out below low.  *)
LEMMA BrkResizes ==
  ASSUME NEW pt \in [Page -> Entry], NEW allocated \in SUBSET Frame,
         NEW hs \in Nat, NEW old \in Nat, NEW low \in Nat, LaidOut(pt, hs, old, low),
         NEW new \in Nat, hs <= new, new < low,
         NEW m, BreakMoved(pt, allocated, old, new, m)
  PROVE  \A page \in Page :
           \/ m.pt[page] = Invalid
           \/ m.pt[page] = pt[page]
           \/ pt[page] = Invalid /\ m.pt[page] \in Frame \ allocated
  <1>1. CASE Filled(pt, m.pt, old .. new - 1, Frame \ allocated)
    <2>1. \A page \in old .. new - 1 : pt[page] = Invalid
      <3>1. \A page \in old .. new - 1 : page \in old .. low - 1
        OBVIOUS
      <3> QED
        BY <3>1 DEF LaidOut
    <2>2. /\ \A page \in old .. new - 1 : m.pt[page] \in Frame \ allocated
          /\ \A page \in Page : page \notin old .. new - 1 => m.pt[page] = pt[page]
      BY <1>1 DEF Filled, Fresh
    <2> QED
      BY <2>1, <2>2
  <1>2. CASE \E U : m.pt = Unmapped(pt, U)
    BY <1>2 DEF Unmapped
  <1> QED
    BY <1>1, <1>2 DEF BreakMoved

LEMMA SysBrkSpace ==
  ASSUME FrameInv, FrameInv', NEW new \in 0 .. PtLen, SysBrk(new)
  PROVE  SpaceStep
  <1>1. PICK p, m : /\ p = current_process
                    /\ m = MoveBreak(region1_pt[p], frame_allocated, user_brk[p], new)
    OBVIOUS
  <1>2. region1_pt' = [region1_pt EXCEPT ![p] = m.pt] /\ pmem' = Kept(pmem)
    BY <1>1 DEF SysBrk
  <1>3. /\ p \in Proc /\ Laid(p) /\ region1_pt[p] \in [Page -> Entry]
        /\ frame_allocated \in SUBSET Frame
        /\ user_heap_start[p] \in Nat /\ user_brk[p] \in Nat
        /\ user_stack_low_page[p] \in Nat /\ new \in Nat
        /\ user_heap_start[p] <= new /\ new < user_stack_low_page[p]
        /\ BreakMoved(region1_pt[p], frame_allocated, user_brk[p], new, m)
    BY <1>1, SysBrkMoves DEF FrameInv
  <1>4. \A page \in Page :
          \/ m.pt[page] = Invalid
          \/ m.pt[page] = region1_pt[p][page]
          \/ region1_pt[p][page] = Invalid /\ m.pt[page] \in Free
    BY <1>3, BrkResizes DEF Laid, Free
  <1>5. region1_pt'[p] = m.pt /\ \A q \in Proc \ {p} : region1_pt'[q] = region1_pt[q]
    BY <1>2, <1>3 DEF FrameInv, LayoutInv, TypeOK
  <1>6. \A f \in frame_allocated' : pmem'[f] = pmem[f]
    BY <1>2, KeptContents DEF FrameInv, LayoutInv
  <1>7. Spaces!Resize(p)
    BY <1>3, <1>4, <1>5, <1>6, SpaceResizes
  <1> QED
    BY <1>3, <1>7 DEF SpaceStep, Spaces!Next

LEMMA TrapMemorySpace ==
  ASSUME FrameInv, FrameInv', NEW page \in Page, NEW next \in Proc, TrapMemory(page, next)
  PROVE  SpaceStep
  <1>1. PICK p, G, N, pt2 :
          /\ p = current_process /\ G = page .. user_stack_low_page[p] - 1
          /\ N = Served(Free, Down(G)) /\ pt2 = Mapped(region1_pt[p], Free, Down(G))
    OBVIOUS
  <1>2. region1_pt' = [region1_pt EXCEPT ![p] = pt2] /\ UNCHANGED pmem
    BY <1>1 DEF TrapMemory
  <1>3. /\ p \in Proc /\ region1_pt[p] \in [Page -> Entry]
        /\ \A i \in G : region1_pt[p][i] = Invalid
        /\ Looped(region1_pt[p], pt2, Free, Down(G), N, G)
    BY <1>1, GrowStackFills DEF FrameInv
  <1>4. /\ \A i \in N : region1_pt[p][i] = Invalid /\ pt2[i] \in Free
        /\ \A i \in Page : i \notin N => pt2[i] = region1_pt[p][i]
    BY <1>3 DEF Looped, Filled, Fresh
  <1>5. region1_pt'[p] = pt2 /\ \A q \in Proc \ {p} : region1_pt'[q] = region1_pt[q]
    BY <1>2, <1>3 DEF FrameInv, LayoutInv, TypeOK
  <1>6. \A i \in Page :
          \/ region1_pt'[p][i] = Invalid
          \/ region1_pt'[p][i] = region1_pt[p][i]
          \/ region1_pt[p][i] = Invalid /\ region1_pt'[p][i] \in Free
    BY <1>4, <1>5
  <1>7. Spaces!Resize(p)
    BY <1>2, <1>3, <1>5, <1>6, SpaceResizes
  <1> QED
    BY <1>3, <1>7 DEF SpaceStep, Spaces!Next

LEMMA SysForkSpace ==
  ASSUME FrameInv, FrameInv', NEW child \in Proc, SysFork(child)
  PROVE  SpaceStep
  <1>1. PICK p, C, N : /\ p = current_process /\ C = ChildTable(p)
                       /\ N = Served(FreeForCopy, CopyRank(p))
    OBVIOUS
  <1>2. /\ status[child] = "EMPTY" /\ Fits(FreeForCopy, CopyRank(p))
        /\ region1_pt' = [region1_pt EXCEPT ![child] = C]
        /\ pmem' = Copied(p)
    BY <1>1 DEF SysFork
  <1>3. TypeOK /\ TypeOK' /\ p \in Proc /\ TablesApart'
    BY <1>1, ApartAfter DEF FrameInv, LayoutInv, TypeOK
  <1>4. /\ Looped(NoTable, C, FreeForCopy, CopyRank(p), N, Valid(region1_pt[p]))
        /\ C \in [Page -> Entry]
        /\ \A page \in Page : C[page] # Invalid <=> page \in N
    BY <1>1, <1>3, ChildTableFills
  <1>5. \A page \in Page : C[page] # Invalid <=> region1_pt[p][page] # Invalid
    <2>1. N = Valid(region1_pt[p])
      BY <1>2, <1>4 DEF Looped
    <2> QED
      BY <1>3, <1>4, <2>1 DEF Valid, TypeOK
  <1>6. Single(C, Page, Invalid)
    BY <1>1, <1>3, ChildTableHolds
  <1>7. region1_pt'[child] = C /\ \A q \in Proc \ {child} : region1_pt'[q] = region1_pt[q]
    BY <1>2, <1>3 DEF TypeOK
  <1>8. \A q \in Proc \ {child} : KeepsSpace(q)
    <2> TAKE q \in Proc \ {child}
    <2>1. TableFrames(q)' = TableFrames(q)
      BY <1>7 DEF TableFrames
    <2>2. ASSUME NEW f \in TableFrames(q)
          PROVE  f \in Frame /\ ~\E page \in Page : C[page] = f
      <3>1. f \in TableFrames(q)' /\ f \in frame_allocated'
        BY <1>3, <2>1 DEF TablesApart
      <3>2. f \notin TableFrames(child)'
        BY <1>3, <3>1 DEF TablesApart
      <3>3. f \in Frame /\ f # Invalid
        BY <1>3, <3>1, FrameFacts DEF TypeOK
      <3> QED
        BY <1>3, <1>7, <3>2, <3>3, TableHoldsAfter
    <2>3. \A f \in TableFrames(q) : pmem'[f] = pmem[f]
      BY <1>1, <1>2, <2>2 DEF Copied
    <2> QED
      BY <1>7, <2>3 DEF KeepsSpace
  <1>9. \A page \in Page : C[page] # Invalid => pmem'[C[page]] = pmem[region1_pt[p][page]]
    <2> SUFFICES ASSUME NEW page \in Page, C[page] # Invalid
                 PROVE  pmem'[C[page]] = pmem[region1_pt[p][page]]
      OBVIOUS
    <2>1. PICK f : f = C[page]
      OBVIOUS
    <2>2. f \in Frame
      BY <1>4, <2>1 DEF Entry
    <2>3. \A i \in Page : C[i] = f => i = page
      BY <1>6, <2>1 DEF Single
    <2>4. (CHOOSE i \in Page : C[i] = f) = page
      BY <2>1, <2>3
    <2>5. pmem'[f] = pmem[region1_pt[p][CHOOSE i \in Page : C[i] = f]]
      BY <1>1, <1>2, <2>1, <2>2 DEF Copied
    <2> QED
      BY <2>1, <2>4, <2>5
  <1>10. spaces'[child] = spaces[p]
    <2>1. spaces'[child] = [page \in Page |-> IF C[page] = Invalid THEN Invalid
                                              ELSE pmem'[C[page]]]
      BY <1>7, SpacesAre
    <2>2. spaces[p] = [page \in Page |-> IF region1_pt[p][page] = Invalid THEN Invalid
                                         ELSE pmem[region1_pt[p][page]]]
      BY <1>3, SpacesAre
    <2> QED
      BY <1>5, <1>9, <2>1, <2>2
  <1>11. spaces[child] = Spaces!NoSpace
    <2>1. region1_pt[child] = NoTable
      BY <1>2 DEF FrameInv, EmptyHolds
    <2> QED
      BY <2>1, SpacesAre, EmptyTables DEF Spaces!NoSpace
  <1>12. Spaces!Becomes(child, spaces[p])
    BY <1>3, <1>8, <1>10, SpaceBecomes
  <1> QED
    BY <1>3, <1>11, <1>12 DEF SpaceStep, Spaces!Next, Spaces!Fork

LEMMA SysWaitSpace ==
  ASSUME FrameInv, FrameInv', NEW child \in Proc, SysWait(child)
  PROVE  SpaceStep
  <1>1. region1_pt' = [region1_pt EXCEPT ![child] = NoTable] /\ pmem' = Kept(pmem)
    BY DEF SysWait
  <1>2. TypeOK /\ TypeOK' /\ TablesApart'
    BY ApartAfter DEF FrameInv, LayoutInv
  <1>3. region1_pt'[child] = NoTable /\ \A q \in Proc \ {child} : region1_pt'[q] = region1_pt[q]
    BY <1>1, <1>2 DEF TypeOK
  <1>4. \A q \in Proc \ {child} : KeepsSpace(q)
    BY <1>1, <1>2, <1>3, KeptContents, OthersKept
  <1>5. spaces'[child] = Spaces!NoSpace
    BY <1>3, SpacesAre, EmptyTables DEF Spaces!NoSpace
  <1>6. Spaces!Becomes(child, Spaces!NoSpace)
    BY <1>2, <1>4, <1>5, SpaceBecomes
  <1> QED
    BY <1>6 DEF SpaceStep, Spaces!Next, Spaces!Destroy

(* A table of which every frame has the contents c.                        *)
LEMMA SpaceLoads ==
  ASSUME FrameInv, FrameInv', NEW p \in Proc, \A q \in Proc \ {p} : KeepsSpace(q),
         NEW c \in {Image, Junk},
         \A page \in Page : region1_pt'[p][page] # Invalid => pmem'[region1_pt'[p][page]] = c
  PROVE  SpaceStep
  <1>1. PICK new : new = spaces'[p]
    OBVIOUS
  <1>2. Spaces!Becomes(p, new)
    BY <1>1, SpaceBecomes DEF FrameInv, LayoutInv
  <1>3. \A page \in Page : new[page] = c \/ new[page] = Invalid
    BY <1>1, SpacesAre
  <1> QED
    BY <1>1, <1>2, <1>3 DEF SpaceStep, Spaces!Next, Spaces!Load

(* LoadProgram into p while A is allocated.                                *)
LEMMA LoadSpace ==
  ASSUME FrameInv, FrameInv', NEW p \in Proc, NEW prog \in Programs,
         NEW A \in SUBSET Frame, LoadProgram(p, prog, A)
  PROVE  SpaceStep
  <1>1. PICK T, free, rank, Y, pt2, c :
          /\ T = Held(region1_pt[p], Page) /\ free = Frame \ (A \ T)
          /\ rank = Up(ProgramPages(prog)) /\ Y = Taken(free, rank)
          /\ pt2 = Mapped(NoTable, free, rank)
          /\ c = [f \in Frame |-> IF f \in Y THEN Image ELSE pmem[f]]
    OBVIOUS
  <1>2. /\ Loadable(prog) /\ region1_pt' = [region1_pt EXCEPT ![p] = pt2]
        /\ pmem' = Kept(c)
    BY <1>1 DEF LoadProgram
  <1>3. TypeOK /\ TypeOK' /\ TablesApart'
    BY ApartAfter DEF FrameInv, LayoutInv
  <1>4. region1_pt'[p] = pt2 /\ \A q \in Proc \ {p} : region1_pt'[q] = region1_pt[q]
    BY <1>2, <1>3 DEF TypeOK
  <1>5. TableFrames(p)' = Y
    <2>1. Loads(A, T, prog)
      BY <1>2, LoadHolds
    <2>2. Held(pt2, Page) = Y
      BY <1>1, <2>1 DEF Loads
    <2> QED
      BY <1>4, <2>2 DEF TableFrames
  <1>6. /\ \A f \in frame_allocated' : f \in Frame /\ pmem'[f] = c[f]
    BY <1>2, <1>3, KeptContents DEF TypeOK
  <1>7. \A q \in Proc \ {p} : KeepsSpace(q)
    <2> TAKE q \in Proc \ {p}
    <2>1. TableFrames(q)' = TableFrames(q)
      BY <1>4 DEF TableFrames
    <2>2. \A f \in TableFrames(q) : f \in frame_allocated' /\ f \notin Y
      BY <1>3, <1>5, <2>1 DEF TablesApart
    <2>3. \A f \in TableFrames(q) : pmem'[f] = pmem[f]
      BY <1>1, <1>6, <2>2
    <2> QED
      BY <1>4, <2>3 DEF KeepsSpace
  <1>8. \A f \in Y : pmem'[f] = Image
    <2>1. \A f \in Y : f \in frame_allocated'
      BY <1>3, <1>5 DEF TablesApart
    <2> QED
      BY <1>1, <1>6, <2>1
  <1>9. \A page \in Page : region1_pt'[p][page] # Invalid => pmem'[region1_pt'[p][page]] = Image
    BY <1>3, <1>5, <1>8, TableHoldsAfter
  <1> QED
    BY <1>7, <1>9, SpaceLoads

LEMMA SysExecSpace ==
  ASSUME FrameInv, FrameInv', NEW prog \in Programs, SysExec(prog)
  PROVE  SpaceStep
  <1>1. current_process \in Proc /\ frame_allocated \in SUBSET Frame
    BY DEF FrameInv, LayoutInv, TypeOK
  <1> QED
    BY <1>1, LoadSpace DEF SysExec

LEMMA StartInitSpace ==
  ASSUME FrameInv, FrameInv', NEW prog \in Programs, StartInit(prog)
  PROVE  SpaceStep
  <1>1. PICK A : A = frame_allocated \cup Taken(Free, StackRank)
    OBVIOUS
  <1>2. A \in SUBSET Frame
    BY <1>1, NewStackHolds DEF FrameInv, LayoutInv, TypeOK
  <1>3. LoadProgram(InitProc, prog, A)
    BY <1>1 DEF StartInit
  <1> QED
    BY <1>2, <1>3, MemoryFacts, LoadSpace

LEMMA SysExecKillsSpace ==
  ASSUME FrameInv, FrameInv', NEW prog \in Programs, NEW next \in Proc,
         SysExecKills(prog, next)
  PROVE  SpaceStep
  <1>1. PICK p, T, free, rank, Y, pt2 :
          /\ p = current_process
          /\ T = Held(region1_pt[p], Page) /\ free = Frame \ (frame_allocated \ T)
          /\ rank = Up(ProgramPages(prog)) /\ Y = Taken(free, rank)
          /\ pt2 = Mapped(NoTable, free, rank)
    OBVIOUS
  <1>2. /\ Loadable(prog) /\ region1_pt' = [region1_pt EXCEPT ![p] = pt2]
        /\ pmem' = [f \in Frame |-> IF f \in frame_allocated \ T THEN pmem[f] ELSE Junk]
    BY <1>1 DEF SysExecKills
  <1>3. TypeOK /\ TypeOK' /\ TablesApart /\ p \in Proc
    BY <1>1, FrameInvApart DEF FrameInv, LayoutInv, TypeOK
  <1>4. region1_pt'[p] = pt2 /\ \A q \in Proc \ {p} : region1_pt'[q] = region1_pt[q]
    BY <1>2, <1>3 DEF TypeOK
  <1>5. TableFrames(p)' = Y /\ \A f \in Y : f \in T \/ f \notin frame_allocated
    <2>1. Loads(frame_allocated, T, prog)
      BY <1>2, <1>3, LoadHolds DEF TypeOK
    <2>2. Held(pt2, Page) = Y /\ \A f \in Y : f \in T \/ f \notin frame_allocated
      BY <1>1, <2>1 DEF Loads
    <2> QED
      BY <1>4, <2>2 DEF TableFrames
  <1>6. \A q \in Proc \ {p} : KeepsSpace(q)
    <2> TAKE q \in Proc \ {p}
    <2>1. \A f \in TableFrames(q) : f \in frame_allocated /\ f \notin T
      BY <1>1, <1>3 DEF TablesApart, TableFrames
    <2>2. \A f \in TableFrames(q) : pmem'[f] = pmem[f]
      BY <1>2, <1>3, <2>1 DEF TypeOK
    <2> QED
      BY <1>4, <2>2 DEF KeepsSpace
  <1>7. \A page \in Page : region1_pt'[p][page] # Invalid => pmem'[region1_pt'[p][page]] = Junk
    <2> SUFFICES ASSUME NEW page \in Page, region1_pt'[p][page] # Invalid
                 PROVE  pmem'[region1_pt'[p][page]] = Junk
      OBVIOUS
    <2>1. PICK f : f = region1_pt'[p][page]
      OBVIOUS
    <2>2. f \in Y /\ f \in Frame
      BY <1>3, <1>5, <2>1, TableHoldsAfter
    <2>3. f \notin frame_allocated \ T
      BY <1>5, <2>2
    <2> QED
      BY <1>2, <2>1, <2>2, <2>3
  <1> QED
    BY <1>3, <1>6, <1>7, SpaceLoads

LEMMA NextSpace ==
  ASSUME FrameInv, FrameInv', [Next]_vars
  PROVE  SpaceStep
  <1>0. TypeOK'
    BY DEF FrameInv, LayoutInv
  <1>1. CASE \/ UNCHANGED vars \/ MemoryAllocPageTableFails \/ StartInitFails \/ Stopped
             \/ \E next \in Proc : Exit(next) \/ Switch(next)
    <2>1. UNCHANGED <<region1_pt, pmem>>
      BY <1>1 DEF vars, kernelVars, pcbVars, MemoryAllocPageTableFails, StartInitFails,
                  Stopped, Exit, Switch
    <2> QED
      BY <2>1, TablesSame
  <1>2. CASE (\E requested \in 0 .. MaxKernelBrk : SetKernelBrk(requested)) \/ SysForkFails
    <2>1. UNCHANGED region1_pt /\ pmem' = Kept(pmem)
      BY <1>2 DEF SetKernelBrk, SysForkFails, pcbVars
    <2> QED
      BY <1>0, <2>1, KeptContents, TablesSame
  <1>3. CASE \E page \in Page, v \in Value : Store(page, v)
    BY <1>3, StoreSpace
  <1>4. CASE \E new \in 0 .. PtLen : SysBrk(new)
    BY <1>4, SysBrkSpace
  <1>5. CASE \E page \in Page, next \in Proc : TrapMemory(page, next)
    BY <1>5, TrapMemorySpace
  <1>6. CASE \E child \in Proc : SysFork(child)
    BY <1>6, SysForkSpace
  <1>7. CASE \E child \in Proc : SysWait(child)
    BY <1>7, SysWaitSpace
  <1>8. CASE \E prog \in Programs : SysExec(prog)
    BY <1>8, SysExecSpace
  <1>9. CASE \E prog \in Programs, next \in Proc : SysExecKills(prog, next)
    BY <1>9, SysExecKillsSpace
  <1>10. CASE \E prog \in Programs : StartInit(prog)
    BY <1>10, StartInitSpace
  <1> QED
    BY <1>1, <1>2, <1>3, <1>4, <1>5, <1>6, <1>7, <1>8, <1>9, <1>10 DEF Next

LEMMA InitSpaces ==
  ASSUME Init
  PROVE  Spaces!Init
  <1>1. PICK stack_pfn \in Frame :
          region1_pt = [p \in Proc |->
            IF p = Idle THEN [NoTable EXCEPT ![PtLen - 1] = stack_pfn] ELSE NoTable]
    BY BootGives
  <1>2. pmem = [f \in Frame |-> Junk]
    BY DEF Init, Boot
  <1>3. \A p \in Proc, page \in Page : region1_pt[p][page] = Invalid \/ region1_pt[p][page] \in Frame
    BY InitLayout DEF LayoutInv, TypeOK
  <1>4. \A p \in Proc : spaces[p] \in [Page -> {Junk, Invalid}]
    BY <1>2, <1>3, SpacesAre
  <1>5. spaces \in [Proc -> [Page -> {Junk, Invalid}]]
    BY <1>4 DEF spaces
  <1>6. \A q \in Proc \ {Idle} : spaces[q] = Spaces!NoSpace
    <2> TAKE q \in Proc \ {Idle}
    <2>1. region1_pt[q] = NoTable
      BY <1>1
    <2> QED
      BY <2>1, SpacesAre, EmptyTables DEF Spaces!NoSpace
  <1> QED
    BY <1>5, <1>6, MemoryFacts DEF Spaces!Init

(* The memories of programs are private, for every number of processes and *)
(* frames: whichever frames FrameAlloc hands out and FrameFree takes back, *)
(* each process sees what AddressSpaces promises.  A store changes one     *)
(* page of one process, Fork copies all of them, Brk and stack growth keep *)
(* what stays mapped, and nothing else that any process does, or that      *)
(* fails half way, shows in the memory of another.                         *)
THEOREM PrivateMemoryCorrect == MaxKernelBrk < StackBase /\ Spec => PrivateMemory
  <1> SUFFICES ASSUME MaxKernelBrk < StackBase
               PROVE  Spec => PrivateMemory
    OBVIOUS
  <1>1. Init => Spaces!Init
    BY InitSpaces
  <1>2. FrameInv /\ FrameInv' /\ [Next]_vars => [Spaces!Next]_spaces
    BY NextSpace DEF SpaceStep
  <1> QED
    BY <1>1, <1>2, FramesInvariant, PTL DEF Spec, PrivateMemory, Spaces!Spec

=============================================================================
