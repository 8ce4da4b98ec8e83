------------------------------- MODULE Memory -------------------------------
(***************************************************************************)
(* The memory of processes once virtual memory is on: Fork, Exec, Brk,     *)
(* stack growth, exit and Wait of process.c, syscalls.c and template.c     *)
(* over the frames of memory.c, and the kernel heap of kernelbrk.c.        *)
(*                                                                         *)
(* Who runs is module Process's subject: here Switch may give the CPU to   *)
(* any live process, and Wait may find any zombie among the children.      *)
(* Every call is one step; malloc moves the kernel break in steps of its   *)
(* own, since no call allocates heap between two of its frames.  Calls     *)
(* that fail their argument checks return ERROR and change nothing; they   *)
(* are not steps.                                                          *)
(*                                                                         *)
(* pmem is what each frame contains.  Nobody may rely on the contents of a *)
(* free frame, so they are Junk.                                           *)
(***************************************************************************)
EXTENDS Frames

CONSTANTS
  Proc,           \* PCBs
  Idle,           \* idle_process
  InitProc,       \* init_process
  NULL,           \* the null PCB pointer
  Programs,       \* page layouts of the executables, from LoadInfo (external)
  Value,          \* what programs store into pages
  Image,          \* what LoadProgram leaves in a page
  Junk,           \* contents nobody has written
  MaxKernelBrk,   \* the highest break malloc asks for
  LateGrowth      \* pages malloc may add between MemoryInit and the enabling
                  \* of virtual memory: 0 when it takes heap in large steps

(* The linker puts the data behind the text (external): LoadProgram only   *)
(* checks that it does not begin before it, and the second MapRange would  *)
(* map over text pages of an executable in which the two overlap, whose    *)
(* frames nothing would refer to any more.  SetKernelBrk refuses breaks    *)
(* above the base of the kernel stack, with virtual memory on or off.      *)
ASSUME MemoryAssumption ==
  /\ Idle \in Proc
  /\ InitProc \in Proc \ {Idle}
  /\ NULL \notin Proc
  /\ Programs \subseteq [text_pg1 : Int, t_npg : Nat, data_pg1 : Int,
                         data_npg : Nat, stack_npg : Nat \ {0}]
  /\ \A prog \in Programs : prog.text_pg1 + prog.t_npg <= prog.data_pg1
  /\ Invalid \notin Value \cup {Image, Junk}
  /\ MaxKernelBrk \in OrigBrk .. StackBase
  /\ LateGrowth \in Nat

VARIABLES
  frame_allocated,          \* the frames whose frame_allocated byte is set
  kernel_region0_pt,
  current_kernel_brk_page,
  pmem,                     \* the contents of each frame
  current_process,
  status,                   \* PCB.state as far as memory goes
  parent,                   \* PCB.parent
  region1_pt,               \* PCB.region1_pt
  kernel_stack_pfns,        \* PCB.kernel_stack_pfns, 0 for none
  user_heap_start,          \* PCB.user_heap_start, as a page
  user_brk,                 \* PCB.user_brk, as a page
  user_stack_low_page,      \* PCB.user_stack_low_page
  halted                    \* Halt() or KernelPanic() was called

kernelVars == <<frame_allocated, kernel_region0_pt, current_kernel_brk_page, pmem>>
pcbVars == <<status, parent, region1_pt, kernel_stack_pfns>>
layoutVars == <<user_heap_start, user_brk, user_stack_low_page>>
vars == <<kernelVars, current_process, pcbVars, layoutVars, halted>>

Status == {"EMPTY", "LIVE", "ZOMBIE"}
Free == Frame \ frame_allocated
NoTable == [page \in Page |-> Invalid]
NoStack == [i \in 1 .. StackPages |-> 0]

(* The current process enters the kernel with a system call or a trap of   *)
(* its own.                                                                *)
Calling == ~halted /\ current_process # Idle

(* What frames contain once those that were freed are nobody's.            *)
Kept(contents) ==
  [f \in Frame |-> IF f \in frame_allocated' THEN contents[f] ELSE Junk]

(* KCSwitch: the kernel stack of next is mapped.                           *)
StackOf(pt, next) ==
  [page \in KernelPage |-> IF page \in StackPage
                           THEN kernel_stack_pfns[next][page - StackBase + 1]
                           ELSE pt[page]]

----------------------------------------------------------------------------
(* The kernel heap.                                                        *)

(* The highest break SetKernelBrk grants.                                  *)
HeapLimit == StackBase

(* Mutant of NotBelowImage: free may give back the kernel image.           *)
AsRequested(requested) == requested

NotBelowImage(requested) == IF requested < OrigBrk THEN OrigBrk ELSE requested

(* SetKernelBrk with virtual memory on, called from malloc and free.       *)
SetKernelBrk(requested) ==
  LET new == NotBelowImage(requested)
      moved == MoveBreak(kernel_region0_pt, frame_allocated,
                         current_kernel_brk_page, new)
  IN  /\ ~halted
      /\ new <= HeapLimit
      /\ kernel_region0_pt' = moved.pt
      /\ frame_allocated' = moved.allocated
      /\ current_kernel_brk_page' =
           IF moved.ok THEN new ELSE current_kernel_brk_page
      /\ pmem' = Kept(pmem)
      /\ UNCHANGED <<current_process, pcbVars, layoutVars, halted>>

(* MemoryAllocPageTable panics when calloc fails, for Fork at run time:    *)
(* the heap cannot grow any further.                                       *)
MemoryAllocPageTableFails ==
  /\ Calling
  /\ Free = {} \/ current_kernel_brk_page = HeapLimit
  /\ halted' = TRUE
  /\ UNCHANGED <<kernelVars, current_process, pcbVars, layoutVars>>

----------------------------------------------------------------------------
(* Stores, Brk and the stack.                                              *)

(* A program writes to a page of its own.                                  *)
Store(page, v) ==
  LET pfn == region1_pt[current_process][page]
  IN  /\ Calling
      /\ pfn # Invalid
      /\ pmem' = [pmem EXCEPT ![pfn] = v]
      /\ UNCHANGED <<frame_allocated, kernel_region0_pt, current_kernel_brk_page,
                     current_process, pcbVars, layoutVars, halted>>

(* Mutant of BrkAllowed: the break may reach the stack.                    *)
BrkAllowedToStack(p, new) ==
  new >= user_heap_start[p] /\ new <= user_stack_low_page[p] + 1

BrkAllowed(p, new) ==
  new >= user_heap_start[p] /\ new < user_stack_low_page[p]

SysBrk(new) ==
  LET p == current_process
      moved == MoveBreak(region1_pt[p], frame_allocated, user_brk[p], new)
  IN  /\ Calling
      /\ BrkAllowed(p, new)
      /\ region1_pt' = [region1_pt EXCEPT ![p] = moved.pt]
      /\ frame_allocated' = moved.allocated
      /\ user_brk' = [user_brk EXCEPT ![p] = IF moved.ok THEN new ELSE @]
      /\ pmem' = Kept(pmem)
      /\ UNCHANGED <<kernel_region0_pt, current_kernel_brk_page, current_process,
                     status, parent, kernel_stack_pfns, user_heap_start,
                     user_stack_low_page, halted>>

(* ProcessExitCurrent, from SysExit and from the traps that abort: the     *)
(* frames stay with the zombie until its parent collects it.  Init halts   *)
(* the machine.                                                            *)
ProcessExitCurrent(next) ==
  LET p == current_process
  IN  \/ /\ p = InitProc
         /\ halted' = TRUE
         /\ UNCHANGED <<status, parent, current_process, kernel_region0_pt>>
      \/ /\ p # InitProc
         /\ next # p
         /\ status[next] = "LIVE"
         /\ status' = [status EXCEPT ![p] = "ZOMBIE"]
         /\ parent' = [c \in Proc |-> IF parent[c] = p THEN NULL ELSE parent[c]]
         /\ current_process' = next
         /\ kernel_region0_pt' = StackOf(kernel_region0_pt, next)
         /\ UNCHANGED halted

Exit(next) ==
  /\ Calling
  /\ ProcessExitCurrent(next)
  /\ UNCHANGED <<frame_allocated, current_kernel_brk_page, pmem, region1_pt,
                 kernel_stack_pfns, layoutVars>>

(* TrapMemory on a page between the break and the stack, whose pages       *)
(* ProcessGrowStack maps from the top.  When the frames run out it leaves  *)
(* the pages it has mapped, and the process is aborted.                    *)
TrapMemory(page, next) ==
  LET p == current_process
      rank == Down(page .. user_stack_low_page[p] - 1)
  IN  /\ Calling
      /\ user_brk[p] < page
      /\ page < user_stack_low_page[p]
      /\ region1_pt' = [region1_pt EXCEPT ![p] = Mapped(@, Free, rank)]
      /\ frame_allocated' = frame_allocated \cup Taken(Free, rank)
      /\ \/ /\ Fits(Free, rank)
            /\ user_stack_low_page' = [user_stack_low_page EXCEPT ![p] = page]
            /\ UNCHANGED <<status, parent, current_process, kernel_region0_pt,
                           halted>>
         \/ /\ ~Fits(Free, rank)
            /\ ProcessExitCurrent(next)
            /\ UNCHANGED user_stack_low_page
      /\ UNCHANGED <<current_kernel_brk_page, pmem, kernel_stack_pfns,
                     user_heap_start, user_brk>>

----------------------------------------------------------------------------
(* Fork and Wait.                                                          *)

StackRank == Up(1 .. StackPages)

(* The frames ProcessFreeKernelStack gives back.                           *)
FreedStack(stack) == {stack[i] : i \in 1 .. StackPages} \ {0}

(* The frames and tables in the middle of ProcessCreateChild: the frames   *)
(* left once the kernel stack has its own, and ProcessCopyRegion1 into the *)
(* child's table as far as those go.                                       *)
ChildStack == Mapped(NoStack, Free, StackRank)
FreeForCopy == Free \ Taken(Free, StackRank)
CopyRank(p) == Up(Valid(region1_pt[p]))
ChildTable(p) == Mapped(NoTable, FreeForCopy, CopyRank(p))
AllocatedForChild(p) ==
  frame_allocated \cup Taken(Free, StackRank)
                  \cup Taken(FreeForCopy, CopyRank(p))

(* Mutant of Copied: the child's first page is not copied.                 *)
CopiedRest(p) ==
  [f \in Frame |->
     IF \E page \in Page \ {0} : ChildTable(p)[page] = f
     THEN pmem[region1_pt[p][CHOOSE page \in Page : ChildTable(p)[page] = f]]
     ELSE pmem[f]]

(* The contents of the frames after ProcessCopyRegion1.                    *)
Copied(p) ==
  [f \in Frame |->
     IF \E page \in Page : ChildTable(p)[page] = f
     THEN pmem[region1_pt[p][CHOOSE page \in Page : ChildTable(p)[page] = f]]
     ELSE pmem[f]]

(* SysFork: kernel stack, pid, a copy of Region 1 through the scratch page *)
(* and a copy of the kernel stack by KCCopy, which leave the scratch page  *)
(* unmapped.                                                               *)
SysFork(child) ==
  LET p == current_process
  IN  /\ Calling
      /\ status[child] = "EMPTY"
      /\ Fits(Free, StackRank)
      /\ Fits(FreeForCopy, CopyRank(p))
      /\ status' = [status EXCEPT ![child] = "LIVE"]
      /\ parent' = [parent EXCEPT ![child] = p]
      /\ kernel_stack_pfns' = [kernel_stack_pfns EXCEPT ![child] = ChildStack]
      /\ region1_pt' = [region1_pt EXCEPT ![child] = ChildTable(p)]
      /\ frame_allocated' = AllocatedForChild(p)
      /\ pmem' = Copied(p)
      /\ kernel_region0_pt' = [kernel_region0_pt EXCEPT ![ScratchPage] = Invalid]
      /\ user_heap_start' = [user_heap_start EXCEPT ![child] = user_heap_start[p]]
      /\ user_brk' = [user_brk EXCEPT ![child] = user_brk[p]]
      /\ user_stack_low_page' =
           [user_stack_low_page EXCEPT ![child] = user_stack_low_page[p]]
      /\ UNCHANGED <<current_kernel_brk_page, current_process, halted>>

(* Mutant of NoForkFrames: what the copy took is not given back.           *)
CopyFramesKept(p) == AllocatedForChild(p) \ FreedStack(ChildStack)

(* The frames after a Fork that fails once its stack is there:             *)
(* MemoryFreePageTableFrames and ProcessFreeKernelStack on the child.      *)
NoForkFrames(p) ==
  (AllocatedForChild(p) \ Held(ChildTable(p), Page)) \ FreedStack(ChildStack)

(* SysFork returns ERROR: no frames for the stack or no pid (nothing but   *)
(* the stack was taken), no frames for the copy (the scratch page is left  *)
(* on the last page that was copied), or no kernel context (the child is   *)
(* destroyed).                                                             *)
SysForkFails ==
  LET p == current_process
      copied == Served(FreeForCopy, CopyRank(p))
  IN  /\ Calling
      /\ \/ /\ frame_allocated' =
                 (frame_allocated \cup Taken(Free, StackRank)) \ FreedStack(ChildStack)
            /\ UNCHANGED kernel_region0_pt
         \/ /\ Fits(Free, StackRank)
            /\ ~Fits(FreeForCopy, CopyRank(p))
            /\ frame_allocated' = NoForkFrames(p)
            /\ kernel_region0_pt' =
                 IF copied = {} THEN kernel_region0_pt
                 ELSE [kernel_region0_pt EXCEPT
                         ![ScratchPage] = ChildTable(p)[Max(copied)]]
         \/ /\ Fits(Free, StackRank)
            /\ Fits(FreeForCopy, CopyRank(p))
            /\ frame_allocated' = NoForkFrames(p)
            /\ kernel_region0_pt' = [kernel_region0_pt EXCEPT ![ScratchPage] = Invalid]
      /\ pmem' = Kept(pmem)
      /\ UNCHANGED <<current_kernel_brk_page, current_process, pcbVars, layoutVars,
                     halted>>

(* SysWait finds a zombie: ProcessDestroy gives back its table's frames    *)
(* and its kernel stack.  Its children were let go when it exited.         *)
SysWait(child) ==
  /\ Calling
  /\ status[child] = "ZOMBIE"
  /\ parent[child] = current_process
  /\ status' = [status EXCEPT ![child] = "EMPTY"]
  /\ parent' = [parent EXCEPT ![child] = NULL]
  /\ frame_allocated' = (frame_allocated \ Held(region1_pt[child], Page))
                          \ FreedStack(kernel_stack_pfns[child])
  /\ region1_pt' = [region1_pt EXCEPT ![child] = NoTable]
  /\ kernel_stack_pfns' = [kernel_stack_pfns EXCEPT ![child] = NoStack]
  /\ user_heap_start' = [user_heap_start EXCEPT ![child] = 0]
  /\ user_brk' = [user_brk EXCEPT ![child] = 0]
  /\ user_stack_low_page' = [user_stack_low_page EXCEPT ![child] = 0]
  /\ pmem' = Kept(pmem)
  /\ UNCHANGED <<kernel_region0_pt, current_kernel_brk_page, current_process, halted>>

----------------------------------------------------------------------------
(* Programs.                                                               *)

StackBasePage(prog) == PtLen - prog.stack_npg
DataEnd(prog) == prog.data_pg1 + prog.data_npg

(* LoadProgram's checks; what fails them leaves the caller as it is.       *)
Loadable(prog) ==
  /\ prog.text_pg1 >= 0
  /\ prog.data_pg1 >= prog.text_pg1
  /\ prog.text_pg1 + prog.t_npg <= PtLen
  /\ DataEnd(prog) <= StackBasePage(prog) - 1

(* The pages of text, data and stack, which MapRange maps in this order.   *)
ProgramPages(prog) ==
  (prog.text_pg1 .. prog.text_pg1 + prog.t_npg - 1)
    \cup (prog.data_pg1 .. DataEnd(prog) - 1)
    \cup (StackBasePage(prog) .. PtLen - 1)

(* LoadProgram into p with frames allocated marked, its own included: the  *)
(* old image goes first, then the new one is mapped and filled.  The heap  *)
(* starts at UP_TO_PAGE(ud_end), where the data pages of an executable end *)
(* (external: LoadInfo counts ud_npg up to there).                         *)
LoadProgram(p, prog, allocated) ==
  LET emptied == allocated \ Held(region1_pt[p], Page)
      rank == Up(ProgramPages(prog))
      free == Frame \ emptied
  IN  /\ Loadable(prog)
      /\ Fits(free, rank)
      /\ region1_pt' = [region1_pt EXCEPT ![p] = Mapped(NoTable, free, rank)]
      /\ frame_allocated' = emptied \cup Taken(free, rank)
      /\ pmem' = Kept([f \in Frame |->
                         IF f \in Taken(free, rank) THEN Image ELSE pmem[f]])
      /\ user_heap_start' = [user_heap_start EXCEPT ![p] = DataEnd(prog)]
      /\ user_brk' = [user_brk EXCEPT ![p] = DataEnd(prog)]
      /\ user_stack_low_page' =
           [user_stack_low_page EXCEPT ![p] = StackBasePage(prog)]

SysExec(prog) ==
  /\ Calling
  /\ LoadProgram(current_process, prog, frame_allocated)
  /\ UNCHANGED <<kernel_region0_pt, current_kernel_brk_page, current_process,
                 status, parent, kernel_stack_pfns, halted>>

(* LoadProgram returns KILL, out of frames or because the file cannot be   *)
(* read: the old image is gone and the process is aborted with the pages   *)
(* that have been mapped.                                                  *)
SysExecKills(prog, next) ==
  LET p == current_process
      emptied == frame_allocated \ Held(region1_pt[p], Page)
      rank == Up(ProgramPages(prog))
      free == Frame \ emptied
  IN  /\ Calling
      /\ Loadable(prog)
      /\ region1_pt' = [region1_pt EXCEPT ![p] = Mapped(NoTable, free, rank)]
      /\ frame_allocated' = emptied \cup Taken(free, rank)
      /\ pmem' = [f \in Frame |-> IF f \in emptied THEN pmem[f] ELSE Junk]
      /\ ProcessExitCurrent(next)
      /\ UNCHANGED <<current_kernel_brk_page, kernel_stack_pfns, layoutVars>>

(* KernelStart from ProcessCreateInit on: init gets a kernel stack, which  *)
(* is copied through the scratch page, the CPU and its program.  The heap  *)
(* that LoadProgram's malloc(argbuf) may need in between is taken before   *)
(* or after this step (SetKernelBrk): only the numbers of frames differ.   *)
StartInit(prog) ==
  /\ ~halted
  /\ status[InitProc] = "EMPTY"
  /\ Fits(Free, StackRank)
  /\ LoadProgram(InitProc, prog, frame_allocated \cup Taken(Free, StackRank))
  /\ status' = [status EXCEPT ![InitProc] = "LIVE"]
  /\ kernel_stack_pfns' = [kernel_stack_pfns EXCEPT ![InitProc] = ChildStack]
  /\ kernel_region0_pt' =
       [page \in KernelPage |->
          IF page \in StackPage THEN ChildStack[page - StackBase + 1]
          ELSE IF page = ScratchPage THEN Invalid ELSE kernel_region0_pt[page]]
  /\ current_process' = InitProc
  /\ UNCHANGED <<current_kernel_brk_page, parent, halted>>

(* ... or any of that fails, and KernelStart panics.                       *)
StartInitFails ==
  /\ ~halted
  /\ status[InitProc] = "EMPTY"
  /\ halted' = TRUE
  /\ UNCHANGED <<kernelVars, current_process, pcbVars, layoutVars>>

(* Mutant of Switch: KCSwitch does not map the kernel stack.               *)
SwitchKeepsStack(next) ==
  /\ ~halted
  /\ next # current_process
  /\ status[next] = "LIVE"
  /\ current_process' = next
  /\ UNCHANGED <<kernelVars, pcbVars, layoutVars, halted>>

(* ProcessSwitch, from the clock trap or a call that blocks.               *)
Switch(next) ==
  /\ ~halted
  /\ next # current_process
  /\ status[next] = "LIVE"
  /\ current_process' = next
  /\ kernel_region0_pt' = StackOf(kernel_region0_pt, next)
  /\ UNCHANGED <<frame_allocated, current_kernel_brk_page, pmem, pcbVars,
                 layoutVars, halted>>

Stopped == halted /\ UNCHANGED vars

----------------------------------------------------------------------------

(* Mutant of MemoryInit: the second pass over the heap is left out.        *)
MemoryInitOnce(before, after) == (0 .. before - 1) \cup StackPage

(* The frames MemoryInit reserves: the kernel image, the heap and the boot *)
(* stack, and then the heap again, because allocating the page table moves *)
(* the break from page before to page after.                               *)
MemoryInit(before, after) ==
  (0 .. before - 1) \cup StackPage \cup (0 .. after - 1)

(* The table MemoryBuildKernelRegion0 leaves when the break is at brk.     *)
MemoryBuildKernelRegion0(brk) ==
  [page \in KernelPage |->
     IF page \in (FirstText .. brk - 1) \cup StackPage THEN page ELSE Invalid]

(* KernelStart up to the enabling of virtual memory.  While it is off,     *)
(* SetKernelBrk only records the break, and no call on this path frees     *)
(* heap; the break is at page start when MemoryInit begins, at built when  *)
(* it ends and at on when virtual memory is enabled.  ProcessCreateIdle    *)
(* takes one frame for idle's user stack; its kernel stack is the one the  *)
(* kernel booted on.                                                       *)
Boot(start, built, on) ==
  LET reserved == MemoryInit(start, built)
      stack_pfn == FrameAlloc(Frame \ reserved, 1)
  IN  /\ Frame \ reserved # {}
      /\ frame_allocated = reserved \cup {stack_pfn}
      /\ kernel_region0_pt = MemoryBuildKernelRegion0(built)
      /\ current_kernel_brk_page = on
      /\ pmem = [f \in Frame |-> Junk]
      /\ current_process = Idle
      /\ status = [p \in Proc |-> IF p = Idle THEN "LIVE" ELSE "EMPTY"]
      /\ parent = [p \in Proc |-> NULL]
      /\ region1_pt = [p \in Proc |->
           IF p = Idle THEN [NoTable EXCEPT ![PtLen - 1] = stack_pfn] ELSE NoTable]
      /\ kernel_stack_pfns = [p \in Proc |->
           IF p = Idle THEN [i \in 1 .. StackPages |-> StackBase + i - 1] ELSE NoStack]
      /\ user_heap_start = [p \in Proc |-> 0]
      /\ user_brk = [p \in Proc |-> 0]
      /\ user_stack_low_page = [p \in Proc |-> 0]
      /\ halted = FALSE

Init ==
  \E start, built, on \in OrigBrk .. MaxKernelBrk :
    /\ start <= built
    /\ built <= on
    /\ on <= built + LateGrowth
    /\ Boot(start, built, on)

Next ==
  \/ \E requested \in 0 .. MaxKernelBrk : SetKernelBrk(requested)
  \/ MemoryAllocPageTableFails
  \/ \E page \in Page, v \in Value : Store(page, v)
  \/ \E new \in 0 .. PtLen : SysBrk(new)
  \/ \E next \in Proc : Exit(next)
  \/ \E page \in Page, next \in Proc : TrapMemory(page, next)
  \/ \E child \in Proc : SysFork(child)
  \/ SysForkFails
  \/ \E child \in Proc : SysWait(child)
  \/ \E prog \in Programs : SysExec(prog)
  \/ \E prog \in Programs, next \in Proc : SysExecKills(prog, next)
  \/ \E prog \in Programs : StartInit(prog)
  \/ StartInitFails
  \/ \E next \in Proc : Switch(next)
  \/ Stopped

Spec == Init /\ [][Next]_vars

----------------------------------------------------------------------------

TypeOK ==
  /\ frame_allocated \subseteq Frame
  /\ kernel_region0_pt \in [KernelPage -> Frame \cup {Invalid}]
  /\ current_kernel_brk_page \in OrigBrk .. StackBase
  /\ pmem \in [Frame -> Value \cup {Image, Junk}]
  /\ current_process \in Proc
  /\ status \in [Proc -> Status]
  /\ parent \in [Proc -> Proc \cup {NULL}]
  /\ region1_pt \in [Proc -> [Page -> Frame \cup {Invalid}]]
  /\ kernel_stack_pfns \in [Proc -> [1 .. StackPages -> Frame]]
  /\ user_heap_start \in [Proc -> 0 .. PtLen]
  /\ user_brk \in [Proc -> 0 .. PtLen]
  /\ user_stack_low_page \in [Proc -> 0 .. PtLen]
  /\ halted \in BOOLEAN

(* The frames of the kernel's image and heap; those below the text are     *)
(* never used.                                                             *)
HeapPage == FirstText .. current_kernel_brk_page - 1
KernelFrames == (0 .. FirstText - 1) \cup Held(kernel_region0_pt, HeapPage)
StackFrames(p) == {kernel_stack_pfns[p][i] : i \in 1 .. StackPages} \ {0}
TableFrames(p) == Held(region1_pt[p], Page)

(* No frame serves two purposes: not two pages of a process, not two       *)
(* processes, not a program and a kernel stack or the kernel heap.  Every  *)
(* path that maps or gives back frames, the failing ones included, has to  *)
(* keep this, since FrameAlloc hands out whatever is marked free.          *)
FramesExclusive ==
  /\ \A p \in Proc : \A i, j \in Page :
       i # j /\ region1_pt[p][i] # Invalid => region1_pt[p][i] # region1_pt[p][j]
  /\ \A p \in Proc : \A i, j \in 1 .. StackPages :
       i # j /\ kernel_stack_pfns[p][i] # 0 =>
         kernel_stack_pfns[p][i] # kernel_stack_pfns[p][j]
  /\ \A i, j \in HeapPage :
       i # j /\ kernel_region0_pt[i] # Invalid =>
         kernel_region0_pt[i] # kernel_region0_pt[j]
  /\ \A p \in Proc :
       /\ TableFrames(p) \cap KernelFrames = {}
       /\ StackFrames(p) \cap KernelFrames = {}
       /\ \A q \in Proc : TableFrames(p) \cap StackFrames(q) = {}
       /\ \A q \in Proc \ {p} : TableFrames(p) \cap TableFrames(q) = {}
       /\ \A q \in Proc \ {p} : StackFrames(p) \cap StackFrames(q) = {}

(* No frame is lost and none is used after it was freed: the frames marked *)
(* allocated are exactly those that a page table, a kernel stack or the    *)
(* kernel heap holds, also after calls that failed half way.               *)
FramesAccounted ==
  frame_allocated =
    KernelFrames \cup UNION {TableFrames(p) \cup StackFrames(p) : p \in Proc}

(* The PCB's layout fields and the page table agree for every process that *)
(* can run: the heap below the break and the stack from                    *)
(* user_stack_low_page up are mapped, and in between nothing is, not even  *)
(* one page: SysBrk and ProcessGrowStack map pages there without looking.  *)
LayoutSound ==
  \A p \in Proc \ {Idle} : status[p] = "LIVE" /\ ~halted =>
    /\ user_heap_start[p] <= user_brk[p]
    /\ user_brk[p] < user_stack_low_page[p]
    /\ user_stack_low_page[p] < PtLen
    /\ \A page \in user_heap_start[p] .. user_brk[p] - 1 : region1_pt[p][page] # Invalid
    /\ \A page \in user_brk[p] .. user_stack_low_page[p] - 1 :
         region1_pt[p][page] = Invalid
    /\ \A page \in user_stack_low_page[p] .. PtLen - 1 : region1_pt[p][page] # Invalid

(* Every page of the kernel heap is mapped: "if growing: for each new heap *)
(* page: allocate frame, map Region 0 page read/write"                     *)
(* (docs/checkpoint_pseudocode.tex).                                       *)
HeapMapped == \A page \in HeapPage : kernel_region0_pt[page] # Invalid

(* The kernel's own memory is there, from the moment virtual memory is     *)
(* enabled and through all switches: its heap, also what malloc took       *)
(* before, and the stack of the current process, in frames of its own that *)
(* are still allocated.                                                    *)
KernelMapped ==
  /\ HeapMapped
  /\ \A page \in StackPage :
       /\ kernel_region0_pt[page] =
            kernel_stack_pfns[current_process][page - StackBase + 1]
       /\ kernel_region0_pt[page] \in frame_allocated

(* The address spaces that the page tables and the frames amount to.       *)
spaces == [p \in Proc |-> [page \in Page |->
             IF region1_pt[p][page] = Invalid THEN Invalid
             ELSE pmem[region1_pt[p][page]]]]

Spaces == INSTANCE AddressSpaces WITH space <- spaces

(* The processes' memories are private: every step of the kernel is a step *)
(* of AddressSpaces.                                                       *)
PrivateMemory == Spaces!Spec

=============================================================================
