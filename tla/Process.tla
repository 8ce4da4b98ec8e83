------------------------------ MODULE Process ------------------------------
(***************************************************************************)
(* Process life cycle: Fork, Exit, Wait and Delay of syscalls.c over the   *)
(* process table, parent and children links of process.c.                  *)
(*                                                                         *)
(* Exit statuses are left out: no property tells them apart.  A Fork that  *)
(* finds no pid, frame or heap undoes itself and returns ERROR, which      *)
(* changes nothing modelled here.                                          *)
(***************************************************************************)
EXTENDS Sched, SequencesExt

CONSTANTS
  NULL,       \* the null PCB pointer
  MaxDelay    \* the longest Delay a program asks for

ASSUME ProcessAssumption ==
  /\ NULL \notin Proc
  /\ MaxDelay \in Nat

VARIABLES
  parent,             \* PCB.parent
  children,           \* the owners linked into PCB.children, front first
  waiting_for_child   \* PCB.waiting_for_child

familyVars == <<parent, children, waiting_for_child>>
vars == <<schedVars, familyVars>>

----------------------------------------------------------------------------

(* ProcessCreateChild: a fresh PCB, linked behind p's other children.      *)
ProcessCreateChild(p, child) ==
  /\ delay_until' = [delay_until EXCEPT ![child] = 0]
  /\ kernel_pc' = [kernel_pc EXCEPT ![child] = "user"]
  /\ parent' = [parent EXCEPT ![child] = p]
  /\ children' = [children EXCEPT ![child] = <<>>, ![p] = Append(@, child)]
  /\ waiting_for_child' = [waiting_for_child EXCEPT ![child] = FALSE]

(* SysFork: the child is made ready; the parent keeps the CPU.             *)
SysFork(child) ==
  LET st == [state EXCEPT ![child] = "READY"]
  IN  /\ CanCall
      /\ state[child] = "EMPTY"
      /\ ProcessCreateChild(current_process, child)
      /\ state' = MadeReady(st, child)
      /\ ready_queue' = Queued(st, ready_queue, child)
      /\ UNCHANGED <<current_process, clock_ticks, halted>>

(* Mutant of Orphaned: the children keep their parent pointer.             *)
NotOrphaned(p) == parent

(* The links after the loop that empties p's children queue.               *)
Orphaned(p) ==
  [c \in Proc |-> IF c \in Range(children[p]) THEN NULL ELSE parent[c]]

(* The parent that p's exit wakes, if it has one and it is in SysWait.     *)
(* Mutant: the exit goes unnoticed.                                        *)
NotNoticed(p) == FALSE
WakesParent(p) ==
  LET mom == Orphaned(p)[p] IN mom # NULL /\ waiting_for_child[mom]

(* ProcessExitCurrent, from SysExit, from the traps that abort a process   *)
(* and from an Exec that fails too late: init halts the machine; any other *)
(* process lets go of its children, becomes a zombie and wakes a parent    *)
(* that is waiting for it.  No program of this model holds a lock, so      *)
(* IpcProcessExit finds nothing to release (module Ipc has that part).     *)
ProcessExitCurrent ==
  LET proc == current_process
      mom == Orphaned(proc)[proc]
      zombie == [state EXCEPT ![proc] = "ZOMBIE"]
  IN  /\ CanCall
      /\ proc # InitProc
      /\ parent' = Orphaned(proc)
      /\ children' = [children EXCEPT ![proc] = <<>>]
      /\ \/ /\ WakesParent(proc)
            /\ waiting_for_child' = [waiting_for_child EXCEPT ![mom] = FALSE]
            /\ ProcessSchedule(MadeReady(zombie, mom),
                               Queued(zombie, ready_queue, mom),
                               delay_until, clock_ticks)
         \/ /\ ~WakesParent(proc)
            /\ UNCHANGED waiting_for_child
            /\ ProcessSchedule(zombie, ready_queue, delay_until, clock_ticks)
      /\ UNCHANGED <<clock_ticks, kernel_pc, halted>>

InitExit ==
  /\ CanCall
  /\ current_process = InitProc
  /\ halted' = TRUE
  /\ UNCHANGED <<state, ready_queue, current_process, clock_ticks, delay_until,
                 kernel_pc, familyVars>>

----------------------------------------------------------------------------

(* Mutant of ZombieAt: SysWait does not look at the child's state.         *)
AnyChildAt(p) == 1 .. Len(children[p])

(* The positions of p's children queue that hold a zombie.                 *)
ZombieAt(p) == {i \in 1 .. Len(children[p]) : state[children[p][i]] = "ZOMBIE"}

(* ProcessDestroy on p's i-th child, a zombie: it is unlinked from its     *)
(* parent, its own children and the ready queue, and its slot is free.     *)
ProcessDestroy(p, i) ==
  LET child == children[p][i]
  IN  /\ state' = [state EXCEPT ![child] = "EMPTY"]
      /\ ready_queue' = IF child \in Range(ready_queue)
                        THEN Remove(ready_queue, child) ELSE ready_queue
      /\ parent' = [Orphaned(child) EXCEPT ![child] = NULL]
      /\ children' = [children EXCEPT ![child] = <<>>, ![p] = RemoveAt(@, i)]

(* SysWait finds zombies: the first one is destroyed, and the call returns *)
(* its pid.                                                                *)
WaitReaps(p) ==
  /\ \E i \in ZombieAt(p) :
       /\ \A j \in ZombieAt(p) : i <= j
       /\ ProcessDestroy(p, i)
  /\ waiting_for_child' = [waiting_for_child EXCEPT ![p] = FALSE]
  /\ kernel_pc' = [kernel_pc EXCEPT ![p] = "user"]
  /\ UNCHANGED <<current_process, clock_ticks, delay_until, halted>>

(* Mutant of WaitBlocks: waiting_for_child is not set.                     *)
WaitBlocksSilently(p) ==
  /\ children[p] # <<>>
  /\ ZombieAt(p) = {}
  /\ kernel_pc' = [kernel_pc EXCEPT ![p] = "wait"]
  /\ ProcessSchedule([state EXCEPT ![p] = "BLOCKED"], ready_queue, delay_until,
                     clock_ticks)
  /\ UNCHANGED <<clock_ticks, halted, familyVars>>

(* SysWait finds children, none of them a zombie: the caller blocks.       *)
WaitBlocks(p) ==
  /\ children[p] # <<>>
  /\ ZombieAt(p) = {}
  /\ waiting_for_child' = [waiting_for_child EXCEPT ![p] = TRUE]
  /\ kernel_pc' = [kernel_pc EXCEPT ![p] = "wait"]
  /\ ProcessSchedule([state EXCEPT ![p] = "BLOCKED"], ready_queue, delay_until,
                     clock_ticks)
  /\ UNCHANGED <<clock_ticks, halted, parent, children>>

(* One turn of SysWait's loop; with no child at all it returns ERROR and   *)
(* nothing changes.                                                        *)
WaitLoop(p) == WaitReaps(p) \/ WaitBlocks(p)

SysWait == CanCall /\ WaitLoop(current_process)

(* SysWait after its ProcessSchedule returns.                              *)
SysWaitResumed ==
  /\ ~halted
  /\ kernel_pc[current_process] = "wait"
  /\ WaitLoop(current_process)

----------------------------------------------------------------------------

Init ==
  /\ SchedInit({}, <<>>)
  /\ parent = [p \in Proc |-> NULL]
  /\ children = [p \in Proc |-> <<>>]
  /\ waiting_for_child = [p \in Proc |-> FALSE]

Clock == TrapClock /\ UNCHANGED familyVars
Delay == \E ticks \in 1 .. MaxDelay : SysDelay(ticks) /\ UNCHANGED familyVars
Fork == \E child \in Proc : SysFork(child)
Stopped == Halted /\ UNCHANGED familyVars

Next ==
  \/ Clock
  \/ Delay
  \/ Fork
  \/ SysWait
  \/ SysWaitResumed
  \/ ProcessExitCurrent
  \/ InitExit
  \/ Stopped

Spec == Init /\ [][Next]_vars

(* The clock interrupt keeps coming and is taken whenever the CPU is back  *)
(* in user mode; kernel code that is current runs to its end.              *)
FairSpec == Spec /\ SF_vars(Clock) /\ WF_vars(SysWaitResumed)

----------------------------------------------------------------------------

TypeOK ==
  /\ state \in [Proc -> ProcState]
  /\ ready_queue \in Seq(Proc)
  /\ current_process \in Proc
  /\ clock_ticks \in 0 .. Word - 1
  /\ delay_until \in [Proc -> 0 .. Word - 1]
  /\ kernel_pc \in [Proc -> {"user", "wait"}]
  /\ halted \in BOOLEAN
  /\ parent \in [Proc -> Proc \cup {NULL}]
  /\ children \in [Proc -> Seq(Proc)]
  /\ waiting_for_child \in [Proc -> BOOLEAN]

(* The process tree has no dangling link: ProcessExitCurrent and           *)
(* ProcessDestroy follow parent pointers without a check, so a parent      *)
(* pointer must lead to a live PCB that has the process in its children    *)
(* queue exactly once, and the queue holds nothing else.                   *)
FamilySound ==
  /\ \A p \in Proc : IsInjective(children[p])
  /\ \A p, c \in Proc : c \in Range(children[p]) <=> parent[c] = p
  /\ \A c \in Proc : parent[c] # NULL =>
       /\ state[c] # "EMPTY"
       /\ state[parent[c]] \notin {"EMPTY", "ZOMBIE"}

(* No exit is missed: a process blocked in SysWait has a child to wait     *)
(* for, none of its children is already a zombie, and its                  *)
(* waiting_for_child flag, which is all a dying child looks at, is up.     *)
NoMissedExit ==
  \A p \in Proc :
    /\ kernel_pc[p] = "wait" /\ state[p] = "BLOCKED" =>
         waiting_for_child[p] /\ children[p] # <<>> /\ ZombieAt(p) = {}
    /\ waiting_for_child[p] =>
         kernel_pc[p] = "wait" /\ state[p] = "BLOCKED" /\ delay_until[p] = 0

(* A process that SysDelay blocked and that has a wake-up time is never    *)
(* still asleep once that time has come.                                   *)
NoOversleep ==
  \A p \in Proc :
    state[p] = "BLOCKED" /\ delay_until[p] # 0 /\ p < MAX_PROCS =>
      delay_until[p] > clock_ticks

(* A PCB is destroyed only as a zombie, and only by its own parent.        *)
ReapedByParent ==
  [][\A c \in Proc :
       state[c] # "EMPTY" /\ state'[c] = "EMPTY" =>
         state[c] = "ZOMBIE" /\ parent[c] = current_process]_vars

(* A process in the ready queue gets the CPU: the queue is FIFO and every  *)
(* clock trap takes its front.                                             *)
QueuedRuns ==
  \A p \in Proc :
    p \in Range(ready_queue) ~> (current_process = p \/ halted)

(* A parent that waits for a child that has exited returns from SysWait.   *)
ExitCollected ==
  \A p \in Proc :
    (kernel_pc[p] = "wait" /\ ZombieAt(p) # {}) ~>
       (kernel_pc[p] = "user" \/ halted)

(* A process with a wake-up time gets out of Delay.  One whose wake-up     *)
(* time is a multiple of 2^32, and so 0, has none.                         *)
DelayEnds ==
  \A p \in Proc :
    (state[p] = "BLOCKED" /\ delay_until[p] # 0) ~>
       (state[p] = "READY" \/ current_process = p \/ halted)

(* Every process that is READY is run again: "Clock traps alternate        *)
(* execution between init and idle while init pauses"                      *)
(* (docs/checkpoint3_tests.tex).                                           *)
ReadyRuns ==
  \A p \in Proc : state[p] = "READY" ~> (current_process = p \/ halted)

============================================================================
