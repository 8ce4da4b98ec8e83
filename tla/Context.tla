------------------------------ MODULE Context ------------------------------
(***************************************************************************)
(* User contexts: how the registers of a process get from the trap that    *)
(* stops it to the return to user mode that continues it, through *uctxt,  *)
(* PCB.user_context and the kernel stacks (trap.c, the blocking calls and  *)
(* KCCopy and KCSwitch).                                                   *)
(*                                                                         *)
(* A step leads from one point where a process is switched to, or is in    *)
(* user mode, to the next.  Who is switched to is the subject of the       *)
(* modules over Sched: here it may be any live process.  After a switch    *)
(* *uctxt is Stale: whether it is on the kernel stack or in one place for  *)
(* all is the hardware's business, and no handler may rely on it.  Calls   *)
(* are told apart by how they treat the context, and a context is a place  *)
(* in the program and regs[0].  The exit of init halts the machine and is  *)
(* no step here.                                                           *)
(***************************************************************************)
EXTENDS Integers

CONSTANTS
  Proc,       \* PCBs, by pid
  Idle,       \* idle_process
  InitProc,   \* init_process
  NULL,       \* the null PCB pointer
  Pc,         \* places in a program
  Entry,      \* LoadInfo's entry point
  Stale,      \* contents of *uctxt that nobody may use
  None        \* stands for the registers of no process

SUCCESS == 0
ERROR == -1
Length == 1   \* what a TtyWrite, TtyRead, PipeRead or PipeWrite returns

ASSUME ContextAssumption ==
  /\ Proc \subseteq Nat
  /\ Idle \in Proc
  /\ InitProc \in Proc \ {Idle}
  /\ NULL \notin Proc

VARIABLES
  current_process,
  uctxt,          \* *uctxt, the registers that a return to user mode loads
  user_context,   \* PCB.user_context
  resumes_in,     \* where a process's kernel stack continues, or "user"
  caller,         \* TrapKernel's variable, on the kernel stack of each process
  status,         \* PCB.state as far as contexts go
  parent          \* PCB.parent

vars == <<current_process, uctxt, user_context, resumes_in, caller, status, parent>>

Result == {SUCCESS, ERROR, Length} \cup Proc
Context == [pc : Pc \cup {Entry}, r0 : Result]
Waits == {"wait", "delay", "write", "read", "queue"}

InUser == resumes_in[current_process] = "user"
Resuming(where) == resumes_in[current_process] = where

(* A system call by the current process: TrapKernel up to the dispatch.    *)
(* The actions below read *uctxt where the code has just saved it.         *)
Calls == InUser /\ current_process # Idle

----------------------------------------------------------------------------

(* ProcessSchedule and ProcessSwitch: p, whose context is now saved, will  *)
(* go on in place where.  It may be chosen itself; then nothing switches.  *)
(* contexts is what the handler has made of user_context.                  *)
Schedule(contexts, p, saved, where, next) ==
  /\ status[next] = "LIVE"
  /\ user_context' = [contexts EXCEPT ![p] = saved]
  /\ resumes_in' = [resumes_in EXCEPT ![p] = where]
  /\ current_process' = next
  /\ uctxt' = IF next = p THEN saved ELSE Stale

TrapClock(next) ==
  /\ InUser
  /\ Schedule(user_context, current_process, uctxt, "clock", next)
  /\ UNCHANGED <<caller, status, parent>>

(* The end of TrapClock, and of KernelStart for idle.                      *)
TrapClockReturns ==
  /\ Resuming("clock")
  /\ uctxt' = user_context[current_process]
  /\ resumes_in' = [resumes_in EXCEPT ![current_process] = "user"]
  /\ UNCHANGED <<current_process, user_context, caller, status, parent>>

(* Mutant of Saved: TrapKernel saves *uctxt whoever runs by then.          *)
SavedAlways(p, callers, ctxt) == ctxt

(* What TrapKernel stores when the call it dispatched returns to it on the *)
(* kernel stack of p with ctxt in *uctxt.                                  *)
Saved(p, callers, ctxt) == IF callers[p] = p THEN ctxt ELSE user_context[p]

(* TrapKernel from there to the return to user mode.                       *)
TrapKernelReturns(contexts, ctxt) ==
  LET p == current_process
  IN  /\ user_context' = [contexts EXCEPT ![p] = Saved(p, caller', ctxt)]
      /\ uctxt' = user_context'[p]
      /\ resumes_in' = [resumes_in EXCEPT ![p] = "user"]
      /\ UNCHANGED current_process

Enters == caller' = [caller EXCEPT ![current_process] = current_process]

----------------------------------------------------------------------------

(* Mutant of Wakes: an entry of a process that does not sleep any more is  *)
(* still in a queue.                                                       *)
WakesAnyone(woken) == current_process \notin woken

(* The processes a call may wake with WakeOne, one or many: who sleeps on  *)
(* a queue of ipc.c.                                                       *)
Wakes(woken) == \A p \in woken : resumes_in[p] = "queue"

(* What WakeOne makes of the saved contexts of the processes it wakes.     *)
WakeOne(woken) ==
  [p \in Proc |-> IF p \in woken THEN [user_context[p] EXCEPT !.r0 = SUCCESS]
                                 ELSE user_context[p]]

(* A call that returns at once: GetPid, Brk, and every other in the cases  *)
(* in which it does not wait or fails.  PipeWrite and CvarBroadcast wake   *)
(* any number of processes, Release and CvarSignal one, and the others,    *)
(* and the calls that fail, none.                                          *)
SyscallDispatch(rc, woken) ==
  /\ Calls
  /\ Enters
  /\ rc \in {SUCCESS, ERROR, Length, current_process}
  /\ Wakes(woken)
  /\ woken # {} => rc \in {SUCCESS, Length}
  /\ TrapKernelReturns(WakeOne(woken), [uctxt EXCEPT !.r0 = rc])
  /\ UNCHANGED <<status, parent>>

(* What SysFork puts in the saved context of the child.                    *)
ChildContext == [uctxt EXCEPT !.r0 = 0]

(* SysFork: the child's kernel stack is a copy of the parent's, variables  *)
(* included, that returns from KCCopy once it is switched to.              *)
SysFork(child) ==
  LET p == current_process
  IN  /\ Calls
      /\ status[child] = "EMPTY"
      /\ status' = [status EXCEPT ![child] = "LIVE"]
      /\ parent' = [parent EXCEPT ![child] = p]
      /\ caller' = [caller EXCEPT ![p] = p, ![child] = p]
      /\ user_context' = [user_context EXCEPT
                            ![p] = [uctxt EXCEPT !.r0 = child],
                            ![child] = ChildContext]
      /\ resumes_in' = [resumes_in EXCEPT ![child] = "fork"]
      /\ uctxt' = user_context'[p]
      /\ UNCHANGED current_process

(* The child's first run: SysFork returns 0 and the dispatch writes that   *)
(* into *uctxt, which is still stale.                                      *)
SysForkReturns ==
  /\ Resuming("fork")
  /\ UNCHANGED <<caller, status, parent>>
  /\ TrapKernelReturns(user_context, Stale)

(* SysExec: LoadProgram sets the saved pc, and the dispatch takes *uctxt   *)
(* from there.                                                             *)
SysExec ==
  /\ Calls
  /\ Enters
  /\ TrapKernelReturns(user_context, [uctxt EXCEPT !.pc = Entry])
  /\ UNCHANGED <<status, parent>>

(* ProcessExitCurrent, from SysExit, a failed Exec, TrapAbort and          *)
(* TrapMemory, in which the zombie never goes on.  IpcProcessExit wakes    *)
(* who waits for its locks.                                                *)
ProcessExitCurrent(next, woken) ==
  LET p == current_process
  IN  /\ Calls
      /\ p # InitProc
      /\ next # p
      /\ Wakes(woken)
      /\ Schedule(WakeOne(woken), p, uctxt, "zombie", next)
      /\ status' = [status EXCEPT ![p] = "ZOMBIE"]
      /\ parent' = [c \in Proc |-> IF parent[c] = p THEN NULL ELSE parent[c]]
      /\ UNCHANGED caller

----------------------------------------------------------------------------
(* Calls that wait.                                                        *)

Zombies(p) == {c \in Proc : status[c] = "ZOMBIE" /\ parent[c] = p}

(* The body of SysWait's loop, with ctxt in *uctxt.                        *)
WaitLoop(ctxt) ==
  LET p == current_process
  IN  \/ \E child \in Zombies(p) :
           /\ status' = [status EXCEPT ![child] = "EMPTY"]
           /\ parent' = [parent EXCEPT ![child] = NULL]
           /\ TrapKernelReturns(user_context, [ctxt EXCEPT !.r0 = child])
      \/ /\ Zombies(p) = {}
         /\ \A c \in Proc : parent[c] # p
         /\ TrapKernelReturns(user_context, [ctxt EXCEPT !.r0 = ERROR])
         /\ UNCHANGED <<status, parent>>
      \/ /\ Zombies(p) = {}
         /\ \E c \in Proc : parent[c] = p
         /\ \E next \in Proc : Schedule(user_context, p, ctxt, "wait", next)
         /\ UNCHANGED <<status, parent>>

SysWait == Calls /\ Enters /\ WaitLoop(uctxt)

(* A call that was switched to restores *uctxt first.                      *)
Restored == user_context[current_process]

SysWaitResumed ==
  /\ Resuming("wait")
  /\ UNCHANGED caller
  /\ WaitLoop(Restored)

(* SysDelay and SysTtyWrite save the context with the result already in    *)
(* it and return the same result when they go on.                          *)
SysDelay(next) ==
  /\ Calls
  /\ Enters
  /\ Schedule(user_context, current_process, [uctxt EXCEPT !.r0 = SUCCESS], "delay", next)
  /\ UNCHANGED <<status, parent>>

SysTtyWrite(next) ==
  /\ Calls
  /\ Enters
  /\ Schedule(user_context, current_process, [uctxt EXCEPT !.r0 = Length], "write", next)
  /\ UNCHANGED <<status, parent>>

(* TrapTtyTransmit puts the result down once more, whoever it interrupts.  *)
TrapTtyTransmit(writer) ==
  /\ InUser
  /\ resumes_in[writer] = "write"
  /\ user_context' = [user_context EXCEPT ![writer].r0 = Length]
  /\ UNCHANGED <<current_process, uctxt, resumes_in, caller, status, parent>>

SysDelayResumed ==
  /\ Resuming("delay")
  /\ UNCHANGED <<caller, status, parent>>
  /\ TrapKernelReturns(user_context, [Restored EXCEPT !.r0 = SUCCESS])

SysTtyWriteResumed ==
  /\ Resuming("write")
  /\ UNCHANGED <<caller, status, parent>>
  /\ TrapKernelReturns(user_context, [Restored EXCEPT !.r0 = Length])

(* SysTtyRead sleeps as often as it has to; TrapTtyReceive wakes it and    *)
(* leaves its context alone.                                               *)
SysTtyRead(next) ==
  /\ Calls
  /\ Enters
  /\ Schedule(user_context, current_process, uctxt, "read", next)
  /\ UNCHANGED <<status, parent>>

SysTtyReadResumed ==
  /\ Resuming("read")
  /\ UNCHANGED <<caller, status, parent>>
  /\ \/ \E rc \in {0, Length} :
          TrapKernelReturns(user_context, [Restored EXCEPT !.r0 = rc])
     \/ \E next \in Proc :
          Schedule(user_context, current_process, Restored, "read", next)

(* SysPipeRead, SysAcquire and SysCvarWait, which go to sleep on a queue   *)
(* of ipc.c as often as they have to.  CvarWait has woken the next owner   *)
(* of its lock by then.                                                    *)
BlockOnQueue(next, woken) ==
  /\ Calls
  /\ Enters
  /\ Wakes(woken)
  /\ \A p, q \in woken : p = q
  /\ Schedule(WakeOne(woken), current_process, uctxt, "queue", next)
  /\ UNCHANGED <<status, parent>>

(* What they restore has the SUCCESS of WakeOne in it, and the dispatch    *)
(* writes the result over that.                                            *)
BlockedResumed ==
  /\ Resuming("queue")
  /\ UNCHANGED <<caller, status, parent>>
  /\ \/ \E rc \in {SUCCESS, ERROR, Length} :
          TrapKernelReturns(user_context, [Restored EXCEPT !.r0 = rc])
     \/ \E next \in Proc :
          Schedule(user_context, current_process, Restored, "queue", next)

----------------------------------------------------------------------------

(* The program computes.                                                   *)
Compute(pc) ==
  /\ InUser
  /\ uctxt' = [uctxt EXCEPT !.pc = pc]
  /\ UNCHANGED <<current_process, user_context, resumes_in, caller, status, parent>>

(* KernelStart returns for init, whose program is loaded; idle is left in  *)
(* KernelStart behind the switch to init.                                  *)
Init ==
  /\ current_process = InitProc
  /\ uctxt = [pc |-> Entry, r0 |-> 0]
  /\ user_context = [p \in Proc |-> [pc |-> Entry, r0 |-> 0]]
  /\ resumes_in = [p \in Proc |-> IF p = Idle THEN "clock" ELSE "user"]
  /\ caller = [p \in Proc |-> NULL]
  /\ status = [p \in Proc |-> IF p \in {Idle, InitProc} THEN "LIVE" ELSE "EMPTY"]
  /\ parent = [p \in Proc |-> NULL]

Next ==
  \/ \E pc \in Pc : Compute(pc)
  \/ \E next \in Proc : TrapClock(next)
  \/ TrapClockReturns
  \/ \E rc \in Result, woken \in SUBSET Proc : SyscallDispatch(rc, woken)
  \/ \E child \in Proc : SysFork(child)
  \/ SysForkReturns
  \/ SysExec
  \/ \E next \in Proc, woken \in SUBSET Proc : ProcessExitCurrent(next, woken)
  \/ SysWait
  \/ SysWaitResumed
  \/ \E next \in Proc : SysDelay(next)
  \/ SysDelayResumed
  \/ \E next \in Proc : SysTtyWrite(next)
  \/ \E writer \in Proc : TrapTtyTransmit(writer)
  \/ SysTtyWriteResumed
  \/ \E next \in Proc : SysTtyRead(next)
  \/ SysTtyReadResumed
  \/ \E next \in Proc, woken \in SUBSET Proc : BlockOnQueue(next, woken)
  \/ BlockedResumed

Spec == Init /\ [][Next]_vars

----------------------------------------------------------------------------

TypeOK ==
  /\ current_process \in Proc
  /\ uctxt \in Context \cup {Stale}
  /\ user_context \in [Proc -> Context]
  /\ resumes_in \in [Proc -> {"user", "clock", "fork", "zombie"} \cup Waits]
  /\ caller \in [Proc -> Proc \cup {NULL}]
  /\ status \in [Proc -> {"EMPTY", "LIVE", "ZOMBIE"}]
  /\ parent \in [Proc -> Proc \cup {NULL}]

(* The registers each process has, or will have when it runs again.        *)
registers ==
  [p \in Proc |->
     IF status[p] # "LIVE" THEN None
     ELSE IF p = current_process /\ InUser THEN uctxt ELSE user_context[p]]

Cpus == INSTANCE VirtualCpus
  WITH regs <- registers, cpu <- current_process,
       inCall <- {p \in Proc : status[p] = "LIVE" /\ resumes_in[p] \in Waits}

(* Every process has a CPU of its own, as far as it can tell: whatever     *)
(* traps, calls and switches come between, it goes on with its own         *)
(* registers, a forked child with its parent's and 0, and a call returns   *)
(* its result to the process that made it.                                 *)
OwnRegisters == Cpus!Spec

=============================================================================
