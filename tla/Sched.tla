------------------------------- MODULE Sched -------------------------------
(***************************************************************************)
(* The scheduler core of process.c: the PCB fields every blocking handler  *)
(* goes through, ProcessMakeReady, ProcessWakeDelayed, ProcessSchedule and *)
(* the clock trap.                                                         *)
(*                                                                         *)
(* The kernel runs on one CPU with interrupts masked, so a handler is one  *)
(* step from the trap to the next call of ProcessSchedule (or to its       *)
(* return), and the rest of it, when there is a rest, is another step the  *)
(* process takes when it is current again.  kernel_pc[p] says where p      *)
(* continues: "user" is the return to user mode, anything else names a     *)
(* kernel loop that has code left to run.  Traps arrive in user mode only. *)
(*                                                                         *)
(* A process is named by its pid, the index of its slot in process_table.  *)
(***************************************************************************)
EXTENDS Naturals, Sequences, FiniteSets, Functions

CONSTANTS
  Proc,       \* the pids helper_new_pid can return (external)
  Idle,       \* the pid of idle_process
  InitProc,   \* the pid of init_process
  MAX_PROCS,  \* length of process_table: only smaller pids are registered
  Word        \* 2^w: unsigned int clock_ticks and delay_until wrap here

ASSUME SchedAssumption ==
  /\ Proc \subseteq Nat
  /\ IsFiniteSet(Proc)
  /\ Idle \in Proc
  /\ InitProc \in Proc
  /\ Idle # InitProc
  /\ MAX_PROCS \in Nat
  /\ Word \in Nat \ {0}

VARIABLES
  state,            \* PCB.state
  ready_queue,      \* the owners linked into ready_queue, front first
  current_process,
  clock_ticks,
  delay_until,      \* PCB.delay_until, 0 when the process is not delayed
  kernel_pc,        \* where the process continues when it is next current
  halted            \* Halt() was called

schedVars == <<state, ready_queue, current_process, clock_ticks, delay_until,
               kernel_pc, halted>>

ProcState == {"EMPTY", "READY", "RUNNING", "BLOCKED", "ZOMBIE"}

----------------------------------------------------------------------------

(* The current process is executing user code: the only time a trap, and   *)
(* so a system call or an interrupt, can enter the kernel.                 *)
InUserMode == ~halted /\ kernel_pc[current_process] = "user"

(* ... and it is a process, not the idle loop, so it can make system calls.*)
CanCall == InUserMode /\ current_process # Idle

(* ProcessMakeReady on a table of states and on a ready queue.             *)
Wakeable(st, p) == p # Idle /\ st[p] # "ZOMBIE"

MadeReady(st, p) ==
  IF Wakeable(st, p) THEN [st EXCEPT ![p] = "READY"] ELSE st

(* Mutants of Queued: at the front of the queue; not queued at all.        *)
QueuedAtFront(st, rq, p) ==
  IF Wakeable(st, p) /\ p \notin Range(rq) THEN <<p>> \o rq ELSE rq

QueuedNever(st, rq, p) == rq

Queued(st, rq, p) ==
  IF Wakeable(st, p) /\ p \notin Range(rq) THEN Append(rq, p) ELSE rq

(* Mutants of Due: a strict comparison; a loop one short of the table.     *)
DueLate(st, du, now) ==
  {p \in Proc : p < MAX_PROCS /\ st[p] = "BLOCKED" /\ du[p] # 0 /\ du[p] < now}

DueShort(st, du, now) ==
  {p \in Proc : p + 1 < MAX_PROCS /\ st[p] = "BLOCKED" /\ du[p] # 0 /\ du[p] <= now}

(* The processes ProcessWakeDelayed finds due at tick now, and the order   *)
(* in which its loop over process_table meets them.                        *)
Due(st, du, now) ==
  {p \in Proc : p < MAX_PROCS /\ st[p] = "BLOCKED" /\ du[p] # 0 /\ du[p] <= now}

Ascending(S) ==
  {w \in [1 .. Cardinality(S) -> S] :
     \A i, j \in 1 .. Cardinality(S) : i < j => w[i] < w[j]}

(* The process ProcessNextReady takes off the queue, or idle.              *)
ProcessNextReady(queue) == IF queue = <<>> THEN Idle ELSE Head(queue)

(* ProcessSwitch sets the next process RUNNING, unless it is the current   *)
(* one: then there is no switch and its state stays what it was.           *)
ProcessSwitch(st, next) ==
  IF next = current_process THEN st ELSE [st EXCEPT ![next] = "RUNNING"]

(* Mutant of ProcessSchedule: the front of the queue is run but not        *)
(* unlinked.                                                               *)
ProcessSchedulePeeks(st, rq, du, now) ==
  LET queue == IF current_process # Idle /\ st[current_process] = "RUNNING"
               THEN Queued(st, rq, current_process) ELSE rq
      next == ProcessNextReady(queue)
  IN  /\ ready_queue' = queue
      /\ current_process' = next
      /\ state' = [st EXCEPT ![next] = "RUNNING"]
      /\ delay_until' = du

(* ProcessSchedule, called with the states st, the ready queue rq and the  *)
(* wake-up times du the handler has left, at tick now: wake the delayed    *)
(* processes, requeue the current process if it is still RUNNING, switch   *)
(* to the front of the queue, or to idle when the queue is empty.          *)
ProcessSchedule(st, rq, du, now) ==
  LET due == Due(st, du, now)
      old == current_process
      requeue == old # Idle /\ st[old] = "RUNNING"
      woken == [p \in Proc |-> IF p \in due THEN "READY" ELSE st[p]]
      readied == IF requeue THEN MadeReady(woken, old) ELSE woken
  IN  \E w \in Ascending(due \ Range(rq)) :
        LET queue == IF requeue THEN Queued(woken, rq \o w, old) ELSE rq \o w
            next == ProcessNextReady(queue)
        IN  /\ ready_queue' = IF queue = <<>> THEN <<>> ELSE Tail(queue)
            /\ current_process' = next
            /\ state' = ProcessSwitch(readied, next)
            /\ delay_until' = [p \in Proc |-> IF p \in due THEN 0 ELSE du[p]]

(* TrapClock.                                                              *)
TrapClock ==
  /\ InUserMode
  /\ clock_ticks' = (clock_ticks + 1) % Word
  /\ ProcessSchedule(state, ready_queue, delay_until, clock_ticks')
  /\ UNCHANGED <<kernel_pc, halted>>

(* The tick at which a Delay of ticks ends: unsigned arithmetic.  Mutant:  *)
(* delay_until is wider than clock_ticks.                                  *)
WakeTimeWide(ticks) == clock_ticks + ticks
WakeTime(ticks) == (clock_ticks + ticks) % Word

(* SysDelay with ticks > 0; the other arguments return without effect.     *)
SysDelay(ticks) ==
  /\ CanCall
  /\ ticks > 0
  /\ ProcessSchedule([state EXCEPT ![current_process] = "BLOCKED"],
                     ready_queue,
                     [delay_until EXCEPT ![current_process] = WakeTime(ticks)],
                     clock_ticks)
  /\ UNCHANGED <<clock_ticks, kernel_pc, halted>>

(* The machine after Halt().                                               *)
Halted == halted /\ UNCHANGED schedVars

(* KernelStart has created idle (RUNNING from its creation) and init, and  *)
(* has switched to init; every other slot of Live is a process init and    *)
(* its descendants have already created and made ready, in the order       *)
(* given by rq.                                                            *)
SchedInit(Live, rq) ==
  /\ state = [p \in Proc |-> IF p \in {Idle, InitProc} THEN "RUNNING"
                             ELSE IF p \in Live THEN "READY" ELSE "EMPTY"]
  /\ ready_queue = rq
  /\ current_process = InitProc
  /\ clock_ticks = 0
  /\ delay_until = [p \in Proc |-> 0]
  /\ kernel_pc = [p \in Proc |-> "user"]
  /\ halted = FALSE

----------------------------------------------------------------------------

(* The scheduler's queue discipline: ready_queue links a process at most   *)
(* once, only READY processes, never idle and never the process on the     *)
(* CPU; the CPU is never given to a blocked, dead or freed process (the    *)
(* helper_abort "zombie process resumed" of ProcessExitCurrent is never    *)
(* reached); and no process other than idle is left RUNNING off the CPU.   *)
SchedulerSound ==
  /\ IsInjective(ready_queue)
  /\ \A p \in Range(ready_queue) :
       state[p] = "READY" /\ p # current_process /\ p # Idle
  /\ state[current_process] \in {"RUNNING", "READY"}
  /\ \A p \in Proc : state[p] = "RUNNING" => p \in {current_process, Idle}

============================================================================
