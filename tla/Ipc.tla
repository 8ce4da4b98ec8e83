-------------------------------- MODULE Ipc --------------------------------
(***************************************************************************)
(* Pipes, locks and condition variables of ipc.c: one table of objects,    *)
(* each a union of the three kinds, whose slots Reclaim frees and the next *)
(* PipeInit, LockInit or CvarInit reuses under the same id.                *)
(*                                                                         *)
(* Every kind has exactly one queue of blocked processes (pipe.readers,    *)
(* lock.waiters, cvar.waiters), so one function waiters stands for the     *)
(* three members of the union.  A call that fails its argument checks      *)
(* returns ERROR and changes nothing; such calls are not steps, and nor is *)
(* a PipeWrite for which the kernel heap has no room.                      *)
(*                                                                         *)
(* The bytes written to a pipe are numbered 1, 2, ... in the order         *)
(* PipeWrite receives them.  holds, sent and delivered are history: what   *)
(* the programs have been told, not kernel state.                          *)
(***************************************************************************)
EXTENDS Sched, SequencesExt

CONSTANTS
  NULL,             \* the null PCB pointer
  Live,             \* the processes beside idle and init that exist
  IPC_MAX_OBJECTS,  \* slots of the object table
  Kinds,            \* the kinds of object the programs create
  PIPE_BUFFER_LEN,  \* initial capacity of a pipe
  INT_MAX,          \* largest int
  MaxBytes,         \* bound: bytes written to one pipe over its life
  MaxLen,           \* bound: length of one read or write
  CopyOrders        \* orders in which memcpy may copy overlapping bytes

ASSUME IpcAssumption ==
  /\ NULL \notin Proc
  /\ Live \subseteq Proc \ {Idle, InitProc}
  /\ IPC_MAX_OBJECTS \in Nat \ {0}
  /\ Kinds \subseteq {"PIPE", "LOCK", "CVAR"}
  /\ INT_MAX \in Nat
  /\ \E bits \in 0 .. INT_MAX : INT_MAX + 1 = 2 ^ bits
  /\ PIPE_BUFFER_LEN \in 1 .. INT_MAX
  /\ MaxBytes \in Nat
  /\ MaxLen \in 0 .. INT_MAX
  /\ CopyOrders \subseteq {"ascending", "descending"}
  /\ CopyOrders # {}

VARIABLES
  type,       \* IpcObject.type
  owner,      \* lock.owner
  waiters,    \* pipe.readers, lock.waiters or cvar.waiters, front first
  buf,        \* pipe.buf[0 .. len - 1]
  cap,        \* pipe.cap
  call,       \* the arguments of the call a process is blocked in
  holds,      \* the locks each process has been told it acquired
  sent,       \* number of bytes written to the pipe
  delivered   \* the bytes PipeRead has returned from the pipe, in order

objectVars == <<type, owner, waiters, buf, cap>>
historyVars == <<holds, sent, delivered>>
ipcVars == <<objectVars, call, historyVars>>
vars == <<schedVars, ipcVars>>

Id == 0 .. IPC_MAX_OBJECTS - 1

(* Where a process goes on that BlockOnQueue put to sleep.                 *)
Sleeps == {"pipe_read", "acquire", "cvar_wait"}

NoCall == [id |-> 0, lock |-> 0, len |-> 0]

----------------------------------------------------------------------------
(* Blocking and waking.                                                    *)

(* BlockOnQueue: p is linked behind the waiters of id and gives up the     *)
(* CPU; it continues at pc with arguments args.  st, rq and q are what the *)
(* handler has made of the states, the ready queue and the wait queues.    *)
BlockOnQueue(p, id, pc, args, st, rq, q) ==
  /\ waiters' = [q EXCEPT ![id] = Append(@, p)]
  /\ kernel_pc' = [kernel_pc EXCEPT ![p] = pc]
  /\ call' = [call EXCEPT ![p] = args]
  /\ ProcessSchedule([st EXCEPT ![p] = "BLOCKED"], rq, delay_until, clock_ticks)
  /\ UNCHANGED <<clock_ticks, halted>>

(* The call returns to its program without blocking.                       *)
Returns(p) ==
  /\ kernel_pc' = [kernel_pc EXCEPT ![p] = "user"]
  /\ call' = [call EXCEPT ![p] = NoCall]

Running(p, pc) == ~halted /\ current_process = p /\ kernel_pc[p] = pc

(* Mutant of WakeOneReady: the woken process is not queued to run.         *)
WakeOneNotReady(id) == ready_queue

(* WakeOne on the waiters of id, as the states, the ready queue and the    *)
(* wait queues it leaves.                                                  *)
WakeOneState(id) ==
  IF waiters[id] = <<>> THEN state ELSE MadeReady(state, Head(waiters[id]))
WakeOneReady(id) ==
  IF waiters[id] = <<>> THEN ready_queue
                        ELSE Queued(state, ready_queue, Head(waiters[id]))
WakeOneQueue(id) ==
  [waiters EXCEPT ![id] = IF @ = <<>> THEN <<>> ELSE Tail(@)]

(* Mutants of WakeAll: only the first is woken; the woken processes are    *)
(* not queued to run.                                                      *)
WakeAllOnce(id) ==
  /\ state' = WakeOneState(id)
  /\ ready_queue' = WakeOneReady(id)
  /\ waiters' = WakeOneQueue(id)

WakeAllNotReady(id) ==
  /\ state' = [p \in Proc |-> IF p \in Range(waiters[id]) THEN "READY"
                                                          ELSE state[p]]
  /\ waiters' = [waiters EXCEPT ![id] = <<>>]
  /\ UNCHANGED ready_queue

(* WakeAll wakes the waiters of id front first.  They are all blocked, so  *)
(* none is dead or in the ready queue already (WaitersSound).              *)
WakeAll(id) ==
  /\ state' = [p \in Proc |-> IF p \in Range(waiters[id]) THEN "READY"
                                                          ELSE state[p]]
  /\ ready_queue' = ready_queue \o waiters[id]
  /\ waiters' = [waiters EXCEPT ![id] = <<>>]

----------------------------------------------------------------------------
(* Creating and reclaiming objects.                                        *)

(* AllocObject takes the first free slot; the three Init calls then set up *)
(* the member of the union they use.                                       *)
AllocObject(kind) ==
  /\ CanCall
  /\ kind \in Kinds
  /\ \E id \in Id :
       /\ type[id] = "FREE"
       /\ \A j \in Id : type[j] = "FREE" => id <= j
       /\ type' = [type EXCEPT ![id] = kind]
       /\ owner' = [owner EXCEPT ![id] = NULL]
       /\ waiters' = [waiters EXCEPT ![id] = <<>>]
       /\ buf' = [buf EXCEPT ![id] = <<>>]
       /\ cap' = [cap EXCEPT ![id] = IF kind = "PIPE" THEN PIPE_BUFFER_LEN ELSE 0]
       /\ sent' = [sent EXCEPT ![id] = 0]
       /\ delivered' = [delivered EXCEPT ![id] = <<>>]
  /\ UNCHANGED <<schedVars, call, holds>>

SysPipeInit == AllocObject("PIPE")
SysLockInit == AllocObject("LOCK")
SysCvarInit == AllocObject("CVAR")

(* Mutant of Reclaimable: only the owner of a lock is looked at.           *)
ReclaimableWaitedOn(id) ==
  /\ type[id] # "FREE"
  /\ type[id] = "LOCK" => owner[id] = NULL

(* SysReclaim refuses an object that a process is blocked on or owns.      *)
Reclaimable(id) ==
  /\ type[id] # "FREE"
  /\ waiters[id] = <<>>
  /\ type[id] = "LOCK" => owner[id] = NULL

SysReclaim(id) ==
  /\ CanCall
  /\ Reclaimable(id)
  /\ type' = [type EXCEPT ![id] = "FREE"]
  /\ buf' = [buf EXCEPT ![id] = <<>>]
  /\ cap' = [cap EXCEPT ![id] = 0]
  /\ sent' = [sent EXCEPT ![id] = 0]
  /\ delivered' = [delivered EXCEPT ![id] = <<>>]
  /\ UNCHANGED <<schedVars, owner, waiters, call, holds>>

----------------------------------------------------------------------------
(* Pipes.                                                                  *)

(* Mutant of Shifted: the bytes that were read stay, the last ones go.     *)
NotShifted(b, count, order) == SubSeq(b, 1, Len(b) - count)

(* What memcpy(buf, buf + count, n) leaves in buf[0 .. n - 1].  The two    *)
(* blocks overlap when n > count, which C leaves undefined: copied from    *)
(* the lowest byte up the result is the tail of buf, copied from the       *)
(* highest byte down a byte already overwritten is copied again.           *)
Shifted(b, count, order) ==
  LET n == Len(b) - count
  IN  [i \in 1 .. n |->
         IF order = "ascending" THEN b[i + count]
         ELSE b[CHOOSE j \in n + 1 .. n + count : \E m \in 1 .. n : j = i + m * count]]

(* The end of SysPipeRead: the pipe is not empty.                          *)
PipeTake(p, id, len) ==
  LET count == IF Len(buf[id]) > len THEN len ELSE Len(buf[id])
  IN  /\ buf[id] # <<>>
      /\ \E order \in CopyOrders :
           buf' = [buf EXCEPT ![id] = Shifted(@, count, order)]
      /\ delivered' = [delivered EXCEPT ![id] = @ \o SubSeq(buf[id], 1, count)]
      /\ Returns(p)
      /\ UNCHANGED <<state, ready_queue, current_process, clock_ticks,
                     delay_until, halted, type, owner, waiters, cap, holds, sent>>

PipeBlock(p, id, len) ==
  /\ buf[id] = <<>>
  /\ BlockOnQueue(p, id, "pipe_read", [NoCall EXCEPT !.id = id, !.len = len],
                  state, ready_queue, waiters)
  /\ UNCHANGED <<type, owner, buf, cap, historyVars>>

PipeLoop(p, id, len) == PipeTake(p, id, len) \/ PipeBlock(p, id, len)

SysPipeRead(id, len) ==
  /\ CanCall
  /\ type[id] = "PIPE"
  /\ PipeLoop(current_process, id, len)

(* SysPipeRead after BlockOnQueue: the id is looked up again.              *)
SysPipeReadResumed(p) ==
  /\ Running(p, "pipe_read")
  /\ type[call[p].id] = "PIPE"
  /\ PipeLoop(p, call[p].id, call[p].len)

(* Mutant of AsInt: the arithmetic is wider than an int.                   *)
AsLong(n) == n

(* The int that a sum or a doubling of ints gives, n being their value:    *)
(* two's complement, which is what the build does with an overflow.        *)
AsInt(n) ==
  IF n > INT_MAX THEN n - 2 * (INT_MAX + 1)
  ELSE IF n < -(INT_MAX + 1) THEN n + 2 * (INT_MAX + 1)
  ELSE n

(* The loop of PipeEnsureCapacity: what new_cap is after k rounds, and the *)
(* rounds after which the loop may end.  There are none when new_cap has   *)
(* overflown to 0 before it reaches needed.                                *)
Doubled(c) ==
  LET new_cap[k \in Nat] == IF k = 0 THEN c ELSE AsInt(2 * new_cap[k - 1])
  IN  new_cap

Rounds(c, needed) == {k \in 0 .. INT_MAX + 1 : Doubled(c)[k] >= needed}

(* PipeEnsureCapacity: the capacity is doubled until needed bytes fit.     *)
PipeEnsureCapacity(c, needed) ==
  Doubled(c)[CHOOSE k \in Rounds(c, needed) : \A j \in Rounds(c, needed) : k <= j]

(* SysPipeWrite when the buffer has, or gets, room for the bytes.          *)
PipeStore(id, len, new_cap) ==
  /\ Len(buf[id]) + len <= new_cap
  /\ sent[id] + len <= MaxBytes
  /\ buf' = [buf EXCEPT ![id] = @ \o [i \in 1 .. len |-> sent[id] + i]]
  /\ cap' = [cap EXCEPT ![id] = new_cap]
  /\ sent' = [sent EXCEPT ![id] = @ + len]
  /\ WakeAll(id)
  /\ UNCHANGED <<current_process, clock_ticks, delay_until, kernel_pc, halted,
                 type, owner, call, holds, delivered>>

(* SysPipeWrite when the kernel does not come back from it: it doubles for *)
(* ever, or its memcpy runs over the end of the buffer, after which this   *)
(* model says nothing any more.                                            *)
PipeLost(id, len, where) ==
  /\ kernel_pc' = [kernel_pc EXCEPT ![current_process] = where]
  /\ call' = [call EXCEPT ![current_process] = [NoCall EXCEPT !.id = id, !.len = len]]
  /\ UNCHANGED <<state, ready_queue, current_process, clock_ticks, delay_until,
                 halted, objectVars, historyVars>>

SysPipeWrite(id, len) ==
  LET needed == AsInt(Len(buf[id]) + len)
      new_cap == PipeEnsureCapacity(cap[id], needed)
  IN  /\ CanCall
      /\ type[id] = "PIPE"
      /\ \/ /\ Rounds(cap[id], needed) # {}
            /\ PipeStore(id, len, new_cap)
         \/ /\ Rounds(cap[id], needed) = {}
            /\ PipeLost(id, len, "growing")
         \/ /\ Rounds(cap[id], needed) # {}
            /\ Len(buf[id]) + len > new_cap
            /\ PipeLost(id, len, "overrun")

(* The kernel is still there.                                              *)
Lost ==
  /\ ~halted
  /\ kernel_pc[current_process] \in {"growing", "overrun"}
  /\ UNCHANGED vars

----------------------------------------------------------------------------
(* Locks.                                                                  *)

(* Mutant of LockRelease: the waiter is woken but not made the owner.      *)
LockDropped(id) == owner' = [owner EXCEPT ![id] = NULL]

(* LockRelease: the lock goes to the first waiter, who is woken, or to     *)
(* nobody.                                                                 *)
NextOwner(id) == IF waiters[id] = <<>> THEN NULL ELSE Head(waiters[id])

LockRelease(id) == owner' = [owner EXCEPT ![id] = NextOwner(id)]

(* LockAcquire finds the lock free, or, after BlockOnQueue, handed to p.   *)
AcquireTake(p, id) ==
  /\ owner[id] \in {NULL, p}
  /\ owner' = [owner EXCEPT ![id] = p]
  /\ holds' = [holds EXCEPT ![p] = @ \cup {id}]
  /\ Returns(p)
  /\ UNCHANGED <<state, ready_queue, current_process, clock_ticks, delay_until,
                 halted, type, waiters, buf, cap, sent, delivered>>

AcquireBlock(p, id) ==
  /\ owner[id] \notin {NULL, p}
  /\ BlockOnQueue(p, id, "acquire", [NoCall EXCEPT !.id = id],
                  state, ready_queue, waiters)
  /\ UNCHANGED <<type, owner, buf, cap, historyVars>>

AcquireLoop(p, id) == AcquireTake(p, id) \/ AcquireBlock(p, id)

(* A caller that owns the lock already gets ERROR.                         *)
SysAcquire(id) ==
  /\ CanCall
  /\ type[id] = "LOCK"
  /\ owner[id] # current_process
  /\ AcquireLoop(current_process, id)

(* LockAcquire after BlockOnQueue.  That the lock still exists is          *)
(* LockSound: it is owned by then, and Reclaim refuses an owned lock.      *)
AcquireResumed(p) ==
  /\ Running(p, "acquire")
  /\ type[call[p].id] = "LOCK"
  /\ AcquireLoop(p, call[p].id)

SysRelease(id) ==
  /\ CanCall
  /\ type[id] = "LOCK"
  /\ owner[id] = current_process
  /\ LockRelease(id)
  /\ state' = WakeOneState(id)
  /\ ready_queue' = WakeOneReady(id)
  /\ waiters' = WakeOneQueue(id)
  /\ holds' = [holds EXCEPT ![current_process] = @ \ {id}]
  /\ UNCHANGED <<current_process, clock_ticks, delay_until, kernel_pc, halted,
                 type, buf, cap, call, sent, delivered>>

----------------------------------------------------------------------------
(* Condition variables.                                                    *)

SysCvarSignal(id) ==
  /\ CanCall
  /\ type[id] = "CVAR"
  /\ state' = WakeOneState(id)
  /\ ready_queue' = WakeOneReady(id)
  /\ waiters' = WakeOneQueue(id)
  /\ UNCHANGED <<current_process, clock_ticks, delay_until, kernel_pc, halted,
                 type, owner, buf, cap, call, historyVars>>

SysCvarBroadcast(id) ==
  /\ CanCall
  /\ type[id] = "CVAR"
  /\ WakeAll(id)
  /\ UNCHANGED <<current_process, clock_ticks, delay_until, kernel_pc, halted,
                 type, owner, buf, cap, call, historyVars>>

(* SysCvarWait up to BlockOnQueue: the lock is released and the caller is  *)
(* on the condition's queue before anything else can run.                  *)
SysCvarWait(id, lock) ==
  /\ CanCall
  /\ type[id] = "CVAR"
  /\ type[lock] = "LOCK"
  /\ owner[lock] = current_process
  /\ LockRelease(lock)
  /\ holds' = [holds EXCEPT ![current_process] = @ \ {lock}]
  /\ BlockOnQueue(current_process, id, "cvar_wait",
                  [NoCall EXCEPT !.id = id, !.lock = lock],
                  WakeOneState(lock), WakeOneReady(lock), WakeOneQueue(lock))
  /\ UNCHANGED <<type, buf, cap, sent, delivered>>

(* SysCvarWait after BlockOnQueue: it acquires the lock again.  Blocking   *)
(* there, the rest of the call is LockAcquire's loop.                      *)
CanReacquire(p) ==
  /\ type[call[p].id] = "CVAR"
  /\ type[call[p].lock] = "LOCK"
  /\ owner[call[p].lock] # p

CvarWaitResumed(p) ==
  /\ Running(p, "cvar_wait")
  /\ CanReacquire(p)
  /\ AcquireLoop(p, call[p].lock)

(* A resumed call looks its objects up again and they are gone: ERROR.     *)
ResumedToNothing(p) ==
  /\ \/ Running(p, "pipe_read") /\ type[call[p].id] # "PIPE"
     \/ Running(p, "cvar_wait") /\ ~CanReacquire(p)
  /\ Returns(p)
  /\ UNCHANGED <<state, ready_queue, current_process, clock_ticks, delay_until,
                 halted, objectVars, historyVars>>

----------------------------------------------------------------------------
(* Exit.                                                                   *)

(* Mutant of IpcProcessExit: nothing is released.                          *)
IpcProcessExitNothing(p) == UNCHANGED <<owner, waiters>>

(* IpcProcessExit passes over the table and releases what p owns: the ids  *)
(* it releases, and those of them that go to a waiter.                     *)
Owned(p) == {id \in Id : type[id] = "LOCK" /\ owner[id] = p}
Handed(p) == {id \in Owned(p) : waiters[id] # <<>>}

IpcProcessExit(p) ==
  /\ owner' = [id \in Id |-> IF id \in Owned(p) THEN NextOwner(id) ELSE owner[id]]
  /\ waiters' = [id \in Id |-> IF id \in Handed(p) THEN Tail(waiters[id])
                                                  ELSE waiters[id]]

(* ProcessExitCurrent.  No program of this model calls Wait, so no parent  *)
(* is waiting_for_child (module Process has that part).                    *)
ProcessExitCurrent(p) ==
  /\ CanCall
  /\ p = current_process
  /\ p # InitProc
  /\ IpcProcessExit(p)
  /\ \E ids \in Ascending(Handed(p)) :
       LET woken == [i \in DOMAIN ids |-> Head(waiters[ids[i]])]
       IN  ProcessSchedule([q \in Proc |-> IF q = p THEN "ZOMBIE"
                                           ELSE IF q \in Range(woken) THEN "READY"
                                           ELSE state[q]],
                           ready_queue \o woken, delay_until, clock_ticks)
  /\ holds' = [holds EXCEPT ![p] = {}]
  /\ UNCHANGED <<clock_ticks, kernel_pc, halted, type, buf, cap, call, sent,
                 delivered>>

InitExit ==
  /\ CanCall
  /\ current_process = InitProc
  /\ halted' = TRUE
  /\ UNCHANGED <<state, ready_queue, current_process, clock_ticks, delay_until,
                 kernel_pc, ipcVars>>

----------------------------------------------------------------------------

Init ==
  /\ \E rq \in Ascending(Live) : SchedInit(Live, rq)
  /\ type = [id \in Id |-> "FREE"]
  /\ owner = [id \in Id |-> NULL]
  /\ waiters = [id \in Id |-> <<>>]
  /\ buf = [id \in Id |-> <<>>]
  /\ cap = [id \in Id |-> 0]
  /\ call = [p \in Proc |-> NoCall]
  /\ holds = [p \in Proc |-> {}]
  /\ sent = [id \in Id |-> 0]
  /\ delivered = [id \in Id |-> <<>>]

Clock == TrapClock /\ UNCHANGED ipcVars
Stopped == Halted /\ UNCHANGED ipcVars
Resume ==
  \E p \in Proc :
    \/ SysPipeReadResumed(p)
    \/ AcquireResumed(p)
    \/ CvarWaitResumed(p)
    \/ ResumedToNothing(p)

Next ==
  \/ Clock
  \/ SysPipeInit
  \/ SysLockInit
  \/ SysCvarInit
  \/ \E id \in Id : SysReclaim(id)
  \/ \E id \in Id, len \in 1 .. MaxLen : SysPipeRead(id, len)
  \/ \E id \in Id, len \in 1 .. MaxLen : SysPipeWrite(id, len)
  \/ \E id \in Id : SysAcquire(id)
  \/ \E id \in Id : SysRelease(id)
  \/ \E id \in Id : SysCvarSignal(id)
  \/ \E id \in Id : SysCvarBroadcast(id)
  \/ \E id, lock \in Id : SysCvarWait(id, lock)
  \/ Resume
  \/ \E p \in Proc : ProcessExitCurrent(p)
  \/ InitExit
  \/ Stopped
  \/ Lost

Spec == Init /\ [][Next]_vars

(* The clock interrupt keeps coming and is taken whenever the CPU is back  *)
(* in user mode; kernel code that is current runs to its end.              *)
FairSpec == Spec /\ SF_vars(Clock) /\ WF_vars(Resume)

----------------------------------------------------------------------------

TypeOK ==
  /\ state \in [Proc -> ProcState]
  /\ ready_queue \in Seq(Proc)
  /\ current_process \in Proc
  /\ clock_ticks \in 0 .. Word - 1
  /\ delay_until \in [Proc -> 0 .. Word - 1]
  /\ kernel_pc \in [Proc -> {"user", "growing", "overrun"} \cup Sleeps]
  /\ halted \in BOOLEAN
  /\ type \in [Id -> {"FREE", "PIPE", "LOCK", "CVAR"}]
  /\ owner \in [Id -> Proc \cup {NULL}]
  /\ waiters \in [Id -> Seq(Proc)]
  /\ buf \in [Id -> Seq(1 .. MaxBytes)]
  /\ cap \in [Id -> 0 .. INT_MAX]
  /\ call \in [Proc -> [id : Id, lock : Id, len : 0 .. MaxLen]]
  /\ holds \in [Proc -> SUBSET Id]
  /\ sent \in [Id -> 0 .. MaxBytes]
  /\ delivered \in [Id -> Seq(1 .. MaxBytes)]

(* The kind of object a process blocked at pc waits for.                   *)
WaitsFor(pc) ==
  CASE pc = "pipe_read" -> "PIPE"
    [] pc = "acquire"   -> "LOCK"
    [] pc = "cvar_wait" -> "CVAR"

(* A process is on the queue of the object its blocked call names, there   *)
(* and nowhere else, exactly while it is BLOCKED, and the object is of the *)
(* kind it called for: a slot that Reclaim frees and another Init reuses   *)
(* never inherits a waiter, no woken process stays linked and no blocked   *)
(* process falls out of every queue.                                       *)
WaitersSound ==
  /\ \A id \in Id : IsInjective(waiters[id])
  /\ \A id \in Id, p \in Proc :
       p \in Range(waiters[id]) <=>
         /\ state[p] = "BLOCKED"
         /\ kernel_pc[p] \in Sleeps
         /\ type[id] = WaitsFor(kernel_pc[p])
         /\ call[p].id = id
  /\ \A p \in Proc : state[p] = "BLOCKED" => p \in Range(waiters[call[p].id])

(* Mutual exclusion with hand-off: a process that was told it holds a lock *)
(* is the lock's owner; an owner was told so or is on its way out of       *)
(* LockAcquire, already woken; nobody waits for a lock that is free; and a *)
(* dead process owns nothing, so an exit never leaves a lock stuck.        *)
LockSound ==
  /\ \A p \in Proc : \A id \in holds[p] : type[id] = "LOCK" /\ owner[id] = p
  /\ \A id \in Id : type[id] = "LOCK" =>
       /\ waiters[id] # <<>> => owner[id] # NULL
       /\ owner[id] # NULL =>
            /\ state[owner[id]] \notin {"EMPTY", "ZOMBIE"}
            /\ \/ id \in holds[owner[id]]
               \/ /\ kernel_pc[owner[id]] = "acquire"
                  /\ call[owner[id]].id = id
                  /\ state[owner[id]] # "BLOCKED"

(* No reader sleeps on a pipe that has bytes: every PipeWrite wakes them   *)
(* all, and one that finds the bytes gone blocks again on an empty pipe.   *)
NoLostReader ==
  \A id \in Id : type[id] = "PIPE" /\ waiters[id] # <<>> => buf[id] = <<>>

(* The pipe is a byte stream: what readers were given, followed by what is *)
(* buffered, is what was written, in order, and the buffer never outgrows  *)
(* the allocation.  user/final_ipc.c reads "abc" then expects the          *)
(* remaining "def" of one write.  Only int overflow breaks that: a memcpy  *)
(* overruns the buffer only if the sum of SysPipeWrite leaves int, and     *)
(* the doubling never ends only if more than half of that range is asked.  *)
PipeFifo ==
  /\ \A id \in Id : type[id] = "PIPE" =>
       /\ delivered[id] \o buf[id] = [i \in 1 .. sent[id] |-> i]
       /\ Len(buf[id]) <= cap[id]
  /\ \A p \in Proc :
       LET asked == Len(buf[call[p].id]) + call[p].len
       IN  /\ kernel_pc[p] = "overrun" => asked > INT_MAX
           /\ kernel_pc[p] = "growing" => 2 * asked > INT_MAX + 1

(* A lock changes hands in the order the waiters queued: while processes   *)
(* wait for it, its next owner is the first of them.                       *)
NoBarging ==
  [][\A id \in Id :
       type[id] = "LOCK" /\ owner'[id] # owner[id] /\ waiters[id] # <<>> =>
         owner'[id] = Head(waiters[id])]_vars

(* The owner the kernel chose gets to run: a process a lock was handed to  *)
(* returns from LockAcquire holding it.                                    *)
HandoffCompletes ==
  \A id \in Id, p \in Proc :
    (type[id] = "LOCK" /\ owner[id] = p) ~> (id \in holds[p] \/ halted)

(* A reader woken by PipeWrite runs: it returns, or finds the bytes taken  *)
(* by another reader and sleeps again.                                     *)
WokenReaderRuns ==
  \A p \in Proc :
    (kernel_pc[p] = "pipe_read" /\ state[p] = "READY") ~>
      (kernel_pc[p] = "user" \/ state[p] = "BLOCKED" \/ halted)

============================================================================
