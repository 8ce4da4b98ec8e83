--------------------------- MODULE ProcessProofs ---------------------------
(***************************************************************************)
(* The invariants of module Process, proved for every set of pids, every   *)
(* clock width and every bound on Delay: the scheduler's discipline, the   *)
(* process tree, and Wait and Delay.                                       *)
(***************************************************************************)
EXTENDS Process, SchedProofs

(* Idle is never blocked and never in a system call.                       *)
IdleRuns == state[Idle] = "RUNNING" /\ kernel_pc[Idle] = "user"

(* TypeOK and SchedulerSound are inductive together with IdleRuns.         *)
SchedInv == TypeOK /\ SchedulerSound /\ IdleRuns

----------------------------------------------------------------------------
(* The scheduler.                                                          *)

(* SchedInv is what ProcessSchedule's lemma asks of the state ...          *)
LEMMA SchedInvGives ==
  ASSUME SchedInv
  PROVE  /\ current_process \in Proc
         /\ StatesSound(state, current_process)
         /\ QueueSound(state, ready_queue, current_process)
         /\ state[current_process] \in {"RUNNING", "READY"}
         /\ delay_until \in [Proc -> 0 .. Word - 1]
  BY DEF SchedInv, TypeOK, SchedulerSound, IdleRuns, StatesSound, QueueSound

(* ... also when the current process has just been blocked or has died.    *)
LEMMA GivesUpCPU ==
  ASSUME SchedInv, current_process # Idle, NEW s \in {"BLOCKED", "ZOMBIE"}
  PROVE  /\ StatesSound([state EXCEPT ![current_process] = s], current_process)
         /\ QueueSound([state EXCEPT ![current_process] = s], ready_queue,
                       current_process)
  <1>1. StatesSound([state EXCEPT ![current_process] = s], current_process)
    BY SchedInvGives, SchedAssumption DEF StatesSound, ProcState
  <1>2. QueueSound([state EXCEPT ![current_process] = s], ready_queue,
                   current_process)
    BY SchedInvGives DEF QueueSound, StatesSound
  <1> QED
    BY <1>1, <1>2

(* A step that calls ProcessSchedule with sound arguments keeps SchedInv.  *)
LEMMA ScheduleKeepsSchedInv ==
  ASSUME SchedInv,
         NEW st, NEW rq, NEW du \in [Proc -> 0 .. Word - 1], NEW now,
         StatesSound(st, current_process),
         QueueSound(st, rq, current_process),
         ProcessSchedule(st, rq, du, now),
         clock_ticks' \in 0 .. Word - 1,
         kernel_pc' \in [Proc -> {"user", "wait"}],
         kernel_pc'[Idle] = "user",
         UNCHANGED halted,
         parent' \in [Proc -> Proc \cup {NULL}],
         children' \in [Proc -> Seq(Proc)],
         waiting_for_child' \in [Proc -> BOOLEAN]
  PROVE  SchedInv' /\ Rescheduled(st, du, now)
  <1>1. /\ StatesSound(state', current_process')
        /\ QueueSound(state', ready_queue', current_process')
        /\ state'[current_process'] \in {"RUNNING", "READY"}
        /\ current_process' \in Proc
        /\ delay_until' \in [Proc -> 0 .. Word - 1]
        /\ Rescheduled(st, du, now)
    BY SchedInvGives, ScheduleSound
  <1>2. TypeOK'
    BY <1>1 DEF SchedInv, TypeOK, StatesSound, QueueSound
  <1>3. SchedulerSound' /\ IdleRuns'
    BY <1>1 DEF SchedulerSound, IdleRuns, StatesSound, QueueSound
  <1> QED
    BY <1>1, <1>2, <1>3 DEF SchedInv

----------------------------------------------------------------------------
(* SchedInv, one lemma per handler, with what the handler does to the      *)
(* states of all processes.                                                *)

LEMMA ClockKeeps ==
  ASSUME SchedInv, Clock
  PROVE  SchedInv' /\ Rescheduled(state, delay_until, clock_ticks')
  <1>1. ProcessSchedule(state, ready_queue, delay_until, clock_ticks')
    BY DEF Clock, TrapClock
  <1>2. clock_ticks' \in 0 .. Word - 1
    <2>1. clock_ticks + 1 \in Nat
      BY SchedAssumption DEF SchedInv, TypeOK
    <2>2. clock_ticks' = (clock_ticks + 1) % Word
      BY DEF Clock, TrapClock
    <2> QED
      BY <2>1, <2>2, ModuloType
  <1>3. UNCHANGED <<kernel_pc, halted, parent, children, waiting_for_child>>
    BY DEF Clock, TrapClock, familyVars
  <1> QED
    BY <1>1, <1>2, <1>3, SchedInvGives, ScheduleKeepsSchedInv
       DEF SchedInv, TypeOK, IdleRuns

LEMMA DelayKeeps ==
  ASSUME SchedInv, NEW ticks \in 1 .. MaxDelay, SysDelay(ticks),
         UNCHANGED familyVars
  PROVE  /\ SchedInv'
         /\ Rescheduled([state EXCEPT ![current_process] = "BLOCKED"],
                        [delay_until EXCEPT ![current_process] = WakeTime(ticks)],
                        clock_ticks)
  <1> DEFINE st == [state EXCEPT ![current_process] = "BLOCKED"]
             du == [delay_until EXCEPT ![current_process] = WakeTime(ticks)]
  <1>1. ProcessSchedule(st, ready_queue, du, clock_ticks)
    BY DEF SysDelay
  <1>2. UNCHANGED <<clock_ticks, kernel_pc, halted, parent, children,
                    waiting_for_child>>
    BY DEF SysDelay, familyVars
  <1>3. /\ StatesSound(st, current_process)
        /\ QueueSound(st, ready_queue, current_process)
    BY GivesUpCPU DEF SysDelay, CanCall
  <1>4. du \in [Proc -> 0 .. Word - 1]
    <2>1. clock_ticks \in Nat /\ ticks \in Nat
      BY SchedAssumption, ProcessAssumption DEF SchedInv, TypeOK
    <2>2. WakeTime(ticks) \in 0 .. Word - 1
      BY <2>1, ModuloType DEF WakeTime
    <2> QED
      BY <2>2, SchedInvGives
  <1> HIDE DEF st, du
  <1>5. SchedInv' /\ Rescheduled(st, du, clock_ticks)
    BY <1>1, <1>2, <1>3, <1>4, ScheduleKeepsSchedInv DEF SchedInv, TypeOK, IdleRuns
  <1> QED
    BY <1>5 DEF st, du

LEMMA WaitBlocksKeeps ==
  ASSUME SchedInv, current_process # Idle, WaitBlocks(current_process)
  PROVE  /\ SchedInv'
         /\ Rescheduled([state EXCEPT ![current_process] = "BLOCKED"],
                        delay_until, clock_ticks)
  <1> DEFINE st == [state EXCEPT ![current_process] = "BLOCKED"]
  <1>1. ProcessSchedule(st, ready_queue, delay_until, clock_ticks)
    BY DEF WaitBlocks
  <1>2. /\ UNCHANGED <<clock_ticks, halted, parent, children>>
        /\ kernel_pc' = [kernel_pc EXCEPT ![current_process] = "wait"]
        /\ waiting_for_child'
             = [waiting_for_child EXCEPT ![current_process] = TRUE]
    BY DEF WaitBlocks
  <1>3. /\ StatesSound(st, current_process)
        /\ QueueSound(st, ready_queue, current_process)
    BY GivesUpCPU
  <1>4. /\ kernel_pc' \in [Proc -> {"user", "wait"}]
        /\ kernel_pc'[Idle] = "user"
        /\ waiting_for_child' \in [Proc -> BOOLEAN]
    BY <1>2, SchedAssumption DEF SchedInv, TypeOK, IdleRuns
  <1> HIDE DEF st
  <1>5. SchedInv' /\ Rescheduled(st, delay_until, clock_ticks)
    BY <1>1, <1>2, <1>3, <1>4, SchedInvGives, ScheduleKeepsSchedInv
       DEF SchedInv, TypeOK
  <1> QED
    BY <1>5 DEF st

LEMMA OrphanedType ==
  ASSUME TypeOK, NEW p \in Proc
  PROVE  Orphaned(p) \in [Proc -> Proc \cup {NULL}]
  BY DEF TypeOK, Orphaned

(* The states ProcessExitCurrent leaves to ProcessSchedule.                *)
ExitStates ==
  LET proc == current_process
      zombie == [state EXCEPT ![proc] = "ZOMBIE"]
  IN  IF WakesParent(proc) THEN MadeReady(zombie, Orphaned(proc)[proc]) ELSE zombie

LEMMA ExitKeeps ==
  ASSUME SchedInv, ProcessExitCurrent
  PROVE  SchedInv' /\ Rescheduled(ExitStates, delay_until, clock_ticks)
  <1> DEFINE proc == current_process
             mom == Orphaned(proc)[proc]
             zombie == [state EXCEPT ![proc] = "ZOMBIE"]
  <1>1. /\ proc \in Proc /\ proc # Idle /\ TypeOK
        /\ Orphaned(proc) \in [Proc -> Proc \cup {NULL}]
    BY OrphanedType, SchedInvGives DEF ProcessExitCurrent, CanCall, SchedInv
  <1>2. /\ StatesSound(zombie, proc) /\ QueueSound(zombie, ready_queue, proc)
        /\ zombie[proc] = "ZOMBIE"
    BY <1>1, GivesUpCPU DEF SchedInv, TypeOK
  <1>3. /\ UNCHANGED <<clock_ticks, kernel_pc, halted>>
        /\ parent' = Orphaned(proc)
        /\ children' = [children EXCEPT ![proc] = <<>>]
    BY DEF ProcessExitCurrent
  <1>4. /\ parent' \in [Proc -> Proc \cup {NULL}]
        /\ children' \in [Proc -> Seq(Proc)]
        /\ waiting_for_child' \in [Proc -> BOOLEAN]
    <2>1. <<>> \in Seq(Proc)
      BY EmptySeq
    <2>2. waiting_for_child' \in [Proc -> BOOLEAN]
      BY <1>1 DEF ProcessExitCurrent, TypeOK
    <2> QED
      BY <1>1, <1>3, <2>1, <2>2 DEF TypeOK
  <1>5. CASE WakesParent(proc)
    <2>1. ProcessSchedule(MadeReady(zombie, mom), Queued(zombie, ready_queue, mom),
                          delay_until, clock_ticks)
      BY <1>5 DEF ProcessExitCurrent
    <2>2. mom \in Proc
      BY <1>1, <1>5 DEF WakesParent
    <2> HIDE DEF zombie, mom
    <2>3. /\ StatesSound(MadeReady(zombie, mom), proc)
          /\ QueueSound(MadeReady(zombie, mom), Queued(zombie, ready_queue, mom), proc)
      BY <1>1, <1>2, <2>2, WakeSound
    <2>4. SchedInv' /\ Rescheduled(MadeReady(zombie, mom), delay_until, clock_ticks)
      BY <1>3, <1>4, <2>1, <2>3, SchedInvGives, ScheduleKeepsSchedInv
         DEF SchedInv, TypeOK, IdleRuns
    <2>5. ExitStates = MadeReady(zombie, mom)
      BY <1>5 DEF ExitStates, zombie, mom
    <2> QED
      BY <2>4, <2>5
  <1>6. CASE ~WakesParent(proc)
    <2>1. ProcessSchedule(zombie, ready_queue, delay_until, clock_ticks)
      BY <1>6 DEF ProcessExitCurrent
    <2>2. ExitStates = zombie
      BY <1>6 DEF ExitStates
    <2> HIDE DEF zombie, mom
    <2>3. SchedInv' /\ Rescheduled(zombie, delay_until, clock_ticks)
      BY <1>2, <1>3, <1>4, <2>1, SchedInvGives, ScheduleKeepsSchedInv
         DEF SchedInv, TypeOK, IdleRuns
    <2> QED
      BY <2>2, <2>3
  <1> QED
    BY <1>5, <1>6

(* RemoveAt on a sequence, and on one without repetition.                  *)
LEMMA RemoveAtType ==
  ASSUME NEW S, NEW s \in Seq(S), NEW i \in 1 .. Len(s)
  PROVE  /\ RemoveAt(s, i) \in Seq(S)
         /\ Len(RemoveAt(s, i)) = Len(s) - 1
         /\ \A j \in 1 .. Len(s) - 1 :
              RemoveAt(s, i)[j] = IF j < i THEN s[j] ELSE s[j + 1]
  <1> DEFINE a == SubSeq(s, 1, i - 1)
             b == SubSeq(s, i + 1, Len(s))
  <1>1. Len(s) \in Nat /\ i \in Nat /\ 1 <= i /\ i <= Len(s)
    BY LenProperties
  <1>2. /\ a \in Seq(S) /\ Len(a) = i - 1
        /\ \A j \in 1 .. i - 1 : a[j] = s[j]
    BY <1>1, SubSeqProperties
  <1>3. /\ b \in Seq(S) /\ Len(b) = Len(s) - i
        /\ \A j \in 1 .. Len(s) - i : b[j] = s[i + j]
    BY <1>1, SubSeqProperties
  <1>4. /\ a \o b \in Seq(S) /\ Len(a \o b) = Len(a) + Len(b)
        /\ \A j \in 1 .. Len(a) + Len(b) :
             (a \o b)[j] = IF j <= Len(a) THEN a[j] ELSE b[j - Len(a)]
    BY <1>2, <1>3, ConcatProperties
  <1>5. RemoveAt(s, i) = a \o b
    BY DEF RemoveAt
  <1> HIDE DEF a, b
  <1>6. ASSUME NEW j \in 1 .. Len(s) - 1
        PROVE  (a \o b)[j] = IF j < i THEN s[j] ELSE s[j + 1]
    <2>1. CASE j < i
      BY <2>1, <1>1, <1>2, <1>3, <1>4
    <2>2. CASE ~(j < i)
      <3>1. (a \o b)[j] = b[j - (i - 1)]
        BY <2>2, <1>1, <1>2, <1>3, <1>4
      <3>2. j - (i - 1) \in 1 .. Len(s) - i /\ i + (j - (i - 1)) = j + 1
        BY <2>2, <1>1
      <3>3. b[j - (i - 1)] = s[i + (j - (i - 1))]
        BY <3>2, <1>3
      <3> QED
        BY <2>2, <3>1, <3>2, <3>3
    <2> QED
      BY <2>1, <2>2
  <1>7. Len(a \o b) = Len(s) - 1
    BY <1>1, <1>2, <1>3, <1>4
  <1> DEFINE c == a \o b
  <1>8. /\ c \in Seq(S) /\ Len(c) = Len(s) - 1 /\ RemoveAt(s, i) = c
        /\ \A j \in 1 .. Len(s) - 1 : c[j] = IF j < i THEN s[j] ELSE s[j + 1]
    BY <1>4, <1>5, <1>6, <1>7
  <1> HIDE DEF c
  <1> QED
    BY <1>8

LEMMA RemoveAtInjects ==
  ASSUME NEW S, NEW s \in Seq(S), NEW i \in 1 .. Len(s), IsInjective(s)
  PROVE  /\ IsInjective(RemoveAt(s, i))
         /\ Range(RemoveAt(s, i)) = Range(s) \ {s[i]}
  <1> DEFINE r == RemoveAt(s, i)
  <1>0. /\ r \in Seq(S) /\ Len(r) = Len(s) - 1
        /\ \A j \in 1 .. Len(s) - 1 : r[j] = IF j < i THEN s[j] ELSE s[j + 1]
    BY RemoveAtType
  <1> HIDE DEF r
  <1>1. /\ Len(s) \in Nat /\ DOMAIN s = 1 .. Len(s)
        /\ DOMAIN r = 1 .. Len(s) - 1
        /\ \A j \in 1 .. Len(s) - 1 : r[j] = IF j < i THEN s[j] ELSE s[j + 1]
    BY <1>0, LenProperties
  <1> DEFINE at(j) == IF j < i THEN j ELSE j + 1
  <1>2. \A j \in 1 .. Len(s) - 1 :
          at(j) \in 1 .. Len(s) /\ at(j) # i /\ r[j] = s[at(j)]
    BY <1>1
  <1>3. IsInjective(r)
    <2> SUFFICES ASSUME NEW j \in 1 .. Len(s) - 1, NEW k \in 1 .. Len(s) - 1,
                        r[j] = r[k]
                 PROVE  j = k
      BY <1>1 DEF IsInjective
    <2>1. at(j) = at(k)
      BY <1>1, <1>2 DEF IsInjective
    <2> QED
      BY <2>1, <1>1
  <1>4. Range(r) \subseteq Range(s) \ {s[i]}
    <2> SUFFICES ASSUME NEW j \in 1 .. Len(s) - 1
                 PROVE  r[j] \in Range(s) \ {s[i]}
      BY <1>1 DEF Range
    <2> HIDE DEF at
    <2> QED
      BY <1>1, <1>2 DEF IsInjective, Range
  <1>5. ASSUME NEW e \in Range(s) \ {s[i]}
        PROVE  e \in Range(r)
    <2>1. PICK k \in 1 .. Len(s) : e = s[k]
      BY <1>1 DEF Range
    <2>2. k # i
      BY <2>1
    <2>3. CASE k < i
      <3>1. k \in 1 .. Len(s) - 1 /\ r[k] = e
        BY <2>1, <2>3, <1>1
      <3> QED
        BY <3>1, <1>1 DEF Range
    <2>4. CASE k > i
      <3>1. k - 1 \in 1 .. Len(s) - 1 /\ r[k - 1] = e
        BY <2>1, <2>4, <1>1
      <3> QED
        BY <3>1, <1>1 DEF Range
    <2> QED
      BY <2>2, <2>3, <2>4
  <1> QED
    BY <1>3, <1>4, <1>5 DEF r

LEMMA ForkKeeps ==
  ASSUME SchedInv, NEW child \in Proc, SysFork(child)
  PROVE  /\ SchedInv'
         /\ state' = [state EXCEPT ![child] = "READY"]
         /\ child # current_process
  <1> DEFINE st == [state EXCEPT ![child] = "READY"]
  <1>1. /\ current_process \in Proc
        /\ StatesSound(state, current_process)
        /\ QueueSound(state, ready_queue, current_process)
        /\ state[current_process] \in {"RUNNING", "READY"}
    BY SchedInvGives
  <1>2. /\ state[child] = "EMPTY" /\ child # Idle /\ child # current_process
        /\ child \notin Range(ready_queue)
    BY <1>1 DEF SysFork, ProcessCreateChild, StatesSound, QueueSound
  <1>3. StatesSound(st, current_process) /\ st[child] = "READY"
    BY <1>1, <1>2, SchedAssumption DEF StatesSound, ProcState
  <1>4. QueueSound(st, ready_queue, current_process)
    BY <1>1, <1>2 DEF QueueSound, StatesSound
  <1>5. Wakeable(st, child)
    BY <1>2, <1>3 DEF Wakeable
  <1>6. MadeReady(st, child) = st
    BY <1>3, <1>5 DEF MadeReady, StatesSound
  <1>7. state' = st /\ ready_queue' = Queued(st, ready_queue, child)
    BY <1>6 DEF SysFork, ProcessCreateChild
  <1>8. UNCHANGED <<current_process, clock_ticks, halted>>
    BY DEF SysFork, ProcessCreateChild
  <1>9. /\ delay_until' \in [Proc -> 0 .. Word - 1]
        /\ kernel_pc' \in [Proc -> {"user", "wait"}]
        /\ kernel_pc'[Idle] = "user"
        /\ waiting_for_child' \in [Proc -> BOOLEAN]
        /\ parent' \in [Proc -> Proc \cup {NULL}]
    <2>1. delay_until' \in [Proc -> 0 .. Word - 1]
      BY <1>1, <1>2, SchedAssumption DEF SysFork, ProcessCreateChild, SchedInv, TypeOK
    <2>2. kernel_pc' \in [Proc -> {"user", "wait"}] /\ kernel_pc'[Idle] = "user"
      BY <1>1, <1>2, SchedAssumption
        DEF SysFork, ProcessCreateChild, SchedInv, TypeOK, IdleRuns
    <2>3. waiting_for_child' \in [Proc -> BOOLEAN]
      BY <1>1, <1>2 DEF SysFork, ProcessCreateChild, SchedInv, TypeOK
    <2>4. parent' \in [Proc -> Proc \cup {NULL}]
      BY <1>1, <1>2 DEF SysFork, ProcessCreateChild, SchedInv, TypeOK
    <2> QED
      BY <2>1, <2>2, <2>3, <2>4
  <1>10. children' \in [Proc -> Seq(Proc)]
    <2>1. Append(children[current_process], child) \in Seq(Proc) /\ <<>> \in Seq(Proc)
      BY <1>1, AppendProperties, EmptySeq DEF SchedInv, TypeOK
    <2>2. children' = [children EXCEPT ![child] = <<>>,
                         ![current_process] = Append(children[current_process], child)]
      BY <1>1, <1>2 DEF SysFork, ProcessCreateChild, SchedInv, TypeOK
    <2> QED
      BY <2>1, <2>2 DEF SchedInv, TypeOK
  <1> HIDE DEF st
  <1>11. /\ StatesSound(MadeReady(st, child), current_process)
         /\ QueueSound(MadeReady(st, child), Queued(st, ready_queue, child),
                       current_process)
    BY <1>1, <1>2, <1>3, <1>4, WakeSound
  <1>12. /\ StatesSound(state', current_process')
         /\ QueueSound(state', ready_queue', current_process')
    BY <1>6, <1>7, <1>8, <1>11
  <1>13. state'[current_process'] \in {"RUNNING", "READY"}
    BY <1>1, <1>2, <1>7, <1>8 DEF st, StatesSound
  <1>14. TypeOK'
    BY <1>8, <1>9, <1>10, <1>12 DEF SchedInv, TypeOK, StatesSound, QueueSound
  <1>15. SchedulerSound' /\ IdleRuns'
    BY <1>9, <1>12, <1>13 DEF SchedulerSound, IdleRuns, StatesSound, QueueSound
  <1> QED
    BY <1>2, <1>7, <1>14, <1>15 DEF SchedInv, st

(* WaitReaps, with its witness: the child at position i is destroyed.  It  *)
(* is a zombie, so it is not in the ready queue.                           *)
LEMMA ReapKeeps ==
  ASSUME SchedInv, WaitReaps(current_process)
  PROVE  /\ SchedInv'
         /\ \E i \in 1 .. Len(children[current_process]) :
              LET child == children[current_process][i]
              IN  /\ child \in Proc
                  /\ state[child] = "ZOMBIE"
                  /\ state' = [state EXCEPT ![child] = "EMPTY"]
                  /\ parent' = [Orphaned(child) EXCEPT ![child] = NULL]
                  /\ children' = [children EXCEPT ![child] = <<>>,
                       ![current_process] = RemoveAt(children[current_process], i)]
  <1> DEFINE p == current_process
  <1>1. /\ p \in Proc
        /\ StatesSound(state, p)
        /\ QueueSound(state, ready_queue, p)
        /\ state[p] \in {"RUNNING", "READY"}
    BY SchedInvGives
  <1>2. PICK i \in ZombieAt(p) :
          LET child == children[p][i]
          IN  /\ state' = [state EXCEPT ![child] = "EMPTY"]
              /\ ready_queue' = IF child \in Range(ready_queue)
                                THEN Remove(ready_queue, child) ELSE ready_queue
              /\ parent' = [Orphaned(child) EXCEPT ![child] = NULL]
              /\ children' = [children EXCEPT ![child] = <<>>, ![p] = RemoveAt(@, i)]
    BY DEF WaitReaps, ProcessDestroy
  <1> DEFINE child == children[p][i]
  <1>3. /\ i \in 1 .. Len(children[p]) /\ state[child] = "ZOMBIE"
        /\ children[p] \in Seq(Proc)
    BY <1>1 DEF ZombieAt, SchedInv, TypeOK
  <1>4. child \in Proc
    BY <1>3, ElementOfSeq
  <1>5. child # p /\ child # Idle /\ child \notin Range(ready_queue)
    BY <1>1, <1>3 DEF StatesSound, QueueSound
  <1>6. /\ state' = [state EXCEPT ![child] = "EMPTY"]
        /\ ready_queue' = ready_queue
        /\ parent' = [Orphaned(child) EXCEPT ![child] = NULL]
        /\ children' = [children EXCEPT ![child] = <<>>, ![p] = RemoveAt(children[p], i)]
    BY <1>1, <1>2, <1>4, <1>5 DEF SchedInv, TypeOK
  <1>7. /\ waiting_for_child' = [waiting_for_child EXCEPT ![p] = FALSE]
        /\ kernel_pc' = [kernel_pc EXCEPT ![p] = "user"]
        /\ UNCHANGED <<current_process, clock_ticks, delay_until, halted>>
    BY DEF WaitReaps, ProcessDestroy
  <1>8. /\ parent' \in [Proc -> Proc \cup {NULL}]
        /\ children' \in [Proc -> Seq(Proc)]
    <2>1. Orphaned(child) \in [Proc -> Proc \cup {NULL}]
      BY <1>4, OrphanedType DEF SchedInv
    <2>2. RemoveAt(children[p], i) \in Seq(Proc) /\ <<>> \in Seq(Proc)
      BY <1>3, RemoveAtType, EmptySeq
    <2> QED
      BY <1>6, <2>1, <2>2 DEF SchedInv, TypeOK
  <1>9. /\ StatesSound(state', p) /\ QueueSound(state', ready_queue, p)
        /\ state'[p] \in {"RUNNING", "READY"}
    <2> HIDE DEF child
    <2>1. StatesSound(state', p)
      BY <1>1, <1>4, <1>5, <1>6, SchedAssumption DEF StatesSound, ProcState
    <2>2. QueueSound(state', ready_queue, p)
      BY <1>1, <1>4, <1>5, <1>6 DEF QueueSound, StatesSound
    <2> QED
      BY <1>1, <1>5, <1>6, <2>1, <2>2 DEF StatesSound
  <1>10. TypeOK'
    BY <1>1, <1>6, <1>7, <1>8, <1>9 DEF SchedInv, TypeOK, StatesSound, QueueSound
  <1>11. SchedulerSound' /\ IdleRuns'
    BY <1>1, <1>6, <1>7, <1>9, SchedAssumption
       DEF SchedulerSound, IdleRuns, StatesSound, QueueSound, SchedInv, TypeOK
  <1>12. SchedInv'
    BY <1>10, <1>11 DEF SchedInv
  <1> QED
    BY <1>3, <1>4, <1>6, <1>12

LEMMA WaitIsCurrent ==
  ASSUME SchedInv, SysWait \/ SysWaitResumed
  PROVE  current_process # Idle /\ WaitLoop(current_process)
  BY DEF SysWait, SysWaitResumed, CanCall, SchedInv, IdleRuns

LEMMA InitSchedInv ==
  ASSUME Init
  PROVE  SchedInv
  <1>1. <<>> \in Seq(Proc) /\ DOMAIN <<>> = {}
    BY EmptySeq
  <1>2. TypeOK
    <2>1. /\ state \in [Proc -> ProcState]
          /\ current_process \in Proc
          /\ kernel_pc \in [Proc -> {"user", "wait"}]
      BY SchedAssumption DEF Init, SchedInit, ProcState
    <2>2. 0 \in 0 .. Word - 1
      BY SchedAssumption
    <2>3. clock_ticks \in 0 .. Word - 1 /\ delay_until \in [Proc -> 0 .. Word - 1]
      BY <2>2 DEF Init, SchedInit
    <2>4. ready_queue \in Seq(Proc) /\ children \in [Proc -> Seq(Proc)]
      BY <1>1 DEF Init, SchedInit
    <2>5. /\ halted \in BOOLEAN
          /\ parent \in [Proc -> Proc \cup {NULL}]
          /\ waiting_for_child \in [Proc -> BOOLEAN]
      BY DEF Init, SchedInit
    <2> QED
      BY <2>1, <2>3, <2>4, <2>5 DEF TypeOK
  <1>3. ready_queue = <<>> /\ current_process = InitProc
    BY DEF Init, SchedInit
  <1>4. IsInjective(ready_queue) /\ Range(ready_queue) = {}
    BY <1>1, <1>3 DEF IsInjective, Range
  <1>5. SchedulerSound /\ IdleRuns
    BY <1>3, <1>4, SchedAssumption DEF Init, SchedInit, SchedulerSound, IdleRuns
  <1> QED
    BY <1>2, <1>5 DEF SchedInv

LEMMA UnchangedSchedInv ==
  ASSUME SchedInv,
         UNCHANGED <<state, ready_queue, current_process, clock_ticks,
                     delay_until, kernel_pc, familyVars>>,
         halted' \in BOOLEAN
  PROVE  SchedInv'
  <1>1. TypeOK'
    BY DEF SchedInv, TypeOK, familyVars
  <1>2. SchedulerSound' /\ IdleRuns'
    BY DEF SchedInv, SchedulerSound, IdleRuns, IsInjective, Range
  <1> QED
    BY <1>1, <1>2 DEF SchedInv

LEMMA NextSchedInv ==
  ASSUME SchedInv, [Next]_vars
  PROVE  SchedInv'
  <1>1. CASE Clock
    BY <1>1, ClockKeeps
  <1>2. CASE Delay
    BY <1>2, DelayKeeps DEF Delay
  <1>3. CASE Fork
    BY <1>3, ForkKeeps DEF Fork
  <1>4. CASE SysWait \/ SysWaitResumed
    BY <1>4, WaitIsCurrent, ReapKeeps, WaitBlocksKeeps DEF WaitLoop
  <1>5. CASE ProcessExitCurrent
    BY <1>5, ExitKeeps
  <1>6. CASE InitExit
    BY <1>6, UnchangedSchedInv DEF InitExit
  <1>7. CASE Stopped
    BY <1>7, UnchangedSchedInv DEF Stopped, Halted, schedVars, SchedInv, TypeOK
  <1>8. CASE UNCHANGED vars
    BY <1>8, UnchangedSchedInv DEF vars, schedVars, SchedInv, TypeOK
  <1> QED
    BY <1>1, <1>2, <1>3, <1>4, <1>5, <1>6, <1>7, <1>8 DEF Next

(* Every PCB field and scheduler variable keeps its type, whatever         *)
(* sequence of Fork, Exit, Wait, Delay and clock traps is run.             *)
THEOREM TypeCorrect == Spec => []TypeOK
  <1>1. Init => SchedInv
    BY InitSchedInv
  <1>2. SchedInv /\ [Next]_vars => SchedInv'
    BY NextSchedInv
  <1>3. SchedInv => TypeOK
    BY DEF SchedInv
  <1> QED
    BY <1>1, <1>2, <1>3, PTL DEF Spec

(* ProcessMakeReady, ProcessSchedule and the handlers that call them keep  *)
(* the queue discipline: no process is linked twice into ready_queue, only *)
(* READY processes are, and the CPU never goes to a blocked or dead one.   *)
THEOREM SchedulerCorrect == Spec => []SchedulerSound
  <1>1. Init => SchedInv
    BY InitSchedInv
  <1>2. SchedInv /\ [Next]_vars => SchedInv'
    BY NextSchedInv
  <1>3. SchedInv => SchedulerSound
    BY DEF SchedInv
  <1> QED
    BY <1>1, <1>2, <1>3, PTL DEF Spec


----------------------------------------------------------------------------
(* The process tree: its links never dangle, and a PCB is destroyed only   *)
(* as a zombie and only by its parent.                                     *)

(* The processes the step kills or brings to life are those of S only.     *)
LifeKept(S) ==
  \A p \in Proc \ S : /\ state'[p] = "EMPTY" <=> state[p] = "EMPTY"
                      /\ state'[p] = "ZOMBIE" <=> state[p] = "ZOMBIE"

LEMMA BlockingKeepsLife ==
  ASSUME SchedInv, NEW du, NEW now,
         Rescheduled([state EXCEPT ![current_process] = "BLOCKED"], du, now)
  PROVE  LifeKept({})
  <1>1. /\ current_process \in Proc /\ state \in [Proc -> ProcState]
        /\ state[current_process] \in {"RUNNING", "READY"}
    BY SchedInvGives DEF StatesSound
  <1> QED
    BY <1>1 DEF Rescheduled, LifeKept

(* A step that kills nobody and leaves the links alone keeps the tree.     *)
LEMMA LinksUntouched ==
  ASSUME SchedInv, FamilySound, LifeKept({}), UNCHANGED <<parent, children>>
  PROVE  FamilySound'
  <1>1. \A p \in Proc : IsInjective(children'[p])
    BY DEF FamilySound
  <1>2. \A p, c \in Proc : c \in Range(children'[p]) <=> parent'[c] = p
    BY DEF FamilySound
  <1>3. ASSUME NEW c \in Proc, parent'[c] # NULL
        PROVE  /\ state'[c] # "EMPTY"
               /\ state'[parent'[c]] \notin {"EMPTY", "ZOMBIE"}
    <2>1. parent[c] \in Proc
      BY <1>3 DEF SchedInv, TypeOK
    <2> QED
      BY <1>3, <2>1 DEF FamilySound, LifeKept
  <1> QED
    BY <1>1, <1>2, <1>3 DEF FamilySound

LEMMA ForkFamily ==
  ASSUME SchedInv, FamilySound, NEW child \in Proc, SysFork(child)
  PROVE  FamilySound'
  <1> DEFINE cur == current_process
  <1>1. /\ cur \in Proc /\ child # cur
        /\ state' = [state EXCEPT ![child] = "READY"]
        /\ state[child] = "EMPTY"
        /\ state \in [Proc -> ProcState]
        /\ state[cur] \in {"RUNNING", "READY"}
    BY ForkKeeps, SchedInvGives DEF StatesSound, SysFork, ProcessCreateChild
  <1>2. /\ children \in [Proc -> Seq(Proc)]
        /\ parent \in [Proc -> Proc \cup {NULL}]
        /\ NULL \notin Proc
    BY ProcessAssumption DEF SchedInv, TypeOK
  <1>3. /\ parent' = [parent EXCEPT ![child] = cur]
        /\ children' = [children EXCEPT ![child] = <<>>,
                                        ![cur] = Append(children[cur], child)]
    BY <1>1, <1>2 DEF SysFork, ProcessCreateChild
  <1>4. parent[child] = NULL /\ \A c \in Proc : parent[c] # child
    BY <1>1, <1>2 DEF FamilySound
  <1>5. /\ IsInjective(Append(children[cur], child))
        /\ Range(Append(children[cur], child)) = Range(children[cur]) \cup {child}
    <2>1. IsInjective(children[cur]) /\ child \notin Range(children[cur])
      BY <1>1, <1>2, <1>4 DEF FamilySound
    <2>2. children[cur] \in Seq(Proc)
      BY <1>1, <1>2
    <2> QED
      BY <2>1, <2>2, AppendInjects
  <1>6. IsInjective(<<>>) /\ Range(<<>>) = {}
    BY EmptySeq DEF IsInjective, Range
  <1>7. /\ children'[child] = <<>>
        /\ children'[cur] = Append(children[cur], child)
        /\ \A p \in Proc \ {child, cur} : children'[p] = children[p]
        /\ parent'[child] = cur
        /\ \A c \in Proc \ {child} : parent'[c] = parent[c]
    <2>1. /\ children'[child] = <<>>
          /\ children'[cur] = Append(children[cur], child)
          /\ \A p \in Proc \ {child, cur} : children'[p] = children[p]
      BY <1>1, <1>2, <1>3
    <2>2. /\ parent'[child] = cur
          /\ \A c \in Proc \ {child} : parent'[c] = parent[c]
      BY <1>1, <1>2, <1>3
    <2> QED
      BY <2>1, <2>2
  <1>8. ASSUME NEW p \in Proc
        PROVE  IsInjective(children'[p])
    <2>1. IsInjective(children[p])
      BY DEF FamilySound
    <2> QED
      BY <2>1, <1>5, <1>6, <1>7
  <1>9. ASSUME NEW p \in Proc, NEW c \in Proc
        PROVE  c \in Range(children'[p]) <=> parent'[c] = p
    <2>1. c \in Range(children[p]) <=> parent[c] = p
      BY DEF FamilySound
    <2>2. CASE p = child
      BY <2>2, <1>1, <1>4, <1>6, <1>7
    <2>3. CASE p = cur
      BY <2>1, <2>3, <1>5, <1>7
    <2>4. CASE p \notin {child, cur}
      BY <2>1, <2>4, <1>1, <1>2, <1>4, <1>7
    <2> QED
      BY <2>2, <2>3, <2>4
  <1>10. ASSUME NEW c \in Proc, parent'[c] # NULL
         PROVE  /\ state'[c] # "EMPTY"
                /\ state'[parent'[c]] \notin {"EMPTY", "ZOMBIE"}
    <2>1. CASE c = child
      BY <2>1, <1>1, <1>7
    <2>2. CASE c # child
      <3>1. parent[c] # NULL /\ parent'[c] = parent[c] /\ parent[c] \in Proc
        BY <2>2, <1>2, <1>7, <1>10
      <3>2. parent[c] # child /\ state[c] # "EMPTY"
            /\ state[parent[c]] \notin {"EMPTY", "ZOMBIE"}
        BY <3>1, <1>4 DEF FamilySound
      <3> QED
        BY <2>2, <3>1, <3>2, <1>1
    <2> QED
      BY <2>1, <2>2
  <1> QED
    BY <1>8, <1>9, <1>10 DEF FamilySound

(* Who is alive after an exit: the process itself is a zombie, and nobody  *)
(* else changes.  The parent ProcessMakeReady is called on was alive.      *)
LEMMA ExitLife ==
  ASSUME SchedInv, FamilySound, ProcessExitCurrent
  PROVE  /\ LifeKept({current_process})
         /\ state'[current_process] = "ZOMBIE"
  <1> DEFINE proc == current_process
             mom == Orphaned(proc)[proc]
             zombie == [state EXCEPT ![proc] = "ZOMBIE"]
  <1>1. /\ proc \in Proc /\ state \in [Proc -> ProcState]
        /\ Rescheduled(ExitStates, delay_until, clock_ticks)
    BY ExitKeeps, SchedInvGives DEF StatesSound
  <1>2. CASE ~WakesParent(proc)
    <2>1. ExitStates = zombie
      BY <1>2 DEF ExitStates
    <2> QED
      BY <1>1, <2>1 DEF Rescheduled, LifeKept
  <1>3. CASE WakesParent(proc)
    <2>1. mom # NULL
      BY <1>3 DEF WakesParent
    <2>2. mom = parent[proc] /\ mom \in Proc
      BY <2>1, <1>1 DEF Orphaned, SchedInv, TypeOK
    <2>3. state[mom] \notin {"EMPTY", "ZOMBIE"}
      BY <2>1, <2>2, <1>1 DEF FamilySound
    <2>4. ExitStates = MadeReady(zombie, mom)
      BY <1>3 DEF ExitStates
    <2> HIDE DEF mom
    <2>5. \A p \in Proc : \/ ExitStates[p] = zombie[p]
                          \/ p = mom /\ p # proc /\ ExitStates[p] = "READY"
      <3>1. zombie \in [Proc -> ProcState] /\ zombie[proc] = "ZOMBIE"
        BY <1>1 DEF ProcState
      <3> HIDE DEF zombie
      <3> QED
        BY <2>2, <2>4, <3>1 DEF MadeReady, Wakeable
    <2>6. /\ ExitStates[proc] = "ZOMBIE"
          /\ \A p \in Proc \ {proc} :
               \/ ExitStates[p] = state[p]
               \/ p = mom /\ ExitStates[p] = "READY"
      <3>1. /\ zombie[proc] = "ZOMBIE"
            /\ \A p \in Proc \ {proc} : zombie[p] = state[p]
        BY <1>1
      <3> HIDE DEF zombie
      <3> QED
        BY <1>1, <2>5, <3>1
    <2> QED
      BY <1>1, <2>3, <2>6 DEF Rescheduled, LifeKept
  <1> QED
    BY <1>2, <1>3

LEMMA ExitFamily ==
  ASSUME SchedInv, FamilySound, ProcessExitCurrent
  PROVE  FamilySound'
  <1> DEFINE proc == current_process
  <1>1. /\ proc \in Proc
        /\ children \in [Proc -> Seq(Proc)]
        /\ parent \in [Proc -> Proc \cup {NULL}]
        /\ NULL \notin Proc
    BY ProcessAssumption DEF SchedInv, TypeOK
  <1>2. /\ children' = [children EXCEPT ![proc] = <<>>]
        /\ parent' = Orphaned(proc)
    BY DEF ProcessExitCurrent
  <1>3. \A c \in Proc : parent'[c] = IF parent[c] = proc THEN NULL ELSE parent[c]
    BY <1>1, <1>2 DEF Orphaned, FamilySound
  <1>4. IsInjective(<<>>) /\ Range(<<>>) = {}
    BY EmptySeq DEF IsInjective, Range
  <1>5. \A p \in Proc : children'[p] = IF p = proc THEN <<>> ELSE children[p]
    BY <1>1, <1>2
  <1>6. \A p \in Proc : IsInjective(children'[p])
    BY <1>4, <1>5 DEF FamilySound
  <1>7. ASSUME NEW p \in Proc, NEW c \in Proc
        PROVE  c \in Range(children'[p]) <=> parent'[c] = p
    <2>1. c \in Range(children[p]) <=> parent[c] = p
      BY DEF FamilySound
    <2> QED
      BY <2>1, <1>1, <1>3, <1>4, <1>5
  <1>8. ASSUME NEW c \in Proc, parent'[c] # NULL
        PROVE  /\ state'[c] # "EMPTY"
               /\ state'[parent'[c]] \notin {"EMPTY", "ZOMBIE"}
    <2>1. parent'[c] = parent[c] /\ parent[c] # proc /\ parent[c] \in Proc
      BY <1>1, <1>3, <1>8
    <2>2. state[c] # "EMPTY" /\ state[parent[c]] \notin {"EMPTY", "ZOMBIE"}
      BY <2>1, <1>8 DEF FamilySound
    <2> QED
      BY <2>1, <2>2, <1>1, ExitLife DEF LifeKept
  <1> QED
    BY <1>6, <1>7, <1>8 DEF FamilySound

LEMMA ReapFamily ==
  ASSUME SchedInv, FamilySound, WaitReaps(current_process)
  PROVE  /\ FamilySound'
         /\ \A c \in Proc : state'[c] = "EMPTY" =>
              \/ state[c] = "EMPTY"
              \/ state[c] = "ZOMBIE" /\ parent[c] = current_process
  <1> DEFINE p == current_process
  <1>1. /\ p \in Proc /\ state \in [Proc -> ProcState]
        /\ children \in [Proc -> Seq(Proc)]
        /\ parent \in [Proc -> Proc \cup {NULL}]
        /\ NULL \notin Proc
        /\ state[p] \in {"RUNNING", "READY"}
    BY ProcessAssumption, SchedInvGives DEF SchedInv, TypeOK
  <1>2. PICK i \in 1 .. Len(children[p]) :
          LET child == children[p][i]
          IN  /\ child \in Proc
              /\ state[child] = "ZOMBIE"
              /\ state' = [state EXCEPT ![child] = "EMPTY"]
              /\ parent' = [Orphaned(child) EXCEPT ![child] = NULL]
              /\ children' = [children EXCEPT ![child] = <<>>,
                                              ![p] = RemoveAt(children[p], i)]
    BY ReapKeeps
  <1> DEFINE child == children[p][i]
  <1>3. children[p] \in Seq(Proc) /\ DOMAIN children[p] = 1 .. Len(children[p])
    BY <1>1, LenProperties
  <1>4. /\ child \in Proc /\ state[child] = "ZOMBIE" /\ child # p
        /\ child \in Range(children[p])
    BY <1>1, <1>2, <1>3 DEF Range
  <1>5. parent[child] = p /\ \A c \in Proc : parent[c] # child
    BY <1>1, <1>4 DEF FamilySound
  <1>6. /\ IsInjective(RemoveAt(children[p], i))
        /\ Range(RemoveAt(children[p], i)) = Range(children[p]) \ {child}
    BY <1>1, <1>3, RemoveAtInjects DEF FamilySound
  <1>7. /\ state' = [state EXCEPT ![child] = "EMPTY"]
        /\ parent' = [Orphaned(child) EXCEPT ![child] = NULL]
        /\ children' = [children EXCEPT ![child] = <<>>,
                                        ![p] = RemoveAt(children[p], i)]
    BY <1>2
  <1> DEFINE rest == RemoveAt(children[p], i)
  <1> HIDE DEF child, rest
  <1>8. \A c \in Proc : parent'[c] = IF c = child THEN NULL ELSE parent[c]
    <2>1. Range(children[child]) \cap Proc = {}
      BY <1>1, <1>4, <1>5 DEF FamilySound
    <2> QED
      BY <1>1, <1>4, <1>7, <2>1 DEF Orphaned
  <1>9. /\ children'[child] = <<>>
        /\ children'[p] = rest
        /\ \A q \in Proc \ {child, p} : children'[q] = children[q]
    BY <1>1, <1>4, <1>7 DEF rest
  <1>10. IsInjective(<<>>) /\ Range(<<>>) = {}
    BY EmptySeq DEF IsInjective, Range
  <1>11. ASSUME NEW q \in Proc
         PROVE  IsInjective(children'[q])
    <2>1. IsInjective(children[q])
      BY DEF FamilySound
    <2> QED
      BY <2>1, <1>6, <1>9, <1>10 DEF rest
  <1>12. ASSUME NEW q \in Proc, NEW c \in Proc
         PROVE  c \in Range(children'[q]) <=> parent'[c] = q
    <2>1. c \in Range(children[q]) <=> parent[c] = q
      BY DEF FamilySound
    <2>2. CASE q = child
      BY <2>2, <1>1, <1>5, <1>8, <1>9, <1>10
    <2>3. CASE q = p
      BY <2>1, <2>3, <1>1, <1>6, <1>8, <1>9 DEF rest
    <2>4. CASE q \notin {child, p}
      BY <2>1, <2>4, <1>1, <1>5, <1>8, <1>9
    <2> QED
      BY <2>2, <2>3, <2>4
  <1>13. ASSUME NEW c \in Proc, parent'[c] # NULL
         PROVE  /\ state'[c] # "EMPTY"
                /\ state'[parent'[c]] \notin {"EMPTY", "ZOMBIE"}
    <2>1. c # child /\ parent'[c] = parent[c] /\ parent[c] \in Proc
      BY <1>1, <1>8, <1>13
    <2>2. /\ state[c] # "EMPTY" /\ parent[c] # child
          /\ state[parent[c]] \notin {"EMPTY", "ZOMBIE"}
      BY <2>1, <1>5, <1>13 DEF FamilySound
    <2> QED
      BY <2>1, <2>2, <1>1, <1>7
  <1>14. FamilySound'
    BY <1>11, <1>12, <1>13 DEF FamilySound
  <1> QED
    BY <1>1, <1>4, <1>5, <1>7, <1>14

----------------------------------------------------------------------------
(* The theorems about the tree.                                            *)

FamilyInv == SchedInv /\ FamilySound

(* The steps that leave the links alone: they kill nobody.                 *)
LEMMA OtherStepsKeepLife ==
  ASSUME SchedInv,
         \/ Clock \/ Delay \/ InitExit \/ Stopped \/ UNCHANGED vars
         \/ current_process # Idle /\ WaitBlocks(current_process)
  PROVE  LifeKept({}) /\ UNCHANGED <<parent, children>>
  <1>1. CASE Clock
    BY <1>1, ClockKeeps DEF Rescheduled, LifeKept, Clock, familyVars
  <1>2. CASE Delay
    <2>1. PICK ticks \in 1 .. MaxDelay : SysDelay(ticks) /\ UNCHANGED familyVars
      BY <1>2 DEF Delay
    <2>2. Rescheduled([state EXCEPT ![current_process] = "BLOCKED"],
                      [delay_until EXCEPT ![current_process] = WakeTime(ticks)],
                      clock_ticks)
      BY <2>1, DelayKeeps
    <2> QED
      BY <2>1, <2>2, BlockingKeepsLife DEF familyVars
  <1>3. CASE current_process # Idle /\ WaitBlocks(current_process)
    <2>1. Rescheduled([state EXCEPT ![current_process] = "BLOCKED"],
                      delay_until, clock_ticks)
      BY <1>3, WaitBlocksKeeps
    <2> QED
      BY <1>3, <2>1, BlockingKeepsLife DEF WaitBlocks
  <1>4. CASE InitExit \/ Stopped \/ UNCHANGED vars
    BY <1>4 DEF InitExit, Stopped, Halted, schedVars, familyVars, vars, LifeKept
  <1> QED
    BY <1>1, <1>2, <1>3, <1>4

LEMMA InitFamily ==
  ASSUME Init
  PROVE  FamilySound
  <1>1. IsInjective(<<>>) /\ Range(<<>>) = {}
    BY EmptySeq DEF IsInjective, Range
  <1> QED
    BY <1>1, ProcessAssumption DEF Init, FamilySound

LEMMA NextFamily ==
  ASSUME FamilyInv, [Next]_vars
  PROVE  FamilyInv'
  <1>1. SchedInv /\ FamilySound /\ SchedInv'
    BY NextSchedInv DEF FamilyInv
  <1>2. CASE Fork
    BY <1>1, <1>2, ForkFamily DEF Fork, FamilyInv
  <1>3. CASE ProcessExitCurrent
    BY <1>1, <1>3, ExitFamily DEF FamilyInv
  <1>4. CASE SysWait \/ SysWaitResumed
    BY <1>1, <1>4, WaitIsCurrent, ReapFamily, OtherStepsKeepLife, LinksUntouched
       DEF WaitLoop, FamilyInv
  <1>5. CASE Clock \/ Delay \/ InitExit \/ Stopped \/ UNCHANGED vars
    BY <1>1, <1>5, OtherStepsKeepLife, LinksUntouched DEF FamilyInv
  <1> QED
    BY <1>2, <1>3, <1>4, <1>5 DEF Next

(* The parent and children links that ProcessExitCurrent, SysWait and      *)
(* ProcessDestroy follow without a check never dangle, for any number of   *)
(* processes and any sequence of forks, exits and waits.                   *)
THEOREM FamilyCorrect == Spec => []FamilySound
  <1>1. Init => FamilyInv
    BY InitSchedInv, InitFamily DEF FamilyInv
  <1>2. FamilyInv /\ [Next]_vars => FamilyInv'
    BY NextFamily
  <1>3. FamilyInv => FamilySound
    BY DEF FamilyInv
  <1> QED
    BY <1>1, <1>2, <1>3, PTL DEF Spec

(* ProcessDestroy frees a PCB only when it is a zombie and its parent is   *)
(* the process on the CPU, in SysWait.                                     *)
THEOREM OnlyParentReaps == Spec => ReapedByParent
  <1> DEFINE Reaped(c) == state[c] # "EMPTY" /\ state'[c] = "EMPTY"
             Rightly(c) == state[c] = "ZOMBIE" /\ parent[c] = current_process
  <1>1. ASSUME FamilyInv, [Next]_vars
        PROVE  [\A c \in Proc : Reaped(c) => Rightly(c)]_vars
    <2>1. SchedInv /\ FamilySound
      BY <1>1 DEF FamilyInv
    <2>2. CASE Fork
      <3>1. PICK child \in Proc : SysFork(child)
        BY <2>2 DEF Fork
      <3>2. state' = [state EXCEPT ![child] = "READY"] /\ state \in [Proc -> ProcState]
        BY <2>1, <3>1, ForkKeeps DEF SchedInv, TypeOK
      <3> QED
        BY <3>2
    <2>3. CASE ProcessExitCurrent
      BY <2>1, <2>3, ExitLife DEF LifeKept
    <2>4. CASE SysWait \/ SysWaitResumed
      <3>1. CASE WaitReaps(current_process)
        BY <2>1, <3>1, ReapFamily
      <3>2. CASE WaitBlocks(current_process)
        BY <2>1, <2>4, <3>2, WaitIsCurrent, OtherStepsKeepLife DEF LifeKept
      <3> QED
        BY <2>1, <2>4, <3>1, <3>2, WaitIsCurrent DEF WaitLoop
    <2>5. CASE Clock \/ Delay \/ InitExit \/ Stopped \/ UNCHANGED vars
      BY <2>1, <2>5, OtherStepsKeepLife DEF LifeKept
    <2> QED
      BY <1>1, <2>2, <2>3, <2>4, <2>5 DEF Next
  <1>2. Init => FamilyInv
    BY InitSchedInv, InitFamily DEF FamilyInv
  <1>3. FamilyInv /\ [Next]_vars => FamilyInv'
    BY NextFamily
  <1> QED
    BY <1>1, <1>2, <1>3, PTL DEF Spec, ReapedByParent


----------------------------------------------------------------------------
(* SysWait and SysDelay: no exit is missed and no delayed process          *)
(* oversleeps.                                                             *)

(* NoMissedExit for one process, with what makes it inductive: only a      *)
(* process blocked outside SysWait has a wake-up time.                     *)
WaitOK(p) ==
  /\ kernel_pc[p] = "wait" /\ state[p] = "BLOCKED" =>
       waiting_for_child[p] /\ children[p] # <<>> /\ ZombieAt(p) = {}
  /\ waiting_for_child[p] =>
       kernel_pc[p] = "wait" /\ state[p] = "BLOCKED" /\ delay_until[p] = 0
  /\ delay_until[p] # 0 => kernel_pc[p] = "user" /\ state[p] = "BLOCKED"

WaitInv == FamilyInv /\ \A p \in Proc : WaitOK(p)

(* Two ways a step keeps WaitOK(p).  It leaves p alone: nothing of p's own *)
(* changes but an end of its Delay, and none of its children dies ...      *)
Undisturbed(p) ==
  /\ kernel_pc'[p] = kernel_pc[p]
  /\ waiting_for_child'[p] = waiting_for_child[p]
  /\ children'[p] = children[p]
  /\ state'[p] = "BLOCKED" => state[p] = "BLOCKED"
  /\ state[p] = "BLOCKED" /\ delay_until[p] = 0 =>
       state'[p] = "BLOCKED" /\ delay_until'[p] = 0
  /\ delay_until'[p] # 0 => delay_until[p] # 0 /\ state'[p] = "BLOCKED"
  /\ \A c \in Range(children[p]) : state'[c] = "ZOMBIE" => state[c] = "ZOMBIE"

LEMMA UndisturbedKeeps ==
  ASSUME SchedInv, NEW p \in Proc, WaitOK(p), Undisturbed(p)
  PROVE  WaitOK(p)'
  <1>1. children[p] \in Seq(Proc) /\ DOMAIN children[p] = 1 .. Len(children[p])
    BY LenProperties DEF SchedInv, TypeOK
  <1>2. ASSUME kernel_pc'[p] = "wait", state'[p] = "BLOCKED"
        PROVE  waiting_for_child'[p] /\ children'[p] # <<>> /\ ZombieAt(p)' = {}
    <2>1. waiting_for_child[p] /\ children[p] # <<>> /\ ZombieAt(p) = {}
      BY <1>2 DEF WaitOK, Undisturbed
    <2>2. \A i \in 1 .. Len(children[p]) : state'[children[p][i]] # "ZOMBIE"
      BY <1>1, <2>1 DEF Undisturbed, ZombieAt, Range
    <2>3. ZombieAt(p)' = {i \in 1 .. Len(children[p]) : state'[children[p][i]] = "ZOMBIE"}
      BY DEF Undisturbed, ZombieAt
    <2>4. ZombieAt(p)' = {}
      BY <2>2, <2>3
    <2>5. waiting_for_child'[p] /\ children'[p] # <<>>
      BY <2>1 DEF Undisturbed
    <2> QED
      BY <2>4, <2>5
  <1>3. ASSUME waiting_for_child'[p]
        PROVE  kernel_pc'[p] = "wait" /\ state'[p] = "BLOCKED" /\ delay_until'[p] = 0
    BY <1>3 DEF WaitOK, Undisturbed
  <1>4. ASSUME delay_until'[p] # 0
        PROVE  kernel_pc'[p] = "user" /\ state'[p] = "BLOCKED"
    BY <1>4 DEF WaitOK, Undisturbed
  <1> QED
    BY <1>2, <1>3, <1>4 DEF WaitOK

(* ... or it leaves p awake, not waiting and without a wake-up time.       *)
LEMMA AwakeKeeps ==
  ASSUME NEW p \in Proc, state'[p] # "BLOCKED", ~waiting_for_child'[p],
         delay_until'[p] = 0
  PROVE  WaitOK(p)'
  BY DEF WaitOK

(* The process on the CPU is neither waiting nor delayed.                  *)
LEMMA CurrentNotWaiting ==
  ASSUME WaitInv
  PROVE  /\ current_process \in Proc
         /\ state[current_process] \in {"RUNNING", "READY"}
         /\ ~waiting_for_child[current_process]
         /\ delay_until[current_process] = 0
  <1>1. /\ current_process \in Proc
        /\ state[current_process] \in {"RUNNING", "READY"}
    BY SchedInvGives DEF WaitInv, FamilyInv
  <1> QED
    BY <1>1 DEF WaitInv, WaitOK

(* ProcessSchedule leaves alone a process whose state and wake-up time the *)
(* handler has not touched and none of whose children it has killed.       *)
LEMMA RescheduledUndisturbed ==
  ASSUME NEW p \in Proc, WaitOK(p), NEW st, NEW du, NEW now,
         Rescheduled(st, du, now),
         st[p] = state[p], du[p] = delay_until[p],
         kernel_pc'[p] = kernel_pc[p],
         waiting_for_child'[p] = waiting_for_child[p],
         children'[p] = children[p],
         \A c \in Range(children[p]) : state'[c] = "ZOMBIE" => state[c] = "ZOMBIE"
  PROVE  Undisturbed(p)
  <1>1. /\ state'[p] = "BLOCKED" <=> st[p] = "BLOCKED" /\ p \notin Due(st, du, now)
        /\ delay_until'[p] = IF p \in Due(st, du, now) THEN 0 ELSE du[p]
    BY DEF Rescheduled
  <1>2. p \in Due(st, du, now) => du[p] # 0
    BY DEF Due
  <1> QED
    BY <1>1, <1>2 DEF Undisturbed, WaitOK

(* No child of a process is a zombie after a step that kills nobody.       *)
LEMMA NoNewZombies ==
  ASSUME SchedInv, NEW p \in Proc, LifeKept({})
  PROVE  \A c \in Range(children[p]) : state'[c] = "ZOMBIE" => state[c] = "ZOMBIE"
  <1>1. Range(children[p]) \subseteq Proc
    BY RangeOfSeq DEF SchedInv, TypeOK
  <1> QED
    BY <1>1 DEF LifeKept

----------------------------------------------------------------------------
(* One lemma per handler.                                                  *)

LEMMA ClockWaits ==
  ASSUME WaitInv, Clock, NEW p \in Proc
  PROVE  WaitOK(p)'
  <1>1. /\ SchedInv /\ WaitOK(p)
        /\ Rescheduled(state, delay_until, clock_ticks')
        /\ LifeKept({})
    BY ClockKeeps, OtherStepsKeepLife DEF WaitInv, FamilyInv
  <1>2. UNCHANGED <<kernel_pc, waiting_for_child, children>>
    BY DEF Clock, TrapClock, familyVars
  <1>3. Undisturbed(p)
    BY <1>1, <1>2, NoNewZombies, RescheduledUndisturbed
  <1> QED
    BY <1>1, <1>3, UndisturbedKeeps

LEMMA DelayWaits ==
  ASSUME WaitInv, Delay, NEW p \in Proc
  PROVE  WaitOK(p)'
  <1> DEFINE cur == current_process
             st == [state EXCEPT ![cur] = "BLOCKED"]
  <1>1. PICK ticks \in 1 .. MaxDelay : SysDelay(ticks) /\ UNCHANGED familyVars
    BY DEF Delay
  <1> DEFINE du == [delay_until EXCEPT ![cur] = WakeTime(ticks)]
  <1>2. /\ SchedInv /\ WaitOK(p) /\ Rescheduled(st, du, clock_ticks)
        /\ LifeKept({})
    BY <1>1, DelayKeeps, OtherStepsKeepLife DEF WaitInv, FamilyInv
  <1>3. UNCHANGED <<kernel_pc, waiting_for_child, children>>
    BY <1>1 DEF SysDelay, familyVars
  <1>4. /\ state \in [Proc -> ProcState] /\ cur \in Proc
        /\ delay_until \in [Proc -> 0 .. Word - 1]
        /\ kernel_pc[cur] = "user"
    BY <1>1, <1>2 DEF SchedInv, TypeOK, SysDelay, CanCall, InUserMode
  <1>5. CASE p = cur
    <2>1. ~waiting_for_child'[p] /\ kernel_pc'[p] = "user"
      BY <1>3, <1>4, <1>5, CurrentNotWaiting
    <2>2. st[p] = "BLOCKED"
      BY <1>4, <1>5
    <2> HIDE DEF st, du
    <2>3. delay_until'[p] # 0 => state'[p] = "BLOCKED"
      BY <1>2, <2>2 DEF Rescheduled
    <2> QED
      BY <2>1, <2>3 DEF WaitOK
  <1>6. CASE p # cur
    <2>1. st[p] = state[p] /\ du[p] = delay_until[p]
      BY <1>4, <1>6
    <2> HIDE DEF st, du
    <2>2. Undisturbed(p)
      BY <1>2, <1>3, <2>1, NoNewZombies, RescheduledUndisturbed
    <2> QED
      BY <1>2, <2>2, UndisturbedKeeps
  <1> QED
    BY <1>5, <1>6

LEMMA WaitBlocksWaits ==
  ASSUME WaitInv, current_process # Idle, WaitBlocks(current_process),
         NEW p \in Proc
  PROVE  WaitOK(p)'
  <1> DEFINE cur == current_process
             st == [state EXCEPT ![cur] = "BLOCKED"]
  <1>1. /\ SchedInv /\ WaitOK(p) /\ Rescheduled(st, delay_until, clock_ticks)
        /\ LifeKept({})
    BY WaitBlocksKeeps, OtherStepsKeepLife DEF WaitInv, FamilyInv
  <1>2. /\ children[cur] # <<>> /\ ZombieAt(cur) = {} /\ UNCHANGED children
        /\ waiting_for_child' = [waiting_for_child EXCEPT ![cur] = TRUE]
        /\ kernel_pc' = [kernel_pc EXCEPT ![cur] = "wait"]
    BY DEF WaitBlocks
  <1>3. /\ state \in [Proc -> ProcState] /\ cur \in Proc
        /\ waiting_for_child \in [Proc -> BOOLEAN]
        /\ kernel_pc \in [Proc -> {"user", "wait"}]
    BY <1>1 DEF SchedInv, TypeOK
  <1>4. CASE p = cur
    <2>1. kernel_pc'[p] = "wait" /\ waiting_for_child'[p] /\ children'[p] # <<>>
      BY <1>2, <1>3, <1>4
    <2>2. st[p] = "BLOCKED" /\ delay_until[p] = 0
      BY <1>3, <1>4, CurrentNotWaiting
    <2> HIDE DEF st
    <2>3. p \notin Due(st, delay_until, clock_ticks)
      BY <2>2 DEF Due
    <2>4. state'[p] = "BLOCKED" /\ delay_until'[p] = 0
      BY <1>1, <2>2, <2>3 DEF Rescheduled
    <2>5. ZombieAt(p)' = {}
      <3>1. children[p] \in Seq(Proc) /\ DOMAIN children[p] = 1 .. Len(children[p])
        BY <1>1, LenProperties DEF SchedInv, TypeOK
      <3>2. \A i \in 1 .. Len(children[p]) : state[children[p][i]] # "ZOMBIE"
        BY <1>2, <1>4 DEF ZombieAt
      <3>3. \A i \in 1 .. Len(children[p]) : state'[children[p][i]] # "ZOMBIE"
        BY <1>1, <3>1, <3>2, NoNewZombies DEF Range
      <3> QED
        BY <1>2, <3>3 DEF ZombieAt
    <2> QED
      BY <2>1, <2>4, <2>5 DEF WaitOK
  <1>5. CASE p # cur
    <2>1. /\ st[p] = state[p] /\ kernel_pc'[p] = kernel_pc[p]
          /\ waiting_for_child'[p] = waiting_for_child[p]
          /\ children'[p] = children[p]
      BY <1>2, <1>3, <1>5
    <2> HIDE DEF st
    <2>2. Undisturbed(p)
      BY <1>1, <2>1, NoNewZombies, RescheduledUndisturbed
    <2> QED
      BY <1>1, <2>2, UndisturbedKeeps
  <1> QED
    BY <1>4, <1>5

LEMMA ForkWaits ==
  ASSUME WaitInv, NEW child \in Proc, SysFork(child), NEW p \in Proc
  PROVE  WaitOK(p)'
  <1> DEFINE cur == current_process
  <1>1. /\ SchedInv /\ FamilySound /\ WaitOK(p)
        /\ state' = [state EXCEPT ![child] = "READY"]
        /\ child # cur /\ cur \in Proc
        /\ state[cur] \in {"RUNNING", "READY"}
        /\ ~waiting_for_child[cur] /\ delay_until[cur] = 0
    BY ForkKeeps, CurrentNotWaiting DEF WaitInv, FamilyInv
  <1>2. /\ delay_until' = [delay_until EXCEPT ![child] = 0]
        /\ kernel_pc' = [kernel_pc EXCEPT ![child] = "user"]
        /\ waiting_for_child' = [waiting_for_child EXCEPT ![child] = FALSE]
        /\ children' = [children EXCEPT ![child] = <<>>, ![cur] = Append(@, child)]
    BY DEF SysFork, ProcessCreateChild
  <1>3. /\ state \in [Proc -> ProcState]
        /\ delay_until \in [Proc -> 0 .. Word - 1]
        /\ kernel_pc \in [Proc -> {"user", "wait"}]
        /\ waiting_for_child \in [Proc -> BOOLEAN]
        /\ children \in [Proc -> Seq(Proc)]
    BY <1>1 DEF SchedInv, TypeOK
  <1>4. CASE p = child
    BY <1>1, <1>2, <1>3, <1>4, AwakeKeeps
  <1>5. CASE p = cur
    BY <1>1, <1>2, <1>3, <1>5, AwakeKeeps
  <1>6. CASE p \notin {child, cur}
    <2>1. /\ kernel_pc'[p] = kernel_pc[p]
          /\ waiting_for_child'[p] = waiting_for_child[p]
          /\ state'[p] = state[p]
          /\ delay_until'[p] = delay_until[p]
      BY <1>1, <1>2, <1>3, <1>6
    <2>2. children'[p] = children[p]
      BY <1>1, <1>2, <1>3, <1>6
    <2>3. \A c \in Range(children[p]) : state'[c] = "ZOMBIE" => state[c] = "ZOMBIE"
      <3>1. Range(children[p]) \subseteq Proc
        BY <1>3, RangeOfSeq
      <3> QED
        BY <1>1, <1>3, <3>1
    <2>4. Undisturbed(p)
      BY <2>1, <2>2, <2>3, <1>1 DEF Undisturbed, WaitOK
    <2> QED
      BY <1>1, <2>4, UndisturbedKeeps
  <1> QED
    BY <1>4, <1>5, <1>6

(* An exit wakes the parent that waits, if there is one; a process that    *)
(* has just lost a child and is not woken was not waiting.                 *)
LEMMA ExitWaits ==
  ASSUME WaitInv, ProcessExitCurrent, NEW p \in Proc
  PROVE  WaitOK(p)'
  <1> DEFINE proc == current_process
             mom == Orphaned(proc)[proc]
             zombie == [state EXCEPT ![proc] = "ZOMBIE"]
  <1>1. /\ SchedInv /\ FamilySound /\ WaitOK(p)
        /\ Rescheduled(ExitStates, delay_until, clock_ticks)
        /\ LifeKept({proc}) /\ state'[proc] = "ZOMBIE"
        /\ proc \in Proc /\ ~waiting_for_child[proc] /\ delay_until[proc] = 0
        /\ state[proc] \in {"RUNNING", "READY"}
    BY ExitKeeps, ExitLife, CurrentNotWaiting DEF WaitInv, FamilyInv
  <1>2. /\ state \in [Proc -> ProcState]
        /\ waiting_for_child \in [Proc -> BOOLEAN]
        /\ children \in [Proc -> Seq(Proc)]
        /\ parent \in [Proc -> Proc \cup {NULL}]
        /\ NULL \notin Proc
    BY <1>1, ProcessAssumption DEF SchedInv, TypeOK
  <1>3. /\ UNCHANGED kernel_pc
        /\ children' = [children EXCEPT ![proc] = <<>>]
        /\ waiting_for_child' = IF WakesParent(proc)
                                THEN [waiting_for_child EXCEPT ![mom] = FALSE]
                                ELSE waiting_for_child
    BY DEF ProcessExitCurrent
  <1>4. ASSUME p # proc, proc \in Range(children[p]), waiting_for_child[p]
        PROVE  p = mom /\ WakesParent(proc)
    <2>1. parent[proc] = p
      BY <1>1, <1>4 DEF FamilySound
    <2>2. proc \notin Range(children[proc])
      BY <1>1, <1>4, <2>1 DEF FamilySound
    <2>3. mom = p
      BY <1>1, <2>1, <2>2 DEF Orphaned
    <2> QED
      BY <1>2, <1>4, <2>3 DEF WakesParent
  <1>5. delay_until[p] = 0 => delay_until'[p] = 0
    BY <1>1 DEF Rescheduled
  <1>6. CASE p = proc
    BY <1>1, <1>2, <1>3, <1>5, <1>6, AwakeKeeps
  <1>7. CASE p # proc /\ p = mom /\ WakesParent(proc)
    <2>1. waiting_for_child[p] /\ ~waiting_for_child'[p]
      BY <1>2, <1>3, <1>7 DEF WakesParent
    <2>2. /\ state[p] = "BLOCKED" /\ delay_until[p] = 0
          /\ p # Idle
      BY <1>1, <2>1 DEF WaitOK, SchedInv, IdleRuns
    <2>3. ExitStates = MadeReady(zombie, p)
      BY <1>7 DEF ExitStates
    <2>4. zombie[p] = "BLOCKED" /\ zombie \in [Proc -> ProcState]
      BY <1>1, <1>2, <1>7, <2>2 DEF ProcState
    <2> HIDE DEF zombie
    <2>5. ExitStates[p] = "READY"
      BY <2>2, <2>3, <2>4 DEF MadeReady, Wakeable
    <2>6. state'[p] # "BLOCKED"
      BY <1>1, <2>5 DEF Rescheduled
    <2> QED
      BY <1>5, <2>1, <2>2, <2>6, AwakeKeeps
  <1>8. CASE p # proc /\ ~(p = mom /\ WakesParent(proc))
    <2>1. /\ kernel_pc'[p] = kernel_pc[p] /\ children'[p] = children[p]
          /\ waiting_for_child'[p] = waiting_for_child[p]
      BY <1>1, <1>2, <1>3, <1>8
    <2>2. ExitStates[p] = state[p]
      <3>1. zombie[p] = state[p] /\ zombie \in [Proc -> ProcState]
        BY <1>1, <1>2, <1>8 DEF ProcState
      <3>2. ExitStates = IF WakesParent(proc) THEN MadeReady(zombie, mom) ELSE zombie
        BY DEF ExitStates
      <3> HIDE DEF zombie, mom
      <3> QED
        BY <1>8, <3>1, <3>2 DEF MadeReady
    <2>3. CASE proc \in Range(children[p])
      <3>1. ~waiting_for_child[p]
        BY <1>4, <1>8, <2>3
      <3>2. /\ state'[p] = "BLOCKED" => state[p] = "BLOCKED"
            /\ delay_until'[p] # 0 => delay_until[p] # 0
        BY <1>1, <2>2 DEF Rescheduled
      <3>3. delay_until'[p] # 0 /\ state[p] = "BLOCKED" => state'[p] = "BLOCKED"
        BY <1>1, <2>2 DEF Rescheduled
      <3> QED
        BY <1>1, <2>1, <3>1, <3>2, <3>3 DEF WaitOK
    <2>4. CASE proc \notin Range(children[p])
      <3>1. \A c \in Range(children[p]) : state'[c] = "ZOMBIE" => state[c] = "ZOMBIE"
        <4>1. Range(children[p]) \subseteq Proc
          BY <1>2, RangeOfSeq
        <4> QED
          BY <1>1, <2>4, <4>1 DEF LifeKept
      <3>2. Undisturbed(p)
        BY <1>1, <2>1, <2>2, <3>1, RescheduledUndisturbed
      <3> QED
        BY <1>1, <3>2, UndisturbedKeeps
    <2> QED
      BY <2>3, <2>4
  <1> QED
    BY <1>6, <1>7, <1>8

LEMMA ReapWaits ==
  ASSUME WaitInv, WaitReaps(current_process), NEW p \in Proc
  PROVE  WaitOK(p)'
  <1> DEFINE cur == current_process
  <1>1. /\ SchedInv /\ FamilySound /\ WaitOK(p)
        /\ cur \in Proc /\ ~waiting_for_child[cur] /\ delay_until[cur] = 0
        /\ state[cur] \in {"RUNNING", "READY"}
    BY CurrentNotWaiting DEF WaitInv, FamilyInv
  <1>2. /\ state \in [Proc -> ProcState]
        /\ waiting_for_child \in [Proc -> BOOLEAN]
        /\ kernel_pc \in [Proc -> {"user", "wait"}]
        /\ children \in [Proc -> Seq(Proc)]
    BY <1>1 DEF SchedInv, TypeOK
  <1>3. PICK i \in 1 .. Len(children[cur]) :
          LET child == children[cur][i]
          IN  /\ child \in Proc
              /\ state[child] = "ZOMBIE"
              /\ state' = [state EXCEPT ![child] = "EMPTY"]
              /\ children' = [children EXCEPT ![child] = <<>>,
                                ![cur] = RemoveAt(children[cur], i)]
    BY <1>1, ReapKeeps
  <1> DEFINE child == children[cur][i]
             rest == RemoveAt(children[cur], i)
  <1>4. /\ child \in Proc /\ state[child] = "ZOMBIE"
        /\ state' = [state EXCEPT ![child] = "EMPTY"]
        /\ children' = [children EXCEPT ![child] = <<>>, ![cur] = rest]
    BY <1>3
  <1>5. /\ waiting_for_child' = [waiting_for_child EXCEPT ![cur] = FALSE]
        /\ kernel_pc' = [kernel_pc EXCEPT ![cur] = "user"]
        /\ UNCHANGED delay_until
    BY DEF WaitReaps, ProcessDestroy
  <1> HIDE DEF child, rest
  <1>6. CASE p = cur
    <2>1. state'[p] # "BLOCKED"
      BY <1>1, <1>2, <1>4, <1>6
    <2> QED
      BY <1>1, <1>2, <1>5, <1>6, <2>1, AwakeKeeps
  <1>7. CASE p = child /\ p # cur
    <2>1. state[p] = "ZOMBIE" /\ state'[p] = "EMPTY"
      BY <1>2, <1>4, <1>7
    <2>2. ~waiting_for_child'[p] /\ delay_until'[p] = 0
      BY <1>1, <1>2, <1>5, <1>7, <2>1 DEF WaitOK
    <2> QED
      BY <2>1, <2>2, AwakeKeeps
  <1>8. CASE p \notin {child, cur}
    <2>1. /\ kernel_pc'[p] = kernel_pc[p]
          /\ waiting_for_child'[p] = waiting_for_child[p]
          /\ state'[p] = state[p] /\ delay_until'[p] = delay_until[p]
      BY <1>1, <1>2, <1>4, <1>5, <1>8
    <2>2. children'[p] = children[p]
      BY <1>1, <1>2, <1>4, <1>8
    <2>3. \A c \in Range(children[p]) : state'[c] = "ZOMBIE" => state[c] = "ZOMBIE"
      <3>1. Range(children[p]) \subseteq Proc
        BY <1>2, RangeOfSeq
      <3> QED
        BY <1>2, <1>4, <3>1
    <2>4. Undisturbed(p)
      BY <1>1, <2>1, <2>2, <2>3 DEF Undisturbed, WaitOK
    <2> QED
      BY <1>1, <2>4, UndisturbedKeeps
  <1> QED
    BY <1>6, <1>7, <1>8

LEMMA InitWaits ==
  ASSUME Init
  PROVE  WaitInv
  <1>1. FamilyInv
    BY InitSchedInv, InitFamily DEF FamilyInv
  <1>2. \A p \in Proc : WaitOK(p)
    BY DEF Init, SchedInit, WaitOK
  <1> QED
    BY <1>1, <1>2 DEF WaitInv

LEMMA NextWaits ==
  ASSUME WaitInv, [Next]_vars
  PROVE  WaitInv'
  <1>1. FamilyInv /\ SchedInv /\ FamilyInv'
    BY NextFamily DEF WaitInv, FamilyInv
  <1>2. ASSUME NEW p \in Proc
        PROVE  WaitOK(p)'
    <2>1. CASE Clock
      BY <2>1, ClockWaits
    <2>2. CASE Delay
      BY <2>2, DelayWaits
    <2>3. CASE Fork
      BY <2>3, ForkWaits DEF Fork
    <2>4. CASE SysWait \/ SysWaitResumed
      BY <1>1, <2>4, WaitIsCurrent, ReapWaits, WaitBlocksWaits DEF WaitLoop
    <2>5. CASE ProcessExitCurrent
      BY <2>5, ExitWaits
    <2>6. CASE InitExit \/ Stopped \/ UNCHANGED vars
      <3>1. UNCHANGED <<state, delay_until, kernel_pc, waiting_for_child, children>>
        BY <2>6 DEF InitExit, Stopped, Halted, schedVars, familyVars, vars
      <3>2. WaitOK(p)
        BY DEF WaitInv
      <3>3. Undisturbed(p)
        BY <3>1, <3>2 DEF Undisturbed, WaitOK
      <3> QED
        BY <1>1, <3>2, <3>3, UndisturbedKeeps
    <2> QED
      BY <2>1, <2>2, <2>3, <2>4, <2>5, <2>6 DEF Next
  <1> QED
    BY <1>1, <1>2 DEF WaitInv

----------------------------------------------------------------------------
(* The theorems.                                                           *)

(* However forks, exits, waits and clock ticks interleave, a parent that   *)
(* is blocked in SysWait has a live child to wait for, and the flag that   *)
(* ProcessExitCurrent looks at is up exactly while it is blocked there.    *)
THEOREM NoExitMissed == Spec => []NoMissedExit
  <1>1. Init => WaitInv
    BY InitWaits
  <1>2. WaitInv /\ [Next]_vars => WaitInv'
    BY NextWaits
  <1>3. WaitInv => NoMissedExit
    BY DEF WaitInv, WaitOK, NoMissedExit
  <1> QED
    BY <1>1, <1>2, <1>3, PTL DEF Spec

(* After ProcessSchedule at tick now nobody is due at tick now.            *)
LEMMA NobodyOverslept ==
  ASSUME SchedInv', NEW st, NEW du, Rescheduled(st, du, clock_ticks')
  PROVE  NoOversleep'
  <1> SUFFICES ASSUME NEW p \in Proc, state'[p] = "BLOCKED", delay_until'[p] # 0,
                      p < MAX_PROCS
               PROVE  delay_until'[p] > clock_ticks'
    BY DEF NoOversleep
  <1>1. /\ st[p] = "BLOCKED" /\ p \notin Due(st, du, clock_ticks')
        /\ delay_until'[p] = du[p]
    BY DEF Rescheduled
  <1>2. ~(du[p] <= clock_ticks')
    BY <1>1 DEF Due
  <1>3. delay_until'[p] \in 0 .. Word - 1 /\ clock_ticks' \in 0 .. Word - 1
    BY DEF SchedInv, TypeOK
  <1> QED
    BY <1>1, <1>2, <1>3, SchedAssumption

(* ProcessWakeDelayed runs whenever the clock moves and whenever a process *)
(* falls asleep, so a sleeper with a wake-up time is never past it, wrapped*)
(* clock or not.                                                           *)
THEOREM NobodyOversleeps == Spec => []NoOversleep
  <1> DEFINE SleepInv == SchedInv /\ NoOversleep
  <1>1. Init => SleepInv
    BY InitSchedInv DEF Init, SchedInit, NoOversleep
  <1>2. ASSUME SleepInv, [Next]_vars
        PROVE  NoOversleep'
    <2>1. SchedInv /\ SchedInv' /\ NoOversleep
      BY <1>2, NextSchedInv
    <2>2. CASE Clock
      BY <2>1, <2>2, ClockKeeps, NobodyOverslept
    <2>3. CASE Delay
      <3>1. PICK ticks \in 1 .. MaxDelay : SysDelay(ticks) /\ UNCHANGED familyVars
        BY <2>3 DEF Delay
      <3>2. clock_ticks' = clock_ticks
        BY <3>1 DEF SysDelay
      <3> QED
        BY <2>1, <3>1, <3>2, DelayKeeps, NobodyOverslept
    <2>4. CASE ProcessExitCurrent
      <3>1. clock_ticks' = clock_ticks
        BY <2>4 DEF ProcessExitCurrent
      <3> QED
        BY <2>1, <2>4, <3>1, ExitKeeps, NobodyOverslept
    <2>5. CASE current_process # Idle /\ WaitBlocks(current_process)
      <3>1. clock_ticks' = clock_ticks
        BY <2>5 DEF WaitBlocks
      <3> QED
        BY <2>1, <2>5, <3>1, WaitBlocksKeeps, NobodyOverslept
    <2>6. CASE WaitReaps(current_process)
      <3>1. /\ \E c \in Proc : state' = [state EXCEPT ![c] = "EMPTY"]
            /\ state \in [Proc -> ProcState]
        BY <2>1, <2>6, ReapKeeps DEF SchedInv, TypeOK
      <3>2. UNCHANGED <<clock_ticks, delay_until>>
        BY <2>6 DEF WaitReaps, ProcessDestroy
      <3> QED
        BY <2>1, <3>1, <3>2 DEF NoOversleep
    <2>7. CASE Fork
      <3>1. PICK child \in Proc : SysFork(child)
        BY <2>7 DEF Fork
      <3>2. /\ state' = [state EXCEPT ![child] = "READY"]
            /\ state \in [Proc -> ProcState]
        BY <2>1, <3>1, ForkKeeps DEF SchedInv, TypeOK
      <3>3. /\ UNCHANGED clock_ticks
            /\ delay_until' = [delay_until EXCEPT ![child] = 0]
            /\ delay_until \in [Proc -> 0 .. Word - 1]
        BY <2>1, <3>1 DEF SysFork, ProcessCreateChild, SchedInv, TypeOK
      <3> QED
        BY <2>1, <3>2, <3>3 DEF NoOversleep
    <2>8. CASE InitExit \/ Stopped \/ UNCHANGED vars
      BY <2>1, <2>8 DEF InitExit, Stopped, Halted, schedVars, vars, NoOversleep
    <2>9. CASE SysWait \/ SysWaitResumed
      BY <2>1, <2>5, <2>6, <2>9, WaitIsCurrent DEF WaitLoop
    <2> QED
      BY <1>2, <2>2, <2>3, <2>4, <2>7, <2>8, <2>9 DEF Next
  <1>3. SleepInv /\ [Next]_vars => SleepInv'
    BY <1>2, NextSchedInv
  <1> QED
    BY <1>1, <1>3, PTL DEF Spec


============================================================================
