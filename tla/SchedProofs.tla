---------------------------- MODULE SchedProofs ----------------------------
(***************************************************************************)
(* What ProcessSchedule keeps, for every set of processes, every ready     *)
(* queue and every clock: the lemma each handler that gives up the CPU     *)
(* rests on.                                                               *)
(***************************************************************************)
EXTENDS Sched, TLAPS, SequenceTheorems, FiniteSetTheorems

(* A ready queue as ProcessSchedule needs to find it, for the states st:   *)
(* linked once each, READY, without idle and without the process cur.      *)
QueueSound(st, rq, cur) ==
  /\ rq \in Seq(Proc)
  /\ IsInjective(rq)
  /\ \A p \in Range(rq) : st[p] = "READY" /\ p # cur /\ p # Idle

(* The states a handler leaves: idle is always RUNNING, and no process     *)
(* other than idle and cur is.                                             *)
StatesSound(st, cur) ==
  /\ st \in [Proc -> ProcState]
  /\ st[Idle] = "RUNNING"
  /\ \A p \in Proc : st[p] = "RUNNING" => p \in {cur, Idle}

(* What ProcessSchedule does to each process: the dead and the absent stay *)
(* so, and a blocked process stays blocked unless its Delay is over.       *)
Rescheduled(st, du, now) ==
  \A p \in Proc :
    /\ state'[p] = "EMPTY" <=> st[p] = "EMPTY"
    /\ state'[p] = "ZOMBIE" <=> st[p] = "ZOMBIE"
    /\ state'[p] = "BLOCKED" <=> st[p] = "BLOCKED" /\ p \notin Due(st, du, now)
    /\ delay_until'[p] = IF p \in Due(st, du, now) THEN 0 ELSE du[p]

----------------------------------------------------------------------------
(* Sequences without repetition.                                           *)

(* Appending an element that is not in an injective sequence.              *)
LEMMA AppendInjects ==
  ASSUME NEW S, NEW s \in Seq(S), NEW e \in S, IsInjective(s), e \notin Range(s)
  PROVE  /\ Append(s, e) \in Seq(S)
         /\ IsInjective(Append(s, e))
         /\ Range(Append(s, e)) = Range(s) \cup {e}
  <1> DEFINE t == Append(s, e)
  <1>1. /\ t \in Seq(S) /\ Len(t) = Len(s) + 1 /\ t[Len(s) + 1] = e
        /\ \A i \in 1 .. Len(s) : t[i] = s[i]
    BY AppendProperties
  <1>2. /\ DOMAIN s = 1 .. Len(s) /\ DOMAIN t = 1 .. Len(s) + 1
        /\ Len(s) \in Nat
    BY <1>1, LenProperties
  <1>3. \A i \in 1 .. Len(s) : s[i] # e
    BY <1>2 DEF Range
  <1>4. IsInjective(t)
    BY <1>1, <1>2, <1>3 DEF IsInjective
  <1>5. Range(t) = Range(s) \cup {e}
    <2>1. Range(t) = {t[i] : i \in 1 .. Len(s) + 1}
      BY <1>2 DEF Range
    <2>2. Range(s) = {s[i] : i \in 1 .. Len(s)}
      BY <1>2 DEF Range
    <2>3. 1 .. Len(s) + 1 = (1 .. Len(s)) \cup {Len(s) + 1}
      BY <1>2
    <2> QED
      BY <1>1, <2>1, <2>2, <2>3
  <1> QED
    BY <1>1, <1>4, <1>5

(* Linking injective sequences that share no element.                      *)
LEMMA ConcatInjects ==
  ASSUME NEW S, NEW s \in Seq(S), NEW t \in Seq(S), IsInjective(s),
         IsInjective(t), Range(s) \cap Range(t) = {}
  PROVE  /\ s \o t \in Seq(S)
         /\ IsInjective(s \o t)
         /\ Range(s \o t) = Range(s) \cup Range(t)
  <1> DEFINE u == s \o t
  <1>1. /\ u \in Seq(S) /\ Len(u) = Len(s) + Len(t)
        /\ \A i \in 1 .. Len(s) + Len(t) :
             u[i] = IF i <= Len(s) THEN s[i] ELSE t[i - Len(s)]
    BY ConcatProperties
  <1>2. /\ DOMAIN s = 1 .. Len(s) /\ DOMAIN t = 1 .. Len(t)
        /\ DOMAIN u = 1 .. Len(s) + Len(t)
        /\ Len(s) \in Nat /\ Len(t) \in Nat
    BY <1>1, LenProperties
  <1>3. \A i \in 1 .. Len(s), j \in 1 .. Len(t) : s[i] # t[j]
    BY <1>2 DEF Range
  <1>4. IsInjective(u)
    <2> SUFFICES ASSUME NEW i \in 1 .. Len(s) + Len(t),
                        NEW j \in 1 .. Len(s) + Len(t), u[i] = u[j]
                 PROVE  i = j
      BY <1>2 DEF IsInjective
    <2>1. CASE i <= Len(s) /\ j <= Len(s)
      BY <2>1, <1>1, <1>2 DEF IsInjective
    <2>2. CASE i > Len(s) /\ j > Len(s)
      <3>1. i - Len(s) \in DOMAIN t /\ j - Len(s) \in DOMAIN t
        BY <2>2, <1>2
      <3>2. t[i - Len(s)] = t[j - Len(s)]
        BY <2>2, <1>1, <1>2
      <3> QED
        BY <3>1, <3>2, <1>2 DEF IsInjective
    <2>3. CASE i <= Len(s) /\ j > Len(s)
      BY <2>3, <1>1, <1>2, <1>3
    <2>4. CASE i > Len(s) /\ j <= Len(s)
      BY <2>4, <1>1, <1>2, <1>3
    <2> QED
      BY <2>1, <2>2, <2>3, <2>4, <1>2
  <1> QED
    BY <1>1, <1>4, RangeConcatenation

(* Taking the front off an injective sequence.                             *)
LEMMA TailInjects ==
  ASSUME NEW S, NEW s \in Seq(S), s # <<>>, IsInjective(s)
  PROVE  /\ Head(s) \in Range(s)
         /\ Tail(s) \in Seq(S)
         /\ IsInjective(Tail(s))
         /\ Range(Tail(s)) = Range(s) \ {Head(s)}
  <1>1. /\ Len(s) \in Nat \ {0} /\ DOMAIN s = 1 .. Len(s)
        /\ Head(s) = s[1]
    BY LenProperties, EmptySeq, HeadTailProperties
  <1>2. /\ Tail(s) \in Seq(S) /\ Len(Tail(s)) = Len(s) - 1
        /\ \A i \in 1 .. Len(Tail(s)) : Tail(s)[i] = s[i + 1]
    BY HeadTailProperties
  <1>3. DOMAIN Tail(s) = 1 .. Len(s) - 1
    BY <1>2, LenProperties
  <1>4. \A i \in 1 .. Len(s) - 1 : i + 1 \in 1 .. Len(s) /\ Tail(s)[i] = s[i + 1]
    BY <1>1, <1>2
  <1>5. IsInjective(Tail(s))
    BY <1>1, <1>3, <1>4 DEF IsInjective
  <1>6. Range(Tail(s)) \subseteq Range(s) \ {Head(s)}
    BY <1>1, <1>3, <1>4 DEF IsInjective, Range
  <1>7. ASSUME NEW e \in Range(s) \ {Head(s)}
        PROVE  e \in Range(Tail(s))
    <2>1. PICK k \in 1 .. Len(s) : e = s[k]
      BY <1>1 DEF Range
    <2>2. k - 1 \in 1 .. Len(s) - 1 /\ (k - 1) + 1 = k
      BY <2>1, <1>1
    <2>3. Tail(s)[k - 1] = e
      BY <2>1, <2>2, <1>4
    <2> QED
      BY <2>2, <2>3, <1>3 DEF Range
  <1>8. Head(s) \in Range(s)
    BY <1>1 DEF Range
  <1>9. Range(Tail(s)) = Range(s) \ {Head(s)}
    BY <1>6, <1>7
  <1> QED
    BY <1>2, <1>5, <1>8, <1>9

(* A function on 1 .. n is a sequence.                                     *)
LEMMA FunctionSeq ==
  ASSUME NEW S, NEW n \in Nat, NEW f \in [1 .. n -> S]
  PROVE  f \in Seq(S) /\ Len(f) = n
  <1>1. f \in Seq(S)
    BY SeqDef
  <1>2. DOMAIN f = 1 .. n /\ DOMAIN f = 1 .. Len(f) /\ Len(f) \in Nat
    BY <1>1, LenProperties
  <1> QED
    BY <1>1, <1>2

LEMMA EmptyRange ==
  ASSUME NEW S, NEW s \in Seq(S)
  PROVE  s = <<>> <=> Range(s) = {}
  <1>1. Len(s) \in Nat /\ DOMAIN s = 1 .. Len(s)
    BY LenProperties
  <1>2. s = <<>> => Range(s) = {}
    BY EmptySeq DEF Range
  <1>3. ASSUME s # <<>>
        PROVE  s[1] \in Range(s)
    <2>1. Len(s) # 0
      BY <1>3, EmptySeq
    <2> QED
      BY <1>1, <2>1 DEF Range
  <1> QED
    BY <1>2, <1>3

(* An ascending enumeration of a set of pids lists each of them at most    *)
(* once.                                                                   *)
LEMMA AscendingInjects ==
  ASSUME NEW S, S \subseteq Proc, NEW w \in Ascending(S)
  PROVE  w \in Seq(Proc) /\ IsInjective(w) /\ Range(w) \subseteq S
  <1>1. Cardinality(S) \in Nat
    BY SchedAssumption, FS_Subset, FS_CardinalityType
  <1>2. w \in [1 .. Cardinality(S) -> S]
    BY DEF Ascending
  <1>3. w \in Seq(Proc)
    BY <1>1, <1>2, SeqDef
  <1>4. \A i, j \in 1 .. Cardinality(S) : i < j => w[i] < w[j]
    BY DEF Ascending
  <1>5. \A i \in 1 .. Cardinality(S) : w[i] \in Nat
    BY <1>2, SchedAssumption
  <1>6. IsInjective(w)
    BY <1>1, <1>2, <1>4, <1>5 DEF IsInjective
  <1> QED
    BY <1>2, <1>3, <1>6 DEF Range

----------------------------------------------------------------------------
(* ProcessMakeReady and ProcessSchedule.                                   *)

(* Waking a process keeps the states and the queue in order, whoever it    *)
(* is, unless it is the live process on the CPU.                           *)
LEMMA WakeSound ==
  ASSUME NEW st, NEW rq, NEW cur \in Proc, NEW p \in Proc,
         StatesSound(st, cur), QueueSound(st, rq, cur),
         p = cur => st[p] = "ZOMBIE"
  PROVE  /\ StatesSound(MadeReady(st, p), cur)
         /\ QueueSound(MadeReady(st, p), Queued(st, rq, p), cur)
  <1>1. CASE ~Wakeable(st, p)
    BY <1>1 DEF MadeReady, Queued
  <1>2. CASE Wakeable(st, p)
    <2>1. /\ MadeReady(st, p) = [st EXCEPT ![p] = "READY"]
          /\ p # Idle /\ p # cur
      BY <1>2 DEF MadeReady, Wakeable
    <2>2. StatesSound(MadeReady(st, p), cur)
      BY <2>1, SchedAssumption DEF StatesSound, ProcState
    <2>3. CASE p \in Range(rq)
      BY <2>1, <2>2, <2>3 DEF Queued, QueueSound, StatesSound
    <2>4. CASE p \notin Range(rq)
      <3>1. Queued(st, rq, p) = Append(rq, p)
        BY <1>2, <2>4 DEF Queued
      <3>2. /\ Append(rq, p) \in Seq(Proc)
            /\ IsInjective(Append(rq, p))
            /\ Range(Append(rq, p)) = Range(rq) \cup {p}
        BY <2>4, AppendInjects DEF QueueSound
      <3>3. \A q \in Range(rq) \cup {p} :
              MadeReady(st, p)[q] = "READY" /\ q # cur /\ q # Idle
        BY <2>1 DEF QueueSound, StatesSound
      <3> QED
        BY <2>2, <3>1, <3>2, <3>3 DEF QueueSound
    <2> QED
      BY <2>3, <2>4
  <1> QED
    BY <1>1, <1>2

(* ProcessSchedule, called with sound states and a sound queue, leaves     *)
(* SchedulerSound and the variables it assigns well typed, and treats each *)
(* process as Rescheduled says.                                            *)
LEMMA ScheduleSound ==
  ASSUME NEW st, NEW rq, NEW du \in [Proc -> 0 .. Word - 1], NEW now,
         current_process \in Proc,
         StatesSound(st, current_process),
         QueueSound(st, rq, current_process),
         ProcessSchedule(st, rq, du, now)
  PROVE  /\ StatesSound(state', current_process')
         /\ QueueSound(state', ready_queue', current_process')
         /\ state'[current_process'] \in {"RUNNING", "READY"}
         /\ current_process' \in Proc
         /\ delay_until' \in [Proc -> 0 .. Word - 1]
         /\ Rescheduled(st, du, now)
  <1> DEFINE due == Due(st, du, now)
             old == current_process
             requeue == old # Idle /\ st[old] = "RUNNING"
             woken == [p \in Proc |-> IF p \in due THEN "READY" ELSE st[p]]
             readied == IF requeue THEN MadeReady(woken, old) ELSE woken
  <1>1. PICK w \in Ascending(due \ Range(rq)) :
          LET queue == IF requeue THEN Queued(woken, rq \o w, old) ELSE rq \o w
              next == IF queue = <<>> THEN Idle ELSE Head(queue)
          IN  /\ ready_queue' = IF queue = <<>> THEN <<>> ELSE Tail(queue)
              /\ current_process' = next
              /\ state' = IF next = old THEN readied
                                        ELSE [readied EXCEPT ![next] = "RUNNING"]
              /\ delay_until' = [p \in Proc |-> IF p \in due THEN 0 ELSE du[p]]
    BY DEF ProcessSchedule, ProcessNextReady, ProcessSwitch
  <1> DEFINE queue == IF requeue THEN Queued(woken, rq \o w, old) ELSE rq \o w
             next == IF queue = <<>> THEN Idle ELSE Head(queue)
  <1>2. /\ due \subseteq Proc
        /\ \A p \in due : st[p] = "BLOCKED"
    BY DEF Due
  <1>3. /\ w \in Seq(Proc) /\ IsInjective(w)
        /\ Range(w) \subseteq due \ Range(rq)
    BY <1>2, AscendingInjects
  <1>4. /\ rq \o w \in Seq(Proc) /\ IsInjective(rq \o w)
        /\ Range(rq \o w) = Range(rq) \cup Range(w)
    <2>1. Range(rq) \cap Range(w) = {}
      BY <1>3
    <2> QED
      BY <1>3, <2>1, ConcatInjects DEF QueueSound
  <1>5. /\ woken \in [Proc -> ProcState] /\ woken[Idle] = "RUNNING"
        /\ \A p \in Proc : woken[p] = "RUNNING" => p \in {old, Idle}
    BY <1>2, SchedAssumption DEF StatesSound, ProcState
  <1>6. \A p \in Range(rq \o w) : p \in Proc /\ woken[p] = "READY" /\ p # Idle
    <2>1. \A p \in Range(rq) : p \in Proc /\ woken[p] = "READY" /\ p # Idle
      BY RangeOfSeq DEF QueueSound
    <2>2. \A p \in Range(w) : p \in Proc /\ woken[p] = "READY" /\ p # Idle
      BY <1>2, <1>3 DEF StatesSound
    <2> QED
      BY <1>4, <2>1, <2>2
  <1>7. /\ queue \in Seq(Proc) /\ IsInjective(queue)
        /\ readied \in [Proc -> ProcState] /\ readied[Idle] = "RUNNING"
        /\ \A p \in Proc : readied[p] = "RUNNING" => p = Idle
        /\ \A p \in Range(queue) : p \in Proc /\ readied[p] = "READY" /\ p # Idle
    <2>1. CASE requeue
      <3>1. old \notin Range(rq \o w) /\ woken[old] = "RUNNING"
        BY <2>1, <1>2, <1>3, <1>4 DEF QueueSound
      <3>2. Wakeable(woken, old)
        BY <2>1, <3>1 DEF Wakeable
      <3>3. queue = Append(rq \o w, old) /\ readied = [woken EXCEPT ![old] = "READY"]
        BY <2>1, <3>1, <3>2 DEF Queued, MadeReady
      <3>4. /\ queue \in Seq(Proc) /\ IsInjective(queue)
            /\ Range(queue) = Range(rq \o w) \cup {old}
        <4> DEFINE front == rq \o w
        <4>1. /\ front \in Seq(Proc) /\ IsInjective(front)
              /\ current_process \notin Range(front)
          BY <3>1, <1>4
        <4> HIDE DEF front
        <4>2. /\ Append(front, current_process) \in Seq(Proc)
              /\ IsInjective(Append(front, current_process))
              /\ Range(Append(front, current_process))
                   = Range(front) \cup {current_process}
          BY <4>1, AppendInjects
        <4> QED
          BY <4>2, <3>3 DEF front
      <3>5. /\ readied \in [Proc -> ProcState] /\ readied[Idle] = "RUNNING"
            /\ \A p \in Proc : readied[p] = "RUNNING" => p = Idle
        BY <2>1, <3>3, <1>5, SchedAssumption DEF ProcState
      <3>6. \A p \in Range(rq \o w) \cup {old} :
              p \in Proc /\ readied[p] = "READY" /\ p # Idle
        BY <2>1, <3>3, <1>5, <1>6
      <3> QED
        BY <3>4, <3>5, <3>6
    <2>2. CASE ~requeue
      <3>1. \A p \in Proc : woken[p] = "RUNNING" => p = Idle
        BY <2>2, <1>2, <1>5
      <3> QED
        BY <2>2, <3>1, <1>4, <1>5, <1>6
    <2> QED
      BY <2>1, <2>2
  <1>8. /\ ready_queue' = IF queue = <<>> THEN <<>> ELSE Tail(queue)
        /\ current_process' = next
        /\ state' = IF next = old THEN readied
                                  ELSE [readied EXCEPT ![next] = "RUNNING"]
        /\ delay_until' = [p \in Proc |-> IF p \in due THEN 0 ELSE du[p]]
    BY <1>1
  <1>9. delay_until' \in [Proc -> 0 .. Word - 1]
    BY <1>8, SchedAssumption
  <1>10. \A p \in Proc :
           \/ p \in due /\ st[p] = "BLOCKED" /\ readied[p] = "READY"
           \/ p \notin due /\ readied[p] = st[p]
           \/ p \notin due /\ st[p] = "RUNNING" /\ readied[p] = "READY"
    <2>1. \A p \in Proc : p \in due => woken[p] = "READY" /\ st[p] = "BLOCKED"
      BY <1>2
    <2>2. \A p \in Proc : p \notin due => woken[p] = st[p]
      OBVIOUS
    <2>3. \A p \in Proc : \/ readied[p] = woken[p]
                          \/ p = old /\ requeue /\ readied[p] = "READY"
      BY <1>5 DEF MadeReady
    <2>4. requeue => old \notin due /\ st[old] = "RUNNING"
      BY <1>2
    <2> HIDE DEF readied, woken, requeue, due
    <2> QED
      BY <2>1, <2>2, <2>3, <2>4
  <1>11. ASSUME \A p \in Proc : \/ state'[p] = readied[p]
                                \/ readied[p] = "READY" /\ state'[p] = "RUNNING"
         PROVE  Rescheduled(st, du, now)
    <2>1. \A p \in Proc : delay_until'[p] = IF p \in due THEN 0 ELSE du[p]
      BY <1>8
    <2> HIDE DEF readied, woken, requeue
    <2> QED
      BY <1>10, <1>11, <2>1 DEF Rescheduled
  <1> HIDE DEF queue, readied, due, requeue, woken
  <1>12. CASE queue = <<>>
    <2>1. /\ ready_queue' = <<>> /\ current_process' = Idle
          /\ state' = IF Idle = old THEN readied
                                    ELSE [readied EXCEPT ![Idle] = "RUNNING"]
      BY <1>8, <1>12
    <2>2. StatesSound(state', current_process') /\ state'[Idle] = "RUNNING"
      BY <2>1, <1>7, SchedAssumption DEF StatesSound, ProcState
    <2>3. QueueSound(state', ready_queue', current_process')
      <3>1. <<>> \in Seq(Proc) /\ Len(<<>>) = 0 /\ DOMAIN <<>> = {}
        BY EmptySeq, LenProperties
      <3> QED
        BY <2>1, <3>1 DEF QueueSound, IsInjective, Range
    <2>4. Rescheduled(st, du, now)
      BY <2>1, <1>7, <1>11
    <2> QED
      BY <2>1, <2>2, <2>3, <2>4, <1>9, SchedAssumption
  <1>13. CASE queue # <<>>
    <2>1. /\ next = Head(queue) /\ next \in Range(queue)
          /\ Tail(queue) \in Seq(Proc) /\ IsInjective(Tail(queue))
          /\ Range(Tail(queue)) \subseteq Range(queue) \ {next}
      BY <1>7, <1>13, TailInjects
    <2>2. next \in Proc /\ readied[next] = "READY" /\ next # Idle
      BY <2>1, <1>7
    <2> HIDE DEF next
    <2>3. StatesSound(state', current_process')
      BY <2>2, <1>7, <1>8, SchedAssumption DEF StatesSound, ProcState
    <2>4. state'[current_process'] \in {"RUNNING", "READY"}
      BY <2>2, <1>7, <1>8
    <2>5. QueueSound(state', ready_queue', current_process')
      BY <2>1, <2>2, <1>7, <1>8, <1>13 DEF QueueSound
    <2>6. Rescheduled(st, du, now)
      BY <2>2, <1>7, <1>8, <1>11
    <2> QED
      BY <2>2, <2>3, <2>4, <2>5, <2>6, <1>8, <1>9
  <1> QED
    BY <1>12, <1>13

----------------------------------------------------------------------------
(* The scheduler in the models whose programs do not call Delay.           *)

LEMMA ModuloType ==
  \A n \in Nat : n % Word \in 0 .. Word - 1
  BY SchedAssumption

(* The scheduler's part of their invariants: nobody is ever due, so only a *)
(* wake-up ends a BLOCKED state.  pcs are the places where a system call   *)
(* continues.                                                              *)
Undelayed(pcs) ==
  /\ state \in [Proc -> ProcState]
  /\ ready_queue \in Seq(Proc)
  /\ current_process \in Proc
  /\ clock_ticks \in 0 .. Word - 1
  /\ delay_until = [p \in Proc |-> 0]
  /\ kernel_pc \in [Proc -> pcs]
  /\ halted \in BOOLEAN
  /\ SchedulerSound
  /\ state[Idle] = "RUNNING"
  /\ kernel_pc[Idle] = "user"

LEMMA UndelayedGives ==
  ASSUME NEW pcs, Undelayed(pcs)
  PROVE  /\ current_process \in Proc
         /\ StatesSound(state, current_process)
         /\ QueueSound(state, ready_queue, current_process)
         /\ state[current_process] \in {"RUNNING", "READY"}
         /\ delay_until \in [Proc -> 0 .. Word - 1]
  <1>1. 0 \in 0 .. Word - 1
    BY SchedAssumption
  <1> QED
    BY <1>1 DEF Undelayed, SchedulerSound, StatesSound, QueueSound

(* A step that calls ProcessSchedule with sound arguments keeps Undelayed  *)
(* and wakes nobody.                                                       *)
LEMMA UndelayedSchedule ==
  ASSUME NEW pcs, Undelayed(pcs), NEW st, NEW rq, NEW now,
         StatesSound(st, current_process),
         QueueSound(st, rq, current_process),
         ProcessSchedule(st, rq, delay_until, now),
         clock_ticks' \in 0 .. Word - 1,
         kernel_pc' \in [Proc -> pcs],
         kernel_pc'[Idle] = "user",
         UNCHANGED halted
  PROVE  /\ Undelayed(pcs)'
         /\ \A p \in Proc : /\ state'[p] = "EMPTY" <=> st[p] = "EMPTY"
                            /\ state'[p] = "ZOMBIE" <=> st[p] = "ZOMBIE"
                            /\ state'[p] = "BLOCKED" <=> st[p] = "BLOCKED"
  <1>1. /\ StatesSound(state', current_process')
        /\ QueueSound(state', ready_queue', current_process')
        /\ state'[current_process'] \in {"RUNNING", "READY"}
        /\ current_process' \in Proc
        /\ delay_until' \in [Proc -> 0 .. Word - 1]
        /\ Rescheduled(st, delay_until, now)
    BY UndelayedGives, ScheduleSound
  <1>2. \A p \in Proc : delay_until[p] = 0
    BY DEF Undelayed
  <1>3. Due(st, delay_until, now) = {}
    BY <1>2 DEF Due
  <1>4. \A p \in Proc : /\ state'[p] = "EMPTY" <=> st[p] = "EMPTY"
                        /\ state'[p] = "ZOMBIE" <=> st[p] = "ZOMBIE"
                        /\ state'[p] = "BLOCKED" <=> st[p] = "BLOCKED"
                        /\ delay_until'[p] = 0
    BY <1>1, <1>2, <1>3 DEF Rescheduled
  <1>5. delay_until' = [p \in Proc |-> 0]
    BY <1>1, <1>4
  <1>6. SchedulerSound'
    BY <1>1 DEF SchedulerSound, StatesSound, QueueSound
  <1> QED
    BY <1>1, <1>4, <1>5, <1>6 DEF Undelayed, StatesSound, QueueSound

(* So does the clock interrupt ...                                         *)
LEMMA UndelayedClock ==
  ASSUME NEW pcs, Undelayed(pcs), TrapClock
  PROVE  /\ Undelayed(pcs)'
         /\ UNCHANGED kernel_pc
         /\ \A p \in Proc : /\ state'[p] = "EMPTY" <=> state[p] = "EMPTY"
                            /\ state'[p] = "ZOMBIE" <=> state[p] = "ZOMBIE"
                            /\ state'[p] = "BLOCKED" <=> state[p] = "BLOCKED"
  <1>1. /\ ProcessSchedule(state, ready_queue, delay_until, clock_ticks')
        /\ clock_ticks' = (clock_ticks + 1) % Word
        /\ UNCHANGED <<kernel_pc, halted>>
    BY DEF TrapClock
  <1>2. clock_ticks' \in 0 .. Word - 1
    <2>1. clock_ticks + 1 \in Nat
      BY SchedAssumption DEF Undelayed
    <2> QED
      BY <1>1, <2>1, ModuloType
  <1>3. kernel_pc' \in [Proc -> pcs] /\ kernel_pc'[Idle] = "user"
    BY <1>1 DEF Undelayed
  <1> QED
    BY <1>1, <1>2, <1>3, UndelayedGives, UndelayedSchedule

(* ... a step that leaves the CPU and the states alone ...                 *)
LEMMA UndelayedReturn ==
  ASSUME NEW pcs, Undelayed(pcs),
         UNCHANGED <<state, ready_queue, current_process, clock_ticks, delay_until>>,
         kernel_pc' \in [Proc -> pcs],
         kernel_pc'[Idle] = "user",
         halted' \in BOOLEAN
  PROVE  Undelayed(pcs)'
  BY DEF Undelayed, SchedulerSound, IsInjective, Range

(* ... and one that only wakes processes.                                  *)
LEMMA UndelayedWake ==
  ASSUME NEW pcs, Undelayed(pcs),
         StatesSound(state', current_process),
         QueueSound(state', ready_queue', current_process),
         state'[current_process] = state[current_process],
         UNCHANGED <<current_process, clock_ticks, delay_until, kernel_pc, halted>>
  PROVE  Undelayed(pcs)'
  BY UndelayedGives DEF Undelayed, SchedulerSound, StatesSound, QueueSound

(* The current process blocks or dies, whoever the handler has woken.      *)
LEMMA LeavesCPU ==
  ASSUME NEW st, NEW rq, NEW s \in {"BLOCKED", "ZOMBIE"},
         current_process \in Proc, current_process # Idle,
         StatesSound(st, current_process), QueueSound(st, rq, current_process)
  PROVE  /\ StatesSound([st EXCEPT ![current_process] = s], current_process)
         /\ QueueSound([st EXCEPT ![current_process] = s], rq, current_process)
  <1>1. StatesSound([st EXCEPT ![current_process] = s], current_process)
    BY SchedAssumption DEF StatesSound, ProcState
  <1>2. QueueSound([st EXCEPT ![current_process] = s], rq, current_process)
    BY DEF QueueSound, StatesSound
  <1> QED
    BY <1>1, <1>2

============================================================================
