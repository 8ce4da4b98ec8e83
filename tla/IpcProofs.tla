----------------------------- MODULE IpcProofs -----------------------------
(***************************************************************************)
(* The invariants of module Ipc, proved for every set of processes, every  *)
(* size of the object table and every pipe capacity: the wait queues, the  *)
(* locks and their hand-off, and the pipes.                                *)
(***************************************************************************)
EXTENDS Ipc, SchedProofs, WellFoundedInduction

PC == {"user", "growing", "overrun"} \cup Sleeps
Kind == {"FREE", "PIPE", "LOCK", "CVAR"}
Call == [id : Id, lock : Id, len : 0 .. MaxLen]

(* The calls processes are blocked in; a read asks for something.          *)
CallsTyped ==
  /\ call \in [Proc -> Call]
  /\ \A p \in Proc : kernel_pc[p] = "pipe_read" => call[p].len # 0

ObjectsTyped ==
  /\ type \in [Id -> Kind]
  /\ owner \in [Id -> Proc \cup {NULL}]
  /\ waiters \in [Id -> Seq(Proc)]
  /\ CallsTyped
  /\ holds \in [Proc -> SUBSET Id]

(* WaitersSound on the states st, the continuations pc, the kinds of       *)
(* object ty, the blocked calls cl and the wait queues q.                  *)
Linked(st, pc, ty, cl, q) ==
  /\ q \in [Id -> Seq(Proc)]
  /\ \A p \in Proc : cl[p].id \in Id
  /\ \A id \in Id : IsInjective(q[id])
  /\ \A id \in Id : \A p \in Range(q[id]) :
       /\ st[p] = "BLOCKED"
       /\ pc[p] \in Sleeps
       /\ ty[id] = WaitsFor(pc[p])
       /\ cl[p].id = id
  /\ \A p \in Proc : st[p] = "BLOCKED" => p \in Range(q[cl[p].id])

QueuesLinked == Linked(state, kernel_pc, type, call, waiters)

ObjectsInv == ObjectsTyped /\ QueuesLinked /\ LockSound

(* The capacities a pipe can have.                                         *)
Capacity == 1 .. INT_MAX

PipesTyped ==
  /\ buf \in [Id -> Seq(1 .. MaxBytes)]
  /\ cap \in [Id -> {0} \cup Capacity]
  /\ sent \in [Id -> 0 .. MaxBytes]
  /\ delivered \in [Id -> Seq(1 .. MaxBytes)]

(* A pipe has a buffer that its bytes fit into, whose size is an int, and  *)
(* has neither lost nor gained bytes.                                      *)
PipesSized ==
  \A id \in Id : type[id] = "PIPE" =>
    /\ cap[id] \in Capacity
    /\ Len(buf[id]) <= cap[id]
    /\ Len(delivered[id]) + Len(buf[id]) = sent[id]

PipesInv == PipesTyped /\ PipesSized /\ NoLostReader

(* The inductive invariant.                                                *)
IpcInv == Undelayed(PC) /\ ObjectsInv /\ PipesInv

----------------------------------------------------------------------------
(* The wait queues.                                                        *)

(* Linked queues are the ones of WaitersSound.                             *)
LEMMA LinkedIsSound ==
  ASSUME ObjectsTyped, Undelayed(PC), QueuesLinked
  PROVE  WaitersSound
  <1>1. \A id \in Id : \A p \in Range(waiters[id]) : p \in Proc
    BY RangeOfSeq DEF ObjectsTyped
  <1> QED
    BY <1>1 DEF WaitersSound, QueuesLinked, Linked

(* A step of other processes, on other objects, changes nothing for the    *)
(* blocked ones.                                                           *)
LEMMA LinkedSame ==
  ASSUME NEW st, NEW pc, NEW ty, NEW cl, NEW q, Linked(st, pc, ty, cl, q),
         NEW st2, NEW pc2, NEW ty2, NEW cl2,
         \A p \in Proc : st2[p] = "BLOCKED" <=> st[p] = "BLOCKED",
         \A p \in Proc : cl2[p].id \in Id,
         \A p \in Proc : st[p] = "BLOCKED" => pc2[p] = pc[p] /\ cl2[p] = cl[p],
         \A id \in Id : q[id] # <<>> => ty2[id] = ty[id]
  PROVE  Linked(st2, pc2, ty2, cl2, q)
  <1>1. \A id \in Id : \A p \in Range(q[id]) : p \in Proc
    BY RangeOfSeq DEF Linked
  <1>2. \A id \in Id : Range(q[id]) # {} => q[id] # <<>>
    BY EmptyRange DEF Linked
  <1> QED
    BY <1>1, <1>2 DEF Linked

(* p blocks in a call on id and is linked there: BlockOnQueue.             *)
Pushes(st, pc, ty, cl, q, st2, pc2, cl2, q2, p, id) ==
  /\ Linked(st, pc, ty, cl, q)
  /\ st[p] # "BLOCKED"
  /\ \A r \in Proc : st2[r] = "BLOCKED" <=> (r = p \/ st[r] = "BLOCKED")
  /\ \A r \in Proc : r # p => pc2[r] = pc[r] /\ cl2[r] = cl[r]
  /\ pc2[p] \in Sleeps
  /\ ty[id] = WaitsFor(pc2[p])
  /\ cl2[p].id = id
  /\ q2 = [q EXCEPT ![id] = Append(q[id], p)]

LEMMA LinkedPush ==
  ASSUME NEW st, NEW pc, NEW ty, NEW cl, NEW q, NEW st2, NEW pc2, NEW cl2, NEW q2,
         NEW p \in Proc, NEW id \in Id,
         Pushes(st, pc, ty, cl, q, st2, pc2, cl2, q2, p, id)
  PROVE  Linked(st2, pc2, ty, cl2, q2)
  <1> USE DEF Pushes
  <1>1. \A i \in Id : \A r \in Range(q[i]) : r \in Proc /\ r # p
    BY RangeOfSeq DEF Linked
  <1>2. q[id] \in Seq(Proc) /\ IsInjective(q[id]) /\ p \notin Range(q[id])
    BY <1>1 DEF Linked
  <1>3. /\ Append(q[id], p) \in Seq(Proc)
        /\ IsInjective(Append(q[id], p))
        /\ Range(Append(q[id], p)) = Range(q[id]) \cup {p}
    BY <1>2, AppendInjects
  <1>4. /\ q2 \in [Id -> Seq(Proc)]
        /\ q2[id] = Append(q[id], p)
        /\ \A i \in Id : i # id => q2[i] = q[i]
    BY <1>3 DEF Linked
  <1>5. /\ Range(q2[id]) = Range(q[id]) \cup {p}
        /\ IsInjective(q2[id])
    BY <1>3, <1>4
  <1>6. \A r \in Proc : cl2[r].id \in Id
    BY DEF Linked
  <1>7. \A i \in Id : IsInjective(q2[i])
    BY <1>4, <1>5 DEF Linked
  <1>8. ASSUME NEW i \in Id, NEW r \in Range(q2[i])
        PROVE  st2[r] = "BLOCKED" /\ pc2[r] \in Sleeps
                 /\ ty[i] = WaitsFor(pc2[r]) /\ cl2[r].id = i
    <2>1. CASE i = id /\ r = p
      BY <2>1
    <2>2. CASE r \in Range(q[i])
      BY <2>2, <1>1 DEF Linked
    <2> QED
      BY <2>1, <2>2, <1>4, <1>5
  <1>9. ASSUME NEW r \in Proc, st2[r] = "BLOCKED"
        PROVE  r \in Range(q2[cl2[r].id])
    <2>1. CASE r = p
      BY <2>1, <1>5
    <2>2. CASE r # p
      <3>1. st[r] = "BLOCKED" /\ cl2[r] = cl[r]
        BY <2>2, <1>9
      <3>2. r \in Range(q[cl[r].id]) /\ cl[r].id \in Id
        BY <3>1 DEF Linked
      <3> QED
        BY <3>1, <3>2, <1>4, <1>5
    <2> QED
      BY <2>1, <2>2
  <1> QED
    BY <1>4, <1>6, <1>7, <1>8, <1>9 DEF Linked

(* The first waiters of the objects in D are woken and unlinked: WakeOne.  *)
LEMMA LinkedPop ==
  ASSUME NEW st, NEW pc, NEW ty, NEW cl, NEW q, Linked(st, pc, ty, cl, q),
         NEW st2, NEW q2, NEW D \in SUBSET Id,
         \A id \in D : q[id] # <<>>,
         q2 = [id \in Id |-> IF id \in D THEN Tail(q[id]) ELSE q[id]],
         \A r \in Proc : st2[r] = "BLOCKED" <=>
           (st[r] = "BLOCKED" /\ \A id \in D : r # Head(q[id]))
  PROVE  Linked(st2, pc, ty, cl, q2)
  <1>1. \A i \in Id : \A r \in Range(q[i]) : r \in Proc
    BY RangeOfSeq DEF Linked
  <1>2. ASSUME NEW id \in D
        PROVE  /\ Head(q[id]) \in Range(q[id])
               /\ Tail(q[id]) \in Seq(Proc)
               /\ IsInjective(Tail(q[id]))
               /\ Range(Tail(q[id])) = Range(q[id]) \ {Head(q[id])}
    <2>1. q[id] \in Seq(Proc) /\ q[id] # <<>> /\ IsInjective(q[id])
      BY DEF Linked
    <2>2. PICK s : s = q[id]
      OBVIOUS
    <2>3. /\ Head(s) \in Range(s)
          /\ Tail(s) \in Seq(Proc)
          /\ IsInjective(Tail(s))
          /\ Range(Tail(s)) = Range(s) \ {Head(s)}
      BY <2>1, <2>2, TailInjects
    <2> QED
      BY <2>2, <2>3
  <1>3. /\ q2 \in [Id -> Seq(Proc)]
        /\ \A i \in D : q2[i] = Tail(q[i])
        /\ \A i \in Id : i \notin D => q2[i] = q[i]
    <2>1. \A i \in D : Tail(q[i]) \in Seq(Proc)
      BY <1>2
    <2>2. \A i \in Id : q[i] \in Seq(Proc)
      BY DEF Linked
    <2> QED
      BY <2>1, <2>2
  <1>4. ASSUME NEW i \in Id
        PROVE  IsInjective(q2[i]) /\ Range(q2[i]) \subseteq Range(q[i])
    <2>1. CASE i \in D
      <3>1. q2[i] = Tail(q[i])
        BY <2>1, <1>3
      <3>2. IsInjective(Tail(q[i])) /\ Range(Tail(q[i])) \subseteq Range(q[i])
        BY <2>1, <1>2
      <3> QED
        BY <3>1, <3>2
    <2>2. CASE i \notin D
      BY <2>2, <1>3 DEF Linked
    <2> QED
      BY <2>1, <2>2
  <1>5. ASSUME NEW i \in Id, NEW r \in Range(q2[i])
        PROVE  st2[r] = "BLOCKED" /\ pc[r] \in Sleeps
                 /\ ty[i] = WaitsFor(pc[r]) /\ cl[r].id = i
    <2>1. /\ r \in Range(q[i]) /\ r \in Proc
          /\ st[r] = "BLOCKED" /\ pc[r] \in Sleeps
          /\ ty[i] = WaitsFor(pc[r]) /\ cl[r].id = i
      BY <1>1, <1>4 DEF Linked
    <2>2. ASSUME NEW id \in D, r = Head(q[id])
          PROVE  FALSE
      <3>1. r \in Range(q[id])
        BY <2>2, <1>2
      <3>2. cl[r].id = id
        BY <3>1 DEF Linked
      <3>3. r \in Range(Tail(q[id]))
        BY <2>1, <3>2, <1>3
      <3> QED
        BY <2>2, <3>3, <1>2
    <2> QED
      BY <2>1, <2>2
  <1>6. ASSUME NEW r \in Proc, st2[r] = "BLOCKED"
        PROVE  r \in Range(q2[cl[r].id])
    <2>1. st[r] = "BLOCKED" /\ \A id \in D : r # Head(q[id])
      BY <1>6
    <2>2. r \in Range(q[cl[r].id]) /\ cl[r].id \in Id
      BY <2>1 DEF Linked
    <2>3. CASE cl[r].id \in D
      <3>1. PICK id \in D : id = cl[r].id
        BY <2>3
      <3>2. r \in Range(q[id]) /\ r # Head(q[id])
        BY <2>1, <2>2, <3>1
      <3>3. r \in Range(Tail(q[id]))
        BY <3>2, <1>2
      <3>4. q2[id] = Tail(q[id])
        BY <1>3
      <3> QED
        BY <3>1, <3>3, <3>4
    <2>4. CASE cl[r].id \notin D
      BY <2>2, <2>4, <1>3
    <2> QED
      BY <2>3, <2>4
  <1> QED
    BY <1>3, <1>4, <1>5, <1>6 DEF Linked

(* All waiters of id are woken and unlinked: WakeAll.                      *)
LEMMA LinkedClear ==
  ASSUME NEW st, NEW pc, NEW ty, NEW cl, NEW q, Linked(st, pc, ty, cl, q),
         NEW st2, NEW q2, NEW id \in Id,
         q2 = [q EXCEPT ![id] = <<>>],
         \A r \in Proc : st2[r] = "BLOCKED" <=>
           (st[r] = "BLOCKED" /\ r \notin Range(q[id]))
  PROVE  Linked(st2, pc, ty, cl, q2)
  <1>1. \A i \in Id : \A r \in Range(q[i]) : r \in Proc
    BY RangeOfSeq DEF Linked
  <1>2. <<>> \in Seq(Proc) /\ IsInjective(<<>>) /\ Range(<<>>) = {}
    BY EmptySeq DEF IsInjective, Range
  <1>3. /\ q2 \in [Id -> Seq(Proc)]
        /\ q2[id] = <<>>
        /\ \A i \in Id : i # id => q2[i] = q[i]
    BY <1>2 DEF Linked
  <1>4. \A i \in Id : IsInjective(q2[i])
    BY <1>2, <1>3 DEF Linked
  <1>5. ASSUME NEW i \in Id, NEW r \in Range(q2[i])
        PROVE  st2[r] = "BLOCKED" /\ pc[r] \in Sleeps
                 /\ ty[i] = WaitsFor(pc[r]) /\ cl[r].id = i
    <2>1. i # id /\ r \in Range(q[i]) /\ r \in Proc
      BY <1>1, <1>2, <1>3
    <2>2. /\ st[r] = "BLOCKED" /\ pc[r] \in Sleeps
          /\ ty[i] = WaitsFor(pc[r]) /\ cl[r].id = i
      BY <2>1 DEF Linked
    <2>3. r \notin Range(q[id])
      BY <2>1, <2>2 DEF Linked
    <2> QED
      BY <2>1, <2>2, <2>3
  <1>6. ASSUME NEW r \in Proc, st2[r] = "BLOCKED"
        PROVE  r \in Range(q2[cl[r].id])
    <2>1. st[r] = "BLOCKED" /\ r \notin Range(q[id])
      BY <1>6
    <2>2. r \in Range(q[cl[r].id]) /\ cl[r].id \in Id
      BY <2>1 DEF Linked
    <2> QED
      BY <2>1, <2>2, <1>3
  <1> QED
    BY <1>3, <1>4, <1>5, <1>6 DEF Linked
----------------------------------------------------------------------------
(* The locks.                                                              *)

Dead == {"EMPTY", "ZOMBIE"}

(* A step that changes no lock, wakes or blocks nobody on the way out of   *)
(* LockAcquire and kills nobody keeps LockSound.                           *)
LEMMA LocksSame ==
  ASSUME ObjectsTyped, LockSound, UNCHANGED <<owner, holds>>,
         \A id \in Id : type'[id] = "LOCK" <=> type[id] = "LOCK",
         \A id \in Id : type[id] = "LOCK" /\ waiters'[id] # <<>> =>
           waiters[id] # <<>> \/ owner[id] # NULL,
         \A p \in Proc : state'[p] \in Dead <=> state[p] \in Dead,
         \A p \in Proc :
           /\ kernel_pc[p] = "acquire"
           /\ state[p] # "BLOCKED"
           /\ owner[call[p].id] = p
           => /\ kernel_pc'[p] = "acquire"
              /\ state'[p] # "BLOCKED"
              /\ call'[p] = call[p]
  PROVE  LockSound'
  <1>1. \A p \in Proc : \A id \in holds'[p] : type'[id] = "LOCK" /\ owner'[id] = p
    BY DEF LockSound, ObjectsTyped
  <1>2. ASSUME NEW id \in Id, type'[id] = "LOCK"
        PROVE  waiters'[id] # <<>> => owner'[id] # NULL
    BY <1>2 DEF LockSound
  <1>3. ASSUME NEW id \in Id, type'[id] = "LOCK", owner'[id] # NULL
        PROVE  /\ state'[owner'[id]] \notin Dead
               /\ \/ id \in holds'[owner'[id]]
                  \/ /\ kernel_pc'[owner'[id]] = "acquire"
                     /\ call'[owner'[id]].id = id
                     /\ state'[owner'[id]] # "BLOCKED"
    <2>1. PICK p \in Proc : p = owner[id]
      BY <1>3 DEF ObjectsTyped
    <2>2. /\ state[p] \notin Dead
          /\ \/ id \in holds[p]
             \/ /\ kernel_pc[p] = "acquire"
                /\ call[p].id = id
                /\ state[p] # "BLOCKED"
      BY <1>3, <2>1 DEF LockSound, Dead
    <2> QED
      BY <2>1, <2>2
  <1> QED
    BY <1>1, <1>2, <1>3 DEF LockSound, Dead

(* p, in user mode, releases the locks of D: each goes to its first waiter *)
(* or to nobody.                                                           *)
HandsOff(p, D) ==
  /\ kernel_pc[p] = "user"
  /\ UNCHANGED type
  /\ \A id \in D : type[id] = "LOCK" /\ owner[id] = p
  /\ owner' = [id \in Id |-> IF id \in D THEN NextOwner(id) ELSE owner[id]]
  /\ \A r \in Proc : holds'[r] = IF r = p THEN holds[r] \ D ELSE holds[r]
  /\ \A id \in Id : type[id] = "LOCK" /\ waiters'[id] # <<>> => waiters[id] # <<>>
  /\ \A r \in Proc : r # p => kernel_pc'[r] = kernel_pc[r] /\ call'[r] = call[r]
  /\ \A r \in Proc : r # p => (state'[r] \in Dead <=> state[r] \in Dead)
  /\ \A r \in Proc : r # p => (state'[r] = "BLOCKED" => state[r] = "BLOCKED")
  /\ \A id \in D : waiters[id] # <<>> => state'[Head(waiters[id])] # "BLOCKED"
  /\ state'[p] \in Dead =>
       \A id \in Id : type[id] = "LOCK" /\ owner[id] = p => id \in D

LEMMA LocksHandedOff ==
  ASSUME ObjectsTyped, QueuesLinked, LockSound, kernel_pc \in [Proc -> PC],
         NEW p \in Proc, NEW D \in SUBSET Id, HandsOff(p, D)
  PROVE  LockSound'
  <1> USE DEF HandsOff
  <1>1. ASSUME NEW id \in D, waiters[id] # <<>>
        PROVE  /\ Head(waiters[id]) \in Proc
               /\ Head(waiters[id]) # p
               /\ Head(waiters[id]) \in Range(waiters[id])
               /\ state[Head(waiters[id])] = "BLOCKED"
               /\ kernel_pc[Head(waiters[id])] = "acquire"
               /\ call[Head(waiters[id])].id = id
    <2>1. PICK s : s = waiters[id]
      OBVIOUS
    <2>2. s \in Seq(Proc) /\ s # <<>> /\ IsInjective(s)
      BY <1>1, <2>1 DEF QueuesLinked, Linked
    <2>3. Head(s) \in Range(s)
      BY <2>2, TailInjects
    <2>4. Head(s) \in Proc
      BY <2>2, <2>3, RangeOfSeq
    <2>5. /\ state[Head(s)] = "BLOCKED"
          /\ kernel_pc[Head(s)] \in Sleeps
          /\ type[id] = WaitsFor(kernel_pc[Head(s)])
          /\ call[Head(s)].id = id
      BY <2>1, <2>3 DEF QueuesLinked, Linked
    <2>6. kernel_pc[Head(s)] = "acquire"
      BY <2>4, <2>5 DEF WaitsFor, Sleeps
    <2> QED
      BY <2>1, <2>3, <2>4, <2>5, <2>6
  <1>2. ASSUME NEW r \in Proc, NEW id \in holds'[r]
        PROVE  type'[id] = "LOCK" /\ owner'[id] = r
    <2>1. id \in holds[r] /\ id \in Id /\ (r = p => id \notin D)
      BY <1>2 DEF ObjectsTyped
    <2>2. type[id] = "LOCK" /\ owner[id] = r
      BY <2>1 DEF LockSound
    <2>3. id \notin D
      BY <2>1, <2>2
    <2> QED
      BY <2>1, <2>2, <2>3
  <1>3. ASSUME NEW id \in Id, type'[id] = "LOCK", waiters'[id] # <<>>
        PROVE  owner'[id] # NULL
    <2>1. type[id] = "LOCK" /\ waiters[id] # <<>>
      BY <1>3
    <2>2. CASE id \in D
      BY <2>1, <2>2, <1>1, IpcAssumption DEF NextOwner
    <2>3. CASE id \notin D
      BY <2>1, <2>3 DEF LockSound
    <2> QED
      BY <2>2, <2>3
  <1>4. ASSUME NEW id \in Id, type'[id] = "LOCK", owner'[id] # NULL
        PROVE  /\ state'[owner'[id]] \notin Dead
               /\ \/ id \in holds'[owner'[id]]
                  \/ /\ kernel_pc'[owner'[id]] = "acquire"
                     /\ call'[owner'[id]].id = id
                     /\ state'[owner'[id]] # "BLOCKED"
    <2>1. CASE id \in D
      <3>1. waiters[id] # <<>> /\ owner'[id] = Head(waiters[id])
        BY <2>1, <1>4 DEF NextOwner
      <3>2. PICK h \in Proc : h = Head(waiters[id])
        BY <2>1, <3>1, <1>1
      <3>3. /\ h # p /\ state[h] = "BLOCKED" /\ kernel_pc[h] = "acquire"
            /\ call[h].id = id /\ state'[h] # "BLOCKED"
        BY <2>1, <3>1, <3>2, <1>1
      <3>4. state[h] \notin Dead
        BY <3>3 DEF Dead
      <3> QED
        BY <3>1, <3>2, <3>3, <3>4
    <2>2. CASE id \notin D
      <3>1. PICK h \in Proc : h = owner[id] /\ owner'[id] = h
        BY <2>2, <1>4 DEF ObjectsTyped
      <3>2. type[id] = "LOCK" /\ owner[id] # NULL
        BY <2>2, <1>4
      <3>3. /\ state[h] \notin Dead
            /\ \/ id \in holds[h]
               \/ /\ kernel_pc[h] = "acquire"
                  /\ call[h].id = id
                  /\ state[h] # "BLOCKED"
        BY <3>1, <3>2 DEF LockSound, Dead
      <3>4. CASE h = p
        <4>1. id \in holds[p]
          BY <3>3, <3>4
        <4>2. id \in holds'[p] /\ state'[p] \notin Dead
          BY <4>1, <2>2, <3>1, <3>2, <3>4
        <4> QED
          BY <4>2, <3>1, <3>4
      <3>5. CASE h # p
        <4>1. /\ holds'[h] = holds[h]
              /\ kernel_pc'[h] = kernel_pc[h] /\ call'[h] = call[h]
              /\ state'[h] \notin Dead
              /\ state'[h] = "BLOCKED" => state[h] = "BLOCKED"
          BY <3>3, <3>5
        <4> QED
          BY <4>1, <3>1, <3>3
      <3> QED
        BY <3>4, <3>5
    <2> QED
      BY <2>1, <2>2
  <1> QED
    BY <1>2, <1>3, <1>4 DEF LockSound, Dead

----------------------------------------------------------------------------
(* The pipes.                                                              *)

(* A step that changes no pipe and blocks readers on empty pipes only      *)
(* keeps PipesInv.                                                         *)
LEMMA PipesSame ==
  ASSUME PipesInv, UNCHANGED <<type, buf, cap, sent, delivered>>,
         \A id \in Id : type[id] = "PIPE" /\ waiters'[id] # <<>> =>
           waiters[id] # <<>> \/ buf[id] = <<>>
  PROVE  PipesInv'
  BY DEF PipesInv, PipesTyped, PipesSized, NoLostReader

----------------------------------------------------------------------------
(* Blocking, waking and returning.                                         *)

LEMMA CurrentLives ==
  ASSUME Undelayed(PC)
  PROVE  /\ current_process \in Proc
         /\ state[current_process] # "BLOCKED"
         /\ state[current_process] \notin Dead
  BY UndelayedGives DEF Dead

(* What WakeOne on the waiters of id does.                                 *)
LEMMA WakeOneSound ==
  ASSUME Undelayed(PC), ObjectsTyped, QueuesLinked, NEW id \in Id
  PROVE  /\ StatesSound(WakeOneState(id), current_process)
         /\ QueueSound(WakeOneState(id), WakeOneReady(id), current_process)
         /\ Linked(WakeOneState(id), kernel_pc, type, call, WakeOneQueue(id))
         /\ WakeOneState(id)[current_process] = state[current_process]
         /\ \A r \in Proc :
              /\ WakeOneState(id)[r] \in Dead <=> state[r] \in Dead
              /\ WakeOneState(id)[r] = "BLOCKED" => state[r] = "BLOCKED"
         /\ waiters[id] # <<>> => WakeOneState(id)[Head(waiters[id])] # "BLOCKED"
         /\ \A i \in Id : WakeOneQueue(id)[i] # <<>> => waiters[i] # <<>>
  <1>1. /\ current_process \in Proc
        /\ StatesSound(state, current_process)
        /\ QueueSound(state, ready_queue, current_process)
        /\ state[current_process] # "BLOCKED"
    BY UndelayedGives, CurrentLives
  <1>2. waiters \in [Id -> Seq(Proc)]
    BY DEF ObjectsTyped
  <1>3. CASE waiters[id] = <<>>
    <2>1. WakeOneState(id) = state /\ WakeOneReady(id) = ready_queue
      BY <1>3 DEF WakeOneState, WakeOneReady
    <2>2. WakeOneQueue(id) = waiters
      BY <1>2, <1>3 DEF WakeOneQueue
    <2> QED
      BY <1>1, <1>3, <2>1, <2>2 DEF QueuesLinked
  <1>4. CASE waiters[id] # <<>>
    <2>1. PICK h : h = Head(waiters[id])
      OBVIOUS
    <2>2. h \in Range(waiters[id])
      <3>1. PICK s : s = waiters[id]
        OBVIOUS
      <3>2. s \in Seq(Proc) /\ s # <<>> /\ IsInjective(s)
        BY <1>4, <3>1 DEF QueuesLinked, Linked
      <3>3. Head(s) \in Range(s)
        BY <3>2, TailInjects
      <3> QED
        BY <2>1, <3>1, <3>3
    <2>3. h \in Proc /\ state[h] = "BLOCKED"
      BY <1>2, <2>2, RangeOfSeq DEF QueuesLinked, Linked
    <2>4. h # Idle /\ h # current_process
      BY <1>1, <2>3 DEF StatesSound
    <2>5. /\ WakeOneState(id) = MadeReady(state, h)
          /\ WakeOneReady(id) = Queued(state, ready_queue, h)
      BY <1>4, <2>1 DEF WakeOneState, WakeOneReady
    <2>6. MadeReady(state, h) = [state EXCEPT ![h] = "READY"]
      BY <2>3, <2>4 DEF MadeReady, Wakeable
    <2>7. /\ StatesSound(MadeReady(state, h), current_process)
          /\ QueueSound(MadeReady(state, h), Queued(state, ready_queue, h),
                        current_process)
      BY <1>1, <2>3, <2>4, WakeSound
    <2>8. WakeOneQueue(id)
            = [i \in Id |-> IF i \in {id} THEN Tail(waiters[i]) ELSE waiters[i]]
      BY <1>2, <1>4 DEF WakeOneQueue
    <2>9. state \in [Proc -> ProcState]
      BY DEF Undelayed
    <2>10. \A r \in Proc : WakeOneState(id)[r] = IF r = h THEN "READY" ELSE state[r]
      BY <2>5, <2>6, <2>9
    <2>11. /\ WakeOneState(id)[current_process] = state[current_process]
           /\ WakeOneState(id)[h] # "BLOCKED"
           /\ \A r \in Proc :
                /\ WakeOneState(id)[r] \in Dead <=> state[r] \in Dead
                /\ WakeOneState(id)[r] = "BLOCKED" <=> (state[r] = "BLOCKED" /\ r # h)
      BY <1>1, <2>3, <2>4, <2>10 DEF Dead
    <2>12. Linked(WakeOneState(id), kernel_pc, type, call, WakeOneQueue(id))
      <3>1. PICK st2 : st2 = WakeOneState(id)
        OBVIOUS
      <3>2. PICK q2 : q2 = WakeOneQueue(id)
        OBVIOUS
      <3>3. PICK D \in SUBSET Id : D = {id}
        OBVIOUS
      <3>4. \A i \in D : waiters[i] # <<>>
        BY <1>4, <3>3
      <3>5. q2 = [i \in Id |-> IF i \in D THEN Tail(waiters[i]) ELSE waiters[i]]
        BY <2>8, <3>2, <3>3
      <3>6. \A r \in Proc : st2[r] = "BLOCKED" <=>
              (state[r] = "BLOCKED" /\ \A i \in D : r # Head(waiters[i]))
        BY <2>1, <2>11, <3>1, <3>3
      <3>7. Linked(st2, kernel_pc, type, call, q2)
        BY <3>4, <3>5, <3>6, LinkedPop DEF QueuesLinked
      <3> QED
        BY <3>1, <3>2, <3>7
    <2>13. \A i \in Id : WakeOneQueue(id)[i] # <<>> => waiters[i] # <<>>
      BY <1>4, <2>8
    <2> QED
      BY <2>1, <2>5, <2>7, <2>11, <2>12, <2>13
  <1> QED
    BY <1>3, <1>4

(* What WakeAll on the waiters of id does.                                 *)
LEMMA WakeAllSound ==
  ASSUME Undelayed(PC), ObjectsTyped, QueuesLinked, NEW id \in Id, WakeAll(id),
         UNCHANGED <<current_process, clock_ticks, delay_until, kernel_pc, halted,
                     type, call>>
  PROVE  /\ Undelayed(PC)'
         /\ QueuesLinked'
         /\ waiters'[id] = <<>>
         /\ \A i \in Id : waiters'[i] # <<>> => waiters[i] # <<>>
         /\ \A r \in Proc :
              /\ state'[r] \in Dead <=> state[r] \in Dead
              /\ state'[r] = "BLOCKED" => state[r] = "BLOCKED"
  <1>1. /\ current_process \in Proc
        /\ StatesSound(state, current_process)
        /\ QueueSound(state, ready_queue, current_process)
        /\ state[current_process] # "BLOCKED"
    BY UndelayedGives, CurrentLives
  <1>2. PICK s : s = waiters[id]
    OBVIOUS
  <1>3. /\ s \in Seq(Proc) /\ IsInjective(s)
        /\ \A r \in Range(s) : r \in Proc /\ state[r] = "BLOCKED"
    BY <1>2, RangeOfSeq DEF QueuesLinked, Linked
  <1>4. /\ state' = [p \in Proc |-> IF p \in Range(s) THEN "READY" ELSE state[p]]
        /\ ready_queue' = ready_queue \o s
        /\ waiters' = [waiters EXCEPT ![id] = <<>>]
    BY <1>2 DEF WakeAll
  <1>5. \A r \in Range(s) : r # Idle /\ r # current_process
    BY <1>1, <1>3 DEF StatesSound
  <1>6. StatesSound(state', current_process)
        /\ state'[current_process] = state[current_process]
    BY <1>1, <1>3, <1>4, <1>5, SchedAssumption DEF StatesSound, ProcState
  <1>7. QueueSound(state', ready_queue', current_process)
    <2>1. /\ ready_queue \in Seq(Proc) /\ IsInjective(ready_queue)
          /\ \A r \in Range(ready_queue) :
               r \in Proc /\ state[r] = "READY" /\ r # current_process /\ r # Idle
      BY <1>1, RangeOfSeq DEF QueueSound
    <2>2. Range(ready_queue) \cap Range(s) = {}
      BY <1>3, <2>1
    <2>3. /\ ready_queue \o s \in Seq(Proc)
          /\ IsInjective(ready_queue \o s)
          /\ Range(ready_queue \o s) = Range(ready_queue) \cup Range(s)
      BY <1>3, <2>1, <2>2, ConcatInjects
    <2>4. \A r \in Range(ready_queue) \cup Range(s) :
            state'[r] = "READY" /\ r # current_process /\ r # Idle
      BY <1>3, <1>4, <1>5, <2>1
    <2> QED
      BY <1>4, <2>3, <2>4 DEF QueueSound
  <1>8. Undelayed(PC)'
    BY <1>6, <1>7, UndelayedWake
  <1>9. \A r \in Proc :
          /\ state'[r] \in Dead <=> state[r] \in Dead
          /\ state'[r] = "BLOCKED" <=> (state[r] = "BLOCKED" /\ r \notin Range(s))
    BY <1>3, <1>4 DEF Dead
  <1>10. Linked(state', kernel_pc, type, call, waiters')
    BY <1>2, <1>4, <1>9, LinkedClear DEF QueuesLinked
  <1>11. /\ waiters'[id] = <<>>
         /\ \A i \in Id : waiters'[i] # <<>> => waiters[i] # <<>>
    BY <1>4 DEF ObjectsTyped
  <1> QED
    BY <1>8, <1>9, <1>10, <1>11 DEF QueuesLinked

LEMMA NoCallType == NoCall \in Call /\ NoCall.id \in Id
  BY IpcAssumption DEF NoCall, Call, Id

(* A call of the current process returns without blocking.                 *)
LEMMA ReturnKeeps ==
  ASSUME Undelayed(PC), ObjectsTyped, QueuesLinked, Returns(current_process),
         UNCHANGED <<state, ready_queue, current_process, clock_ticks, delay_until,
                     halted, type, waiters>>
  PROVE  /\ Undelayed(PC)'
         /\ QueuesLinked'
         /\ CallsTyped'
         /\ \A r \in Proc : r # current_process =>
              kernel_pc'[r] = kernel_pc[r] /\ call'[r] = call[r]
  <1>1. current_process \in Proc /\ state[current_process] # "BLOCKED"
    BY CurrentLives
  <1>2. /\ kernel_pc' \in [Proc -> PC] /\ kernel_pc'[Idle] = "user"
        /\ halted' \in BOOLEAN
    BY <1>1, SchedAssumption DEF Returns, Undelayed, PC
  <1>3. call' \in [Proc -> Call]
    BY <1>1, NoCallType DEF Returns, ObjectsTyped, CallsTyped
  <1>4. Undelayed(PC)'
    BY <1>2, UndelayedReturn
  <1>5. \A r \in Proc : r # current_process =>
          kernel_pc'[r] = kernel_pc[r] /\ call'[r] = call[r]
    BY DEF Returns, Undelayed, ObjectsTyped, CallsTyped
  <1>6. \A r \in Proc : call'[r].id \in Id
    BY <1>3 DEF Call
  <1>7. Linked(state', kernel_pc', type', call', waiters)
    BY <1>1, <1>5, <1>6, LinkedSame DEF QueuesLinked
  <1>8. CallsTyped'
    <2>1. kernel_pc'[current_process] = "user"
      BY <1>1 DEF Returns, Undelayed
    <2> QED
      BY <1>3, <1>5, <2>1 DEF ObjectsTyped, CallsTyped
  <1> QED
    BY <1>4, <1>5, <1>7, <1>8 DEF QueuesLinked

(* BlockOnQueue of the current process, when the handler has left the      *)
(* states st, the ready queue rq and the wait queues q.                    *)
LEMMA BlockKeeps ==
  ASSUME Undelayed(PC), ObjectsTyped, current_process # Idle,
         NEW st, NEW rq, NEW q, NEW id \in Id, NEW pc \in Sleeps, NEW args \in Call,
         args.id = id,
         pc = "pipe_read" => args.len # 0,
         type[id] = WaitsFor(pc),
         StatesSound(st, current_process), QueueSound(st, rq, current_process),
         Linked(st, kernel_pc, type, call, q),
         st[current_process] # "BLOCKED",
         BlockOnQueue(current_process, id, pc, args, st, rq, q),
         UNCHANGED type
  PROVE  /\ Undelayed(PC)'
         /\ QueuesLinked'
         /\ CallsTyped'
         /\ waiters' \in [Id -> Seq(Proc)]
         /\ \A i \in Id : i # id => waiters'[i] = q[i]
         /\ state'[current_process] = "BLOCKED"
         /\ \A r \in Proc : r # current_process =>
              /\ kernel_pc'[r] = kernel_pc[r] /\ call'[r] = call[r]
              /\ state'[r] \in Dead <=> st[r] \in Dead
              /\ state'[r] = "BLOCKED" <=> st[r] = "BLOCKED"
  <1>1. PICK p \in Proc : p = current_process
    BY CurrentLives
  <1>2. PICK st2 : st2 = [st EXCEPT ![p] = "BLOCKED"]
    OBVIOUS
  <1>3. /\ waiters' = [q EXCEPT ![id] = Append(q[id], p)]
        /\ kernel_pc' = [kernel_pc EXCEPT ![p] = pc]
        /\ call' = [call EXCEPT ![p] = args]
        /\ ProcessSchedule(st2, rq, delay_until, clock_ticks)
        /\ UNCHANGED <<clock_ticks, halted>>
    BY <1>1, <1>2 DEF BlockOnQueue, Linked
  <1>4. StatesSound(st2, current_process) /\ QueueSound(st2, rq, current_process)
    BY <1>1, <1>2, LeavesCPU
  <1>5. /\ kernel_pc' \in [Proc -> PC] /\ kernel_pc'[Idle] = "user"
        /\ clock_ticks' \in 0 .. Word - 1
    BY <1>1, <1>3, SchedAssumption DEF Undelayed, PC
  <1>6. /\ Undelayed(PC)'
        /\ \A r \in Proc : /\ state'[r] = "EMPTY" <=> st2[r] = "EMPTY"
                           /\ state'[r] = "ZOMBIE" <=> st2[r] = "ZOMBIE"
                           /\ state'[r] = "BLOCKED" <=> st2[r] = "BLOCKED"
    BY <1>3, <1>4, <1>5, UndelayedSchedule
  <1>7. \A r \in Proc : st2[r] = IF r = p THEN "BLOCKED" ELSE st[r]
    BY <1>2 DEF StatesSound
  <1>8. call' \in [Proc -> Call]
    BY <1>3 DEF ObjectsTyped, CallsTyped
  <1>9. /\ \A r \in Proc : r # p => kernel_pc'[r] = kernel_pc[r] /\ call'[r] = call[r]
        /\ kernel_pc'[p] = pc /\ call'[p] = args
    BY <1>3 DEF Undelayed, ObjectsTyped, CallsTyped
  <1>10. \A r \in Proc :
           /\ state'[r] = "BLOCKED" <=> (r = p \/ st[r] = "BLOCKED")
           /\ r # p => (state'[r] \in Dead <=> st[r] \in Dead)
    BY <1>6, <1>7 DEF Dead
  <1>11. Linked(state', kernel_pc', type, call', waiters')
    <2>1. PICK st3 : st3 = state'
      OBVIOUS
    <2>2. PICK pc3 : pc3 = kernel_pc'
      OBVIOUS
    <2>3. PICK cl3 : cl3 = call'
      OBVIOUS
    <2>4. PICK q3 : q3 = waiters'
      OBVIOUS
    <2>5. Pushes(st, kernel_pc, type, call, q, st3, pc3, cl3, q3, p, id)
      BY <1>1, <1>3, <1>9, <1>10, <2>1, <2>2, <2>3, <2>4 DEF Pushes
    <2>6. Linked(st3, pc3, type, cl3, q3)
      BY <2>5, LinkedPush
    <2> QED
      BY <2>1, <2>2, <2>3, <2>4, <2>6
  <1>12. waiters' \in [Id -> Seq(Proc)] /\ \A i \in Id : i # id => waiters'[i] = q[i]
    BY <1>3, <1>11 DEF Linked
  <1>13. CallsTyped'
    BY <1>8, <1>9 DEF ObjectsTyped, CallsTyped
  <1> QED
    BY <1>1, <1>6, <1>9, <1>10, <1>11, <1>12, <1>13 DEF QueuesLinked

----------------------------------------------------------------------------
(* The capacities PipeEnsureCapacity computes.                             *)

(* Every nonempty set of naturals has a least element: what stands for     *)
(* induction below.                                                        *)
LEMMA Least ==
  ASSUME NEW T \in SUBSET Nat, T # {}
  PROVE  \E x \in T : \A y \in T : x <= y
  <1>1. \E x \in T : \A y \in T : ~(<<y, x>> \in OpToRel(<, Nat))
    BY WFMin, NatLessThanWellFounded, Zenon
  <1>2. PICK x \in T : \A y \in T : ~(<<y, x>> \in OpToRel(<, Nat))
    BY <1>1, Zenon
  <1>3. ASSUME NEW y \in T, y < x
        PROVE  <<y, x>> \in OpToRel(<, Nat)
    BY <1>3 DEF OpToRel
  <1>4. \A y \in T : ~(y < x)
    BY <1>2, <1>3, Zenon
  <1> QED
    BY <1>4

(* The first n doublings of c.                                             *)
IsDoubling(f, c, n) == f = [k \in 0 .. n |-> IF k = 0 THEN c ELSE AsInt(2 * f[k - 1])]

LEMMA DoublingExists ==
  ASSUME NEW c, NEW n \in Nat
  PROVE  \E f : IsDoubling(f, c, n)
  <1> DEFINE T == {m \in Nat : ~ \E f : IsDoubling(f, c, m)}
  <1> SUFFICES ASSUME T # {}
               PROVE  FALSE
    OBVIOUS
  <1>1. PICK m \in T : \A y \in T : m <= y
    BY Least
  <1>2. m # 0
    <2> SUFFICES ASSUME m = 0
                 PROVE  FALSE
      OBVIOUS
    <2> DEFINE g == [k \in 0 .. 0 |-> c]
    <2>1. g = [k \in 0 .. 0 |-> IF k = 0 THEN c ELSE AsInt(2 * g[k - 1])]
      OBVIOUS
    <2>2. IsDoubling(g, c, 0)
      BY <2>1 DEF IsDoubling
    <2> QED
      BY <2>2
  <1>3. m - 1 \in Nat /\ m - 1 \notin T
    BY <1>1, <1>2
  <1>4. PICK f : IsDoubling(f, c, m - 1)
    BY <1>3
  <1> DEFINE g == [k \in 0 .. m |-> IF k = m THEN AsInt(2 * f[m - 1]) ELSE f[k]]
  <1>5. ASSUME NEW k \in 0 .. m
        PROVE  g[k] = IF k = 0 THEN c ELSE AsInt(2 * g[k - 1])
    <2>1. \A j \in 0 .. m - 1 : f[j] = IF j = 0 THEN c ELSE AsInt(2 * f[j - 1])
      BY <1>4 DEF IsDoubling
    <2>2. CASE k = m
      BY <1>2, <2>2
    <2>3. CASE k # m
      <3>1. k \in 0 .. m - 1 /\ g[k] = f[k]
        BY <2>3
      <3>2. k # 0 => g[k - 1] = f[k - 1]
        BY <2>3
      <3> HIDE DEF g
      <3> QED
        BY <2>1, <3>1, <3>2
    <2> QED
      BY <2>2, <2>3
  <1>6. IsDoubling(g, c, m)
    <2>1. g = [k \in 0 .. m |-> g[k]]
      OBVIOUS
    <2> HIDE DEF g
    <2> QED
      BY <1>5, <2>1 DEF IsDoubling
  <1> QED
    BY <1>6

LEMMA DoublingUnique ==
  ASSUME NEW c, NEW f, NEW g, NEW n \in Nat, NEW m \in Nat,
         IsDoubling(f, c, n), IsDoubling(g, c, m),
         NEW i \in Nat, i <= n, i <= m
  PROVE  f[i] = g[i]
  <1> DEFINE T == {k \in Nat : k <= n /\ k <= m /\ f[k] # g[k]}
  <1> SUFFICES ASSUME T # {}
               PROVE  FALSE
    OBVIOUS
  <1>1. PICK k \in T : \A y \in T : k <= y
    BY Least
  <1>2. /\ f[k] = IF k = 0 THEN c ELSE AsInt(2 * f[k - 1])
        /\ g[k] = IF k = 0 THEN c ELSE AsInt(2 * g[k - 1])
    BY <1>1 DEF IsDoubling
  <1>3. k # 0
    BY <1>1, <1>2
  <1>4. k - 1 \in Nat /\ k - 1 \notin T
    BY <1>1, <1>3
  <1>5. f[k - 1] = g[k - 1]
    BY <1>1, <1>4
  <1> QED
    BY <1>1, <1>2, <1>3, <1>5

(* Doubled is the function its recursive definition describes.             *)
LEMMA DoubledDef ==
  ASSUME NEW c
  PROVE  /\ Doubled(c)[0] = c
         /\ \A k \in Nat : Doubled(c)[k + 1] = AsInt(2 * Doubled(c)[k])
  <1> DEFINE path(n) == CHOOSE f : IsDoubling(f, c, n)
             g == [k \in Nat |-> path(k)[k]]
  <1>1. \A n \in Nat : IsDoubling(path(n), c, n)
    BY DoublingExists
  <1> HIDE DEF path
  <1>2. ASSUME NEW k \in Nat
        PROVE  g[k] = IF k = 0 THEN c ELSE AsInt(2 * g[k - 1])
    <2>1. path(k)[k] = IF k = 0 THEN c ELSE AsInt(2 * path(k)[k - 1])
      BY <1>1 DEF IsDoubling
    <2>2. CASE k = 0
      BY <2>1, <2>2
    <2>3. CASE k # 0
      <3>1. k - 1 \in Nat /\ k - 1 <= k
        BY <2>3
      <3>2. path(k)[k - 1] = path(k - 1)[k - 1]
        BY <3>1, <1>1, DoublingUnique
      <3> QED
        BY <2>1, <2>3, <3>1, <3>2
    <2> QED
      BY <2>2, <2>3
  <1>3. g = [k \in Nat |-> IF k = 0 THEN c ELSE AsInt(2 * g[k - 1])]
    <2>1. g = [k \in Nat |-> g[k]]
      OBVIOUS
    <2> HIDE DEF g
    <2> QED
      BY <1>2, <2>1
  <1> HIDE DEF g
  <1>4. \E f : f = [k \in Nat |-> IF k = 0 THEN c ELSE AsInt(2 * f[k - 1])]
    BY <1>3
  <1> DEFINE d == CHOOSE f : f = [k \in Nat |-> IF k = 0 THEN c ELSE AsInt(2 * f[k - 1])]
  <1>5. d = [k \in Nat |-> IF k = 0 THEN c ELSE AsInt(2 * d[k - 1])]
    BY <1>4
  <1>6. Doubled(c) = d
    BY DEF Doubled
  <1> HIDE DEF d
  <1>7. \A k \in Nat : d[k] = IF k = 0 THEN c ELSE AsInt(2 * d[k - 1])
    BY <1>5
  <1>8. \A k \in Nat : d[k + 1] = AsInt(2 * d[k])
    <2> TAKE k \in Nat
    <2>1. k + 1 \in Nat /\ k + 1 # 0 /\ (k + 1) - 1 = k
      OBVIOUS
    <2> QED
      BY <1>7, <2>1
  <1> QED
    BY <1>6, <1>7, <1>8

LEMMA CapacityType ==
  PIPE_BUFFER_LEN \in Capacity /\ Capacity \subseteq Nat \ {0}
  BY IpcAssumption DEF Capacity

(* What fits into an int.                                                  *)
IsInt(n) == n \in Int /\ n <= INT_MAX /\ -(INT_MAX + 1) <= n

(* Doubling an int gives an int, and the right one if there is one.        *)
LEMMA AsIntType ==
  ASSUME NEW n \in Int
  PROVE  /\ IsInt(n) => IsInt(AsInt(2 * n))
         /\ IsInt(n) => AsInt(n) = n
  <1>1. INT_MAX \in Nat
    BY IpcAssumption
  <1> QED
    BY <1>1 DEF IsInt, AsInt

(* new_cap is an int however often it is doubled.                          *)
LEMMA DoubledType ==
  ASSUME NEW c, IsInt(c), NEW k \in Nat
  PROVE  IsInt(Doubled(c)[k])
  <1> DEFINE d == Doubled(c)
             T == {n \in Nat : ~IsInt(d[n])}
  <1>1. d[0] = c /\ \A n \in Nat : d[n + 1] = AsInt(2 * d[n])
    BY DoubledDef
  <1> HIDE DEF d
  <1> SUFFICES ASSUME T # {}
               PROVE  FALSE
    BY DEF d
  <1>2. PICK n \in T : \A y \in T : n <= y
    BY Least
  <1>3. n # 0
    BY <1>1, <1>2
  <1>4. n - 1 \in Nat /\ n - 1 \notin T /\ (n - 1) + 1 = n
    BY <1>2, <1>3
  <1>5. PICK x : x = d[n - 1]
    OBVIOUS
  <1>6. IsInt(x) /\ x \in Int
    BY <1>4, <1>5 DEF IsInt
  <1>7. d[n] = AsInt(2 * x)
    BY <1>1, <1>4, <1>5
  <1> QED
    BY <1>2, <1>6, <1>7, AsIntType

(* As long as it is below a size of at most half the range of int, new_cap *)
(* really grows.                                                           *)
LEMMA DoubledGrows ==
  ASSUME NEW c \in Capacity, NEW needed \in Nat, 2 * needed <= INT_MAX + 1, NEW k \in Nat,
         \A j \in 0 .. k - 1 : ~(Doubled(c)[j] >= needed)
  PROVE  Doubled(c)[k] \in Nat /\ Doubled(c)[k] >= k + 1
  <1> DEFINE d == Doubled(c)
             T == {n \in Nat : n <= k /\ ~(d[n] \in Nat /\ d[n] >= n + 1)}
  <1>1. d[0] = c /\ \A n \in Nat : d[n + 1] = AsInt(2 * d[n])
    BY DoubledDef
  <1>2. INT_MAX \in Nat /\ c \in Nat /\ c >= 1
    BY IpcAssumption DEF Capacity
  <1>3. \A j \in 0 .. k - 1 : ~(d[j] >= needed)
    OBVIOUS
  <1> HIDE DEF d
  <1> SUFFICES ASSUME T # {}
               PROVE  FALSE
    BY DEF d
  <1>4. PICK n \in T : \A y \in T : n <= y
    BY Least
  <1>5. n # 0
    BY <1>1, <1>2, <1>4
  <1>6. n - 1 \in Nat /\ n - 1 \notin T /\ (n - 1) + 1 = n /\ n - 1 \in 0 .. k - 1
    BY <1>4, <1>5
  <1>7. PICK x : x = d[n - 1]
    OBVIOUS
  <1>8. x \in Nat /\ x >= n /\ ~(x >= needed)
    BY <1>3, <1>4, <1>6, <1>7
  <1>9. d[n] = AsInt(2 * x)
    BY <1>1, <1>6, <1>7
  <1>10. 2 * x \in Nat /\ 2 * x <= INT_MAX /\ 2 * x >= n + 1
    BY <1>2, <1>5, <1>6, <1>8
  <1>11. d[n] = 2 * x
    BY <1>2, <1>9, <1>10 DEF AsInt
  <1> QED
    BY <1>4, <1>10, <1>11

(* The loop of PipeEnsureCapacity ends if at most half the range of int is *)
(* asked for.                                                              *)
LEMMA GrowthEnds ==
  ASSUME NEW c \in Capacity, NEW needed \in Nat, 2 * needed <= INT_MAX + 1
  PROVE  Rounds(c, needed) # {}
  <1>1. INT_MAX \in Nat /\ INT_MAX + 1 \in Nat
    BY IpcAssumption
  <1>2. PICK k : k = INT_MAX + 1
    OBVIOUS
  <1>3. k \in Nat /\ k \in 0 .. INT_MAX + 1
    BY <1>1, <1>2
  <1> SUFFICES ASSUME Rounds(c, needed) = {}
               PROVE  FALSE
    OBVIOUS
  <1>4. \A j \in 0 .. INT_MAX + 1 : ~(Doubled(c)[j] >= needed)
    BY DEF Rounds
  <1>5. \A j \in 0 .. k - 1 : ~(Doubled(c)[j] >= needed)
    BY <1>1, <1>2, <1>4
  <1>6. Doubled(c)[k] \in Nat /\ Doubled(c)[k] >= k + 1
    BY <1>3, <1>5, DoubledGrows
  <1> QED
    BY <1>1, <1>2, <1>3, <1>4, <1>6

(* When it ends, new_cap is an int that is large enough for what the loop  *)
(* was asked for.                                                          *)
LEMMA CapacityEnsured ==
  ASSUME NEW c \in Capacity, NEW needed, Rounds(c, needed) # {}
  PROVE  /\ IsInt(PipeEnsureCapacity(c, needed))
         /\ PipeEnsureCapacity(c, needed) >= needed
  <1>1. PICK T : T = Rounds(c, needed)
    OBVIOUS
  <1>2. T \in SUBSET Nat /\ T # {} /\ \A k \in T : Doubled(c)[k] >= needed
    BY <1>1, IpcAssumption DEF Rounds
  <1>3. \E k \in T : \A j \in T : k <= j
    BY <1>2, Least
  <1>4. PICK k \in T : PipeEnsureCapacity(c, needed) = Doubled(c)[k]
    BY <1>1, <1>3 DEF PipeEnsureCapacity
  <1>5. IsInt(c)
    BY IpcAssumption DEF Capacity, IsInt
  <1> QED
    BY <1>2, <1>4, <1>5, DoubledType

(* What SysPipeWrite asks for and what it gets: a write is lost only to an *)
(* overflow.                                                               *)
LEMMA AskedAndGot ==
  ASSUME NEW c \in Capacity, NEW asked \in Nat, NEW new_cap,
         new_cap = PipeEnsureCapacity(c, AsInt(asked))
  PROVE  /\ Rounds(c, AsInt(asked)) # {} /\ asked <= new_cap /\ asked # 0 =>
              new_cap \in Capacity
         /\ Rounds(c, AsInt(asked)) # {} /\ asked > new_cap => asked > INT_MAX
         /\ Rounds(c, AsInt(asked)) = {} => 2 * asked > INT_MAX + 1
  <1>1. INT_MAX \in Nat
    BY IpcAssumption
  <1>2. ASSUME Rounds(c, AsInt(asked)) # {}
        PROVE  IsInt(new_cap) /\ new_cap >= AsInt(asked)
    <2>1. PICK needed : needed = AsInt(asked)
      OBVIOUS
    <2> QED
      BY <1>2, <2>1, CapacityEnsured
  <1>3. asked <= INT_MAX => AsInt(asked) = asked
    BY <1>1 DEF AsInt
  <1>4. Rounds(c, AsInt(asked)) # {} /\ asked <= new_cap /\ asked # 0 =>
          new_cap \in Capacity
    BY <1>1, <1>2 DEF IsInt, Capacity
  <1>5. Rounds(c, AsInt(asked)) # {} /\ asked > new_cap => asked > INT_MAX
    BY <1>1, <1>2, <1>3 DEF IsInt
  <1>6. ASSUME ~(2 * asked > INT_MAX + 1)
        PROVE  Rounds(c, AsInt(asked)) # {}
    <2>1. 2 * asked <= INT_MAX + 1 /\ asked <= INT_MAX
      BY <1>1, <1>6
    <2> QED
      BY <1>3, <2>1, GrowthEnds
  <1> QED
    BY <1>4, <1>5, <1>6

----------------------------------------------------------------------------
(* What PipeRead leaves in the buffer.                                     *)

(* Copied from the highest byte down, byte i of the result is one of the   *)
(* last count bytes of the buffer.                                         *)
LEMMA CopiedFrom ==
  ASSUME NEW n \in Nat, NEW count \in Nat \ {0}, NEW i \in 1 .. n
  PROVE  \E j \in n + 1 .. n + count : \E m \in 1 .. n : j = i + m * count
  <1> DEFINE T == {m \in Nat : i + m * count > n}
  <1>1. n * count >= n /\ n * count \in Nat
    <2>1. \A a, b \in Nat : a * b \in Nat
      OBVIOUS
    <2>2. PICK e \in Nat : count = e + 1
      <3>1. count - 1 \in Nat /\ count = (count - 1) + 1
        OBVIOUS
      <3> QED
        BY <3>1
    <2>3. n * (e + 1) = n * e + n
      OBVIOUS
    <2>4. n * e \in Nat
      BY <2>1
    <2> QED
      BY <2>2, <2>3, <2>4
  <1>2. n \in T
    BY <1>1
  <1>3. PICK m \in T : \A y \in T : m <= y
    BY <1>2, Least
  <1>4. m \in Nat /\ m <= n /\ i + m * count > n
    BY <1>2, <1>3
  <1>5. m # 0
    BY <1>4
  <1>6. PICK k \in Nat : m = k + 1
    <2>1. m - 1 \in Nat /\ m = (m - 1) + 1
      BY <1>4, <1>5
    <2> QED
      BY <2>1
  <1>7. ~(i + k * count > n)
    BY <1>3, <1>6
  <1>8. m * count = k * count + count /\ k * count \in Nat
    BY <1>6
  <1>9. i + m * count \in n + 1 .. n + count /\ m \in 1 .. n
    BY <1>4, <1>5, <1>7, <1>8
  <1> QED
    BY <1>9

LEMMA ShiftedType ==
  ASSUME NEW S, NEW b \in Seq(S), NEW count \in 1 .. Len(b),
         NEW order \in {"ascending", "descending"}
  PROVE  /\ Shifted(b, count, order) \in Seq(S)
         /\ Len(Shifted(b, count, order)) = Len(b) - count
         /\ order = "ascending" => \A i \in 1 .. Len(b) - count :
              Shifted(b, count, order)[i] = b[i + count]
  <1> DEFINE n == Len(b) - count
             from(i) == IF order = "ascending" THEN i + count
                        ELSE CHOOSE j \in n + 1 .. n + count :
                               \E m \in 1 .. n : j = i + m * count
  <1>1. Len(b) \in Nat /\ n \in Nat /\ count \in Nat \ {0} /\ n + count = Len(b)
    BY LenProperties
  <1>2. \A i \in 1 .. n : from(i) \in 1 .. Len(b)
    <2> TAKE i \in 1 .. n
    <2> HIDE DEF n
    <2>1. CASE order = "ascending"
      BY <2>1, <1>1
    <2>2. CASE order # "ascending"
      <3> DEFINE Src(j) == \E m \in 1 .. n : j = i + m * count
      <3>1. \E j \in n + 1 .. n + count : Src(j)
        BY <1>1, CopiedFrom
      <3> HIDE DEF Src
      <3>2. (CHOOSE j \in n + 1 .. n + count : Src(j)) \in n + 1 .. n + count
        BY <3>1
      <3>3. from(i) \in n + 1 .. n + count
        BY <3>2, <2>2 DEF Src
      <3> QED
        BY <3>3, <1>1
    <2> QED
      BY <2>1, <2>2
  <1>3. Shifted(b, count, order) = [i \in 1 .. n |-> b[from(i)]]
    BY DEF Shifted
  <1> HIDE DEF from, n
  <1>4. \A i \in 1 .. n : b[from(i)] \in S
    BY <1>2, ElementOfSeq
  <1>5. PICK s : s = [i \in 1 .. n |-> b[from(i)]]
    OBVIOUS
  <1>6. s \in [1 .. n -> S]
    BY <1>4, <1>5
  <1>7. s \in Seq(S) /\ Len(s) = n
    BY <1>1, <1>6, FunctionSeq
  <1>8. order = "ascending" => \A i \in 1 .. n : s[i] = b[i + count]
    BY <1>5 DEF from
  <1> QED
    BY <1>3, <1>5, <1>7, <1>8 DEF n

----------------------------------------------------------------------------
(* IpcInv, one lemma per handler.                                          *)

LEMMA ClockKeeps ==
  ASSUME IpcInv, Clock
  PROVE  IpcInv'
  <1>1. /\ TrapClock
        /\ UNCHANGED <<type, owner, waiters, buf, cap, call, holds, sent, delivered>>
    BY DEF Clock, ipcVars, objectVars, historyVars
  <1>2. Undelayed(PC) /\ ObjectsTyped /\ QueuesLinked /\ LockSound /\ PipesInv
    BY DEF IpcInv, ObjectsInv
  <1>3. /\ Undelayed(PC)'
        /\ UNCHANGED kernel_pc
        /\ \A p \in Proc : /\ state'[p] = "EMPTY" <=> state[p] = "EMPTY"
                           /\ state'[p] = "ZOMBIE" <=> state[p] = "ZOMBIE"
                           /\ state'[p] = "BLOCKED" <=> state[p] = "BLOCKED"
    BY <1>1, <1>2, UndelayedClock
  <1>4. Linked(state', kernel_pc', type', call', waiters)
    <2>1. \A p \in Proc : call'[p].id \in Id
      BY <1>1, <1>2 DEF ObjectsTyped, CallsTyped, Call
    <2> QED
      BY <1>1, <1>2, <1>3, <2>1, LinkedSame DEF QueuesLinked
  <1>5. LockSound'
    BY <1>1, <1>2, <1>3, LocksSame DEF Dead
  <1>6. PipesInv'
    BY <1>1, <1>2, PipesSame
  <1>7. ObjectsTyped'
    BY <1>1, <1>2, <1>3 DEF ObjectsTyped, CallsTyped
  <1> QED
    BY <1>1, <1>3, <1>4, <1>5, <1>6, <1>7 DEF IpcInv, ObjectsInv, QueuesLinked

(* A free slot has no waiters.                                             *)
LEMMA FreeUnwaited ==
  ASSUME Undelayed(PC), ObjectsTyped, QueuesLinked, NEW id \in Id, type[id] = "FREE"
  PROVE  waiters[id] = <<>>
  <1> SUFFICES ASSUME NEW r \in Range(waiters[id])
               PROVE  FALSE
    BY EmptyRange DEF ObjectsTyped
  <1>1. r \in Proc
    BY RangeOfSeq DEF ObjectsTyped
  <1>2. kernel_pc[r] \in Sleeps /\ type[id] = WaitsFor(kernel_pc[r])
    BY DEF QueuesLinked, Linked
  <1> QED
    BY <1>2 DEF WaitsFor, Sleeps

LEMMA AllocKeeps ==
  ASSUME IpcInv, NEW kind \in {"PIPE", "LOCK", "CVAR"}, AllocObject(kind)
  PROVE  IpcInv'
  <1>1. PICK id \in Id :
          /\ type[id] = "FREE"
          /\ type' = [type EXCEPT ![id] = kind]
          /\ owner' = [owner EXCEPT ![id] = NULL]
          /\ waiters' = [waiters EXCEPT ![id] = <<>>]
          /\ buf' = [buf EXCEPT ![id] = <<>>]
          /\ cap' = [cap EXCEPT ![id] = IF kind = "PIPE" THEN PIPE_BUFFER_LEN ELSE 0]
          /\ sent' = [sent EXCEPT ![id] = 0]
          /\ delivered' = [delivered EXCEPT ![id] = <<>>]
    BY DEF AllocObject
  <1>2. UNCHANGED <<state, ready_queue, current_process, clock_ticks, delay_until,
                    kernel_pc, halted, call, holds>>
    BY DEF AllocObject, schedVars
  <1>3. Undelayed(PC) /\ ObjectsTyped /\ QueuesLinked /\ LockSound /\ PipesInv
    BY DEF IpcInv, ObjectsInv
  <1>4. waiters[id] = <<>> /\ waiters' = waiters
    BY <1>1, <1>3, FreeUnwaited DEF ObjectsTyped
  <1>5. Undelayed(PC)'
    BY <1>2, <1>3, UndelayedReturn DEF Undelayed
  <1>6. /\ type' \in [Id -> Kind] /\ owner' \in [Id -> Proc \cup {NULL}]
        /\ type'[id] = kind /\ owner'[id] = NULL
        /\ \A i \in Id : i # id => type'[i] = type[i] /\ owner'[i] = owner[i]
    BY <1>1, <1>3 DEF ObjectsTyped, Kind
  <1>7. ObjectsTyped'
    BY <1>2, <1>3, <1>4, <1>6 DEF ObjectsTyped, CallsTyped
  <1>8. Linked(state', kernel_pc', type', call', waiters)
    <2>1. \A p \in Proc : call'[p].id \in Id
      BY <1>2, <1>3 DEF ObjectsTyped, CallsTyped, Call
    <2>2. \A i \in Id : waiters[i] # <<>> => type'[i] = type[i]
      BY <1>4, <1>6
    <2> QED
      BY <1>2, <1>3, <2>1, <2>2, LinkedSame DEF QueuesLinked
  <1>9. LockSound'
    <2>1. \A p \in Proc : id \notin holds[p]
      BY <1>1, <1>3 DEF LockSound
    <2>2. \A p \in Proc : \A i \in holds[p] : i \in Id /\ type'[i] = "LOCK" /\ owner'[i] = p
      BY <1>3, <1>6, <2>1 DEF LockSound, ObjectsTyped
    <2>3. \A i \in Id : type'[i] = "LOCK" /\ i # id =>
            type[i] = "LOCK" /\ owner'[i] = owner[i] /\ waiters'[i] = waiters[i]
      BY <1>4, <1>6
    <2> QED
      BY <1>2, <1>3, <1>4, <1>6, <2>2, <2>3 DEF LockSound
  <1>10. PipesInv'
    <2>1. <<>> \in Seq(1 .. MaxBytes) /\ Len(<<>>) = 0 /\ 0 \in 0 .. MaxBytes
      BY EmptySeq, IpcAssumption
    <2>2. PipesTyped'
      BY <1>1, <1>3, <2>1, CapacityType DEF PipesInv, PipesTyped
    <2>3. /\ buf'[id] = <<>> /\ sent'[id] = 0 /\ delivered'[id] = <<>>
          /\ kind = "PIPE" => cap'[id] = PIPE_BUFFER_LEN
          /\ \A i \in Id : i # id =>
               /\ type'[i] = type[i] /\ buf'[i] = buf[i] /\ cap'[i] = cap[i]
               /\ sent'[i] = sent[i] /\ delivered'[i] = delivered[i]
      BY <1>1, <1>3, <1>6 DEF PipesInv, PipesTyped
    <2>4. PipesSized'
      <3> SUFFICES ASSUME NEW i \in Id, type'[i] = "PIPE"
                   PROVE  /\ cap'[i] \in Capacity
                          /\ Len(buf'[i]) <= cap'[i]
                          /\ Len(delivered'[i]) + Len(buf'[i]) = sent'[i]
        BY DEF PipesSized
      <3>1. CASE i = id
        BY <3>1, <1>6, <2>1, <2>3, CapacityType, IpcAssumption
      <3>2. CASE i # id
        BY <3>2, <2>3, <1>3 DEF PipesInv, PipesSized
      <3> QED
        BY <3>1, <3>2
    <2>5. NoLostReader'
      BY <1>3, <1>4, <2>3 DEF NoLostReader, PipesInv
    <2> QED
      BY <2>2, <2>4, <2>5 DEF PipesInv
  <1> QED
    BY <1>4, <1>5, <1>7, <1>8, <1>9, <1>10 DEF IpcInv, ObjectsInv, QueuesLinked

LEMMA ReclaimKeeps ==
  ASSUME IpcInv, NEW id \in Id, SysReclaim(id)
  PROVE  IpcInv'
  <1>1. /\ type[id] # "FREE" /\ waiters[id] = <<>>
        /\ type[id] = "LOCK" => owner[id] = NULL
        /\ type' = [type EXCEPT ![id] = "FREE"]
        /\ buf' = [buf EXCEPT ![id] = <<>>]
        /\ cap' = [cap EXCEPT ![id] = 0]
        /\ sent' = [sent EXCEPT ![id] = 0]
        /\ delivered' = [delivered EXCEPT ![id] = <<>>]
    BY DEF SysReclaim, Reclaimable
  <1>2. UNCHANGED <<state, ready_queue, current_process, clock_ticks, delay_until,
                    kernel_pc, halted, owner, waiters, call, holds>>
    BY DEF SysReclaim, schedVars
  <1>3. Undelayed(PC) /\ ObjectsTyped /\ QueuesLinked /\ LockSound /\ PipesInv
    BY DEF IpcInv, ObjectsInv
  <1>4. Undelayed(PC)'
    BY <1>2, <1>3, UndelayedReturn DEF Undelayed
  <1>5. /\ type' \in [Id -> Kind] /\ type'[id] = "FREE"
        /\ \A i \in Id : i # id => type'[i] = type[i]
    BY <1>1, <1>3 DEF ObjectsTyped, Kind
  <1>6. ObjectsTyped'
    BY <1>2, <1>3, <1>5 DEF ObjectsTyped, CallsTyped
  <1>7. Linked(state', kernel_pc', type', call', waiters)
    <2>1. \A p \in Proc : call'[p].id \in Id
      BY <1>2, <1>3 DEF ObjectsTyped, CallsTyped, Call
    <2>2. \A i \in Id : waiters[i] # <<>> => type'[i] = type[i]
      BY <1>1, <1>5
    <2> QED
      BY <1>2, <1>3, <2>1, <2>2, LinkedSame DEF QueuesLinked
  <1>8. LockSound'
    <2>1. \A p \in Proc : id \notin holds[p]
      BY <1>1, <1>3, IpcAssumption DEF LockSound
    <2>2. \A p \in Proc : \A i \in holds[p] : i \in Id /\ type'[i] = "LOCK" /\ owner'[i] = p
      BY <1>2, <1>3, <1>5, <2>1 DEF LockSound, ObjectsTyped
    <2>3. \A i \in Id : type'[i] = "LOCK" => type[i] = "LOCK"
      BY <1>5
    <2> QED
      BY <1>2, <1>3, <2>2, <2>3 DEF LockSound
  <1>9. PipesInv'
    <2>1. <<>> \in Seq(1 .. MaxBytes) /\ 0 \in 0 .. MaxBytes
      BY EmptySeq, IpcAssumption
    <2>2. PipesTyped'
      BY <1>1, <1>3, <2>1 DEF PipesInv, PipesTyped
    <2>3. \A i \in Id : i # id =>
            /\ type'[i] = type[i] /\ buf'[i] = buf[i] /\ cap'[i] = cap[i]
            /\ sent'[i] = sent[i] /\ delivered'[i] = delivered[i]
      BY <1>1, <1>3, <1>5 DEF PipesInv, PipesTyped
    <2>4. \A i \in Id : type'[i] = "PIPE" => i # id
      BY <1>5
    <2>5. PipesSized' /\ NoLostReader'
      BY <1>2, <1>3, <2>3, <2>4 DEF PipesInv, PipesSized, NoLostReader
    <2> QED
      BY <2>2, <2>5 DEF PipesInv
  <1> QED
    BY <1>2, <1>4, <1>6, <1>7, <1>8, <1>9 DEF IpcInv, ObjectsInv, QueuesLinked

(* The current process blocks in PipeRead or LockAcquire, and nothing else *)
(* happens.                                                                *)
LEMMA CallBlocks ==
  ASSUME IpcInv, current_process # Idle,
         NEW id \in Id, NEW pc \in Sleeps, NEW args \in Call, args.id = id,
         pc = "pipe_read" => args.len # 0,
         type[id] = WaitsFor(pc),
         BlockOnQueue(current_process, id, pc, args, state, ready_queue, waiters),
         UNCHANGED <<type, owner, buf, cap, historyVars>>,
         type[id] = "PIPE" => buf[id] = <<>>,
         type[id] = "LOCK" => owner[id] # NULL,
         kernel_pc[current_process] = "acquire" =>
           owner[call[current_process].id] # current_process
  PROVE  IpcInv'
  <1>1. Undelayed(PC) /\ ObjectsTyped /\ QueuesLinked /\ LockSound /\ PipesInv
    BY DEF IpcInv, ObjectsInv
  <1>2. UNCHANGED <<holds, sent, delivered>>
    BY DEF historyVars
  <1>3. /\ Undelayed(PC)'
        /\ QueuesLinked'
        /\ CallsTyped'
        /\ waiters' \in [Id -> Seq(Proc)]
        /\ \A i \in Id : i # id => waiters'[i] = waiters[i]
        /\ state'[current_process] = "BLOCKED"
        /\ \A r \in Proc : r # current_process =>
             /\ kernel_pc'[r] = kernel_pc[r] /\ call'[r] = call[r]
             /\ state'[r] \in Dead <=> state[r] \in Dead
             /\ state'[r] = "BLOCKED" <=> state[r] = "BLOCKED"
    BY <1>1, UndelayedGives, CurrentLives, BlockKeeps DEF QueuesLinked
  <1>4. ObjectsTyped'
    BY <1>1, <1>2, <1>3 DEF ObjectsTyped
  <1>5. LockSound'
    <2>1. \A p \in Proc : state'[p] \in Dead <=> state[p] \in Dead
      BY <1>1, <1>3, CurrentLives DEF Dead
    <2>2. \A i \in Id : type[i] = "LOCK" /\ waiters'[i] # <<>> =>
            waiters[i] # <<>> \/ owner[i] # NULL
      BY <1>3
    <2>3. \A p \in Proc :
            /\ kernel_pc[p] = "acquire"
            /\ state[p] # "BLOCKED"
            /\ owner[call[p].id] = p
            => /\ kernel_pc'[p] = "acquire"
               /\ state'[p] # "BLOCKED"
               /\ call'[p] = call[p]
      BY <1>3
    <2> QED
      BY <1>1, <1>2, <2>1, <2>2, <2>3, LocksSame
  <1>6. PipesInv'
    BY <1>1, <1>2, <1>3, PipesSame
  <1> QED
    BY <1>3, <1>4, <1>5, <1>6 DEF IpcInv, ObjectsInv

(* The rest of the invariant when a call returns that owned no lock on the *)
(* strength of being in LockAcquire.                                       *)
LEMMA ReturnFromNoLock ==
  ASSUME Undelayed(PC), ObjectsTyped, QueuesLinked, LockSound, Returns(current_process),
         UNCHANGED <<state, ready_queue, current_process, clock_ticks, delay_until,
                     halted, type, owner, waiters, holds>>,
         kernel_pc[current_process] # "acquire"
  PROVE  Undelayed(PC)' /\ ObjectsInv'
  <1>1. /\ Undelayed(PC)' /\ QueuesLinked' /\ CallsTyped'
        /\ \A r \in Proc : r # current_process =>
             kernel_pc'[r] = kernel_pc[r] /\ call'[r] = call[r]
    BY ReturnKeeps
  <1>2. ObjectsTyped'
    BY <1>1 DEF ObjectsTyped
  <1>3. LockSound'
    BY <1>1, LocksSame
  <1> QED
    BY <1>1, <1>2, <1>3 DEF ObjectsInv

(* What PipeRead takes, and what it leaves.                                *)
LEMMA TakeSplits ==
  ASSUME NEW S, NEW b \in Seq(S), b # <<>>, NEW len \in Nat \ {0},
         NEW order \in {"ascending", "descending"}
  PROVE  LET count == IF Len(b) > len THEN len ELSE Len(b)
         IN  /\ count \in 1 .. Len(b)
             /\ SubSeq(b, 1, count) \in Seq(S)
             /\ Len(SubSeq(b, 1, count)) = count
             /\ Shifted(b, count, order) \in Seq(S)
             /\ Len(Shifted(b, count, order)) = Len(b) - count
  <1>1. Len(b) \in Nat \ {0}
    BY LenProperties, EmptySeq
  <1>2. PICK count : count = IF Len(b) > len THEN len ELSE Len(b)
    OBVIOUS
  <1>3. count \in 1 .. Len(b)
    BY <1>1, <1>2
  <1>4. SubSeq(b, 1, count) \in Seq(S) /\ Len(SubSeq(b, 1, count)) = count
    BY <1>1, <1>3, SubSeqProperties
  <1>5. /\ Shifted(b, count, order) \in Seq(S)
        /\ Len(Shifted(b, count, order)) = Len(b) - count
    BY <1>3, ShiftedType
  <1> QED
    BY <1>2, <1>3, <1>4, <1>5

LEMMA PipeTakeKeeps ==
  ASSUME IpcInv, NEW id \in Id, NEW len \in 1 .. MaxLen, type[id] = "PIPE",
         kernel_pc[current_process] \in {"user", "pipe_read"},
         PipeTake(current_process, id, len)
  PROVE  IpcInv'
  <1>1. Undelayed(PC) /\ ObjectsTyped /\ QueuesLinked /\ LockSound /\ PipesInv
    BY DEF IpcInv, ObjectsInv
  <1> DEFINE count == IF Len(buf[id]) > len THEN len ELSE Len(buf[id])
  <1>2. PICK order \in CopyOrders :
          /\ buf[id] # <<>>
          /\ buf' = [buf EXCEPT ![id] = Shifted(buf[id], count, order)]
          /\ delivered' = [delivered EXCEPT
                             ![id] = delivered[id] \o SubSeq(buf[id], 1, count)]
          /\ Returns(current_process)
          /\ UNCHANGED <<state, ready_queue, current_process, clock_ticks,
                         delay_until, halted, type, owner, waiters, cap, holds, sent>>
    BY <1>1 DEF PipeTake, PipesInv, PipesTyped
  <1>3. Undelayed(PC)' /\ ObjectsInv'
    BY <1>1, <1>2, ReturnFromNoLock
  <1>4. PICK b : b = buf[id]
    OBVIOUS
  <1>5. PICK d : d = delivered[id]
    OBVIOUS
  <1>6. b \in Seq(1 .. MaxBytes) /\ d \in Seq(1 .. MaxBytes)
    BY <1>1, <1>4, <1>5 DEF PipesInv, PipesTyped
  <1>7. PICK n : n = count
    OBVIOUS
  <1>8. /\ n \in 1 .. Len(b)
        /\ SubSeq(b, 1, n) \in Seq(1 .. MaxBytes)
        /\ Len(SubSeq(b, 1, n)) = n
        /\ Shifted(b, n, order) \in Seq(1 .. MaxBytes)
        /\ Len(Shifted(b, n, order)) = Len(b) - n
    <2>1. order \in {"ascending", "descending"} /\ len \in Nat \ {0} /\ b # <<>>
      BY <1>2, <1>4, IpcAssumption
    <2>2. n = IF Len(b) > len THEN len ELSE Len(b)
      BY <1>4, <1>7
    <2> HIDE DEF count
    <2> QED
      BY <1>6, <2>1, <2>2, TakeSplits
  <1>9. PICK left : left = Shifted(b, n, order)
    OBVIOUS
  <1>10. PICK given : given = SubSeq(b, 1, n)
    OBVIOUS
  <1>11. /\ buf' = [buf EXCEPT ![id] = left]
         /\ delivered' = [delivered EXCEPT ![id] = d \o given]
    BY <1>2, <1>4, <1>5, <1>7, <1>9, <1>10
  <1> HIDE DEF count
  <1>12. /\ d \o given \in Seq(1 .. MaxBytes)
         /\ Len(d \o given) = Len(d) + n
         /\ left \in Seq(1 .. MaxBytes) /\ Len(left) = Len(b) - n
    <2>1. /\ d \in Seq(1 .. MaxBytes) /\ given \in Seq(1 .. MaxBytes)
          /\ Len(given) = n
      BY <1>6, <1>8, <1>10
    <2>2. d \o given \in Seq(1 .. MaxBytes) /\ Len(d \o given) = Len(d) + Len(given)
      BY <2>1, ConcatProperties
    <2> QED
      BY <1>8, <1>9, <2>1, <2>2
  <1>13. PipesTyped'
    BY <1>1, <1>2, <1>11, <1>12 DEF PipesInv, PipesTyped
  <1>14. /\ buf'[id] = left /\ delivered'[id] = d \o given
         /\ \A i \in Id : i # id => buf'[i] = buf[i] /\ delivered'[i] = delivered[i]
    BY <1>1, <1>11 DEF PipesInv, PipesTyped
  <1>15. PipesSized'
    <2> SUFFICES ASSUME NEW i \in Id, type[i] = "PIPE"
                 PROVE  /\ cap[i] \in Capacity
                        /\ Len(buf'[i]) <= cap[i]
                        /\ Len(delivered'[i]) + Len(buf'[i]) = sent[i]
      BY <1>2 DEF PipesSized
    <2>1. /\ cap[i] \in Capacity /\ cap[i] \in Nat
          /\ Len(buf[i]) <= cap[i]
          /\ Len(delivered[i]) + Len(buf[i]) = sent[i]
      BY <1>1, CapacityType DEF PipesInv, PipesSized
    <2>2. CASE i = id
      <3>1. Len(b) \in Nat /\ Len(d) \in Nat /\ n \in Nat
        BY <1>6, <1>8, LenProperties
      <3>2. Len(b) <= cap[i] /\ Len(d) + Len(b) = sent[i]
        BY <1>4, <1>5, <2>1, <2>2
      <3>3. /\ Len(buf'[i]) = Len(b) - n
            /\ Len(delivered'[i]) = Len(d) + n
        BY <1>12, <1>14, <2>2
      <3> QED
        BY <2>1, <3>1, <3>2, <3>3
    <2>3. CASE i # id
      BY <2>1, <2>3, <1>14
    <2> QED
      BY <2>2, <2>3
  <1>16. NoLostReader'
    BY <1>1, <1>2, <1>14 DEF PipesInv, NoLostReader
  <1> QED
    BY <1>3, <1>13, <1>15, <1>16 DEF IpcInv, PipesInv

LEMMA PipeLoopKeeps ==
  ASSUME IpcInv, NEW id \in Id, NEW len \in 1 .. MaxLen, type[id] = "PIPE",
         current_process # Idle,
         kernel_pc[current_process] \in {"user", "pipe_read"},
         PipeLoop(current_process, id, len)
  PROVE  IpcInv'
  <1>1. CASE PipeTake(current_process, id, len)
    BY <1>1, PipeTakeKeeps
  <1>2. CASE PipeBlock(current_process, id, len)
    <2>1. PICK args : args = [NoCall EXCEPT !.id = id, !.len = len]
      OBVIOUS
    <2>2. args \in Call /\ args.id = id /\ args.len # 0
      <3>1. args = [id |-> id, lock |-> 0, len |-> len]
        BY <2>1 DEF NoCall
      <3>2. 0 \in Id /\ len \in 0 .. MaxLen /\ len # 0
        BY IpcAssumption DEF Id
      <3> QED
        BY <3>1, <3>2 DEF Call
    <2>3. /\ buf[id] = <<>>
          /\ BlockOnQueue(current_process, id, "pipe_read", args, state, ready_queue,
                          waiters)
          /\ UNCHANGED <<type, owner, buf, cap, historyVars>>
      BY <1>2, <2>1 DEF PipeBlock
    <2>4. type[id] = WaitsFor("pipe_read") /\ "pipe_read" \in Sleeps
      BY DEF WaitsFor, Sleeps
    <2> QED
      BY <2>2, <2>3, <2>4, CallBlocks
  <1> QED
    BY <1>1, <1>2 DEF PipeLoop

LEMMA PipeReadKeeps ==
  ASSUME IpcInv, NEW id \in Id, NEW len \in 1 .. MaxLen, SysPipeRead(id, len)
  PROVE  IpcInv'
  BY PipeLoopKeeps DEF SysPipeRead, CanCall, InUserMode

LEMMA PipeReadResumedKeeps ==
  ASSUME IpcInv, NEW p \in Proc, SysPipeReadResumed(p)
  PROVE  IpcInv'
  <1>1. /\ p = current_process /\ kernel_pc[p] = "pipe_read"
        /\ type[call[p].id] = "PIPE" /\ PipeLoop(p, call[p].id, call[p].len)
    BY DEF SysPipeReadResumed, Running
  <1>2. /\ call[p] \in Call /\ call[p].len # 0 /\ kernel_pc[Idle] = "user"
    BY <1>1 DEF IpcInv, Undelayed, ObjectsInv, ObjectsTyped, CallsTyped
  <1>3. call[p].id \in Id /\ call[p].len \in 1 .. MaxLen /\ p # Idle
    BY <1>1, <1>2, IpcAssumption DEF Call
  <1> QED
    BY <1>1, <1>3, PipeLoopKeeps

(* A write that the buffer has room for.                                   *)
LEMMA PipeStoreKeeps ==
  ASSUME IpcInv, NEW id \in Id, type[id] = "PIPE", NEW len \in 1 .. MaxLen,
         NEW c \in Capacity, PipeStore(id, len, c)
  PROVE  IpcInv'
  <1>1. Undelayed(PC) /\ ObjectsTyped /\ QueuesLinked /\ LockSound /\ PipesInv
    BY DEF IpcInv, ObjectsInv
  <1>2. PICK new : new = [i \in 1 .. len |-> sent[id] + i]
    OBVIOUS
  <1>3. /\ type[id] = "PIPE"
        /\ sent[id] + len <= MaxBytes
        /\ buf' = [buf EXCEPT ![id] = buf[id] \o new]
        /\ Len(buf[id]) + len <= c
        /\ cap' = [cap EXCEPT ![id] = c]
        /\ sent' = [sent EXCEPT ![id] = sent[id] + len]
        /\ WakeAll(id)
        /\ UNCHANGED <<current_process, clock_ticks, delay_until, kernel_pc, halted,
                       type, owner, call, holds, delivered>>
    BY <1>1, <1>2 DEF PipeStore, PipesInv, PipesTyped
  <1>4. /\ Undelayed(PC)'
        /\ QueuesLinked'
        /\ waiters'[id] = <<>>
        /\ \A i \in Id : waiters'[i] # <<>> => waiters[i] # <<>>
        /\ \A r \in Proc :
             /\ state'[r] \in Dead <=> state[r] \in Dead
             /\ state'[r] = "BLOCKED" => state[r] = "BLOCKED"
    BY <1>1, <1>3, WakeAllSound
  <1>5. waiters' \in [Id -> Seq(Proc)]
    BY <1>4 DEF QueuesLinked, Linked
  <1>6. ObjectsTyped'
    BY <1>1, <1>3, <1>5 DEF ObjectsTyped, CallsTyped
  <1>7. LockSound'
    BY <1>1, <1>3, <1>4, LocksSame
  <1>8. PICK b : b = buf[id]
    OBVIOUS
  <1>9. /\ b \in Seq(1 .. MaxBytes) /\ Len(b) \in Nat
        /\ sent[id] \in Nat /\ delivered[id] \in Seq(1 .. MaxBytes)
        /\ Len(delivered[id]) \in Nat
        /\ cap[id] \in Capacity
        /\ Len(delivered[id]) + Len(b) = sent[id]
        /\ len \in Nat /\ MaxBytes \in Nat
    <2>1. /\ b \in Seq(1 .. MaxBytes) /\ delivered[id] \in Seq(1 .. MaxBytes)
          /\ sent[id] \in 0 .. MaxBytes
      BY <1>1, <1>8 DEF PipesInv, PipesTyped
    <2>2. cap[id] \in Capacity /\ Len(delivered[id]) + Len(b) = sent[id]
      BY <1>1, <1>3, <1>8 DEF PipesInv, PipesSized
    <2>3. Len(b) \in Nat /\ Len(delivered[id]) \in Nat
      BY <2>1, LenProperties
    <2> QED
      BY <2>1, <2>2, <2>3, IpcAssumption
  <1>10. new \in Seq(1 .. MaxBytes) /\ Len(new) = len
    <2>1. \A i \in 1 .. len : sent[id] + i \in 1 .. MaxBytes
      <3>1. /\ sent[id] \in Nat /\ len \in Nat /\ MaxBytes \in Nat
            /\ sent[id] + len <= MaxBytes
        BY <1>3, <1>9
      <3> QED
        BY <3>1
    <2>2. new \in [1 .. len -> 1 .. MaxBytes]
      BY <1>2, <2>1
    <2> QED
      BY <1>9, <2>2, FunctionSeq
  <1>11. b \o new \in Seq(1 .. MaxBytes) /\ Len(b \o new) = Len(b) + len
    <2>1. b \in Seq(1 .. MaxBytes) /\ new \in Seq(1 .. MaxBytes)
      BY <1>9, <1>10
    <2>2. b \o new \in Seq(1 .. MaxBytes) /\ Len(b \o new) = Len(b) + Len(new)
      BY <2>1, ConcatProperties, Zenon
    <2> QED
      BY <1>10, <2>2
  <1>12. c \in Nat /\ Len(b) + len <= c
    BY <1>3, <1>8, CapacityType
  <1>13. sent[id] + len \in 0 .. MaxBytes
    BY <1>3, <1>9
  <1>14. PipesTyped'
    BY <1>1, <1>3, <1>8, <1>11, <1>13 DEF PipesInv, PipesTyped
  <1>15. /\ buf'[id] = b \o new /\ cap'[id] = c /\ sent'[id] = sent[id] + len
         /\ \A i \in Id : i # id =>
              buf'[i] = buf[i] /\ cap'[i] = cap[i] /\ sent'[i] = sent[i]
    BY <1>1, <1>3, <1>8 DEF PipesInv, PipesTyped
  <1>16. PipesSized'
    <2> SUFFICES ASSUME NEW i \in Id, type[i] = "PIPE"
                 PROVE  /\ cap'[i] \in Capacity
                        /\ Len(buf'[i]) <= cap'[i]
                        /\ Len(delivered[i]) + Len(buf'[i]) = sent'[i]
      BY <1>3 DEF PipesSized
    <2>1. CASE i = id
      <3>1. Len(buf'[i]) = Len(b) + len /\ cap'[i] = c /\ sent'[i] = sent[id] + len
        BY <1>11, <1>15, <2>1
      <3>2. Len(delivered[i]) + (Len(b) + len) = sent[id] + len
        <4>1. \A x, y, z, w \in Nat : x + y = z => x + (y + w) = z + w
          OBVIOUS
        <4>2. PICK x \in Nat : x = Len(delivered[id])
          BY <1>9
        <4>3. x + Len(b) = sent[id]
          BY <1>9, <4>2
        <4>4. x + (Len(b) + len) = sent[id] + len
          BY <1>9, <4>1, <4>3
        <4> QED
          BY <2>1, <4>2, <4>4
      <3>3. Len(b) + len <= c
        BY <1>12
      <3> QED
        BY <3>1, <3>2, <3>3
    <2>2. CASE i # id
      BY <1>1, <1>15, <2>2 DEF PipesInv, PipesSized
    <2> QED
      BY <2>1, <2>2
  <1>17. NoLostReader'
    BY <1>1, <1>3, <1>4, <1>15 DEF PipesInv, NoLostReader
  <1> QED
    BY <1>4, <1>6, <1>7, <1>14, <1>16, <1>17 DEF IpcInv, ObjectsInv, PipesInv

(* A write the kernel does not come back from changes nothing but the      *)
(* place of its process.                                                   *)
LEMMA PipeLostKeeps ==
  ASSUME IpcInv, CanCall, NEW id \in Id, NEW len \in 1 .. MaxLen,
         NEW where \in {"growing", "overrun"}, PipeLost(id, len, where)
  PROVE  IpcInv'
  <1> DEFINE p == current_process
             args == [NoCall EXCEPT !.id = id, !.len = len]
  <1>1. Undelayed(PC) /\ ObjectsTyped /\ QueuesLinked /\ LockSound /\ PipesInv
    BY DEF IpcInv, ObjectsInv
  <1>2. p \in Proc /\ state[p] # "BLOCKED" /\ p # Idle /\ kernel_pc[p] = "user"
    BY <1>1, CurrentLives DEF CanCall, InUserMode
  <1>3. /\ kernel_pc' = [kernel_pc EXCEPT ![p] = where]
        /\ call' = [call EXCEPT ![p] = args]
        /\ UNCHANGED <<state, ready_queue, current_process, clock_ticks, delay_until,
                       halted, type, owner, waiters, buf, cap, holds, sent, delivered>>
    BY DEF PipeLost, objectVars, historyVars
  <1>4. args \in Call
    <2>1. len \in 0 .. MaxLen
      BY IpcAssumption
    <2> QED
      BY <2>1, NoCallType DEF Call
  <1> HIDE DEF args
  <1>5. /\ kernel_pc' \in [Proc -> PC] /\ kernel_pc'[Idle] = "user"
        /\ kernel_pc'[p] # "pipe_read" /\ halted' \in BOOLEAN
    BY <1>1, <1>2, <1>3, SchedAssumption DEF Undelayed, PC
  <1>6. Undelayed(PC)'
    BY <1>1, <1>3, <1>5, UndelayedReturn
  <1>7. call' \in [Proc -> Call]
    BY <1>1, <1>2, <1>3, <1>4 DEF ObjectsTyped, CallsTyped
  <1>8. \A r \in Proc : r # p => kernel_pc'[r] = kernel_pc[r] /\ call'[r] = call[r]
    BY <1>1, <1>3 DEF Undelayed, ObjectsTyped, CallsTyped
  <1>9. \A r \in Proc : call'[r].id \in Id
    BY <1>7 DEF Call
  <1>10. Linked(state', kernel_pc', type', call', waiters)
    <2>1. Linked(state, kernel_pc, type, call, waiters)
      BY <1>1 DEF QueuesLinked
    <2>2. \A r \in Proc : state'[r] = "BLOCKED" <=> state[r] = "BLOCKED"
      BY <1>3
    <2>3. \A r \in Proc : state[r] = "BLOCKED" =>
            kernel_pc'[r] = kernel_pc[r] /\ call'[r] = call[r]
      BY <1>2, <1>8
    <2>4. \A i \in Id : waiters[i] # <<>> => type'[i] = type[i]
      BY <1>3
    <2> QED
      BY <1>9, <2>1, <2>2, <2>3, <2>4, LinkedSame
  <1>11. ObjectsTyped'
    BY <1>1, <1>3, <1>5, <1>7, <1>8 DEF ObjectsTyped, CallsTyped
  <1>12. LockSound'
    BY <1>1, <1>2, <1>3, <1>8, LocksSame
  <1>13. PipesInv'
    BY <1>1, <1>3, PipesSame
  <1> QED
    BY <1>3, <1>6, <1>10, <1>11, <1>12, <1>13 DEF IpcInv, ObjectsInv, QueuesLinked

(* The cases of SysPipeWrite, with what each knows of the size it asks for.*)
Written(id, len) ==
  LET asked == Len(buf[id]) + len
  IN  \/ \E c \in Capacity : PipeStore(id, len, c)
      \/ PipeLost(id, len, "growing") /\ 2 * asked > INT_MAX + 1
      \/ PipeLost(id, len, "overrun") /\ asked > INT_MAX

LEMMA PipeWriteCases ==
  ASSUME IpcInv, NEW id \in Id, NEW len \in 1 .. MaxLen, SysPipeWrite(id, len)
  PROVE  Written(id, len)
  <1>1. type[id] = "PIPE"
    BY DEF SysPipeWrite
  <1>2. cap[id] \in Capacity
    BY <1>1 DEF IpcInv, PipesInv, PipesSized
  <1>3. Len(buf[id]) \in Nat
    <2>1. buf[id] \in Seq(1 .. MaxBytes)
      BY DEF IpcInv, PipesInv, PipesTyped
    <2> QED
      BY <2>1, LenProperties
  <1>4. PICK c : c = cap[id]
    OBVIOUS
  <1>5. PICK asked : asked = Len(buf[id]) + len
    OBVIOUS
  <1>6. asked \in Nat /\ asked # 0
    BY <1>3, <1>5, IpcAssumption
  <1>7. PICK new_cap : new_cap = PipeEnsureCapacity(c, AsInt(asked))
    OBVIOUS
  <1>8. PICK rounds : rounds = Rounds(c, AsInt(asked))
    OBVIOUS
  <1>9. /\ rounds # {} /\ asked <= new_cap => new_cap \in Capacity
        /\ rounds # {} /\ asked > new_cap => asked > INT_MAX
        /\ rounds = {} => 2 * asked > INT_MAX + 1
    BY <1>2, <1>4, <1>6, <1>7, <1>8, AskedAndGot
  <1>10. \/ rounds # {} /\ PipeStore(id, len, new_cap)
         \/ rounds = {} /\ PipeLost(id, len, "growing")
         \/ rounds # {} /\ asked > new_cap /\ PipeLost(id, len, "overrun")
    BY <1>4, <1>5, <1>7, <1>8 DEF SysPipeWrite
  <1>11. PipeStore(id, len, new_cap) => asked <= new_cap
    BY <1>5 DEF PipeStore
  <1> QED
    BY <1>5, <1>9, <1>10, <1>11 DEF Written

LEMMA PipeWriteKeeps ==
  ASSUME IpcInv, NEW id \in Id, NEW len \in 1 .. MaxLen, SysPipeWrite(id, len)
  PROVE  IpcInv'
  <1>1. type[id] = "PIPE" /\ CanCall
    BY DEF SysPipeWrite
  <1>2. Written(id, len)
    BY PipeWriteCases
  <1> QED
    BY <1>1, <1>2, PipeStoreKeeps, PipeLostKeeps DEF Written

LEMMA AcquireTakeKeeps ==
  ASSUME IpcInv, NEW id \in Id, type[id] = "LOCK",
         kernel_pc[current_process] = "acquire" => call[current_process].id = id,
         AcquireTake(current_process, id)
  PROVE  IpcInv'
  <1>1. Undelayed(PC) /\ ObjectsTyped /\ QueuesLinked /\ LockSound /\ PipesInv
    BY DEF IpcInv, ObjectsInv
  <1>2. PICK p \in Proc : p = current_process /\ state[p] \notin Dead
    BY <1>1, CurrentLives
  <1>3. /\ owner[id] \in {NULL, p}
        /\ owner' = [owner EXCEPT ![id] = p]
        /\ holds' = [holds EXCEPT ![p] = holds[p] \cup {id}]
        /\ Returns(p)
        /\ UNCHANGED <<state, ready_queue, current_process, clock_ticks, delay_until,
                       halted, type, waiters, buf, cap, sent, delivered>>
    BY <1>1, <1>2 DEF AcquireTake, ObjectsTyped
  <1>4. /\ Undelayed(PC)' /\ QueuesLinked' /\ CallsTyped'
        /\ \A r \in Proc : r # p => kernel_pc'[r] = kernel_pc[r] /\ call'[r] = call[r]
    BY <1>1, <1>2, <1>3, ReturnKeeps
  <1>5. /\ owner' \in [Id -> Proc \cup {NULL}] /\ owner'[id] = p
        /\ \A i \in Id : i # id => owner'[i] = owner[i]
    BY <1>1, <1>3 DEF ObjectsTyped
  <1>6. /\ holds' \in [Proc -> SUBSET Id]
        /\ holds'[p] = holds[p] \cup {id}
        /\ \A r \in Proc : r # p => holds'[r] = holds[r]
    BY <1>1, <1>3 DEF ObjectsTyped
  <1>7. ObjectsTyped'
    BY <1>1, <1>3, <1>4, <1>5, <1>6 DEF ObjectsTyped
  <1>8. LockSound'
    <2>1. ASSUME NEW r \in Proc, NEW i \in holds'[r]
          PROVE  type[i] = "LOCK" /\ owner'[i] = r
      <3>1. CASE i \in holds[r]
        <4>1. i \in Id /\ type[i] = "LOCK" /\ owner[i] = r
          BY <3>1, <1>1 DEF LockSound, ObjectsTyped
        <4>2. i = id => r = p
          BY <4>1, <1>3, IpcAssumption
        <4> QED
          BY <4>1, <4>2, <1>5
      <3>2. CASE i \notin holds[r]
        BY <3>2, <2>1, <1>5, <1>6
      <3> QED
        BY <3>1, <3>2
    <2>2. ASSUME NEW i \in Id, type[i] = "LOCK", waiters[i] # <<>>
          PROVE  owner'[i] # NULL
      BY <2>2, <1>1, <1>5, IpcAssumption DEF LockSound
    <2>3. ASSUME NEW i \in Id, type[i] = "LOCK", owner'[i] # NULL
          PROVE  /\ state[owner'[i]] \notin Dead
                 /\ \/ i \in holds'[owner'[i]]
                    \/ /\ kernel_pc'[owner'[i]] = "acquire"
                       /\ call'[owner'[i]].id = i
                       /\ state[owner'[i]] # "BLOCKED"
      <3>1. CASE i = id
        BY <3>1, <1>2, <1>5, <1>6
      <3>2. CASE i # id
        <4>1. PICK h \in Proc : h = owner[i] /\ owner'[i] = h
          BY <2>3, <3>2, <1>1, <1>5 DEF ObjectsTyped
        <4>2. /\ state[h] \notin Dead
              /\ \/ i \in holds[h]
                 \/ /\ kernel_pc[h] = "acquire"
                    /\ call[h].id = i
                    /\ state[h] # "BLOCKED"
          BY <4>1, <2>3, <3>2, <1>1, <1>5 DEF LockSound, Dead
        <4>3. CASE h = p
          <5>1. i \in holds[p]
            BY <4>2, <4>3, <3>2, <1>2
          <5> QED
            BY <5>1, <4>1, <4>2, <4>3, <1>6
        <4>4. CASE h # p
          BY <4>1, <4>2, <4>4, <1>4, <1>6
        <4> QED
          BY <4>3, <4>4
      <3> QED
        BY <3>1, <3>2
    <2> QED
      BY <2>1, <2>2, <2>3, <1>3 DEF LockSound, Dead
  <1>9. PipesInv'
    BY <1>1, <1>3, PipesSame
  <1> QED
    BY <1>4, <1>7, <1>8, <1>9 DEF IpcInv, ObjectsInv

LEMMA AcquireLoopKeeps ==
  ASSUME IpcInv, NEW id \in Id, type[id] = "LOCK", current_process # Idle,
         kernel_pc[current_process] = "acquire" => call[current_process].id = id,
         AcquireLoop(current_process, id)
  PROVE  IpcInv'
  <1>1. CASE AcquireTake(current_process, id)
    BY <1>1, AcquireTakeKeeps
  <1>2. CASE AcquireBlock(current_process, id)
    <2>1. PICK args : args = [NoCall EXCEPT !.id = id]
      OBVIOUS
    <2>2. args \in Call /\ args.id = id
      <3>1. args = [id |-> id, lock |-> 0, len |-> 0]
        BY <2>1 DEF NoCall
      <3>2. 0 \in Id /\ 0 \in 0 .. MaxLen
        BY IpcAssumption DEF Id
      <3> QED
        BY <3>1, <3>2 DEF Call
    <2>3. /\ owner[id] # NULL /\ owner[id] # current_process
          /\ BlockOnQueue(current_process, id, "acquire", args, state, ready_queue,
                          waiters)
          /\ UNCHANGED <<type, owner, buf, cap, historyVars>>
      BY <1>2, <2>1 DEF AcquireBlock
    <2>4. type[id] = WaitsFor("acquire") /\ "acquire" \in Sleeps
      BY DEF WaitsFor, Sleeps
    <2> QED
      BY <2>2, <2>3, <2>4, CallBlocks
  <1> QED
    BY <1>1, <1>2 DEF AcquireLoop

LEMMA AcquireKeeps ==
  ASSUME IpcInv, NEW id \in Id, SysAcquire(id)
  PROVE  IpcInv'
  BY AcquireLoopKeeps DEF SysAcquire, CanCall, InUserMode

LEMMA AcquireResumedKeeps ==
  ASSUME IpcInv, NEW p \in Proc, AcquireResumed(p)
  PROVE  IpcInv'
  <1>1. /\ p = current_process /\ kernel_pc[p] = "acquire"
        /\ type[call[p].id] = "LOCK" /\ AcquireLoop(p, call[p].id)
    BY DEF AcquireResumed, Running
  <1>2. call[p] \in Call /\ kernel_pc[Idle] = "user"
    BY DEF IpcInv, Undelayed, ObjectsInv, ObjectsTyped, CallsTyped
  <1>3. call[p].id \in Id /\ p # Idle
    BY <1>1, <1>2 DEF Call
  <1> QED
    BY <1>1, <1>3, AcquireLoopKeeps

LEMMA CvarWaitResumedKeeps ==
  ASSUME IpcInv, NEW p \in Proc, CvarWaitResumed(p)
  PROVE  IpcInv'
  <1>1. /\ p = current_process /\ kernel_pc[p] = "cvar_wait"
        /\ type[call[p].lock] = "LOCK" /\ AcquireLoop(p, call[p].lock)
    BY DEF CvarWaitResumed, Running, CanReacquire
  <1>2. call[p] \in Call /\ kernel_pc[Idle] = "user"
    BY DEF IpcInv, Undelayed, ObjectsInv, ObjectsTyped, CallsTyped
  <1>3. call[p].lock \in Id /\ p # Idle
    BY <1>1, <1>2 DEF Call
  <1> QED
    BY <1>1, <1>3, AcquireLoopKeeps

LEMMA ResumedToNothingKeeps ==
  ASSUME IpcInv, NEW p \in Proc, ResumedToNothing(p)
  PROVE  IpcInv'
  <1>1. Undelayed(PC) /\ ObjectsTyped /\ QueuesLinked /\ LockSound /\ PipesInv
    BY DEF IpcInv, ObjectsInv
  <1>2. /\ p = current_process /\ kernel_pc[p] \in {"pipe_read", "cvar_wait"}
        /\ Returns(p)
        /\ UNCHANGED <<state, ready_queue, current_process, clock_ticks, delay_until,
                       halted, type, owner, waiters, buf, cap, holds, sent, delivered>>
    BY DEF ResumedToNothing, Running, objectVars, historyVars
  <1>3. Undelayed(PC)' /\ ObjectsInv'
    BY <1>1, <1>2, ReturnFromNoLock
  <1>4. PipesInv'
    BY <1>1, <1>2, PipesSame
  <1> QED
    BY <1>3, <1>4 DEF IpcInv

LEMMA NextOwnerType ==
  ASSUME ObjectsTyped, NEW id \in Id
  PROVE  NextOwner(id) \in Proc \cup {NULL}
  <1>1. PICK s : s = waiters[id]
    OBVIOUS
  <1>2. s \in Seq(Proc)
    BY <1>1 DEF ObjectsTyped
  <1>3. s # <<>> => Head(s) \in Proc
    BY <1>2
  <1> QED
    BY <1>1, <1>3 DEF NextOwner

LEMMA ReleaseKeeps ==
  ASSUME IpcInv, NEW id \in Id, SysRelease(id)
  PROVE  IpcInv'
  <1>1. Undelayed(PC) /\ ObjectsTyped /\ QueuesLinked /\ LockSound /\ PipesInv
    BY DEF IpcInv, ObjectsInv
  <1>2. PICK p \in Proc : p = current_process /\ state[p] \notin Dead
    BY <1>1, CurrentLives
  <1>3. /\ kernel_pc[p] = "user" /\ type[id] = "LOCK" /\ owner[id] = p
        /\ owner' = [owner EXCEPT ![id] = NextOwner(id)]
        /\ state' = WakeOneState(id)
        /\ ready_queue' = WakeOneReady(id)
        /\ waiters' = WakeOneQueue(id)
        /\ holds' = [holds EXCEPT ![p] = holds[p] \ {id}]
        /\ UNCHANGED <<current_process, clock_ticks, delay_until, kernel_pc, halted,
                       type, buf, cap, call, sent, delivered>>
    BY <1>1, <1>2 DEF SysRelease, LockRelease, CanCall, InUserMode, ObjectsTyped
  <1>4. /\ StatesSound(state', current_process)
        /\ QueueSound(state', ready_queue', current_process)
        /\ Linked(state', kernel_pc, type, call, waiters')
        /\ state'[current_process] = state[current_process]
        /\ \A r \in Proc :
             /\ state'[r] \in Dead <=> state[r] \in Dead
             /\ state'[r] = "BLOCKED" => state[r] = "BLOCKED"
        /\ waiters[id] # <<>> => state'[Head(waiters[id])] # "BLOCKED"
        /\ \A i \in Id : waiters'[i] # <<>> => waiters[i] # <<>>
    BY <1>1, <1>3, WakeOneSound
  <1>5. Undelayed(PC)'
    BY <1>1, <1>3, <1>4, UndelayedWake
  <1>6. ObjectsTyped'
    <2>1. owner' \in [Id -> Proc \cup {NULL}]
      BY <1>1, <1>3, NextOwnerType DEF ObjectsTyped
    <2>2. holds' \in [Proc -> SUBSET Id]
      BY <1>1, <1>3 DEF ObjectsTyped
    <2>3. waiters' \in [Id -> Seq(Proc)]
      BY <1>4 DEF Linked
    <2> QED
      BY <1>1, <1>3, <2>1, <2>2, <2>3 DEF ObjectsTyped, CallsTyped
  <1>7. LockSound'
    <2>1. PICK D \in SUBSET Id : D = {id}
      OBVIOUS
    <2>2. owner' = [i \in Id |-> IF i \in D THEN NextOwner(i) ELSE owner[i]]
      BY <1>1, <1>3, <2>1 DEF ObjectsTyped
    <2>3. \A r \in Proc : holds'[r] = IF r = p THEN holds[r] \ D ELSE holds[r]
      BY <1>1, <1>3, <2>1 DEF ObjectsTyped
    <2>4. \A i \in D : /\ type[i] = "LOCK" /\ owner[i] = p
                       /\ waiters[i] # <<>> => state'[Head(waiters[i])] # "BLOCKED"
      BY <1>3, <1>4, <2>1
    <2>5. kernel_pc \in [Proc -> PC] /\ state'[p] \notin Dead
      BY <1>1, <1>2, <1>4 DEF Undelayed
    <2>6. HandsOff(p, D)
      BY <1>3, <1>4, <2>2, <2>3, <2>4, <2>5 DEF HandsOff
    <2> QED
      BY <1>1, <2>5, <2>6, LocksHandedOff
  <1>8. PipesInv'
    BY <1>1, <1>3, <1>4, PipesSame
  <1> QED
    BY <1>3, <1>4, <1>5, <1>6, <1>7, <1>8 DEF IpcInv, ObjectsInv, QueuesLinked

LEMMA SignalKeeps ==
  ASSUME IpcInv, NEW id \in Id, SysCvarSignal(id)
  PROVE  IpcInv'
  <1>1. Undelayed(PC) /\ ObjectsTyped /\ QueuesLinked /\ LockSound /\ PipesInv
    BY DEF IpcInv, ObjectsInv
  <1>2. /\ state' = WakeOneState(id)
        /\ ready_queue' = WakeOneReady(id)
        /\ waiters' = WakeOneQueue(id)
        /\ UNCHANGED <<current_process, clock_ticks, delay_until, kernel_pc, halted,
                       type, owner, buf, cap, call, holds, sent, delivered>>
    BY DEF SysCvarSignal, historyVars
  <1>3. /\ StatesSound(state', current_process)
        /\ QueueSound(state', ready_queue', current_process)
        /\ Linked(state', kernel_pc, type, call, waiters')
        /\ state'[current_process] = state[current_process]
        /\ \A r \in Proc :
             /\ state'[r] \in Dead <=> state[r] \in Dead
             /\ state'[r] = "BLOCKED" => state[r] = "BLOCKED"
        /\ \A i \in Id : waiters'[i] # <<>> => waiters[i] # <<>>
    BY <1>1, <1>2, WakeOneSound
  <1>4. Undelayed(PC)'
    BY <1>1, <1>2, <1>3, UndelayedWake
  <1>5. ObjectsTyped'
    BY <1>1, <1>2, <1>3 DEF ObjectsTyped, CallsTyped, Linked
  <1>6. LockSound'
    BY <1>1, <1>2, <1>3, LocksSame
  <1>7. PipesInv'
    BY <1>1, <1>2, <1>3, PipesSame
  <1> QED
    BY <1>2, <1>3, <1>4, <1>5, <1>6, <1>7 DEF IpcInv, ObjectsInv, QueuesLinked

LEMMA BroadcastKeeps ==
  ASSUME IpcInv, NEW id \in Id, SysCvarBroadcast(id)
  PROVE  IpcInv'
  <1>1. Undelayed(PC) /\ ObjectsTyped /\ QueuesLinked /\ LockSound /\ PipesInv
    BY DEF IpcInv, ObjectsInv
  <1>2. /\ WakeAll(id)
        /\ UNCHANGED <<current_process, clock_ticks, delay_until, kernel_pc, halted,
                       type, owner, buf, cap, call, holds, sent, delivered>>
    BY DEF SysCvarBroadcast, historyVars
  <1>3. /\ Undelayed(PC)'
        /\ QueuesLinked'
        /\ \A i \in Id : waiters'[i] # <<>> => waiters[i] # <<>>
        /\ \A r \in Proc :
             /\ state'[r] \in Dead <=> state[r] \in Dead
             /\ state'[r] = "BLOCKED" => state[r] = "BLOCKED"
    BY <1>1, <1>2, WakeAllSound
  <1>4. ObjectsTyped'
    BY <1>1, <1>2, <1>3 DEF ObjectsTyped, CallsTyped, QueuesLinked, Linked
  <1>5. LockSound'
    BY <1>1, <1>2, <1>3, LocksSame
  <1>6. PipesInv'
    BY <1>1, <1>2, <1>3, PipesSame
  <1> QED
    BY <1>3, <1>4, <1>5, <1>6 DEF IpcInv, ObjectsInv

LEMMA CvarWaitKeeps ==
  ASSUME IpcInv, NEW id \in Id, NEW lock \in Id, SysCvarWait(id, lock)
  PROVE  IpcInv'
  <1>1. Undelayed(PC) /\ ObjectsTyped /\ QueuesLinked /\ LockSound /\ PipesInv
    BY DEF IpcInv, ObjectsInv
  <1>2. PICK p \in Proc : p = current_process /\ state[p] \notin Dead
                          /\ state[p] # "BLOCKED"
    BY <1>1, CurrentLives
  <1>3. PICK args : args = [NoCall EXCEPT !.id = id, !.lock = lock]
    OBVIOUS
  <1>4. /\ kernel_pc[p] = "user" /\ current_process # Idle
        /\ type[id] = "CVAR" /\ type[lock] = "LOCK" /\ owner[lock] = p
        /\ owner' = [owner EXCEPT ![lock] = NextOwner(lock)]
        /\ holds' = [holds EXCEPT ![p] = holds[p] \ {lock}]
        /\ BlockOnQueue(current_process, id, "cvar_wait", args, WakeOneState(lock),
                        WakeOneReady(lock), WakeOneQueue(lock))
        /\ UNCHANGED <<type, buf, cap, sent, delivered>>
    BY <1>1, <1>2, <1>3
       DEF SysCvarWait, LockRelease, CanCall, InUserMode, ObjectsTyped
  <1>5. args \in Call /\ args.id = id
    <2>1. args = [id |-> id, lock |-> lock, len |-> 0]
      BY <1>3 DEF NoCall
    <2>2. 0 \in 0 .. MaxLen
      BY IpcAssumption
    <2> QED
      BY <2>1, <2>2 DEF Call
  <1>6. type[id] = WaitsFor("cvar_wait") /\ "cvar_wait" \in Sleeps
    BY <1>4 DEF WaitsFor, Sleeps
  <1>7. PICK st : st = WakeOneState(lock)
    OBVIOUS
  <1>8. PICK q : q = WakeOneQueue(lock)
    OBVIOUS
  <1>9. PICK rq : rq = WakeOneReady(lock)
    OBVIOUS
  <1>10. /\ StatesSound(st, current_process)
         /\ QueueSound(st, rq, current_process)
         /\ Linked(st, kernel_pc, type, call, q)
         /\ st[current_process] = state[current_process]
         /\ \A r \in Proc :
              /\ st[r] \in Dead <=> state[r] \in Dead
              /\ st[r] = "BLOCKED" => state[r] = "BLOCKED"
         /\ waiters[lock] # <<>> => st[Head(waiters[lock])] # "BLOCKED"
         /\ \A i \in Id : q[i] # <<>> => waiters[i] # <<>>
    BY <1>1, <1>7, <1>8, <1>9, WakeOneSound
  <1>11. /\ Undelayed(PC)'
         /\ QueuesLinked'
         /\ CallsTyped'
         /\ waiters' \in [Id -> Seq(Proc)]
         /\ \A i \in Id : i # id => waiters'[i] = q[i]
         /\ state'[p] = "BLOCKED"
         /\ \A r \in Proc : r # p =>
              /\ kernel_pc'[r] = kernel_pc[r] /\ call'[r] = call[r]
              /\ state'[r] \in Dead <=> st[r] \in Dead
              /\ state'[r] = "BLOCKED" <=> st[r] = "BLOCKED"
    <2>1. BlockOnQueue(current_process, id, "cvar_wait", args, st, rq, q)
      BY <1>4, <1>7, <1>8, <1>9
    <2>2. st[current_process] # "BLOCKED"
      BY <1>2, <1>10
    <2> QED
      BY <1>1, <1>2, <1>4, <1>5, <1>6, <1>10, <2>1, <2>2, BlockKeeps
  <1>12. ObjectsTyped'
    <2>1. owner' \in [Id -> Proc \cup {NULL}]
      BY <1>1, <1>4, NextOwnerType DEF ObjectsTyped
    <2>2. holds' \in [Proc -> SUBSET Id]
      BY <1>1, <1>4 DEF ObjectsTyped
    <2> QED
      BY <1>1, <1>4, <1>11, <2>1, <2>2 DEF ObjectsTyped
  <1>13. LockSound'
    <2>1. PICK D \in SUBSET Id : D = {lock}
      OBVIOUS
    <2>2. owner' = [i \in Id |-> IF i \in D THEN NextOwner(i) ELSE owner[i]]
      BY <1>1, <1>4, <2>1 DEF ObjectsTyped
    <2>3. \A r \in Proc : holds'[r] = IF r = p THEN holds[r] \ D ELSE holds[r]
      BY <1>1, <1>4, <2>1 DEF ObjectsTyped
    <2>4. waiters[lock] # <<>> => Head(waiters[lock]) \in Proc /\ Head(waiters[lock]) # p
      <3> SUFFICES ASSUME waiters[lock] # <<>>
                   PROVE  Head(waiters[lock]) \in Proc /\ Head(waiters[lock]) # p
        OBVIOUS
      <3>1. PICK s : s = waiters[lock]
        OBVIOUS
      <3>2. s \in Seq(Proc) /\ s # <<>> /\ IsInjective(s)
        BY <1>1, <3>1 DEF QueuesLinked, Linked
      <3>3. Head(s) \in Range(s) /\ Head(s) \in Proc
        BY <3>2, TailInjects, RangeOfSeq
      <3>4. state[Head(s)] = "BLOCKED"
        BY <1>1, <3>1, <3>3 DEF QueuesLinked, Linked
      <3> QED
        BY <1>2, <3>1, <3>3, <3>4
    <2>5. \A i \in D : /\ type[i] = "LOCK" /\ owner[i] = p
                       /\ waiters[i] # <<>> => state'[Head(waiters[i])] # "BLOCKED"
      BY <1>4, <1>10, <1>11, <2>1, <2>4
    <2>6. \A i \in Id : type[i] = "LOCK" /\ waiters'[i] # <<>> => waiters[i] # <<>>
      BY <1>4, <1>10, <1>11
    <2>7. kernel_pc \in [Proc -> PC] /\ state'[p] \notin Dead
      BY <1>1, <1>11 DEF Undelayed, Dead
    <2>8. \A r \in Proc : r # p =>
            /\ kernel_pc'[r] = kernel_pc[r] /\ call'[r] = call[r]
            /\ state'[r] \in Dead <=> state[r] \in Dead
            /\ state'[r] = "BLOCKED" => state[r] = "BLOCKED"
      BY <1>10, <1>11
    <2>9. HandsOff(p, D)
      BY <1>4, <2>2, <2>3, <2>5, <2>6, <2>7, <2>8 DEF HandsOff
    <2> QED
      BY <1>1, <2>7, <2>9, LocksHandedOff
  <1>14. PipesInv'
    BY <1>1, <1>4, <1>10, <1>11, PipesSame
  <1> QED
    BY <1>11, <1>12, <1>13, <1>14 DEF IpcInv, ObjectsInv

(* An ascending enumeration of a set of ids lists each of them once.       *)
LEMMA AscendingLists ==
  ASSUME NEW S \in SUBSET Id, NEW w \in Ascending(S)
  PROVE  /\ Cardinality(S) \in Nat
         /\ DOMAIN w = 1 .. Cardinality(S)
         /\ \A i \in DOMAIN w : w[i] \in S
         /\ \A i, j \in DOMAIN w : w[i] = w[j] => i = j
         /\ \A id \in S : \E i \in DOMAIN w : w[i] = id
  <1>1. IsFiniteSet(Id)
    <2>1. 0 \in Int /\ IPC_MAX_OBJECTS - 1 \in Int
      BY IpcAssumption
    <2> QED
      BY <2>1, FS_Interval DEF Id
  <1>2. IsFiniteSet(S) /\ Cardinality(S) \in Nat
    BY <1>1, FS_Subset, FS_CardinalityType
  <1>3. w \in [1 .. Cardinality(S) -> S]
    BY DEF Ascending
  <1>4. \A i, j \in 1 .. Cardinality(S) : i < j => w[i] < w[j]
    BY DEF Ascending
  <1>5. \A i \in 1 .. Cardinality(S) : w[i] \in Nat
    <2>1. Id \subseteq Nat
      BY IpcAssumption DEF Id
    <2>2. \A i \in 1 .. Cardinality(S) : w[i] \in S
      BY <1>3
    <2> QED
      BY <2>1, <2>2
  <1>6. \A i, j \in 1 .. Cardinality(S) : w[i] = w[j] => i = j
    BY <1>2, <1>4, <1>5
  <1>7. w \in Injection(1 .. Cardinality(S), S)
    BY <1>3, <1>6 DEF Injection, IsInjective
  <1>8. Cardinality(1 .. Cardinality(S)) = Cardinality(S)
    <2>1. PICK n \in Nat : n = Cardinality(S)
      BY <1>2
    <2>2. Cardinality(1 .. n) = IF 1 > n THEN 0 ELSE n - 1 + 1
      BY FS_Interval
    <2>3. Cardinality(1 .. n) = n
      BY <2>2
    <2> QED
      BY <2>1, <2>3
  <1>9. w \in Surjection(1 .. Cardinality(S), S)
    BY <1>2, <1>7, <1>8, FS_Injection
  <1> QED
    BY <1>2, <1>3, <1>6, <1>9 DEF Surjection

(* ProcessExitCurrent: the locks of the current process are handed off in  *)
(* the order of their ids.  Their first waiters are blocked in different   *)
(* calls, so none is queued to run twice.                                  *)
LEMMA ExitKeeps ==
  ASSUME IpcInv, NEW p \in Proc, ProcessExitCurrent(p)
  PROVE  IpcInv'
  <1>1. Undelayed(PC) /\ ObjectsTyped /\ QueuesLinked /\ LockSound /\ PipesInv
    BY DEF IpcInv, ObjectsInv
  <1>2. /\ p = current_process /\ p # Idle /\ kernel_pc[p] = "user"
        /\ owner' = [id \in Id |-> IF id \in Owned(p) THEN NextOwner(id) ELSE owner[id]]
        /\ waiters' = [id \in Id |-> IF id \in Handed(p) THEN Tail(waiters[id])
                                                         ELSE waiters[id]]
        /\ holds' = [holds EXCEPT ![p] = {}]
        /\ UNCHANGED <<clock_ticks, kernel_pc, halted, type, buf, cap, call, sent,
                       delivered>>
    BY DEF ProcessExitCurrent, IpcProcessExit, CanCall, InUserMode
  <1>3. PICK H \in SUBSET Id : H = Handed(p)
    BY DEF Handed, Owned
  <1>4. PICK D \in SUBSET Id : D = Owned(p)
    BY DEF Owned
  <1>5. /\ \A id \in D : type[id] = "LOCK" /\ owner[id] = p
        /\ \A id \in Id : type[id] = "LOCK" /\ owner[id] = p => id \in D
        /\ \A id \in Id : id \in H <=> id \in D /\ waiters[id] # <<>>
    BY <1>3, <1>4 DEF Owned, Handed
  <1>6. PICK ids \in Ascending(H) :
          ProcessSchedule(
            [q \in Proc |-> IF q = p THEN "ZOMBIE"
               ELSE IF q \in Range([i \in DOMAIN ids |-> Head(waiters[ids[i]])])
                    THEN "READY" ELSE state[q]],
            ready_queue \o [i \in DOMAIN ids |-> Head(waiters[ids[i]])],
            delay_until, clock_ticks)
    BY <1>3 DEF ProcessExitCurrent
  <1>7. PICK woken : woken = [i \in DOMAIN ids |-> Head(waiters[ids[i]])]
    OBVIOUS
  <1>8. PICK st : st = [q \in Proc |-> IF q = p THEN "ZOMBIE"
                          ELSE IF q \in Range(woken) THEN "READY" ELSE state[q]]
    OBVIOUS
  <1>9. ProcessSchedule(st, ready_queue \o woken, delay_until, clock_ticks)
    BY <1>6, <1>7, <1>8
  <1>10. /\ state[p] # "BLOCKED" /\ state[p] \notin Dead
         /\ StatesSound(state, p) /\ QueueSound(state, ready_queue, p)
    BY <1>1, <1>2, CurrentLives, UndelayedGives
  <1>11. ASSUME NEW id \in H
         PROVE  /\ Head(waiters[id]) \in Proc
                /\ state[Head(waiters[id])] = "BLOCKED"
                /\ call[Head(waiters[id])].id = id
                /\ Head(waiters[id]) # p
                /\ Head(waiters[id]) # Idle
    <2>1. PICK s : s = waiters[id]
      OBVIOUS
    <2>2. s \in Seq(Proc) /\ s # <<>> /\ IsInjective(s)
      BY <1>1, <1>5, <2>1 DEF QueuesLinked, Linked
    <2>3. Head(s) \in Range(s) /\ Head(s) \in Proc
      BY <2>2, TailInjects, RangeOfSeq
    <2>4. state[Head(s)] = "BLOCKED" /\ call[Head(s)].id = id
      BY <1>1, <2>1, <2>3 DEF QueuesLinked, Linked
    <2>5. Head(s) # p /\ Head(s) # Idle
      BY <1>10, <2>4 DEF StatesSound
    <2> QED
      BY <2>1, <2>3, <2>4, <2>5
  <1>12. /\ Cardinality(H) \in Nat
         /\ DOMAIN ids = 1 .. Cardinality(H)
         /\ \A i \in DOMAIN ids : ids[i] \in H
         /\ \A i, j \in DOMAIN ids : ids[i] = ids[j] => i = j
         /\ \A id \in H : \E i \in DOMAIN ids : ids[i] = id
    BY AscendingLists
  <1>13. /\ woken \in Seq(Proc) /\ IsInjective(woken)
         /\ \A r \in Range(woken) : r \in Proc /\ state[r] = "BLOCKED" /\ r # p /\ r # Idle
         /\ \A r \in Proc : r \in Range(woken) <=> \E id \in H : r = Head(waiters[id])
    <2>1. DOMAIN woken = DOMAIN ids /\ \A i \in DOMAIN ids : woken[i] = Head(waiters[ids[i]])
      BY <1>7
    <2>2. \A i \in DOMAIN ids :
            /\ woken[i] \in Proc /\ state[woken[i]] = "BLOCKED"
            /\ call[woken[i]].id = ids[i] /\ woken[i] # p /\ woken[i] # Idle
      BY <1>11, <1>12, <2>1
    <2>3. woken \in Seq(Proc)
      <3>1. PICK n \in Nat : n = Cardinality(H)
        BY <1>12
      <3>2. DOMAIN ids = 1 .. n
        BY <1>12, <3>1
      <3>3. woken = [i \in 1 .. n |-> Head(waiters[ids[i]])]
        BY <1>7, <3>2
      <3>4. \A i \in 1 .. n : Head(waiters[ids[i]]) \in Proc
        BY <2>1, <2>2, <3>2
      <3>5. woken \in [1 .. n -> Proc]
        BY <3>3, <3>4
      <3> QED
        BY <3>1, <3>5, FunctionSeq
    <2>4. IsInjective(woken)
      BY <1>12, <2>1, <2>2 DEF IsInjective
    <2>5. \A r \in Range(woken) : r \in Proc /\ state[r] = "BLOCKED" /\ r # p /\ r # Idle
      BY <2>1, <2>2 DEF Range
    <2>6. \A r \in Proc : r \in Range(woken) <=> \E id \in H : r = Head(waiters[id])
      <3>1. ASSUME NEW r \in Range(woken)
            PROVE  \E id \in H : r = Head(waiters[id])
        <4>1. PICK i \in DOMAIN ids : r = woken[i]
          BY <2>1 DEF Range
        <4>2. ids[i] \in H /\ r = Head(waiters[ids[i]])
          BY <1>12, <2>1, <4>1
        <4> QED
          BY <4>2
      <3>2. ASSUME NEW id \in H
            PROVE  Head(waiters[id]) \in Range(woken)
        <4>1. PICK i \in DOMAIN ids : ids[i] = id
          BY <1>12
        <4>2. woken[i] = Head(waiters[id]) /\ i \in DOMAIN woken
          BY <2>1, <4>1
        <4> QED
          BY <4>2 DEF Range
      <3> QED
        BY <3>1, <3>2
    <2> QED
      BY <2>3, <2>4, <2>5, <2>6
  <1>14. /\ StatesSound(st, p)
         /\ \A r \in Range(woken) : st[r] = "READY"
         /\ \A r \in Proc : r # p /\ r \notin Range(woken) => st[r] = state[r]
         /\ st[p] = "ZOMBIE"
    <2>1. \A r \in Proc : st[r] = IF r = p THEN "ZOMBIE"
                                  ELSE IF r \in Range(woken) THEN "READY" ELSE state[r]
      BY <1>8
    <2>2. st \in [Proc -> ProcState]
      BY <1>8, <1>10 DEF StatesSound, ProcState
    <2>3. Idle \in Proc /\ Idle # p /\ Idle \notin Range(woken)
      BY <1>2, <1>13, SchedAssumption
    <2>4. StatesSound(st, p)
      BY <1>10, <2>1, <2>2, <2>3 DEF StatesSound
    <2> QED
      BY <2>1, <2>4, <1>13
  <1>15. QueueSound(st, ready_queue \o woken, p)
    <2>1. /\ ready_queue \in Seq(Proc) /\ IsInjective(ready_queue)
          /\ \A r \in Range(ready_queue) :
               r \in Proc /\ state[r] = "READY" /\ r # p /\ r # Idle
      BY <1>10, RangeOfSeq DEF QueueSound
    <2>2. Range(ready_queue) \cap Range(woken) = {}
      BY <1>13, <2>1
    <2>3. /\ ready_queue \o woken \in Seq(Proc)
          /\ IsInjective(ready_queue \o woken)
          /\ Range(ready_queue \o woken) = Range(ready_queue) \cup Range(woken)
      BY <1>13, <2>1, <2>2, ConcatInjects
    <2>4. \A r \in Range(ready_queue) \cup Range(woken) :
            st[r] = "READY" /\ r # p /\ r # Idle
      BY <1>13, <1>14, <2>1, <2>2
    <2> QED
      BY <2>3, <2>4 DEF QueueSound
  <1>16. /\ Undelayed(PC)'
         /\ \A r \in Proc : /\ state'[r] = "EMPTY" <=> st[r] = "EMPTY"
                            /\ state'[r] = "ZOMBIE" <=> st[r] = "ZOMBIE"
                            /\ state'[r] = "BLOCKED" <=> st[r] = "BLOCKED"
    <2>1. /\ clock_ticks' \in 0 .. Word - 1
          /\ kernel_pc' \in [Proc -> PC] /\ kernel_pc'[Idle] = "user"
          /\ UNCHANGED halted
      BY <1>1, <1>2 DEF Undelayed
    <2>2. StatesSound(st, current_process)
          /\ QueueSound(st, ready_queue \o woken, current_process)
      BY <1>2, <1>14, <1>15
    <2> QED
      BY <1>1, <1>9, <2>1, <2>2, UndelayedSchedule
  <1>17. \A r \in Proc :
           /\ state'[r] = "BLOCKED" <=>
                (state[r] = "BLOCKED" /\ \A id \in H : r # Head(waiters[id]))
           /\ r # p => (state'[r] \in Dead <=> state[r] \in Dead)
    BY <1>10, <1>13, <1>14, <1>16 DEF Dead
  <1>18. Linked(state', kernel_pc, type, call, waiters')
    <2>1. PICK st2 : st2 = state'
      OBVIOUS
    <2>2. PICK q2 : q2 = waiters'
      OBVIOUS
    <2>3. /\ q2 = [id \in Id |-> IF id \in H THEN Tail(waiters[id]) ELSE waiters[id]]
          /\ \A id \in H : waiters[id] # <<>>
          /\ \A r \in Proc : st2[r] = "BLOCKED" <=>
               (state[r] = "BLOCKED" /\ \A id \in H : r # Head(waiters[id]))
      BY <1>2, <1>3, <1>5, <1>17, <2>1, <2>2
    <2>4. Linked(st2, kernel_pc, type, call, q2)
      BY <1>1, <2>3, LinkedPop DEF QueuesLinked
    <2> QED
      BY <2>1, <2>2, <2>4
  <1>19. ObjectsTyped'
    <2>1. owner' \in [Id -> Proc \cup {NULL}]
      BY <1>1, <1>2, NextOwnerType DEF ObjectsTyped
    <2>2. holds' \in [Proc -> SUBSET Id]
      BY <1>1, <1>2 DEF ObjectsTyped
    <2>3. waiters' \in [Id -> Seq(Proc)]
      BY <1>18 DEF Linked
    <2> QED
      BY <1>1, <1>2, <2>1, <2>2, <2>3 DEF ObjectsTyped, CallsTyped
  <1>20. \A id \in Id : waiters'[id] # <<>> => waiters[id] # <<>>
    BY <1>2, <1>3, <1>5
  <1>21. LockSound'
    <2>1. \A r \in Proc : holds'[r] = IF r = p THEN holds[r] \ D ELSE holds[r]
      <3>1. holds[p] \subseteq D
        BY <1>1, <1>5 DEF LockSound, ObjectsTyped
      <3>2. holds[p] \ D = {}
        BY <3>1
      <3> QED
        BY <1>1, <1>2, <3>2 DEF ObjectsTyped
    <2>2. kernel_pc \in [Proc -> PC]
      BY <1>1 DEF Undelayed
    <2>3. \A id \in D : waiters[id] # <<>> => state'[Head(waiters[id])] # "BLOCKED"
      BY <1>5, <1>11, <1>17
    <2>4. owner' = [id \in Id |-> IF id \in D THEN NextOwner(id) ELSE owner[id]]
      BY <1>2, <1>4
    <2>5. HandsOff(p, D)
      BY <1>2, <1>5, <1>17, <1>20, <2>1, <2>3, <2>4 DEF HandsOff
    <2> QED
      BY <1>1, <2>2, <2>5, LocksHandedOff
  <1>22. PipesInv'
    BY <1>1, <1>2, <1>20, PipesSame
  <1> QED
    BY <1>2, <1>16, <1>18, <1>19, <1>21, <1>22 DEF IpcInv, ObjectsInv, QueuesLinked

(* A step that changes nothing but, perhaps, halted.                       *)
LEMMA HaltedKeeps ==
  ASSUME IpcInv, halted' \in BOOLEAN,
         UNCHANGED <<state, ready_queue, current_process, clock_ticks, delay_until,
                     kernel_pc, ipcVars>>
  PROVE  IpcInv'
  <1>1. UNCHANGED <<type, owner, waiters, buf, cap, call, holds, sent, delivered>>
    BY DEF ipcVars, objectVars, historyVars
  <1>2. Undelayed(PC) /\ ObjectsTyped /\ QueuesLinked /\ LockSound /\ PipesInv
    BY DEF IpcInv, ObjectsInv
  <1>3. Undelayed(PC)'
    BY <1>2, UndelayedReturn DEF Undelayed
  <1>4. ObjectsTyped'
    BY <1>1, <1>2 DEF ObjectsTyped, CallsTyped
  <1>5. QueuesLinked'
    <2>1. Linked(state, kernel_pc, type, call, waiters)
      BY <1>2 DEF QueuesLinked
    <2> QED
      BY <1>1, <2>1 DEF QueuesLinked
  <1>6. LockSound'
    BY <1>1, <1>2 DEF LockSound
  <1>7. PipesInv'
    BY <1>1, <1>2, PipesSame
  <1> QED
    BY <1>3, <1>4, <1>5, <1>6, <1>7 DEF IpcInv, ObjectsInv

----------------------------------------------------------------------------
(* The invariant.                                                          *)

LEMMA InitInv ==
  ASSUME Init
  PROVE  IpcInv
  <1>1. PICK rq \in Ascending(Live) : SchedInit(Live, rq)
    BY DEF Init
  <1>2. Live \subseteq Proc /\ Idle \notin Live /\ InitProc \notin Live
    BY IpcAssumption
  <1>3. rq \in Seq(Proc) /\ IsInjective(rq) /\ Range(rq) \subseteq Live
    BY <1>2, AscendingInjects
  <1>4. \A p \in Proc : state[p] = IF p \in {Idle, InitProc} THEN "RUNNING"
                                   ELSE IF p \in Live THEN "READY" ELSE "EMPTY"
    BY <1>1 DEF SchedInit
  <1>5. SchedulerSound
    BY <1>1, <1>2, <1>3, <1>4, SchedAssumption DEF SchedInit, SchedulerSound
  <1>6. Undelayed(PC)
    <2>1. state \in [Proc -> ProcState] /\ state[Idle] = "RUNNING"
      BY <1>1, SchedAssumption DEF SchedInit, ProcState
    <2>2. clock_ticks \in 0 .. Word - 1
      BY <1>1, SchedAssumption DEF SchedInit
    <2>3. kernel_pc \in [Proc -> PC] /\ kernel_pc[Idle] = "user"
      BY <1>1, SchedAssumption DEF SchedInit, PC
    <2> QED
      BY <1>1, <1>3, <1>5, <2>1, <2>2, <2>3, SchedAssumption DEF SchedInit, Undelayed
  <1>7. <<>> \in Seq(Proc) /\ IsInjective(<<>>) /\ Range(<<>>) = {}
    BY EmptySeq DEF IsInjective, Range
  <1>8. /\ type = [id \in Id |-> "FREE"] /\ owner = [id \in Id |-> NULL]
        /\ waiters = [id \in Id |-> <<>>] /\ call = [p \in Proc |-> NoCall]
        /\ holds = [p \in Proc |-> {}]
    BY DEF Init
  <1>9. ObjectsTyped
    <2>1. CallsTyped
      <3>1. \A p \in Proc : kernel_pc[p] # "pipe_read"
        BY <1>1 DEF SchedInit
      <3> QED
        BY <1>8, <3>1, NoCallType DEF CallsTyped
    <2> QED
      BY <1>7, <1>8, <2>1 DEF ObjectsTyped, Kind
  <1>10. QueuesLinked
    <2>1. \A p \in Proc : state[p] # "BLOCKED"
      BY <1>4
    <2>2. \A p \in Proc : call[p].id \in Id
      BY <1>8, NoCallType
    <2> QED
      BY <1>7, <1>8, <2>1, <2>2 DEF QueuesLinked, Linked
  <1>11. LockSound
    BY <1>8 DEF LockSound
  <1>12. PipesInv
    <2>1. <<>> \in Seq(1 .. MaxBytes) /\ 0 \in 0 .. MaxBytes
      BY EmptySeq, IpcAssumption
    <2>2. PipesTyped
      BY <2>1 DEF Init, PipesTyped
    <2> QED
      BY <1>8, <2>2 DEF PipesInv, PipesSized, NoLostReader
  <1> QED
    BY <1>6, <1>9, <1>10, <1>11, <1>12 DEF IpcInv, ObjectsInv

LEMMA NextInv ==
  ASSUME IpcInv, [Next]_vars
  PROVE  IpcInv'
  <1>1. CASE Clock
    BY <1>1, ClockKeeps
  <1>2. CASE SysPipeInit \/ SysLockInit \/ SysCvarInit
    BY <1>2, AllocKeeps DEF SysPipeInit, SysLockInit, SysCvarInit
  <1>3. CASE \E id \in Id : SysReclaim(id)
    BY <1>3, ReclaimKeeps
  <1>4. CASE \E id \in Id, len \in 1 .. MaxLen : SysPipeRead(id, len)
    BY <1>4, PipeReadKeeps
  <1>5. CASE \E id \in Id, len \in 1 .. MaxLen : SysPipeWrite(id, len)
    BY <1>5, PipeWriteKeeps
  <1>6. CASE \E id \in Id : SysAcquire(id)
    BY <1>6, AcquireKeeps
  <1>7. CASE \E id \in Id : SysRelease(id)
    BY <1>7, ReleaseKeeps
  <1>8. CASE \E id \in Id : SysCvarSignal(id)
    BY <1>8, SignalKeeps
  <1>9. CASE \E id \in Id : SysCvarBroadcast(id)
    BY <1>9, BroadcastKeeps
  <1>10. CASE \E id, lock \in Id : SysCvarWait(id, lock)
    BY <1>10, CvarWaitKeeps
  <1>11. CASE Resume
    BY <1>11, PipeReadResumedKeeps, AcquireResumedKeeps, CvarWaitResumedKeeps,
       ResumedToNothingKeeps DEF Resume
  <1>12. CASE \E p \in Proc : ProcessExitCurrent(p)
    BY <1>12, ExitKeeps
  <1>13. CASE InitExit
    BY <1>13, HaltedKeeps DEF InitExit
  <1>14. CASE Stopped
    BY <1>14, HaltedKeeps DEF Stopped, Halted, schedVars, IpcInv, Undelayed
  <1>15. CASE UNCHANGED vars
    BY <1>15, HaltedKeeps DEF vars, schedVars, IpcInv, Undelayed
  <1>16. CASE Lost
    BY <1>15, <1>16 DEF Lost
  <1> QED
    BY <1>1, <1>2, <1>3, <1>4, <1>5, <1>6, <1>7, <1>8, <1>9, <1>10, <1>11, <1>12,
       <1>13, <1>14, <1>15, <1>16 DEF Next

(* IpcInv holds in every reachable state, whatever sequence of PipeInit,   *)
(* PipeRead, PipeWrite, Acquire, Release, CvarWait, CvarSignal, Reclaim    *)
(* and Exit calls the programs make.                                       *)
THEOREM IpcCorrect == Spec => []IpcInv
  <1>1. Init => IpcInv
    BY InitInv
  <1>2. IpcInv /\ [Next]_vars => IpcInv'
    BY NextInv
  <1> QED
    BY <1>1, <1>2, PTL DEF Spec

(* Every variable of the object table and of the scheduler keeps its type; *)
(* in particular PipeEnsureCapacity only leaves capacities that are ints,  *)
(* and PipeRead only bytes that were written.                              *)
THEOREM TypeCorrect == Spec => []TypeOK
  <1>1. IpcInv => TypeOK
    <2> SUFFICES ASSUME IpcInv
                 PROVE  TypeOK
      OBVIOUS
    <2>1. Undelayed(PC) /\ ObjectsTyped /\ PipesTyped
      BY DEF IpcInv, ObjectsInv, PipesInv
    <2>2. delay_until \in [Proc -> 0 .. Word - 1]
      BY <2>1, UndelayedGives
    <2>3. cap \in [Id -> 0 .. INT_MAX]
      <3>1. {0} \cup Capacity \subseteq 0 .. INT_MAX
        BY IpcAssumption DEF Capacity
      <3> QED
        BY <2>1, <3>1 DEF PipesTyped
    <2> QED
      BY <2>1, <2>2, <2>3 DEF TypeOK, Undelayed, ObjectsTyped, CallsTyped, PipesTyped, PC,
                              Kind, Call
  <1> QED
    BY <1>1, IpcCorrect, PTL

(* The handlers of ipc.c that block and wake processes keep the queue      *)
(* discipline of the scheduler: no woken process is queued to run twice,   *)
(* and the CPU never goes to a process that waits on an object.            *)
THEOREM SchedulerCorrect == Spec => []SchedulerSound
  <1>1. IpcInv => SchedulerSound
    BY DEF IpcInv, Undelayed
  <1> QED
    BY <1>1, IpcCorrect, PTL

(* A blocked process is on the queue of the object its call names, once    *)
(* and nowhere else, and the object keeps the kind it was called for: a    *)
(* slot that Reclaim frees never passes a waiter on to its next user.      *)
THEOREM WaitersCorrect == Spec => []WaitersSound
  <1>1. IpcInv => WaitersSound
    BY LinkedIsSound DEF IpcInv, ObjectsInv
  <1> QED
    BY <1>1, IpcCorrect, PTL

(* Acquire, Release, CvarWait and Exit keep mutual exclusion: whoever was  *)
(* told it holds a lock owns it, nobody waits for a free lock, and no dead *)
(* process owns one.                                                       *)
THEOREM LocksCorrect == Spec => []LockSound
  <1>1. IpcInv => LockSound
    BY DEF IpcInv, ObjectsInv
  <1> QED
    BY <1>1, IpcCorrect, PTL

(* No process sleeps in PipeRead on a pipe that has bytes.                 *)
THEOREM ReadersCorrect == Spec => []NoLostReader
  <1>1. IpcInv => NoLostReader
    BY DEF IpcInv, PipesInv
  <1> QED
    BY <1>1, IpcCorrect, PTL


----------------------------------------------------------------------------
(* The order in which a lock changes hands.                                *)

InOrder ==
  \A id \in Id :
    type[id] = "LOCK" /\ owner'[id] # owner[id] /\ waiters[id] # <<>> =>
      owner'[id] = Head(waiters[id])

LEMMA TakeInOrder ==
  ASSUME IpcInv, NEW id \in Id, AcquireLoop(current_process, id)
  PROVE  InOrder
  <1>1. CASE AcquireTake(current_process, id)
    <2> SUFFICES ASSUME NEW i \in Id, type[i] = "LOCK", owner'[i] # owner[i],
                        waiters[i] # <<>>
                 PROVE  FALSE
      BY DEF InOrder
    <2>1. owner \in [Id -> Proc \cup {NULL}] /\ LockSound
      BY DEF IpcInv, ObjectsInv, ObjectsTyped
    <2>2. owner[i] # NULL
      BY <2>1 DEF LockSound
    <2>3. i = id
      BY <1>1, <2>1 DEF AcquireTake
    <2> QED
      BY <1>1, <2>1, <2>2, <2>3 DEF AcquireTake
  <1>2. CASE AcquireBlock(current_process, id)
    BY <1>2 DEF AcquireBlock, InOrder
  <1> QED
    BY <1>1, <1>2 DEF AcquireLoop

LEMMA StepInOrder ==
  ASSUME IpcInv, [Next]_vars
  PROVE  InOrder
  <1>1. /\ owner \in [Id -> Proc \cup {NULL}] /\ type \in [Id -> Kind]
        /\ call \in [Proc -> Call]
    BY DEF IpcInv, ObjectsInv, ObjectsTyped, CallsTyped
  <1>2. CASE UNCHANGED owner
    BY <1>2 DEF InOrder
  <1>3. CASE SysPipeInit \/ SysLockInit \/ SysCvarInit
    BY <1>1, <1>3 DEF SysPipeInit, SysLockInit, SysCvarInit, AllocObject, InOrder
  <1>4. CASE \E id \in Id : SysAcquire(id)
    BY <1>4, TakeInOrder DEF SysAcquire
  <1>5. CASE \E p \in Proc : AcquireResumed(p) \/ CvarWaitResumed(p)
    <2>1. PICK p \in Proc : AcquireResumed(p) \/ CvarWaitResumed(p)
      BY <1>5
    <2>2. p = current_process /\ call[p].id \in Id /\ call[p].lock \in Id
      BY <1>1, <2>1 DEF AcquireResumed, CvarWaitResumed, Running, Call
    <2> QED
      BY <2>1, <2>2, TakeInOrder DEF AcquireResumed, CvarWaitResumed
  <1>6. CASE \E id \in Id : LockRelease(id)
    BY <1>1, <1>6 DEF LockRelease, NextOwner, InOrder
  <1>7. CASE \E p \in Proc : ProcessExitCurrent(p)
    BY <1>1, <1>7 DEF ProcessExitCurrent, IpcProcessExit, NextOwner, InOrder
  <1>8. CASE Clock \/ InitExit \/ Stopped
    BY <1>2, <1>8 DEF Clock, InitExit, Stopped, ipcVars, objectVars
  <1>9. CASE \E id \in Id : SysReclaim(id) \/ SysCvarSignal(id) \/ SysCvarBroadcast(id)
    BY <1>2, <1>9 DEF SysReclaim, SysCvarSignal, SysCvarBroadcast
  <1>10. CASE \E id \in Id, len \in 1 .. MaxLen : SysPipeRead(id, len) \/ SysPipeWrite(id, len)
    BY <1>2, <1>10 DEF SysPipeRead, SysPipeWrite, PipeLoop, PipeTake, PipeBlock,
                       PipeStore, PipeLost, objectVars
  <1>11. CASE \E id \in Id : SysRelease(id)
    BY <1>6, <1>11 DEF SysRelease
  <1>12. CASE \E id, lock \in Id : SysCvarWait(id, lock)
    BY <1>6, <1>12 DEF SysCvarWait
  <1>13. CASE \E p \in Proc : SysPipeReadResumed(p) \/ ResumedToNothing(p)
    BY <1>2, <1>13 DEF SysPipeReadResumed, ResumedToNothing, PipeLoop, PipeTake,
                       PipeBlock, objectVars
  <1>14. CASE Resume
    BY <1>5, <1>13, <1>14 DEF Resume
  <1>15. CASE UNCHANGED vars \/ Lost
    BY <1>2, <1>15 DEF Lost, vars, ipcVars, objectVars
  <1> QED
    BY <1>3, <1>4, <1>7, <1>8, <1>9, <1>10, <1>11, <1>12, <1>14, <1>15 DEF Next

(* Release, CvarWait and Exit hand a lock to the process that has waited   *)
(* for it longest, and Acquire never takes it from under the waiters.      *)
THEOREM HandedInOrder == Spec => NoBarging
  <1>1. IpcInv /\ [Next]_vars =>
          [\A id \in Id :
             type[id] = "LOCK" /\ owner'[id] # owner[id] /\ waiters[id] # <<>> =>
               owner'[id] = Head(waiters[id])]_vars
    BY StepInOrder DEF InOrder
  <1> QED
    BY <1>1, IpcCorrect, PTL DEF Spec, NoBarging

----------------------------------------------------------------------------
(* Pipes as byte streams.                                                  *)

LEMMA ShiftedRest ==
  ASSUME NEW S, NEW b \in Seq(S), NEW count \in 1 .. Len(b)
  PROVE  SubSeq(b, 1, count) \o Shifted(b, count, "ascending") = b
  <1>1. PICK g : g = SubSeq(b, 1, count)
    OBVIOUS
  <1>2. PICK r : r = Shifted(b, count, "ascending")
    OBVIOUS
  <1>3. Len(b) \in Nat /\ count \in Nat
    BY LenProperties
  <1>4. g \in Seq(S) /\ Len(g) = count /\ \A i \in 1 .. count : g[i] = b[i]
    BY <1>1, <1>3, SubSeqProperties
  <1>5. /\ r \in Seq(S) /\ Len(r) = Len(b) - count
        /\ \A i \in 1 .. Len(b) - count : r[i] = b[i + count]
    BY <1>2, ShiftedType
  <1>6. /\ g \o r \in Seq(S) /\ Len(g \o r) = Len(b)
        /\ \A i \in 1 .. Len(b) :
             (g \o r)[i] = IF i <= count THEN g[i] ELSE r[i - count]
    <2>1. g \in Seq(S) /\ r \in Seq(S)
      BY <1>4, <1>5
    <2>2. /\ g \o r \in Seq(S) /\ Len(g \o r) = Len(g) + Len(r)
          /\ \A i \in 1 .. Len(g) + Len(r) :
               (g \o r)[i] = IF i <= Len(g) THEN g[i] ELSE r[i - Len(g)]
      BY <2>1, ConcatProperties, Zenon
    <2>3. Len(g) + Len(r) = Len(b)
      BY <1>3, <1>4, <1>5
    <2> QED
      BY <1>4, <2>2, <2>3
  <1>7. \A i \in 1 .. Len(b) : (g \o r)[i] = b[i]
    <2> TAKE i \in 1 .. Len(b)
    <2>1. CASE i <= count
      BY <2>1, <1>3, <1>4, <1>6
    <2>2. CASE ~(i <= count)
      <3>1. i - count \in 1 .. Len(b) - count /\ (i - count) + count = i
        BY <2>2, <1>3
      <3>2. r[i - count] = b[i]
        BY <3>1, <1>5
      <3> QED
        BY <2>2, <3>2, <1>6
    <2> QED
      BY <2>1, <2>2
  <1> QED
    BY <1>1, <1>2, <1>6, <1>7, SeqEqual

Bytes(n) == [i \in 1 .. n |-> i]

LEMMA BytesGrow ==
  ASSUME NEW n \in Nat, NEW len \in Nat
  PROVE  Bytes(n) \o [i \in 1 .. len |-> n + i] = Bytes(n + len)
  <1>1. PICK old : old = Bytes(n)
    OBVIOUS
  <1>2. PICK new : new = [i \in 1 .. len |-> n + i]
    OBVIOUS
  <1>3. PICK all : all = Bytes(n + len)
    OBVIOUS
  <1>4. old \in [1 .. n -> Nat] /\ new \in [1 .. len -> Nat] /\ all \in [1 .. n + len -> Nat]
    BY <1>1, <1>2, <1>3 DEF Bytes
  <1>5. /\ old \in Seq(Nat) /\ Len(old) = n
        /\ new \in Seq(Nat) /\ Len(new) = len
        /\ all \in Seq(Nat) /\ Len(all) = n + len
    BY <1>4, FunctionSeq
  <1>6. /\ old \o new \in Seq(Nat) /\ Len(old \o new) = n + len
        /\ \A i \in 1 .. n + len :
             (old \o new)[i] = IF i <= n THEN old[i] ELSE new[i - n]
    BY <1>5, ConcatProperties
  <1>7. \A i \in 1 .. n + len : (old \o new)[i] = all[i]
    <2> TAKE i \in 1 .. n + len
    <2>1. all[i] = i
      BY <1>3 DEF Bytes
    <2>2. CASE i <= n
      BY <2>1, <2>2, <1>1, <1>6 DEF Bytes
    <2>3. CASE ~(i <= n)
      <3>1. i - n \in 1 .. len /\ n + (i - n) = i
        BY <2>3
      <3> QED
        BY <2>1, <2>3, <3>1, <1>2, <1>6
    <2> QED
      BY <2>2, <2>3
  <1> QED
    BY <1>1, <1>2, <1>3, <1>5, <1>6, <1>7, SeqEqual

(* PipeFifo less the bound on the buffer, which IpcInv has.                *)
Streams ==
  \A id \in Id : type[id] = "PIPE" => delivered[id] \o buf[id] = Bytes(sent[id])

LEMMA StreamsSame ==
  ASSUME IpcInv, Streams, UNCHANGED <<buf, sent, delivered>>,
         \A id \in Id : type'[id] = "PIPE" => type[id] = "PIPE"
  PROVE  Streams'
  BY DEF Streams

LEMMA AllocStreams ==
  ASSUME IpcInv, Streams, NEW kind \in Kinds, AllocObject(kind)
  PROVE  Streams'
  <1>1. PICK id \in Id :
          /\ type' = [type EXCEPT ![id] = kind]
          /\ buf' = [buf EXCEPT ![id] = <<>>]
          /\ sent' = [sent EXCEPT ![id] = 0]
          /\ delivered' = [delivered EXCEPT ![id] = <<>>]
    BY DEF AllocObject
  <1>2. /\ type \in [Id -> Kind] /\ PipesTyped
    BY DEF IpcInv, ObjectsInv, ObjectsTyped, PipesInv
  <1>3. /\ buf'[id] = <<>> /\ sent'[id] = 0 /\ delivered'[id] = <<>>
        /\ \A i \in Id : i # id =>
             /\ type'[i] = type[i] /\ buf'[i] = buf[i]
             /\ sent'[i] = sent[i] /\ delivered'[i] = delivered[i]
    BY <1>1, <1>2 DEF PipesTyped
  <1>4. <<>> \o <<>> = Bytes(0)
    <2>1. <<>> \in Seq(Nat) /\ <<>> \o <<>> = <<>>
      BY EmptySeq, ConcatEmptySeq
    <2>2. Bytes(0) \in [1 .. 0 -> Nat]
      BY DEF Bytes
    <2>3. Bytes(0) \in Seq(Nat) /\ Len(Bytes(0)) = 0
      BY <2>2, FunctionSeq
    <2> QED
      BY <2>1, <2>3, EmptySeq
  <1> QED
    BY <1>3, <1>4 DEF Streams

LEMMA TakeStreams ==
  ASSUME IpcInv, Streams, CopyOrders = {"ascending"},
         NEW p \in Proc, NEW id \in Id, NEW len \in Nat \ {0}, PipeTake(p, id, len)
  PROVE  Streams'
  <1> DEFINE count == IF Len(buf[id]) > len THEN len ELSE Len(buf[id])
  <1>1. PipesTyped
    BY DEF IpcInv, PipesInv
  <1>2. /\ buf[id] # <<>>
        /\ buf' = [buf EXCEPT ![id] = Shifted(buf[id], count, "ascending")]
        /\ delivered' = [delivered EXCEPT
                           ![id] = delivered[id] \o SubSeq(buf[id], 1, count)]
        /\ UNCHANGED <<type, sent>>
    BY <1>1 DEF PipeTake, PipesTyped
  <1>3. PICK b : b = buf[id]
    OBVIOUS
  <1>4. PICK d : d = delivered[id]
    OBVIOUS
  <1>5. PICK n : n = count
    OBVIOUS
  <1>6. b \in Seq(1 .. MaxBytes) /\ d \in Seq(1 .. MaxBytes) /\ b # <<>>
    BY <1>1, <1>2, <1>3, <1>4 DEF PipesTyped
  <1>7. n = IF Len(b) > len THEN len ELSE Len(b)
    BY <1>3, <1>5
  <1>8. PICK g : g = SubSeq(b, 1, n)
    OBVIOUS
  <1>9. PICK r : r = Shifted(b, n, "ascending")
    OBVIOUS
  <1>10. /\ buf' = [buf EXCEPT ![id] = r]
         /\ delivered' = [delivered EXCEPT ![id] = d \o g]
    BY <1>2, <1>3, <1>4, <1>5, <1>8, <1>9
  <1> HIDE DEF count
  <1>11. /\ n \in 1 .. Len(b)
         /\ g \in Seq(1 .. MaxBytes) /\ r \in Seq(1 .. MaxBytes)
    BY <1>6, <1>7, <1>8, <1>9, TakeSplits
  <1>12. g \o r = b
    BY <1>6, <1>8, <1>9, <1>11, ShiftedRest
  <1>13. (d \o g) \o r = d \o b
    <2>1. PICK S : S = 1 .. MaxBytes
      OBVIOUS
    <2>2. d \in Seq(S) /\ g \in Seq(S) /\ r \in Seq(S)
      BY <1>6, <1>11, <2>1
    <2>3. (d \o g) \o r = d \o (g \o r)
      BY <2>2, ConcatAssociative, SMTT(20)
    <2> QED
      BY <1>12, <2>3
  <1>14. /\ buf'[id] = r /\ delivered'[id] = d \o g
         /\ \A i \in Id : i # id => buf'[i] = buf[i] /\ delivered'[i] = delivered[i]
    BY <1>1, <1>10 DEF PipesTyped
  <1> QED
    BY <1>2, <1>3, <1>4, <1>13, <1>14 DEF Streams

LEMMA WriteStreams ==
  ASSUME IpcInv, Streams, NEW id \in Id, NEW len \in 1 .. MaxLen, type[id] = "PIPE",
         NEW c, PipeStore(id, len, c)
  PROVE  Streams'
  <1>1. PipesTyped
    BY DEF IpcInv, PipesInv
  <1>2. PICK new : new = [i \in 1 .. len |-> sent[id] + i]
    OBVIOUS
  <1>3. /\ type[id] = "PIPE"
        /\ sent[id] + len <= MaxBytes
        /\ buf' = [buf EXCEPT ![id] = buf[id] \o new]
        /\ sent' = [sent EXCEPT ![id] = sent[id] + len]
        /\ UNCHANGED <<type, delivered>>
    BY <1>1, <1>2 DEF PipeStore, PipesTyped
  <1>4. PICK b : b = buf[id]
    OBVIOUS
  <1>5. PICK d : d = delivered[id]
    OBVIOUS
  <1>6. PICK n : n = sent[id]
    OBVIOUS
  <1>7. b \in Seq(Nat) /\ d \in Seq(Nat) /\ n \in Nat /\ len \in Nat
    <2>1. \A s \in Seq(1 .. MaxBytes) : s \in Seq(Nat)
      <3> TAKE s \in Seq(1 .. MaxBytes)
      <3>1. s \in [1 .. Len(s) -> 1 .. MaxBytes] /\ Len(s) \in Nat
        BY LenProperties
      <3>2. s \in [1 .. Len(s) -> Nat]
        BY <3>1
      <3> QED
        BY <3>1, <3>2, FunctionSeq
    <2> QED
      BY <1>1, <1>4, <1>5, <1>6, <2>1, IpcAssumption DEF PipesTyped
  <1>8. new \in Seq(Nat)
    <2>1. new \in [1 .. len -> Nat]
      BY <1>2, <1>6, <1>7
    <2> QED
      BY <1>7, <2>1, FunctionSeq
  <1>9. d \o b = Bytes(n)
    BY <1>3, <1>4, <1>5, <1>6 DEF Streams
  <1>10. d \o (b \o new) = Bytes(n + len)
    <2>1. PICK S : S = Nat
      OBVIOUS
    <2>2. b \in Seq(S) /\ d \in Seq(S) /\ new \in Seq(S)
      BY <1>7, <1>8, <2>1
    <2>3. (d \o b) \o new = d \o (b \o new)
      BY <2>2, ConcatAssociative, SMTT(20)
    <2>4. Bytes(n) \o new = Bytes(n + len)
      BY <1>2, <1>6, <1>7, BytesGrow
    <2> QED
      BY <1>9, <2>3, <2>4
  <1>11. /\ buf'[id] = b \o new /\ sent'[id] = n + len /\ delivered'[id] = d
         /\ \A i \in Id : i # id =>
              buf'[i] = buf[i] /\ sent'[i] = sent[i] /\ delivered'[i] = delivered[i]
    BY <1>1, <1>3, <1>4, <1>5, <1>6 DEF PipesTyped
  <1> QED
    BY <1>3, <1>10, <1>11 DEF Streams

LEMMA StepStreams ==
  ASSUME IpcInv, Streams, CopyOrders = {"ascending"}, [Next]_vars
  PROVE  Streams'
  <1>1. /\ type \in [Id -> Kind] /\ buf \in [Id -> Seq(1 .. MaxBytes)]
        /\ sent \in [Id -> 0 .. MaxBytes] /\ delivered \in [Id -> Seq(1 .. MaxBytes)]
        /\ call \in [Proc -> Call] /\ current_process \in Proc
        /\ \A p \in Proc : kernel_pc[p] = "pipe_read" => call[p].len # 0
    BY DEF IpcInv, Undelayed, ObjectsInv, ObjectsTyped, CallsTyped, PipesInv, PipesTyped
  <1>2. CASE UNCHANGED <<type, buf, sent, delivered>>
    BY <1>2, StreamsSame
  <1>3. CASE SysPipeInit \/ SysLockInit \/ SysCvarInit
    BY <1>3, AllocStreams DEF SysPipeInit, SysLockInit, SysCvarInit, AllocObject
  <1>4. CASE \E id \in Id : SysReclaim(id)
    <2>1. PICK id \in Id : SysReclaim(id)
      BY <1>4
    <2>2. /\ type'[id] = "FREE"
          /\ \A i \in Id : i # id =>
               /\ type'[i] = type[i] /\ buf'[i] = buf[i]
               /\ sent'[i] = sent[i] /\ delivered'[i] = delivered[i]
      BY <1>1, <2>1 DEF SysReclaim
    <2> QED
      BY <2>2 DEF Streams
  <1>5. CASE \E id \in Id, len \in 1 .. MaxLen : SysPipeRead(id, len)
    <2>1. PICK id \in Id, len \in 1 .. MaxLen : SysPipeRead(id, len)
      BY <1>5
    <2>2. len \in Nat \ {0}
      BY IpcAssumption
    <2> QED
      BY <1>1, <1>2, <2>1, <2>2, TakeStreams
      DEF SysPipeRead, PipeLoop, PipeBlock, historyVars
  <1>6. CASE \E id \in Id, len \in 1 .. MaxLen : SysPipeWrite(id, len)
    <2>1. ASSUME NEW id, NEW len, NEW where, PipeLost(id, len, where)
          PROVE  Streams'
      BY <1>2, <2>1 DEF PipeLost, objectVars, historyVars
    <2> QED
      BY <1>6, <2>1, WriteStreams DEF SysPipeWrite
  <1>7. CASE \E p \in Proc : SysPipeReadResumed(p)
    <2>1. PICK p \in Proc : SysPipeReadResumed(p)
      BY <1>7
    <2>2. call[p].id \in Id /\ call[p].len \in Nat \ {0}
      BY <1>1, <2>1, IpcAssumption DEF SysPipeReadResumed, Running, Call
    <2> QED
      BY <1>2, <2>1, <2>2, TakeStreams
      DEF SysPipeReadResumed, PipeLoop, PipeBlock, historyVars
  <1>8. ASSUME NEW p, NEW id, AcquireLoop(p, id)
        PROVE  Streams'
    BY <1>2, <1>8 DEF AcquireLoop, AcquireTake, AcquireBlock, historyVars
  <1>9. CASE \E id \in Id : SysAcquire(id)
    BY <1>8, <1>9 DEF SysAcquire
  <1>10. CASE \E id \in Id : SysRelease(id) \/ SysCvarSignal(id) \/ SysCvarBroadcast(id)
    BY <1>2, <1>10 DEF SysRelease, SysCvarSignal, SysCvarBroadcast, historyVars
  <1>11. CASE \E id, lock \in Id : SysCvarWait(id, lock)
    BY <1>2, <1>11 DEF SysCvarWait
  <1>12. CASE \E p \in Proc : AcquireResumed(p) \/ CvarWaitResumed(p)
    BY <1>8, <1>12 DEF AcquireResumed, CvarWaitResumed
  <1>13. CASE \E p \in Proc : ResumedToNothing(p)
    BY <1>2, <1>13 DEF ResumedToNothing, objectVars, historyVars
  <1>14. CASE Resume
    BY <1>7, <1>12, <1>13, <1>14 DEF Resume
  <1>15. CASE \E p \in Proc : ProcessExitCurrent(p)
    BY <1>2, <1>15 DEF ProcessExitCurrent
  <1>16. CASE Clock \/ InitExit \/ Stopped \/ Lost \/ UNCHANGED vars
    BY <1>2, <1>16
    DEF Clock, InitExit, Stopped, Lost, vars, ipcVars, objectVars, historyVars
  <1> QED
    BY <1>3, <1>4, <1>5, <1>6, <1>9, <1>10, <1>11, <1>14, <1>15, <1>16 DEF Next

(* The writes the kernel does not come back from: only the current process *)
(* can be in one, and its sum is out of the range of int, or more than     *)
(* half of it.                                                             *)
Gone == {"growing", "overrun"}

Excessive(pc, asked) ==
  /\ pc = "overrun" => asked > INT_MAX
  /\ pc = "growing" => 2 * asked > INT_MAX + 1

LostWrites ==
  \A p \in Proc : kernel_pc[p] \in Gone =>
    p = current_process /\ Excessive(kernel_pc[p], Len(buf[call[p].id]) + call[p].len)

(* Nothing happens any more once the current process is in such a write.   *)
LEMMA LostStays ==
  ASSUME IpcInv, kernel_pc[current_process] \in Gone, [Next]_vars
  PROVE  UNCHANGED <<kernel_pc, call, buf, current_process>>
  <1>1. /\ ~InUserMode /\ ~CanCall
        /\ \A p \in Proc, pc \in Sleeps : ~Running(p, pc)
    BY DEF InUserMode, CanCall, Running, Gone, Sleeps
  <1>2. ~Clock /\ ~InitExit /\ ~SysPipeInit /\ ~SysLockInit /\ ~SysCvarInit
    BY <1>1 DEF Clock, TrapClock, InitExit, SysPipeInit, SysLockInit, SysCvarInit,
                AllocObject
  <1>3. \A id \in Id, len \in 1 .. MaxLen : ~SysPipeRead(id, len) /\ ~SysPipeWrite(id, len)
    BY <1>1 DEF SysPipeRead, SysPipeWrite
  <1>4. \A id \in Id : /\ ~SysReclaim(id) /\ ~SysAcquire(id) /\ ~SysRelease(id)
                       /\ ~SysCvarSignal(id) /\ ~SysCvarBroadcast(id)
    BY <1>1 DEF SysReclaim, SysAcquire, SysRelease, SysCvarSignal, SysCvarBroadcast
  <1>5. /\ \A id, lock \in Id : ~SysCvarWait(id, lock)
        /\ \A p \in Proc : ~ProcessExitCurrent(p)
    BY <1>1 DEF SysCvarWait, ProcessExitCurrent
  <1>6. ~Resume
    BY <1>1 DEF Resume, SysPipeReadResumed, AcquireResumed, CvarWaitResumed,
                ResumedToNothing, Sleeps
  <1>7. Stopped \/ Lost \/ UNCHANGED vars
    BY <1>2, <1>3, <1>4, <1>5, <1>6 DEF Next
  <1> QED
    BY <1>7 DEF Stopped, Halted, Lost, vars, schedVars, ipcVars, objectVars

(* No other step puts a process into such a write.                         *)
NoneGone == \A p \in Proc : kernel_pc[p] \notin Gone

LEMMA OthersComeBack ==
  ASSUME IpcInv, NoneGone, [Next]_vars,
         ~\E id \in Id, len \in 1 .. MaxLen : SysPipeWrite(id, len)
  PROVE  NoneGone'
  <1>1. kernel_pc \in [Proc -> PC]
    BY DEF IpcInv, Undelayed
  <1>2. CASE UNCHANGED kernel_pc
    BY <1>2 DEF NoneGone
  <1>3. ASSUME NEW p, NEW pc \in {"user"} \cup Sleeps,
               kernel_pc' = [kernel_pc EXCEPT ![p] = pc]
        PROVE  NoneGone'
    BY <1>1, <1>3 DEF NoneGone, Gone, Sleeps
  <1>4. ASSUME NEW p, Returns(p)
        PROVE  NoneGone'
    BY <1>3, <1>4 DEF Returns
  <1>5. ASSUME NEW p, NEW id, NEW pc \in Sleeps, NEW args, NEW st, NEW rq, NEW q,
               BlockOnQueue(p, id, pc, args, st, rq, q)
        PROVE  NoneGone'
    BY <1>3, <1>5 DEF BlockOnQueue
  <1>6. "pipe_read" \in Sleeps /\ "acquire" \in Sleeps /\ "cvar_wait" \in Sleeps
    BY DEF Sleeps
  <1>7. ASSUME NEW p, NEW id, NEW len, PipeLoop(p, id, len)
        PROVE  NoneGone'
    BY <1>4, <1>5, <1>6, <1>7 DEF PipeLoop, PipeTake, PipeBlock
  <1>8. ASSUME NEW p, NEW id, AcquireLoop(p, id)
        PROVE  NoneGone'
    BY <1>4, <1>5, <1>6, <1>8 DEF AcquireLoop, AcquireTake, AcquireBlock
  <1>9. CASE Clock \/ InitExit \/ Stopped \/ Lost \/ UNCHANGED vars
    BY <1>2, <1>9 DEF Clock, TrapClock, InitExit, Stopped, Halted, Lost, vars, schedVars
  <1>10. CASE SysPipeInit \/ SysLockInit \/ SysCvarInit
    BY <1>2, <1>10 DEF SysPipeInit, SysLockInit, SysCvarInit, AllocObject, schedVars
  <1>11. CASE \E id \in Id : \/ SysReclaim(id) \/ SysRelease(id)
                             \/ SysCvarSignal(id) \/ SysCvarBroadcast(id)
    BY <1>2, <1>11 DEF SysReclaim, SysRelease, SysCvarSignal, SysCvarBroadcast, schedVars
  <1>12. CASE \E id \in Id, len \in 1 .. MaxLen : SysPipeRead(id, len)
    BY <1>7, <1>12 DEF SysPipeRead
  <1>13. CASE \E id \in Id : SysAcquire(id)
    BY <1>8, <1>13 DEF SysAcquire
  <1>14. CASE \E id, lock \in Id : SysCvarWait(id, lock)
    BY <1>5, <1>6, <1>14 DEF SysCvarWait
  <1>15. CASE Resume
    BY <1>4, <1>7, <1>8, <1>15 DEF Resume, SysPipeReadResumed, AcquireResumed,
                                   CvarWaitResumed, ResumedToNothing
  <1>16. CASE \E p \in Proc : ProcessExitCurrent(p)
    BY <1>2, <1>16 DEF ProcessExitCurrent
  <1> QED
    BY <1>9, <1>10, <1>11, <1>12, <1>13, <1>14, <1>15, <1>16 DEF Next

LEMMA StepLostWrites ==
  ASSUME IpcInv, LostWrites, [Next]_vars
  PROVE  LostWrites'
  <1>1. /\ current_process \in Proc /\ kernel_pc \in [Proc -> PC]
        /\ call \in [Proc -> Call] /\ NoCall \in Call
    BY NoCallType DEF IpcInv, Undelayed, ObjectsInv, ObjectsTyped, CallsTyped
  <1>2. CASE kernel_pc[current_process] \in Gone
    BY <1>2, LostStays DEF LostWrites
  <1>3. CASE kernel_pc[current_process] \notin Gone
    <2>1. NoneGone
      BY <1>3 DEF LostWrites, NoneGone
    <2>2. CASE ~\E id \in Id, len \in 1 .. MaxLen : SysPipeWrite(id, len)
      BY <2>1, <2>2, OthersComeBack DEF NoneGone, LostWrites
    <2>3. ASSUME NEW id \in Id, NEW len \in 1 .. MaxLen, SysPipeWrite(id, len)
          PROVE  LostWrites'
      <3>1. Written(id, len)
        BY <2>3, PipeWriteCases
      <3>2. CASE \E c \in Capacity : PipeStore(id, len, c)
        BY <2>1, <3>2 DEF PipeStore, NoneGone, LostWrites
      <3>3. ASSUME NEW where \in Gone, PipeLost(id, len, where),
                   Excessive(where, Len(buf[id]) + len)
            PROVE  LostWrites'
        <4>1. /\ kernel_pc' = [kernel_pc EXCEPT ![current_process] = where]
              /\ call' = [call EXCEPT ![current_process] =
                                        [NoCall EXCEPT !.id = id, !.len = len]]
              /\ UNCHANGED <<current_process, buf>>
          BY <3>3 DEF PipeLost, objectVars
        <4>2. kernel_pc'[current_process] = where
          BY <1>1, <4>1
        <4>3. call'[current_process].id = id /\ call'[current_process].len = len
          BY <1>1, <4>1 DEF Call
        <4>4. \A p \in Proc : p # current_process => kernel_pc'[p] \notin Gone
          BY <1>1, <2>1, <4>1 DEF NoneGone
        <4> QED
          BY <3>3, <4>1, <4>2, <4>3, <4>4 DEF LostWrites
      <3> QED
        BY <3>1, <3>2, <3>3 DEF Written, Excessive, Gone
    <2> QED
      BY <2>2, <2>3
  <1> QED
    BY <1>2, <1>3

(* When memcpy copies the overlapping rest of a pipe from its lowest byte  *)
(* up, what PipeRead returns, followed by what is buffered, is what        *)
(* PipeWrite was given, in order, and the buffer never outgrows its        *)
(* allocation; SysPipeWrite writes past its end only when its sum leaves   *)
(* the range of int, and PipeEnsureCapacity doubles for ever only when     *)
(* more than half of that range is asked for.                              *)
THEOREM PipesCorrect == CopyOrders = {"ascending"} /\ Spec => []PipeFifo
  <1> SUFFICES ASSUME CopyOrders = {"ascending"}
               PROVE  Spec => []PipeFifo
    OBVIOUS
  <1>1. Init => Streams /\ LostWrites
    BY DEF Init, SchedInit, Streams, LostWrites, Gone
  <1>2. IpcInv /\ Streams /\ [Next]_vars => Streams'
    BY StepStreams
  <1>3. IpcInv /\ LostWrites /\ [Next]_vars => LostWrites'
    BY StepLostWrites
  <1>4. IpcInv /\ Streams /\ LostWrites => PipeFifo
    BY DEF IpcInv, PipesInv, PipesSized, Streams, LostWrites, Gone, Excessive, PipeFifo,
           Bytes
  <1> QED
    BY <1>1, <1>2, <1>3, <1>4, IpcCorrect, PTL DEF Spec

============================================================================
