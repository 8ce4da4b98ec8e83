---------------------------- MODULE QueueProofs ----------------------------
(***************************************************************************)
(* The linked queues of Queue.c are FIFO sequences, for every set of       *)
(* queues and every finite set of entries.                                 *)
(*                                                                         *)
(* The links alone are no inductive invariant: that QueuePopFront finds an *)
(* entry behind the head of a queue whose length is not 0 needs the length *)
(* to be that of the ring.  The invariant is that there are sequences, one *)
(* per queue and without a common entry, that the rings and the lengths    *)
(* are those of; Walk reads them off the links.                            *)
(***************************************************************************)
EXTENDS Queue, TLAPS, SequenceTheorems, FiniteSetTheorems, WellFoundedInduction

(* The nodes of the ring of q, from its head 0 and back to it, when c[q]   *)
(* is what the queue holds.                                                *)
At(c, q, i) == IF i \in 1 .. Len(c[q]) THEN c[q][i] ELSE q

(* The links are those of the rings of c.                                  *)
Rings(c) ==
  \A q \in Queues : \A i \in 0 .. Len(c[q]) :
    /\ next[At(c, q, i)] = At(c, q, i + 1)
    /\ prev[At(c, q, i + 1)] = At(c, q, i)

(* An entry is in one queue at most, and once.                             *)
Apart(c) ==
  \A q, r \in Queues : \A i \in 1 .. Len(c[q]), j \in 1 .. Len(c[r]) :
    c[q][i] = c[r][j] => q = r /\ i = j

(* An entry that is in no queue has no links.                              *)
OthersUnlinked(c) ==
  \A e \in Entries :
    (\A q \in Queues : \A i \in 1 .. Len(c[q]) : c[q][i] # e) => Unlinked(e)

Holds(c) ==
  /\ c \in [Queues -> Seq(Entries)]
  /\ Rings(c)
  /\ Apart(c)
  /\ OthersUnlinked(c)
  /\ length = [q \in Queues |-> Len(c[q])]

LinksTyped ==
  prev \in [Node -> Node \cup {NULL}] /\ next \in [Node -> Node \cup {NULL}]

QueueInv == TypeOK /\ \E c : Holds(c)

----------------------------------------------------------------------------

(* Every nonempty set of naturals has a least element: what stands for     *)
(* induction in the proofs below.                                          *)
LEMMA Least ==
  ASSUME NEW T \in SUBSET Nat, T # {}
  PROVE  \E x \in T : \A y \in T : x <= y
  <1>1. \E x \in T : \A y \in T : ~(<<y, x>> \in OpToRel(<, Nat))
    BY WFMin, NatLessThanWellFounded, Zenon
  <1>2. PICK x \in T : \A y \in T : ~(<<y, x>> \in OpToRel(<, Nat))
    BY <1>1, Zenon
  <1>3. ASSUME NEW y \in T, y < x
        PROVE  <<y, x>> \in OpToRel(<, Nat)
    BY <1>3 DEF OpToRel
  <1>4. \A y \in T : ~(y < x)
    BY <1>2, <1>3, Zenon
  <1> QED
    BY <1>4

(* The sequences of c and their elements.                                  *)
LEMMA Contents ==
  ASSUME NEW c, Holds(c), NEW q \in Queues
  PROVE  /\ c[q] \in Seq(Entries)
         /\ Len(c[q]) \in Nat
         /\ \A i \in 1 .. Len(c[q]) : c[q][i] \in Entries
         /\ length[q] = Len(c[q])
  BY LenProperties, ElementOfSeq DEF Holds

(* An entry without links is in no queue.                                  *)
LEMMA UnlinkedIsOut ==
  ASSUME NEW c, Holds(c), NEW e \in Entries, next[e] = NULL
  PROVE  \A q \in Queues : \A i \in 1 .. Len(c[q]) : c[q][i] # e
  <1> SUFFICES ASSUME NEW q \in Queues, NEW i \in 1 .. Len(c[q]), c[q][i] = e
               PROVE  FALSE
    OBVIOUS
  <1>1. Len(c[q]) \in Nat /\ \A j \in 1 .. Len(c[q]) : c[q][j] \in Entries
    BY Contents
  <1>2. i \in 0 .. Len(c[q]) /\ At(c, q, i) = e
    BY <1>1 DEF At
  <1>3. next[e] = At(c, q, i + 1)
    BY <1>2 DEF Holds, Rings
  <1>4. At(c, q, i + 1) \in Node
    BY <1>1 DEF At, Node
  <1> QED
    BY <1>3, <1>4, QueueAssumption DEF Node

(* The links of linked nodes are those of rings.                           *)
LEMMA HoldsGivesLinks ==
  ASSUME TypeOK, NEW c, Holds(c)
  PROVE  LinksSound
  <1>1. ASSUME NEW q \in Queues, NEW i \in 0 .. Len(c[q])
        PROVE  /\ At(c, q, i) \in Node /\ At(c, q, i + 1) \in Node
               /\ next[At(c, q, i)] = At(c, q, i + 1)
               /\ prev[At(c, q, i + 1)] = At(c, q, i)
    <2>1. Len(c[q]) \in Nat /\ \A j \in 1 .. Len(c[q]) : c[q][j] \in Entries
      BY Contents
    <2> QED
      BY <2>1 DEF At, Node, Holds, Rings
  <1>2. ASSUME NEW n \in Node
        PROVE  \/ /\ prev[n] = NULL /\ next[n] = NULL
                  /\ n \notin Queues
               \/ \E q \in Queues : \E i \in 0 .. Len(c[q]) : n = At(c, q, i)
    <2>1. CASE n \in Queues
      <3>1. Len(c[n]) \in Nat
        BY <2>1, Contents
      <3>2. n = At(c, n, 0) /\ 0 \in 0 .. Len(c[n])
        BY <3>1 DEF At
      <3> QED
        BY <2>1, <3>2
    <2>2. CASE n \in Entries
      <3>1. CASE \E q \in Queues : \E i \in 1 .. Len(c[q]) : c[q][i] = n
        <4>0. PICK q \in Queues : \E i \in 1 .. Len(c[q]) : c[q][i] = n
          BY <3>1
        <4>1. PICK i \in 1 .. Len(c[q]) : c[q][i] = n
          BY <4>0
        <4>2. Len(c[q]) \in Nat
          BY Contents
        <4>3. i \in 0 .. Len(c[q]) /\ n = At(c, q, i)
          BY <4>1, <4>2 DEF At
        <4> QED
          BY <4>3
      <3>2. CASE ~ \E q \in Queues : \E i \in 1 .. Len(c[q]) : c[q][i] = n
        BY <2>2, <3>2, QueueAssumption DEF Holds, OthersUnlinked, Unlinked
      <3> QED
        BY <3>1, <3>2
    <2> QED
      BY <2>1, <2>2 DEF Node
  (* Node i is also the successor of a node: of i - 1, or the head of the  *)
  (* last one.                                                             *)
  <1>3. ASSUME NEW q \in Queues, NEW i \in 0 .. Len(c[q])
        PROVE  \E j \in 0 .. Len(c[q]) : At(c, q, i) = At(c, q, j + 1)
    <2>1. Len(c[q]) \in Nat
      BY Contents
    <2>2. CASE i = 0
      <3>1. At(c, q, 0) = At(c, q, Len(c[q]) + 1) /\ Len(c[q]) \in 0 .. Len(c[q])
        BY <2>1 DEF At
      <3> QED
        BY <2>2, <3>1
    <2>3. CASE i # 0
      <3>1. i - 1 \in 0 .. Len(c[q]) /\ (i - 1) + 1 = i
        BY <2>1, <2>3
      <3> QED
        BY <3>1
    <2> QED
      BY <2>2, <2>3
  <1>4. ASSUME NEW n \in Node
        PROVE  /\ n \in Queues => prev[n] # NULL /\ next[n] # NULL
               /\ prev[n] = NULL <=> next[n] = NULL
               /\ next[n] # NULL => prev[next[n]] = n
               /\ prev[n] # NULL => next[prev[n]] = n
    <2>1. CASE /\ prev[n] = NULL /\ next[n] = NULL
               /\ n \notin Queues
      BY <2>1
    <2>2. CASE \E q \in Queues : \E i \in 0 .. Len(c[q]) : n = At(c, q, i)
      <3>0. PICK q \in Queues : \E i \in 0 .. Len(c[q]) : n = At(c, q, i)
        BY <2>2
      <3>1. PICK i \in 0 .. Len(c[q]) : n = At(c, q, i)
        BY <3>0
      <3>2. PICK j \in 0 .. Len(c[q]) : n = At(c, q, j + 1)
        BY <3>1, <1>3
      <3>3. /\ next[n] = At(c, q, i + 1) /\ prev[At(c, q, i + 1)] = n
            /\ prev[n] = At(c, q, j) /\ next[At(c, q, j)] = n
            /\ At(c, q, i + 1) \in Node /\ At(c, q, j) \in Node
        BY <3>1, <3>2, <1>1
      <3>4. At(c, q, i + 1) # NULL /\ At(c, q, j) # NULL
        BY <3>3, QueueAssumption DEF Node
      <3> QED
        BY <3>3, <3>4
    <2> QED
      BY <1>2, <2>1, <2>2
  <1> QED
    BY <1>4 DEF LinksSound, Node

----------------------------------------------------------------------------
(* Walk reads the sequences off the links.                                 *)

(* One step of a walk, and the walks of n steps from q.                    *)
Step(n) == IF n = NULL THEN NULL ELSE next[n]

IsPath(f, q, n) ==
  f = [k \in 0 .. n |-> IF k = 0 THEN q ELSE Step(f[k - 1])]

(* A walk can be any number of steps long.                                 *)
LEMMA PathExists ==
  ASSUME NEW q, NEW n \in Nat
  PROVE  \E f : IsPath(f, q, n)
  <1> DEFINE T == {m \in Nat : ~ \E f : IsPath(f, q, m)}
  <1> SUFFICES ASSUME T # {}
               PROVE  FALSE
    OBVIOUS
  <1>1. PICK m \in T : \A y \in T : m <= y
    BY Least
  <1>2. m # 0
    <2> SUFFICES ASSUME m = 0
                 PROVE  FALSE
      OBVIOUS
    <2> DEFINE g == [k \in 0 .. 0 |-> q]
    <2>1. g = [k \in 0 .. 0 |-> IF k = 0 THEN q ELSE Step(g[k - 1])]
      OBVIOUS
    <2>2. IsPath(g, q, 0)
      BY <2>1 DEF IsPath
    <2> QED
      BY <2>2
  <1>3. m - 1 \in Nat /\ m - 1 \notin T
    BY <1>1, <1>2
  <1>4. PICK f : IsPath(f, q, m - 1)
    BY <1>3
  <1> DEFINE g == [k \in 0 .. m |-> IF k = m THEN Step(f[m - 1]) ELSE f[k]]
  <1>5. ASSUME NEW k \in 0 .. m
        PROVE  g[k] = IF k = 0 THEN q ELSE Step(g[k - 1])
    <2>1. \A j \in 0 .. m - 1 : f[j] = IF j = 0 THEN q ELSE Step(f[j - 1])
      BY <1>4 DEF IsPath
    <2>2. CASE k = m
      BY <1>2, <2>2
    <2>3. CASE k # m
      <3>1. k \in 0 .. m - 1 /\ g[k] = f[k]
        BY <2>3
      <3>2. k # 0 => g[k - 1] = f[k - 1]
        BY <2>3
      <3> HIDE DEF g
      <3> QED
        BY <2>1, <3>1, <3>2
    <2> QED
      BY <2>2, <2>3
  <1>6. IsPath(g, q, m)
    <2>1. g = [k \in 0 .. m |-> g[k]]
      OBVIOUS
    <2> HIDE DEF g
    <2> QED
      BY <1>5, <2>1 DEF IsPath
  <1> QED
    BY <1>6

(* Walk without its local definitions.                                     *)
LEMMA WalkDef ==
  ASSUME NEW q \in Queues
  PROVE  \E f :
           /\ IsPath(f, q, Cardinality(Entries) + 1)
           /\ LET ends == {k \in 1 .. Cardinality(Entries) + 1 : f[k] \in {q, NULL}}
                  last == IF ends = {} THEN Cardinality(Entries)
                          ELSE CHOOSE k \in ends : \A j \in ends : k <= j
              IN  Walk(q) = [k \in 1 .. last - 1 |-> f[k]]
  <1> DEFINE N == Cardinality(Entries) + 1
             node == CHOOSE f : f = [k \in 0 .. N |-> IF k = 0 THEN q
                                        ELSE IF f[k - 1] = NULL THEN NULL ELSE next[f[k - 1]]]
  <1>1. N \in Nat
    BY FS_CardinalityType, QueueAssumption
  <1>2. \E f : f = [k \in 0 .. N |-> IF k = 0 THEN q
                         ELSE IF f[k - 1] = NULL THEN NULL ELSE next[f[k - 1]]]
    <2> HIDE DEF N, node
    <2>1. PICK f : IsPath(f, q, N)
      BY <1>1, PathExists
    <2>2. f = [k \in 0 .. N |-> IF k = 0 THEN q
                 ELSE IF f[k - 1] = NULL THEN NULL ELSE next[f[k - 1]]]
      BY <2>1 DEF IsPath, Step
    <2> QED
      BY <2>2, Zenon
  <1>3. IsPath(node, q, N)
    BY <1>2, ZenonT(30) DEF IsPath, Step
  <1> QED
    BY <1>3, ZenonT(30) DEF Walk

(* A queue holds no more entries than there are.                           *)
LEMMA LenBound ==
  ASSUME NEW c, Holds(c), NEW q \in Queues
  PROVE  Len(c[q]) <= Cardinality(Entries)
  <1>1. c[q] \in [1 .. Len(c[q]) -> Entries] /\ Len(c[q]) \in Nat
    BY Contents, LenProperties
  <1>2. c[q] \in Injection(1 .. Len(c[q]), Entries)
    BY <1>1 DEF Holds, Apart, Injection, IsInjective
  <1>3. Cardinality(1 .. Len(c[q])) = Len(c[q])
    BY <1>1, FS_Interval
  <1> QED
    BY <1>2, <1>3, FS_Injection, QueueAssumption

(* A walk from the head meets the entries in their order and then the head.*)
LEMMA PathFollows ==
  ASSUME NEW c, Holds(c), NEW q \in Queues, NEW n \in Nat, Len(c[q]) < n,
         NEW f, IsPath(f, q, n)
  PROVE  \A k \in 0 .. Len(c[q]) + 1 : f[k] = At(c, q, k)
  <1> DEFINE T == {k \in 0 .. Len(c[q]) + 1 : f[k] # At(c, q, k)}
  <1> SUFFICES ASSUME T # {}
               PROVE  FALSE
    OBVIOUS
  <1>1. /\ Len(c[q]) \in Nat
        /\ \A i \in 1 .. Len(c[q]) : c[q][i] \in Entries
    BY Contents
  <1>2. PICK m \in T : \A y \in T : m <= y
    <2>1. T \in SUBSET Nat
      BY <1>1
    <2> HIDE DEF T
    <2> QED
      BY <2>1, Least
  <1>3. \A k \in 0 .. n : f[k] = IF k = 0 THEN q ELSE Step(f[k - 1])
    BY DEF IsPath
  <1>4. m # 0
    BY <1>1, <1>3 DEF At
  <1>5. m - 1 \in 0 .. Len(c[q]) /\ m \in 0 .. n /\ m - 1 + 1 = m
    BY <1>1, <1>2, <1>4
  <1>6. f[m - 1] = At(c, q, m - 1)
    BY <1>1, <1>2, <1>5
  <1>7. next[At(c, q, m - 1)] = At(c, q, m)
    BY <1>5 DEF Holds, Rings
  <1>8. At(c, q, m - 1) # NULL
    BY <1>1, <1>5, QueueAssumption DEF At
  <1>9. f[m] = At(c, q, m)
    BY <1>3, <1>4, <1>5, <1>6, <1>7, <1>8 DEF Step
  <1> QED
    BY <1>2, <1>9

(* What Walk returns is what the queue holds.                              *)
LEMMA WalkIs ==
  ASSUME NEW c, Holds(c), NEW q \in Queues
  PROVE  Walk(q) = c[q]
  <1> DEFINE N == Cardinality(Entries)
             L == Len(c[q])
  <1>1. /\ L \in Nat /\ N \in Nat /\ L <= N
        /\ \A i \in 1 .. L : c[q][i] \in Entries
    BY Contents, LenBound, FS_CardinalityType, QueueAssumption
  <1>2. PICK f :
          /\ IsPath(f, q, N + 1)
          /\ LET ends == {k \in 1 .. N + 1 : f[k] \in {q, NULL}}
                 last == IF ends = {} THEN N
                         ELSE CHOOSE k \in ends : \A j \in ends : k <= j
             IN  Walk(q) = [k \in 1 .. last - 1 |-> f[k]]
    BY WalkDef
  <1> DEFINE ends == {k \in 1 .. N + 1 : f[k] \in {q, NULL}}
             last == IF ends = {} THEN N
                     ELSE CHOOSE k \in ends : \A j \in ends : k <= j
  <1>3. \A k \in 0 .. L + 1 : f[k] = At(c, q, k)
    BY <1>1, <1>2, PathFollows
  <1>4. \A k \in 1 .. L : f[k] = c[q][k]
    BY <1>1, <1>3 DEF At
  <1>5. f[L + 1] = q
    BY <1>1, <1>3 DEF At
  <1>6. L + 1 \in ends
    BY <1>1, <1>5
  <1>7. \A k \in ends : L + 1 <= k
    <2>1. \A k \in 1 .. L : f[k] \notin {q, NULL}
      BY <1>1, <1>4, QueueAssumption
    <2> QED
      BY <1>1, <2>1
  <1>8. last = L + 1
    <2>1. \A k \in ends : k \in Nat
      BY <1>1
    <2> HIDE DEF ends
    <2> QED
      BY <1>1, <1>6, <1>7, <2>1
  <1>9. Walk(q) = [k \in 1 .. L |-> f[k]]
    <2>1. Walk(q) = [k \in 1 .. last - 1 |-> f[k]]
      BY <1>2
    <2> HIDE DEF last
    <2> QED
      BY <1>1, <1>8, <2>1
  <1>10. c[q] = [k \in 1 .. L |-> c[q][k]]
    BY Contents, LenProperties
  <1> HIDE DEF L
  <1> QED
    BY <1>4, <1>9, <1>10

----------------------------------------------------------------------------
(* The operations on the links are those on the sequences.                 *)

(* The nodes of a ring are all different, and those of two rings too.      *)
LEMMA AtInjects ==
  ASSUME NEW c, Holds(c), NEW q \in Queues, NEW r \in Queues,
         NEW i \in 0 .. Len(c[q]) + 1, NEW j \in 0 .. Len(c[r]) + 1,
         At(c, q, i) = At(c, r, j)
  PROVE  /\ q = r
         /\ \/ i = j
            \/ i = 0 /\ j = Len(c[q]) + 1
            \/ j = 0 /\ i = Len(c[q]) + 1
  <1>1. /\ Len(c[q]) \in Nat /\ \A k \in 1 .. Len(c[q]) : c[q][k] \in Entries
        /\ Len(c[r]) \in Nat /\ \A k \in 1 .. Len(c[r]) : c[r][k] \in Entries
    BY Contents
  <1>2. CASE i \in 1 .. Len(c[q]) /\ j \in 1 .. Len(c[r])
    BY <1>2 DEF At, Holds, Apart
  <1>3. CASE ~(i \in 1 .. Len(c[q]) /\ j \in 1 .. Len(c[r]))
    BY <1>1, <1>3, QueueAssumption DEF At
  <1> QED
    BY <1>2, <1>3

(* QueuePushBack on an entry in no queue appends it.                       *)
LEMMA PushHolds ==
  ASSUME TypeOK, NEW c, Holds(c), NEW q \in Queues, NEW e \in Entries,
         Unlinked(e), QueuePushBack(q, e),
         NEW d, d = [c EXCEPT ![q] = Append(c[q], e)]
  PROVE  Holds(d)' /\ LinksTyped'
  <1> DEFINE L == Len(c[q])
             l == At(c, q, L)
  <1>1. \A r \in Queues :
          /\ c[r] \in Seq(Entries) /\ Len(c[r]) \in Nat
          /\ \A k \in 1 .. Len(c[r]) : c[r][k] \in Entries
    BY Contents
  <1>2. /\ d \in [Queues -> Seq(Entries)]
        /\ Len(d[q]) = L + 1 /\ d[q][L + 1] = e
        /\ \A k \in 1 .. L : d[q][k] = c[q][k]
        /\ \A r \in Queues \ {q} : d[r] = c[r]
    BY <1>1, AppendProperties DEF Holds
  <1>3. \A r \in Queues : \A k \in 1 .. Len(c[r]) : c[r][k] # e
    BY UnlinkedIsOut DEF Unlinked
  <1>4. e \notin Queues /\ e \in Node /\ q \in Node
    BY QueueAssumption DEF Node
  <1>5. \A r \in Queues : \A k \in 0 .. Len(c[r]) + 1 : At(c, r, k) \in Node \ {e}
    BY <1>1, <1>3, <1>4 DEF At, Node
  <1>6. prev[q] = l
    <2>1. L \in 0 .. Len(c[q]) /\ At(c, q, L + 1) = q
      BY <1>1 DEF At
    <2> QED
      BY <2>1 DEF Holds, Rings
  <1>7. /\ prev' = [prev EXCEPT ![e] = l, ![q] = e]
        /\ next' = [next EXCEPT ![e] = q, ![l] = e]
        /\ length' = [length EXCEPT ![q] = @ + 1]
    BY <1>6 DEF QueuePushBack
  <1>8. l \in Node \ {e}
    BY <1>1, <1>5
  <1>9. /\ next'[e] = q /\ next'[l] = e
        /\ prev'[e] = l /\ prev'[q] = e
        /\ \A n \in Node : n # e /\ n # l => next'[n] = next[n]
        /\ \A n \in Node : n # e /\ n # q => prev'[n] = prev[n]
    BY <1>4, <1>7, <1>8 DEF TypeOK
  <1>10. /\ \A k \in 0 .. L : At(d, q, k) = At(c, q, k)
         /\ At(d, q, L + 1) = e /\ At(d, q, L + 2) = q
    BY <1>1, <1>2 DEF At
  <1>12. \A r \in Queues : \A k \in 0 .. Len(c[r]) :
           /\ next[At(c, r, k)] = At(c, r, k + 1)
           /\ prev[At(c, r, k + 1)] = At(c, r, k)
    BY DEF Holds, Rings
  <1>13. ASSUME NEW r \in Queues \ {q}, NEW k \in 0 .. Len(d[r])
         PROVE  /\ next'[At(d, r, k)] = At(d, r, k + 1)
                /\ prev'[At(d, r, k + 1)] = At(d, r, k)
    <2>1. k \in 0 .. Len(c[r]) /\ k \in 0 .. Len(c[r]) + 1 /\ k + 1 \in 0 .. Len(c[r]) + 1
      BY <1>1, <1>2
    <2>2. L \in 0 .. Len(c[q]) + 1 /\ 0 \in 0 .. Len(c[q]) + 1 /\ At(c, q, 0) = q
      BY <1>1 DEF At
    <2>3. At(c, r, k) # l /\ At(c, r, k + 1) # q
      BY <2>1, <2>2, AtInjects
    <2>4. At(c, r, k) \in Node \ {e} /\ At(c, r, k + 1) \in Node \ {e}
      BY <1>5, <2>1
    <2>5. At(d, r, k) = At(c, r, k) /\ At(d, r, k + 1) = At(c, r, k + 1)
      BY <1>2 DEF At
    <2>6. next[At(c, r, k)] = At(c, r, k + 1) /\ prev[At(c, r, k + 1)] = At(c, r, k)
      BY <1>12, <2>1
    <2> HIDE DEF l
    <2>7. next'[At(c, r, k)] = next[At(c, r, k)]
      BY <1>9, <2>3, <2>4
    <2>8. prev'[At(c, r, k + 1)] = prev[At(c, r, k + 1)]
      BY <1>9, <2>3, <2>4
    <2> QED
      BY <2>5, <2>6, <2>7, <2>8
  <1>14. ASSUME NEW k \in 0 .. Len(d[q])
         PROVE  /\ next'[At(d, q, k)] = At(d, q, k + 1)
                /\ prev'[At(d, q, k + 1)] = At(d, q, k)
    <2>1. CASE k < L
      <3>1. k \in 0 .. L /\ k \in 0 .. L + 1 /\ k + 1 \in 0 .. L + 1 /\ k + 1 \in 0 .. L
            /\ L \in 0 .. L + 1 /\ 0 \in 0 .. L + 1 /\ At(c, q, 0) = q /\ k # L
            /\ k + 1 # 0 /\ k + 1 # L + 1 /\ L \in Nat
        BY <1>1, <2>1 DEF At
      <3>2. At(c, q, k) # l
        BY <3>1, AtInjects
      <3>3. At(c, q, k + 1) # q
        BY <3>1, AtInjects
      <3>4. At(c, q, k) \in Node \ {e} /\ At(c, q, k + 1) \in Node \ {e}
        BY <1>5, <3>1
      <3>5. At(d, q, k) = At(c, q, k) /\ At(d, q, k + 1) = At(c, q, k + 1)
        BY <1>10, <3>1
      <3>6. next[At(c, q, k)] = At(c, q, k + 1) /\ prev[At(c, q, k + 1)] = At(c, q, k)
        BY <1>12, <3>1
      <3> HIDE DEF l
      <3>7. next'[At(c, q, k)] = next[At(c, q, k)]
        BY <1>9, <3>2, <3>4
      <3>8. prev'[At(c, q, k + 1)] = prev[At(c, q, k + 1)]
        BY <1>9, <3>3, <3>4
      <3> QED
        BY <3>5, <3>6, <3>7, <3>8
    <2>2. CASE k = L
      <3>0. L \in 0 .. L
        BY <1>1
      <3>1. At(d, q, k) = l /\ At(d, q, k + 1) = e
        BY <1>10, <2>2, <3>0
      <3> QED
        BY <1>9, <3>1
    <2>3. CASE k = L + 1
      <3>1. At(d, q, k) = e /\ At(d, q, k + 1) = q
        BY <1>1, <1>10, <2>3
      <3> QED
        BY <1>9, <3>1
    <2> QED
      BY <1>1, <1>2, <2>1, <2>2, <2>3
  <1>15. Rings(d)'
    BY <1>13, <1>14 DEF Rings
  <1>16. Apart(d)
    <2>1. \A r, s \in Queues : \A i \in 1 .. Len(c[r]), j \in 1 .. Len(c[s]) :
            c[r][i] = c[s][j] => r = s /\ i = j
      BY DEF Holds, Apart
    <2> QED
      BY <1>1, <1>2, <1>3, <2>1 DEF Apart
  <1>17. ASSUME NEW x \in Entries,
                \A r \in Queues : \A i \in 1 .. Len(d[r]) : d[r][i] # x
         PROVE  prev'[x] = NULL /\ next'[x] = NULL
    <2>1. x # e /\ x # q /\ x \in Node
      <3>1. L + 1 \in 1 .. Len(d[q])
        BY <1>1, <1>2
      <3> QED
        BY <1>2, <1>17, <3>1, QueueAssumption DEF Node
    <2>2. \A r \in Queues : \A i \in 1 .. Len(c[r]) : c[r][i] # x
      BY <1>1, <1>2, <1>17
    <2>3. x # l
      BY <1>1, <2>1, <2>2 DEF At
    <2>4. prev[x] = NULL /\ next[x] = NULL
      BY <2>2 DEF Holds, OthersUnlinked, Unlinked
    <2> HIDE DEF l
    <2> QED
      BY <1>9, <2>1, <2>3, <2>4
  <1>18. length' = [r \in Queues |-> Len(d[r])]
    BY <1>1, <1>2, <1>7 DEF Holds
  <1>19. LinksTyped'
    <2> HIDE DEF l
    <2> QED
      BY <1>4, <1>7, <1>8 DEF TypeOK, LinksTyped
  <1> QED
    BY <1>2, <1>15, <1>16, <1>17, <1>18, <1>19 DEF Holds, Apart, OthersUnlinked, Unlinked

(* d is c without the entry in place p of q.                               *)
TakesOut(c, d, q, p) ==
  /\ d \in [Queues -> Seq(Entries)]
  /\ Len(d[q]) = Len(c[q]) - 1
  /\ \A i \in 1 .. Len(c[q]) - 1 : d[q][i] = IF i < p THEN c[q][i] ELSE c[q][i + 1]
  /\ \A r \in Queues \ {q} : d[r] = c[r]

(* QueueRemove on the entry in place p of its queue takes it out.          *)
LEMMA RemoveHolds ==
  ASSUME TypeOK, NEW c, Holds(c), NEW q \in Queues, NEW p \in 1 .. Len(c[q]),
         QueueRemove(q, c[q][p]), NEW d, TakesOut(c, d, q, p)
  PROVE  Holds(d)' /\ LinksTyped'
  <1> DEFINE L == Len(c[q])
             e == c[q][p]
             a == At(c, q, p - 1)
             b == At(c, q, p + 1)
  <1>0. /\ d \in [Queues -> Seq(Entries)]
        /\ Len(d[q]) = Len(c[q]) - 1
        /\ \A k \in 1 .. Len(c[q]) - 1 : d[q][k] = IF k < p THEN c[q][k] ELSE c[q][k + 1]
        /\ \A r \in Queues \ {q} : d[r] = c[r]
    BY DEF TakesOut
  <1> USE <1>0
  <1>1. \A r \in Queues :
          /\ c[r] \in Seq(Entries) /\ Len(c[r]) \in Nat
          /\ \A k \in 1 .. Len(c[r]) : c[r][k] \in Entries
    BY Contents
  <1>2. /\ p \in 0 .. L + 1 /\ p - 1 \in 0 .. L + 1 /\ p + 1 \in 0 .. L + 1
        /\ p \in 0 .. L /\ p - 1 \in 0 .. L /\ p - 1 + 1 = p
        /\ L \in Nat \ {0} /\ p \in Nat
    BY <1>1
  <1>3. At(c, q, p) = e
    BY DEF At
  <1>4. \A r \in Queues : \A k \in 0 .. Len(c[r]) + 1 : At(c, r, k) \in Node
    BY <1>1 DEF At, Node
  <1>5. e \in Node /\ a \in Node /\ b \in Node /\ e \in Entries /\ e \notin Queues
    BY <1>1, <1>2, <1>4, QueueAssumption DEF Node
  <1>6. \A r \in Queues : \A k \in 0 .. Len(c[r]) :
          /\ next[At(c, r, k)] = At(c, r, k + 1)
          /\ prev[At(c, r, k + 1)] = At(c, r, k)
    BY DEF Holds, Rings
  <1>7. next[e] = b /\ prev[e] = a
    BY <1>2, <1>3, <1>6
  <1>8. a # e /\ b # e
    <2>1. a # At(c, q, p) /\ b # At(c, q, p)
      BY <1>2, AtInjects
    <2> QED
      BY <1>3, <2>1
  <1>9. /\ prev' = [prev EXCEPT ![b] = a, ![e] = NULL]
        /\ next' = [next EXCEPT ![a] = b, ![e] = NULL]
        /\ length' = [length EXCEPT ![q] = @ - 1]
    <2>1. a # NULL /\ b # NULL
      BY <1>5, QueueAssumption DEF Node
    <2> HIDE DEF a, b, e
    <2>2. QueueRemove(q, e)
      BY DEF e
    <2> QED
      BY <1>7, <2>1, <2>2 DEF QueueRemove
  <1>10. /\ next'[a] = b /\ prev'[b] = a
         /\ next'[e] = NULL /\ prev'[e] = NULL
         /\ \A n \in Node : n # a /\ n # e => next'[n] = next[n]
         /\ \A n \in Node : n # b /\ n # e => prev'[n] = prev[n]
    <2> HIDE DEF a, b, e
    <2> QED
      BY <1>5, <1>8, <1>9 DEF TypeOK
  <1>11. ASSUME NEW r \in Queues \ {q}, NEW k \in 0 .. Len(d[r])
         PROVE  /\ next'[At(d, r, k)] = At(d, r, k + 1)
                /\ prev'[At(d, r, k + 1)] = At(d, r, k)
    <2>1. k \in 0 .. Len(c[r]) /\ k \in 0 .. Len(c[r]) + 1 /\ k + 1 \in 0 .. Len(c[r]) + 1
      BY <1>1
    <2>2. /\ At(c, r, k) # a /\ At(c, r, k) # At(c, q, p)
          /\ At(c, r, k + 1) # b /\ At(c, r, k + 1) # At(c, q, p)
      BY <1>2, <2>1, AtInjects, SMTT(20)
    <2>3. At(c, r, k) \in Node /\ At(c, r, k + 1) \in Node
      BY <1>4, <2>1
    <2>4. At(d, r, k) = At(c, r, k) /\ At(d, r, k + 1) = At(c, r, k + 1)
      BY DEF At
    <2>5. next[At(c, r, k)] = At(c, r, k + 1) /\ prev[At(c, r, k + 1)] = At(c, r, k)
      BY <1>6, <2>1
    <2> HIDE DEF a, b, e
    <2>6. next'[At(c, r, k)] = next[At(c, r, k)]
      BY <1>3, <1>10, <2>2, <2>3
    <2>7. prev'[At(c, r, k + 1)] = prev[At(c, r, k + 1)]
      BY <1>3, <1>10, <2>2, <2>3
    <2> QED
      BY <2>4, <2>5, <2>6, <2>7
  <1>12. ASSUME NEW k \in 0 .. L
         PROVE  At(d, q, k) = IF k < p THEN At(c, q, k) ELSE At(c, q, k + 1)
    BY <1>1, <1>2 DEF At
  <1>13. ASSUME NEW k \in 0 .. Len(d[q])
         PROVE  /\ next'[At(d, q, k)] = At(d, q, k + 1)
                /\ prev'[At(d, q, k + 1)] = At(d, q, k)
    <2>0. k \in 0 .. L - 1 /\ k \in 0 .. L /\ k + 1 \in 0 .. L /\ k \in Nat
      BY <1>2
    <2>1. CASE k < p - 1
      <3>1. /\ k \in 0 .. L + 1 /\ k + 1 \in 0 .. L + 1
            /\ k # p /\ k # p - 1 /\ k + 1 # p /\ k + 1 # p + 1 /\ k + 1 # 0
            /\ k + 1 # L + 1 /\ k # L + 1 /\ p # L + 1 /\ p - 1 # L + 1 /\ p # 0 /\ p + 1 # 0
        BY <1>2, <2>0, <2>1
      <3>2. At(c, q, k) # a /\ At(c, q, k) # At(c, q, p)
        BY <1>2, <3>1, AtInjects, SMTT(20)
      <3>3. At(c, q, k + 1) # b /\ At(c, q, k + 1) # At(c, q, p)
        BY <1>2, <3>1, AtInjects, SMTT(20)
      <3>4. At(c, q, k) \in Node /\ At(c, q, k + 1) \in Node
        BY <1>4, <3>1
      <3>5. At(d, q, k) = At(c, q, k) /\ At(d, q, k + 1) = At(c, q, k + 1)
        <4>1. k < p /\ k + 1 < p
          BY <1>2, <2>0, <2>1, SMTT(20)
        <4> QED
          BY <1>12, <2>0, <4>1
      <3>6. next[At(c, q, k)] = At(c, q, k + 1) /\ prev[At(c, q, k + 1)] = At(c, q, k)
        BY <1>6, <2>0
      <3> HIDE DEF a, b, e
      <3>7. next'[At(c, q, k)] = next[At(c, q, k)]
        BY <1>3, <1>10, <3>2, <3>4
      <3>8. prev'[At(c, q, k + 1)] = prev[At(c, q, k + 1)]
        BY <1>3, <1>10, <3>3, <3>4
      <3> QED
        BY <3>5, <3>6, <3>7, <3>8
    <2>2. CASE k = p - 1
      <3>1. k < p /\ k + 1 = p /\ ~(k + 1 < p)
        BY <1>2, <2>2
      <3>2. At(d, q, k) = a
        BY <1>12, <2>0, <2>2, <3>1
      <3>3. At(d, q, k + 1) = b
        BY <1>12, <2>0, <3>1
      <3> HIDE DEF a, b
      <3> QED
        BY <1>10, <3>2, <3>3
    <2>3. CASE k >= p
      <3>0. k + 1 + 1 = k + 2 /\ k + 1 \in 0 .. L
        BY <1>2, <2>0
      <3>1. /\ k + 1 \in 0 .. L + 1 /\ k + 2 \in 0 .. L + 1
            /\ k + 1 # p /\ k + 1 # p - 1 /\ k + 2 # p /\ k + 2 # p + 1 /\ k + 2 # 0
            /\ k + 1 # 0 /\ k + 1 # L + 1 /\ p # L + 1 /\ p - 1 # L + 1 /\ p # 0 /\ p + 1 # 0
        BY <1>2, <2>0, <2>3
      <3>2. At(c, q, k + 1) # a /\ At(c, q, k + 1) # At(c, q, p)
        BY <1>2, <3>1, AtInjects, SMTT(20)
      <3>3. At(c, q, k + 2) # b /\ At(c, q, k + 2) # At(c, q, p)
        BY <1>2, <3>1, AtInjects
      <3>4. At(c, q, k + 1) \in Node /\ At(c, q, k + 2) \in Node
        BY <1>4, <3>1
      <3>5. At(d, q, k) = At(c, q, k + 1) /\ At(d, q, k + 1) = At(c, q, k + 2)
        <4>1. ~(k < p) /\ ~(k + 1 < p)
          BY <1>2, <2>0, <2>3
        <4> QED
          BY <1>12, <2>0, <3>0, <4>1
      <3>6. /\ next[At(c, q, k + 1)] = At(c, q, k + 2)
            /\ prev[At(c, q, k + 2)] = At(c, q, k + 1)
        BY <1>6, <3>0
      <3> HIDE DEF a, b, e
      <3>7. next'[At(c, q, k + 1)] = next[At(c, q, k + 1)]
        BY <1>3, <1>10, <3>2, <3>4
      <3>8. prev'[At(c, q, k + 2)] = prev[At(c, q, k + 2)]
        BY <1>3, <1>10, <3>3, <3>4
      <3> QED
        BY <3>5, <3>6, <3>7, <3>8
    <2> QED
      BY <1>2, <2>0, <2>1, <2>2, <2>3
  <1>14. Rings(d)'
    BY <1>11, <1>13 DEF Rings
  <1>15. ASSUME NEW r \in Queues, NEW i \in 1 .. Len(d[r])
         PROVE  \E j \in 1 .. Len(c[r]) :
                  /\ d[r][i] = c[r][j]
                  /\ j = IF r = q /\ i >= p THEN i + 1 ELSE i
    <2>1. CASE r = q
      BY <1>1, <1>2, <2>1, SMTT(20)
    <2>2. CASE r # q
      BY <2>2
    <2> QED
      BY <2>1, <2>2
  <1>16. Apart(d)
    <2> SUFFICES ASSUME NEW r \in Queues, NEW s \in Queues,
                        NEW i \in 1 .. Len(d[r]), NEW j \in 1 .. Len(d[s]),
                        d[r][i] = d[s][j]
                 PROVE  r = s /\ i = j
      BY DEF Apart
    <2>0. i \in Nat /\ j \in Nat
      <3>1. Len(d[r]) \in Nat /\ Len(d[s]) \in Nat
        BY LenProperties
      <3> QED
        BY <3>1
    <2>1. PICK x \in 1 .. Len(c[r]) :
            d[r][i] = c[r][x] /\ x = IF r = q /\ i >= p THEN i + 1 ELSE i
      BY <1>15
    <2>2. PICK y \in 1 .. Len(c[s]) :
            d[s][j] = c[s][y] /\ y = IF s = q /\ j >= p THEN j + 1 ELSE j
      BY <1>15
    <2>3. c[r][x] = c[s][y] /\ Apart(c)
      BY <2>1, <2>2 DEF Holds
    <2>4. r = s /\ x = y
      <3>1. x \in 1 .. Len(c[r]) /\ y \in 1 .. Len(c[s])
        BY <2>1, <2>2
      <3> QED
        BY <2>3, <3>1, SMTT(20) DEF Apart
    <2> QED
      BY <1>2, <2>0, <2>1, <2>2, <2>4
  <1>17. ASSUME NEW x \in Entries,
                \A r \in Queues : \A i \in 1 .. Len(d[r]) : d[r][i] # x
         PROVE  prev'[x] = NULL /\ next'[x] = NULL
    <2>1. CASE x = e
      BY <1>10, <2>1
    <2>2. CASE x # e
      <3>1. ASSUME NEW i \in 1 .. L
            PROVE  c[q][i] # x
        <4>1. CASE i < p
          <5>1. i \in 1 .. L - 1 /\ i \in 1 .. Len(d[q])
            BY <1>2, <4>1
          <5>2. d[q][i] = c[q][i]
            BY <4>1, <5>1
          <5> QED
            BY <1>17, <5>1, <5>2
        <4>2. CASE i = p
          BY <2>2, <4>2
        <4>3. CASE i > p
          <5>1. /\ i - 1 \in 1 .. Len(d[q]) /\ ~(i - 1 < p) /\ i - 1 + 1 = i
                /\ i - 1 \in 1 .. L - 1
            BY <1>2, <4>3
          <5>2. d[q][i - 1] = c[q][i]
            BY <5>1
          <5> QED
            BY <1>17, <5>1, <5>2
        <4> QED
          BY <1>2, <4>1, <4>2, <4>3
      <3>2. \A r \in Queues : \A i \in 1 .. Len(c[r]) : c[r][i] # x
        BY <1>17, <3>1
      <3>3. prev[x] = NULL /\ next[x] = NULL
        BY <3>2 DEF Holds, OthersUnlinked, Unlinked
      <3>4. x # a /\ x # b /\ x \in Node
        BY <1>2, <3>2, QueueAssumption DEF At, Node
      <3> HIDE DEF a, b, e
      <3> QED
        BY <1>10, <2>2, <3>3, <3>4
    <2> QED
      BY <2>1, <2>2
  <1>18. length' = [r \in Queues |-> Len(d[r])]
    BY <1>2, <1>9 DEF Holds
  <1>19. LinksTyped'
    <2> HIDE DEF a, b, e
    <2> QED
      BY <1>5, <1>9 DEF TypeOK, LinksTyped
  <1> QED
    BY <1>14, <1>16, <1>17, <1>18, <1>19 DEF Holds, Apart, OthersUnlinked, Unlinked

----------------------------------------------------------------------------

(* A step on the links is a step on the sequences, as Fifo describes it.   *)
FifoStep(c, d) ==
  \/ d = c /\ popped' = popped
  \/ \E q \in Queues :
       \/ c[q] = <<>> /\ popped' = NULL /\ d = c
       \/ c[q] # <<>> /\ popped' = Head(c[q]) /\ d = [c EXCEPT ![q] = Tail(c[q])]
       \/ \E e \in Entries :
            /\ \A r \in Queues : \A i \in 1 .. Len(c[r]) : c[r][i] # e
            /\ d = [c EXCEPT ![q] = Append(c[q], e)]
            /\ popped' = popped
       \/ \E k \in 1 .. Len(c[q]) :
            /\ d = [c EXCEPT ![q] = SubSeq(c[q], 1, k - 1) \o SubSeq(c[q], k + 1, Len(c[q]))]
            /\ popped' = popped

(* Every action keeps the links those of sequences, and changes these as   *)
(* Fifo does.                                                              *)
LEMMA NextHolds ==
  ASSUME TypeOK, NEW c, Holds(c), [Next]_vars
  PROVE  /\ TypeOK'
         /\ \E d : Holds(d)' /\ FifoStep(c, d)
  <1>1. \A r \in Queues :
          /\ c[r] \in Seq(Entries) /\ Len(c[r]) \in Nat
          /\ \A k \in 1 .. Len(c[r]) : c[r][k] \in Entries
          /\ length[r] = Len(c[r])
    BY Contents
  <1>2. c \in [Queues -> Seq(Entries)] /\ popped \in Entries \cup {NULL}
    BY DEF Holds, TypeOK
  <1> SUFFICES /\ popped' \in Entries \cup {NULL}
               /\ \E d : Holds(d)' /\ LinksTyped' /\ FifoStep(c, d)
    <2>1. ASSUME NEW d, Holds(d)'
          PROVE  length' \in [Queues -> Nat]
      <3>1. \A r \in Queues : Len(d[r]) \in Nat
        BY <2>1, LenProperties DEF Holds
      <3> QED
        BY <2>1, <3>1 DEF Holds
    <2> QED
      BY <2>1 DEF TypeOK, LinksTyped
  <1>3. ASSUME UNCHANGED <<prev, next, length>>
        PROVE  Holds(c)' /\ LinksTyped'
    BY <1>3 DEF Holds, Rings, Apart, OthersUnlinked, Unlinked, At, TypeOK, LinksTyped
  <1>4. CASE Push
    <2>1. PICK q \in Queues, e \in Entries : Unlinked(e) /\ QueuePushBack(q, e)
      BY <1>4 DEF Push
    <2>0. PICK d : d = [c EXCEPT ![q] = Append(c[q], e)]
      OBVIOUS
    <2>2. Holds(d)' /\ LinksTyped'
      BY <2>0, <2>1, PushHolds
    <2>3. \A r \in Queues : \A i \in 1 .. Len(c[r]) : c[r][i] # e
      BY <2>1, UnlinkedIsOut DEF Unlinked
    <2>4. popped' = popped
      BY <2>1 DEF QueuePushBack
    <2>5. FifoStep(c, d)
      BY <2>0, <2>3, <2>4, Zenon DEF FifoStep
    <2> QED
      BY <1>2, <2>2, <2>4, <2>5
  <1>5. CASE Pop
    <2>1. PICK q \in Queues : QueuePopFront(q)
      BY <1>5 DEF Pop
    <2>2. CASE QueueIsEmpty(q)
      <3>1. popped' = NULL /\ UNCHANGED <<prev, next, length>>
        BY <2>1, <2>2 DEF QueuePopFront
      <3>2. c[q] = <<>>
        BY <1>1, <2>2, EmptySeq DEF QueueIsEmpty
      <3>3. Holds(c)' /\ LinksTyped' /\ FifoStep(c, c)
        BY <1>3, <3>1, <3>2 DEF FifoStep
      <3> QED
        BY <3>1, <3>3
    <2>3. CASE ~QueueIsEmpty(q)
      <3>1. Len(c[q]) # 0 /\ 1 \in 1 .. Len(c[q]) /\ c[q] # <<>>
        BY <1>1, <2>3, EmptySeq DEF QueueIsEmpty
      <3>2. Front(q) = c[q][1] /\ c[q][1] = Head(c[q])
        <4>1. 0 \in 0 .. Len(c[q]) /\ At(c, q, 0) = q /\ At(c, q, 0 + 1) = c[q][1]
          BY <1>1, <3>1 DEF At
        <4>2. next[At(c, q, 0)] = At(c, q, 0 + 1)
          BY <4>1 DEF Holds, Rings
        <4> QED
          BY <4>1, <4>2, <3>1, <1>1 DEF Front
      <3>3. popped' = c[q][1] /\ QueueRemove(q, c[q][1])
        BY <2>1, <2>3, <3>2 DEF QueuePopFront
      <3>0. PICK d : d = [c EXCEPT ![q] = Tail(c[q])]
        OBVIOUS
      <3>4. /\ Tail(c[q]) \in Seq(Entries) /\ Len(Tail(c[q])) = Len(c[q]) - 1
            /\ \A i \in 1 .. Len(c[q]) - 1 : Tail(c[q])[i] = c[q][i + 1]
        BY <1>1, <3>1, HeadTailProperties
      <3>5. /\ d \in [Queues -> Seq(Entries)] /\ d[q] = Tail(c[q])
            /\ \A r \in Queues \ {q} : d[r] = c[r]
        BY <1>2, <3>0, <3>4
      <3>6. FifoStep(c, d)
        BY <3>0, <3>1, <3>2, <3>3, Zenon DEF FifoStep
      <3>7. TakesOut(c, d, q, 1)
        BY <1>1, <3>4, <3>5 DEF TakesOut
      <3>8. Holds(d)' /\ LinksTyped'
        BY <3>1, <3>3, <3>7, RemoveHolds
      <3> QED
        BY <1>1, <3>1, <3>3, <3>6, <3>8
    <2> QED
      BY <2>2, <2>3
  <1>6. CASE Drop
    <2>1. PICK q \in Queues, e \in Entries :
            /\ Unlinked(e) \/ Contains(q, e)
            /\ QueueRemove(q, e)
            /\ popped' = popped
      BY <1>6 DEF Drop
    <2>2. CASE Unlinked(e)
      <3>1. UNCHANGED <<prev, next, length>>
        BY <2>1, <2>2 DEF Unlinked, QueueRemove
      <3> QED
        BY <1>2, <1>3, <2>1, <3>1 DEF FifoStep
    <2>3. CASE Contains(q, e)
      <3>1. PICK k \in 1 .. Len(c[q]) : c[q][k] = e
        <4>1. Walk(q) = c[q] /\ DOMAIN c[q] = 1 .. Len(c[q])
          BY <1>1, WalkIs, LenProperties
        <4> QED
          BY <2>3, <4>1 DEF Contains
      <3> DEFINE s == SubSeq(c[q], 1, k - 1)
                 t == SubSeq(c[q], k + 1, Len(c[q]))
      <3>2. /\ s \in Seq(Entries) /\ Len(s) = k - 1
            /\ \A i \in 1 .. k - 1 : s[i] = c[q][i]
        <4>1. \A i \in 1 .. k - 1 : c[q][i] \in Entries
          BY <1>1
        <4>2. /\ s \in Seq(Entries) /\ Len(s) = IF 1 <= k - 1 THEN k - 1 - 1 + 1 ELSE 0
              /\ \A i \in 1 .. k - 1 - 1 + 1 : s[i] = c[q][1 + i - 1]
          BY <1>1, <4>1, SubSeqProperties
        <4> HIDE DEF s
        <4> QED
          BY <1>1, <4>2
      <3>3. /\ t \in Seq(Entries) /\ Len(t) = Len(c[q]) - k
            /\ \A i \in 1 .. Len(c[q]) - k : t[i] = c[q][k + i]
        <4>1. \A i \in k + 1 .. Len(c[q]) : c[q][i] \in Entries
          BY <1>1
        <4>2. /\ t \in Seq(Entries)
              /\ Len(t) = IF k + 1 <= Len(c[q]) THEN Len(c[q]) - (k + 1) + 1 ELSE 0
              /\ \A i \in 1 .. Len(c[q]) - (k + 1) + 1 : t[i] = c[q][k + 1 + i - 1]
          BY <1>1, <4>1, SubSeqProperties
        <4> HIDE DEF t
        <4> QED
          BY <1>1, <4>2
      <3>0. PICK d : d = [c EXCEPT ![q] = s \o t]
        OBVIOUS
      <3>4. FifoStep(c, d)
        BY <2>1, <3>0, Zenon DEF FifoStep
      <3> HIDE DEF s, t
      <3>5. /\ s \o t \in Seq(Entries) /\ Len(s \o t) = Len(c[q]) - 1
            /\ \A i \in 1 .. Len(c[q]) - 1 :
                 (s \o t)[i] = IF i < k THEN c[q][i] ELSE c[q][i + 1]
        <4>1. /\ s \o t \in Seq(Entries) /\ Len(s \o t) = Len(s) + Len(t)
              /\ \A i \in 1 .. Len(s) + Len(t) :
                   (s \o t)[i] = IF i <= Len(s) THEN s[i] ELSE t[i - Len(s)]
          <5>1. s \in Seq(Entries) /\ t \in Seq(Entries)
            BY <3>2, <3>3
          <5> QED
            BY <5>1, ConcatProperties, Zenon
        <4> QED
          BY <1>1, <3>2, <3>3, <4>1, SMTT(20)
      <3>6. /\ d \in [Queues -> Seq(Entries)] /\ d[q] = s \o t
            /\ \A r \in Queues \ {q} : d[r] = c[r]
        BY <1>2, <3>0, <3>5
      <3>7. Holds(d)' /\ LinksTyped'
        <4>1. TakesOut(c, d, q, k)
          BY <3>5, <3>6 DEF TakesOut
        <4>2. QueueRemove(q, c[q][k])
          BY <2>1, <3>1
        <4> QED
          BY <4>1, <4>2, RemoveHolds
      <3> QED
        BY <1>2, <2>1, <3>4, <3>7
    <2> QED
      BY <2>1, <2>2, <2>3
  <1>7. CASE UNCHANGED vars
    <2>1. Holds(c)' /\ LinksTyped' /\ FifoStep(c, c)
      BY <1>3, <1>7 DEF vars, FifoStep
    <2> QED
      BY <1>2, <1>7, <2>1 DEF vars
  <1> QED
    BY <1>4, <1>5, <1>6, <1>7 DEF Next

(* The initial queues are empty.                                           *)
LEMMA InitHolds ==
  ASSUME Init
  PROVE  TypeOK /\ Holds([q \in Queues |-> <<>>])
  <1> DEFINE c == [q \in Queues |-> <<>>]
  <1>1. \A q \in Queues : c[q] \in Seq(Entries) /\ Len(c[q]) = 0
    BY EmptySeq
  <1>2. \A q \in Queues : next[q] = q /\ prev[q] = q
    BY DEF Init, Node
  <1>3. \A e \in Entries : next[e] = NULL /\ prev[e] = NULL
    BY QueueAssumption DEF Init, Node
  <1>4. TypeOK
    BY DEF Init, TypeOK, Node
  <1>5. c \in [Queues -> Seq(Entries)]
    BY <1>1
  <1>6. length = [q \in Queues |-> Len(c[q])]
    BY <1>1 DEF Init
  <1> HIDE DEF c
  <1>7. Rings(c) /\ Apart(c) /\ OthersUnlinked(c)
    BY <1>1, <1>2, <1>3 DEF Rings, Apart, OthersUnlinked, Unlinked, At
  <1>8. Holds(c)
    BY <1>5, <1>6, <1>7 DEF Holds
  <1> QED
    BY <1>4, <1>8 DEF c

WalksRead == \A c : Holds(c) => [q \in Queues |-> Walk(q)] = c

(* The walks, taken together, are the sequences.                           *)
LEMMA WalksAre ==
  WalksRead
  <1> SUFFICES ASSUME NEW c, Holds(c)
               PROVE  [q \in Queues |-> Walk(q)] = c
    BY DEF WalksRead
  <1>1. \A q \in Queues : Walk(q) = c[q]
    BY WalkIs
  <1> QED
    BY <1>1 DEF Holds

(* QueueInv is inductive.                                                  *)
LEMMA QueueInvKept ==
  QueueInv /\ [Next]_vars => QueueInv'
  <1> SUFFICES ASSUME QueueInv, [Next]_vars
               PROVE  QueueInv'
    OBVIOUS
  <1>1. TypeOK
    BY DEF QueueInv
  <1>2. PICK c : Holds(c)
    BY DEF QueueInv
  <1>3. TypeOK'
    BY <1>1, <1>2, NextHolds
  <1>4. PICK d : Holds(d)'
    BY <1>1, <1>2, NextHolds
  <1> QED
    BY <1>3, <1>4 DEF QueueInv

(* For every set of queues and of entries, whatever is pushed, popped and  *)
(* removed in whatever order: QueueInv always holds.                       *)
LEMMA QueueInvHolds ==
  Spec => []QueueInv
  <1>1. Init => QueueInv
    BY InitHolds DEF QueueInv
  <1> QED
    BY <1>1, QueueInvKept, PTL DEF Spec

(* The links of Queue.c are always those of rings: whatever QueuePushBack, *)
(* QueuePopFront and QueueRemove do, neighbours point at each other, no    *)
(* node is linked one way only, and no head is without links.              *)
THEOREM LinksCorrect ==
  Spec => []LinksSound
  <1>1. QueueInv => LinksSound
    BY HoldsGivesLinks DEF QueueInv
  <1> QED
    BY <1>1, QueueInvHolds, PTL

(* Queue.length is always the number of entries that a walk from the head  *)
(* meets, so that QueueIsEmpty tells the truth.                            *)
THEOREM LengthCorrect ==
  Spec => []LengthSound
  <1>1. QueueInv => LengthSound
    BY Contents, WalkIs DEF QueueInv, LengthSound
  <1> QED
    BY <1>1, QueueInvHolds, PTL

(* The links implement FIFO sequences: the queues that start at the walks  *)
(* are empty at first, and each step of Queue.c is the step of Fifo on     *)
(* them, or none.                                                          *)
THEOREM FifoCorrect ==
  Spec => IsFifo
  <1> DEFINE contents == [q \in Queues |-> Walk(q)]
  <1>0. WalksRead'
    BY WalksAre, PTL
  <1>1. Init => Abstract!Init
    <2> SUFFICES ASSUME Init
                 PROVE  Abstract!Init
      OBVIOUS
    <2>1. contents = [q \in Queues |-> <<>>]
      BY InitHolds, WalksAre DEF WalksRead
    <2> QED
      BY <2>1 DEF Init, Abstract!Init
  <1>2. QueueInv /\ [Next]_vars => [Abstract!Next]_<<contents, popped>>
    <2> SUFFICES ASSUME QueueInv, [Next]_vars
                 PROVE  [Abstract!Next]_<<contents, popped>>
      OBVIOUS
    <2>1. PICK c : Holds(c)
      BY DEF QueueInv
    <2>2. PICK d : Holds(d)' /\ FifoStep(c, d)
      BY <2>1, NextHolds DEF QueueInv
    <2>3. contents = c
      BY <2>1, WalksAre DEF WalksRead
    <2>4. contents' = d
      BY <1>0, <2>2 DEF WalksRead
    <2>5. \A q \in Queues : c[q] \in Seq(Entries) /\ DOMAIN c[q] = 1 .. Len(c[q])
      BY <2>1, Contents, LenProperties
    <2> HIDE DEF contents
    <2>6. CASE d = c /\ popped' = popped
      BY <2>3, <2>4, <2>6
    <2>7. ASSUME NEW q \in Queues, c[q] = <<>>, popped' = NULL, d = c
          PROVE  Abstract!Next
      BY <2>3, <2>4, <2>7 DEF Abstract!Next, Abstract!PopFront, contents
    <2>8. ASSUME NEW q \in Queues, c[q] # <<>>, popped' = Head(c[q]),
                 d = [c EXCEPT ![q] = Tail(c[q])]
          PROVE  Abstract!Next
      BY <2>3, <2>4, <2>8 DEF Abstract!Next, Abstract!PopFront, contents
    <2>9. ASSUME NEW q \in Queues, NEW e \in Entries, popped' = popped,
                 \A r \in Queues : \A i \in 1 .. Len(c[r]) : c[r][i] # e,
                 d = [c EXCEPT ![q] = Append(c[q], e)]
          PROVE  Abstract!Next
      <3>1. e \notin Abstract!Linked
        BY <2>3, <2>5, <2>9 DEF Abstract!Linked, Abstract!Range, contents
      <3> QED
        BY <2>3, <2>4, <2>9, <3>1 DEF Abstract!Next, Abstract!PushBack, contents
    <2>10. ASSUME NEW q \in Queues, NEW k \in 1 .. Len(c[q]), popped' = popped,
                  d = [c EXCEPT ![q] = SubSeq(c[q], 1, k - 1) \o SubSeq(c[q], k + 1, Len(c[q]))]
           PROVE  Abstract!Next
      <3>1. c[q][k] \in Entries /\ k \in DOMAIN c[q]
        BY <2>5, ElementOfSeq
      <3>2. Abstract!RemoveFrom(q, c[q][k])
        BY <2>3, <2>4, <2>10, <3>1 DEF Abstract!RemoveFrom, Abstract!RemoveAt, contents
      <3> QED
        BY <3>1, <3>2 DEF Abstract!Next
    <2> QED
      BY <2>2, <2>6, <2>7, <2>8, <2>9, <2>10 DEF FifoStep
  <1> QED
    BY <1>1, <1>2, QueueInvHolds, PTL DEF Spec, IsFifo, Abstract!Spec

=============================================================================
