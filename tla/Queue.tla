------------------------------- MODULE Queue --------------------------------
(***************************************************************************)
(* The intrusive doubly linked queues of Queue.c that everything in the    *)
(* kernel waits in: the ready queue, the children of a process, the        *)
(* waiters of pipes, locks and condition variables, and the queues of the  *)
(* terminals.                                                              *)
(*                                                                         *)
(* A queue's head is a node like its entries; the queue names its head.    *)
(* Callers push an entry only when it is in no queue: ProcessMakeReady     *)
(* looks at its links, and the block entry pushed is that of the running   *)
(* process.  They remove one from the queue it is in, or when it is in     *)
(* none (ProcessDestroy).                                                  *)
(***************************************************************************)
EXTENDS Naturals, Sequences, FiniteSets

CONSTANTS
  Queues,
  Entries,
  NULL      \* the null QueueEntry pointer

ASSUME QueueAssumption ==
  /\ Queues \cap Entries = {}
  /\ NULL \notin Queues \cup Entries
  /\ IsFiniteSet(Entries)

VARIABLES
  prev,     \* QueueEntry.prev of entries and heads
  next,     \* QueueEntry.next of entries and heads
  length,   \* Queue.length
  popped    \* what the last QueuePopFront returned

vars == <<prev, next, length, popped>>

Node == Queues \cup Entries

----------------------------------------------------------------------------

QueueIsEmpty(q) == length[q] = 0

Unlinked(e) == prev[e] = NULL /\ next[e] = NULL

(* Mutant of QueuePushBack: the old last entry keeps its next pointer.     *)
PushBackHalf(q, e) ==
  /\ prev' = [prev EXCEPT ![e] = prev[q], ![q] = e]
  /\ next' = [next EXCEPT ![e] = q]
  /\ length' = [length EXCEPT ![q] = @ + 1]
  /\ UNCHANGED popped

QueuePushBack(q, e) ==
  /\ prev' = [prev EXCEPT ![e] = prev[q], ![q] = e]
  /\ next' = [next EXCEPT ![e] = q, ![prev[q]] = e]
  /\ length' = [length EXCEPT ![q] = @ + 1]
  /\ UNCHANGED popped

(* Mutant of QueueRemove: the next neighbour's prev pointer is left alone. *)
RemoveForwardOnly(q, e) ==
  IF Unlinked(e) THEN UNCHANGED <<prev, next, length>>
  ELSE /\ prev' = [prev EXCEPT ![e] = NULL]
       /\ next' = [next EXCEPT ![prev[e]] = next[e], ![e] = NULL]
       /\ length' = [length EXCEPT ![q] = @ - 1]

(* QueueRemove; an entry without links is left alone.                      *)
QueueRemove(q, e) ==
  IF prev[e] = NULL \/ next[e] = NULL THEN UNCHANGED <<prev, next, length>>
  ELSE /\ prev' = [prev EXCEPT ![next[e]] = prev[e], ![e] = NULL]
       /\ next' = [next EXCEPT ![prev[e]] = next[e], ![e] = NULL]
       /\ length' = [length EXCEPT ![q] = @ - 1]

(* Mutant of Front: the newest entry is taken.                             *)
Back(q) == prev[q]

Front(q) == next[q]

QueuePopFront(q) ==
  \/ /\ QueueIsEmpty(q)
     /\ popped' = NULL
     /\ UNCHANGED <<prev, next, length>>
  \/ /\ ~QueueIsEmpty(q)
     /\ popped' = Front(q)
     /\ QueueRemove(q, Front(q))

----------------------------------------------------------------------------

(* The entries of q as SysWait walks them, by next from the head until it  *)
(* is back there.                                                          *)
Walk(q) ==
  LET node[k \in 0 .. Cardinality(Entries) + 1] ==
        IF k = 0 THEN q
        ELSE IF node[k - 1] = NULL THEN NULL ELSE next[node[k - 1]]
      ends == {k \in 1 .. Cardinality(Entries) + 1 : node[k] \in {q, NULL}}
      last == IF ends = {} THEN Cardinality(Entries)
              ELSE CHOOSE k \in ends : \A j \in ends : k <= j
  IN  [k \in 1 .. last - 1 |-> node[k]]

Contains(q, e) == \E k \in DOMAIN Walk(q) : Walk(q)[k] = e

(* QueueInit on every queue and QueueEntryInit on every entry.             *)
Init ==
  /\ prev = [n \in Node |-> IF n \in Queues THEN n ELSE NULL]
  /\ next = [n \in Node |-> IF n \in Queues THEN n ELSE NULL]
  /\ length = [q \in Queues |-> 0]
  /\ popped = NULL

Push == \E q \in Queues, e \in Entries : Unlinked(e) /\ QueuePushBack(q, e)
Pop == \E q \in Queues : QueuePopFront(q)
Drop ==
  \E q \in Queues, e \in Entries :
    /\ Unlinked(e) \/ Contains(q, e)
    /\ QueueRemove(q, e)
    /\ UNCHANGED popped

Next == Push \/ Pop \/ Drop

Spec == Init /\ [][Next]_vars

----------------------------------------------------------------------------

TypeOK ==
  /\ prev \in [Node -> Node \cup {NULL}]
  /\ next \in [Node -> Node \cup {NULL}]
  /\ length \in [Queues -> Nat]
  /\ popped \in Entries \cup {NULL}

(* The links stay among heads and entries and are those of rings: every    *)
(* node that is linked at all is linked both ways, and its neighbours      *)
(* point back at it, so that QueueRemove can unlink any entry from where   *)
(* it is.                                                                  *)
LinksSound ==
  /\ TypeOK
  /\ \A q \in Queues : prev[q] # NULL /\ next[q] # NULL
  /\ \A n \in Node : prev[n] = NULL <=> next[n] = NULL
  /\ \A n \in Node : next[n] # NULL => prev[next[n]] = n
  /\ \A n \in Node : prev[n] # NULL => next[prev[n]] = n

(* A queue's length, all that QueueIsEmpty looks at, is the number of      *)
(* entries a walk from its head meets.                                     *)
LengthSound == \A q \in Queues : length[q] = Len(Walk(q))

Abstract == INSTANCE Fifo WITH contents <- [q \in Queues |-> Walk(q)]

(* The linked queues are FIFO sequences: every step on the links is the    *)
(* step on the sequences that the other modules take it for.               *)
IsFifo == Abstract!Spec

=============================================================================
