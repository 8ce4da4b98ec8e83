-------------------------------- MODULE Fifo --------------------------------
(***************************************************************************)
(* What the rest of the kernel takes a Queue for: a sequence of entries,   *)
(* an entry being in one queue at most, from which entries leave at the    *)
(* front, or from anywhere by name.  The other modules use such sequences. *)
(***************************************************************************)
EXTENDS Sequences, SequencesExt

CONSTANTS Queues, Entries, NULL

VARIABLES
  contents,   \* the entries of each queue, front first
  popped      \* what the last PopFront returned

Linked == UNION {Range(contents[q]) : q \in Queues}

PushBack(q, e) ==
  /\ e \in Entries \ Linked
  /\ contents' = [contents EXCEPT ![q] = Append(@, e)]
  /\ UNCHANGED popped

PopFront(q) ==
  \/ /\ contents[q] = <<>>
     /\ popped' = NULL
     /\ UNCHANGED contents
  \/ /\ contents[q] # <<>>
     /\ popped' = Head(contents[q])
     /\ contents' = [contents EXCEPT ![q] = Tail(@)]

RemoveFrom(q, e) ==
  /\ \E k \in DOMAIN contents[q] :
       /\ contents[q][k] = e
       /\ contents' = [contents EXCEPT ![q] = RemoveAt(@, k)]
  /\ UNCHANGED popped

Init == contents = [q \in Queues |-> <<>>] /\ popped = NULL

Next ==
  \E q \in Queues :
    \/ PopFront(q)
    \/ \E e \in Entries : PushBack(q, e) \/ RemoveFrom(q, e)

Spec == Init /\ [][Next]_<<contents, popped>>

=============================================================================
