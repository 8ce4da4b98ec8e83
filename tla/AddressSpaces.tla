--------------------------- MODULE AddressSpaces ---------------------------
(***************************************************************************)
(* What the kernel's memory management promises the programs: every        *)
(* process has an address space of its own.  Only the process itself       *)
(* stores into it, Fork gives a child a copy of it, and a page keeps its   *)
(* contents until the process gives it up, loads another program or is     *)
(* destroyed.                                                              *)
(***************************************************************************)
CONSTANTS
  Proc,
  Page,
  Value,    \* what a program stores into a page
  Image,    \* what loading a program leaves in a page
  Junk,     \* the contents of a page nobody has written yet
  Invalid   \* no such page

VARIABLE space

NoSpace == [page \in Page |-> Invalid]

(* p gets the address space new, and the others keep theirs.               *)
Becomes(p, new) == space' = [space EXCEPT ![p] = new]

Store(p, page, v) ==
  /\ space[p][page] # Invalid
  /\ Becomes(p, [space[p] EXCEPT ![page] = v])

Fork(p, child) ==
  /\ space[child] = NoSpace
  /\ Becomes(child, space[p])

(* Brk and stack growth: pages come and go, and those that stay keep what  *)
(* is in them.                                                             *)
Resize(p) ==
  \E new \in {space'[p]} :
    /\ \A page \in Page :
         \/ new[page] \in {space[p][page], Invalid}
         \/ space[p][page] = Invalid /\ new[page] = Junk
    /\ Becomes(p, new)

(* Exec, which may fail half way and then leaves pages it has not filled.  *)
Load(p) ==
  \E new \in {space'[p]} :
    /\ \/ \A page \in Page : new[page] \in {Image, Invalid}
       \/ \A page \in Page : new[page] \in {Junk, Invalid}
    /\ Becomes(p, new)

Destroy(p) == Becomes(p, NoSpace)

----------------------------------------------------------------------------

(* At power-on only the idle process has pages.                            *)
Init ==
  \E p \in Proc :
    /\ space \in [Proc -> [Page -> {Junk, Invalid}]]
    /\ \A q \in Proc \ {p} : space[q] = NoSpace

Next ==
  \E p \in Proc :
    \/ \E page \in Page, v \in Value : Store(p, page, v)
    \/ \E child \in Proc : Fork(p, child)
    \/ Resize(p)
    \/ Load(p)
    \/ Destroy(p)

Spec == Init /\ [][Next]_space

============================================================================
