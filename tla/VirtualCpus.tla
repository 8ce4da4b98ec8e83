---------------------------- MODULE VirtualCpus ----------------------------
(***************************************************************************)
(* What traps and context switches promise the programs: every process has *)
(* registers of its own.  They change when the process computes and when a *)
(* system call it made gets a result, put down by the call itself or, as   *)
(* long as the process is inside it, by others; and at no other time,      *)
(* however often and wherever the process loses the CPU.                   *)
(***************************************************************************)
EXTENDS Integers

CONSTANTS
  Proc,
  Pc,       \* places in a program
  Entry,    \* where a program starts
  Result,   \* what a system call may return
  None      \* the registers of a process that is not there

VARIABLES
  regs,     \* the registers of each process
  cpu,      \* the process that runs
  inCall    \* the processes that wait inside a system call

(* The registers once others have put the result rc down for the processes *)
(* posted, which are inside a call.                                        *)
Posted(posted, rc) ==
  [p \in Proc |-> IF p \in posted THEN [regs[p] EXCEPT !.r0 = rc] ELSE regs[p]]

Run ==
  /\ cpu \notin inCall
  /\ \E pc \in Pc : regs' = [regs EXCEPT ![cpu].pc = pc]
  /\ UNCHANGED <<cpu, inCall>>

Preempt(next) == cpu \notin inCall /\ cpu' = next /\ UNCHANGED <<regs, inCall>>

(* A call returns at once, or, for a process inside one, at last.  Here    *)
(* and below r is what the call has made of the registers of others.       *)
Return(r, rc) ==
  /\ regs' = [r EXCEPT ![cpu].r0 = rc]
  /\ inCall' = inCall \ {cpu}
  /\ UNCHANGED cpu

(* A call waits, again perhaps; it may have set its result beforehand.     *)
Sleep(r, next) ==
  /\ \/ regs' = r
     \/ cpu \notin inCall /\ \E rc \in Result : regs' = [r EXCEPT ![cpu].r0 = rc]
  /\ inCall' = inCall \cup {cpu}
  /\ cpu' = next

(* An interrupt puts a result down.                                        *)
Post(r) == regs' = r /\ UNCHANGED <<cpu, inCall>>

Fork(child) ==
  /\ cpu \notin inCall
  /\ regs[child] = None
  /\ regs' = [regs EXCEPT ![child] = [regs[cpu] EXCEPT !.r0 = 0], ![cpu].r0 = child]
  /\ UNCHANGED <<cpu, inCall>>

Exec ==
  /\ cpu \notin inCall
  /\ regs' = [regs EXCEPT ![cpu].pc = Entry]
  /\ UNCHANGED <<cpu, inCall>>

Exit(r, next) ==
  /\ cpu \notin inCall
  /\ regs' = [r EXCEPT ![cpu] = None]
  /\ cpu' = next
  /\ UNCHANGED inCall

----------------------------------------------------------------------------

Init ==
  /\ regs \in [Proc -> [pc : Pc \cup {Entry}, r0 : {0}] \cup {None}]
  /\ cpu \in Proc
  /\ inCall = {}

Next ==
  \/ Run
  \/ Exec
  \/ \E p \in Proc : Preempt(p) \/ Fork(p)
  \/ \E posted \in SUBSET (inCall \ {cpu}), rc \in Result :
       LET r == Posted(posted, rc)
       IN  \/ \E own \in Result : Return(r, own)
           \/ Post(r)
           \/ \E p \in Proc : Sleep(r, p) \/ Exit(r, p)

Spec == Init /\ [][Next]_<<regs, cpu, inCall>>

============================================================================
