--------------------------- MODULE ContextProofs ----------------------------
(***************************************************************************)
(* Every process has registers of its own, for every set of processes and  *)
(* every program: Context implements VirtualCpus.                          *)
(*                                                                         *)
(* What makes it work is where *uctxt may be relied on.  It holds the      *)
(* registers of the current process while that is in user mode and only    *)
(* then; every other process has been switched away from in the kernel,    *)
(* which wrote its registers to its PCB; and TrapKernel's variable caller  *)
(* tells a process that comes back from a call of its own from one that    *)
(* comes back in the copy of its parent's kernel stack.                    *)
(***************************************************************************)
EXTENDS Context, TLAPS

(* Where a live process may go on when it is switched to.                  *)
Switched == {"clock", "fork"} \cup Waits

ContextInv ==
  /\ TypeOK
  /\ status[current_process] = "LIVE"
  /\ InUser => uctxt \in Context
  /\ resumes_in[current_process] # "zombie"
  /\ \A p \in Proc :
       /\ status[p] = "LIVE" /\ p # current_process => resumes_in[p] \in Switched
       /\ resumes_in[p] \in Waits => status[p] = "LIVE" /\ caller[p] = p
       /\ resumes_in[p] = "fork" => caller[p] # p

(* The processes that wait inside a call, as VirtualCpus sees them.        *)
Waiting == {p \in Proc : status[p] = "LIVE" /\ resumes_in[p] \in Waits}

(* Status and parents of what SysWait or SysExit leaves to a step.         *)
SameLife == \A p \in Proc : status'[p] = "LIVE" <=> status[p] = "LIVE"

Places == {"user", "clock", "fork", "zombie"} \cup Waits

----------------------------------------------------------------------------

(* Where the current process is in user mode, *uctxt has its registers,    *)
(* and else its PCB.                                                       *)
LEMMA CurrentRegisters ==
  ASSUME ContextInv
  PROVE  /\ current_process \in Proc
         /\ InUser => registers[current_process] = uctxt /\ uctxt \in Context
         /\ ~InUser => registers[current_process] = user_context[current_process]
         /\ user_context[current_process] \in Context
         /\ InUser => current_process \notin Waiting
         /\ \A p \in Proc \ {current_process} :
              registers[p] = IF status[p] = "LIVE" THEN user_context[p] ELSE None
  BY DEF ContextInv, TypeOK, registers, InUser, Waiting, Waits

(* The place a process goes on is one place.                               *)
LEMMA PlacesDiffer ==
  /\ "user" \notin Waits /\ "clock" \notin Waits /\ "fork" \notin Waits /\ "zombie" \notin Waits
  /\ "user" \notin Switched /\ "zombie" \notin Switched
  BY DEF Waits, Switched

(* Contexts with another result or another pc.                             *)
LEMMA ContextUpdate ==
  ASSUME NEW c \in Context
  PROVE  /\ \A rc \in Result : [c EXCEPT !.r0 = rc] \in Context
         /\ \A pc \in Pc \cup {Entry} : [c EXCEPT !.pc = pc] \in Context
  BY DEF Context

(* What every result is.                                                   *)
LEMMA Results ==
  SUCCESS \in Result /\ ERROR \in Result /\ Length \in Result /\ Proc \subseteq Result
  BY DEF Result

(* A handler has made contexts of user_context: WakeOne put SUCCESS down   *)
(* for the processes woken, which wait inside a call.                      *)
Posts(contexts, woken) ==
  /\ woken \subseteq Waiting \ {current_process}
  /\ contexts \in [Proc -> Context]
  /\ \A p \in Proc : contexts[p] = IF p \in woken
                                   THEN [user_context[p] EXCEPT !.r0 = SUCCESS]
                                   ELSE user_context[p]

(* The registers as VirtualCpus sees them after that.                      *)
Informed(woken) == Cpus!Posted(woken, SUCCESS)

(* A handler that wakes nobody.                                            *)
LEMMA NoPosts ==
  ASSUME ContextInv
  PROVE  Posts(user_context, {}) /\ Informed({}) = registers
  <1>1. Posts(user_context, {})
    BY DEF Posts, ContextInv, TypeOK
  <1>2. registers = [p \in Proc |-> registers[p]]
    BY DEF registers
  <1> QED
    BY <1>1, <1>2 DEF Informed, Cpus!Posted

(* What WakeOne does is such a post: who sleeps on a queue waits inside a  *)
(* call, and the caller is in none.                                        *)
LEMMA WakeOnePosts ==
  ASSUME ContextInv, InUser, NEW woken \in SUBSET Proc, Wakes(woken)
  PROVE  Posts(WakeOne(woken), woken)
  <1>1. user_context \in [Proc -> Context] /\ current_process \in Proc
    BY DEF ContextInv, TypeOK
  <1>2. \A p \in woken : p \in Waiting /\ p # current_process
    BY DEF Wakes, Waiting, ContextInv, Waits, InUser
  <1>3. \A p \in Proc : [user_context[p] EXCEPT !.r0 = SUCCESS] \in Context
    BY <1>1, ContextUpdate, Results
  <1> QED
    BY <1>1, <1>2, <1>3 DEF Posts, WakeOne

(* The registers of a process that was not informed are what they were;    *)
(* the others' are in their PCBs, with SUCCESS.                            *)
LEMMA InformedGives ==
  ASSUME ContextInv, NEW contexts, NEW woken, Posts(contexts, woken)
  PROVE  /\ Informed(woken) = [p \in Proc |-> Informed(woken)[p]]
         /\ Informed(woken)[current_process] = registers[current_process]
         /\ \A p \in Proc \ {current_process} :
              Informed(woken)[p] = IF status[p] = "LIVE" THEN contexts[p] ELSE None
  <1>1. Informed(woken) = [p \in Proc |-> IF p \in woken
                                         THEN [registers[p] EXCEPT !.r0 = SUCCESS]
                                         ELSE registers[p]]
    BY DEF Informed, Cpus!Posted
  <1>2. current_process \in Proc /\ current_process \notin woken
    BY DEF Posts, ContextInv, TypeOK
  <1>3. \A p \in woken : p \in Proc /\ status[p] = "LIVE"
    BY DEF Posts, Waiting
  <1>4. ASSUME NEW p \in Proc \ {current_process}
        PROVE  Informed(woken)[p] = IF status[p] = "LIVE" THEN contexts[p] ELSE None
    <2>1. registers[p] = IF status[p] = "LIVE" THEN user_context[p] ELSE None
      BY CurrentRegisters
    <2>2. contexts[p] = IF p \in woken THEN [user_context[p] EXCEPT !.r0 = SUCCESS]
                        ELSE user_context[p]
      BY DEF Posts
    <2> QED
      BY <1>1, <1>3, <2>1, <2>2
  <1>5. Informed(woken) = [p \in Proc |-> Informed(woken)[p]]
    BY <1>1
  <1> QED
    BY <1>1, <1>2, <1>4, <1>5

(* ProcessSchedule from a handler that saved the context of the current    *)
(* process and woke others: ContextInv still holds and the registers of    *)
(* those it did not wake are what they were.                               *)
LEMMA ScheduleWaking ==
  ASSUME ContextInv, NEW saved \in Context, NEW where \in Waits \cup {"clock"},
         NEW contexts, NEW woken, Posts(contexts, woken),
         NEW next \in Proc, Schedule(contexts, current_process, saved, where, next),
         UNCHANGED <<status, parent>>,
         caller' \in [Proc -> Proc \cup {NULL}],
         \A p \in Proc \ {current_process} : caller'[p] = caller[p],
         where \in Waits => caller'[current_process] = current_process
  PROVE  /\ ContextInv'
         /\ registers' = [Informed(woken) EXCEPT ![current_process] = saved]
         /\ Waiting' = IF where \in Waits THEN Waiting \cup {current_process}
                       ELSE Waiting \ {current_process}
  <1> DEFINE p == current_process
  <1>1. /\ status[next] = "LIVE"
        /\ user_context' = [contexts EXCEPT ![p] = saved]
        /\ resumes_in' = [resumes_in EXCEPT ![p] = where]
        /\ current_process' = next
        /\ uctxt' = IF next = p THEN saved ELSE Stale
    BY DEF Schedule
  <1>2. /\ p \in Proc /\ status[p] = "LIVE"
        /\ contexts \in [Proc -> Context]
        /\ resumes_in \in [Proc -> Places]
    BY DEF ContextInv, TypeOK, Places, Posts
  <1>3. /\ resumes_in'[p] = where /\ user_context'[p] = saved
        /\ \A q \in Proc \ {p} :
             resumes_in'[q] = resumes_in[q] /\ user_context'[q] = contexts[q]
    BY <1>1, <1>2
  <1>4. where \in Switched /\ where # "user" /\ where # "zombie" /\ where # "fork"
    BY DEF Waits, Switched
  <1>5. \A q \in Proc \ {p} : status[q] = "LIVE" => resumes_in[q] \in Switched
    BY DEF ContextInv
  <1>6. \A q \in Proc : status[q] = "LIVE" => resumes_in'[q] \in Switched
    BY <1>3, <1>4, <1>5
  <1>7. resumes_in'[next] # "user" /\ resumes_in'[next] # "zombie"
    BY <1>1, <1>6, PlacesDiffer
  <1>8. TypeOK'
    <2>1. user_context' \in [Proc -> Context]
      BY <1>1, <1>2
    <2>2. resumes_in' \in [Proc -> Places]
      <3>1. where \in Places
        BY DEF Places
      <3> QED
        BY <1>1, <1>2, <3>1
    <2> QED
      BY <1>1, <2>1, <2>2 DEF ContextInv, TypeOK, Places
  <1>9. \A q \in Proc :
          /\ resumes_in'[q] \in Waits => status'[q] = "LIVE" /\ caller'[q] = q
          /\ resumes_in'[q] = "fork" => caller'[q] # q
    BY <1>2, <1>3, <1>4 DEF ContextInv
  <1>10. ContextInv'
    BY <1>1, <1>6, <1>7, <1>8, <1>9 DEF ContextInv, InUser
  <1>11. ASSUME NEW q \in Proc
         PROVE  registers'[q] = IF q = p THEN saved ELSE Informed(woken)[q]
    <2>1. registers'[q] = IF status[q] # "LIVE" THEN None ELSE user_context'[q]
      BY <1>1, <1>7 DEF registers, InUser
    <2> QED
      BY <1>2, <1>3, <2>1, InformedGives
  <1>12. registers' = [Informed(woken) EXCEPT ![p] = saved]
    <2>1. Informed(woken) = [q \in Proc |-> Informed(woken)[q]]
      BY InformedGives
    <2>2. registers' = [q \in Proc |-> registers'[q]]
      BY DEF registers
    <2> QED
      BY <1>2, <1>11, <2>1, <2>2
  <1>13. Waiting' = IF where \in Waits THEN Waiting \cup {p} ELSE Waiting \ {p}
    BY <1>2, <1>3 DEF Waiting
  <1> QED
    BY <1>10, <1>12, <1>13

(* The same for a handler that woke nobody.                                *)
LEMMA ScheduleKeeps ==
  ASSUME ContextInv, NEW saved \in Context, NEW where \in Waits \cup {"clock"},
         NEW next \in Proc, Schedule(user_context, current_process, saved, where, next),
         UNCHANGED <<status, parent>>,
         caller' \in [Proc -> Proc \cup {NULL}],
         \A p \in Proc \ {current_process} : caller'[p] = caller[p],
         where \in Waits => caller'[current_process] = current_process
  PROVE  /\ ContextInv'
         /\ registers' = [registers EXCEPT ![current_process] = saved]
         /\ Waiting' = IF where \in Waits THEN Waiting \cup {current_process}
                       ELSE Waiting \ {current_process}
  <1>1. PICK woken : woken = {}
    OBVIOUS
  <1>2. Posts(user_context, woken) /\ Informed(woken) = registers
    BY <1>1, NoPosts
  <1> QED
    BY <1>2, ScheduleWaking

(* TrapKernel's way back to user mode, for a process that made the call    *)
(* itself and woke others in it.                                           *)
LEMMA ReturnWaking ==
  ASSUME ContextInv, NEW ctxt \in Context,
         NEW contexts, NEW woken, Posts(contexts, woken),
         TrapKernelReturns(contexts, ctxt),
         status' \in [Proc -> {"EMPTY", "LIVE", "ZOMBIE"}], SameLife,
         parent' \in [Proc -> Proc \cup {NULL}],
         caller' \in [Proc -> Proc \cup {NULL}],
         \A p \in Proc \ {current_process} : caller'[p] = caller[p],
         caller'[current_process] = current_process
  PROVE  /\ ContextInv'
         /\ registers' = [Informed(woken) EXCEPT ![current_process] = ctxt]
         /\ Waiting' = Waiting \ {current_process}
         /\ current_process' = current_process
  <1> DEFINE p == current_process
  <1>1. /\ user_context' = [contexts EXCEPT ![p] = ctxt]
        /\ uctxt' = user_context'[p]
        /\ resumes_in' = [resumes_in EXCEPT ![p] = "user"]
        /\ current_process' = p
    BY DEF TrapKernelReturns, Saved
  <1>2. /\ p \in Proc /\ status[p] = "LIVE"
        /\ contexts \in [Proc -> Context]
        /\ resumes_in \in [Proc -> Places]
    BY DEF ContextInv, TypeOK, Places, Posts
  <1>3. /\ resumes_in'[p] = "user" /\ user_context'[p] = ctxt
        /\ \A q \in Proc \ {p} :
             resumes_in'[q] = resumes_in[q] /\ user_context'[q] = contexts[q]
    BY <1>1, <1>2
  <1>4. TypeOK'
    <2>1. user_context' \in [Proc -> Context]
      BY <1>1, <1>2
    <2>2. resumes_in' \in [Proc -> Places]
      BY <1>1, <1>2 DEF Places
    <2>3. uctxt' \in Context
      BY <1>1, <1>3
    <2> QED
      BY <1>1, <2>1, <2>2, <2>3 DEF ContextInv, TypeOK, Places
  <1>5. /\ status'[p] = "LIVE" /\ uctxt' \in Context /\ resumes_in'[p] # "zombie"
    BY <1>1, <1>2, <1>3 DEF SameLife
  <1>6. \A q \in Proc :
          /\ status'[q] = "LIVE" /\ q # p => resumes_in'[q] \in Switched
          /\ resumes_in'[q] \in Waits => status'[q] = "LIVE" /\ caller'[q] = q
          /\ resumes_in'[q] = "fork" => caller'[q] # q
    BY <1>3, PlacesDiffer DEF ContextInv, SameLife
  <1>7. ContextInv'
    BY <1>1, <1>4, <1>5, <1>6 DEF ContextInv, InUser
  <1>8. ASSUME NEW q \in Proc
        PROVE  registers'[q] = IF q = p THEN ctxt ELSE Informed(woken)[q]
    <2>1. registers'[q] = IF status'[q] # "LIVE" THEN None
                          ELSE IF q = p THEN uctxt' ELSE user_context'[q]
      BY <1>1, <1>3 DEF registers, InUser
    <2>2. CASE q = p
      BY <1>1, <1>3, <1>5, <2>1, <2>2
    <2>3. CASE q # p
      BY <1>3, <2>1, <2>3, InformedGives DEF SameLife
    <2> QED
      BY <2>2, <2>3
  <1>9. registers' = [Informed(woken) EXCEPT ![p] = ctxt]
    <2>1. Informed(woken) = [q \in Proc |-> Informed(woken)[q]]
      BY InformedGives
    <2>2. registers' = [q \in Proc |-> registers'[q]]
      BY DEF registers
    <2> QED
      BY <1>2, <1>8, <2>1, <2>2
  <1>10. Waiting' = Waiting \ {p}
    BY <1>2, <1>3, PlacesDiffer DEF Waiting, SameLife
  <1> QED
    BY <1>1, <1>7, <1>9, <1>10

(* The same for a call that woke nobody.                                   *)
LEMMA ReturnKeeps ==
  ASSUME ContextInv, NEW ctxt \in Context, TrapKernelReturns(user_context, ctxt),
         status' \in [Proc -> {"EMPTY", "LIVE", "ZOMBIE"}], SameLife,
         parent' \in [Proc -> Proc \cup {NULL}],
         caller' \in [Proc -> Proc \cup {NULL}],
         \A p \in Proc \ {current_process} : caller'[p] = caller[p],
         caller'[current_process] = current_process
  PROVE  /\ ContextInv'
         /\ registers' = [registers EXCEPT ![current_process] = ctxt]
         /\ Waiting' = Waiting \ {current_process}
         /\ current_process' = current_process
  <1>1. PICK woken : woken = {}
    OBVIOUS
  <1>2. Posts(user_context, woken) /\ Informed(woken) = registers
    BY <1>1, NoPosts
  <1> QED
    BY <1>2, ReturnWaking

(* A step that leaves a process its registers and its place leaves it as   *)
(* VirtualCpus sees it.                                                    *)
LEMMA RegistersEqual ==
  ASSUME NEW r, r = [q \in Proc |-> r[q]],
         \A q \in Proc : registers'[q] = r[q]
  PROVE  registers' = r
  <1>1. registers' = [q \in Proc |-> registers'[q]]
    BY DEF registers
  <1> QED
    BY <1>1

----------------------------------------------------------------------------
(* One lemma per handler.                                                  *)

CpuStep == [Cpus!Next]_<<registers, current_process, Waiting>>

(* What a call has put down for others, as VirtualCpus takes it.           *)
LEMMA InformedPosted ==
  ASSUME NEW woken, woken \subseteq Waiting \ {current_process}
  PROVE  \E posted \in SUBSET (Waiting \ {current_process}), rc \in Result :
           Informed(woken) = Cpus!Posted(posted, rc)
  BY Results DEF Informed

(* A call's result: VirtualCpus returns it.                                *)
LEMMA ReturnStep ==
  ASSUME NEW rc \in Result, current_process' = current_process,
         NEW woken, woken \subseteq Waiting \ {current_process},
         registers' = [Informed(woken) EXCEPT ![current_process].r0 = rc],
         Waiting' = Waiting \ {current_process}
  PROVE  CpuStep
  <1>1. PICK r : r = Informed(woken)
    OBVIOUS
  <1>2. Cpus!Return(r, rc)
    BY <1>1 DEF Cpus!Return, Waiting
  <1>3. \E posted \in SUBSET (Waiting \ {current_process}), res \in Result :
          r = Cpus!Posted(posted, res)
    BY <1>1, InformedPosted
  <1> QED
    BY <1>2, <1>3 DEF CpuStep, Cpus!Next, Waiting

(* A call that waits without a result.                                     *)
LEMMA SleepStep ==
  ASSUME NEW next \in Proc, current_process' = next,
         NEW woken, woken \subseteq Waiting \ {current_process},
         registers' = Informed(woken),
         Waiting' = Waiting \cup {current_process}
  PROVE  CpuStep
  <1>1. PICK r : r = Informed(woken)
    OBVIOUS
  <1>2. Cpus!Sleep(r, next)
    BY <1>1 DEF Cpus!Sleep, Waiting
  <1>3. \E posted \in SUBSET (Waiting \ {current_process}), res \in Result :
          r = Cpus!Posted(posted, res)
    BY <1>1, InformedPosted
  <1> QED
    BY <1>2, <1>3 DEF CpuStep, Cpus!Next, Waiting

(* A call that waits with its result already put down.                     *)
LEMMA SleepWithResultStep ==
  ASSUME ContextInv, NEW next \in Proc, current_process' = next, NEW rc \in Result,
         current_process \notin Waiting,
         registers' = [registers EXCEPT ![current_process].r0 = rc],
         Waiting' = Waiting \cup {current_process}
  PROVE  CpuStep
  <1>1. Cpus!Sleep(registers, next)
    BY DEF Cpus!Sleep, Waiting
  <1>2. \E posted \in SUBSET (Waiting \ {current_process}), res \in Result :
          registers = Cpus!Posted(posted, res)
    BY NoPosts, InformedPosted
  <1> QED
    BY <1>1, <1>2 DEF CpuStep, Cpus!Next, Waiting

(* What TrapKernel's first lines do to caller.                             *)
LEMMA EntersKeeps ==
  ASSUME ContextInv, Enters
  PROVE  /\ caller' \in [Proc -> Proc \cup {NULL}]
         /\ \A p \in Proc \ {current_process} : caller'[p] = caller[p]
         /\ caller'[current_process] = current_process
  BY DEF ContextInv, TypeOK, Enters

(* The program computes: its own registers change.                         *)
LEMMA ComputeKeeps ==
  ASSUME ContextInv, NEW pc \in Pc, Compute(pc)
  PROVE  ContextInv' /\ CpuStep
  <1> DEFINE p == current_process
  <1>1. /\ p \in Proc /\ uctxt \in Context /\ registers[p] = uctxt /\ p \notin Waiting
    BY CurrentRegisters DEF Compute
  <1>2. /\ uctxt' = [uctxt EXCEPT !.pc = pc] /\ InUser
        /\ UNCHANGED <<current_process, user_context, resumes_in, caller, status, parent>>
    BY DEF Compute
  <1>3. uctxt' \in Context
    BY <1>1, <1>2, ContextUpdate
  <1>4. ContextInv'
    BY <1>2, <1>3 DEF ContextInv, TypeOK, InUser
  <1>5. \A q \in Proc : registers'[q] = IF q = p THEN uctxt' ELSE registers[q]
    BY <1>2 DEF registers, InUser, ContextInv
  <1>6. registers' = [registers EXCEPT ![p].pc = pc]
    <2> DEFINE r == [registers EXCEPT ![p].pc = pc]
    <2>1. r = [q \in Proc |-> r[q]] /\ \A q \in Proc : registers'[q] = r[q]
      <3>1. registers = [q \in Proc |-> registers[q]]
        BY DEF registers
      <3> QED
        BY <1>1, <1>2, <1>5, <3>1
    <2> HIDE DEF r
    <2> QED
      BY <2>1, RegistersEqual DEF r
  <1>7. Waiting' = Waiting
    BY <1>2 DEF Waiting
  <1> QED
    BY <1>1, <1>2, <1>4, <1>6, <1>7 DEF CpuStep, Cpus!Next, Cpus!Run, Waiting

(* The clock tick: registers saved, another process runs.                  *)
LEMMA TrapClockKeeps ==
  ASSUME ContextInv, NEW next \in Proc, TrapClock(next)
  PROVE  ContextInv' /\ CpuStep
  <1> DEFINE p == current_process
  <1>1. p \in Proc /\ uctxt \in Context /\ registers[p] = uctxt /\ p \notin Waiting
    BY CurrentRegisters DEF TrapClock
  <1>2. /\ ContextInv'
        /\ registers' = [registers EXCEPT ![p] = uctxt]
        /\ Waiting' = Waiting \ {p}
    <2>1. "clock" \in Waits \cup {"clock"} /\ "clock" \notin Waits
      BY PlacesDiffer
    <2>2. /\ Schedule(user_context, p, uctxt, "clock", next) /\ UNCHANGED <<status, parent>>
          /\ caller' \in [Proc -> Proc \cup {NULL}]
          /\ \A q \in Proc \ {p} : caller'[q] = caller[q]
      BY DEF TrapClock, ContextInv, TypeOK
    <2> QED
      BY <1>1, <2>1, <2>2, ScheduleKeeps
  <1>3. registers' = registers
    <2>1. registers = [q \in Proc |-> registers[q]]
      BY DEF registers
    <2> QED
      BY <1>1, <1>2, <2>1
  <1>4. Waiting' = Waiting /\ current_process' = next
    BY <1>1, <1>2 DEF TrapClock, Schedule
  <1> QED
    BY <1>1, <1>2, <1>3, <1>4 DEF CpuStep, Cpus!Next, Cpus!Preempt, Waiting

(* A process that comes back from the tick finds its registers.            *)
LEMMA TrapClockReturnsKeeps ==
  ASSUME ContextInv, TrapClockReturns
  PROVE  ContextInv' /\ CpuStep
  <1> DEFINE p == current_process
  <1>1. /\ p \in Proc /\ ~InUser /\ registers[p] = user_context[p]
        /\ user_context[p] \in Context
        /\ status[p] = "LIVE" /\ resumes_in \in [Proc -> Places]
    BY CurrentRegisters DEF TrapClockReturns, Resuming, InUser, ContextInv, TypeOK, Places
  <1>2. /\ uctxt' = user_context[p] /\ resumes_in[p] = "clock"
        /\ resumes_in' = [resumes_in EXCEPT ![p] = "user"]
        /\ UNCHANGED <<current_process, user_context, caller, status, parent>>
    BY DEF TrapClockReturns, Resuming
  <1>3. /\ resumes_in'[p] = "user" /\ resumes_in' \in [Proc -> Places]
        /\ \A q \in Proc \ {p} : resumes_in'[q] = resumes_in[q]
    BY <1>1, <1>2 DEF Places
  <1>4. ContextInv'
    <2>1. TypeOK'
      BY <1>1, <1>2, <1>3 DEF ContextInv, TypeOK, Places
    <2> QED
      BY <1>1, <1>2, <1>3, <2>1, PlacesDiffer DEF ContextInv, InUser
  <1>5. \A q \in Proc : registers'[q] = registers[q]
    <2>1. \A q \in Proc : registers'[q] = IF status[q] # "LIVE" THEN None
                                          ELSE IF q = p THEN uctxt' ELSE user_context[q]
      BY <1>2, <1>3 DEF registers, InUser
    <2> QED
      BY <1>1, <1>2, <2>1, CurrentRegisters
  <1>6. registers' = registers
    <2>1. registers = [q \in Proc |-> registers[q]]
      BY DEF registers
    <2> QED
      BY <1>5, <2>1, RegistersEqual
  <1>7. Waiting' = Waiting
    BY <1>1, <1>2, <1>3, PlacesDiffer DEF Waiting
  <1> QED
    BY <1>2, <1>4, <1>6, <1>7 DEF CpuStep

(* A call returns rc to the process that made it, ctxt being its           *)
(* registers, and has woken others.                                        *)
LEMMA ReturnsResultWaking ==
  ASSUME ContextInv, NEW ctxt \in Context, registers[current_process] = ctxt,
         NEW contexts, NEW woken, Posts(contexts, woken),
         NEW rc \in Result, TrapKernelReturns(contexts, [ctxt EXCEPT !.r0 = rc]),
         status' \in [Proc -> {"EMPTY", "LIVE", "ZOMBIE"}], SameLife,
         parent' \in [Proc -> Proc \cup {NULL}],
         caller' \in [Proc -> Proc \cup {NULL}],
         \A p \in Proc \ {current_process} : caller'[p] = caller[p],
         caller'[current_process] = current_process
  PROVE  ContextInv' /\ CpuStep
  <1> DEFINE p == current_process
             c == [ctxt EXCEPT !.r0 = rc]
  <1>1. c \in Context
    BY ContextUpdate
  <1>2. TrapKernelReturns(contexts, c)
    OBVIOUS
  <1>3. /\ ContextInv'
        /\ registers' = [Informed(woken) EXCEPT ![p] = c]
        /\ Waiting' = Waiting \ {p}
        /\ current_process' = p
    <2> HIDE DEF c
    <2> QED
      BY <1>1, <1>2, ReturnWaking
  <1>4. registers' = [Informed(woken) EXCEPT ![p].r0 = rc]
    <2>1. Informed(woken)[p] = ctxt
      BY InformedGives
    <2> QED
      BY <1>3, <2>1
  <1>5. woken \subseteq Waiting \ {current_process}
    BY DEF Posts
  <1> QED
    BY <1>3, <1>4, <1>5, ReturnStep

(* The same for a call that woke nobody.                                   *)
LEMMA ReturnsResult ==
  ASSUME ContextInv, NEW ctxt \in Context, registers[current_process] = ctxt,
         NEW rc \in Result, TrapKernelReturns(user_context, [ctxt EXCEPT !.r0 = rc]),
         status' \in [Proc -> {"EMPTY", "LIVE", "ZOMBIE"}], SameLife,
         parent' \in [Proc -> Proc \cup {NULL}],
         caller' \in [Proc -> Proc \cup {NULL}],
         \A p \in Proc \ {current_process} : caller'[p] = caller[p],
         caller'[current_process] = current_process
  PROVE  ContextInv' /\ CpuStep
  <1>1. PICK woken : woken = {}
    OBVIOUS
  <1>2. Posts(user_context, woken)
    BY <1>1, NoPosts
  <1> QED
    BY <1>2, ReturnsResultWaking

(* A call goes to sleep, ctxt being the registers of its process, and has  *)
(* woken others.                                                           *)
LEMMA FallsAsleepWaking ==
  ASSUME ContextInv, NEW ctxt \in Context, registers[current_process] = ctxt,
         NEW contexts, NEW woken, Posts(contexts, woken),
         NEW where \in Waits, NEW next \in Proc,
         Schedule(contexts, current_process, ctxt, where, next),
         UNCHANGED <<status, parent>>,
         caller' \in [Proc -> Proc \cup {NULL}],
         \A p \in Proc \ {current_process} : caller'[p] = caller[p],
         caller'[current_process] = current_process
  PROVE  ContextInv' /\ CpuStep
  <1>1. /\ ContextInv'
        /\ registers' = [Informed(woken) EXCEPT ![current_process] = ctxt]
        /\ Waiting' = Waiting \cup {current_process}
    BY ScheduleWaking
  <1>2. registers' = Informed(woken)
    BY <1>1, InformedGives
  <1>3. current_process' = next /\ woken \subseteq Waiting \ {current_process}
    BY DEF Schedule, Posts
  <1> QED
    BY <1>1, <1>2, <1>3, SleepStep

(* The same for a call that woke nobody.                                   *)
LEMMA FallsAsleep ==
  ASSUME ContextInv, NEW ctxt \in Context, registers[current_process] = ctxt,
         NEW where \in Waits, NEW next \in Proc,
         Schedule(user_context, current_process, ctxt, where, next),
         UNCHANGED <<status, parent>>,
         caller' \in [Proc -> Proc \cup {NULL}],
         \A p \in Proc \ {current_process} : caller'[p] = caller[p],
         caller'[current_process] = current_process
  PROVE  ContextInv' /\ CpuStep
  <1>1. PICK woken : woken = {}
    OBVIOUS
  <1>2. Posts(user_context, woken)
    BY <1>1, NoPosts
  <1> QED
    BY <1>2, FallsAsleepWaking

(* SysDelay and SysTtyWrite go to sleep with their result saved.           *)
LEMMA FallsAsleepWithResult ==
  ASSUME ContextInv, Calls, Enters, NEW where \in Waits, NEW next \in Proc,
         NEW rc \in Result,
         Schedule(user_context, current_process, [uctxt EXCEPT !.r0 = rc], where, next),
         UNCHANGED <<status, parent>>
  PROVE  ContextInv' /\ CpuStep
  <1> DEFINE p == current_process
             c == [uctxt EXCEPT !.r0 = rc]
  <1>1. uctxt \in Context /\ registers[p] = uctxt /\ p \notin Waiting
    BY CurrentRegisters DEF Calls
  <1>2. c \in Context /\ Schedule(user_context, p, c, where, next)
    BY <1>1, ContextUpdate
  <1>3. /\ ContextInv'
        /\ registers' = [registers EXCEPT ![p] = c]
        /\ Waiting' = Waiting \cup {p}
    <2> HIDE DEF c
    <2> QED
      BY <1>2, EntersKeeps, ScheduleKeeps
  <1>4. registers' = [registers EXCEPT ![p].r0 = rc]
    BY <1>1, <1>3
  <1>5. current_process' = next
    BY DEF Schedule
  <1> QED
    BY <1>1, <1>3, <1>4, <1>5, SleepWithResultStep

(* A call that returns at once.                                            *)
LEMMA SyscallDispatchKeeps ==
  ASSUME ContextInv, NEW rc \in Result, NEW woken \in SUBSET Proc,
         SyscallDispatch(rc, woken)
  PROVE  ContextInv' /\ CpuStep
  <1>1. /\ uctxt \in Context /\ registers[current_process] = uctxt
        /\ Posts(WakeOne(woken), woken)
    BY CurrentRegisters, WakeOnePosts DEF SyscallDispatch, Calls
  <1>2. /\ Enters /\ TrapKernelReturns(WakeOne(woken), [uctxt EXCEPT !.r0 = rc])
        /\ status' \in [Proc -> {"EMPTY", "LIVE", "ZOMBIE"}] /\ SameLife
        /\ parent' \in [Proc -> Proc \cup {NULL}]
    BY DEF SyscallDispatch, SameLife, ContextInv, TypeOK
  <1>3. PICK contexts : contexts = WakeOne(woken)
    OBVIOUS
  <1> QED
    BY <1>1, <1>2, <1>3, EntersKeeps, ReturnsResultWaking

(* SysExec: the registers but for the pc are kept.                         *)
LEMMA SysExecKeeps ==
  ASSUME ContextInv, SysExec
  PROVE  ContextInv' /\ CpuStep
  <1> DEFINE p == current_process
             c == [uctxt EXCEPT !.pc = Entry]
  <1>1. uctxt \in Context /\ registers[p] = uctxt /\ p \notin Waiting
    BY CurrentRegisters DEF SysExec, Calls
  <1>2. /\ Enters /\ TrapKernelReturns(user_context, c)
        /\ status' \in [Proc -> {"EMPTY", "LIVE", "ZOMBIE"}] /\ SameLife
        /\ parent' \in [Proc -> Proc \cup {NULL}]
    BY DEF SysExec, SameLife, ContextInv, TypeOK
  <1>3. c \in Context
    BY <1>1, ContextUpdate
  <1>4. /\ ContextInv'
        /\ registers' = [registers EXCEPT ![p] = c]
        /\ Waiting' = Waiting \ {p}
        /\ current_process' = p
    <2> HIDE DEF c
    <2> QED
      BY <1>2, <1>3, EntersKeeps, ReturnKeeps
  <1>5. registers' = [registers EXCEPT ![p].pc = Entry] /\ Waiting' = Waiting
    BY <1>1, <1>4
  <1> QED
    BY <1>1, <1>4, <1>5 DEF CpuStep, Cpus!Next, Cpus!Exec, Waiting

(* SysDelay, SysTtyWrite, SysTtyRead and the calls that sleep on a queue.  *)
LEMMA SleepersKeep ==
  ASSUME ContextInv, NEW next \in Proc, NEW woken \in SUBSET Proc,
         \/ SysDelay(next) \/ SysTtyWrite(next)
         \/ SysTtyRead(next) \/ BlockOnQueue(next, woken)
  PROVE  ContextInv' /\ CpuStep
  <1>1. CASE SysDelay(next)
    BY <1>1, FallsAsleepWithResult, Results DEF SysDelay, Waits
  <1>2. CASE SysTtyWrite(next)
    BY <1>2, FallsAsleepWithResult, Results DEF SysTtyWrite, Waits
  <1>3. CASE SysTtyRead(next)
    <2>1. uctxt \in Context /\ registers[current_process] = uctxt
      BY <1>3, CurrentRegisters DEF SysTtyRead, Calls
    <2> QED
      BY <1>3, <2>1, EntersKeeps, FallsAsleep DEF SysTtyRead, Waits
  <1>4. CASE BlockOnQueue(next, woken)
    <2>1. /\ uctxt \in Context /\ registers[current_process] = uctxt
          /\ Posts(WakeOne(woken), woken)
      BY <1>4, CurrentRegisters, WakeOnePosts DEF BlockOnQueue, Calls
    <2>2. PICK contexts : contexts = WakeOne(woken)
      OBVIOUS
    <2> QED
      BY <1>4, <2>1, <2>2, EntersKeeps, FallsAsleepWaking DEF BlockOnQueue, Waits
  <1> QED
    BY <1>1, <1>2, <1>3, <1>4

(* A process resumed inside its call: it made that call itself, and its    *)
(* registers are in its PCB.                                               *)
LEMMA ResumedFacts ==
  ASSUME ContextInv, NEW where \in Waits, Resuming(where), UNCHANGED caller
  PROVE  /\ Restored \in Context /\ registers[current_process] = Restored
         /\ caller' \in [Proc -> Proc \cup {NULL}]
         /\ \A p \in Proc \ {current_process} : caller'[p] = caller[p]
         /\ caller'[current_process] = current_process
  <1>1. ~InUser
    BY PlacesDiffer DEF Resuming, InUser
  <1>2. Restored \in Context /\ registers[current_process] = Restored
    BY <1>1, CurrentRegisters DEF Restored
  <1>3. caller[current_process] = current_process
    BY DEF ContextInv, TypeOK, Resuming
  <1> QED
    BY <1>2, <1>3 DEF ContextInv, TypeOK

(* The calls that come back from their sleep with a result, or sleep again.*)
LEMMA ResumedKeep ==
  ASSUME ContextInv,
         \/ SysDelayResumed \/ SysTtyWriteResumed
         \/ SysTtyReadResumed \/ BlockedResumed
  PROVE  ContextInv' /\ CpuStep
  <1>0. /\ UNCHANGED <<caller, status, parent>>
        /\ status' \in [Proc -> {"EMPTY", "LIVE", "ZOMBIE"}] /\ SameLife
        /\ parent' \in [Proc -> Proc \cup {NULL}]
    BY DEF SysDelayResumed, SysTtyWriteResumed, SysTtyReadResumed, BlockedResumed,
       SameLife, ContextInv, TypeOK
  <1>1. PICK where \in Waits : Resuming(where)
    BY DEF SysDelayResumed, SysTtyWriteResumed, SysTtyReadResumed, BlockedResumed, Waits
  <1>2. /\ Restored \in Context /\ registers[current_process] = Restored
        /\ caller' \in [Proc -> Proc \cup {NULL}]
        /\ \A p \in Proc \ {current_process} : caller'[p] = caller[p]
        /\ caller'[current_process] = current_process
    BY <1>0, <1>1, ResumedFacts
  <1>3. CASE SysDelayResumed
    BY <1>0, <1>2, <1>3, ReturnsResult, Results DEF SysDelayResumed
  <1>4. CASE SysTtyWriteResumed
    BY <1>0, <1>2, <1>4, ReturnsResult, Results DEF SysTtyWriteResumed
  <1>5. ASSUME NEW rc \in Result, TrapKernelReturns(user_context, [Restored EXCEPT !.r0 = rc])
        PROVE  ContextInv' /\ CpuStep
    BY <1>0, <1>2, <1>5, ReturnsResult
  <1>6. ASSUME NEW place \in Waits, NEW next \in Proc,
               Schedule(user_context, current_process, Restored, place, next)
        PROVE  ContextInv' /\ CpuStep
    BY <1>0, <1>2, <1>6, FallsAsleep
  <1>7. {0, SUCCESS, ERROR, Length} \subseteq Result /\ {"read", "queue"} \subseteq Waits
    BY Results DEF SUCCESS, Waits
  <1>8. CASE SysTtyReadResumed
    BY <1>5, <1>6, <1>7, <1>8 DEF SysTtyReadResumed
  <1>9. CASE BlockedResumed
    BY <1>5, <1>6, <1>7, <1>9 DEF BlockedResumed
  <1> QED
    BY <1>3, <1>4, <1>8, <1>9

(* SysWait's loop, first or resumed: a child's pid, ERROR, or sleep.       *)
LEMMA WaitLoopKeeps ==
  ASSUME ContextInv, NEW ctxt \in Context, registers[current_process] = ctxt,
         WaitLoop(ctxt),
         caller' \in [Proc -> Proc \cup {NULL}],
         \A p \in Proc \ {current_process} : caller'[p] = caller[p],
         caller'[current_process] = current_process
  PROVE  ContextInv' /\ CpuStep
  <1>1. ASSUME NEW child \in Zombies(current_process),
               status' = [status EXCEPT ![child] = "EMPTY"],
               parent' = [parent EXCEPT ![child] = NULL],
               TrapKernelReturns(user_context, [ctxt EXCEPT !.r0 = child])
        PROVE  ContextInv' /\ CpuStep
    <2>1. child \in Result /\ child \in Proc /\ status[child] = "ZOMBIE"
      BY Results DEF Zombies
    <2>2. /\ status' \in [Proc -> {"EMPTY", "LIVE", "ZOMBIE"}] /\ SameLife
          /\ parent' \in [Proc -> Proc \cup {NULL}]
      BY <1>1, <2>1 DEF SameLife, ContextInv, TypeOK
    <2> QED
      BY <1>1, <2>1, <2>2, ReturnsResult
  <1>2. ASSUME TrapKernelReturns(user_context, [ctxt EXCEPT !.r0 = ERROR]),
               UNCHANGED <<status, parent>>
        PROVE  ContextInv' /\ CpuStep
    <2>1. /\ status' \in [Proc -> {"EMPTY", "LIVE", "ZOMBIE"}] /\ SameLife
          /\ parent' \in [Proc -> Proc \cup {NULL}]
      BY <1>2 DEF SameLife, ContextInv, TypeOK
    <2> QED
      BY <1>2, <2>1, ReturnsResult, Results
  <1>3. ASSUME NEW next \in Proc,
               Schedule(user_context, current_process, ctxt, "wait", next),
               UNCHANGED <<status, parent>>
        PROVE  ContextInv' /\ CpuStep
    BY <1>3, FallsAsleep DEF Waits
  <1> QED
    BY <1>1, <1>2, <1>3 DEF WaitLoop

(* SysWait, from its call and from its sleep.                              *)
LEMMA SysWaitKeeps ==
  ASSUME ContextInv, SysWait \/ SysWaitResumed
  PROVE  ContextInv' /\ CpuStep
  <1>1. CASE SysWait
    <2>1. uctxt \in Context /\ registers[current_process] = uctxt
      BY <1>1, CurrentRegisters DEF SysWait, Calls
    <2> QED
      BY <1>1, <2>1, EntersKeeps, WaitLoopKeeps DEF SysWait
  <1>2. CASE SysWaitResumed
    BY <1>2, ResumedFacts, WaitLoopKeeps DEF SysWaitResumed, Waits
  <1> QED
    BY <1>1, <1>2

(* TrapTtyTransmit writes to the PCB of a process that waits: nobody's     *)
(* registers but those of the process whose write is done.                 *)
LEMMA TrapTtyTransmitKeeps ==
  ASSUME ContextInv, NEW writer \in Proc, TrapTtyTransmit(writer)
  PROVE  ContextInv' /\ CpuStep
  <1> DEFINE c == [user_context[writer] EXCEPT !.r0 = Length]
  <1>1. /\ InUser /\ resumes_in[writer] = "write"
        /\ user_context' = [user_context EXCEPT ![writer] = c]
        /\ UNCHANGED <<current_process, uctxt, resumes_in, caller, status, parent>>
    BY DEF TrapTtyTransmit
  <1>2. /\ writer # current_process /\ status[writer] = "LIVE"
        /\ user_context \in [Proc -> Context] /\ writer \in Waiting
    BY <1>1 DEF InUser, ContextInv, TypeOK, Waits, Waiting
  <1>3. registers[writer] = user_context[writer]
    BY <1>2, CurrentRegisters
  <1>4. c \in Context
    BY <1>2, ContextUpdate, Results
  <1>5. /\ user_context' \in [Proc -> Context] /\ user_context'[writer] = c
        /\ \A q \in Proc \ {writer} : user_context'[q] = user_context[q]
    <2> HIDE DEF c
    <2> QED
      BY <1>1, <1>2, <1>4
  <1>6. ContextInv'
    BY <1>1, <1>5 DEF ContextInv, TypeOK, InUser
  <1>7. \A q \in Proc : registers'[q] = IF q = writer THEN c ELSE registers[q]
    <2> HIDE DEF c
    <2> QED
      BY <1>1, <1>2, <1>5 DEF registers, InUser
  <1>8. registers' = Cpus!Posted({writer}, Length)
    <2> DEFINE r == Cpus!Posted({writer}, Length)
    <2>1. r = [q \in Proc |-> IF q = writer THEN [registers[q] EXCEPT !.r0 = Length]
                                            ELSE registers[q]]
      BY DEF Cpus!Posted
    <2>2. r = [q \in Proc |-> r[q]] /\ \A q \in Proc : registers'[q] = r[q]
      BY <1>3, <1>7, <2>1
    <2> HIDE DEF r
    <2> QED
      BY <2>2, RegistersEqual DEF r
  <1>9. Waiting' = Waiting
    BY <1>1 DEF Waiting
  <1>10. Cpus!Post(Cpus!Posted({writer}, Length))
    BY <1>1, <1>8, <1>9 DEF Cpus!Post, Waiting
  <1>11. {writer} \in SUBSET (Waiting \ {current_process})
    BY <1>2
  <1> QED
    BY <1>6, <1>10, <1>11, Results DEF CpuStep, Cpus!Next, Waiting

(* The forked child's first return: TrapKernel does not take over *uctxt,  *)
(* which is stale.                                                         *)
LEMMA SysForkReturnsKeeps ==
  ASSUME ContextInv, SysForkReturns
  PROVE  ContextInv' /\ CpuStep
  <1> DEFINE p == current_process
  <1>1. /\ p \in Proc /\ ~InUser /\ registers[p] = user_context[p]
        /\ user_context[p] \in Context /\ user_context \in [Proc -> Context]
        /\ status[p] = "LIVE" /\ resumes_in \in [Proc -> Places]
    BY CurrentRegisters DEF SysForkReturns, Resuming, InUser, ContextInv, TypeOK, Places
  <1>2. /\ resumes_in[p] = "fork" /\ caller'[p] # p
        /\ UNCHANGED <<current_process, caller, status, parent>>
        /\ user_context' = [user_context EXCEPT ![p] = user_context[p]]
        /\ uctxt' = user_context'[p]
        /\ resumes_in' = [resumes_in EXCEPT ![p] = "user"]
    <2>1. resumes_in[p] = "fork" /\ UNCHANGED <<caller, status, parent>>
          /\ TrapKernelReturns(user_context, Stale)
      BY DEF SysForkReturns, Resuming
    <2>2. caller'[p] # p
      BY <1>1, <2>1 DEF ContextInv
    <2> QED
      BY <2>1, <2>2 DEF TrapKernelReturns, Saved
  <1>3. user_context' = user_context /\ uctxt' = user_context[p]
    BY <1>1, <1>2
  <1>4. /\ resumes_in'[p] = "user" /\ resumes_in' \in [Proc -> Places]
        /\ \A q \in Proc \ {p} : resumes_in'[q] = resumes_in[q]
    BY <1>1, <1>2 DEF Places
  <1>5. ContextInv'
    <2>1. TypeOK'
      BY <1>1, <1>2, <1>3, <1>4 DEF ContextInv, TypeOK, Places
    <2> QED
      BY <1>1, <1>2, <1>3, <1>4, <2>1, PlacesDiffer DEF ContextInv, InUser
  <1>6. \A q \in Proc : registers'[q] = registers[q]
    <2>1. \A q \in Proc : registers'[q] = IF status[q] # "LIVE" THEN None
                                          ELSE IF q = p THEN uctxt' ELSE user_context[q]
      BY <1>2, <1>3, <1>4 DEF registers, InUser
    <2> QED
      BY <1>1, <1>3, <2>1, CurrentRegisters
  <1>7. registers' = registers
    <2>1. registers = [q \in Proc |-> registers[q]]
      BY DEF registers
    <2> QED
      BY <1>6, <2>1, RegistersEqual
  <1>8. Waiting' = Waiting
    BY <1>1, <1>2, <1>4, PlacesDiffer DEF Waiting
  <1> QED
    BY <1>2, <1>5, <1>7, <1>8 DEF CpuStep

(* SysFork: the child gets the registers of its parent and 0.              *)
LEMMA SysForkKeeps ==
  ASSUME ContextInv, NEW child \in Proc, SysFork(child)
  PROVE  ContextInv' /\ CpuStep
  <1> DEFINE p == current_process
             c == [uctxt EXCEPT !.r0 = child]
             d == [uctxt EXCEPT !.r0 = 0]
  <1>1. /\ p \in Proc /\ status[p] = "LIVE" /\ status[child] = "EMPTY" /\ child # p
        /\ uctxt \in Context /\ registers[p] = uctxt /\ p \notin Waiting /\ InUser
        /\ user_context \in [Proc -> Context] /\ resumes_in \in [Proc -> Places]
        /\ caller \in [Proc -> Proc \cup {NULL}] /\ parent \in [Proc -> Proc \cup {NULL}]
        /\ status \in [Proc -> {"EMPTY", "LIVE", "ZOMBIE"}]
    BY CurrentRegisters DEF SysFork, Calls, ContextInv, TypeOK, Places
  <1>2. /\ status' = [status EXCEPT ![child] = "LIVE"]
        /\ parent' = [parent EXCEPT ![child] = p]
        /\ caller' = [caller EXCEPT ![p] = p, ![child] = p]
        /\ user_context' = [user_context EXCEPT ![p] = c, ![child] = d]
        /\ resumes_in' = [resumes_in EXCEPT ![child] = "fork"]
        /\ uctxt' = user_context'[p]
        /\ current_process' = p
    BY DEF SysFork, ChildContext
  <1>3. c \in Context /\ d \in Context
    BY <1>1, ContextUpdate, Results DEF SUCCESS
  <1> HIDE DEF c, d
  <1>4. /\ user_context' \in [Proc -> Context]
        /\ user_context'[p] = c /\ user_context'[child] = d
        /\ \A q \in Proc \ {p, child} : user_context'[q] = user_context[q]
    BY <1>1, <1>2, <1>3
  <1>5. /\ caller' \in [Proc -> Proc \cup {NULL}]
        /\ caller'[p] = p /\ caller'[child] = p
        /\ \A q \in Proc \ {p, child} : caller'[q] = caller[q]
    BY <1>1, <1>2
  <1>6. /\ resumes_in' \in [Proc -> Places] /\ resumes_in'[child] = "fork"
        /\ \A q \in Proc \ {child} : resumes_in'[q] = resumes_in[q]
    BY <1>1, <1>2 DEF Places
  <1>7. /\ status' \in [Proc -> {"EMPTY", "LIVE", "ZOMBIE"}] /\ status'[child] = "LIVE"
        /\ \A q \in Proc \ {child} : status'[q] = status[q]
    BY <1>1, <1>2
  <1>8. parent' \in [Proc -> Proc \cup {NULL}]
    BY <1>1, <1>2
  <1>9. uctxt' = c /\ resumes_in'[p] = "user" /\ resumes_in[p] = "user"
    BY <1>1, <1>2, <1>4, <1>6 DEF InUser
  <1>10. ContextInv'
    <2>1. TypeOK'
      BY <1>1, <1>2, <1>3, <1>4, <1>5, <1>6, <1>7, <1>8, <1>9 DEF TypeOK, Places
    <2>2. \A q \in Proc :
            /\ status'[q] = "LIVE" /\ q # p => resumes_in'[q] \in Switched
            /\ resumes_in'[q] \in Waits => status'[q] = "LIVE" /\ caller'[q] = q
            /\ resumes_in'[q] = "fork" => caller'[q] # q
      <3>1. "fork" \in Switched
        BY DEF Switched
      <3> QED
        BY <1>1, <1>5, <1>6, <1>7, <1>9, <3>1, PlacesDiffer DEF ContextInv
    <2>3. status'[p] = "LIVE"
      BY <1>1, <1>7
    <2> QED
      BY <1>2, <1>3, <1>9, <2>1, <2>2, <2>3 DEF ContextInv, InUser
  <1>11. \A q \in Proc : registers'[q] = IF q = p THEN c ELSE IF q = child THEN d
                                         ELSE registers[q]
    <2>1. \A q \in Proc : registers'[q] = IF status'[q] # "LIVE" THEN None
                                          ELSE IF q = p THEN uctxt' ELSE user_context'[q]
      BY <1>2, <1>9 DEF registers, InUser
    <2> QED
      BY <1>1, <1>4, <1>7, <1>9, <2>1, CurrentRegisters
  <1>12. registers' = [registers EXCEPT ![child] = [registers[p] EXCEPT !.r0 = 0],
                                        ![p].r0 = child]
    <2> DEFINE r == [registers EXCEPT ![child] = [registers[p] EXCEPT !.r0 = 0],
                                      ![p].r0 = child]
    <2>0. registers = [q \in Proc |-> registers[q]]
      BY DEF registers
    <2>1. r = [q \in Proc |-> r[q]]
      BY <2>0
    <2>2. r[p] = c
      BY <1>1 DEF registers, c
    <2>3. r[child] = d
      BY <1>1 DEF registers, d
    <2>4. \A q \in Proc \ {p, child} : r[q] = registers[q]
      BY DEF registers
    <2> HIDE DEF r
    <2>5. \A q \in Proc : registers'[q] = r[q]
      BY <1>1, <1>11, <2>2, <2>3, <2>4
    <2> QED
      BY <2>1, <2>5, RegistersEqual DEF r
  <1>13. registers[child] = None
    BY <1>1 DEF registers
  <1>14. Waiting' = Waiting
    BY <1>1, <1>6, <1>7, PlacesDiffer DEF Waiting
  <1> QED
    BY <1>1, <1>2, <1>10, <1>12, <1>13, <1>14
    DEF CpuStep, Cpus!Next, Cpus!Fork, Waiting

(* ProcessExitCurrent: the zombie has no registers any more, and nobody    *)
(* else's change but those of the processes that waited for its locks.     *)
LEMMA ExitKeeps ==
  ASSUME ContextInv, NEW next \in Proc, NEW woken \in SUBSET Proc,
         ProcessExitCurrent(next, woken)
  PROVE  ContextInv' /\ CpuStep
  <1> DEFINE p == current_process
  <1>1. /\ p \in Proc /\ status[p] = "LIVE" /\ p # next /\ status[next] = "LIVE"
        /\ uctxt \in Context /\ p \notin Waiting
        /\ Posts(WakeOne(woken), woken) /\ resumes_in \in [Proc -> Places]
        /\ caller \in [Proc -> Proc \cup {NULL}] /\ parent \in [Proc -> Proc \cup {NULL}]
        /\ status \in [Proc -> {"EMPTY", "LIVE", "ZOMBIE"}]
    BY CurrentRegisters, WakeOnePosts
    DEF ProcessExitCurrent, Schedule, Calls, ContextInv, TypeOK, Places
  <1>0. PICK contexts : contexts = WakeOne(woken)
    OBVIOUS
  <1>2. /\ user_context' = [contexts EXCEPT ![p] = uctxt]
        /\ resumes_in' = [resumes_in EXCEPT ![p] = "zombie"]
        /\ current_process' = next /\ uctxt' = Stale
        /\ status' = [status EXCEPT ![p] = "ZOMBIE"]
        /\ parent' = [c \in Proc |-> IF parent[c] = p THEN NULL ELSE parent[c]]
        /\ caller' = caller
    BY <1>0, <1>1 DEF ProcessExitCurrent, Schedule
  <1>3. /\ user_context' \in [Proc -> Context]
        /\ \A q \in Proc \ {p} : user_context'[q] = contexts[q]
    BY <1>0, <1>1, <1>2 DEF Posts
  <1>4. /\ resumes_in' \in [Proc -> Places] /\ resumes_in'[p] = "zombie"
        /\ \A q \in Proc \ {p} : resumes_in'[q] = resumes_in[q]
    BY <1>1, <1>2 DEF Places
  <1>5. /\ status' \in [Proc -> {"EMPTY", "LIVE", "ZOMBIE"}] /\ status'[p] = "ZOMBIE"
        /\ \A q \in Proc \ {p} : status'[q] = status[q]
    BY <1>1, <1>2
  <1>6. parent' \in [Proc -> Proc \cup {NULL}]
    BY <1>1, <1>2
  <1>7. resumes_in'[next] \in Switched
    BY <1>1, <1>4 DEF ContextInv
  <1>8. ContextInv'
    <2>1. TypeOK'
      BY <1>1, <1>2, <1>3, <1>4, <1>5, <1>6 DEF TypeOK, Places
    <2>2. \A q \in Proc :
            /\ status'[q] = "LIVE" /\ q # next => resumes_in'[q] \in Switched
            /\ resumes_in'[q] \in Waits => status'[q] = "LIVE" /\ caller'[q] = q
            /\ resumes_in'[q] = "fork" => caller'[q] # q
      BY <1>1, <1>2, <1>4, <1>5, PlacesDiffer DEF ContextInv
    <2>3. resumes_in'[next] # "user" /\ resumes_in'[next] # "zombie"
      BY <1>7, PlacesDiffer
    <2> QED
      BY <1>1, <1>2, <1>5, <2>1, <2>2, <2>3 DEF ContextInv, InUser
  <1>9. \A q \in Proc : registers'[q] = IF q = p THEN None ELSE Informed(woken)[q]
    <2>1. \A q \in Proc : registers'[q] = IF status'[q] # "LIVE" THEN None
                                          ELSE user_context'[q]
      BY <1>2, <1>7, PlacesDiffer DEF registers, InUser
    <2> QED
      BY <1>0, <1>1, <1>3, <1>5, <2>1, InformedGives
  <1>10. registers' = [Informed(woken) EXCEPT ![p] = None]
    <2>1. Informed(woken) = [q \in Proc |-> Informed(woken)[q]]
      BY <1>0, <1>1, InformedGives
    <2>2. registers' = [q \in Proc |-> registers'[q]]
      BY DEF registers
    <2> QED
      BY <1>1, <1>9, <2>1, <2>2
  <1>11. Waiting' = Waiting
    BY <1>1, <1>4, <1>5 DEF Waiting
  <1>12. woken \subseteq Waiting \ {current_process}
    BY <1>1 DEF Posts
  <1>13. PICK r : r = Informed(woken)
    OBVIOUS
  <1>14. Cpus!Exit(r, next)
    BY <1>1, <1>2, <1>10, <1>11, <1>13 DEF Cpus!Exit, Waiting
  <1>15. \E posted \in SUBSET (Waiting \ {current_process}), res \in Result :
           r = Cpus!Posted(posted, res)
    BY <1>12, <1>13, InformedPosted
  <1> QED
    BY <1>8, <1>14, <1>15 DEF CpuStep, Cpus!Next, Waiting

----------------------------------------------------------------------------

(* Booting leaves ContextInv.                                              *)
LEMMA InitGives ==
  ASSUME Init
  PROVE  ContextInv /\ Cpus!Init
  <1>1. InitProc \in Proc /\ InitProc # Idle /\ Idle \in Proc
    BY ContextAssumption
  <1>2. [pc |-> Entry, r0 |-> 0] \in Context
    BY DEF Context, Result, SUCCESS
  <1>3. TypeOK
    BY <1>1, <1>2 DEF Init, TypeOK
  <1>4. InUser /\ uctxt \in Context /\ resumes_in[current_process] # "zombie"
    BY <1>1, <1>2 DEF Init, InUser
  <1>5. \A p \in Proc :
          /\ status[p] = "LIVE" /\ p # current_process => resumes_in[p] \in Switched
          /\ resumes_in[p] \notin Waits
          /\ resumes_in[p] # "fork"
    BY <1>1 DEF Init, Switched, Waits
  <1>6. ContextInv
    BY <1>1, <1>3, <1>4, <1>5 DEF ContextInv, Init
  <1>7. registers \in [Proc -> [pc : Pc \cup {Entry}, r0 : {0}] \cup {None}]
    BY <1>1 DEF Init, registers, InUser
  <1>8. Waiting = {}
    BY <1>5 DEF Waiting
  <1> QED
    BY <1>1, <1>6, <1>7, <1>8 DEF Cpus!Init, Waiting, Init

(* Every step keeps ContextInv and is a step of VirtualCpus.               *)
LEMMA NextKeeps ==
  ASSUME ContextInv, [Next]_vars
  PROVE  ContextInv' /\ CpuStep
  <1>1. CASE Next
    BY <1>1, ComputeKeeps, TrapClockKeeps, TrapClockReturnsKeeps, SyscallDispatchKeeps,
       SysForkKeeps, SysForkReturnsKeeps, SysExecKeeps, ExitKeeps, SysWaitKeeps,
       SleepersKeep, ResumedKeep, TrapTtyTransmitKeeps DEF Next
  <1>2. CASE UNCHANGED vars
    BY <1>2 DEF vars, ContextInv, TypeOK, InUser, CpuStep, registers, Waiting
  <1> QED
    BY <1>1, <1>2

(* ContextInv always holds, TypeOK included: *uctxt holds registers while  *)
(* the current process is in user mode, and every process that is not      *)
(* current will go on where it was switched away from.                     *)
THEOREM ContextCorrect ==
  Spec => []ContextInv
  <1>1. Init => ContextInv
    BY InitGives
  <1>2. ContextInv /\ [Next]_vars => ContextInv'
    BY NextKeeps
  <1> QED
    BY <1>1, <1>2, PTL DEF Spec

(* Contexts, PCBs and kernel stacks always have their types.               *)
THEOREM TypeCorrect ==
  Spec => []TypeOK
  <1>1. ContextInv => TypeOK
    BY DEF ContextInv
  <1> QED
    BY <1>1, ContextCorrect, PTL

(* Traps, blocking calls, KCCopy and KCSwitch give every process registers *)
(* of its own: Context implements VirtualCpus.                             *)
THEOREM RegistersCorrect ==
  Spec => OwnRegisters
  <1>1. Init => Cpus!Init
    BY InitGives
  <1>2. ContextInv /\ [Next]_vars =>
          [Cpus!Next]_<<registers, current_process,
                        {p \in Proc : status[p] = "LIVE" /\ resumes_in[p] \in Waits}>>
    BY NextKeeps DEF CpuStep, Waiting
  <1> QED
    BY <1>1, <1>2, ContextCorrect, PTL DEF Spec, OwnRegisters, Cpus!Spec

=============================================================================
