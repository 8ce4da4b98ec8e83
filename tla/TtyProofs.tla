----------------------------- MODULE TtyProofs -----------------------------
(***************************************************************************)
(* The invariants of module Tty, proved for every set of processes, every  *)
(* number of terminals and every length of a line, a read and a write.     *)
(***************************************************************************)
EXTENDS Tty, SchedProofs

PC == {"user", "tty_read", "tty_write"}
Line == Seq(1 .. MaxInput)
Packet == [proc : Proc, len : 1 .. TERMINAL_MAX_LINE]

----------------------------------------------------------------------------
(* The inductive invariant.                                                *)

(* Writing.  Blocked(st, pc, p): p sleeps in SysTtyWrite; Places(w, wq, t) *)
(* are the processes that terminal t knows of, when its writer is w[t] and *)
(* its write queue is wq[t].                                               *)
Blocked(st, pc, p) == st[p] = "BLOCKED" /\ pc[p] = "tty_write"
Places(w, wq, t) == Range(wq[t]) \cup ({w[t]} \ {NULL})

(* WritersSound, on what a handler makes of the four variables.            *)
Placed(st, pc, w, wq) ==
  /\ w \in [Term -> Proc \cup {NULL}]
  /\ wq \in [Term -> Seq(Proc)]
  /\ \A t \in Term : IsInjective(wq[t]) /\ w[t] \notin Range(wq[t])
  /\ \A t, u \in Term : t # u => Places(w, wq, t) \cap Places(w, wq, u) = {}
  /\ \A t \in Term : \A p \in Places(w, wq, t) : Blocked(st, pc, p)
  /\ \A p \in Proc : Blocked(st, pc, p) => \E t \in Term : p \in Places(w, wq, t)

WritersPlaced == Placed(state, kernel_pc, writer, write_queue)

WritesTyped ==
  /\ busy \in [Term -> BOOLEAN]
  /\ tty_write_len \in [Proc -> WriteLens \cup {0}]
  /\ tty_write_offset \in [Proc -> Nat]
  /\ wire \in [Term -> Seq(Packet)]
  /\ acked \in [Proc -> Nat]

(* The terminal is idle, or its writer's last chunk, the only one out, is  *)
(* the difference between what was sent and what was acknowledged.         *)
Idles(t) ==
  /\ ~busy[t]
  /\ wire[t] = <<>>
  /\ write_queue[t] = <<>>

Sends(t, p) ==
  /\ busy[t]
  /\ tty_write_offset[p] - acked[p] \in 1 .. TERMINAL_MAX_LINE
  /\ tty_write_offset[p] <= tty_write_len[p]
  /\ wire[t] = <<[proc |-> p, len |-> tty_write_offset[p] - acked[p]]>>

WiresSound ==
  \A t \in Term : IF writer[t] = NULL THEN Idles(t) ELSE Sends(t, writer[t])

(* A queued write has not begun.                                           *)
QueuedFresh ==
  \A t \in Term : \A p \in Range(write_queue[t]) :
    tty_write_offset[p] = 0 /\ acked[p] = 0 /\ tty_write_len[p] > 0

OutInv == WritersPlaced /\ WritesTyped /\ WiresSound /\ QueuedFresh /\ WholeWrite

(* Reading.  The processes blocked in SysTtyRead are the ones queued, each *)
(* at the terminal of its call, and a line is handed only to a process     *)
(* that is on its way out of it.                                           *)
Linked(st, pc, cl, q) ==
  /\ q \in [Term -> Seq(Proc)]
  /\ \A t \in Term : IsInjective(q[t])
  /\ \A t \in Term : \A p \in Range(q[t]) :
       st[p] = "BLOCKED" /\ pc[p] = "tty_read" /\ cl[p].tty = t
  /\ \A p \in Proc :
       st[p] = "BLOCKED" /\ pc[p] = "tty_read" => p \in Range(q[cl[p].tty])

ReadersLinked == Linked(state, kernel_pc, call, read_queue)

ReadsTyped ==
  /\ input_queue \in [Term -> Seq(Line)]
  /\ line \in [Term -> Line \cup {NULL}]
  /\ tty_read_line \in [Proc -> Line \cup {NULL}]
  /\ call \in [Proc -> [tty : Term, len : ReadLens \cup {0}]]
  /\ received \in [Term -> 0 .. MaxInput]
  /\ consumed \in [Term -> Line]

Handed ==
  \A p \in Proc :
    /\ kernel_pc[p] = "tty_read" => p \in Readers /\ call[p].len \in ReadLens
    /\ tty_read_line[p] # NULL => kernel_pc[p] = "tty_read" /\ state[p] # "BLOCKED"

InInv == ReadersLinked /\ ReadsTyped /\ Handed

TtyInv == Undelayed(PC) /\ OutInv /\ InInv
----------------------------------------------------------------------------
(* Blocking, waking and returning.                                         *)

(* A step that leaves the processes in SysTtyRead, or in SysTtyWrite, as   *)
(* they are, blocked or not.                                               *)
SameAt(pc) ==
  \A r \in Proc :
    /\ kernel_pc'[r] = pc <=> kernel_pc[r] = pc
    /\ kernel_pc[r] = pc => (state'[r] = "BLOCKED" <=> state[r] = "BLOCKED")

LEMMA CurrentRuns ==
  ASSUME Undelayed(PC)
  PROVE  /\ current_process \in Proc
         /\ state \in [Proc -> ProcState]
         /\ kernel_pc \in [Proc -> PC]
         /\ state[current_process] # "BLOCKED"
         /\ kernel_pc[Idle] = "user"
  BY UndelayedGives DEF Undelayed

(* The current process blocks and will continue at pc.                     *)
LEMMA BlockKeeps ==
  ASSUME Undelayed(PC), current_process # Idle, NEW pc \in PC \ {"user"},
         kernel_pc' = [kernel_pc EXCEPT ![current_process] = pc],
         ProcessSchedule([state EXCEPT ![current_process] = "BLOCKED"], ready_queue,
                         delay_until, clock_ticks),
         UNCHANGED <<clock_ticks, halted>>
  PROVE  /\ Undelayed(PC)'
         /\ kernel_pc'[current_process] = pc
         /\ \A r \in Proc :
              /\ r # current_process => kernel_pc'[r] = kernel_pc[r]
              /\ state'[r] = "BLOCKED" <=> (state[r] = "BLOCKED" \/ r = current_process)
  <1>1. /\ current_process \in Proc
        /\ StatesSound(state, current_process)
        /\ QueueSound(state, ready_queue, current_process)
    BY UndelayedGives
  <1>2. PICK st : st = [state EXCEPT ![current_process] = "BLOCKED"]
    OBVIOUS
  <1>3. StatesSound(st, current_process) /\ QueueSound(st, ready_queue, current_process)
    BY <1>1, <1>2, LeavesCPU
  <1>4. /\ kernel_pc' \in [Proc -> PC] /\ kernel_pc'[Idle] = "user"
        /\ kernel_pc'[current_process] = pc
        /\ \A r \in Proc : r # current_process => kernel_pc'[r] = kernel_pc[r]
        /\ clock_ticks' \in 0 .. Word - 1
    BY <1>1, SchedAssumption DEF Undelayed
  <1>5. /\ Undelayed(PC)'
        /\ \A r \in Proc : state'[r] = "BLOCKED" <=> st[r] = "BLOCKED"
    <2>1. ProcessSchedule(st, ready_queue, delay_until, clock_ticks)
      BY <1>2
    <2> QED
      BY <1>3, <1>4, <2>1, UndelayedSchedule
  <1>6. \A r \in Proc : st[r] = "BLOCKED" <=> (state[r] = "BLOCKED" \/ r = current_process)
    BY <1>1, <1>2 DEF StatesSound
  <1> QED
    BY <1>4, <1>5, <1>6

(* The current process returns to its program.                             *)
LEMMA ReturnKeeps ==
  ASSUME Undelayed(PC),
         kernel_pc' = [kernel_pc EXCEPT ![current_process] = "user"],
         UNCHANGED <<state, ready_queue, current_process, clock_ticks, delay_until, halted>>
  PROVE  /\ Undelayed(PC)'
         /\ kernel_pc'[current_process] = "user"
         /\ \A r \in Proc : r # current_process => kernel_pc'[r] = kernel_pc[r]
  <1>1. /\ kernel_pc' \in [Proc -> PC] /\ kernel_pc'[Idle] = "user"
        /\ halted' \in BOOLEAN
        /\ kernel_pc'[current_process] = "user"
        /\ \A r \in Proc : r # current_process => kernel_pc'[r] = kernel_pc[r]
    BY CurrentRuns, SchedAssumption DEF Undelayed, PC
  <1> QED
    BY <1>1, UndelayedReturn

(* An interrupt handler makes a blocked process ready.                     *)
LEMMA WakeKeeps ==
  ASSUME Undelayed(PC), NEW p \in Proc, state[p] = "BLOCKED",
         state' = MadeReady(state, p),
         ready_queue' = Queued(state, ready_queue, p),
         UNCHANGED <<current_process, clock_ticks, delay_until, kernel_pc, halted>>
  PROVE  /\ Undelayed(PC)'
         /\ \A r \in Proc : state'[r] = "BLOCKED" <=> (state[r] = "BLOCKED" /\ r # p)
  <1>1. /\ current_process \in Proc
        /\ StatesSound(state, current_process)
        /\ QueueSound(state, ready_queue, current_process)
        /\ state[current_process] # "BLOCKED"
    BY UndelayedGives
  <1>2. p # Idle /\ p # current_process
    BY <1>1 DEF StatesSound
  <1>3. state' = [state EXCEPT ![p] = "READY"]
    BY <1>2 DEF MadeReady, Wakeable
  <1>4. /\ StatesSound(state', current_process)
        /\ QueueSound(state', ready_queue', current_process)
    BY <1>1, <1>2, WakeSound
  <1>5. /\ state'[current_process] = state[current_process]
        /\ \A r \in Proc : state'[r] = "BLOCKED" <=> (state[r] = "BLOCKED" /\ r # p)
    BY <1>1, <1>2, <1>3 DEF StatesSound
  <1>6. Undelayed(PC)'
    BY <1>4, <1>5, UndelayedWake
  <1> QED
    BY <1>5, <1>6

----------------------------------------------------------------------------
(* The writers of a terminal.                                              *)

LEMMA PlacesType ==
  ASSUME NEW st, NEW pc, NEW w, NEW wq, Placed(st, pc, w, wq), NEW t \in Term
  PROVE  /\ Places(w, wq, t) \subseteq Proc
         /\ \A p \in Proc : p \in Places(w, wq, t) <=> (w[t] = p \/ p \in Range(wq[t]))
  <1>1. wq[t] \in Seq(Proc) /\ w[t] \in Proc \cup {NULL}
    BY DEF Placed
  <1>2. Range(wq[t]) \subseteq Proc
    BY <1>1, RangeOfSeq
  <1> QED
    BY <1>1, <1>2, TtyAssumption DEF Places

LEMMA PlacedSame ==
  ASSUME NEW st, NEW pc, NEW w, NEW wq, Placed(st, pc, w, wq), NEW st2, NEW pc2,
         \A p \in Proc : Blocked(st2, pc2, p) <=> Blocked(st, pc, p)
  PROVE  Placed(st2, pc2, w, wq)
  <1>1. \A t \in Term : Places(w, wq, t) \subseteq Proc
    BY PlacesType
  <1> QED
    BY <1>1 DEF Placed

(* Terminal t changes its writer or its queue, and nobody else's.          *)
Moves(st, pc, w, wq, st2, pc2, w2, wq2, t) ==
  /\ w2 \in [Term -> Proc \cup {NULL}]
  /\ wq2 \in [Term -> Seq(Proc)]
  /\ \A u \in Term : u # t => w2[u] = w[u] /\ wq2[u] = wq[u]
  /\ IsInjective(wq2[t]) /\ w2[t] \notin Range(wq2[t])
  /\ \A r \in Places(w2, wq2, t) : r \in Places(w, wq, t) \/ ~Blocked(st, pc, r)
  /\ \A r \in Proc : Blocked(st2, pc2, r) <=>
       \/ r \in Places(w2, wq2, t)
       \/ Blocked(st, pc, r) /\ r \notin Places(w, wq, t)

LEMMA PlacedMoves ==
  ASSUME NEW st, NEW pc, NEW w, NEW wq, Placed(st, pc, w, wq), NEW t \in Term,
         NEW st2, NEW pc2, NEW w2, NEW wq2,
         Moves(st, pc, w, wq, st2, pc2, w2, wq2, t)
  PROVE  Placed(st2, pc2, w2, wq2)
  <1>1. \A u \in Term : u # t => Places(w2, wq2, u) = Places(w, wq, u)
    BY DEF Moves, Places
  <1>2. \A u \in Term : Places(w2, wq2, u) \subseteq Proc
    <2> TAKE u \in Term
    <2>1. wq2[u] \in Seq(Proc) /\ w2[u] \in Proc \cup {NULL}
      BY DEF Moves
    <2>2. Range(wq2[u]) \subseteq Proc
      BY <2>1, RangeOfSeq
    <2> QED
      BY <2>1, <2>2 DEF Places
  <1>3. \A u \in Term : IsInjective(wq2[u]) /\ w2[u] \notin Range(wq2[u])
    BY DEF Moves, Placed
  <1>4. \A u \in Term : u # t => Places(w2, wq2, t) \cap Places(w2, wq2, u) = {}
    BY <1>1 DEF Moves, Placed
  <1>5. \A u, v \in Term : u # v => Places(w2, wq2, u) \cap Places(w2, wq2, v) = {}
    BY <1>1, <1>4 DEF Placed
  <1>6. \A u \in Term : \A r \in Places(w2, wq2, u) : Blocked(st2, pc2, r)
    <2> TAKE u \in Term
    <2> TAKE r \in Places(w2, wq2, u)
    <2>1. r \in Proc
      BY <1>2
    <2>2. CASE u = t
      BY <2>1, <2>2 DEF Moves
    <2>3. CASE u # t
      BY <1>1, <2>1, <2>3 DEF Moves, Placed
    <2> QED
      BY <2>2, <2>3
  <1>7. \A r \in Proc : Blocked(st2, pc2, r) => \E u \in Term : r \in Places(w2, wq2, u)
    <2> SUFFICES ASSUME NEW r \in Proc, Blocked(st2, pc2, r)
                 PROVE  \E u \in Term : r \in Places(w2, wq2, u)
      OBVIOUS
    <2>1. CASE r \in Places(w2, wq2, t)
      BY <2>1
    <2>2. CASE Blocked(st, pc, r) /\ r \notin Places(w, wq, t)
      BY <1>1, <2>2 DEF Placed
    <2> QED
      BY <2>1, <2>2 DEF Moves
  <1> QED
    BY <1>3, <1>5, <1>6, <1>7 DEF Moves, Placed

LEMMA WritersGive ==
  ASSUME WritersPlaced
  PROVE  /\ writer \in [Term -> Proc \cup {NULL}]
         /\ write_queue \in [Term -> Seq(Proc)]
         /\ \A u \in Term : /\ Places(writer, write_queue, u) \subseteq Proc
                           /\ \A r \in Places(writer, write_queue, u) :
                                Blocked(state, kernel_pc, r)
  <1>1. \A u \in Term : Places(writer, write_queue, u) \subseteq Proc
    BY PlacesType DEF WritersPlaced
  <1> QED
    BY <1>1 DEF WritersPlaced, Placed

(* A step that does not touch the writers.                                 *)
LEMMA OutSame ==
  ASSUME OutInv, UNCHANGED outVars, SameAt("tty_write")
  PROVE  OutInv'
  <1>1. UNCHANGED <<write_queue, writer, busy, tty_write_len, tty_write_offset, wire, acked>>
    BY DEF outVars
  <1>2. WritersPlaced /\ WritesTyped /\ WiresSound /\ QueuedFresh /\ WholeWrite
    BY DEF OutInv
  <1>3. Placed(state', kernel_pc', writer, write_queue)
    BY <1>2, PlacedSame DEF WritersPlaced, SameAt, Blocked
  <1>4. WritesTyped' /\ WiresSound' /\ QueuedFresh'
    BY <1>1, <1>2 DEF WritesTyped, WiresSound, Idles, Sends, QueuedFresh
  <1>5. WholeWrite'
    BY <1>1, <1>2 DEF WholeWrite, SameAt
  <1> QED
    BY <1>1, <1>3, <1>4, <1>5 DEF OutInv, WritersPlaced

(* What terminal t's step leaves to prove: the other terminals and their   *)
(* writers stay as they are.                                               *)
Elsewhere(t) ==
  /\ \A u \in Term : u # t =>
       /\ writer'[u] = writer[u] /\ write_queue'[u] = write_queue[u]
       /\ busy'[u] = busy[u] /\ wire'[u] = wire[u]
  /\ \A u \in Term : u # t => \A p \in Places(writer, write_queue, u) :
       /\ tty_write_len'[p] = tty_write_len[p]
       /\ tty_write_offset'[p] = tty_write_offset[p]
       /\ acked'[p] = acked[p]

LEMMA ElsewhereSound ==
  ASSUME OutInv, NEW t \in Term, Elsewhere(t),
         IF writer'[t] = NULL THEN Idles(t)' ELSE Sends(t, writer[t])',
         \A p \in Range(write_queue'[t]) :
           tty_write_offset'[p] = 0 /\ acked'[p] = 0 /\ tty_write_len'[p] > 0
  PROVE  WiresSound' /\ QueuedFresh'
  <1>1. WritersPlaced /\ WiresSound /\ QueuedFresh
    BY DEF OutInv
  <1>2. \A u \in Term : u # t => IF writer'[u] = NULL THEN Idles(u)' ELSE Sends(u, writer[u])'
    <2> SUFFICES ASSUME NEW u \in Term, u # t
                 PROVE  IF writer'[u] = NULL THEN Idles(u)' ELSE Sends(u, writer[u])'
      OBVIOUS
    <2>1. /\ writer'[u] = writer[u] /\ write_queue'[u] = write_queue[u]
          /\ busy'[u] = busy[u] /\ wire'[u] = wire[u]
      BY DEF Elsewhere
    <2>2. CASE writer[u] = NULL
      BY <1>1, <2>1, <2>2 DEF WiresSound, Idles
    <2>3. CASE writer[u] # NULL
      <3>1. PICK p : p = writer[u]
        OBVIOUS
      <3>2. p \in Places(writer, write_queue, u)
        BY <2>3, <3>1 DEF Places
      <3>3. /\ tty_write_len'[p] = tty_write_len[p]
            /\ tty_write_offset'[p] = tty_write_offset[p]
            /\ acked'[p] = acked[p]
        BY <3>2 DEF Elsewhere
      <3>4. Sends(u, p)
        BY <1>1, <2>3, <3>1 DEF WiresSound
      <3> QED
        BY <2>1, <2>3, <3>1, <3>3, <3>4 DEF Sends
    <2> QED
      BY <2>2, <2>3
  <1>3. \A u \in Term : u # t => \A p \in Range(write_queue'[u]) :
          tty_write_offset'[p] = 0 /\ acked'[p] = 0 /\ tty_write_len'[p] > 0
    BY <1>1 DEF Elsewhere, Places, QueuedFresh
  <1> QED
    BY <1>2, <1>3 DEF WiresSound, QueuedFresh

----------------------------------------------------------------------------
(* Writing, one lemma per handler.                                         *)

LEMMA ChunkType ==
  ASSUME NEW left \in Nat \ {0}
  PROVE  Chunk(left) \in 1 .. TERMINAL_MAX_LINE /\ Chunk(left) <= left
  BY TtyAssumption DEF Chunk

LEMMA PacketSeq ==
  ASSUME NEW p \in Proc, NEW n \in 1 .. TERMINAL_MAX_LINE
  PROVE  /\ <<[proc |-> p, len |-> n]>> \in Seq(Packet)
         /\ Append(<<>>, [proc |-> p, len |-> n]) = <<[proc |-> p, len |-> n]>>
         /\ <<[proc |-> p, len |-> n]>> # <<>>
         /\ Head(<<[proc |-> p, len |-> n]>>) = [proc |-> p, len |-> n]
         /\ Tail(<<[proc |-> p, len |-> n]>>) = <<>>
  BY DEF Packet

(* TtyStartWrite on a terminal that has nothing out, when p is to send:    *)
(* its next chunk goes out.                                                *)
Starts(t, p, lens, offs, chunk) ==
  /\ chunk \in 1 .. TERMINAL_MAX_LINE
  /\ offs[p] + chunk <= lens[p]
  /\ writer' = [writer EXCEPT ![t] = p]
  /\ busy' = [busy EXCEPT ![t] = TRUE]
  /\ wire' = [wire EXCEPT ![t] = <<[proc |-> p, len |-> chunk]>>]
  /\ tty_write_offset' = [offs EXCEPT ![p] = offs[p] + chunk]

LEMMA StartsChunk ==
  ASSUME NEW t \in Term, NEW w, NEW wq, NEW lens, NEW offs \in [Proc -> Nat],
         NEW p \in Proc, p = IF Fetches(w, wq) THEN Head(wq) ELSE w,
         lens[p] \in Nat, offs[p] < lens[p],
         TtyStartWrite(t, w, wq, lens, offs, <<>>)
  PROVE  \E chunk : Starts(t, p, lens, offs, chunk)
  <1>1. PICK chunk : chunk = Chunk(lens[p] - offs[p])
    OBVIOUS
  <1>2. lens[p] - offs[p] \in Nat \ {0}
    OBVIOUS
  <1>3. chunk \in 1 .. TERMINAL_MAX_LINE /\ chunk <= lens[p] - offs[p]
    BY <1>1, <1>2, ChunkType
  <1>4. offs[p] + chunk <= lens[p]
    BY <1>3, TtyAssumption
  <1>5. p # NULL
    BY TtyAssumption
  <1>6. /\ writer' = [writer EXCEPT ![t] = p]
        /\ busy' = [busy EXCEPT ![t] = (p # NULL)]
        /\ tty_write_offset' =
             IF p = NULL THEN offs ELSE [offs EXCEPT ![p] = offs[p] + chunk]
        /\ wire' = [wire EXCEPT ![t] =
             IF p = NULL THEN <<>> ELSE Append(<<>>, [proc |-> p, len |-> chunk])]
    BY <1>1 DEF TtyStartWrite
  <1>7. /\ busy' = [busy EXCEPT ![t] = TRUE]
        /\ tty_write_offset' = [offs EXCEPT ![p] = offs[p] + chunk]
        /\ wire' = [wire EXCEPT ![t] = <<[proc |-> p, len |-> chunk]>>]
    BY <1>3, <1>5, <1>6, PacketSeq
  <1> QED
    BY <1>3, <1>4, <1>6, <1>7 DEF Starts

(* Then the terminal's part of the invariant holds again.                  *)
LEMMA StartedSends ==
  ASSUME WritesTyped, writer \in [Term -> Proc \cup {NULL}], NEW t \in Term,
         NEW p \in Proc, NEW lens, NEW offs \in [Proc -> Nat], NEW chunk,
         Starts(t, p, lens, offs, chunk), tty_write_len' = lens,
         lens \in [Proc -> WriteLens \cup {0}],
         acked' \in [Proc -> Nat], acked'[p] = offs[p]
  PROVE  /\ WritesTyped'
         /\ writer'[t] = p
         /\ Sends(t, writer[t])'
         /\ \A u \in Term : u # t =>
              writer'[u] = writer[u] /\ busy'[u] = busy[u] /\ wire'[u] = wire[u]
         /\ \A r \in Proc : r # p => tty_write_offset'[r] = offs[r]
  <1>1. chunk \in 1 .. TERMINAL_MAX_LINE /\ chunk \in Nat /\ offs[p] \in Nat
    BY TtyAssumption DEF Starts
  <1>2. /\ writer'[t] = p /\ busy'[t] = TRUE
        /\ wire'[t] = <<[proc |-> p, len |-> chunk]>>
        /\ tty_write_offset'[p] = offs[p] + chunk
        /\ \A u \in Term : u # t =>
             writer'[u] = writer[u] /\ busy'[u] = busy[u] /\ wire'[u] = wire[u]
        /\ \A r \in Proc : r # p => tty_write_offset'[r] = offs[r]
    BY DEF Starts, WritesTyped
  <1>3. tty_write_offset'[p] - acked'[p] = chunk /\ tty_write_offset'[p] <= tty_write_len'[p]
    BY <1>1, <1>2 DEF Starts
  <1>4. Sends(t, writer[t])'
    BY <1>1, <1>2, <1>3 DEF Sends
  <1>5. WritesTyped'
    <2>1. busy' \in [Term -> BOOLEAN]
      BY DEF Starts, WritesTyped
    <2>2. wire' \in [Term -> Seq(Packet)]
      BY <1>1, PacketSeq DEF Starts, WritesTyped
    <2>3. offs[p] + chunk \in Nat
      BY <1>1
    <2>4. tty_write_offset' \in [Proc -> Nat]
      BY <2>3 DEF Starts
    <2> QED
      BY <2>1, <2>2, <2>4 DEF WritesTyped
  <1> QED
    BY <1>2, <1>4, <1>5

LEMMA SysTtyWriteKeeps ==
  ASSUME Undelayed(PC), OutInv, NEW t \in Term, NEW len \in WriteLens, SysTtyWrite(t, len)
  PROVE  Undelayed(PC)' /\ OutInv' /\ SameAt("tty_read")
  <1>1. PICK p : p = current_process
    OBVIOUS
  <1>2. PICK lens : lens = [tty_write_len EXCEPT ![p] = len]
    OBVIOUS
  <1>3. PICK offs : offs = [tty_write_offset EXCEPT ![p] = 0]
    OBVIOUS
  <1>4. WritersPlaced /\ WritesTyped /\ WiresSound /\ QueuedFresh /\ WholeWrite
    BY DEF OutInv
  <1>5. /\ p \in Proc /\ p # Idle /\ p # NULL
        /\ kernel_pc[p] = "user" /\ state[p] # "BLOCKED"
    BY <1>1, CurrentRuns, TtyAssumption DEF SysTtyWrite, CanCall, InUserMode
  <1>6. /\ Undelayed(PC)'
        /\ kernel_pc'[p] = "tty_write"
        /\ \A r \in Proc :
             /\ r # p => kernel_pc'[r] = kernel_pc[r]
             /\ state'[r] = "BLOCKED" <=> (state[r] = "BLOCKED" \/ r = p)
    BY <1>1, <1>5, BlockKeeps DEF SysTtyWrite, PC
  <1>7. SameAt("tty_read")
    BY <1>5, <1>6 DEF SameAt
  <1>8. \A r \in Proc : Blocked(state', kernel_pc', r) <=>
          (Blocked(state, kernel_pc, r) \/ r = p)
    BY <1>5, <1>6 DEF Blocked
  <1>9. ~Blocked(state, kernel_pc, p)
    BY <1>5 DEF Blocked
  <1>10. \A u \in Term : p \notin Places(writer, write_queue, u)
    BY <1>4, <1>9 DEF WritersPlaced, Placed
  <1>11. /\ tty_write_len' = lens
         /\ acked' = [acked EXCEPT ![p] = 0]
         /\ lens \in [Proc -> WriteLens \cup {0}] /\ lens[p] = len
         /\ offs \in [Proc -> Nat] /\ offs[p] = 0
         /\ acked' \in [Proc -> Nat] /\ acked'[p] = 0
         /\ \A r \in Proc : r # p =>
              /\ lens[r] = tty_write_len[r] /\ offs[r] = tty_write_offset[r]
              /\ acked'[r] = acked[r]
    BY <1>1, <1>2, <1>3, <1>4, <1>5 DEF SysTtyWrite, WritesTyped
  <1>12. WholeWrite'
    BY <1>4, <1>6, <1>11 DEF WholeWrite
  <1>13. len \in Nat \ {0}
    BY TtyAssumption
  <1>14. /\ writer \in [Term -> Proc \cup {NULL}] /\ write_queue \in [Term -> Seq(Proc)]
         /\ \A u \in Term : Places(writer, write_queue, u) \subseteq Proc
    BY <1>4, WritersGive
  <1>15. CASE TerminalIdle(t)
    <2>1. writer[t] = NULL /\ write_queue[t] = <<>> /\ wire[t] = <<>>
      BY <1>4, <1>15 DEF TerminalIdle, WiresSound, Idles
    <2>2. TtyStartWrite(t, p, <<>>, lens, offs, <<>>)
      BY <1>1, <1>2, <1>3, <1>15, <2>1 DEF SysTtyWrite
    <2>3. ~Fetches(p, <<>>)
      BY DEF Fetches
    <2>4. PICK chunk : Starts(t, p, lens, offs, chunk)
      BY <1>5, <1>11, <1>13, <2>2, <2>3, StartsChunk
    <2>5. write_queue' = write_queue
      BY <1>14, <2>1, <2>2, <2>3 DEF TtyStartWrite, QueueLeft
    <2>6. /\ WritesTyped' /\ writer'[t] = p /\ Sends(t, writer[t])'
          /\ \A u \in Term : u # t =>
               writer'[u] = writer[u] /\ busy'[u] = busy[u] /\ wire'[u] = wire[u]
          /\ \A r \in Proc : r # p => tty_write_offset'[r] = offs[r]
      <3>1. /\ tty_write_len' = lens /\ lens \in [Proc -> WriteLens \cup {0}]
            /\ offs \in [Proc -> Nat] /\ acked' \in [Proc -> Nat]
            /\ acked'[p] = offs[p]
        BY <1>11
      <3>2. p \in Proc /\ writer \in [Term -> Proc \cup {NULL}] /\ WritesTyped
        BY <1>4, <1>5, <1>14
      <3> QED
        BY <2>4, <3>1, <3>2, StartedSends
    <2>7. writer' \in [Term -> Proc \cup {NULL}]
      BY <1>5, <1>14, <2>4 DEF Starts
    <2>8. Range(write_queue[t]) = {}
      BY <1>14, <2>1, EmptyRange
    <2>9. Moves(state, kernel_pc, writer, write_queue,
                state', kernel_pc', writer', write_queue, t)
      <3>1. Places(writer', write_queue, t) = {p}
        BY <1>5, <2>6, <2>8 DEF Places
      <3>2. Places(writer, write_queue, t) = {}
        BY <2>1, <2>8 DEF Places
      <3>3. IsInjective(write_queue[t])
        BY <1>4 DEF WritersPlaced, Placed
      <3> QED
        BY <1>8, <1>9, <1>14, <2>6, <2>7, <2>8, <3>1, <3>2, <3>3 DEF Moves
    <2>10. WritersPlaced'
      BY <1>4, <2>5, <2>9, PlacedMoves DEF WritersPlaced
    <2>11. Elsewhere(t)
      BY <1>10, <1>11, <1>14, <2>5, <2>6 DEF Elsewhere
    <2>12. WiresSound' /\ QueuedFresh'
      BY <1>5, <2>5, <2>6, <2>8, <2>11, ElsewhereSound
    <2> QED
      BY <1>6, <1>7, <1>12, <2>6, <2>10, <2>12 DEF OutInv
  <1>16. CASE ~TerminalIdle(t)
    <2>1. writer[t] # NULL /\ Sends(t, writer[t])
      BY <1>4, <1>16 DEF TerminalIdle, WiresSound, Idles
    <2>2. PICK q : q = write_queue[t]
      OBVIOUS
    <2>3. /\ write_queue' = [write_queue EXCEPT ![t] = Append(q, p)]
          /\ tty_write_offset' = offs
          /\ UNCHANGED <<writer, busy, wire>>
      BY <1>1, <1>3, <1>14, <1>16, <2>2 DEF SysTtyWrite
    <2>4. q \in Seq(Proc) /\ IsInjective(q) /\ p \notin Range(q) /\ writer[t] \notin Range(q)
      BY <1>4, <1>10, <1>14, <2>2 DEF Places, WritersPlaced, Placed
    <2>5. /\ Append(q, p) \in Seq(Proc)
          /\ IsInjective(Append(q, p))
          /\ Range(Append(q, p)) = Range(q) \cup {p}
      BY <1>5, <2>4, AppendInjects
    <2>6. writer[t] # p
      BY <1>5, <1>10 DEF Places
    <2>7. /\ write_queue' \in [Term -> Seq(Proc)]
          /\ write_queue'[t] = Append(q, p)
          /\ \A u \in Term : u # t => write_queue'[u] = write_queue[u]
      BY <1>14, <2>3, <2>5
    <2>8. Places(writer, write_queue', t) = Places(writer, write_queue, t) \cup {p}
      BY <2>2, <2>5, <2>7 DEF Places
    <2>9. Moves(state, kernel_pc, writer, write_queue,
                state', kernel_pc', writer, write_queue', t)
      <3>1. \A r \in Places(writer, write_queue, t) : r \in Proc /\ Blocked(state, kernel_pc, r)
        BY <1>4, <1>14 DEF WritersPlaced, Placed
      <3>2. IsInjective(write_queue'[t]) /\ writer[t] \notin Range(write_queue'[t])
        BY <2>4, <2>5, <2>6, <2>7
      <3> QED
        BY <1>8, <1>9, <1>14, <2>7, <2>8, <3>1, <3>2 DEF Moves
    <2>10. WritersPlaced'
      BY <1>4, <2>3, <2>9, PlacedMoves DEF WritersPlaced
    <2>11. Elsewhere(t)
      BY <1>10, <1>11, <1>14, <2>3, <2>7 DEF Elsewhere
    <2>12. Sends(t, writer[t])'
      <3>1. PICK w \in Proc : w = writer[t]
        BY <1>14, <2>1
      <3>2. /\ tty_write_offset'[w] = tty_write_offset[w] /\ acked'[w] = acked[w]
            /\ tty_write_len'[w] = tty_write_len[w]
        BY <1>11, <2>3, <2>6, <3>1
      <3>3. Sends(t, w)
        BY <2>1, <3>1
      <3> QED
        BY <2>3, <3>1, <3>2, <3>3 DEF Sends
    <2>13. \A r \in Range(write_queue'[t]) :
             tty_write_offset'[r] = 0 /\ acked'[r] = 0 /\ tty_write_len'[r] > 0
      <3> SUFFICES ASSUME NEW r \in Range(q) \cup {p}
                   PROVE  tty_write_offset'[r] = 0 /\ acked'[r] = 0 /\ tty_write_len'[r] > 0
        BY <2>5, <2>7
      <3>1. CASE r = p
        BY <3>1, <1>11, <1>13, <2>3
      <3>2. CASE r # p
        <4>1. r \in Range(q) /\ r \in Proc
          BY <3>2, <2>4, RangeOfSeq
        <4> QED
          BY <3>2, <4>1, <1>4, <1>11, <2>2, <2>3 DEF QueuedFresh
      <3> QED
        BY <3>1, <3>2
    <2>14. WiresSound' /\ QueuedFresh'
      BY <2>1, <2>3, <2>11, <2>12, <2>13, ElsewhereSound
    <2>15. WritesTyped'
      BY <1>4, <1>11, <2>3 DEF WritesTyped
    <2> QED
      BY <1>6, <1>7, <1>12, <2>10, <2>14, <2>15 DEF OutInv
  <1> QED
    BY <1>15, <1>16

LEMMA SysTtyWriteResumedKeeps ==
  ASSUME Undelayed(PC), OutInv, NEW p \in Proc, SysTtyWriteResumed(p)
  PROVE  Undelayed(PC)' /\ OutInv' /\ SameAt("tty_read")
  <1>1. /\ p = current_process /\ kernel_pc[p] = "tty_write"
        /\ kernel_pc' = [kernel_pc EXCEPT ![p] = "user"]
        /\ tty_write_len' = [tty_write_len EXCEPT ![p] = 0]
        /\ tty_write_offset' = [tty_write_offset EXCEPT ![p] = 0]
        /\ UNCHANGED <<state, ready_queue, current_process, clock_ticks, delay_until,
                       halted, write_queue, writer, busy, wire, acked>>
    BY DEF SysTtyWriteResumed, Running
  <1>2. WritersPlaced /\ WritesTyped /\ WiresSound /\ QueuedFresh /\ WholeWrite
    BY DEF OutInv
  <1>3. /\ Undelayed(PC)' /\ kernel_pc'[p] = "user"
        /\ \A r \in Proc : r # p => kernel_pc'[r] = kernel_pc[r]
        /\ state[p] # "BLOCKED"
    BY <1>1, ReturnKeeps, CurrentRuns
  <1>4. SameAt("tty_read")
    BY <1>1, <1>3 DEF SameAt
  <1>5. \A r \in Proc : Blocked(state', kernel_pc', r) <=> Blocked(state, kernel_pc, r)
    BY <1>1, <1>3 DEF Blocked
  <1>6. WritersPlaced'
    <2>1. Placed(state', kernel_pc', writer, write_queue)
      BY <1>2, <1>5, PlacedSame DEF WritersPlaced
    <2> QED
      BY <1>1, <2>1 DEF WritersPlaced
  <1>7. WritesTyped'
    BY <1>1, <1>2 DEF WritesTyped
  <1>8. \A r \in Proc : r # p =>
          tty_write_len'[r] = tty_write_len[r] /\ tty_write_offset'[r] = tty_write_offset[r]
    BY <1>1, <1>2 DEF WritesTyped
  <1>9. \A u \in Term : Places(writer, write_queue, u) \subseteq Proc \ {p}
    BY <1>2, <1>3, WritersGive DEF Blocked
  <1>10. WiresSound'
    <2> SUFFICES ASSUME NEW u \in Term
                 PROVE  IF writer[u] = NULL THEN Idles(u)' ELSE Sends(u, writer[u])'
      BY <1>1 DEF WiresSound
    <2>1. CASE writer[u] = NULL
      BY <1>1, <1>2, <2>1 DEF WiresSound, Idles
    <2>2. CASE writer[u] # NULL
      <3>1. PICK w : w = writer[u]
        OBVIOUS
      <3>2. w \in Proc \ {p}
        BY <1>9, <2>2, <3>1 DEF Places
      <3>3. Sends(u, w)
        BY <1>2, <2>2, <3>1 DEF WiresSound
      <3> QED
        BY <1>1, <1>8, <2>2, <3>1, <3>2, <3>3 DEF Sends
    <2> QED
      BY <2>1, <2>2
  <1>11. QueuedFresh'
    BY <1>1, <1>2, <1>8, <1>9 DEF QueuedFresh, Places
  <1>12. WholeWrite'
    BY <1>1, <1>2, <1>3, <1>8 DEF WholeWrite
  <1> QED
    BY <1>3, <1>4, <1>6, <1>7, <1>10, <1>11, <1>12 DEF OutInv

(* The hardware acknowledges the chunk of terminal t's writer w: what is   *)
(* acknowledged is all that was sent.                                      *)
Acks(t, w) ==
  /\ w \in Proc /\ w = writer[t]
  /\ acked' \in [Proc -> Nat]
  /\ acked'[w] = tty_write_offset[w]
  /\ \A r \in Proc : r # w => acked'[r] = acked[r]
  /\ UNCHANGED <<tty_write_len, current_process, clock_ticks, delay_until, kernel_pc,
                 halted>>
  /\ state' = IF Finished(w) THEN MadeReady(state, w) ELSE state
  /\ ready_queue' = IF Finished(w) THEN Queued(state, ready_queue, w) ELSE ready_queue
  /\ TtyStartWrite(t, IF Finished(w) THEN NULL ELSE w, write_queue[t],
                   tty_write_len, tty_write_offset, <<>>)

LEMMA TransmitAcks ==
  ASSUME OutInv, NEW t \in Term, TrapTtyTransmit(t)
  PROVE  \E w \in Proc : Acks(t, w)
  <1>1. WritersPlaced /\ WritesTyped /\ WiresSound
    BY DEF OutInv
  <1>2. writer[t] # NULL
    BY <1>1 DEF TrapTtyTransmit, WiresSound, Idles
  <1>3. PICK w \in Proc : w = writer[t]
    BY <1>1, <1>2, WritersGive
  <1>4. PICK n : n = tty_write_offset[w] - acked[w]
    OBVIOUS
  <1>5. n \in 1 .. TERMINAL_MAX_LINE /\ wire[t] = <<[proc |-> w, len |-> n]>>
    BY <1>1, <1>2, <1>3, <1>4 DEF WiresSound, Sends
  <1>6. Head(wire[t]) = [proc |-> w, len |-> n] /\ Tail(wire[t]) = <<>>
    BY <1>5, PacketSeq
  <1>7. acked' = [acked EXCEPT ![w] = acked[w] + n]
    <2>1. PICK a : a = Head(wire[t])
      OBVIOUS
    <2>2. a.proc = w /\ a.len = n
      BY <1>6, <2>1
    <2>3. acked' = [acked EXCEPT ![a.proc] = acked[a.proc] + a.len]
      BY <2>1 DEF TrapTtyTransmit
    <2> QED
      BY <2>2, <2>3
  <1>8. acked[w] \in Nat /\ tty_write_offset[w] \in Nat
    BY <1>1 DEF WritesTyped
  <1>9. acked[w] + n = tty_write_offset[w]
    BY <1>4, <1>8
  <1>10. /\ acked' \in [Proc -> Nat] /\ acked'[w] = tty_write_offset[w]
         /\ \A r \in Proc : r # w => acked'[r] = acked[r]
    BY <1>1, <1>7, <1>8, <1>9 DEF WritesTyped
  <1> QED
    BY <1>3, <1>6, <1>10 DEF TrapTtyTransmit, Acks

(* The writer has more to send.                                            *)
LEMMA TransmitMore ==
  ASSUME Undelayed(PC), OutInv, NEW t \in Term, NEW w \in Proc, Acks(t, w), ~Finished(w)
  PROVE  Undelayed(PC)' /\ OutInv' /\ UNCHANGED <<state, writer>>
  <1>1. WritersPlaced /\ WritesTyped /\ WiresSound /\ QueuedFresh /\ WholeWrite
    BY DEF OutInv
  <1>2. w = writer[t] /\ w # NULL
    BY TtyAssumption DEF Acks
  <1>3. UNCHANGED <<state, ready_queue, current_process, clock_ticks, delay_until,
                    kernel_pc, halted, tty_write_len>>
    BY DEF Acks
  <1>4. Undelayed(PC)'
    BY <1>3, UndelayedReturn DEF Undelayed
  <1>5. /\ tty_write_len[w] \in Nat /\ tty_write_offset[w] \in Nat
        /\ tty_write_offset \in [Proc -> Nat]
        /\ tty_write_len \in [Proc -> WriteLens \cup {0}]
    <2>1. WriteLens \cup {0} \subseteq Nat
      BY TtyAssumption
    <2> QED
      BY <1>1, <2>1 DEF WritesTyped
  <1>6. tty_write_offset[w] < tty_write_len[w]
    BY <1>2, <1>5 DEF Finished
  <1>7. ~Fetches(w, write_queue[t])
    BY <1>2 DEF Fetches
  <1>8. TtyStartWrite(t, w, write_queue[t], tty_write_len, tty_write_offset, <<>>)
    BY DEF Acks
  <1>9. PICK chunk : Starts(t, w, tty_write_len, tty_write_offset, chunk)
    BY <1>5, <1>6, <1>7, <1>8, StartsChunk
  <1>10. /\ writer \in [Term -> Proc \cup {NULL}] /\ write_queue \in [Term -> Seq(Proc)]
         /\ \A u \in Term : Places(writer, write_queue, u) \subseteq Proc
    BY <1>1, WritersGive
  <1>11. write_queue' = write_queue
    BY <1>7, <1>8, <1>10 DEF TtyStartWrite, QueueLeft
  <1>12. writer' = writer
    BY <1>2, <1>9, <1>10 DEF Starts
  <1>13. acked' \in [Proc -> Nat] /\ acked'[w] = tty_write_offset[w]
    BY DEF Acks
  <1>14. /\ WritesTyped' /\ Sends(t, writer[t])'
         /\ \A u \in Term : u # t => busy'[u] = busy[u] /\ wire'[u] = wire[u]
         /\ \A r \in Proc : r # w => tty_write_offset'[r] = tty_write_offset[r]
    BY <1>1, <1>3, <1>5, <1>9, <1>10, <1>13, StartedSends, ZenonT(30)
  <1>15. w \in Places(writer, write_queue, t)
    BY <1>2 DEF Places
  <1>16. \A u \in Term : u # t => w \notin Places(writer, write_queue, u)
    BY <1>1, <1>15 DEF WritersPlaced, Placed
  <1>17. \A r \in Proc : r # w => acked'[r] = acked[r]
    BY DEF Acks
  <1>18. Elsewhere(t)
    BY <1>3, <1>10, <1>11, <1>12, <1>14, <1>16, <1>17 DEF Elsewhere
  <1>19. w \notin Range(write_queue[t])
    BY <1>1, <1>2 DEF WritersPlaced, Placed
  <1>20. \A r \in Range(write_queue'[t]) :
           tty_write_offset'[r] = 0 /\ acked'[r] = 0 /\ tty_write_len'[r] > 0
    <2> SUFFICES ASSUME NEW r \in Range(write_queue[t])
                 PROVE  tty_write_offset'[r] = 0 /\ acked'[r] = 0 /\ tty_write_len'[r] > 0
      BY <1>11
    <2>1. r \in Proc /\ r # w
      BY <1>10, <1>19 DEF Places
    <2> QED
      BY <1>1, <1>3, <1>14, <1>17, <2>1 DEF QueuedFresh
  <1>21. WiresSound' /\ QueuedFresh'
    BY <1>2, <1>12, <1>14, <1>18, <1>20, ElsewhereSound
  <1>22. WholeWrite'
    <2>1. Blocked(state, kernel_pc, w)
      BY <1>1, <1>15, WritersGive
    <2> QED
      BY <1>1, <1>3, <1>17, <2>1 DEF WholeWrite, Blocked
  <1>23. WritersPlaced'
    BY <1>1, <1>3, <1>11, <1>12 DEF WritersPlaced
  <1> QED
    BY <1>3, <1>4, <1>12, <1>14, <1>21, <1>22, <1>23 DEF OutInv

(* The writer is done: it is woken, and the next one starts.               *)
LEMMA TransmitLast ==
  ASSUME Undelayed(PC), OutInv, NEW t \in Term, NEW w \in Proc, Acks(t, w), Finished(w)
  PROVE  /\ Undelayed(PC)'
         /\ OutInv'
         /\ \A r \in Proc : state'[r] = "BLOCKED" <=> (state[r] = "BLOCKED" /\ r # w)
         /\ \A u \in Term : u # t => writer'[u] = writer[u]
         /\ acked'[w] = tty_write_len[w]
  <1>1. WritersPlaced /\ WritesTyped /\ WiresSound /\ QueuedFresh /\ WholeWrite
    BY DEF OutInv
  <1>2. w = writer[t] /\ w # NULL
    BY TtyAssumption DEF Acks
  <1>3. w \in Places(writer, write_queue, t)
    BY <1>2 DEF Places
  <1>4. Blocked(state, kernel_pc, w)
    BY <1>1, <1>3, WritersGive
  <1>5. /\ UNCHANGED <<current_process, clock_ticks, delay_until, kernel_pc, halted,
                       tty_write_len>>
        /\ state' = MadeReady(state, w)
        /\ ready_queue' = Queued(state, ready_queue, w)
        /\ TtyStartWrite(t, NULL, write_queue[t], tty_write_len, tty_write_offset, <<>>)
        /\ acked' \in [Proc -> Nat] /\ acked'[w] = tty_write_offset[w]
        /\ \A r \in Proc : r # w => acked'[r] = acked[r]
    BY DEF Acks
  <1>6. /\ Undelayed(PC)'
        /\ \A r \in Proc : state'[r] = "BLOCKED" <=> (state[r] = "BLOCKED" /\ r # w)
    BY <1>4, <1>5, WakeKeeps DEF Blocked
  <1>7. \A r \in Proc : Blocked(state', kernel_pc', r) <=>
          (Blocked(state, kernel_pc, r) /\ r # w)
    BY <1>5, <1>6 DEF Blocked
  <1>8. /\ tty_write_offset \in [Proc -> Nat]
        /\ tty_write_len \in [Proc -> WriteLens \cup {0}]
        /\ \A r \in Proc : tty_write_len[r] \in Nat
    <2>1. WriteLens \cup {0} \subseteq Nat
      BY TtyAssumption
    <2> QED
      BY <1>1, <2>1 DEF WritesTyped
  <1>9. acked'[w] = tty_write_len[w] /\ tty_write_len[w] > 0
    <2>1. Sends(t, w)
      BY <1>1, <1>2 DEF WiresSound
    <2>2. tty_write_offset[w] \in Nat /\ acked[w] \in Nat /\ tty_write_len[w] \in Nat
      BY <1>1, <1>8 DEF WritesTyped
    <2>3. tty_write_offset[w] >= tty_write_len[w]
      BY DEF Finished
    <2> QED
      BY <1>5, <2>1, <2>2, <2>3 DEF Sends
  <1>10. WholeWrite'
    BY <1>1, <1>5, <1>6, <1>9 DEF WholeWrite
  <1>11. PICK q : q = write_queue[t]
    OBVIOUS
  <1>12. /\ writer \in [Term -> Proc \cup {NULL}] /\ write_queue \in [Term -> Seq(Proc)]
         /\ \A u \in Term : Places(writer, write_queue, u) \subseteq Proc
         /\ \A u \in Term : \A r \in Places(writer, write_queue, u) :
              Blocked(state, kernel_pc, r)
    BY <1>1, WritersGive
  <1>13. /\ q \in Seq(Proc) /\ IsInjective(q) /\ w \notin Range(q) /\ Range(q) \subseteq Proc
         /\ Places(writer, write_queue, t) = Range(q) \cup {w}
    BY <1>1, <1>2, <1>11, <1>12, RangeOfSeq DEF WritersPlaced, Placed, Places
  <1>14. \A u \in Term : u # t =>
           Places(writer, write_queue, u) \cap (Range(q) \cup {w}) = {}
    BY <1>1, <1>13 DEF WritersPlaced, Placed
  <1>15. CASE q = <<>>
    <2>1. ~Fetches(NULL, q)
      BY <1>15 DEF Fetches
    <2>2. /\ writer' = [writer EXCEPT ![t] = NULL]
          /\ write_queue' = [write_queue EXCEPT ![t] = q]
          /\ busy' = [busy EXCEPT ![t] = FALSE]
          /\ tty_write_offset' = tty_write_offset
          /\ wire' = [wire EXCEPT ![t] = <<>>]
      BY <1>5, <1>11, <2>1 DEF TtyStartWrite, QueueLeft
    <2>3. write_queue' = write_queue
      BY <1>11, <1>12, <2>2
    <2>4. /\ writer' \in [Term -> Proc \cup {NULL}] /\ writer'[t] = NULL
          /\ busy'[t] = FALSE /\ wire'[t] = <<>>
          /\ \A u \in Term : u # t =>
               writer'[u] = writer[u] /\ busy'[u] = busy[u] /\ wire'[u] = wire[u]
      BY <1>1, <1>12, <2>2 DEF WritesTyped
    <2>5. Range(q) = {}
      BY <1>13, <1>15, EmptyRange
    <2>6. Moves(state, kernel_pc, writer, write_queue,
                state', kernel_pc', writer', write_queue, t)
      <3>1. Places(writer', write_queue, t) = {}
        BY <1>11, <2>4, <2>5 DEF Places
      <3>2. Places(writer, write_queue, t) = {w}
        BY <1>13, <2>5
      <3>3. IsInjective(write_queue[t]) /\ writer'[t] \notin Range(write_queue[t])
        BY <1>11, <1>13, <2>5
      <3> QED
        BY <1>7, <1>12, <2>4, <3>1, <3>2, <3>3 DEF Moves
    <2>7. WritersPlaced'
      BY <1>1, <2>3, <2>6, PlacedMoves DEF WritersPlaced
    <2>8. WritesTyped'
      <3>1. <<>> \in Seq(Packet)
        BY EmptySeq
      <3> QED
        BY <1>1, <1>5, <2>2, <3>1 DEF WritesTyped
    <2>9. Elsewhere(t)
      BY <1>5, <1>12, <1>14, <2>2, <2>3, <2>4 DEF Elsewhere
    <2>10. Idles(t)'
      BY <1>11, <1>15, <2>3, <2>4 DEF Idles
    <2>11. \A r \in Range(write_queue'[t]) :
             tty_write_offset'[r] = 0 /\ acked'[r] = 0 /\ tty_write_len'[r] > 0
      BY <1>11, <2>3, <2>5
    <2>12. WiresSound' /\ QueuedFresh'
      BY <2>4, <2>9, <2>10, <2>11, ElsewhereSound
    <2> QED
      BY <1>6, <1>9, <1>10, <2>4, <2>7, <2>8, <2>12 DEF OutInv
  <1>16. CASE q # <<>>
    <2>1. Fetches(NULL, q)
      BY <1>16 DEF Fetches
    <2>2. PICK h : h = Head(q)
      OBVIOUS
    <2>3. PICK rest : rest = Tail(q)
      OBVIOUS
    <2>4. /\ h \in Range(q) /\ rest \in Seq(Proc) /\ IsInjective(rest)
          /\ Range(rest) = Range(q) \ {h}
      BY <1>13, <1>16, <2>2, <2>3, TailInjects
    <2>5. /\ h \in Proc /\ h # w /\ h # NULL
          /\ tty_write_offset[h] = 0 /\ acked[h] = 0 /\ tty_write_len[h] > 0
      BY <1>1, <1>11, <1>13, <2>4, TtyAssumption DEF QueuedFresh
    <2>6. TtyStartWrite(t, NULL, q, tty_write_len, tty_write_offset, <<>>)
      BY <1>5, <1>11
    <2>7. PICK chunk : Starts(t, h, tty_write_len, tty_write_offset, chunk)
      <3>1. tty_write_len[h] \in Nat /\ tty_write_offset[h] < tty_write_len[h]
        BY <1>8, <2>5
      <3>2. h = IF Fetches(NULL, q) THEN Head(q) ELSE NULL
        BY <2>1, <2>2
      <3> QED
        BY <1>8, <2>5, <2>6, <3>1, <3>2, StartsChunk
    <2>8. /\ WritesTyped' /\ writer'[t] = h /\ Sends(t, writer[t])'
          /\ \A u \in Term : u # t =>
               writer'[u] = writer[u] /\ busy'[u] = busy[u] /\ wire'[u] = wire[u]
          /\ \A r \in Proc : r # h => tty_write_offset'[r] = tty_write_offset[r]
      <3>1. /\ acked' \in [Proc -> Nat] /\ acked'[h] = tty_write_offset[h]
            /\ tty_write_len' = tty_write_len
        BY <1>5, <2>5
      <3>2. h \in Proc /\ writer \in [Term -> Proc \cup {NULL}] /\ WritesTyped
        BY <1>1, <1>12, <2>5
      <3> QED
        BY <1>8, <2>7, <3>1, <3>2, StartedSends
    <2>9. write_queue' = [write_queue EXCEPT ![t] = rest]
      BY <2>1, <2>3, <2>6 DEF TtyStartWrite, QueueLeft
    <2>10. /\ write_queue' \in [Term -> Seq(Proc)] /\ write_queue'[t] = rest
           /\ \A u \in Term : u # t => write_queue'[u] = write_queue[u]
           /\ writer' \in [Term -> Proc \cup {NULL}]
      BY <1>12, <2>4, <2>5, <2>7, <2>9 DEF Starts
    <2>11. Moves(state, kernel_pc, writer, write_queue,
                 state', kernel_pc', writer', write_queue', t)
      <3>1. Places(writer', write_queue', t) = Range(q)
        BY <2>4, <2>5, <2>8, <2>10 DEF Places
      <3>2. IsInjective(write_queue'[t]) /\ writer'[t] \notin Range(write_queue'[t])
        BY <2>4, <2>8, <2>10
      <3>3. \A r \in Range(q) : Blocked(state, kernel_pc, r) /\ r # w
        BY <1>12, <1>13
      <3> QED
        BY <1>7, <1>13, <2>8, <2>10, <3>1, <3>2, <3>3 DEF Moves
    <2>12. WritersPlaced'
      BY <1>1, <2>11, PlacedMoves DEF WritersPlaced
    <2>13. Elsewhere(t)
      BY <1>5, <1>12, <1>14, <2>4, <2>8, <2>10 DEF Elsewhere
    <2>14. \A r \in Range(write_queue'[t]) :
             tty_write_offset'[r] = 0 /\ acked'[r] = 0 /\ tty_write_len'[r] > 0
      <3> SUFFICES ASSUME NEW r \in Range(q) \ {h}
                   PROVE  tty_write_offset'[r] = 0 /\ acked'[r] = 0 /\ tty_write_len'[r] > 0
        BY <2>4, <2>10
      <3>1. r \in Proc /\ r # w /\ r # h
        BY <1>13
      <3> QED
        BY <1>1, <1>5, <1>11, <2>8, <3>1 DEF QueuedFresh
    <2>15. WiresSound' /\ QueuedFresh'
      BY <2>5, <2>8, <2>13, <2>14, ElsewhereSound
    <2> QED
      BY <1>6, <1>9, <1>10, <2>8, <2>12, <2>15 DEF OutInv
  <1> QED
    BY <1>15, <1>16

LEMMA TransmitKeeps ==
  ASSUME Undelayed(PC), OutInv, NEW t \in Term, TrapTtyTransmit(t)
  PROVE  Undelayed(PC)' /\ OutInv' /\ SameAt("tty_read")
  <1>1. PICK w \in Proc : Acks(t, w)
    BY TransmitAcks
  <1>2. UNCHANGED kernel_pc
    BY DEF TrapTtyTransmit
  <1>3. CASE ~Finished(w)
    BY <1>1, <1>2, <1>3, TransmitMore DEF SameAt
  <1>4. CASE Finished(w)
    <2>1. kernel_pc[w] = "tty_write"
      <3>1. w \in Places(writer, write_queue, t) /\ WritersPlaced
        BY <1>1, TtyAssumption DEF Acks, Places, OutInv
      <3> QED
        BY <3>1, WritersGive DEF Blocked
    <2>2. SameAt("tty_read")
      BY <1>1, <1>2, <1>4, <2>1, TransmitLast DEF SameAt
    <2> QED
      BY <1>1, <1>4, <2>2, TransmitLast
  <1> QED
    BY <1>3, <1>4

----------------------------------------------------------------------------
(* The readers of a terminal.                                              *)

LEMMA LinkedGives ==
  ASSUME ReadersLinked, NEW t \in Term
  PROVE  /\ read_queue[t] \in Seq(Proc)
         /\ IsInjective(read_queue[t])
         /\ \A p \in Range(read_queue[t]) :
              /\ p \in Proc /\ state[p] = "BLOCKED" /\ kernel_pc[p] = "tty_read"
              /\ call[p].tty = t
  <1>1. read_queue[t] \in Seq(Proc)
    BY DEF ReadersLinked, Linked
  <1> QED
    BY <1>1, RangeOfSeq DEF ReadersLinked, Linked

(* A step that does not touch the readers.                                 *)
LEMMA InSame ==
  ASSUME InInv, UNCHANGED inVars, UNCHANGED call, SameAt("tty_read")
  PROVE  InInv'
  <1>1. UNCHANGED <<read_queue, input_queue, line, tty_read_line, received, consumed>>
    BY DEF inVars
  <1>2. ReadersLinked /\ ReadsTyped /\ Handed
    BY DEF InInv
  <1>3. ReadersLinked'
    <2>1. \A t \in Term : \A p \in Range(read_queue[t]) :
            /\ p \in Proc /\ state[p] = "BLOCKED" /\ kernel_pc[p] = "tty_read"
            /\ call[p].tty = t
      BY <1>2, LinkedGives
    <2> QED
      BY <1>1, <1>2, <2>1 DEF ReadersLinked, Linked, SameAt
  <1>4. ReadsTyped'
    BY <1>1, <1>2 DEF ReadsTyped
  <1>5. Handed'
    BY <1>1, <1>2 DEF Handed, SameAt
  <1> QED
    BY <1>3, <1>4, <1>5 DEF InInv

(* The line TtyCopyLine finds, and what it leaves of it.                   *)
LEMMA LineForType ==
  ASSUME ReadsTyped, NEW p \in Proc, NEW t \in Term
  PROVE  /\ LineFor(p, t) \in Line \cup {NULL}
         /\ TakesInput(p, t) /\ LineFor(p, t) # NULL => input_queue[t] # <<>>
         /\ InputLeft(p, t) \in Seq(Line) \/ LineFor(p, t) = NULL
  <1>1. PICK q : q = input_queue[t]
    OBVIOUS
  <1>2. /\ q \in Seq(Line) /\ line[t] \in Line \cup {NULL}
        /\ tty_read_line[p] \in Line \cup {NULL}
    BY <1>1 DEF ReadsTyped
  <1>3. q # <<>> => Head(q) \in Line /\ Tail(q) \in Seq(Line)
    BY <1>2, HeadTailProperties
  <1>4. CASE TakesInput(p, t)
    <2>1. ~TakesLeftover(p, t)
      BY <1>4 DEF TakesInput, TakesLeftover
    <2>2. LineFor(p, t) = IF q = <<>> THEN NULL ELSE Head(q)
      BY <1>1, <1>4, <2>1 DEF LineFor
    <2> QED
      BY <1>1, <1>2, <1>3, <1>4, <2>2 DEF InputLeft
  <1>5. CASE ~TakesInput(p, t)
    <2>1. LineFor(p, t) = line[t] \/ LineFor(p, t) = tty_read_line[p]
      BY <1>5 DEF LineFor
    <2> QED
      BY <1>1, <1>2, <1>5, <2>1 DEF InputLeft
  <1> QED
    BY <1>4, <1>5

LEMMA SplitAt ==
  ASSUME NEW S, NEW l \in Seq(S), NEW k \in 0 .. Len(l)
  PROVE  /\ SubSeq(l, 1, k) \in Seq(S) /\ Len(SubSeq(l, 1, k)) = k
         /\ \A i \in 1 .. k : SubSeq(l, 1, k)[i] = l[i]
         /\ SubSeq(l, k + 1, Len(l)) \in Seq(S)
         /\ Len(SubSeq(l, k + 1, Len(l))) = Len(l) - k
         /\ \A i \in 1 .. Len(l) - k : SubSeq(l, k + 1, Len(l))[i] = l[k + i]
  <1>1. Len(l) \in Nat /\ k \in Nat /\ k <= Len(l)
    BY LenProperties
  <1>2. \A i \in 1 .. Len(l) : l[i] \in S
    BY ElementOfSeq
  <1>3. PICK g : g = SubSeq(l, 1, k)
    OBVIOUS
  <1>4. /\ g \in Seq(S) /\ Len(g) = IF 1 <= k THEN k - 1 + 1 ELSE 0
        /\ \A i \in 1 .. k - 1 + 1 : g[i] = l[1 + i - 1]
    <2>1. \A i \in 1 .. k : l[i] \in S
      BY <1>1, <1>2
    <2> QED
      BY <1>1, <1>3, <2>1, SubSeqProperties
  <1>5. Len(g) = k /\ \A i \in 1 .. k : g[i] = l[i]
    <2>1. Len(g) = k /\ k - 1 + 1 = k
      BY <1>1, <1>4
    <2>2. \A i \in 1 .. k : 1 + i - 1 = i
      BY <1>1
    <2> QED
      BY <1>4, <2>1, <2>2
  <1>6. PICK r : r = SubSeq(l, k + 1, Len(l))
    OBVIOUS
  <1>7. /\ r \in Seq(S)
        /\ Len(r) = IF k + 1 <= Len(l) THEN Len(l) - (k + 1) + 1 ELSE 0
        /\ \A i \in 1 .. Len(l) - (k + 1) + 1 : r[i] = l[(k + 1) + i - 1]
    <2>1. \A i \in k + 1 .. Len(l) : l[i] \in S
      BY <1>1, <1>2
    <2> QED
      BY <1>1, <1>6, <2>1, SubSeqProperties
  <1>8. Len(r) = Len(l) - k /\ \A i \in 1 .. Len(l) - k : r[i] = l[k + i]
    <2>1. Len(r) = Len(l) - k /\ Len(l) - (k + 1) + 1 = Len(l) - k
      BY <1>1, <1>7
    <2>2. \A i \in 1 .. Len(l) - k : (k + 1) + i - 1 = k + i
      BY <1>1
    <2> QED
      BY <1>7, <2>1, <2>2
  <1> QED
    BY <1>3, <1>4, <1>5, <1>6, <1>7, <1>8

LEMMA TakeType ==
  ASSUME NEW l \in Line, NEW len \in Nat \ {0}
  PROVE  LET count == IF Len(l) > len THEN len ELSE Len(l)
         IN  /\ count \in 0 .. Len(l)
             /\ SubSeq(l, 1, count) \in Line
             /\ \A p, t : Rest(p, t, l, count) =
                  IF count < Len(l) THEN SubSeq(l, count + 1, Len(l))
                  ELSE IF TakesLeftover(p, t) THEN NULL ELSE line[t]
             /\ count < Len(l) => SubSeq(l, count + 1, Len(l)) \in Line
  <1>1. Len(l) \in Nat
    BY LenProperties DEF Line
  <1>2. PICK count : count = IF Len(l) > len THEN len ELSE Len(l)
    OBVIOUS
  <1>3. count \in 0 .. Len(l)
    BY <1>1, <1>2
  <1>4. SubSeq(l, 1, count) \in Line /\ SubSeq(l, count + 1, Len(l)) \in Line
    BY <1>3, SplitAt DEF Line
  <1>5. \A p, t : Rest(p, t, l, count) =
          IF count < Len(l) THEN SubSeq(l, count + 1, Len(l))
          ELSE IF TakesLeftover(p, t) THEN NULL ELSE line[t]
    BY <1>1, <1>3 DEF Rest
  <1> QED
    BY <1>2, <1>3, <1>4, <1>5

LEMMA ReadTakeKeeps ==
  ASSUME Undelayed(PC), InInv, NEW t \in Term, NEW len \in ReadLens,
         kernel_pc[current_process] \in {"user", "tty_read"},
         ReadTake(current_process, t, len)
  PROVE  Undelayed(PC)' /\ InInv' /\ SameAt("tty_write")
  <1>1. PICK p : p = current_process
    OBVIOUS
  <1>2. ReadersLinked /\ ReadsTyped /\ Handed
    BY DEF InInv
  <1>3. PICK l : l = LineFor(p, t)
    OBVIOUS
  <1>4. PICK count : count = IF Len(l) > len THEN len ELSE Len(l)
    OBVIOUS
  <1>5. /\ l # NULL
        /\ consumed' = [consumed EXCEPT ![t] = consumed[t] \o SubSeq(l, 1, count)]
        /\ line' = [line EXCEPT ![t] = Rest(p, t, l, count)]
        /\ input_queue' = [input_queue EXCEPT ![t] = InputLeft(p, t)]
        /\ tty_read_line' = [tty_read_line EXCEPT ![p] = NULL]
        /\ kernel_pc' = [kernel_pc EXCEPT ![p] = "user"]
        /\ call' = [call EXCEPT ![p] = NoCall]
        /\ UNCHANGED <<state, ready_queue, current_process, clock_ticks,
                       delay_until, halted, read_queue, received>>
    BY <1>1, <1>3, <1>4 DEF ReadTake
  <1>6. p \in Proc /\ state[p] # "BLOCKED" /\ kernel_pc[p] # "tty_write"
    BY <1>1, CurrentRuns
  <1>7. /\ Undelayed(PC)' /\ kernel_pc'[p] = "user"
        /\ \A r \in Proc : r # p => kernel_pc'[r] = kernel_pc[r]
    BY <1>1, <1>5, ReturnKeeps
  <1>8. SameAt("tty_write")
    BY <1>5, <1>6, <1>7 DEF SameAt
  <1>9. /\ tty_read_line'[p] = NULL
        /\ \A r \in Proc : r # p =>
             call'[r] = call[r] /\ tty_read_line'[r] = tty_read_line[r]
    BY <1>2, <1>5, <1>6 DEF ReadsTyped
  <1>10. l \in Line /\ len \in Nat \ {0} /\ InputLeft(p, t) \in Seq(Line)
    BY <1>2, <1>3, <1>5, <1>6, LineForType, TtyAssumption
  <1>11. /\ SubSeq(l, 1, count) \in Line
         /\ Rest(p, t, l, count) \in Line \cup {NULL}
    <2>1. line[t] \in Line \cup {NULL}
      BY <1>2 DEF ReadsTyped
    <2> QED
      BY <1>4, <1>10, <2>1, TakeType, ZenonT(30)
  <1>12. ReadsTyped'
    <2>1. consumed[t] \o SubSeq(l, 1, count) \in Line
      BY <1>2, <1>11, ConcatProperties DEF ReadsTyped, Line
    <2>2. NoCall \in [tty : Term, len : ReadLens \cup {0}]
      BY TtyAssumption DEF NoCall, Term
    <2> QED
      BY <1>2, <1>5, <1>6, <1>10, <1>11, <2>1, <2>2 DEF ReadsTyped
  <1>13. Handed'
    BY <1>2, <1>5, <1>7, <1>9 DEF Handed
  <1>14. ReadersLinked'
    <2>1. \A u \in Term : \A r \in Range(read_queue[u]) : r \in Proc /\ r # p
      BY <1>2, <1>6, LinkedGives
    <2> QED
      BY <1>2, <1>5, <1>7, <1>9, <2>1 DEF ReadersLinked, Linked
  <1> QED
    BY <1>7, <1>8, <1>12, <1>13, <1>14 DEF InInv

LEMMA ReadBlockKeeps ==
  ASSUME Undelayed(PC), InInv, NEW t \in Term, NEW len \in ReadLens,
         current_process \in Readers, current_process # Idle,
         kernel_pc[current_process] \in {"user", "tty_read"},
         ReadBlock(current_process, t, len)
  PROVE  Undelayed(PC)' /\ InInv' /\ SameAt("tty_write")
  <1>1. PICK p : p = current_process
    OBVIOUS
  <1>2. ReadersLinked /\ ReadsTyped /\ Handed
    BY DEF InInv
  <1>3. PICK q : q = read_queue[t]
    OBVIOUS
  <1>4. /\ LineFor(p, t) = NULL
        /\ read_queue' = [read_queue EXCEPT ![t] = Append(q, p)]
        /\ kernel_pc' = [kernel_pc EXCEPT ![p] = "tty_read"]
        /\ call' = [call EXCEPT ![p] = [tty |-> t, len |-> len]]
        /\ UNCHANGED <<input_queue, line, tty_read_line, received, consumed>>
    BY <1>1, <1>3 DEF ReadBlock
  <1>5. p \in Proc /\ state[p] # "BLOCKED" /\ kernel_pc[p] # "tty_write"
    BY <1>1, CurrentRuns
  <1>6. /\ Undelayed(PC)' /\ kernel_pc'[p] = "tty_read"
        /\ \A r \in Proc :
             /\ r # p => kernel_pc'[r] = kernel_pc[r]
             /\ state'[r] = "BLOCKED" <=> (state[r] = "BLOCKED" \/ r = p)
    BY <1>1, BlockKeeps DEF ReadBlock, PC
  <1>7. SameAt("tty_write")
    BY <1>5, <1>6 DEF SameAt
  <1>8. tty_read_line[p] = NULL
    BY <1>4 DEF LineFor, TakesLeftover, TakesInput
  <1>9. /\ call'[p].tty = t /\ call'[p].len = len
        /\ call' \in [Proc -> [tty : Term, len : ReadLens \cup {0}]]
        /\ \A r \in Proc : r # p => call'[r] = call[r]
    BY <1>2, <1>4, <1>5 DEF ReadsTyped
  <1>10. ReadsTyped'
    BY <1>2, <1>4, <1>9 DEF ReadsTyped
  <1>11. Handed'
    BY <1>1, <1>2, <1>4, <1>6, <1>8, <1>9 DEF Handed
  <1>12. \A u \in Term : \A r \in Range(read_queue[u]) :
           /\ r \in Proc /\ r # p /\ state[r] = "BLOCKED" /\ kernel_pc[r] = "tty_read"
           /\ call[r].tty = u
    BY <1>2, <1>5, LinkedGives
  <1>13. /\ Append(q, p) \in Seq(Proc) /\ IsInjective(Append(q, p))
         /\ Range(Append(q, p)) = Range(q) \cup {p}
    <2>1. q \in Seq(Proc) /\ IsInjective(q) /\ p \notin Range(q)
      BY <1>2, <1>3, <1>12, LinkedGives
    <2> QED
      BY <1>5, <2>1, AppendInjects
  <1>14. read_queue \in [Term -> Seq(Proc)]
    BY <1>2 DEF ReadersLinked, Linked
  <1>15. /\ read_queue' \in [Term -> Seq(Proc)] /\ read_queue'[t] = Append(q, p)
         /\ \A u \in Term : u # t => read_queue'[u] = read_queue[u]
    BY <1>4, <1>13, <1>14
  <1>16. ReadersLinked'
    <2>1. \A u \in Term : IsInjective(read_queue'[u])
      BY <1>2, <1>13, <1>15 DEF ReadersLinked, Linked
    <2>2. \A u \in Term : Range(read_queue'[u]) =
            Range(read_queue[u]) \cup (IF u = t THEN {p} ELSE {})
      BY <1>3, <1>13, <1>15
    <2>3. \A u \in Term : \A r \in Range(read_queue'[u]) :
            state'[r] = "BLOCKED" /\ kernel_pc'[r] = "tty_read" /\ call'[r].tty = u
      <3> TAKE u \in Term
      <3> TAKE r \in Range(read_queue'[u])
      <3>1. CASE r = p
        <4>1. u = t
          BY <1>12, <2>2, <3>1
        <4> QED
          BY <1>5, <1>6, <1>9, <3>1, <4>1
      <3>2. CASE r # p
        BY <1>6, <1>9, <1>12, <2>2, <3>2
      <3> QED
        BY <3>1, <3>2
    <2>4. \A r \in Proc : state'[r] = "BLOCKED" /\ kernel_pc'[r] = "tty_read" =>
            r \in Range(read_queue'[call'[r].tty])
      <3> SUFFICES ASSUME NEW r \in Proc, state'[r] = "BLOCKED", kernel_pc'[r] = "tty_read"
                   PROVE  r \in Range(read_queue'[call'[r].tty])
        OBVIOUS
      <3>1. CASE r = p
        BY <1>9, <2>2, <3>1
      <3>2. CASE r # p
        <4>1. call[r].tty \in Term
          BY <1>2 DEF ReadsTyped
        <4>2. state[r] = "BLOCKED" /\ kernel_pc[r] = "tty_read" /\ call'[r] = call[r]
          BY <1>6, <1>9, <3>2
        <4>3. r \in Range(read_queue[call[r].tty])
          BY <1>2, <4>2 DEF ReadersLinked, Linked
        <4> QED
          BY <2>2, <4>1, <4>2, <4>3
      <3> QED
        BY <3>1, <3>2
    <2> QED
      BY <1>15, <2>1, <2>3, <2>4 DEF ReadersLinked, Linked
  <1> QED
    BY <1>6, <1>7, <1>10, <1>11, <1>16 DEF InInv

(* TrapTtyReceive, apart from where the line goes.                         *)
LEMMA NewLineType ==
  ASSUME ReadsTyped, NEW t \in Term, NEW n \in LineLens, received[t] + n <= MaxInput
  PROVE  /\ [i \in 1 .. n |-> received[t] + i] \in Line
         /\ [i \in 1 .. n |-> received[t] + i] # NULL
         /\ Len([i \in 1 .. n |-> received[t] + i]) = n
         /\ received[t] + n \in 0 .. MaxInput
  <1>1. n \in Nat /\ received[t] \in Nat /\ MaxInput \in Nat
    BY TtyAssumption DEF ReadsTyped
  <1>2. PICK new : new = [i \in 1 .. n |-> received[t] + i]
    OBVIOUS
  <1>3. new \in [1 .. n -> 1 .. MaxInput]
    BY <1>1, <1>2
  <1>4. new \in Line /\ Len(new) = n
    BY <1>1, <1>3, FunctionSeq DEF Line
  <1>5. new # NULL
    BY <1>4, TtyAssumption DEF Line
  <1> QED
    BY <1>1, <1>2, <1>4, <1>5

LEMMA ReceiveKeeps ==
  ASSUME Undelayed(PC), InInv, NEW t \in Term, NEW n \in LineLens, TrapTtyReceive(t, n)
  PROVE  Undelayed(PC)' /\ InInv' /\ SameAt("tty_write")
  <1>1. ReadersLinked /\ ReadsTyped /\ Handed
    BY DEF InInv
  <1>2. PICK new : new = [i \in 1 .. n |-> received[t] + i]
    OBVIOUS
  <1>3. PICK q : q = read_queue[t]
    OBVIOUS
  <1>4. PICK reader : reader = Head(q)
    OBVIOUS
  <1>5. /\ received[t] + n <= MaxInput
        /\ received' = [received EXCEPT ![t] = received[t] + n]
        /\ UNCHANGED <<current_process, clock_ticks, delay_until, kernel_pc, halted,
                       line, consumed, call>>
    BY DEF TrapTtyReceive
  <1>6. new \in Line /\ new # NULL /\ received[t] + n \in 0 .. MaxInput
    BY <1>1, <1>2, <1>5, NewLineType
  <1>7. received' \in [Term -> 0 .. MaxInput]
    BY <1>1, <1>5, <1>6 DEF ReadsTyped
  <1>8. /\ q \in Seq(Proc) /\ IsInjective(q)
        /\ \A p \in Range(q) : /\ p \in Proc /\ state[p] = "BLOCKED"
                               /\ kernel_pc[p] = "tty_read" /\ call[p].tty = t
    BY <1>1, <1>3, LinkedGives
  <1>9. CASE ReaderWaits(t)
    <2>1. /\ q # <<>>
          /\ read_queue' = [read_queue EXCEPT ![t] = Tail(q)]
          /\ tty_read_line' = [tty_read_line EXCEPT ![reader] = new]
          /\ state' = MadeReady(state, reader)
          /\ ready_queue' = Queued(state, ready_queue, reader)
          /\ UNCHANGED input_queue
      BY <1>2, <1>3, <1>4, <1>9 DEF TrapTtyReceive, ReaderWaits
    <2>2. /\ reader \in Range(q)
          /\ Tail(q) \in Seq(Proc) /\ IsInjective(Tail(q))
          /\ Range(Tail(q)) = Range(q) \ {reader}
      BY <1>4, <1>8, <2>1, TailInjects
    <2>3. /\ reader \in Proc /\ state[reader] = "BLOCKED"
          /\ kernel_pc[reader] = "tty_read" /\ call[reader].tty = t
      BY <1>8, <2>2
    <2>4. /\ Undelayed(PC)'
          /\ \A r \in Proc : state'[r] = "BLOCKED" <=> (state[r] = "BLOCKED" /\ r # reader)
      BY <1>5, <2>1, <2>3, WakeKeeps
    <2>5. SameAt("tty_write")
      BY <1>5, <2>3, <2>4 DEF SameAt
    <2>6. ReadsTyped'
      BY <1>1, <1>5, <1>6, <1>7, <2>1, <2>3 DEF ReadsTyped
    <2>7. \A r \in Proc : r # reader => tty_read_line'[r] = tty_read_line[r]
      BY <1>1, <2>1 DEF ReadsTyped
    <2>8. Handed'
      BY <1>1, <1>5, <2>3, <2>4, <2>7 DEF Handed
    <2>9. read_queue \in [Term -> Seq(Proc)]
      BY <1>1 DEF ReadersLinked, Linked
    <2>10. /\ read_queue' \in [Term -> Seq(Proc)] /\ read_queue'[t] = Tail(q)
           /\ \A u \in Term : u # t => read_queue'[u] = read_queue[u]
      BY <2>1, <2>2, <2>9
    <2>11. \A u \in Term : /\ IsInjective(read_queue'[u])
                           /\ Range(read_queue'[u]) = Range(read_queue[u]) \ {reader}
      <3> TAKE u \in Term
      <3>1. CASE u = t
        BY <1>3, <2>2, <2>10, <3>1
      <3>2. CASE u # t
        <4>1. reader \notin Range(read_queue[u])
          BY <1>1, <2>3, <3>2, LinkedGives
        <4> QED
          BY <1>1, <2>10, <3>2, <4>1 DEF ReadersLinked, Linked
      <3> QED
        BY <3>1, <3>2
    <2>12. ReadersLinked'
      <3>1. \A u \in Term : \A r \in Range(read_queue'[u]) :
              state'[r] = "BLOCKED" /\ kernel_pc'[r] = "tty_read" /\ call'[r].tty = u
        BY <1>1, <1>5, <2>4, <2>11, LinkedGives
      <3>2. \A r \in Proc : state'[r] = "BLOCKED" /\ kernel_pc'[r] = "tty_read" =>
              r \in Range(read_queue'[call'[r].tty])
        <4>1. \A r \in Proc : call[r].tty \in Term
          BY <1>1 DEF ReadsTyped
        <4> QED
          BY <1>1, <1>5, <2>4, <2>11, <4>1 DEF ReadersLinked, Linked
      <3> QED
        BY <2>10, <2>11, <3>1, <3>2 DEF ReadersLinked, Linked
    <2> QED
      BY <2>4, <2>5, <2>6, <2>8, <2>12 DEF InInv
  <1>10. CASE ~ReaderWaits(t)
    <2>1. /\ input_queue' = [input_queue EXCEPT ![t] = Append(input_queue[t], new)]
          /\ UNCHANGED <<state, ready_queue, read_queue, tty_read_line>>
      BY <1>2, <1>10 DEF TrapTtyReceive, InputWith
    <2>2. Undelayed(PC)'
      BY <1>5, <2>1, UndelayedReturn DEF Undelayed
    <2>3. SameAt("tty_write")
      BY <1>5, <2>1 DEF SameAt
    <2>4. Append(input_queue[t], new) \in Seq(Line)
      BY <1>1, <1>6, AppendProperties DEF ReadsTyped
    <2>5. ReadsTyped'
      BY <1>1, <1>5, <1>7, <2>1, <2>4 DEF ReadsTyped
    <2>6. ReadersLinked' /\ Handed'
      BY <1>1, <1>5, <2>1 DEF ReadersLinked, Linked, Handed
    <2> QED
      BY <2>2, <2>3, <2>5, <2>6 DEF InInv
  <1> QED
    BY <1>9, <1>10

----------------------------------------------------------------------------
(* The invariant.                                                          *)

LEMMA ReadKeeps ==
  ASSUME Undelayed(PC), InInv, Read
  PROVE  Undelayed(PC)' /\ InInv' /\ SameAt("tty_write")
  <1>1. PICK t \in Term, len \in ReadLens : SysTtyRead(t, len)
    BY DEF Read
  <1>2. /\ current_process \in Readers /\ current_process # Idle
        /\ kernel_pc[current_process] = "user"
        /\ ReadLoop(current_process, t, len)
    BY <1>1 DEF SysTtyRead, CanCall, InUserMode
  <1> QED
    BY <1>2, ReadTakeKeeps, ReadBlockKeeps DEF ReadLoop

LEMMA ReadResumedKeeps ==
  ASSUME Undelayed(PC), InInv, NEW p \in Proc, SysTtyReadResumed(p)
  PROVE  Undelayed(PC)' /\ InInv' /\ SameAt("tty_write")
  <1>1. /\ p = current_process /\ kernel_pc[p] = "tty_read"
        /\ ReadLoop(p, call[p].tty, call[p].len)
    BY DEF SysTtyReadResumed, Running
  <1>2. p \in Readers /\ call[p].len \in ReadLens /\ call[p].tty \in Term
    BY <1>1 DEF InInv, Handed, ReadsTyped
  <1>3. p # Idle
    BY <1>1, CurrentRuns
  <1> QED
    BY <1>1, <1>2, <1>3, ReadTakeKeeps, ReadBlockKeeps DEF ReadLoop

LEMMA InitInv ==
  ASSUME Init
  PROVE  TtyInv
  <1>1. PICK rq \in Ascending(Live) : SchedInit(Live, rq)
    BY DEF Init
  <1>2. rq \in Seq(Proc) /\ IsInjective(rq) /\ Range(rq) \subseteq Live
    BY TtyAssumption, AscendingInjects
  <1>3. 0 \in 0 .. Word - 1
    BY SchedAssumption
  <1>4. Undelayed(PC)
    <2>1. /\ state \in [Proc -> ProcState] /\ state[Idle] = "RUNNING"
          /\ \A p \in Proc : state[p] = "RUNNING" => p \in {current_process, Idle}
          /\ state[current_process] = "RUNNING" /\ current_process \in Proc
          /\ kernel_pc \in [Proc -> PC] /\ kernel_pc[Idle] = "user"
          /\ halted \in BOOLEAN
      BY <1>1, SchedAssumption, TtyAssumption DEF SchedInit, ProcState, PC
    <2>2. \A p \in Range(ready_queue) :
            state[p] = "READY" /\ p # current_process /\ p # Idle
      BY <1>1, <1>2, TtyAssumption DEF SchedInit
    <2> QED
      BY <1>1, <1>2, <1>3, <2>1, <2>2 DEF SchedInit, Undelayed, SchedulerSound
  <1>5. \A p \in Proc : state[p] # "BLOCKED" /\ kernel_pc[p] = "user"
    BY <1>1 DEF SchedInit
  <1>6. <<>> \in Seq(Proc) /\ IsInjective(<<>>) /\ Range(<<>>) = {}
    BY EmptySeq DEF IsInjective, Range
  <1>7. /\ read_queue = [t \in Term |-> <<>>] /\ input_queue = [t \in Term |-> <<>>]
        /\ line = [t \in Term |-> NULL] /\ tty_read_line = [p \in Proc |-> NULL]
        /\ call = [p \in Proc |-> NoCall] /\ write_queue = [t \in Term |-> <<>>]
        /\ writer = [t \in Term |-> NULL] /\ busy = [t \in Term |-> FALSE]
        /\ tty_write_len = [p \in Proc |-> 0] /\ tty_write_offset = [p \in Proc |-> 0]
        /\ wire = [t \in Term |-> <<>>] /\ received = [t \in Term |-> 0]
        /\ consumed = [t \in Term |-> <<>>] /\ acked = [p \in Proc |-> 0]
    BY DEF Init
  <1>8. OutInv
    <2>1. \A t \in Term : Places(writer, write_queue, t) = {}
      BY <1>6, <1>7 DEF Places
    <2>2. WritersPlaced
      BY <1>5, <1>6, <1>7, <2>1 DEF WritersPlaced, Placed, Blocked
    <2>3. WritesTyped
      <3>1. <<>> \in Seq(Packet)
        BY EmptySeq
      <3> QED
        BY <1>7, <3>1 DEF WritesTyped
    <2>4. WiresSound /\ QueuedFresh /\ WholeWrite
      BY <1>5, <1>6, <1>7 DEF WiresSound, Idles, QueuedFresh, WholeWrite
    <2> QED
      BY <2>2, <2>3, <2>4 DEF OutInv
  <1>9. InInv
    <2>1. <<>> \in Seq(Line) /\ <<>> \in Line /\ 0 \in 0 .. MaxInput
      BY EmptySeq, TtyAssumption DEF Line
    <2>2. NoCall \in [tty : Term, len : ReadLens \cup {0}]
      BY TtyAssumption DEF NoCall, Term
    <2>3. ReadsTyped
      BY <1>7, <2>1, <2>2 DEF ReadsTyped
    <2>4. ReadersLinked /\ Handed
      BY <1>5, <1>6, <1>7 DEF ReadersLinked, Linked, Handed
    <2> QED
      BY <2>3, <2>4 DEF InInv
  <1> QED
    BY <1>4, <1>8, <1>9 DEF TtyInv

LEMMA NextInv ==
  ASSUME TtyInv, [Next]_vars
  PROVE  TtyInv'
  <1>1. Undelayed(PC) /\ OutInv /\ InInv
    BY DEF TtyInv
  <1>2. CASE Clock
    <2>1. TrapClock /\ UNCHANGED outVars /\ UNCHANGED inVars /\ UNCHANGED call
      BY <1>2 DEF Clock, ttyVars
    <2>2. Undelayed(PC)' /\ SameAt("tty_read") /\ SameAt("tty_write")
      BY <1>1, <2>1, UndelayedClock DEF SameAt
    <2> QED
      BY <1>1, <2>1, <2>2, OutSame, InSame DEF TtyInv
  <1>3. CASE Receive
    <2>1. UNCHANGED outVars
      BY <1>3 DEF Receive, TrapTtyReceive
    <2> QED
      BY <1>1, <1>3, <2>1, ReceiveKeeps, OutSame DEF Receive, TtyInv
  <1>4. CASE Transmit
    <2>1. UNCHANGED inVars /\ UNCHANGED call
      BY <1>4 DEF Transmit, TrapTtyTransmit
    <2> QED
      BY <1>1, <1>4, <2>1, TransmitKeeps, InSame DEF Transmit, TtyInv
  <1>5. CASE Read
    <2>1. UNCHANGED outVars
      BY <1>5 DEF Read, SysTtyRead, ReadLoop, ReadTake, ReadBlock
    <2> QED
      BY <1>1, <1>5, <2>1, ReadKeeps, OutSame DEF TtyInv
  <1>6. CASE Write
    <2>1. UNCHANGED inVars /\ UNCHANGED call
      BY <1>6 DEF Write, SysTtyWrite
    <2> QED
      BY <1>1, <1>6, <2>1, SysTtyWriteKeeps, InSame DEF Write, TtyInv
  <1>7. CASE \E p \in Proc : SysTtyReadResumed(p)
    <2>1. UNCHANGED outVars
      BY <1>7 DEF SysTtyReadResumed, ReadLoop, ReadTake, ReadBlock
    <2> QED
      BY <1>1, <1>7, <2>1, ReadResumedKeeps, OutSame DEF TtyInv
  <1>8. CASE \E p \in Proc : SysTtyWriteResumed(p)
    <2>1. UNCHANGED inVars /\ UNCHANGED call
      BY <1>8 DEF SysTtyWriteResumed
    <2> QED
      BY <1>1, <1>8, <2>1, SysTtyWriteResumedKeeps, InSame DEF TtyInv
  <1>9. CASE UNCHANGED vars
    <2>1. /\ UNCHANGED <<state, ready_queue, current_process, clock_ticks, delay_until,
                         kernel_pc, halted>>
          /\ UNCHANGED outVars /\ UNCHANGED inVars /\ UNCHANGED call
      BY <1>9 DEF vars, schedVars, ttyVars
    <2>2. SameAt("tty_read") /\ SameAt("tty_write")
      BY <2>1 DEF SameAt
    <2>3. Undelayed(PC)'
      BY <1>1, <2>1, UndelayedReturn DEF Undelayed
    <2> QED
      BY <1>1, <2>1, <2>2, <2>3, OutSame, InSame DEF TtyInv
  <1> QED
    BY <1>2, <1>3, <1>4, <1>5, <1>6, <1>7, <1>8, <1>9 DEF Next, Resume

(* TtyInv holds in every reachable state, whatever the programs read and   *)
(* write and whenever the terminals interrupt.                             *)
THEOREM TtyCorrect == Spec => []TtyInv
  <1>1. Init => TtyInv
    BY InitInv
  <1>2. TtyInv /\ [Next]_vars => TtyInv'
    BY NextInv
  <1> QED
    BY <1>1, <1>2, PTL DEF Spec

(* Every variable of the terminal driver and of the scheduler keeps its    *)
(* type: no line TtyCopyLine cuts and no chunk TtyStartWrite cuts leaves   *)
(* its range.                                                              *)
THEOREM TypeCorrect == Spec => []TypeOK
  <1>1. TtyInv => TypeOK
    <2> SUFFICES ASSUME TtyInv
                 PROVE  TypeOK
      OBVIOUS
    <2>1. Undelayed(PC) /\ WritersPlaced /\ WritesTyped /\ ReadersLinked /\ ReadsTyped
      BY DEF TtyInv, OutInv, InInv
    <2>2. delay_until \in [Proc -> 0 .. Word - 1]
      BY <2>1, UndelayedGives
    <2>3. /\ writer \in [Term -> Proc \cup {NULL}] /\ write_queue \in [Term -> Seq(Proc)]
          /\ read_queue \in [Term -> Seq(Proc)]
      BY <2>1 DEF WritersPlaced, Placed, ReadersLinked, Linked
    <2> QED
      BY <2>1, <2>2, <2>3 DEF TypeOK, Undelayed, WritesTyped, ReadsTyped, PC, Line, Packet
  <1> QED
    BY <1>1, TtyCorrect, PTL

(* The hardware is given one chunk at a time, the writer's, and the busy   *)
(* flag says when: SysTtyWrite never transmits to a busy terminal, and     *)
(* TrapTtyTransmit never leaves a queue of writers behind an idle one.     *)
THEOREM ChunksCorrect == Spec => []OneChunk
  <1>1. TtyInv => OneChunk
    <2> SUFFICES ASSUME TtyInv, NEW t \in Term
                 PROVE  /\ Len(wire[t]) <= 1
                        /\ busy[t] <=> writer[t] # NULL
                        /\ busy[t] <=> wire[t] # <<>>
                        /\ wire[t] # <<>> => wire[t][1].proc = writer[t]
                        /\ write_queue[t] # <<>> => busy[t]
      BY DEF OneChunk
    <2>1. WritersPlaced /\ WiresSound
      BY DEF TtyInv, OutInv
    <2>2. CASE writer[t] = NULL
      <3>1. ~busy[t] /\ wire[t] = <<>> /\ write_queue[t] = <<>>
        BY <2>1, <2>2 DEF WiresSound, Idles
      <3>2. Len(wire[t]) = 0
        BY <3>1
      <3> QED
        BY <2>2, <3>1, <3>2
    <2>3. CASE writer[t] # NULL
      <3>1. PICK w \in Proc : w = writer[t]
        BY <2>1, <2>3, WritersGive
      <3>2. PICK n \in 1 .. TERMINAL_MAX_LINE :
              busy[t] /\ wire[t] = <<[proc |-> w, len |-> n]>>
        BY <2>1, <2>3, <3>1 DEF WiresSound, Sends
      <3>3. /\ wire[t] # <<>> /\ Len(wire[t]) = 1
            /\ wire[t][1].proc = w
        BY <3>2
      <3> QED
        BY <2>3, <3>1, <3>2, <3>3
    <2> QED
      BY <2>2, <2>3
  <1> QED
    BY <1>1, TtyCorrect, PTL

(* A process blocked in SysTtyWrite is the writer of one terminal or       *)
(* queued once at one, and nobody else is either: none is lost, and none   *)
(* returns, freeing its buffer, while the terminal still knows of it.      *)
THEOREM WritersCorrect == Spec => []WritersSound
  <1>1. TtyInv => WritersSound
    <2> SUFFICES ASSUME TtyInv
                 PROVE  WritersSound
      OBVIOUS
    <2>1. WritersPlaced
      BY DEF TtyInv, OutInv
    <2>2. \A t \in Term : \A p \in Proc :
            p \in Places(writer, write_queue, t) <=>
              (writer[t] = p \/ p \in Range(write_queue[t]))
      BY <2>1, PlacesType DEF WritersPlaced
    <2>3. \A t \in Term : IsInjective(write_queue[t]) /\ writer[t] \notin Range(write_queue[t])
      BY <2>1 DEF WritersPlaced, Placed
    <2>4. SUFFICES ASSUME NEW p \in Proc
                   PROVE  LET places == {t \in Term : writer[t] = p} \X {"writer"} \cup
                                 {t \in Term : p \in Range(write_queue[t])} \X {"queue"}
                          IN  IF state[p] = "BLOCKED" /\ kernel_pc[p] = "tty_write"
                              THEN Cardinality(places) = 1
                              ELSE places = {}
      BY <2>3 DEF WritersSound
    <2> DEFINE W == {t \in Term : writer[t] = p}
               Q == {t \in Term : p \in Range(write_queue[t])}
               places == W \X {"writer"} \cup Q \X {"queue"}
    <2>5. CASE Blocked(state, kernel_pc, p)
      <3>1. PICK t \in Term : p \in Places(writer, write_queue, t)
        BY <2>1, <2>5 DEF WritersPlaced, Placed
      <3>2. \A u \in Term : u # t => p \notin Places(writer, write_queue, u)
        BY <2>1, <3>1 DEF WritersPlaced, Placed
      <3>3. \A u \in Term : u # t => writer[u] # p /\ p \notin Range(write_queue[u])
        BY <2>2, <3>2
      <3>4. (W = {t} /\ Q = {}) \/ (W = {} /\ Q = {t})
        BY <2>2, <2>3, <3>1, <3>3
      <3>5. places = {<<t, "writer">>} \/ places = {<<t, "queue">>}
        BY <3>4
      <3>6. Cardinality(places) = 1
        BY <3>5, FS_Singleton
      <3> QED
        BY <2>5, <3>6 DEF Blocked
    <2>6. CASE ~Blocked(state, kernel_pc, p)
      <3>1. \A t \in Term : p \notin Places(writer, write_queue, t)
        BY <2>1, <2>6 DEF WritersPlaced, Placed
      <3>2. W = {} /\ Q = {}
        BY <2>2, <3>1
      <3>3. places = {}
        BY <3>2
      <3> QED
        BY <2>6, <3>3 DEF Blocked
    <2> QED
      BY <2>5, <2>6
  <1> QED
    BY <1>1, TtyCorrect, PTL

(* SysTtyWrite returns only when every byte has been acknowledged.         *)
THEOREM WritesWhole == Spec => []WholeWrite
  <1>1. TtyInv => WholeWrite
    BY DEF TtyInv, OutInv
  <1> QED
    BY <1>1, TtyCorrect, PTL

LEMMA StepUnbroken ==
  ASSUME TtyInv, [Next]_vars
  PROVE  \A t \in Term : writer[t] # NULL /\ writer'[t] # writer[t] =>
           acked'[writer[t]] = tty_write_len[writer[t]]
  <1>1. Undelayed(PC) /\ OutInv /\ WritersPlaced /\ WiresSound
    BY DEF TtyInv, OutInv
  <1>2. writer \in [Term -> Proc \cup {NULL}]
    BY <1>1, WritersGive
  <1>3. CASE UNCHANGED writer
    BY <1>3
  <1>4. CASE Transmit
    <2>1. PICK u \in Term : TrapTtyTransmit(u)
      BY <1>4 DEF Transmit
    <2>2. PICK w \in Proc : Acks(u, w)
      BY <1>1, <2>1, TransmitAcks
    <2>3. CASE ~Finished(w)
      BY <1>1, <1>3, <2>2, <2>3, TransmitMore
    <2>4. CASE Finished(w)
      <3>1. /\ acked'[w] = tty_write_len[w]
            /\ \A t \in Term : t # u => writer'[t] = writer[t]
        BY <1>1, <2>2, <2>4, TransmitLast
      <3> QED
        BY <2>2, <3>1 DEF Acks
    <2> QED
      BY <2>3, <2>4
  <1>5. CASE Write
    <2>1. PICK u \in Term, len \in WriteLens : SysTtyWrite(u, len)
      BY <1>5 DEF Write
    <2>2. CASE TerminalIdle(u)
      <3>1. writer[u] = NULL
        BY <2>2 DEF TerminalIdle
      <3>2. \A t \in Term : t # u => writer'[t] = writer[t]
        BY <1>2, <2>1, <2>2 DEF SysTtyWrite, TtyStartWrite
      <3> QED
        BY <3>1, <3>2
    <2>3. CASE ~TerminalIdle(u)
      BY <1>3, <2>1, <2>3 DEF SysTtyWrite
    <2> QED
      BY <2>2, <2>3
  <1>6. CASE Clock \/ UNCHANGED vars
    BY <1>3, <1>6 DEF Clock, vars, ttyVars, outVars
  <1>7. CASE Receive \/ Read
    BY <1>3, <1>7 DEF Receive, TrapTtyReceive, Read, SysTtyRead, ReadLoop, ReadTake,
                      ReadBlock, outVars
  <1>8. CASE Resume
    BY <1>3, <1>8 DEF Resume, SysTtyReadResumed, SysTtyWriteResumed, ReadLoop, ReadTake,
                      ReadBlock, outVars
  <1> QED
    BY <1>4, <1>5, <1>6, <1>7, <1>8 DEF Next

(* A terminal changes its writer only in the TrapTtyTransmit that          *)
(* acknowledges the writer's last byte: no other write breaks into it.     *)
THEOREM WritesUnbroken == Spec => WriteUnbroken
  <1>1. TtyInv /\ [Next]_vars =>
          [\A t \in Term :
             writer[t] # NULL /\ writer'[t] # writer[t] =>
               acked'[writer[t]] = tty_write_len[writer[t]]]_vars
    BY StepUnbroken
  <1> QED
    BY <1>1, TtyCorrect, PTL DEF Spec, WriteUnbroken

----------------------------------------------------------------------------
(* What is read.  A read that leaves the rest of its line behind replaces  *)
(* what another had left, so with several readers bytes may be lost.       *)
(* Nothing is lost when one process reads, or when every read asks for at  *)
(* least a line.                                                           *)

OneReader == \A p, q \in Readers : p = q
WholeLines == \A r \in ReadLens, n \in LineLens : n <= r

(* A line is a run of bytes typed one after the other, and one that no     *)
(* read has cut has the length of a typed line.                            *)
Run(l) == \A i \in 1 .. Len(l) : l[i] = l[1] + i - 1
Uncut(l) == Run(l) /\ Len(l) \in LineLens

(* The line handed to p that was typed at terminal t.                      *)
HandedLine(p, t) ==
  IF tty_read_line[p] # NULL /\ call[p].tty = t THEN tty_read_line[p] ELSE NULL

LinesTidy(t) ==
  /\ line[t] # NULL => Run(line[t]) /\ ~WholeLines
  /\ \A p \in Proc :
       HandedLine(p, t) # NULL => Uncut(HandedLine(p, t)) /\ line[t] = NULL
  /\ \A i \in 1 .. Len(input_queue[t]) : Uncut(input_queue[t][i])

(* Each of the first n bytes is in one place: returned, C; left over, L;   *)
(* in the hands of p, H[p]; or in Q[i], the i-th of the m lines queued.    *)
(* Those queued come after all the others, in the order of the queue.      *)
Parted(C, L, H, Q, m, n) ==
  /\ C \cap L = {}
  /\ \A p \in Proc : H[p] \cap C = {} /\ H[p] \cap L = {}
  /\ \A p, q \in Proc : p # q => H[p] \cap H[q] = {}
  /\ \A i \in 1 .. m : \A b \in Q[i] :
       /\ \A c \in C : c < b
       /\ \A c \in L : c < b
       /\ \A p \in Proc : \A c \in H[p] : c < b
       /\ \A j \in 1 .. i - 1 : \A c \in Q[j] : c < b
  /\ C \cup L \cup (UNION {H[p] : p \in Proc}) \cup (UNION {Q[i] : i \in 1 .. m}) = 1 .. n

InHand(t) == [p \in Proc |-> Range(BytesOf(HandedLine(p, t)))]
InputOf(t) == [i \in 1 .. Len(input_queue[t]) |-> Range(input_queue[t][i])]

BytesAt(t) ==
  /\ IsInjective(consumed[t])
  /\ LinesTidy(t)
  /\ Parted(Range(consumed[t]), Range(BytesOf(line[t])), InHand(t), InputOf(t),
            Len(input_queue[t]), received[t])

ReadInv == NoSleepingReader /\ \A t \in Term : BytesAt(t)

(* Bytes that move from one place to another.                              *)

LEMMA PartedBytes ==
  ASSUME NEW C, NEW L, NEW H, NEW Q, NEW m, NEW n, Parted(C, L, H, Q, m, n), NEW b
  PROVE  b \in 1 .. n <=> \/ b \in C \/ b \in L
                          \/ \E p \in Proc : b \in H[p]
                          \/ \E i \in 1 .. m : b \in Q[i]
  BY Zenon DEF Parted

LEMMA PartedBy ==
  ASSUME NEW C, NEW L, NEW H, NEW Q, NEW m, NEW n,
         C \cap L = {},
         \A p \in Proc : H[p] \cap C = {} /\ H[p] \cap L = {},
         \A p, q \in Proc : p # q => H[p] \cap H[q] = {},
         \A i \in 1 .. m : \A b \in Q[i] :
           /\ \A c \in C : c < b
           /\ \A c \in L : c < b
           /\ \A p \in Proc : \A c \in H[p] : c < b
           /\ \A j \in 1 .. i - 1 : \A c \in Q[j] : c < b,
         \A b : b \in 1 .. n <=> \/ b \in C \/ b \in L
                                 \/ \E p \in Proc : b \in H[p]
                                 \/ \E i \in 1 .. m : b \in Q[i]
  PROVE  Parted(C, L, H, Q, m, n)
  <1>1. C \cup L \cup (UNION {H[p] : p \in Proc}) \cup (UNION {Q[i] : i \in 1 .. m}) = 1 .. n
    BY Zenon
  <1> QED
    BY <1>1 DEF Parted

(* A read takes the part A of what was left over, and B stays.             *)
LEMMA LeftoverTaken ==
  ASSUME NEW C, NEW L, NEW H, NEW Q, NEW m, NEW n, Parted(C, L, H, Q, m, n),
         NEW A, NEW B, L = A \cup B, A \cap B = {}
  PROVE  Parted(C \cup A, B, H, Q, m, n)
  <1>1. \A b : b \in 1 .. n <=> \/ b \in C \cup A \/ b \in B
                                \/ \E p \in Proc : b \in H[p]
                                \/ \E i \in 1 .. m : b \in Q[i]
    BY PartedBytes
  <1>2. /\ (C \cup A) \cap B = {}
        /\ \A p \in Proc : H[p] \cap (C \cup A) = {} /\ H[p] \cap B = {}
        /\ \A p, q \in Proc : p # q => H[p] \cap H[q] = {}
    BY Zenon DEF Parted
  <1>3. \A i \in 1 .. m : \A b \in Q[i] :
          /\ \A c \in C \cup A : c < b
          /\ \A c \in B : c < b
          /\ \A p \in Proc : \A c \in H[p] : c < b
          /\ \A j \in 1 .. i - 1 : \A c \in Q[j] : c < b
    BY Zenon DEF Parted
  <1> QED
    BY <1>1, <1>2, <1>3, PartedBy

(* A read takes the part A of the line in the hands of p.                  *)
LEMMA HandedTaken ==
  ASSUME NEW C, NEW L, NEW H, NEW Q, NEW m, NEW n, Parted(C, L, H, Q, m, n),
         NEW A, NEW B, NEW p \in Proc, H[p] = A \cup B, A \cap B = {},
         NEW G, G[p] = {}, \A q \in Proc : q # p => G[q] = H[q]
  PROVE  Parted(C \cup A, L \cup B, G, Q, m, n)
  <1>1. \A b : b \in 1 .. n <=> \/ b \in C \cup A \/ b \in L \cup B
                                \/ \E q \in Proc : b \in G[q]
                                \/ \E i \in 1 .. m : b \in Q[i]
    <2> TAKE b
    <2>1. (\E q \in Proc : b \in H[q]) <=> b \in A \cup B \/ \E q \in Proc : b \in G[q]
      OBVIOUS
    <2> QED
      BY <2>1, PartedBytes
  <1>2. /\ C \cap L = {}
        /\ \A q \in Proc : H[q] \cap C = {} /\ H[q] \cap L = {}
        /\ \A q, r \in Proc : q # r => H[q] \cap H[r] = {}
    BY DEF Parted
  <1>3. (C \cup A) \cap (L \cup B) = {}
    BY <1>2
  <1>4. \A q \in Proc : G[q] \cap (C \cup A) = {} /\ G[q] \cap (L \cup B) = {}
    BY <1>2
  <1>5. \A q, r \in Proc : q # r => G[q] \cap G[r] = {}
    BY <1>2
  <1>6. \A i \in 1 .. m : \A b \in Q[i] :
          /\ \A c \in C : c < b
          /\ \A c \in L : c < b
          /\ \A q \in Proc : \A c \in H[q] : c < b
          /\ \A j \in 1 .. i - 1 : \A c \in Q[j] : c < b
    BY DEF Parted
  <1>7. \A i \in 1 .. m : \A b \in Q[i] :
          /\ \A c \in C \cup A : c < b
          /\ \A c \in L \cup B : c < b
          /\ \A q \in Proc : \A c \in G[q] : c < b
          /\ \A j \in 1 .. i - 1 : \A c \in Q[j] : c < b
    BY <1>6
  <1> QED
    BY <1>1, <1>3, <1>4, <1>5, <1>7, PartedBy

(* A read takes the part A of the first line queued.                       *)
LEMMA InputTaken ==
  ASSUME NEW C, NEW L, NEW H, NEW Q, NEW m \in Nat \ {0}, NEW n \in Nat,
         Parted(C, L, H, Q, m, n),
         NEW A, NEW B, Q[1] = A \cup B, A \cap B = {},
         NEW R, \A i \in 1 .. m - 1 : R[i] = Q[i + 1]
  PROVE  Parted(C \cup A, L \cup B, H, R, m - 1, n)
  <1>1. \A b : b \in 1 .. n <=> \/ b \in C \cup A \/ b \in L \cup B
                                \/ \E q \in Proc : b \in H[q]
                                \/ \E i \in 1 .. m - 1 : b \in R[i]
    <2> TAKE b
    <2>1. ASSUME NEW i \in 1 .. m, b \in Q[i]
          PROVE  b \in A \cup B \/ \E j \in 1 .. m - 1 : b \in R[j]
      <3>1. CASE i = 1
        BY <2>1, <3>1
      <3>2. CASE i # 1
        <4>1. i - 1 \in 1 .. m - 1 /\ (i - 1) + 1 = i
          BY <3>2
        <4> QED
          BY <2>1, <4>1
      <3> QED
        BY <3>1, <3>2
    <2>2. ASSUME NEW j \in 1 .. m - 1, b \in R[j]
          PROVE  \E i \in 1 .. m : b \in Q[i]
      <3>1. j + 1 \in 1 .. m
        OBVIOUS
      <3> QED
        BY <2>2, <3>1
    <2>3. 1 \in 1 .. m
      OBVIOUS
    <2>4. (\E i \in 1 .. m : b \in Q[i]) <=> b \in A \cup B \/ \E j \in 1 .. m - 1 : b \in R[j]
      BY <2>1, <2>2, <2>3, Zenon
    <2> QED
      BY <2>4, PartedBytes
  <1>2. /\ C \cap L = {}
        /\ \A q \in Proc : H[q] \cap C = {} /\ H[q] \cap L = {}
        /\ \A q, r \in Proc : q # r => H[q] \cap H[r] = {}
    BY DEF Parted
  <1>3. \A i \in 1 .. m : \A b \in Q[i] :
          /\ \A c \in C : c < b
          /\ \A c \in L : c < b
          /\ \A q \in Proc : \A c \in H[q] : c < b
          /\ \A j \in 1 .. i - 1 : \A c \in Q[j] : c < b
    BY DEF Parted
  <1>4. \A b \in A \cup B :
          /\ b \notin C /\ b \notin L /\ \A q \in Proc : b \notin H[q]
    <2> SUFFICES ASSUME NEW b \in A \cup B
                 PROVE  b \notin C /\ b \notin L /\ \A q \in Proc : b \notin H[q]
      OBVIOUS
    <2>1. b \in 1 .. n /\ 1 \in 1 .. m /\ b \in Q[1]
      BY PartedBytes
    <2>2. ~(b < b)
      BY <2>1
    <2> QED
      BY <1>3, <2>1, <2>2
  <1>5. \A i \in 1 .. m - 1 : \A b \in R[i] :
          /\ \A c \in C \cup A : c < b
          /\ \A c \in L \cup B : c < b
          /\ \A q \in Proc : \A c \in H[q] : c < b
          /\ \A j \in 1 .. i - 1 : \A c \in R[j] : c < b
    <2> TAKE i \in 1 .. m - 1
    <2> TAKE b \in R[i]
    <2>1. i + 1 \in 1 .. m /\ 1 \in 1 .. (i + 1) - 1 /\ b \in Q[i + 1]
      OBVIOUS
    <2>2. \A c \in Q[1] : c < b
      BY <1>3, <2>1
    <2>3. \A j \in 1 .. i - 1 : j + 1 \in 1 .. (i + 1) - 1 /\ R[j] = Q[j + 1]
      OBVIOUS
    <2>4. \A j \in 1 .. i - 1 : \A c \in R[j] : c < b
      BY <1>3, <2>1, <2>3
    <2>5. /\ \A c \in C : c < b
          /\ \A c \in L : c < b
          /\ \A q \in Proc : \A c \in H[q] : c < b
      BY <1>3, <2>1
    <2> QED
      BY <2>2, <2>4, <2>5
  <1>6. (C \cup A) \cap (L \cup B) = {}
    BY <1>2, <1>4
  <1>7. \A q \in Proc : H[q] \cap (C \cup A) = {} /\ H[q] \cap (L \cup B) = {}
    BY <1>2, <1>4
  <1> QED
    BY <1>1, <1>2, <1>5, <1>6, <1>7, PartedBy

(* A line arrives at the end of the queue.                                 *)
LEMMA LineQueued ==
  ASSUME NEW C, NEW L, NEW H, NEW Q, NEW m \in Nat, NEW n \in Nat,
         Parted(C, L, H, Q, m, n), NEW k \in Nat,
         NEW R, R[m + 1] = n + 1 .. n + k, \A i \in 1 .. m : R[i] = Q[i]
  PROVE  Parted(C, L, H, R, m + 1, n + k)
  <1>1. \A b \in R[m + 1] : \A c \in 1 .. n : c < b
    OBVIOUS
  <1>2. \A b : b \in 1 .. n + k <=> b \in 1 .. n \/ b \in R[m + 1]
    OBVIOUS
  <1>3. 1 .. m + 1 = (1 .. m) \cup {m + 1}
    OBVIOUS
  <1>4. \A b : b \in 1 .. n + k <=> \/ b \in C \/ b \in L
                                    \/ \E q \in Proc : b \in H[q]
                                    \/ \E i \in 1 .. m + 1 : b \in R[i]
    <2> TAKE b
    <2>1. (\E i \in 1 .. m + 1 : b \in R[i]) <=> b \in R[m + 1] \/ \E i \in 1 .. m : b \in Q[i]
      BY <1>3
    <2> QED
      BY <1>2, <2>1, PartedBytes
  <1>5. \A i \in 1 .. m : \A b \in Q[i] :
          /\ \A c \in C : c < b
          /\ \A c \in L : c < b
          /\ \A q \in Proc : \A c \in H[q] : c < b
          /\ \A j \in 1 .. i - 1 : \A c \in Q[j] : c < b
    BY DEF Parted
  <1>6. /\ \A c \in C \cup L : c \in 1 .. n
        /\ \A q \in Proc : \A c \in H[q] : c \in 1 .. n
        /\ \A i \in 1 .. m : \A c \in Q[i] : c \in 1 .. n
    BY PartedBytes
  <1>7. \A i \in 1 .. m + 1 : \A b \in R[i] :
          /\ \A c \in C : c < b
          /\ \A c \in L : c < b
          /\ \A q \in Proc : \A c \in H[q] : c < b
          /\ \A j \in 1 .. i - 1 : \A c \in R[j] : c < b
    <2> TAKE i \in 1 .. m + 1
    <2> TAKE b \in R[i]
    <2>1. \A j \in 1 .. i - 1 : j \in 1 .. m
      OBVIOUS
    <2>2. CASE i = m + 1
      BY <1>1, <1>6, <2>1, <2>2
    <2>3. CASE i # m + 1
      <3>1. i \in 1 .. m
        BY <2>3
      <3> QED
        BY <1>5, <2>1, <3>1
    <2> QED
      BY <2>2, <2>3
  <1>8. Parted(C, L, H, R, m + 1, n + k)
    <2>1. /\ C \cap L = {}
          /\ \A q \in Proc : H[q] \cap C = {} /\ H[q] \cap L = {}
          /\ \A q, r \in Proc : q # r => H[q] \cap H[r] = {}
      BY DEF Parted
    <2> QED
      BY <1>4, <1>7, <2>1, PartedBy
  <1> QED
    BY <1>8

(* A line arrives for r, who has none, while none is queued.               *)
LEMMA LineHanded ==
  ASSUME NEW C, NEW L, NEW H, NEW Q, NEW n \in Nat, Parted(C, L, H, Q, 0, n),
         NEW k \in Nat, NEW r \in Proc, H[r] = {},
         NEW G, G[r] = n + 1 .. n + k, \A q \in Proc : q # r => G[q] = H[q]
  PROVE  Parted(C, L, G, Q, 0, n + k)
  <1>1. \A b \in G[r] : b \notin 1 .. n
    OBVIOUS
  <1>2. \A b : b \in 1 .. n + k <=> b \in 1 .. n \/ b \in G[r]
    OBVIOUS
  <1>3. 1 .. 0 = {}
    OBVIOUS
  <1>4. \A b : b \in 1 .. n + k <=> \/ b \in C \/ b \in L
                                    \/ \E q \in Proc : b \in G[q]
                                    \/ \E i \in 1 .. 0 : b \in Q[i]
    <2> TAKE b
    <2>1. (\E q \in Proc : b \in G[q]) <=> b \in G[r] \/ \E q \in Proc : b \in H[q]
      OBVIOUS
    <2> QED
      BY <1>2, <2>1, PartedBytes
  <1>5. /\ \A c \in C \cup L : c \in 1 .. n
        /\ \A q \in Proc : \A c \in H[q] : c \in 1 .. n
    BY PartedBytes
  <1>6. /\ C \cap L = {}
        /\ \A q \in Proc : H[q] \cap C = {} /\ H[q] \cap L = {}
        /\ \A q, s \in Proc : q # s => H[q] \cap H[s] = {}
    BY DEF Parted
  <1>7. \A q \in Proc : G[q] \cap C = {} /\ G[q] \cap L = {}
    BY <1>1, <1>5, <1>6
  <1>8. \A q, s \in Proc : q # s => G[q] \cap G[s] = {}
    BY <1>1, <1>5, <1>6
  <1> QED
    BY <1>3, <1>4, <1>6, <1>7, <1>8, PartedBy

----------------------------------------------------------------------------
(* Lines cut in two.                                                       *)

LEMMA RunInjects ==
  ASSUME NEW l \in Line, Run(l)
  PROVE  IsInjective(l)
  <1>1. Len(l) \in Nat /\ DOMAIN l = 1 .. Len(l)
    BY LenProperties DEF Line
  <1>2. CASE Len(l) = 0
    BY <1>1, <1>2 DEF IsInjective
  <1>3. CASE Len(l) # 0
    <2>1. 1 \in 1 .. Len(l)
      BY <1>1, <1>3
    <2>2. l[1] \in Nat
      <3>1. l[1] \in 1 .. MaxInput
        BY <2>1, ElementOfSeq DEF Line
      <3> QED
        BY <3>1, TtyAssumption
    <2>3. \A i, j \in 1 .. Len(l) : l[1] + i - 1 = l[1] + j - 1 => i = j
      BY <1>1, <2>2
    <2> QED
      BY <1>1, <2>3 DEF IsInjective, Run
  <1> QED
    BY <1>2, <1>3

(* The first k bytes of l and the rest.                                    *)
Halves(l, k, a, b) ==
  k \in 0 .. Len(l) /\ a = SubSeq(l, 1, k) /\ b = SubSeq(l, k + 1, Len(l))

LEMMA RunSplits ==
  ASSUME NEW l \in Line, Run(l), NEW k, NEW a, NEW b, Halves(l, k, a, b)
  PROVE  /\ a \in Line /\ IsInjective(a)
         /\ b \in Line /\ Run(b)
         /\ Range(l) = Range(a) \cup Range(b)
         /\ Range(a) \cap Range(b) = {}
         /\ k = Len(l) => Range(b) = {}
  <1>1. /\ a \in Line /\ Len(a) = k
        /\ \A i \in 1 .. k : a[i] = l[i]
        /\ b \in Line /\ Len(b) = Len(l) - k
        /\ \A i \in 1 .. Len(l) - k : b[i] = l[k + i]
    BY SplitAt, ZenonT(60) DEF Line, Halves
  <1>2. /\ Len(l) \in Nat /\ k \in Nat /\ k <= Len(l)
        /\ DOMAIN l = 1 .. Len(l) /\ DOMAIN a = 1 .. k /\ DOMAIN b = 1 .. Len(l) - k
    BY <1>1, LenProperties DEF Line, Halves
  <1>3. \A i, j \in 1 .. Len(l) : l[i] = l[j] => i = j
    BY <1>2, RunInjects DEF IsInjective
  <1>4. IsInjective(a)
    <2>1. \A i \in 1 .. k : i \in 1 .. Len(l)
      BY <1>2
    <2> QED
      BY <1>1, <1>2, <1>3, <2>1 DEF IsInjective
  <1>5. Run(b)
    <2> SUFFICES ASSUME NEW i \in 1 .. Len(l) - k
                 PROVE  b[i] = b[1] + i - 1
      BY <1>1 DEF Run
    <2>1. /\ 1 \in 1 .. Len(l) - k /\ k + 1 \in 1 .. Len(l) /\ k + i \in 1 .. Len(l)
          /\ 1 \in 1 .. Len(l)
      BY <1>2
    <2>2. l[1] \in Nat
      <3>1. l[1] \in 1 .. MaxInput
        BY <2>1, ElementOfSeq DEF Line
      <3> QED
        BY <3>1, TtyAssumption
    <2>3. b[i] = l[1] + (k + i) - 1 /\ b[1] = l[1] + (k + 1) - 1
      BY <1>1, <2>1 DEF Run
    <2> QED
      BY <1>2, <2>2, <2>3
  <1>6. \A i \in 1 .. k : i \in 1 .. Len(l) /\ a[i] = l[i]
    <2>1. \A i \in 1 .. k : i \in 1 .. Len(l)
      BY <1>2
    <2> QED
      BY <1>1, <2>1, Zenon
  <1>7. \A i \in 1 .. Len(l) - k : k + i \in 1 .. Len(l) /\ b[i] = l[k + i]
    <2>1. \A i \in 1 .. Len(l) - k : k + i \in 1 .. Len(l)
      BY <1>2
    <2> QED
      BY <1>1, <2>1, Zenon
  <1>8. \A i \in 1 .. Len(l) : i \in 1 .. k \/ (i - k \in 1 .. Len(l) - k /\ k + (i - k) = i)
    BY <1>2
  <1>9. Range(l) = Range(a) \cup Range(b)
    <2>1. Range(a) \cup Range(b) \subseteq Range(l)
      BY <1>2, <1>6, <1>7 DEF Range
    <2>2. ASSUME NEW e \in Range(l)
          PROVE  e \in Range(a) \cup Range(b)
      <3>1. PICK i \in 1 .. Len(l) : e = l[i]
        BY <1>2 DEF Range
      <3>2. CASE i \in 1 .. k
        BY <1>2, <1>6, <3>1, <3>2 DEF Range
      <3>3. CASE i - k \in 1 .. Len(l) - k /\ k + (i - k) = i
        <4>1. b[i - k] = e
          BY <1>7, <3>1, <3>3
        <4> QED
          BY <1>2, <3>3, <4>1 DEF Range
      <3> QED
        BY <1>8, <3>2, <3>3
    <2> QED
      BY <2>1, <2>2
  <1>10. Range(a) \cap Range(b) = {}
    <2>1. \A i \in 1 .. k, j \in 1 .. Len(l) - k : i # k + j
      BY <1>2
    <2>2. \A i \in 1 .. k, j \in 1 .. Len(l) - k : a[i] # b[j]
      BY <1>3, <1>6, <1>7, <2>1
    <2> QED
      BY <1>2, <2>2 DEF Range
  <1>11. k = Len(l) => Range(b) = {}
    <2>1. k = Len(l) => 1 .. Len(l) - k = {}
      BY <1>2
    <2> QED
      BY <1>2, <2>1 DEF Range
  <1> QED
    BY <1>1, <1>4, <1>5, <1>9, <1>10, <1>11

(* The line TrapTtyReceive makes of the bytes typed.                       *)
LEMMA NewLineRuns ==
  ASSUME NEW r \in Nat, NEW n \in Nat, NEW new,
         new = [i \in 1 .. n |-> r + i], Len(new) = n
  PROVE  Run(new) /\ Range(new) = r + 1 .. r + n
  <1>1. \A i \in 1 .. n : new[i] = r + i /\ r + i = (r + 1) + i - 1
    OBVIOUS
  <1>2. DOMAIN new = 1 .. n /\ (1 .. n # {} => 1 \in 1 .. n)
    OBVIOUS
  <1>3. Run(new)
    BY <1>1, <1>2 DEF Run
  <1>4. \A i \in 1 .. n : r + i \in r + 1 .. r + n
    OBVIOUS
  <1>5. \A b \in r + 1 .. r + n : b - r \in 1 .. n /\ r + (b - r) = b
    OBVIOUS
  <1>6. Range(new) = r + 1 .. r + n
    <2>1. Range(new) \subseteq r + 1 .. r + n
      BY <1>1, <1>2, <1>4 DEF Range
    <2>2. ASSUME NEW b \in r + 1 .. r + n
          PROVE  b \in Range(new)
      <3>1. b - r \in 1 .. n /\ new[b - r] = b
        BY <1>1, <1>5
      <3> QED
        BY <1>2, <3>1 DEF Range
    <2> QED
      BY <2>1, <2>2
  <1> QED
    BY <1>3, <1>6

----------------------------------------------------------------------------
(* The read side: one terminal at a time.                                  *)

(* Nothing that BytesAt(u) speaks of changes.                              *)
Untouched(u) ==
  /\ consumed'[u] = consumed[u]
  /\ line'[u] = line[u]
  /\ input_queue'[u] = input_queue[u]
  /\ received'[u] = received[u]
  /\ \A p \in Proc : HandedLine(p, u)' = HandedLine(p, u)

LEMMA UntouchedKeeps ==
  ASSUME NEW u \in Term, BytesAt(u), Untouched(u)
  PROVE  BytesAt(u)'
  <1>1. LinesTidy(u)'
    BY DEF LinesTidy, BytesAt, Untouched
  <1>2. InHand(u)' = InHand(u)
    BY DEF InHand, Untouched
  <1>3. InputOf(u)' = InputOf(u)
    BY DEF InputOf, Untouched
  <1> QED
    BY <1>1, <1>2, <1>3 DEF BytesAt, Untouched

(* A step that leaves the terminals' input alone.                          *)
LEMMA ReadSame ==
  ASSUME ReadInv, UNCHANGED inVars, UNCHANGED call
  PROVE  ReadInv'
  <1>1. UNCHANGED <<read_queue, input_queue, line, tty_read_line, received, consumed>>
    BY DEF inVars
  <1>2. \A u \in Term : Untouched(u)
    BY <1>1 DEF Untouched, HandedLine
  <1>3. \A u \in Term : BytesAt(u)'
    BY <1>2, UntouchedKeeps DEF ReadInv
  <1>4. NoSleepingReader'
    BY <1>1 DEF ReadInv, NoSleepingReader
  <1> QED
    BY <1>3, <1>4 DEF ReadInv

(* The line TtyCopyLine finds, by where it finds it.                       *)
LEMMA LineForCases ==
  ASSUME NEW p, NEW t
  PROVE  /\ tty_read_line[p] # NULL =>
              LineFor(p, t) = tty_read_line[p] /\ ~TakesLeftover(p, t) /\ ~TakesInput(p, t)
         /\ TakesLeftover(p, t) => LineFor(p, t) = line[t] /\ ~TakesInput(p, t)
         /\ TakesInput(p, t) =>
              /\ LineFor(p, t) = IF input_queue[t] = <<>> THEN NULL ELSE Head(input_queue[t])
              /\ ~TakesLeftover(p, t)
         /\ tty_read_line[p] # NULL \/ TakesLeftover(p, t) \/ TakesInput(p, t)
  <1>1. CASE tty_read_line[p] # NULL
    <2>1. ~TakesLeftover(p, t) /\ ~TakesInput(p, t)
      BY <1>1 DEF TakesLeftover, TakesInput
    <2> QED
      BY <1>1, <2>1 DEF LineFor
  <1>2. CASE TakesLeftover(p, t)
    <2>1. tty_read_line[p] = NULL /\ ~TakesInput(p, t)
      BY <1>2 DEF TakesLeftover, TakesInput
    <2> QED
      BY <1>2, <2>1 DEF LineFor
  <1>3. CASE TakesInput(p, t)
    <2>1. tty_read_line[p] = NULL /\ ~TakesLeftover(p, t)
      BY <1>3 DEF TakesLeftover, TakesInput
    <2> QED
      BY <1>3, <2>1 DEF LineFor
  <1>4. tty_read_line[p] # NULL \/ TakesLeftover(p, t) \/ TakesInput(p, t)
    BY DEF TakesLeftover, TakesInput
  <1> QED
    BY <1>1, <1>2, <1>3, <1>4

(* The current process finds nothing to read and blocks.                   *)
LEMMA ReadBlockAccounts ==
  ASSUME TtyInv, ReadInv, NEW t \in Term, NEW len \in ReadLens,
         ReadBlock(current_process, t, len)
  PROVE  ReadInv'
  <1>1. PICK p : p = current_process
    OBVIOUS
  <1>2. ReadersLinked /\ ReadsTyped
    BY DEF TtyInv, InInv
  <1>3. p \in Proc
    BY <1>1, CurrentRuns DEF TtyInv
  <1>4. /\ LineFor(p, t) = NULL
        /\ read_queue' = [read_queue EXCEPT ![t] = Append(@, p)]
        /\ call' = [call EXCEPT ![p] = [tty |-> t, len |-> len]]
        /\ UNCHANGED <<input_queue, line, tty_read_line, received, consumed>>
    BY <1>1 DEF ReadBlock
  <1>5. tty_read_line[p] = NULL /\ TakesInput(p, t)
    BY <1>4, LineForCases DEF TakesLeftover
  <1>6. line[t] = NULL
    BY <1>5 DEF TakesInput
  <1>7. input_queue[t] = <<>>
    <2>1. input_queue[t] # <<>> => Head(input_queue[t]) = NULL
      BY <1>4, <1>5, LineForCases
    <2>2. input_queue[t] # <<>> => Head(input_queue[t]) \in Line
      <3>1. PICK q : q = input_queue[t]
        OBVIOUS
      <3>2. q \in Seq(Line)
        BY <1>2, <3>1 DEF ReadsTyped
      <3> QED
        BY <3>1, <3>2, HeadTailProperties
    <2> QED
      BY <2>1, <2>2, TtyAssumption DEF Line
  <1>8. \A u \in Term : Untouched(u)
    <2>1. \A r \in Proc : r # p => call'[r] = call[r]
      BY <1>2, <1>3, <1>4 DEF ReadsTyped
    <2> QED
      BY <1>4, <1>5, <2>1 DEF Untouched, HandedLine
  <1>9. \A u \in Term : BytesAt(u)'
    BY <1>8, UntouchedKeeps DEF ReadInv
  <1>10. NoSleepingReader'
    <2>1. \A u \in Term : u # t => read_queue'[u] = read_queue[u]
      BY <1>2, <1>4 DEF ReadersLinked, Linked
    <2> QED
      BY <1>4, <1>6, <1>7, <2>1 DEF ReadInv, NoSleepingReader
  <1> QED
    BY <1>9, <1>10 DEF ReadInv

(* The read of process p from terminal t finds line l, returns its first k *)
(* bytes a and leaves b.                                                   *)
Cut(p, t, l, k, a, b) ==
  /\ p \in Proc /\ p \in Readers
  /\ l \in Line /\ l # NULL /\ l = LineFor(p, t)
  /\ Halves(l, k, a, b)
  /\ Run(l)
  /\ WholeLines => k = Len(l) /\ line[t] = NULL
  /\ tty_read_line[p] # NULL => HandedLine(p, t) = l
  /\ consumed'[t] = consumed[t] \o a
  /\ line'[t] = IF k < Len(l) THEN b ELSE IF TakesLeftover(p, t) THEN NULL ELSE line[t]
  /\ input_queue'[t] = InputLeft(p, t)
  /\ received'[t] = received[t]
  /\ \A q \in Proc : HandedLine(q, t)' = IF q = p THEN NULL ELSE HandedLine(q, t)

LEMMA ReadTakeCuts ==
  ASSUME TtyInv, ReadInv, NEW t \in Term, NEW len \in ReadLens,
         current_process \in Readers,
         kernel_pc[current_process] = "user" \/ call[current_process].tty = t,
         ReadTake(current_process, t, len)
  PROVE  /\ \E l, k, a, b : Cut(current_process, t, l, k, a, b)
         /\ \A u \in Term : u # t => Untouched(u)
         /\ read_queue' = read_queue
  <1>1. PICK p : p = current_process
    OBVIOUS
  <1>2. ReadsTyped /\ Handed
    BY DEF TtyInv, InInv
  <1>3. PICK l : l = LineFor(p, t)
    OBVIOUS
  <1>4. PICK k : k = IF Len(l) > len THEN len ELSE Len(l)
    OBVIOUS
  <1>5. /\ l # NULL
        /\ consumed' = [consumed EXCEPT ![t] = consumed[t] \o SubSeq(l, 1, k)]
        /\ line' = [line EXCEPT ![t] = Rest(p, t, l, k)]
        /\ input_queue' = [input_queue EXCEPT ![t] = InputLeft(p, t)]
        /\ tty_read_line' = [tty_read_line EXCEPT ![p] = NULL]
        /\ call' = [call EXCEPT ![p] = NoCall]
        /\ UNCHANGED <<read_queue, received>>
    BY <1>1, <1>3, <1>4 DEF ReadTake
  <1>6. p \in Proc /\ p \in Readers
    BY <1>1, CurrentRuns DEF TtyInv
  <1>7. l \in Line /\ len \in Nat \ {0}
    BY <1>2, <1>3, <1>5, <1>6, LineForType, TtyAssumption
  <1>8. /\ k \in 0 .. Len(l)
        /\ Rest(p, t, l, k) = IF k < Len(l) THEN SubSeq(l, k + 1, Len(l))
                              ELSE IF TakesLeftover(p, t) THEN NULL ELSE line[t]
    <2>1. Len(l) \in Nat
      BY <1>7, LenProperties DEF Line
    <2>2. k \in 0 .. Len(l)
      BY <1>4, <1>7, <2>1
    <2>3. k < Len(l) \/ k = Len(l)
      BY <2>1, <2>2
    <2>4. ~(Len(l) < Len(l))
      BY <2>1
    <2> QED
      BY <2>2, <2>3, <2>4, Zenon DEF Rest
  <1>9. tty_read_line[p] # NULL => call[p].tty = t /\ HandedLine(p, t) = l
    <2>1. tty_read_line[p] # NULL => kernel_pc[p] = "tty_read"
      BY <1>2, <1>6 DEF Handed
    <2>2. tty_read_line[p] # NULL => call[p].tty = t
      BY <1>1, <2>1
    <2> QED
      BY <1>3, <2>2, LineForCases DEF HandedLine
  <1>10. Run(l) /\ (WholeLines => k = Len(l) /\ line[t] = NULL)
    <2>1. LinesTidy(t)
      BY DEF ReadInv, BytesAt
    <2>2. Uncut(l) => Run(l) /\ (WholeLines => k = Len(l))
      <3>1. Len(l) \in Nat
        BY <1>7, LenProperties DEF Line
      <3>2. Uncut(l) /\ WholeLines => Len(l) <= len
        BY DEF Uncut, WholeLines
      <3> QED
        BY <1>4, <1>7, <3>1, <3>2 DEF Uncut
    <2>3. WholeLines => line[t] = NULL
      BY <2>1 DEF LinesTidy
    <2>4. CASE tty_read_line[p] # NULL
      BY <1>5, <1>6, <1>9, <2>1, <2>2, <2>3, <2>4 DEF LinesTidy
    <2>5. CASE TakesLeftover(p, t)
      <3>1. l = line[t]
        BY <1>3, <2>5, LineForCases
      <3> QED
        BY <1>5, <2>1, <3>1 DEF LinesTidy
    <2>6. CASE TakesInput(p, t)
      <3>1. PICK q : q = input_queue[t]
        OBVIOUS
      <3>2. q \in Seq(Line) /\ q # <<>> /\ l = Head(q)
        BY <1>2, <1>3, <1>5, <2>6, <3>1, LineForCases DEF ReadsTyped
      <3>3. Len(q) \in Nat \ {0} /\ l = q[1]
        BY <3>2, HeadTailProperties, LenProperties, EmptySeq
      <3>4. 1 \in 1 .. Len(q)
        BY <3>3
      <3>5. Uncut(l)
        BY <2>1, <3>1, <3>3, <3>4 DEF LinesTidy
      <3> QED
        BY <2>2, <2>3, <3>5
    <2> QED
      BY <2>4, <2>5, <2>6, LineForCases
  <1>11. \A q \in Proc : /\ q = p => tty_read_line'[q] = NULL
                         /\ q # p => /\ tty_read_line'[q] = tty_read_line[q]
                                     /\ call'[q] = call[q]
    BY <1>2, <1>5, <1>6 DEF ReadsTyped
  <1>12. \A q \in Proc : HandedLine(q, t)' = IF q = p THEN NULL ELSE HandedLine(q, t)
    BY <1>11 DEF HandedLine
  <1>13. /\ consumed'[t] = consumed[t] \o SubSeq(l, 1, k)
         /\ line'[t] = Rest(p, t, l, k)
         /\ input_queue'[t] = InputLeft(p, t)
         /\ \A u \in Term : u # t => /\ consumed'[u] = consumed[u]
                                     /\ line'[u] = line[u]
                                     /\ input_queue'[u] = input_queue[u]
    BY <1>2, <1>5 DEF ReadsTyped
  <1>14. \A u \in Term : u # t => Untouched(u)
    <2>1. ASSUME NEW u \in Term, u # t, NEW q \in Proc
          PROVE  HandedLine(q, u)' = HandedLine(q, u)
      <3>1. CASE q = p
        <4>1. HandedLine(q, u) = NULL
          BY <1>9, <2>1, <3>1 DEF HandedLine
        <4>2. HandedLine(q, u)' = NULL
          BY <1>11, <3>1 DEF HandedLine
        <4> QED
          BY <4>1, <4>2
      <3>2. CASE q # p
        BY <1>11, <3>2 DEF HandedLine
      <3> QED
        BY <3>1, <3>2
    <2> QED
      BY <1>5, <1>13, <2>1 DEF Untouched
  <1>15. PICK a, b : a = SubSeq(l, 1, k) /\ b = SubSeq(l, k + 1, Len(l))
    OBVIOUS
  <1>16. Cut(p, t, l, k, a, b)
    BY <1>3, <1>5, <1>6, <1>7, <1>8, <1>9, <1>10, <1>12, <1>13, <1>15 DEF Cut, Halves
  <1> QED
    BY <1>1, <1>5, <1>14, <1>16

(* Where the bytes of the line go.                                         *)
Split(p, t, l, a, b) ==
  /\ a \in Line /\ IsInjective(a) /\ b \in Line /\ Run(b)
  /\ Range(l) = Range(a) \cup Range(b)
  /\ Range(a) \cap Range(b) = {}
  /\ Range(BytesOf(line'[t])) = IF TakesLeftover(p, t) THEN Range(b)
                                ELSE Range(BytesOf(line[t])) \cup Range(b)
  /\ InHand(t)'[p] = {}
  /\ \A q \in Proc : q # p => InHand(t)'[q] = InHand(t)[q]

LEMMA CutSplits ==
  ASSUME ReadsTyped, NEW t \in Term, NEW p, NEW l, NEW k, NEW a, NEW b,
         BytesAt(t), Cut(p, t, l, k, a, b)
  PROVE  Split(p, t, l, a, b)
  <1>1. l \in Line /\ Run(l) /\ Halves(l, k, a, b)
    BY DEF Cut
  <1>2. /\ a \in Line /\ IsInjective(a) /\ b \in Line /\ Run(b)
        /\ Range(l) = Range(a) \cup Range(b)
        /\ Range(a) \cap Range(b) = {}
        /\ k = Len(l) => Range(b) = {}
    BY <1>1, RunSplits
  <1>3. Range(BytesOf(NULL)) = {}
    BY EmptySeq DEF BytesOf, Range
  <1>4. b # NULL
    BY <1>2, TtyAssumption DEF Line
  <1>5. line'[t] = IF k < Len(l) THEN b ELSE IF TakesLeftover(p, t) THEN NULL ELSE line[t]
    BY DEF Cut
  <1>6. Range(BytesOf(line'[t])) = IF TakesLeftover(p, t) THEN Range(b)
                                   ELSE Range(BytesOf(line[t])) \cup Range(b)
    <2>1. CASE k < Len(l)
      <3>1. BytesOf(line'[t]) = b
        BY <1>4, <1>5, <2>1 DEF BytesOf
      <3>2. ~TakesLeftover(p, t) => line[t] = NULL
        <4>1. CASE tty_read_line[p] # NULL
          <5>1. p \in Proc /\ HandedLine(p, t) # NULL
            BY <4>1 DEF Cut
          <5> QED
            BY <5>1 DEF BytesAt, LinesTidy
        <4>2. CASE tty_read_line[p] = NULL
          BY <4>2 DEF TakesLeftover
        <4> QED
          BY <4>1, <4>2
      <3> QED
        BY <1>3, <3>1, <3>2
    <2>2. CASE ~(k < Len(l))
      <3>1. Len(l) \in Nat
        BY <1>1, LenProperties DEF Line
      <3>2. k = Len(l)
        BY <1>1, <2>2, <3>1 DEF Halves
      <3>3. line'[t] = IF TakesLeftover(p, t) THEN NULL ELSE line[t]
        BY <1>5, <2>2
      <3> QED
        BY <1>2, <1>3, <3>2, <3>3
    <2> QED
      BY <2>1, <2>2
  <1>7. InHand(t)'[p] = {} /\ \A q \in Proc : q # p => InHand(t)'[q] = InHand(t)[q]
    <2>1. /\ p \in Proc
          /\ \A q \in Proc : HandedLine(q, t)' = IF q = p THEN NULL ELSE HandedLine(q, t)
      BY DEF Cut
    <2>2. \A q \in Proc : InHand(t)'[q] = Range(BytesOf(HandedLine(q, t)'))
      BY DEF InHand, BytesOf, Range
    <2>3. \A q \in Proc : InHand(t)[q] = Range(BytesOf(HandedLine(q, t)))
      BY DEF InHand
    <2> QED
      BY <1>3, <2>1, <2>2, <2>3
  <1> QED
    BY <1>2, <1>6, <1>7 DEF Split

(* What is queued is in no other place.                                    *)
LEMMA QueuedApart ==
  ASSUME NEW C, NEW L, NEW H, NEW Q, NEW m, NEW n \in Nat, Parted(C, L, H, Q, m, n),
         NEW i \in 1 .. m
  PROVE  C \cap Q[i] = {}
  <1> SUFFICES ASSUME NEW b \in C, b \in Q[i] PROVE FALSE
    OBVIOUS
  <1>1. b \in 1 .. n
    BY PartedBytes
  <1>2. b < b
    BY DEF Parted
  <1> QED
    BY <1>1, <1>2

LEMMA CutParted ==
  ASSUME ReadsTyped, NEW t \in Term, NEW p, NEW l, NEW k, NEW a, NEW b,
         BytesAt(t), Cut(p, t, l, k, a, b)
  PROVE  /\ IsInjective(consumed'[t])
         /\ Parted(Range(consumed[t]), Range(BytesOf(line[t])), InHand(t), InputOf(t),
                   Len(input_queue[t]), received[t])'
         /\ \A i \in 1 .. Len(input_queue'[t]) : Uncut(input_queue'[t][i])
  <1> DEFINE C == Range(consumed[t])
             L == Range(BytesOf(line[t]))
             H == InHand(t)
             Q == InputOf(t)
             q == input_queue[t]
             n == received[t]
             A == Range(a)
             B == Range(b)
  <1>1. /\ a \in Line /\ IsInjective(a)
        /\ Range(l) = A \cup B /\ A \cap B = {}
        /\ Range(BytesOf(line'[t])) = IF TakesLeftover(p, t) THEN B ELSE L \cup B
        /\ InHand(t)'[p] = {} /\ \A r \in Proc : r # p => InHand(t)'[r] = H[r]
    <2>1. Split(p, t, l, a, b)
      BY CutSplits
    <2> QED
      BY <2>1 DEF Split
  <1>2. /\ IsInjective(consumed[t]) /\ Parted(C, L, H, Q, Len(q), n)
        /\ \A i \in 1 .. Len(q) : Uncut(q[i])
    BY DEF BytesAt, LinesTidy
  <1>3. q \in Seq(Line) /\ n \in Nat /\ consumed[t] \in Line /\ Len(q) \in Nat
    <2>1. q \in Seq(Line) /\ received[t] \in 0 .. MaxInput /\ consumed[t] \in Line
      BY DEF ReadsTyped
    <2> QED
      BY <2>1, LenProperties, TtyAssumption
  <1>4. /\ p \in Proc /\ l # NULL /\ l = LineFor(p, t)
        /\ tty_read_line[p] # NULL => HandedLine(p, t) = l
        /\ consumed'[t] = consumed[t] \o a
        /\ input_queue'[t] = InputLeft(p, t) /\ received'[t] = n
    BY DEF Cut
  <1>5. Range(BytesOf(NULL)) = {}
    BY EmptySeq DEF BytesOf, Range
  <1>6. H = [r \in Proc |-> Range(BytesOf(HandedLine(r, t)))]
    BY DEF InHand
  <1>7. tty_read_line[p] = NULL => InHand(t)' = H
    <2>1. tty_read_line[p] = NULL => H[p] = {}
      BY <1>4, <1>5, <1>6 DEF HandedLine
    <2>2. InHand(t)' = [r \in Proc |-> InHand(t)'[r]]
      BY DEF InHand
    <2>3. tty_read_line[p] = NULL => \A r \in Proc : InHand(t)'[r] = H[r]
      BY <1>1, <2>1
    <2> QED
      BY <1>6, <2>2, <2>3, Zenon
  <1>8. Q = [i \in 1 .. Len(q) |-> Range(q[i])]
    BY DEF InputOf
  <1>9. InputOf(t)' = [i \in 1 .. Len(input_queue'[t]) |-> Range(input_queue'[t][i])]
    BY DEF InputOf
  <1>10. ~TakesInput(p, t) => input_queue'[t] = q /\ InputOf(t)' = Q
    BY <1>4, <1>8, <1>9 DEF InputLeft
  <1>11. /\ C \cap A = {}
         /\ Parted(C \cup A, Range(BytesOf(line'[t])), InHand(t)', InputOf(t)',
                   Len(input_queue'[t]), n)
         /\ \A i \in 1 .. Len(input_queue'[t]) : Uncut(input_queue'[t][i])
    <2>1. CASE tty_read_line[p] # NULL
      <3>1. H[p] = A \cup B
        BY <1>1, <1>4, <1>6, <2>1 DEF BytesOf
      <3>2. ~TakesLeftover(p, t) /\ ~TakesInput(p, t)
        BY <2>1, LineForCases
      <3>3. C \cap A = {}
        BY <1>2, <1>4, <3>1 DEF Parted
      <3>4. PICK G : G = InHand(t)'
        OBVIOUS
      <3>5. G[p] = {} /\ \A r \in Proc : r # p => G[r] = H[r]
        BY <1>1, <3>4
      <3> HIDE DEF C, L, H, Q, q, n, A, B
      <3>6. Parted(C \cup A, L \cup B, G, Q, Len(q), n)
        BY <1>1, <1>2, <1>4, <3>1, <3>5, HandedTaken, ZenonT(60)
      <3> QED
        BY <1>1, <1>2, <1>10, <3>2, <3>3, <3>4, <3>6
    <2>2. CASE TakesLeftover(p, t)
      <3>1. tty_read_line[p] = NULL /\ ~TakesInput(p, t) /\ l = line[t]
        BY <1>4, <2>2, LineForCases DEF TakesLeftover
      <3>2. L = A \cup B
        BY <1>1, <1>4, <3>1 DEF BytesOf
      <3>3. C \cap A = {}
        BY <1>2, <3>2 DEF Parted
      <3> HIDE DEF C, L, H, Q, q, n, A, B
      <3>4. Parted(C \cup A, B, H, Q, Len(q), n)
        BY <1>1, <1>2, <3>2, LeftoverTaken
      <3> QED
        BY <1>1, <1>2, <1>7, <1>10, <2>2, <3>1, <3>3, <3>4
    <2>3. CASE TakesInput(p, t)
      <3>1. tty_read_line[p] = NULL /\ ~TakesLeftover(p, t) /\ q # <<>> /\ l = Head(q)
        BY <1>4, <2>3, LineForCases DEF TakesInput
      <3>2. /\ Len(q) \in Nat \ {0} /\ l = q[1] /\ Tail(q) \in Seq(Line)
            /\ Len(Tail(q)) = Len(q) - 1
            /\ \A i \in 1 .. Len(q) - 1 : Tail(q)[i] = q[i + 1]
        <4> HIDE DEF q
        <4>1. Len(q) \in Nat \ {0} /\ l = q[1]
          BY <1>3, <3>1, HeadTailProperties, LenProperties, EmptySeq
        <4>2. /\ Tail(q) \in Seq(Line) /\ Len(Tail(q)) = Len(q) - 1
              /\ \A i \in 1 .. Len(Tail(q)) : Tail(q)[i] = q[i + 1]
          BY <1>3, <3>1, HeadTailProperties
        <4> QED
          BY <4>1, <4>2
      <3>3. input_queue'[t] = Tail(q)
        BY <1>4, <2>3 DEF InputLeft
      <3>4. 1 \in 1 .. Len(q) /\ \A i \in 1 .. Len(q) - 1 : i + 1 \in 1 .. Len(q)
        <4> HIDE DEF q
        <4> QED
          BY <3>2
      <3>5. PICK R : R = InputOf(t)'
        OBVIOUS
      <3>6. \A i \in 1 .. Len(q) - 1 : R[i] = Q[i + 1]
        <4>1. \A i \in 1 .. Len(q) - 1 : R[i] = Range(Tail(q)[i])
          BY <1>9, <3>2, <3>3, <3>5
        <4> QED
          BY <1>8, <3>2, <3>4, <4>1
      <3>7. Q[1] = A \cup B
        BY <1>1, <1>8, <3>2, <3>4
      <3>8. \A i \in 1 .. Len(input_queue'[t]) : Uncut(input_queue'[t][i])
        BY <1>2, <3>2, <3>3, <3>4
      <3> HIDE DEF C, L, H, Q, q, n, A, B
      <3>9. C \cap Q[1] = {}
        BY <1>2, <1>3, <3>4, QueuedApart
      <3>10. Parted(C \cup A, L \cup B, H, R, Len(q) - 1, n)
        BY <1>1, <1>2, <1>3, <3>2, <3>6, <3>7, InputTaken, ZenonT(60)
      <3> QED
        BY <1>1, <1>7, <3>1, <3>2, <3>3, <3>5, <3>7, <3>8, <3>9, <3>10
    <2> QED
      BY <2>1, <2>2, <2>3, LineForCases
  <1>12. IsInjective(consumed'[t]) /\ Range(consumed'[t]) = C \cup A
    BY <1>1, <1>2, <1>3, <1>4, <1>11, ConcatInjects DEF Line
  <1> QED
    BY <1>4, <1>11, <1>12

(* Another line in a reader's hands, or a reader asleep, while p takes a   *)
(* line: there are two readers, so reads take whole lines and leave none.  *)
LEMMA CutTidy ==
  ASSUME OneReader \/ WholeLines, TtyInv, ReadInv, NEW t \in Term,
         NEW p, NEW l, NEW k, NEW a, NEW b, Cut(p, t, l, k, a, b)
  PROVE  /\ line'[t] # NULL => Run(line'[t]) /\ ~WholeLines
         /\ \A q \in Proc : HandedLine(q, t)' # NULL =>
              Uncut(HandedLine(q, t)') /\ line'[t] = NULL
  <1>1. ReadsTyped /\ Handed /\ BytesAt(t) /\ LinesTidy(t)
    BY DEF TtyInv, InInv, ReadInv, BytesAt
  <1>2. /\ p \in Proc /\ p \in Readers /\ l \in Line /\ Halves(l, k, a, b)
        /\ WholeLines => k = Len(l) /\ line[t] = NULL
        /\ line'[t] = IF k < Len(l) THEN b ELSE IF TakesLeftover(p, t) THEN NULL ELSE line[t]
        /\ \A q \in Proc : HandedLine(q, t)' = IF q = p THEN NULL ELSE HandedLine(q, t)
    BY DEF Cut
  <1>3. Run(b)
    <2>1. Split(p, t, l, a, b)
      BY <1>1, CutSplits
    <2> QED
      BY <2>1 DEF Split
  <1>4. WholeLines => line'[t] = NULL
    <2>1. Len(l) \in Nat
      BY <1>2, LenProperties DEF Line
    <2>2. ~(Len(l) < Len(l))
      BY <2>1
    <2> QED
      BY <1>2, <2>2
  <1>5. line'[t] # NULL => Run(line'[t])
    BY <1>1, <1>2, <1>3 DEF LinesTidy
  <1>6. ASSUME NEW q \in Proc, HandedLine(q, t)' # NULL
        PROVE  Uncut(HandedLine(q, t)') /\ line'[t] = NULL
    <2>1. q # p /\ HandedLine(q, t)' = HandedLine(q, t)
      BY <1>2, <1>6
    <2>2. Uncut(HandedLine(q, t)')
      BY <1>1, <1>6, <2>1 DEF LinesTidy
    <2>3. q \in Readers
      BY <1>1, <1>6, <2>1 DEF HandedLine, Handed
    <2> QED
      BY <1>2, <1>4, <2>1, <2>2, <2>3 DEF OneReader
  <1> QED
    BY <1>4, <1>5, <1>6

LEMMA CutAwake ==
  ASSUME OneReader \/ WholeLines, TtyInv, ReadInv, NEW t \in Term,
         NEW p, NEW l, NEW k, NEW a, NEW b, Cut(p, t, l, k, a, b),
         state[p] # "BLOCKED", read_queue[t] # <<>>
  PROVE  line'[t] = NULL /\ input_queue'[t] = <<>>
  <1>1. ReadersLinked /\ ReadsTyped /\ Handed
    BY DEF TtyInv, InInv
  <1>2. /\ p \in Proc /\ p \in Readers /\ l \in Line /\ l # NULL /\ l = LineFor(p, t)
        /\ WholeLines => k = Len(l) /\ line[t] = NULL
        /\ line'[t] = IF k < Len(l) THEN b ELSE IF TakesLeftover(p, t) THEN NULL ELSE line[t]
        /\ input_queue'[t] = InputLeft(p, t)
    BY DEF Cut
  <1>3. line[t] = NULL /\ input_queue[t] = <<>>
    BY DEF ReadInv, NoSleepingReader
  <1>4. ~TakesInput(p, t)
    BY <1>2, <1>3, LineForCases
  <1>5. input_queue'[t] = <<>>
    BY <1>2, <1>3, <1>4 DEF InputLeft
  <1>6. \E q \in Readers : q # p
    <2>1. read_queue[t] \in Seq(Proc)
      BY <1>1, LinkedGives
    <2>2. PICK q : q \in Range(read_queue[t])
      BY <2>1, EmptyRange
    <2>3. q \in Proc /\ state[q] = "BLOCKED" /\ kernel_pc[q] = "tty_read"
      BY <1>1, <2>2, LinkedGives
    <2> QED
      BY <1>1, <2>3 DEF Handed
  <1>7. WholeLines
    BY <1>2, <1>6 DEF OneReader
  <1>8. ~(k < Len(l))
    <2>1. Len(l) \in Nat
      BY <1>2, LenProperties DEF Line
    <2> QED
      BY <1>2, <1>7, <2>1
  <1> QED
    BY <1>2, <1>3, <1>5, <1>8

LEMMA ReadTakeAccounts ==
  ASSUME OneReader \/ WholeLines, TtyInv, ReadInv, NEW t \in Term, NEW len \in ReadLens,
         current_process \in Readers,
         kernel_pc[current_process] = "user" \/ call[current_process].tty = t,
         ReadTake(current_process, t, len)
  PROVE  ReadInv'
  <1>1. /\ \A u \in Term : u # t => Untouched(u)
        /\ read_queue' = read_queue
    BY ReadTakeCuts
  <1>2. PICK l, k, a, b : Cut(current_process, t, l, k, a, b)
    BY ReadTakeCuts
  <1>3. ReadsTyped /\ \A u \in Term : BytesAt(u)
    BY DEF TtyInv, InInv, ReadInv
  <1>4. /\ IsInjective(consumed'[t])
        /\ Parted(Range(consumed[t]), Range(BytesOf(line[t])), InHand(t), InputOf(t),
                  Len(input_queue[t]), received[t])'
        /\ \A i \in 1 .. Len(input_queue'[t]) : Uncut(input_queue'[t][i])
    BY <1>2, <1>3, CutParted
  <1>5. /\ line'[t] # NULL => Run(line'[t]) /\ ~WholeLines
        /\ \A q \in Proc : HandedLine(q, t)' # NULL =>
             Uncut(HandedLine(q, t)') /\ line'[t] = NULL
    BY <1>2, CutTidy
  <1>6. LinesTidy(t)'
    BY <1>4, <1>5 DEF LinesTidy, WholeLines, Run, Uncut
  <1>7. BytesAt(t)'
    BY <1>4, <1>6 DEF BytesAt
  <1>8. \A u \in Term : u # t => BytesAt(u)'
    BY <1>1, <1>3, UntouchedKeeps
  <1>9. state[current_process] # "BLOCKED"
    BY CurrentRuns DEF TtyInv
  <1>10. NoSleepingReader'
    <2>1. read_queue[t] # <<>> => line'[t] = NULL /\ input_queue'[t] = <<>>
      BY <1>2, <1>9, CutAwake
    <2>2. \A u \in Term : u # t => line'[u] = line[u] /\ input_queue'[u] = input_queue[u]
      BY <1>1 DEF Untouched
    <2> QED
      BY <1>1, <2>1, <2>2 DEF ReadInv, NoSleepingReader
  <1> QED
    BY <1>7, <1>8, <1>10 DEF ReadInv

(* TrapTtyReceive: the new line is handed over or queued.                  *)
LEMMA ReceiveAccounts ==
  ASSUME TtyInv, ReadInv, NEW t \in Term, NEW n \in LineLens, TrapTtyReceive(t, n)
  PROVE  ReadInv'
  <1>1. ReadersLinked /\ ReadsTyped /\ Handed /\ NoSleepingReader
        /\ \A u \in Term : BytesAt(u)
    BY DEF TtyInv, InInv, ReadInv
  <1>2. PICK new : new = [i \in 1 .. n |-> received[t] + i]
    OBVIOUS
  <1>3. PICK q : q = input_queue[t]
    OBVIOUS
  <1>4. PICK reader : reader = Head(read_queue[t])
    OBVIOUS
  <1>5. /\ received[t] + n <= MaxInput
        /\ received' = [received EXCEPT ![t] = received[t] + n]
        /\ UNCHANGED <<line, consumed, call>>
    BY DEF TrapTtyReceive
  <1>6. /\ received[t] \in Nat /\ n \in Nat
        /\ q \in Seq(Line) /\ Len(q) \in Nat
    <2>1. q \in Seq(Line) /\ received[t] \in 0 .. MaxInput
      BY <1>1, <1>3 DEF ReadsTyped
    <2> QED
      BY <2>1, LenProperties, TtyAssumption
  <1>7. new \in Line /\ new # NULL /\ Len(new) = n
    BY <1>1, <1>2, <1>5, NewLineType
  <1>8. Run(new) /\ Range(new) = received[t] + 1 .. received[t] + n
    BY <1>2, <1>6, <1>7, NewLineRuns
  <1>9. Uncut(new)
    BY <1>7, <1>8 DEF Uncut
  <1>10. /\ received'[t] = received[t] + n
         /\ \A u \in Term : u # t => received'[u] = received[u]
    BY <1>1, <1>5 DEF ReadsTyped
  <1>11. /\ IsInjective(consumed[t]) /\ LinesTidy(t)
         /\ Parted(Range(consumed[t]), Range(BytesOf(line[t])), InHand(t), InputOf(t),
                   Len(q), received[t])
    BY <1>1, <1>3 DEF BytesAt
  <1>12. CASE ReaderWaits(t)
    <2>1. /\ read_queue' = [read_queue EXCEPT ![t] = Tail(read_queue[t])]
          /\ tty_read_line' = [tty_read_line EXCEPT ![reader] = new]
          /\ input_queue' = input_queue
      BY <1>2, <1>4, <1>12 DEF TrapTtyReceive
    <2>2. read_queue[t] # <<>> /\ read_queue[t] \in Seq(Proc)
      BY <1>1, <1>12, LinkedGives DEF ReaderWaits
    <2>3. line[t] = NULL /\ q = <<>>
      BY <1>1, <1>3, <2>2 DEF NoSleepingReader
    <2>4. reader \in Proc /\ state[reader] = "BLOCKED" /\ call[reader].tty = t
      <3>1. PICK rq : rq = read_queue[t]
        OBVIOUS
      <3>2. rq \in Seq(Proc) /\ rq # <<>> /\ IsInjective(rq) /\ reader = Head(rq)
        BY <1>1, <1>4, <2>2, <3>1, LinkedGives
      <3>3. reader \in Range(rq)
        BY <3>2, TailInjects
      <3> QED
        BY <1>1, <3>1, <3>3, LinkedGives
    <2>5. tty_read_line[reader] = NULL
      BY <1>1, <2>4 DEF Handed
    <2>6. /\ tty_read_line'[reader] = new
          /\ \A r \in Proc : r # reader => tty_read_line'[r] = tty_read_line[r]
      BY <1>1, <2>1, <2>4 DEF ReadsTyped
    <2>7. /\ HandedLine(reader, t)' = new /\ HandedLine(reader, t) = NULL
          /\ \A r \in Proc : r # reader => HandedLine(r, t)' = HandedLine(r, t)
      BY <1>5, <1>7, <2>4, <2>5, <2>6 DEF HandedLine
    <2>8. PICK H, G : H = InHand(t) /\ G = InHand(t)'
      OBVIOUS
    <2>9. /\ H[reader] = {} /\ G[reader] = received[t] + 1 .. received[t] + n
          /\ \A r \in Proc : r # reader => G[r] = H[r]
      <3>1. \A r \in Proc : H[r] = Range(BytesOf(HandedLine(r, t)))
        BY <2>8 DEF InHand
      <3>2. \A r \in Proc : G[r] = Range(BytesOf(HandedLine(r, t)'))
        BY <2>8 DEF InHand, BytesOf, Range
      <3>3. BytesOf(new) = new /\ Range(BytesOf(NULL)) = {}
        BY <1>7, EmptySeq DEF BytesOf, Range
      <3> QED
        BY <1>8, <2>4, <2>7, <3>1, <3>2, <3>3
    <2>10. Len(q) = 0
      BY <2>3, EmptySeq
    <2>11. PICK C, L, Q, m : /\ C = Range(consumed[t]) /\ L = Range(BytesOf(line[t]))
                             /\ Q = InputOf(t) /\ m = received[t]
      OBVIOUS
    <2>12. Parted(C, L, G, Q, 0, m + n)
      <3>1. Parted(C, L, H, Q, 0, m) /\ m \in Nat /\ n \in Nat
        BY <1>6, <1>11, <2>8, <2>10, <2>11
      <3>2. H[reader] = {} /\ G[reader] = m + 1 .. m + n
        BY <2>9, <2>11
      <3> QED
        BY <2>4, <2>9, <3>1, <3>2, LineHanded
    <2>13. LinesTidy(t)'
      BY <1>5, <1>9, <1>11, <2>1, <2>3, <2>7 DEF LinesTidy
    <2>14. InputOf(t)' = InputOf(t)
      BY <2>1 DEF InputOf
    <2>15. BytesAt(t)'
      BY <1>3, <1>5, <1>10, <1>11, <2>1, <2>8, <2>10, <2>11, <2>12, <2>13, <2>14
        DEF BytesAt
    <2>16. \A u \in Term : u # t => Untouched(u)
      BY <1>5, <1>10, <2>1, <2>4, <2>5, <2>6 DEF Untouched, HandedLine
    <2>17. \A u \in Term : u # t => read_queue'[u] = read_queue[u]
      BY <1>1, <2>1 DEF ReadersLinked, Linked
    <2>18. NoSleepingReader'
      BY <1>1, <1>3, <1>5, <2>1, <2>3, <2>17 DEF NoSleepingReader
    <2> QED
      BY <1>1, <2>15, <2>16, <2>18, UntouchedKeeps DEF ReadInv
  <1>13. CASE ~ReaderWaits(t)
    <2>1. /\ input_queue' = [input_queue EXCEPT ![t] = Append(q, new)]
          /\ UNCHANGED <<read_queue, tty_read_line>>
      BY <1>2, <1>3, <1>13 DEF TrapTtyReceive, InputWith
    <2>2. read_queue[t] = <<>>
      BY <1>13 DEF ReaderWaits
    <2>3. PICK s : s = Append(q, new)
      OBVIOUS
    <2>4. /\ Len(s) = Len(q) + 1 /\ s[Len(q) + 1] = new
          /\ \A i \in 1 .. Len(q) : s[i] = q[i]
      BY <1>6, <1>7, <2>3, AppendProperties
    <2>5. /\ input_queue'[t] = s
          /\ \A u \in Term : u # t => input_queue'[u] = input_queue[u]
      BY <1>1, <2>1, <2>3 DEF ReadsTyped
    <2>6. 1 .. Len(q) + 1 = (1 .. Len(q)) \cup {Len(q) + 1}
      BY <1>6
    <2>7. PICK C, L, H, Q, m : /\ C = Range(consumed[t]) /\ L = Range(BytesOf(line[t]))
                               /\ H = InHand(t) /\ Q = InputOf(t) /\ m = received[t]
      OBVIOUS
    <2>8. PICK R : R = InputOf(t)'
      OBVIOUS
    <2>9. R[Len(q) + 1] = m + 1 .. m + n /\ \A i \in 1 .. Len(q) : R[i] = Q[i]
      <3>1. R = [i \in 1 .. Len(q) + 1 |-> Range(s[i])]
        BY <2>4, <2>5, <2>8 DEF InputOf
      <3>2. Q = [i \in 1 .. Len(q) |-> Range(q[i])]
        BY <1>3, <2>7 DEF InputOf
      <3> QED
        BY <1>8, <2>4, <2>6, <2>7, <3>1, <3>2
    <2>10. Parted(C, L, H, R, Len(q) + 1, m + n)
      <3>1. Parted(C, L, H, Q, Len(q), m) /\ m \in Nat /\ n \in Nat /\ Len(q) \in Nat
        BY <1>6, <1>11, <2>7
      <3> QED
        BY <2>9, <3>1, LineQueued
    <2>11. \A r \in Proc, u \in Term : HandedLine(r, u)' = HandedLine(r, u)
      BY <1>5, <2>1 DEF HandedLine
    <2>12. InHand(t)' = InHand(t)
      BY <2>11 DEF InHand
    <2>13. LinesTidy(t)'
      <3>1. \A i \in 1 .. Len(q) + 1 : Uncut(s[i])
        BY <1>3, <1>9, <1>11, <2>4, <2>6 DEF LinesTidy
      <3> QED
        BY <1>5, <1>11, <2>4, <2>5, <2>11, <3>1 DEF LinesTidy
    <2>14. BytesAt(t)'
      BY <1>5, <1>10, <1>11, <2>4, <2>5, <2>7, <2>8, <2>10, <2>12, <2>13 DEF BytesAt
    <2>15. \A u \in Term : u # t => Untouched(u)
      BY <1>5, <1>10, <2>5, <2>11 DEF Untouched
    <2>16. NoSleepingReader'
      BY <1>1, <1>5, <2>1, <2>2, <2>5 DEF NoSleepingReader
    <2> QED
      BY <1>1, <2>14, <2>15, <2>16, UntouchedKeeps DEF ReadInv
  <1> QED
    BY <1>12, <1>13

LEMMA ReadInit ==
  ASSUME Init
  PROVE  ReadInv
  <1>1. /\ read_queue = [t \in Term |-> <<>>] /\ input_queue = [t \in Term |-> <<>>]
        /\ line = [t \in Term |-> NULL] /\ tty_read_line = [p \in Proc |-> NULL]
        /\ received = [t \in Term |-> 0] /\ consumed = [t \in Term |-> <<>>]
    BY DEF Init
  <1>2. Len(<<>>) = 0 /\ Range(<<>>) = {} /\ IsInjective(<<>>) /\ Range(BytesOf(NULL)) = {}
    BY EmptySeq DEF Range, IsInjective, BytesOf
  <1>3. 1 .. 0 = {}
    OBVIOUS
  <1>4. NoSleepingReader
    BY <1>1 DEF NoSleepingReader
  <1>5. ASSUME NEW t \in Term
        PROVE  BytesAt(t)
    <2>1. \A p \in Proc : HandedLine(p, t) = NULL
      BY <1>1 DEF HandedLine
    <2>2. LinesTidy(t)
      BY <1>1, <1>2, <1>3, <2>1 DEF LinesTidy
    <2>3. PICK H : H = InHand(t)
      OBVIOUS
    <2>4. \A p \in Proc : H[p] = {}
      BY <1>2, <2>1, <2>3 DEF InHand
    <2>5. \A Q : Parted({}, {}, H, Q, 0, 0)
      BY <1>3, <2>4, PartedBy
    <2>6. /\ consumed[t] = <<>> /\ line[t] = NULL /\ received[t] = 0
          /\ Len(input_queue[t]) = 0
      BY <1>1, <1>2
    <2>7. PICK Q : Q = InputOf(t)
      OBVIOUS
    <2>8. Parted(Range(consumed[t]), Range(BytesOf(line[t])), H, Q, Len(input_queue[t]),
                 received[t])
      BY <1>2, <2>5, <2>6
    <2> QED
      BY <1>2, <2>2, <2>3, <2>6, <2>7, <2>8 DEF BytesAt
  <1> QED
    BY <1>4, <1>5 DEF ReadInv

(* A read, from its start or from where it was blocked: who reads, and     *)
(* from which terminal.                                                    *)
LEMMA Reads ==
  ASSUME TtyInv, Read \/ \E p \in Proc : SysTtyReadResumed(p)
  PROVE  \E t \in Term, len \in ReadLens :
           /\ current_process \in Readers
           /\ kernel_pc[current_process] = "user" \/ call[current_process].tty = t
           /\ ReadLoop(current_process, t, len)
  <1>1. CASE Read
    BY <1>1 DEF Read, SysTtyRead, CanCall, InUserMode
  <1>2. ASSUME NEW p \in Proc, SysTtyReadResumed(p)
        PROVE  /\ p = current_process /\ p \in Readers
               /\ call[p].tty \in Term /\ call[p].len \in ReadLens
               /\ ReadLoop(p, call[p].tty, call[p].len)
    <2>1. /\ p = current_process /\ kernel_pc[p] = "tty_read"
          /\ ReadLoop(p, call[p].tty, call[p].len)
      BY <1>2 DEF SysTtyReadResumed, Running
    <2> QED
      BY <2>1 DEF TtyInv, InInv, Handed, ReadsTyped
  <1> QED
    BY <1>1, <1>2

(* The steps that leave the terminals' input alone.                        *)
LEMMA OtherSteps ==
  ASSUME [Next]_vars, ~Receive, ~Read, ~\E p \in Proc : SysTtyReadResumed(p)
  PROVE  UNCHANGED inVars /\ UNCHANGED call
  <1>1. Clock => UNCHANGED inVars /\ UNCHANGED call
    BY DEF Clock, ttyVars
  <1>2. Transmit => UNCHANGED inVars /\ UNCHANGED call
    BY DEF Transmit, TrapTtyTransmit
  <1>3. Write => UNCHANGED inVars /\ UNCHANGED call
    BY DEF Write, SysTtyWrite
  <1>4. (\E p \in Proc : SysTtyWriteResumed(p)) => UNCHANGED inVars /\ UNCHANGED call
    BY DEF SysTtyWriteResumed
  <1>5. UNCHANGED vars => UNCHANGED inVars /\ UNCHANGED call
    BY DEF vars, ttyVars
  <1> QED
    BY <1>1, <1>2, <1>3, <1>4, <1>5 DEF Next, Resume

LEMMA ReadNext ==
  ASSUME OneReader \/ WholeLines, TtyInv, ReadInv, [Next]_vars
  PROVE  ReadInv'
  <1>1. CASE Receive
    BY <1>1, ReceiveAccounts DEF Receive
  <1>2. CASE Read \/ \E p \in Proc : SysTtyReadResumed(p)
    <2>1. PICK t \in Term, len \in ReadLens :
            /\ current_process \in Readers
            /\ kernel_pc[current_process] = "user" \/ call[current_process].tty = t
            /\ ReadLoop(current_process, t, len)
      BY <1>2, Reads
    <2> QED
      BY <2>1, ReadTakeAccounts, ReadBlockAccounts DEF ReadLoop
  <1>3. CASE ~Receive /\ ~Read /\ ~\E p \in Proc : SysTtyReadResumed(p)
    BY <1>3, OtherSteps, ReadSame
  <1> QED
    BY <1>1, <1>2, <1>3

LEMMA ReadsAccounted ==
  ASSUME OneReader \/ WholeLines
  PROVE  Spec => []ReadInv
  <1>1. Init => ReadInv
    BY ReadInit
  <1>2. TtyInv /\ ReadInv /\ [Next]_vars => ReadInv'
    BY ReadNext
  <1> QED
    BY <1>1, <1>2, TtyCorrect, PTL DEF Spec

(* Nobody sleeps in SysTtyRead while the terminal has something to read,   *)
(* when one process reads or every read asks for at least a line: the      *)
(* rest that a read leaves behind wakes nobody, so with several readers    *)
(* that cut lines this does not hold.                                      *)
THEOREM ReadersAwake ==
  ASSUME OneReader \/ WholeLines
  PROVE  Spec => []NoSleepingReader
  <1>1. ReadInv => NoSleepingReader
    BY DEF ReadInv
  <1> QED
    BY <1>1, ReadsAccounted, PTL

(* Under the same condition, every byte typed is returned once by TtyRead, *)
(* or still left over, in a reader's hands or queued, however lines and    *)
(* reads are long and whenever lines arrive.                               *)
THEOREM BytesKept ==
  ASSUME OneReader \/ WholeLines
  PROVE  Spec => []NoByteLost
  <1>1. TtyInv /\ ReadInv => NoByteLost
    <2> SUFFICES ASSUME TtyInv, ReadInv, NEW t \in Term
                 PROVE  /\ UNION {Range(l) : l \in Kept(t)} = 1 .. received[t]
                        /\ IsInjective(consumed[t])
      BY DEF NoByteLost
    <2> DEFINE C == Range(consumed[t])
               L == Range(BytesOf(line[t]))
               H == InHand(t)
               Q == InputOf(t)
               q == input_queue[t]
    <2>1. IsInjective(consumed[t]) /\ Parted(C, L, H, Q, Len(q), received[t])
      BY DEF ReadInv, BytesAt
    <2>2. \A p \in Proc : H[p] = IF p \in HandedAt(t) THEN Range(BytesOf(tty_read_line[p]))
                                 ELSE {}
      <3>1. \A p \in Proc : tty_read_line[p] # NULL => kernel_pc[p] = "tty_read"
        BY DEF TtyInv, InInv, Handed
      <3>2. \A p \in Proc : H[p] = Range(BytesOf(HandedLine(p, t)))
        BY DEF InHand
      <3>3. Range(BytesOf(NULL)) = {}
        BY EmptySeq DEF BytesOf, Range
      <3> QED
        BY <3>1, <3>2, <3>3 DEF HandedLine, HandedAt
    <2>3. /\ DOMAIN q = 1 .. Len(q)
          /\ \A i \in 1 .. Len(q) : Q[i] = Range(q[i])
      <3>1. q \in Seq(Line)
        BY DEF TtyInv, InInv, ReadsTyped
      <3> QED
        BY <3>1, LenProperties DEF InputOf
    <2>4. Range(q) = {q[i] : i \in 1 .. Len(q)}
      BY <2>3 DEF Range
    <2>5. \A x : x \in UNION {Range(l) : l \in Kept(t)} <=>
                   \/ x \in C \/ x \in L
                   \/ \E p \in Proc : x \in H[p]
                   \/ \E i \in 1 .. Len(q) : x \in Q[i]
      <3> TAKE x
      <3>1. x \in UNION {Range(l) : l \in Kept(t)} <=> \E l \in Kept(t) : x \in Range(l)
        OBVIOUS
      <3>2. (\E l \in Kept(t) : x \in Range(l)) <=>
              \/ x \in C \/ x \in L
              \/ \E p \in HandedAt(t) : x \in Range(BytesOf(tty_read_line[p]))
              \/ \E i \in 1 .. Len(q) : x \in Range(q[i])
        BY <2>4, Zenon DEF Kept
      <3>3. (\E p \in HandedAt(t) : x \in Range(BytesOf(tty_read_line[p]))) <=>
              \E p \in Proc : x \in H[p]
        BY <2>2 DEF HandedAt
      <3> QED
        BY <2>3, <3>1, <3>2, <3>3
    <2> HIDE DEF C, L, H, Q, q
    <2>6. \A x : x \in 1 .. received[t] <=>
                   \/ x \in C \/ x \in L
                   \/ \E p \in Proc : x \in H[p]
                   \/ \E i \in 1 .. Len(q) : x \in Q[i]
      BY <2>1, PartedBytes
    <2> QED
      BY <2>1, <2>5, <2>6
  <1> QED
    BY <1>1, TtyCorrect, ReadsAccounted, PTL

(* With one reader, the line it finds holds the next bytes: every byte is  *)
(* returned already, in that line or after it.                             *)
LEMMA CutNext ==
  ASSUME OneReader, TtyInv, ReadInv, NEW t \in Term,
         NEW p, NEW l, NEW k, NEW a, NEW b, Cut(p, t, l, k, a, b)
  PROVE  /\ Range(l) \subseteq 1 .. received[t]
         /\ Range(l) \cap Range(consumed[t]) = {}
         /\ \A x \in 1 .. received[t] :
              x \in Range(consumed[t]) \/ x \in Range(l) \/ \A y \in Range(l) : y < x
  <1> DEFINE C == Range(consumed[t])
             L == Range(BytesOf(line[t]))
             H == InHand(t)
             Q == InputOf(t)
             q == input_queue[t]
             n == received[t]
  <1>1. ReadsTyped /\ Handed /\ LinesTidy(t) /\ Parted(C, L, H, Q, Len(q), n)
    BY DEF TtyInv, InInv, ReadInv, BytesAt
  <1>2. /\ p \in Proc /\ p \in Readers /\ l # NULL /\ l = LineFor(p, t)
        /\ tty_read_line[p] # NULL => HandedLine(p, t) = l
    BY DEF Cut
  <1>3. /\ q \in Seq(Line) /\ Len(q) \in Nat /\ n \in Nat
        /\ Range(BytesOf(NULL)) = {}
    <2>1. q \in Seq(Line) /\ received[t] \in 0 .. MaxInput
      BY <1>1 DEF ReadsTyped
    <2>2. Range(BytesOf(NULL)) = {}
      BY EmptySeq DEF BytesOf, Range
    <2> QED
      BY <2>1, <2>2, LenProperties, TtyAssumption
  <1>4. \A r \in Proc : H[r] = Range(BytesOf(HandedLine(r, t)))
    BY DEF InHand
  <1>5. \A i \in 1 .. Len(q) : Q[i] = Range(q[i])
    BY DEF InputOf
  <1>6. \A r \in Proc : r # p => H[r] = {}
    <2>1. \A r \in Proc : HandedLine(r, t) # NULL => r \in Readers
      BY <1>1 DEF HandedLine, Handed
    <2>2. \A r \in Proc : r # p => HandedLine(r, t) = NULL
      BY <1>2, <2>1 DEF OneReader
    <2> QED
      BY <1>3, <1>4, <2>2
  <1>7. \A x : x \in 1 .. n <=> \/ x \in C \/ x \in L
                                \/ \E r \in Proc : x \in H[r]
                                \/ \E i \in 1 .. Len(q) : x \in Q[i]
    <2> HIDE DEF C, L, H, Q, q, n
    <2> QED
      BY <1>1, PartedBytes
  <1>8. /\ C \cap L = {} /\ H[p] \cap C = {}
        /\ \A i \in 1 .. Len(q) : \A x \in Q[i] :
             /\ \A y \in L : y < x
             /\ \A y \in H[p] : y < x
             /\ \A j \in 1 .. i - 1 : \A y \in Q[j] : y < x
    <2> HIDE DEF C, L, H, Q, q, n
    <2> QED
      BY <1>1, <1>2 DEF Parted
  <1>9. CASE tty_read_line[p] # NULL
    <2>1. H[p] = Range(l) /\ line[t] = NULL
      BY <1>1, <1>2, <1>4, <1>9 DEF LinesTidy, BytesOf
    <2>2. L = {}
      BY <1>3, <2>1
    <2> HIDE DEF C, L, H, Q, q, n
    <2>3. Range(l) \subseteq 1 .. n /\ Range(l) \cap C = {}
      BY <1>2, <1>7, <1>8, <2>1
    <2>4. \A x \in 1 .. n : x \in C \/ x \in Range(l) \/ \A y \in Range(l) : y < x
      BY <1>6, <1>7, <1>8, <2>1, <2>2
    <2> QED
      BY <2>3, <2>4 DEF C, n
  <1>10. CASE TakesLeftover(p, t)
    <2>1. l = line[t] /\ tty_read_line[p] = NULL
      BY <1>2, <1>10, LineForCases DEF TakesLeftover
    <2>2. L = Range(l) /\ H[p] = {}
      BY <1>2, <1>3, <1>4, <2>1 DEF BytesOf, HandedLine
    <2> HIDE DEF C, L, H, Q, q, n
    <2>3. Range(l) \subseteq 1 .. n /\ Range(l) \cap C = {}
      BY <1>7, <1>8, <2>2
    <2>4. \A x \in 1 .. n : x \in C \/ x \in Range(l) \/ \A y \in Range(l) : y < x
      BY <1>6, <1>7, <1>8, <2>2
    <2> QED
      BY <2>3, <2>4 DEF C, n
  <1>11. CASE TakesInput(p, t)
    <2>1. line[t] = NULL /\ tty_read_line[p] = NULL /\ q # <<>> /\ l = Head(q)
      BY <1>2, <1>11, LineForCases DEF TakesInput
    <2>2. L = {} /\ H[p] = {}
      BY <1>2, <1>3, <1>4, <2>1 DEF HandedLine
    <2>3. 1 \in 1 .. Len(q) /\ Q[1] = Range(l)
      <3>1. Len(q) \in Nat \ {0} /\ l = q[1]
        <4> HIDE DEF q
        <4> QED
          BY <1>3, <2>1, HeadTailProperties, LenProperties, EmptySeq
      <3>2. 1 \in 1 .. Len(q)
        <4> HIDE DEF q
        <4> QED
          BY <3>1
      <3> QED
        BY <1>5, <3>1, <3>2
    <2> HIDE DEF C, L, H, Q, q, n
    <2>4. C \cap Q[1] = {}
      BY <1>1, <1>3, <2>3, QueuedApart
    <2>5. Range(l) \subseteq 1 .. n /\ Range(l) \cap C = {}
      BY <1>7, <2>3, <2>4
    <2>6. ASSUME NEW i \in 1 .. Len(q), NEW x \in Q[i]
          PROVE  x \in Range(l) \/ \A y \in Range(l) : y < x
      <3>1. CASE i = 1
        BY <2>3, <3>1
      <3>2. CASE i # 1
        <4>1. 1 \in 1 .. i - 1
          BY <1>3, <3>2
        <4> QED
          BY <1>8, <2>3, <4>1
      <3> QED
        BY <3>1, <3>2
    <2>7. \A x \in 1 .. n : x \in C \/ x \in Range(l) \/ \A y \in Range(l) : y < x
      BY <1>6, <1>7, <2>2, <2>6
    <2> QED
      BY <2>5, <2>7 DEF C, n
  <1> QED
    BY <1>9, <1>10, <1>11, LineForCases

(* A line appended to what was read already.                               *)
LEMMA Appended ==
  ASSUME NEW S, NEW s \in Seq(S), NEW a \in Seq(S), NEW u, u = s \o a
  PROVE  /\ u \in Seq(S) /\ Len(u) = Len(s) + Len(a)
         /\ \A i \in 1 .. Len(s) + Len(a) : u[i] = IF i <= Len(s) THEN s[i] ELSE a[i - Len(s)]
  BY ConcatProperties

LEMMA LeftHalf ==
  ASSUME NEW l \in Line, NEW k, NEW a, NEW b, Halves(l, k, a, b)
  PROVE  a \in Line /\ Len(a) = k /\ \A i \in 1 .. k : a[i] = l[i]
  BY SplitAt, ZenonT(60) DEF Line, Halves

(* So the bytes returned next continue the sequence.                       *)
LEMMA CutInOrder ==
  ASSUME OneReader, TtyInv, ReadInv, NEW t \in Term,
         NEW p, NEW l, NEW k, NEW a, NEW b, Cut(p, t, l, k, a, b),
         consumed[t] = [i \in 1 .. Len(consumed[t]) |-> i]
  PROVE  consumed'[t] = [i \in 1 .. Len(consumed'[t]) |-> i]
  <1>1. PICK s, c, n : s = consumed[t] /\ c = Len(s) /\ n = received[t]
    OBVIOUS
  <1>2. s \in Line /\ c \in Nat /\ n \in Nat /\ DOMAIN s = 1 .. c
    <2>1. s \in Line /\ n \in 0 .. MaxInput
      BY <1>1 DEF TtyInv, InInv, ReadsTyped
    <2> QED
      BY <1>1, <2>1, LenProperties, TtyAssumption DEF Line
  <1>3. \A i \in 1 .. c : s[i] = i
    BY <1>1
  <1>4. Range(s) = 1 .. c
    BY <1>2, <1>3 DEF Range
  <1>5. /\ l \in Line /\ Run(l) /\ Halves(l, k, a, b)
        /\ consumed'[t] = s \o a
    BY <1>1 DEF Cut
  <1>6. /\ a \in Line /\ Len(a) = k /\ k \in 0 .. Len(l) /\ Len(l) \in Nat
        /\ \A i \in 1 .. k : a[i] = l[i]
        /\ DOMAIN l = 1 .. Len(l)
    <2>1. k \in 0 .. Len(l) /\ a = SubSeq(l, 1, k)
      BY <1>5 DEF Halves
    <2>2. a \in Line /\ Len(a) = k /\ \A i \in 1 .. k : a[i] = l[i]
      BY <1>5, LeftHalf
    <2>3. Len(l) \in Nat /\ DOMAIN l = 1 .. Len(l)
      BY <1>5, LenProperties DEF Line
    <2> QED
      BY <2>1, <2>2, <2>3
  <1>7. Len(l) # 0 => l[1] = c + 1
    <2> SUFFICES ASSUME Len(l) # 0 PROVE l[1] = c + 1
      OBVIOUS
    <2>1. 1 \in 1 .. Len(l) /\ l[1] \in Range(l)
      BY <1>6 DEF Range
    <2>2. /\ Range(l) \subseteq 1 .. n /\ Range(l) \cap 1 .. c = {}
          /\ \A x \in 1 .. n : x \in 1 .. c \/ x \in Range(l) \/ \A y \in Range(l) : y < x
      BY <1>1, <1>4, CutNext
    <2>3. l[1] \in 1 .. n /\ l[1] \notin 1 .. c
      BY <2>1, <2>2
    <2>4. l[1] >= c + 1 /\ c + 1 \in 1 .. n /\ c + 1 \notin 1 .. c
      BY <1>2, <2>3
    <2>5. c + 1 \in Range(l)
      <3>1. c + 1 \in Range(l) \/ l[1] < c + 1
        BY <2>1, <2>2, <2>4
      <3> QED
        BY <1>2, <2>3, <2>4, <3>1
    <2>6. PICK j \in 1 .. Len(l) : c + 1 = l[j]
      BY <1>6, <2>5 DEF Range
    <2>7. c + 1 = l[1] + j - 1
      BY <1>5, <2>6 DEF Run
    <2> QED
      BY <1>2, <1>6, <2>3, <2>4, <2>7
  <1>8. \A i \in 1 .. k : a[i] = c + i
    <2> TAKE i \in 1 .. k
    <2>1. i \in 1 .. Len(l) /\ Len(l) # 0
      BY <1>6
    <2>2. a[i] = l[1] + i - 1
      BY <1>5, <1>6, <2>1 DEF Run
    <2> QED
      BY <1>2, <1>6, <1>7, <2>1, <2>2
  <1>9. PICK u : u = s \o a
    OBVIOUS
  <1>10. /\ u \in Line /\ Len(u) = c + k
         /\ \A i \in 1 .. c + k : u[i] = IF i <= c THEN s[i] ELSE a[i - c]
    <2>1. s \in Line /\ a \in Line
      BY <1>2, <1>6
    <2>2. /\ u \in Line /\ Len(u) = Len(s) + Len(a)
          /\ \A i \in 1 .. Len(s) + Len(a) : u[i] = IF i <= Len(s) THEN s[i] ELSE a[i - Len(s)]
      BY <1>9, <2>1, Appended DEF Line
    <2> QED
      BY <1>1, <1>6, <2>2
  <1>11. k \in Nat
    BY <1>6
  <1>12. \A i \in 1 .. c + k : u[i] = i
    <2> TAKE i \in 1 .. c + k
    <2>1. CASE i <= c
      <3>1. i \in 1 .. c
        BY <1>2, <1>11, <2>1
      <3> QED
        BY <1>3, <1>10, <2>1, <3>1
    <2>2. CASE ~(i <= c)
      <3>1. i - c \in 1 .. k /\ c + (i - c) = i
        BY <1>2, <1>11, <2>2
      <3>2. a[i - c] = i
        BY <1>8, <3>1
      <3> QED
        BY <1>10, <2>2, <3>2
    <2> QED
      BY <2>1, <2>2
  <1>13. u = [i \in 1 .. Len(u) |-> i]
    <2>1. u \in [1 .. Len(u) -> 1 .. MaxInput]
      BY <1>10, LenProperties DEF Line
    <2> QED
      BY <1>10, <1>12, <2>1
  <1> QED
    BY <1>5, <1>9, <1>13

(* A single reader gets the bytes of a terminal in the order they were     *)
(* typed, however TtyRead cuts the lines and however the arrival of lines  *)
(* interleaves with reads that block, are handed a line or find one        *)
(* queued.                                                                 *)
THEOREM ReadsInOrder ==
  ASSUME OneReader
  PROVE  Spec => []ReadInOrder
  <1>1. Init => ReadInOrder
    <2> SUFFICES ASSUME Init, NEW t \in Term
                 PROVE  consumed[t] = [i \in 1 .. Len(consumed[t]) |-> i]
      BY DEF ReadInOrder
    <2>1. consumed[t] = <<>>
      BY DEF Init
    <2> QED
      BY <2>1
  <1>2. TtyInv /\ ReadInv /\ ReadInOrder /\ [Next]_vars => ReadInOrder'
    <2> SUFFICES ASSUME TtyInv, ReadInv, ReadInOrder, [Next]_vars
                 PROVE  ReadInOrder'
      OBVIOUS
    <2>1. CASE UNCHANGED consumed
      BY <2>1 DEF ReadInOrder
    <2>2. ASSUME NEW t \in Term, NEW len \in ReadLens,
                 current_process \in Readers,
                 kernel_pc[current_process] = "user" \/ call[current_process].tty = t,
                 ReadTake(current_process, t, len)
          PROVE  ReadInOrder'
      <3>1. \A u \in Term : u # t => Untouched(u)
        BY <2>2, ReadTakeCuts
      <3>2. PICK l, k, a, b : Cut(current_process, t, l, k, a, b)
        BY <2>2, ReadTakeCuts
      <3>3. consumed[t] = [i \in 1 .. Len(consumed[t]) |-> i]
        BY DEF ReadInOrder
      <3>4. consumed'[t] = [i \in 1 .. Len(consumed'[t]) |-> i]
        BY <3>2, <3>3, CutInOrder
      <3>5. \A u \in Term : u # t => consumed'[u] = consumed[u]
        BY <3>1 DEF Untouched
      <3> QED
        BY <3>4, <3>5 DEF ReadInOrder
    <2>3. CASE Receive
      <3>1. UNCHANGED consumed
        BY <2>3 DEF Receive, TrapTtyReceive
      <3> QED
        BY <2>1, <3>1
    <2>4. CASE Read \/ \E p \in Proc : SysTtyReadResumed(p)
      <3>1. PICK t \in Term, len \in ReadLens :
              /\ current_process \in Readers
              /\ kernel_pc[current_process] = "user" \/ call[current_process].tty = t
              /\ ReadLoop(current_process, t, len)
        BY <2>4, Reads
      <3>2. CASE ReadBlock(current_process, t, len)
        BY <2>1, <3>2 DEF ReadBlock
      <3> QED
        BY <2>2, <3>1, <3>2 DEF ReadLoop
    <2>5. CASE ~Receive /\ ~Read /\ ~\E p \in Proc : SysTtyReadResumed(p)
      <3>1. UNCHANGED consumed
        BY <2>5, OtherSteps DEF inVars
      <3> QED
        BY <2>1, <3>1
    <2> QED
      BY <2>3, <2>4, <2>5
  <1>3. Spec => []ReadInv
    BY ReadsAccounted
  <1> QED
    BY <1>1, <1>2, <1>3, TtyCorrect, PTL DEF Spec

============================================================================
