-------------------------------- MODULE Tty --------------------------------
(***************************************************************************)
(* The terminal driver tty.c: TtyRead and TtyWrite, and the receive and    *)
(* transmit interrupts that complete them.                                 *)
(*                                                                         *)
(* The bytes typed at a terminal are numbered 1, 2, ... as they arrive; a  *)
(* TtyLine is the sequence of its bytes from pos to len.  What is written  *)
(* is told apart only by who writes it and how much.  A call that fails    *)
(* its argument checks changes nothing and is not a step.                  *)
(*                                                                         *)
(* wire is the terminal hardware (external): the chunks given to           *)
(* TtyTransmit and not yet acknowledged by a transmit interrupt.  consumed *)
(* and acked are history: the bytes reads have returned, and how much of   *)
(* its write a process has had acknowledged.                               *)
(***************************************************************************)
EXTENDS Sched, SequencesExt

CONSTANTS
  NULL,               \* a null PCB or TtyLine pointer
  Live,               \* the processes beside idle and init that exist
  NUM_TERMINALS,      \* the terminals are 0 .. NUM_TERMINALS - 1
  Readers,            \* the processes whose programs call TtyRead
  TERMINAL_MAX_LINE,  \* longest line received, longest chunk transmitted
  ReadLens,           \* the lengths programs pass to TtyRead
  WriteLens,          \* the lengths programs pass to TtyWrite
  LineLens,           \* the lengths of the lines that are typed
  MaxInput,           \* bound: bytes typed at one terminal
  MaxLines            \* bound: lines queued at one terminal

ASSUME TtyAssumption ==
  /\ NULL \notin Proc
  /\ Live \subseteq Proc \ {Idle, InitProc}
  /\ Readers \subseteq Proc
  /\ NUM_TERMINALS \in Nat \ {0}
  /\ TERMINAL_MAX_LINE \in Nat \ {0}
  /\ ReadLens \subseteq Nat \ {0}
  /\ WriteLens \subseteq Nat \ {0}
  /\ LineLens \subseteq 0 .. TERMINAL_MAX_LINE
  /\ MaxInput \in Nat
  /\ MaxLines \in Nat
  /\ NULL \notin Seq(1 .. MaxInput)

VARIABLES
  read_queue,        \* TtyState.read_queue, front first
  input_queue,       \* TtyState.input_queue, front first
  line,              \* TtyState.line: the line a read left unfinished
  tty_read_line,     \* PCB.tty_read_line: the line handed to a reader
  call,              \* the terminal and length of a blocked TtyRead
  write_queue,       \* TtyState.write_queue, front first
  writer,            \* TtyState.writer
  busy,              \* TtyState.busy
  tty_write_len,     \* PCB.tty_write_len
  tty_write_offset,  \* PCB.tty_write_offset
  wire, received, consumed, acked

inVars == <<read_queue, input_queue, line, tty_read_line, received, consumed>>
outVars == <<write_queue, writer, busy, tty_write_len, tty_write_offset, wire,
             acked>>
ttyVars == <<inVars, outVars, call>>
vars == <<schedVars, ttyVars>>

Term == 0 .. NUM_TERMINALS - 1

NoCall == [tty |-> 0, len |-> 0]

Running(p, pc) == ~halted /\ current_process = p /\ kernel_pc[p] = pc

----------------------------------------------------------------------------
(* Reading.                                                                *)

(* The line TtyCopyLine takes for p: the one handed to it, else the one a  *)
(* read left unfinished, else the front of the input queue.                *)
TakesLeftover(p, t) == tty_read_line[p] = NULL /\ line[t] # NULL
TakesInput(p, t) == tty_read_line[p] = NULL /\ line[t] = NULL

LineFor(p, t) ==
  CASE TakesLeftover(p, t) -> line[t]
    [] TakesInput(p, t) -> IF input_queue[t] = <<>> THEN NULL
                                                    ELSE Head(input_queue[t])
    [] OTHER -> tty_read_line[p]

(* What TtyCopyLine makes of the terminal's unfinished line when it takes  *)
(* count bytes of l.  Mutant: the rest of the line is dropped.             *)
RestDropped(p, t, l, count) == NULL
Rest(p, t, l, count) ==
  CASE count < Len(l) -> SubSeq(l, count + 1, Len(l))
    [] count = Len(l) -> IF TakesLeftover(p, t) THEN NULL ELSE line[t]

(* The input queue then.  Mutant: the line is not unlinked.                *)
InputKept(p, t) == input_queue[t]
InputLeft(p, t) ==
  IF TakesInput(p, t) THEN Tail(input_queue[t]) ELSE input_queue[t]

(* TtyCopyLine finds a line: up to len bytes of it are returned, and the   *)
(* rest becomes the terminal's unfinished line.                            *)
ReadTake(p, t, len) ==
  LET l == LineFor(p, t)
      count == IF Len(l) > len THEN len ELSE Len(l)
  IN  /\ l # NULL
      /\ consumed' = [consumed EXCEPT ![t] = @ \o SubSeq(l, 1, count)]
      /\ line' = [line EXCEPT ![t] = Rest(p, t, l, count)]
      /\ input_queue' = [input_queue EXCEPT ![t] = InputLeft(p, t)]
      /\ tty_read_line' = [tty_read_line EXCEPT ![p] = NULL]
      /\ kernel_pc' = [kernel_pc EXCEPT ![p] = "user"]
      /\ call' = [call EXCEPT ![p] = NoCall]
      /\ UNCHANGED <<state, ready_queue, current_process, clock_ticks,
                     delay_until, halted, read_queue, received, outVars>>

ReadBlock(p, t, len) ==
  /\ LineFor(p, t) = NULL
  /\ read_queue' = [read_queue EXCEPT ![t] = Append(@, p)]
  /\ kernel_pc' = [kernel_pc EXCEPT ![p] = "tty_read"]
  /\ call' = [call EXCEPT ![p] = [tty |-> t, len |-> len]]
  /\ ProcessSchedule([state EXCEPT ![p] = "BLOCKED"], ready_queue, delay_until,
                     clock_ticks)
  /\ UNCHANGED <<clock_ticks, halted, input_queue, line, tty_read_line,
                 received, consumed, outVars>>

ReadLoop(p, t, len) == ReadTake(p, t, len) \/ ReadBlock(p, t, len)

SysTtyRead(t, len) ==
  /\ CanCall
  /\ current_process \in Readers
  /\ ReadLoop(current_process, t, len)

(* SysTtyRead after its ProcessSchedule returns.                           *)
SysTtyReadResumed(p) ==
  /\ Running(p, "tty_read")
  /\ ReadLoop(p, call[p].tty, call[p].len)

(* A reader is blocked.  Mutant: TrapTtyReceive does not look for one.     *)
NoneWaits(t) == FALSE
ReaderWaits(t) == read_queue[t] # <<>>

(* The input queue with a line more.  Mutant: the line overtakes others.   *)
InputOvertaken(t, l) == <<l>> \o input_queue[t]
InputWith(t, l) == Append(input_queue[t], l)

(* TrapTtyReceive: a line of n bytes goes to the first blocked reader, who *)
(* is woken, or to the input queue.  Only a negative length is refused: an *)
(* empty line is a line, and the read that takes it returns 0.             *)
TrapTtyReceive(t, n) ==
  LET new == [i \in 1 .. n |-> received[t] + i]
      reader == Head(read_queue[t])
  IN  /\ InUserMode
      /\ received[t] + n <= MaxInput
      /\ received' = [received EXCEPT ![t] = @ + n]
      /\ \/ /\ ReaderWaits(t)
            /\ read_queue' = [read_queue EXCEPT ![t] = Tail(@)]
            /\ tty_read_line' = [tty_read_line EXCEPT ![reader] = new]
            /\ state' = MadeReady(state, reader)
            /\ ready_queue' = Queued(state, ready_queue, reader)
            /\ UNCHANGED input_queue
         \/ /\ ~ReaderWaits(t)
            /\ Len(input_queue[t]) < MaxLines
            /\ input_queue' = [input_queue EXCEPT ![t] = InputWith(t, new)]
            /\ UNCHANGED <<state, ready_queue, read_queue, tty_read_line>>
      /\ UNCHANGED <<current_process, clock_ticks, delay_until, kernel_pc,
                     halted, line, consumed, outVars, call>>

----------------------------------------------------------------------------
(* Writing.                                                                *)

(* The chunk of what is left of a write.  Mutant: it is not cut to a line. *)
ChunkUncut(left) == left
Chunk(left) == IF left > TERMINAL_MAX_LINE THEN TERMINAL_MAX_LINE ELSE left

(* The terminal has no writer and others are queued; the queue after the   *)
(* first is fetched.  Mutants: the next writer is not fetched; it is       *)
(* fetched but not unlinked.                                               *)
NeverFetches(w, wq) == FALSE
Fetches(w, wq) == w = NULL /\ wq # <<>>

QueueKept(w, wq) == wq
QueueLeft(w, wq) == IF Fetches(w, wq) THEN Tail(wq) ELSE wq

(* TtyStartWrite with the terminal's writer w, its write queue wq and the  *)
(* write lengths and offsets lens and offs: the next writer is fetched     *)
(* when there is none, and its next chunk goes to the hardware behind what *)
(* is out already.  Two of its branches are never taken and left out: both *)
(* callers have just seen or made the terminal not busy (tty.c:259), and a *)
(* writer that gets here has bytes still to send, since TtyWrite rejects a *)
(* length of 0 and the interrupt has retired a finished writer (tty.c:273).*)
TtyStartWrite(t, w, wq, lens, offs, out) ==
  LET next == IF Fetches(w, wq) THEN Head(wq) ELSE w
      chunk == Chunk(lens[next] - offs[next])
  IN  /\ writer' = [writer EXCEPT ![t] = next]
      /\ write_queue' = [write_queue EXCEPT ![t] = QueueLeft(w, wq)]
      /\ busy' = [busy EXCEPT ![t] = (next # NULL)]
      /\ tty_write_offset' =
           IF next = NULL THEN offs ELSE [offs EXCEPT ![next] = @ + chunk]
      /\ wire' = [wire EXCEPT ![t] =
           IF next = NULL THEN out ELSE Append(out, [proc |-> next, len |-> chunk])]

(* SysTtyWrite's test.  Mutant: it transmits even to a busy terminal.      *)
AlwaysIdle(t) == TRUE
TerminalIdle(t) == writer[t] = NULL /\ ~busy[t]

(* SysTtyWrite up to its ProcessSchedule.                                  *)
SysTtyWrite(t, len) ==
  LET p == current_process
      lens == [tty_write_len EXCEPT ![p] = len]
      offs == [tty_write_offset EXCEPT ![p] = 0]
  IN  /\ CanCall
      /\ tty_write_len' = lens
      /\ acked' = [acked EXCEPT ![p] = 0]
      /\ \/ /\ TerminalIdle(t)
            /\ TtyStartWrite(t, p, write_queue[t], lens, offs, wire[t])
         \/ /\ ~TerminalIdle(t)
            /\ write_queue' = [write_queue EXCEPT ![t] = Append(@, p)]
            /\ tty_write_offset' = offs
            /\ UNCHANGED <<writer, busy, wire>>
      /\ kernel_pc' = [kernel_pc EXCEPT ![p] = "tty_write"]
      /\ ProcessSchedule([state EXCEPT ![p] = "BLOCKED"], ready_queue,
                         delay_until, clock_ticks)
      /\ UNCHANGED <<clock_ticks, halted, inVars, call>>

(* SysTtyWrite after its ProcessSchedule returns.                          *)
SysTtyWriteResumed(p) ==
  /\ Running(p, "tty_write")
  /\ tty_write_len' = [tty_write_len EXCEPT ![p] = 0]
  /\ tty_write_offset' = [tty_write_offset EXCEPT ![p] = 0]
  /\ kernel_pc' = [kernel_pc EXCEPT ![p] = "user"]
  /\ UNCHANGED <<state, ready_queue, current_process, clock_ticks, delay_until,
                 halted, inVars, write_queue, writer, busy, wire, acked, call>>

(* Mutant of Finished: one chunk is taken for the whole write.             *)
Started(w) == w # NULL /\ tty_write_offset[w] > 0

(* The writer whose last chunk has been handed to the hardware.            *)
Finished(w) == w # NULL /\ tty_write_offset[w] >= tty_write_len[w]

(* TrapTtyTransmit, when the hardware acknowledges the chunk it was given: *)
(* a finished writer is woken and the next chunk is started.               *)
TrapTtyTransmit(t) ==
  LET w == writer[t]
      done == Finished(w)
      ack == Head(wire[t])
  IN  /\ InUserMode
      /\ wire[t] # <<>>
      /\ acked' = [acked EXCEPT ![ack.proc] = @ + ack.len]
      /\ state' = IF done THEN MadeReady(state, w) ELSE state
      /\ ready_queue' = IF done THEN Queued(state, ready_queue, w) ELSE ready_queue
      /\ TtyStartWrite(t, IF done THEN NULL ELSE w, write_queue[t],
                       tty_write_len, tty_write_offset, Tail(wire[t]))
      /\ UNCHANGED <<current_process, clock_ticks, delay_until, kernel_pc,
                     halted, tty_write_len, inVars, call>>

----------------------------------------------------------------------------

Init ==
  /\ \E rq \in Ascending(Live) : SchedInit(Live, rq)
  /\ read_queue = [t \in Term |-> <<>>]
  /\ input_queue = [t \in Term |-> <<>>]
  /\ line = [t \in Term |-> NULL]
  /\ tty_read_line = [p \in Proc |-> NULL]
  /\ call = [p \in Proc |-> NoCall]
  /\ write_queue = [t \in Term |-> <<>>]
  /\ writer = [t \in Term |-> NULL]
  /\ busy = [t \in Term |-> FALSE]
  /\ tty_write_len = [p \in Proc |-> 0]
  /\ tty_write_offset = [p \in Proc |-> 0]
  /\ wire = [t \in Term |-> <<>>]
  /\ received = [t \in Term |-> 0]
  /\ consumed = [t \in Term |-> <<>>]
  /\ acked = [p \in Proc |-> 0]

Clock == TrapClock /\ UNCHANGED ttyVars
Receive == \E t \in Term, n \in LineLens : TrapTtyReceive(t, n)
Transmit == \E t \in Term : TrapTtyTransmit(t)
Read == \E t \in Term, len \in ReadLens : SysTtyRead(t, len)
Write == \E t \in Term, len \in WriteLens : SysTtyWrite(t, len)
Resume == \E p \in Proc : SysTtyReadResumed(p) \/ SysTtyWriteResumed(p)

Next == Clock \/ Receive \/ Transmit \/ Read \/ Write \/ Resume

Spec == Init /\ [][Next]_vars

(* The clock interrupt keeps coming, the hardware acknowledges every chunk *)
(* and the interrupt is taken whenever the CPU is back in user mode;       *)
(* kernel code that is current runs to its end.                            *)
FairSpec ==
  /\ Spec
  /\ SF_vars(Clock)
  /\ \A t \in Term : SF_vars(TrapTtyTransmit(t))
  /\ WF_vars(Resume)

----------------------------------------------------------------------------

TypeOK ==
  /\ state \in [Proc -> ProcState]
  /\ ready_queue \in Seq(Proc)
  /\ current_process \in Proc
  /\ clock_ticks \in 0 .. Word - 1
  /\ delay_until \in [Proc -> 0 .. Word - 1]
  /\ kernel_pc \in [Proc -> {"user", "tty_read", "tty_write"}]
  /\ halted \in BOOLEAN
  /\ read_queue \in [Term -> Seq(Proc)]
  /\ input_queue \in [Term -> Seq(Seq(1 .. MaxInput))]
  /\ line \in [Term -> Seq(1 .. MaxInput) \cup {NULL}]
  /\ tty_read_line \in [Proc -> Seq(1 .. MaxInput) \cup {NULL}]
  /\ call \in [Proc -> [tty : Term, len : ReadLens \cup {0}]]
  /\ write_queue \in [Term -> Seq(Proc)]
  /\ writer \in [Term -> Proc \cup {NULL}]
  /\ busy \in [Term -> BOOLEAN]
  /\ tty_write_len \in [Proc -> WriteLens \cup {0}]
  /\ tty_write_offset \in [Proc -> Nat]
  /\ wire \in [Term -> Seq([proc : Proc, len : 1 .. TERMINAL_MAX_LINE])]
  /\ received \in [Term -> 0 .. MaxInput]
  /\ consumed \in [Term -> Seq(1 .. MaxInput)]
  /\ acked \in [Proc -> Nat]

(* The transmit hardware takes one chunk at a time, and the driver's busy  *)
(* flag and writer say so: a chunk is out exactly while the terminal is    *)
(* busy with a writer, it is that writer's, and writers queue up only      *)
(* behind one.  Otherwise two writes would mix on the screen, or a queue   *)
(* of writers would wait for an interrupt that never comes.                *)
OneChunk ==
  \A t \in Term :
    /\ Len(wire[t]) <= 1
    /\ busy[t] <=> writer[t] # NULL
    /\ busy[t] <=> wire[t] # <<>>
    /\ wire[t] # <<>> => wire[t][1].proc = writer[t]
    /\ write_queue[t] # <<>> => busy[t]

(* A process blocked in SysTtyWrite is the writer of one terminal or       *)
(* queued once behind it, never both and never twice, and nobody else is:  *)
(* no blocked writer is lost, and none is woken while its buffer, which    *)
(* SysTtyWrite frees as soon as it runs, is still being transmitted.       *)
WritersSound ==
  /\ \A t \in Term : IsInjective(write_queue[t])
  /\ \A p \in Proc :
       LET places == {t \in Term : writer[t] = p} \X {"writer"} \cup
                     {t \in Term : p \in Range(write_queue[t])} \X {"queue"}
       IN  IF state[p] = "BLOCKED" /\ kernel_pc[p] = "tty_write"
           THEN Cardinality(places) = 1
           ELSE places = {}

(* TtyWrite returns only when the hardware has acknowledged every byte.    *)
WholeWrite ==
  \A p \in Proc :
    kernel_pc[p] = "tty_write" /\ state[p] # "BLOCKED" =>
      acked[p] = tty_write_len[p] /\ tty_write_len[p] > 0

(* A process sleeps in SysTtyRead only while the terminal has nothing to   *)
(* read.                                                                   *)
NoSleepingReader ==
  \A t \in Term :
    read_queue[t] # <<>> => line[t] = NULL /\ input_queue[t] = <<>>

(* The bytes of a line, and where terminal t's bytes are: returned to a    *)
(* program, left over, handed to a reader or queued.                       *)
BytesOf(l) == IF l = NULL THEN <<>> ELSE l
HandedAt(t) == {p \in Proc : kernel_pc[p] = "tty_read" /\ call[p].tty = t}
Kept(t) == {consumed[t], BytesOf(line[t])}
             \cup {BytesOf(tty_read_line[p]) : p \in HandedAt(t)}
             \cup Range(input_queue[t])

(* Every byte typed is returned to some program or still held, and none is *)
(* returned twice: "leftover bytes are returned by the next read"          *)
(* (docs/checkpoint5_tests.tex).                                           *)
NoByteLost ==
  \A t \in Term :
    /\ UNION {Range(l) : l \in Kept(t)} = 1 .. received[t]
    /\ IsInjective(consumed[t])

(* A single reader gets the bytes of a terminal in the order they were     *)
(* typed, however its reads split the lines.  Checked for one reader: two  *)
(* may return in either order.                                             *)
ReadInOrder ==
  \A t \in Term : consumed[t] = [i \in 1 .. Len(consumed[t]) |-> i]

(* The transmitted chunks of a write are not broken into by another: the   *)
(* terminal's writer changes only when all of its bytes are acknowledged.  *)
WriteUnbroken ==
  [][\A t \in Term :
       writer[t] # NULL /\ writer'[t] # writer[t] =>
         acked'[writer[t]] = tty_write_len[writer[t]]]_vars

(* Every TtyWrite returns.                                                 *)
WriteCompletes ==
  \A p \in Proc : kernel_pc[p] = "tty_write" ~> kernel_pc[p] = "user"

(* A reader that was handed a line returns with it.                        *)
ReadCompletes ==
  \A p \in Proc : tty_read_line[p] # NULL ~> kernel_pc[p] = "user"

============================================================================
