------------------------------ MODULE Console -------------------------------
(***************************************************************************)
(* The console: reads and writes by processes (console.c), the UART driver *)
(* (uart.c), its interrupt handler on any CPU (trap.c, plic.c), and the    *)
(* spin locks that disable interrupts (spinlock.c).                        *)
(*                                                                         *)
(* A process runs on a CPU until it sleeps or a timer interrupt takes it   *)
(* off; the UART's interrupt is taken by any CPU whose interrupts are on.  *)
(* A critical section of cons.lock or uart_tx_lock is two steps, so that   *)
(* an interrupt can fall into it: the lock is acquired; its body is done   *)
(* and it is released.  A third step in consoleintr() is the echo.  What   *)
(* is printed is not modelled, nor is the counter of keyboard interrupts.  *)
(***************************************************************************)
EXTENDS Spinlock, Sequences, FiniteSets

CONSTANTS
    CPUs,
    Procs,
    Home,        \* [Procs -> the CPUs that schedule it]
    Preempted,   \* bound: the processes that timer interrupts take off the CPU
    Calls,       \* [Procs -> set of [op, n, ok]]: ok is FALSE if the copy out fails
    Typed,       \* what is typed: "x", "nl", "cr", "eof", "erase", "kill"
    SIZE,        \* INPUT_BUF_SIZE
    TXSIZE,      \* UART_TX_BUF_SIZE
    UINT,        \* range of the indices of cons
    None

VARIABLES
    cpu,     \* [CPUs -> [intr, noff, intena, p, hand]]: hand is the handler's pc
    locks,   \* ["cons", "tx" -> CPU or None]
    proc,    \* [Procs -> [state, pc, n, target, got, ok, killed, intena, trap]]
    cons,    \* [r, w, e, buf]
    tx,      \* uart_tx_w - uart_tx_r
    uart,    \* [rx, thr, thri]: a character received, bytes to transmit, "transmitter empty" pending
    plic     \* the CPU that has claimed the UART's interrupt, or None

vars == <<cpu, locks, proc, cons, tx, uart, plic>>

U(x) == x % UINT

\* The processes have been taken off the CPUs in user mode by timer interrupts.
Init ==
    /\ cpu = [c \in CPUs |-> [intr |-> TRUE, noff |-> 0, intena |-> FALSE, p |-> None,
                              hand |-> "none"]]
    /\ locks = [l \in {"cons", "tx"} |-> None]
    /\ proc = [p \in Procs |-> [state |-> "runnable", pc |-> "user", n |-> 0, target |-> 0,
                                got |-> <<>>, ok |-> TRUE, killed |-> FALSE, intena |-> FALSE,
                                trap |-> TRUE]]
    /\ cons = [r |-> 0, w |-> 0, e |-> 0, buf |-> [i \in 0 .. SIZE - 1 |-> "x"]]
    /\ tx = 0
    /\ uart = [rx |-> FALSE, thr |-> 0, thri |-> FALSE]
    /\ plic = None

-----------------------------------------------------------------------------
(* Processes and CPUs *)

InProc(c) == cpu[c].p # None /\ cpu[c].hand = "none"
In(c, pc) == InProc(c) /\ ~proc[cpu[c].p].trap /\ proc[cpu[c].p].pc = pc

wakeup(procs, pc) ==
    [p \in Procs |-> IF procs[p].state = "sleeping" /\ procs[p].pc = pc
                     THEN [procs[p] EXCEPT !.state = "runnable"] ELSE procs[p]]

\* Mutant: the process finds the intena of the CPU it is switched to.
SwitchedTo_cpu(c, p) == [pop_off(push_off(cpu[c])) EXCEPT !.p = p]

\* scheduler() switches to p, which comes out of sched() and releases its lock.
SwitchedTo(c, p) == [pop_off([push_off(cpu[c]) EXCEPT !.intena = proc[p].intena]) EXCEPT !.p = p]

scheduler(c, p) ==
    /\ c \in Home[p] /\ cpu[c].p = None /\ cpu[c].hand = "none" /\ proc[p].state = "runnable"
    /\ cpu' = [cpu EXCEPT ![c] = SwitchedTo(c, p)]
    /\ proc' = [proc EXCEPT ![p].state = "running"]
    /\ UNCHANGED <<locks, cons, tx, uart, plic>>

\* The CPU after sched(): scheduler() releases the process's lock and calls intr_on().
Left(c) == [pop_off(c) EXCEPT !.p = None, !.intr = TRUE]

\* A timer interrupt: yield() in the trap handler.
TimerIntr(c) ==
    LET t == push_off([cpu[c] EXCEPT !.intr = FALSE])
    IN  /\ InProc(c) /\ cpu[c].intr /\ cpu[c].p \in Preempted
        /\ proc' = [proc EXCEPT ![cpu[c].p] =
                       [@ EXCEPT !.state = "runnable", !.trap = TRUE, !.intena = t.intena]]
        /\ cpu' = [cpu EXCEPT ![c] = Left(t)]
        /\ UNCHANGED <<locks, cons, tx, uart, plic>>

\* sret at the end of the trap handler; a killed process exits, and another takes its place.
trapret(c) ==
    /\ InProc(c) /\ proc[cpu[c].p].trap
    /\ proc' = [proc EXCEPT ![cpu[c].p].trap = FALSE]
    /\ cpu' = [cpu EXCEPT ![c].intr = TRUE]
    /\ UNCHANGED <<locks, cons, tx, uart, plic>>

syscall(c) ==
    /\ In(c, "user")
    /\ \E k \in Calls[cpu[c].p] :
          proc' = [proc EXCEPT ![cpu[c].p] = [@ EXCEPT !.pc = k.op, !.n = k.n, !.target = k.n,
                                                       !.ok = k.ok, !.got = <<>>]]
    /\ UNCHANGED <<cpu, locks, cons, tx, uart, plic>>

kill(p) ==
    /\ ~proc[p].killed /\ proc[p].pc = "read"
    /\ proc' = [proc EXCEPT ![p].killed = TRUE,
                            ![p].state = IF @ = "sleeping" THEN "runnable" ELSE @]
    /\ UNCHANGED <<cpu, locks, cons, tx, uart, plic>>

Acquire(c, l) ==
    /\ locks[l] = None
    /\ locks' = Acquired(locks, l, c)
    /\ cpu' = [cpu EXCEPT ![c] = push_off(@)]

Release(c, l) ==
    /\ locks' = Released(locks, l, None)
    /\ cpu' = [cpu EXCEPT ![c] = pop_off(@)]

\* sleep() on the lock l: afterwards it is acquired again, at pc.
Sleep(c, l, r, pc) ==
    /\ locks' = Released(locks, l, None)
    /\ cpu' = [cpu EXCEPT ![c] = Left(@)]
    /\ proc' = [proc EXCEPT ![cpu[c].p] =
                   [r EXCEPT !.state = "sleeping", !.intena = cpu[c].intena, !.pc = pc]]

-----------------------------------------------------------------------------
(* consoleread *)

read_acquire(c) ==
    /\ In(c, "read") /\ Acquire(c, "cons")
    /\ proc' = [proc EXCEPT ![cpu[c].p].pc = "consoleread"]
    /\ UNCHANGED <<cons, tx, uart, plic>>

\* Mutant: the end of file is consumed although bytes were read before it.
AfterEof_consumed(r, p) == U(r + 1)

AfterEof(r, p) == IF p.n < p.target THEN r ELSE U(r + 1)

\* The loop of consoleread: from index r and process record p to [r, p, done].
RECURSIVE Consume(_, _)
Consume(r, p) ==
    LET ch == cons.buf[r % SIZE]
        Got(q) == IF ch = "nl" THEN [r |-> U(r + 1), p |-> q, done |-> TRUE]
                  ELSE Consume(U(r + 1), q)
    IN  IF p.n = 0 THEN [r |-> r, p |-> p, done |-> TRUE]
        ELSE IF r = cons.w THEN [r |-> r, p |-> p, done |-> p.killed]
        ELSE IF ch = "eof" THEN [r |-> AfterEof(r, p), p |-> p, done |-> TRUE]
        ELSE IF ~p.ok THEN [r |-> U(r + 1), p |-> p, done |-> TRUE]
        ELSE Got([p EXCEPT !.n = @ - 1, !.got = Append(@, ch)])

consoleread(c) ==
    /\ In(c, "consoleread")
    /\ \E x \in {Consume(cons.r, proc[cpu[c].p])} :
          /\ cons' = [cons EXCEPT !.r = x.r]
          /\ \/ ~x.done /\ Sleep(c, "cons", x.p, "read")
             \/ /\ x.done /\ Release(c, "cons")
                /\ proc' = [proc EXCEPT ![cpu[c].p] =
                               [x.p EXCEPT !.pc = "user", !.n = 0, !.killed = FALSE]]
    /\ UNCHANGED <<tx, uart, plic>>

-----------------------------------------------------------------------------
(* The UART and consolewrite *)

\* Mutant: a writer is woken only when bytes are left to send.
Woken_left(procs, left) == IF left > 0 THEN wakeup(procs, "write") ELSE procs

Woken(procs, left) == wakeup(procs, "write")

\* Reading ISR ends the "transmitter empty" interrupt, unless it says "received".
ReadISR(u) == IF u.rx THEN u ELSE [u EXCEPT !.thri = FALSE]

\* uartstart with n > 0 bytes in the ring sends k of them; the transmitter may be
\* done with one before the next test.  At the end of the ring ISR is read.
uartstart(n, procs) ==
    LET Busy == [uart EXCEPT !.thr = 1, !.thri = FALSE]
        Sent(k) == {Busy} \cup (IF k < n THEN {}
                                ELSE {ReadISR([Busy EXCEPT !.thr = 0, !.thri = TRUE])})
    IN  \/ uart.thr > 0 /\ tx' = n /\ proc' = procs /\ UNCHANGED uart
        \/ \E k \in 1 .. n :
              /\ uart.thr = 0
              /\ tx' = n - k
              /\ uart' \in Sent(k)
              /\ proc' = Woken(procs, n - k)

write_acquire(c) ==
    /\ In(c, "write") /\ Acquire(c, "tx")
    /\ proc' = [proc EXCEPT ![cpu[c].p].pc = "uartputc"]
    /\ UNCHANGED <<cons, tx, uart, plic>>

\* uartputc for one byte of consolewrite.
uartputc(c) ==
    LET p == proc[cpu[c].p]
    IN  /\ In(c, "uartputc")
        /\ \/ tx = TXSIZE /\ Sleep(c, "tx", p, "write") /\ UNCHANGED <<tx, uart>>
           \/ /\ tx # TXSIZE
              /\ uartstart(tx + 1, [proc EXCEPT ![cpu[c].p] =
                              [@ EXCEPT !.n = @ - 1, !.pc = IF p.n = 1 THEN "user" ELSE "write"]])
              /\ Release(c, "tx")
        /\ UNCHANGED <<cons, plic>>

\* The device (external): a byte is transmitted, a character arrives.
Transmitted ==
    /\ uart.thr > 0
    /\ uart' = [uart EXCEPT !.thr = @ - 1, !.thri = @ \/ uart.thr = 1]
    /\ UNCHANGED <<cpu, locks, proc, cons, tx, plic>>

Arrived ==
    /\ ~uart.rx
    /\ uart' = [uart EXCEPT !.rx = TRUE]
    /\ UNCHANGED <<cpu, locks, proc, cons, tx, plic>>

-----------------------------------------------------------------------------
(* The interrupt handler: devintr, uartintr, consoleintr *)

Hand(c, pc) == cpu[c].hand = pc

\* The interrupt goes to one CPU, and is not raised again before it is complete.
plic_claim(c) == plic = None /\ plic' = c
plic_complete == plic' = None

\* The trap turns interrupts off.
devintr(c) ==
    /\ cpu[c].intr /\ Hand(c, "none")
    /\ uart.rx \/ uart.thri
    /\ plic_claim(c)
    /\ cpu' = [cpu EXCEPT ![c].intr = FALSE, ![c].hand = "uartintr"]
    /\ UNCHANGED <<locks, proc, cons, tx, uart>>

\* uartgetc, and cons.lock for what was received or uart_tx_lock for uartstart.
uartintr(c) ==
    LET l == IF uart.rx THEN "cons" ELSE "tx"
    IN  /\ Hand(c, "uartintr") /\ locks[l] = None
        /\ uart' = [uart EXCEPT !.rx = FALSE]
        /\ locks' = Acquired(locks, l, c)
        /\ cpu' = [cpu EXCEPT ![c] = [push_off(@) EXCEPT !.hand = l]]
        /\ UNCHANGED <<proc, cons, tx, plic>>

Room == U(cons.e - cons.r) < SIZE

\* Whether the character changes the line, and is echoed.
Changes(ch) == IF ch \in {"erase", "kill"} THEN cons.e # cons.w ELSE Room

\* Kill goes back to the last newline or to w.
RECURSIVE KillTo(_)
KillTo(e) == IF e # cons.w /\ cons.buf[U(e - 1) % SIZE] # "nl" THEN KillTo(U(e - 1)) ELSE e

Store(ch) ==
    LET e == U(cons.e + 1)
        ends == ch \in {"nl", "eof"} \/ U(e - cons.r) = SIZE
    IN  [cons EXCEPT !.buf[cons.e % SIZE] = ch, !.e = e, !.w = IF ends THEN e ELSE @]

NewCons(ch) ==
    CASE ch = "erase" -> [cons EXCEPT !.e = U(@ - 1)]
      [] ch = "kill" -> [cons EXCEPT !.e = KillTo(@)]
      [] ch = "cr" -> Store("nl")
      [] OTHER -> Store(ch)

\* consoleintr, for a character that was typed: nothing to do, or the line is
\* changed and the echo waits until the transmitter is idle.  Echo and change are
\* made under cons.lock, so that their order does not show.
consoleintr(c) ==
    /\ Hand(c, "cons")
    /\ \E ch \in Typed :
          \/ /\ ~Changes(ch)
             /\ locks' = Released(locks, "cons", None)
             /\ cpu' = [cpu EXCEPT ![c] = [pop_off(@) EXCEPT !.hand = "uartintr"]]
             /\ UNCHANGED <<proc, cons>>
          \/ /\ Changes(ch) /\ uart.thr = 0
             /\ cons' = NewCons(ch)
             /\ proc' = IF cons'.w # cons.w THEN wakeup(proc, "read") ELSE proc
             /\ cpu' = [cpu EXCEPT ![c] = [push_off(@) EXCEPT !.hand = "echo"]]
             /\ UNCHANGED locks
    /\ UNCHANGED <<tx, uart, plic>>

\* uartputc_sync writes to the transmitter, also if uartstart on another CPU has
\* done so after the test.
echo(c) ==
    /\ Hand(c, "echo")
    /\ uart' = [uart EXCEPT !.thr = @ + 1, !.thri = FALSE]
    /\ locks' = Released(locks, "cons", None)
    /\ cpu' = [cpu EXCEPT ![c] = [pop_off(pop_off(@)) EXCEPT !.hand = "uartintr"]]
    /\ UNCHANGED <<proc, cons, tx, plic>>

\* The end of uartintr and devintr; sret.
uartintr_tx(c) ==
    /\ Hand(c, "tx")
    /\ \/ tx = 0 /\ uart' = ReadISR(uart) /\ UNCHANGED <<tx, proc>>
       \/ tx > 0 /\ uartstart(tx, proc)
    /\ locks' = Released(locks, "tx", None)
    /\ cpu' = [cpu EXCEPT ![c] = [pop_off(@) EXCEPT !.hand = "none", !.intr = TRUE]]
    /\ plic_complete
    /\ UNCHANGED cons

Next ==
    \/ \E c \in CPUs :
        \/ \E p \in Procs : scheduler(c, p)
        \/ TimerIntr(c) \/ trapret(c) \/ syscall(c)
        \/ read_acquire(c) \/ consoleread(c) \/ write_acquire(c) \/ uartputc(c)
        \/ devintr(c) \/ uartintr(c) \/ consoleintr(c) \/ echo(c)
        \/ uartintr_tx(c)
    \/ \E p \in Procs : kill(p)
    \/ Transmitted \/ Arrived

Spec == Init /\ [][Next]_vars

-----------------------------------------------------------------------------
(* Properties *)

Held(c) == {l \in DOMAIN locks : locks[l] = c}

\* Interrupts are off on a CPU that holds a lock or is in a trap handler, so that
\* a handler never waits for a lock its own CPU holds (acquire()'s panic); noff
\* counts the locks held; and everywhere else interrupts are on again, whichever
\* CPU the process has been moved to.
IntrDiscipline ==
    \A c \in CPUs :
        LET trap == Hand(c, "none") /\ cpu[c].p # None /\ proc[cpu[c].p].trap
        IN  /\ cpu[c].intr <=> Held(c) = {} /\ Hand(c, "none") /\ ~trap
            /\ cpu[c].noff = Cardinality(Held(c)) + (IF Hand(c, "echo") THEN 1 ELSE 0)
            /\ Hand(c, "uartintr") => Held(c) = {}

\* Nobody sleeps without need or for good: a sleeping reader has nothing to read,
\* and the ring has room for more, so that a line too long for it is handed over;
\* a writer sleeps only while the ring is full, and then the transmitter is busy,
\* or its interrupt is pending or being handled, so that uartstart() will run.
SleepersAwaited ==
    \A p \in Procs : proc[p].state = "sleeping" =>
        /\ proc[p].pc = "read" => cons.r = cons.w /\ Room
        /\ proc[p].pc = "write" =>
              /\ tx = TXSIZE
              /\ uart.thr > 0 \/ uart.thri \/ plic # None

\* The bytes of the ring from index a up to index b.
Span(a, b) == [i \in 1 .. U(b - a) |-> cons.buf[U(a + i - 1) % SIZE]]

T == INSTANCE Tty WITH
         Sizes <- {k.n : k \in {x \in UNION {Calls[p] : p \in Procs} : x.op = "read"}},
         line <- Span(cons.w, cons.e), ready <- Span(cons.r, cons.w),
         got <- [p \in Procs |-> proc[p].got],
         want <- [p \in Procs |-> IF proc[p].pc \in {"read", "consoleread"} THEN proc[p].n ELSE 0]

\* With indices that wrap around, a ring that is edited at one end and read at the
\* other, and lines longer than the ring, the console is what Tty says.
TtySpec == T!Spec
=============================================================================
