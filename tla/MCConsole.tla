----------------------------- MODULE MCConsole ------------------------------
EXTENDS Console
Read(n, ok) == [op |-> "read", n |-> n, ok |-> ok]
Write(n) == [op |-> "write", n |-> n, ok |-> TRUE]
MCCalls == [p1 |-> {Read(2, TRUE), Read(1, FALSE)}, p2 |-> {Write(1)}]
MCHome == [p1 |-> {"c1", "c2"}, p2 |-> {"c2"}]

\* Without the values that are not read again: what the last read returned, the
\* places of the ring that are free, intena when no lock is held.
MCView ==
    <<locks, tx, uart, plic, cons.r, Span(cons.r, cons.e), U(cons.w - cons.r),
      [c \in CPUs |-> [cpu[c] EXCEPT !.intena = @ /\ cpu[c].noff > 0]],
      [p \in Procs |-> IF proc[p].pc = "user"
                       THEN <<proc[p].state, proc[p].trap>>
                       ELSE <<proc[p].state, proc[p].trap, proc[p].pc, proc[p].n, proc[p].ok,
                              proc[p].killed, proc[p].target, proc[p].got>>]>>
=============================================================================
