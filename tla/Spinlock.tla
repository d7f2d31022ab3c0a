------------------------------ MODULE Spinlock ------------------------------
(***************************************************************************)
(* spinlock.c: what acquire() and release() do to the interrupt state of a *)
(* CPU.  A CPU is a record with intr (SIE), noff and intena of struct cpu; *)
(* locks is a function from locks to the CPU that holds each, or None.     *)
(***************************************************************************)
EXTENDS Integers

push_off(c) ==
    [c EXCEPT !.intena = IF c.noff = 0 THEN c.intr ELSE @, !.intr = FALSE, !.noff = @ + 1]

pop_off(c) == [c EXCEPT !.noff = @ - 1, !.intr = @ \/ (c.noff = 1 /\ c.intena)]

\* acquire() spins with interrupts off until the lock is free, and then has it.
Acquired(locks, l, id) == [locks EXCEPT ![l] = id]
Released(locks, l, none) == [locks EXCEPT ![l] = none]
=============================================================================
