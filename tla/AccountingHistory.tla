------------------------- MODULE AccountingHistory -------------------------
(***************************************************************************)
(* The accounting compared with what really happened: history variables    *)
(* count the ticks a process has lived and those it spent RUNNABLE.  The   *)
(* latter are unsigned as in the code, so that the comparison also covers  *)
(* the wrap-around of ticks.                                               *)
(***************************************************************************)
EXTENDS Accounting

VARIABLES
  age,      \* age[p]: ticks since p was allocated (since the start for init)
  waited,   \* waited[p]: ticks p has spent RUNNABLE since it was allocated
  lost      \* the part of them in stretches that began when ticks was 0

HistoryVars == <<vars, age, waited, lost>>

HistoryInit ==
  /\ Init
  /\ age = [p \in Slot |-> 0]
  /\ waited = [p \in Slot |-> 0]
  /\ lost = [p \in Slot |-> 0]

\* A counter of p that a tick advances when cond holds.
Advance(counter, p, cond) ==
  IF proc'[p].state = "UNUSED" THEN 0
  ELSE IF cond /\ ticks' # ticks THEN counter + 1 ELSE counter

HistoryNext ==
  /\ Next
  /\ age' = [p \in Slot |-> Advance(age[p], p, Alive(p))]
  /\ waited' = [p \in Slot |->
       U(Advance(waited[p], p, proc[p].state = "RUNNABLE"))]
  /\ lost' = [p \in Slot |->
       U(Advance(lost[p], p, proc[p].state = "RUNNABLE" /\ proc[p].last_runnable_time = 0))]

HistorySpec == HistoryInit /\ [][HistoryNext]_HistoryVars

-----------------------------------------------------------------------------
\* run_time never exceeds the age by more than one: on another CPU a process
\* may be created and run between ticks++ and update_time().  In particular no
\* run time is inherited from the last user of the slot.
RunTimeWithinLife ==
  \A p \in Slot : Alive(p) => proc[p].run_time <= age[p] + 1

\* The waiting time as the kernel knows it, with the wait that is going on.
Counted(p) ==
  IF proc[p].state = "RUNNABLE" THEN WaitingTime(p)
  ELSE proc[p].total_waiting_time

\* total_waiting_time is exact: it is the number of ticks the process spent
\* RUNNABLE, except for waits that began at a time stamp 0, and stays so
\* when ticks wraps around in the middle of a wait: no stretch is counted
\* twice, and none is inherited from the last user of the slot.
WaitingExact ==
  \A p \in Slot : Alive(p) => U(Counted(p) + lost[p]) = waited[p]

\* The times that getptable() and the metrics report are those that passed.
TimesExact == TypeOK /\ WaitingExact /\ RunTimeWithinLife
=============================================================================
