------------------------------ MODULE SchedRR ------------------------------
(***************************************************************************)
(* The fairness of the round-robin branch of scheduler() as a bound.  The  *)
(* history variable passed[p][q] counts how often q was given a CPU since  *)
(* p last became RUNNABLE, up to one more than the bound.                  *)
(***************************************************************************)
EXTENDS Sched

VARIABLE passed

RRVars == <<vars, passed>>

RRInit == Init /\ passed = [p \in Slot |-> [q \in Slot |-> 0]]

Dispatched(q) == proc[q].state # "RUNNING" /\ proc'[q].state = "RUNNING"

Passed(p, q) ==
  IF proc'[p].state # "RUNNABLE" THEN 0
  ELSE IF Dispatched(q) /\ passed[p][q] <= NCPU THEN passed[p][q] + 1
  ELSE passed[p][q]

RRNext ==
  Next /\ passed' = [p \in Slot |-> [q \in Slot |-> Passed(p, q)]]

RRSpec == RRInit /\ [][RRNext]_RRVars /\ Fairness

-----------------------------------------------------------------------------
\* Bounded waiting: while a process waits in state RUNNABLE, no other
\* process is given a CPU more than once by each CPU, for every CPU meets
\* the waiting process before it comes back to the other one.
BoundedBypass ==
  \A p, q \in Slot : passed[p][q] <= NCPU
=============================================================================
