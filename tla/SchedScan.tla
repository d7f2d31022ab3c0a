----------------------------- MODULE SchedScan -----------------------------
(***************************************************************************)
(* What the FCFS and priority scans of scheduler() promise although they   *)
(* hold only the lock of their candidate while they look at the other      *)
(* slots.  The history variable since[c] is the set of processes that have *)
(* been RUNNABLE, with the same priority, ever since CPU c began its scan. *)
(***************************************************************************)
EXTENDS Sched

VARIABLE since

ScanVars == <<vars, since>>

Runnable == {p \in Slot : proc[p].state = "RUNNABLE"}

ScanInit == Init /\ since = [c \in CPU |-> {}]

StillRunnable(p) ==
  proc'[p].state = "RUNNABLE" /\ proc'[p].priority = proc[p].priority

Since(c) ==
  IF cpu[c].pc = "top" THEN IF cpu'[c].pc = "scan" THEN Runnable ELSE {}
  ELSE IF cpu'[c].pc # "scan" \/ cpu'[c].policy = SCHED_ROUND_ROBIN THEN {}
  ELSE {p \in since[c] : StillRunnable(p)}

ScanNext == Next /\ since' = [c \in CPU |-> Since(c)]

ScanSpec == ScanInit /\ [][ScanNext]_ScanVars

-----------------------------------------------------------------------------
\* The order in which the policies promise to run processes.
Precedes(policy, p, q) ==
  LET key(r) == IF policy = SCHED_PRIORITY THEN proc[r].priority ELSE 0 IN
  \/ key(p) < key(q)
  \/ key(p) = key(q) /\ proc[p].creation_time < proc[q].creation_time

\* Whatever the other CPUs did during the scan, the candidate is at least as
\* good as every scanned process that has been RUNNABLE throughout, and
\* there is a candidate if there is such a process.  So FCFS never runs a
\* process while an older one was waiting all the time of the scan, priority
\* never one while a more important one was, and neither leaves a CPU idle.
CandidateIsBest ==
  \A c \in CPU : cpu[c].pc = "scan" /\ cpu[c].policy # SCHED_ROUND_ROBIN =>
    \A p \in since[c] : p < cpu[c].i =>
      /\ cpu[c].cand # None
      /\ ~Precedes(cpu[c].policy, p, cpu[c].cand)
=============================================================================
