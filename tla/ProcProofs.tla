----------------------------- MODULE ProcProofs -----------------------------
(***************************************************************************)
(* What module Proc promises about exit() and wait(), for any number of    *)
(* processes, any system calls and any pids: wait() misses no child that   *)
(* exits, and the parent of a process is alive whenever the kernel follows *)
(* p->parent, also where it does so without wait_lock.                     *)
(***************************************************************************)
EXTENDS Proc, TLAPS

USE Zenon

\* Places in exit(), and places where wait_lock is held.
Exiting == {"exit", "reparent", "reparent_wakeup", "exit_wakeup", "exit_zombie"}

Holding ==
  {"reparent", "reparent_wakeup", "exit_wakeup", "exit_zombie", "wait_scan",
   "wait_sleep"}

\* Where the thread of a process can be in each of its states, and what the
\* loops of exit() have in their variables.
PlaceInv ==
  \A p \in Slot :
    /\ proc[p].state \in {"UNUSED", "USED"} => thread[p].pc = "user"
    /\ proc[p].state \in {"SLEEPING", "RUNNABLE"} => thread[p].pc \in {"user", "wait"}
    /\ proc[p].state = "ZOMBIE" => thread[p].pc = "exit_zombie"
    /\ thread[p].pc \in Exiting => p # initproc
    /\ thread[p].pc = "exit" => thread[p].i = 0 /\ thread[p].j = 0
    /\ thread[p].pc = "reparent" => thread[p].j = 0
    /\ thread[p].pc = "reparent_wakeup" => thread[p].i < NPROC

\* init lives and has no parent; nobody is its own parent; a free slot has
\* none.
TreeInv ==
  /\ proc[initproc].state \in Living /\ proc[initproc].parent = None
  /\ \A p \in Slot : /\ proc[p].parent # p
                     /\ proc[p].state = "UNUSED" => proc[p].parent = None

\* wait_lock is held where the code says it is.
HolderInv ==
  \A p \in Slot :
    wait_lock = p <=> thread[p].pc \in Holding /\ proc[p].state = "RUNNING"

\* The slot that fork() fills belongs to one fork().
ForkInv ==
  \A p \in Slot : thread[p].pc \in {"fork_parent", "fork_start"} =>
    /\ thread[p].arg \in Slot
    /\ proc[thread[p].arg].state = "USED"
    /\ proc[thread[p].arg].parent = IF thread[p].pc = "fork_start" THEN p ELSE None
    /\ \A q \in Slot : /\ thread[q].pc \in {"fork_parent", "fork_start"}
                       /\ thread[q].arg = thread[p].arg
                       => q = p

\* A process that exits has given away the children it has passed.
ReparentInv ==
  \A p, q \in Slot : proc[q].parent = p =>
    /\ thread[p].pc \notin {"exit_wakeup", "exit_zombie"}
    /\ thread[p].pc = "reparent" => thread[p].i <= q
    /\ thread[p].pc = "reparent_wakeup" => thread[p].i < q

\* A process that exits has woken its parent, if it has passed it.
WokenInv ==
  \A p, q \in Slot :
    /\ proc[p].state = "RUNNING" /\ proc[p].parent = q
    /\ \/ thread[p].pc = "exit_zombie"
       \/ thread[p].pc = "exit_wakeup" /\ q < thread[p].j
    => ~(proc[q].state = "SLEEPING" /\ proc[q].chan = q)

\* While getptable() holds the lock of a slot, the parent it has read there
\* cannot get further in exit() than the wakeup() of that slot.
PtableInv ==
  \A p \in Slot : thread[p].pc = "getptable_pid" =>
    LET q == thread[p].i
        r == thread[p].arg
    IN  /\ q \in Slot /\ plock[q] = p
        /\ r \in Slot /\ r # q
        /\ \/ proc[q].parent = r
           \/ thread[r].pc = "reparent" /\ q < thread[r].i
           \/ thread[r].pc = "reparent_wakeup" /\ q <= thread[r].i
           \/ thread[r].pc = "exit_wakeup" /\ thread[r].j <= q

ProcInv ==
  /\ TypeOK /\ PlaceInv /\ TreeInv /\ HolderInv /\ ForkInv
  /\ ParentAlive /\ ReparentInv /\ WokenInv /\ NoMissedExit /\ WaitScanValid
  /\ PtableInv

\* What the steps that follow say about the threads and the processes.
LEMMA TypeFacts ==
  ASSUME TypeOK
  PROVE  /\ NPROC \in Nat /\ NPROC > 0 /\ initproc \in Slot
         /\ \A p \in Slot :
              /\ p \in Nat /\ p < NPROC /\ p # None
              /\ proc[p].state \in ProcState
              /\ proc[p].parent \in Slot \cup {None}
              /\ thread[p].i \in 0..NPROC /\ thread[p].j \in Slot
<1>1. NPROC \in Nat /\ NPROC > 0 /\ initproc \in Slot
  BY SMT, ProcAssumption DEF Slot, initproc
<1>2. \A p \in Slot : p \in Nat /\ p < NPROC /\ p # None
  BY SMT, <1>1 DEF Slot, None
<1>3. \A p \in Slot : proc[p] \in ProcRec /\ thread[p] \in ThreadRec
  BY DEF TypeOK
<1> QED
  BY <1>1, <1>2, <1>3 DEF ProcRec, ThreadRec

LEMMA InitInv ==
  ASSUME Init
  PROVE  ProcInv
<1> USE ProcAssumption DEF Slot, None, initproc
<1>1. /\ \A p \in Slot : /\ thread[p] = UserMode
                          /\ proc[p].parent = None
                          /\ proc[p].state = IF p = 0 THEN "RUNNABLE" ELSE "UNUSED"
      /\ wait_lock = None
  BY DEF Init, UnusedProc
<1>2. TypeOK
  <2>1. UserMode \in ThreadRec
    BY SMT DEF UserMode, ThreadRec, Place
  <2>2. /\ UnusedProc \in ProcRec
        /\ [UnusedProc EXCEPT !.state = "RUNNABLE", !.pid = 1] \in ProcRec
    BY DEF UnusedProc, ProcRec, ProcState, Other
  <2> QED
    BY <2>1, <2>2 DEF Init, TypeOK
<1>3. PlaceInv /\ TreeInv /\ HolderInv /\ ForkInv
  BY SMT, <1>1 DEF PlaceInv, TreeInv, HolderInv, ForkInv, UserMode, Exiting, Holding, Living
<1>4. ParentAlive /\ ReparentInv /\ WokenInv /\ NoMissedExit /\ WaitScanValid /\ PtableInv
  BY SMT, <1>1 DEF ParentAlive, ReparentInv, WokenInv, NoMissedExit, WaitScanValid, PtableInv,
              UserMode, Living
<1> QED
  BY <1>2, <1>3, <1>4 DEF ProcInv

\* Places where nothing is held and no slot is being filled.
Quiet == {"user", "fork", "exit", "wait", "kill", "getppid", "getptable"}

\* A process is woken, or picked by the scheduler.
Roused(q) ==
  \/ proc[q].state = "SLEEPING" /\ proc'[q].state = "RUNNABLE"
  \/ proc[q].state = "RUNNABLE" /\ proc'[q].state = "RUNNING"

Same(q) == proc'[q].state = proc[q].state /\ proc'[q].chan = proc[q].chan

\* The thread of p goes from one such place to another, and processes are
\* woken or picked.
LEMMA QuietStep ==
  ASSUME ProcInv, TypeOK', NEW p \in Slot,
         proc[p].state = "RUNNING" \/ thread'[p] = thread[p],
         \A q \in Slot : q # p => thread'[q] = thread[q],
         thread'[p] = thread[p] \/ {thread[p].pc, thread'[p].pc} \subseteq Quiet,
         thread'[p].pc = "exit" => p # initproc /\ thread'[p].i = 0 /\ thread'[p].j = 0,
         \A q \in Slot : /\ proc'[q].parent = proc[q].parent
                         /\ Same(q) \/ Roused(q),
         UNCHANGED <<plock, wait_lock>>
  PROVE  ProcInv'
<1> USE DEF ProcInv
<1>1. PlaceInv'
  BY SMT, TypeFacts DEF PlaceInv, Same, Roused, Quiet, Exiting
<1>2. TreeInv'
  BY SMT, TypeFacts DEF TreeInv, Same, Roused, Living
<1>3. HolderInv'
  <2> SUFFICES ASSUME NEW q \in Slot
               PROVE  wait_lock' = q <=> thread'[q].pc \in Holding /\ proc'[q].state = "RUNNING"
    BY DEF HolderInv
  <2> QED
    BY SMT, TypeFacts DEF HolderInv, PlaceInv, Same, Roused, Quiet, Holding
<1>4. ForkInv'
  BY SMT, TypeFacts DEF ForkInv, Same, Roused, Quiet
<1>5. ParentAlive' /\ ReparentInv'
  BY SMT, TypeFacts DEF ParentAlive, ReparentInv, Same, Roused, Living, Quiet
<1>6. WokenInv'
  BY SMT, TypeFacts DEF WokenInv, PlaceInv, Same, Roused, Quiet
<1>7. NoMissedExit'
  BY SMT, TypeFacts DEF NoMissedExit, HolderInv, Same, Roused, Quiet, Holding, TypeOK
<1>8. WaitScanValid'
  BY SMT, TypeFacts DEF WaitScanValid, Same, Roused, Quiet
<1>9. PtableInv'
  BY SMTT(40), TypeFacts DEF PtableInv, Quiet
<1> QED
  BY <1>1, <1>2, <1>3, <1>4, <1>5, <1>6, <1>7, <1>8, <1>9

\* Where Call(p, pc, arg) and Return(p) leave the thread.
LEMMA CallFacts ==
  ASSUME TypeOK, NEW p \in Slot, NEW pc \in Place, NEW arg \in Int,
         Call(p, pc, arg)
  PROVE  /\ thread' \in [Slot -> ThreadRec]
         /\ \A q \in Slot : q # p => thread'[q] = thread[q]
         /\ thread'[p].pc = pc /\ thread'[p].i = 0 /\ thread'[p].j = 0
         /\ thread'[p].arg = arg /\ thread'[p].havekids = FALSE
<1> DEFINE t == [UserMode EXCEPT !.pc = pc, !.arg = arg]
<1>0. UserMode \in ThreadRec
  BY SMT, ProcAssumption DEF UserMode, ThreadRec, Slot, Place
<1>1. /\ t \in ThreadRec
      /\ t.pc = pc /\ t.i = UserMode.i /\ t.j = UserMode.j /\ t.arg = arg
      /\ t.havekids = UserMode.havekids
  BY <1>0 DEF ThreadRec
<1>3. UserMode.i = 0 /\ UserMode.j = 0 /\ UserMode.havekids = FALSE
  BY DEF UserMode
<1>2. thread' = [thread EXCEPT ![p] = t]
  BY DEF Call
<1> HIDE DEF t
<1> QED
  BY <1>1, <1>2, <1>3 DEF TypeOK

LEMMA ReturnFacts ==
  ASSUME TypeOK, NEW p \in Slot, Return(p)
  PROVE  /\ thread' \in [Slot -> ThreadRec]
         /\ \A q \in Slot : q # p => thread'[q] = thread[q]
         /\ thread'[p].pc = "user"
<1>1. UserMode \in ThreadRec /\ UserMode.pc = "user"
  BY SMT, ProcAssumption DEF UserMode, ThreadRec, Slot, Place
<1> QED
  BY <1>1 DEF TypeOK, Return

\* The loops over the table, and Goto(p, pc)
LEMMA LoopFacts ==
  ASSUME TypeOK, NEW p \in Slot, thread[p].i < NPROC,
         thread' = [thread EXCEPT ![p].i = @ + 1]
  PROVE  /\ thread' \in [Slot -> ThreadRec]
         /\ \A q \in Slot : q # p => thread'[q] = thread[q]
         /\ thread'[p].pc = thread[p].pc /\ thread'[p].i = thread[p].i + 1
         /\ thread'[p].j = thread[p].j /\ thread'[p].arg = thread[p].arg
<1> DEFINE t == [thread[p] EXCEPT !.i = @ + 1]
<1>1. thread[p] \in ThreadRec /\ NPROC \in Nat
  BY ProcAssumption DEF TypeOK
<1>2. /\ t \in ThreadRec
      /\ t.pc = thread[p].pc /\ t.i = thread[p].i + 1 /\ t.j = thread[p].j
      /\ t.arg = thread[p].arg
  BY SMT, <1>1 DEF ThreadRec
<1>3. thread' = [thread EXCEPT ![p] = t]
  BY DEF TypeOK
<1> HIDE DEF t
<1> QED
  BY <1>2, <1>3 DEF TypeOK

LEMMA GotoFacts ==
  ASSUME TypeOK, NEW p \in Slot, NEW pc \in Place, Goto(p, pc)
  PROVE  /\ thread' \in [Slot -> ThreadRec]
         /\ \A q \in Slot : q # p => thread'[q] = thread[q]
         /\ thread'[p].pc = pc /\ thread'[p].i = thread[p].i
         /\ thread'[p].j = thread[p].j /\ thread'[p].arg = thread[p].arg
<1> DEFINE t == [thread[p] EXCEPT !.pc = pc]
<1>1. thread[p] \in ThreadRec
  BY DEF TypeOK
<1>2. /\ t \in ThreadRec
      /\ t.pc = pc /\ t.i = thread[p].i /\ t.j = thread[p].j /\ t.arg = thread[p].arg
  BY <1>1 DEF ThreadRec
<1>3. thread' = [thread EXCEPT ![p] = t]
  BY DEF TypeOK, Goto
<1> HIDE DEF t
<1> QED
  BY <1>2, <1>3 DEF TypeOK

\* A process changes its state; the channel is set or cleared with it.
LEMMA StateFacts ==
  ASSUME TypeOK, NEW q \in Slot, NEW s \in ProcState, NEW c \in Slot \cup {Other, None},
         NEW k \in BOOLEAN,
         proc' = [proc EXCEPT ![q].state = s, ![q].chan = c, ![q].killed = k]
  PROVE  /\ proc' \in [Slot -> ProcRec]
         /\ \A r \in Slot : r # q => proc'[r] = proc[r]
         /\ proc'[q].state = s /\ proc'[q].chan = c
         /\ proc'[q].parent = proc[q].parent
<1> DEFINE r == [proc[q] EXCEPT !.state = s, !.chan = c, !.killed = k]
<1>1. proc[q] \in ProcRec
  BY DEF TypeOK
<1>2. /\ r \in ProcRec
      /\ r.state = s /\ r.chan = c /\ r.parent = proc[q].parent
  BY <1>1 DEF ProcRec
<1>3. proc' = [proc EXCEPT ![q] = r]
  BY DEF TypeOK
<1> HIDE DEF r
<1>4. /\ proc'[q] = r
      /\ \A x \in Slot : x # q => proc'[x] = proc[x]
  BY <1>3, Zenon DEF TypeOK
<1>5. proc' \in [Slot -> ProcRec]
  BY <1>2, <1>3, Zenon DEF TypeOK
<1> QED
  BY <1>2, <1>4, <1>5, Zenon

\* The same for a step that only sets the state.
LEMMA SetState ==
  ASSUME TypeOK, NEW q \in Slot, NEW s \in ProcState,
         proc' = [proc EXCEPT ![q].state = s]
  PROVE  /\ proc' \in [Slot -> ProcRec]
         /\ \A r \in Slot : r # q => proc'[r] = proc[r]
         /\ proc'[q].state = s /\ proc'[q].chan = proc[q].chan
         /\ proc'[q].parent = proc[q].parent
<1> DEFINE r == [proc[q] EXCEPT !.state = s]
<1>1. proc[q] \in ProcRec
  BY DEF TypeOK
<1>2. /\ r \in ProcRec
      /\ r.state = s /\ r.chan = proc[q].chan /\ r.parent = proc[q].parent
  BY <1>1 DEF ProcRec
<1>3. proc' = [proc EXCEPT ![q] = r]
  BY DEF TypeOK
<1> HIDE DEF r
<1> QED
  BY <1>2, <1>3 DEF TypeOK

-----------------------------------------------------------------------------
(* Steps between quiet places                                              *)

LEMMA SysCallStep ==
  ASSUME ProcInv, NEW p \in Slot,
         \/ Fork(p) \/ Exit(p) \/ Wait(p) \/ \E pid \in KillPids : Kill(p, pid)
         \/ GetPpid(p) \/ GetPtable(p)
  PROVE  ProcInv'
<1> USE DEF ProcInv
<1>1. PICK pc \in Quiet, arg \in Int :
        Call(p, pc, arg) /\ (pc = "exit" => p # initproc)
  <2>1. proc[p].parent \in Int /\ None \in Int /\ KillPids \subseteq Int
    BY SMT, ProcAssumption, TypeFacts DEF Slot, None
  <2> QED
    BY <2>1 DEF Fork, Exit, Wait, Kill, GetPpid, GetPtable, Quiet
<1>2. /\ proc[p].state = "RUNNING" /\ thread[p].pc = "user"
      /\ UNCHANGED <<proc, plock, wait_lock, nextpid>>
  BY DEF Fork, Exit, Wait, Kill, GetPpid, GetPtable, InUser, At
<1>3. pc \in Place
  BY DEF Quiet, Place
<1>4. TypeOK'
  BY <1>1, <1>2, <1>3, CallFacts DEF TypeOK
<1>5. /\ \A q \in Slot : q # p => thread'[q] = thread[q]
      /\ thread'[p].pc = pc /\ thread'[p].i = 0 /\ thread'[p].j = 0
  BY <1>1, <1>3, CallFacts
<1>6. {thread[p].pc, thread'[p].pc} \subseteq Quiet
  BY <1>1, <1>2, <1>5 DEF Quiet
<1> QED
  BY <1>1, <1>2, <1>4, <1>5, <1>6, QuietStep DEF Same

LEMMA LoopStep ==
  ASSUME ProcInv, NEW p \in Slot,
         ForkSkip(p) \/ KillSkip(p) \/ GetPtableSkip(p)
  PROVE  ProcInv'
<1> USE DEF ProcInv
<1>1. /\ proc[p].state = "RUNNING" /\ thread[p].pc \in {"fork", "kill", "getptable"}
      /\ thread[p].i < NPROC /\ thread' = [thread EXCEPT ![p].i = @ + 1]
      /\ UNCHANGED <<proc, plock, wait_lock, nextpid>>
  BY DEF ForkSkip, KillSkip, GetPtableSkip, At
<1>2. TypeOK'
  BY <1>1, LoopFacts DEF TypeOK
<1> QED
  BY SMT, <1>1, <1>2, LoopFacts, QuietStep DEF Quiet, Same

LEMMA ReturnStep ==
  ASSUME ProcInv, NEW p \in Slot,
         ForkNone(p) \/ KillNone(p) \/ GetPpidReturn(p) \/ GetPtableEnd(p)
  PROVE  ProcInv'
<1> USE DEF ProcInv
<1>1. /\ proc[p].state = "RUNNING" /\ thread[p].pc \in {"fork", "kill", "getppid", "getptable"}
      /\ Return(p)
      /\ UNCHANGED <<proc, plock, wait_lock, nextpid>>
  BY DEF ForkNone, KillNone, GetPpidReturn, GetPtableEnd, At
<1>2. TypeOK'
  BY <1>1, ReturnFacts DEF TypeOK
<1> QED
  BY <1>1, <1>2, ReturnFacts, QuietStep DEF Quiet, Same

LEMMA RunStep ==
  ASSUME ProcInv, NEW p \in Slot, Run(p)
  PROVE  ProcInv'
<1> USE DEF ProcInv
<1>1. /\ proc[p].state = "RUNNABLE" /\ proc[p].killed \in BOOLEAN
      /\ proc' = [proc EXCEPT ![p].state = "RUNNING", ![p].chan = None,
                              ![p].killed = proc[p].killed]
      /\ UNCHANGED <<plock, wait_lock, nextpid, thread>>
  <2>1. proc[p] \in ProcRec
    BY DEF TypeOK
  <2>2. [proc[p] EXCEPT !.state = "RUNNING", !.chan = None]
          = [proc[p] EXCEPT !.state = "RUNNING", !.chan = None, !.killed = proc[p].killed]
    BY <2>1 DEF ProcRec
  <2> QED
    BY <2>1, <2>2 DEF Run, TypeOK, ProcRec
<1>2. "RUNNING" \in ProcState
  BY DEF ProcState
<1>3. TypeOK'
  BY <1>1, <1>2, StateFacts DEF TypeOK
<1>4. \A q \in Slot : /\ proc'[q].parent = proc[q].parent
                      /\ Same(q) \/ Roused(q)
  <2>1. /\ \A r \in Slot : r # p => proc'[r] = proc[r]
        /\ proc'[p].state = "RUNNING" /\ proc'[p].parent = proc[p].parent
    BY <1>1, <1>2, StateFacts
  <2> QED
    BY <1>1, <2>1 DEF Same, Roused
<1>5. thread[p].pc # "exit"
  BY <1>1 DEF PlaceInv
<1> QED
  BY <1>1, <1>3, <1>4, <1>5, QuietStep

LEMMA WakeStep ==
  ASSUME ProcInv, NEW p \in Slot, Wake(p)
  PROVE  ProcInv'
<1> USE DEF ProcInv
<1>1. /\ proc[p].state = "SLEEPING" /\ proc' = [proc EXCEPT ![p].state = "RUNNABLE"]
      /\ UNCHANGED <<plock, wait_lock, nextpid, thread>>
      /\ "RUNNABLE" \in ProcState
  BY DEF Wake, ProcState
<1>2. TypeOK'
  BY <1>1, SetState DEF TypeOK
<1> QED
  BY ZenonT(60), <1>1, <1>2, SetState, QuietStep DEF Same, Roused, Quiet, PlaceInv

\* kill() finds the pid, possibly in a slot that is free or being filled.
LEMMA KillStep ==
  ASSUME ProcInv, NEW p \in Slot, KillFound(p)
  PROVE  ProcInv'
<1> USE DEF ProcInv
<1> DEFINE q == thread[p].i
           s == IF proc[q].state = "SLEEPING" THEN "RUNNABLE" ELSE proc[q].state
<1>1. /\ proc[p].state = "RUNNING" /\ thread[p].pc = "kill" /\ q < NPROC /\ Return(p)
      /\ UNCHANGED <<plock, wait_lock, nextpid>>
  BY DEF KillFound, At
<1>2. q \in Slot /\ proc[q] \in ProcRec
  BY SMT, <1>1, TypeFacts DEF Slot, TypeOK
<1>3. s \in ProcState /\ proc[q].chan \in Slot \cup {Other, None} /\ TRUE \in BOOLEAN
  BY <1>2 DEF ProcRec, ProcState
<1>4. proc' = [proc EXCEPT ![q].state = s, ![q].chan = proc[q].chan, ![q].killed = TRUE]
  <2>1. proc' = [proc EXCEPT ![q] = [proc[q] EXCEPT !.killed = TRUE, !.state = s]]
    BY <1>2 DEF KillFound, TypeOK
  <2>2. [proc[q] EXCEPT !.killed = TRUE, !.state = s]
          = [proc[q] EXCEPT !.state = s, !.chan = proc[q].chan, !.killed = TRUE]
    BY <1>2 DEF ProcRec
  <2> HIDE DEF q, s
  <2> QED
    BY <1>2, <2>1, <2>2 DEF TypeOK
<1>5. /\ proc' \in [Slot -> ProcRec]
      /\ \A r \in Slot : r # q => proc'[r] = proc[r]
      /\ proc'[q].state = s /\ proc'[q].chan = proc[q].chan
      /\ proc'[q].parent = proc[q].parent
  <2> HIDE DEF q, s
  <2> QED
    BY <1>2, <1>3, <1>4, StateFacts
<1>6. TypeOK'
  BY <1>1, <1>5, ReturnFacts DEF TypeOK
<1>7. \A r \in Slot : /\ proc'[r].parent = proc[r].parent
                      /\ Same(r) \/ Roused(r)
  BY <1>5 DEF Same, Roused
<1>8. /\ \A r \in Slot : r # p => thread'[r] = thread[r]
      /\ thread'[p].pc = "user"
  BY <1>1, ReturnFacts
<1>9. {thread[p].pc, thread'[p].pc} \subseteq Quiet
  BY <1>1, <1>8 DEF Quiet
<1> QED
  BY <1>1, <1>6, <1>7, <1>8, <1>9, QuietStep

-----------------------------------------------------------------------------
(* Sleeping, and the end of a switch                                       *)

LEMMA SwitchedStep ==
  ASSUME ProcInv, NEW p \in Slot, Switched(p)
  PROVE  ProcInv'
<1> USE DEF ProcInv
<1>1. /\ plock[p] = p /\ proc[p].state \in {"SLEEPING", "ZOMBIE"}
      /\ \A q \in Slot : q # p => plock'[q] = plock[q]
      /\ UNCHANGED <<proc, wait_lock, nextpid, thread>>
  BY DEF Switched, TypeOK
<1>2. TypeOK'
  BY DEF Switched, TypeOK
<1>3. PlaceInv' /\ TreeInv' /\ HolderInv' /\ ForkInv'
  BY ZenonT(60), <1>1 DEF PlaceInv, TreeInv, HolderInv, ForkInv
<1>4. ParentAlive' /\ ReparentInv' /\ WokenInv' /\ NoMissedExit' /\ WaitScanValid'
  BY ZenonT(60), <1>1 DEF ParentAlive, ReparentInv, WokenInv, NoMissedExit, WaitScanValid
<1>5. PtableInv'
  <2>1. thread[p].pc # "getptable_pid"
    BY <1>1 DEF PlaceInv
  <2>2. \A q \in Slot : thread[q].pc = "getptable_pid" => thread[q].i # p
    BY SMT, <1>1, <2>1 DEF PtableInv
  <2> QED
    BY <1>1, <2>2 DEF PtableInv
<1> QED
  BY <1>2, <1>3, <1>4, <1>5

LEMMA SleepStep ==
  ASSUME ProcInv, NEW p \in Slot, Sleep(p)
  PROVE  ProcInv'
<1> USE DEF ProcInv
<1>1. /\ proc[p].state = "RUNNING" /\ thread[p].pc = "user" /\ plock[p] = None
      /\ \A q \in Slot : q # p => plock'[q] = plock[q]
      /\ UNCHANGED <<wait_lock, nextpid, thread>>
  BY DEF Sleep, TypeOK, InUser, At, Free
<1>2. proc[p] \in ProcRec /\ proc[p].killed \in BOOLEAN /\ "SLEEPING" \in ProcState
      /\ Other \in Slot \cup {Other, None}
  BY DEF TypeOK, ProcRec, ProcState
<1>3. proc' = [proc EXCEPT ![p].state = "SLEEPING", ![p].chan = Other,
                           ![p].killed = proc[p].killed]
  <2>1. [proc[p] EXCEPT !.state = "SLEEPING", !.chan = Other]
          = [proc[p] EXCEPT !.state = "SLEEPING", !.chan = Other, !.killed = proc[p].killed]
    BY <1>2 DEF ProcRec
  <2> QED
    BY <2>1 DEF Sleep, TypeOK
<1>4. /\ proc' \in [Slot -> ProcRec]
      /\ \A r \in Slot : r # p => proc'[r] = proc[r]
      /\ proc'[p].state = "SLEEPING" /\ proc'[p].chan = Other
      /\ proc'[p].parent = proc[p].parent
  BY <1>2, <1>3, StateFacts
<1>5. Other # p
  BY SMT, TypeFacts DEF Other, Slot
<1>6. TypeOK'
  BY <1>1, <1>4 DEF TypeOK, Sleep
<1>7. PlaceInv' /\ TreeInv' /\ HolderInv' /\ ForkInv'
  BY SMT, <1>1, <1>4, TypeFacts DEF PlaceInv, TreeInv, HolderInv, ForkInv, Living, Holding
<1>8. ParentAlive' /\ ReparentInv' /\ WaitScanValid'
  BY SMTT(40), <1>1, <1>4, TypeFacts DEF ParentAlive, ReparentInv, WaitScanValid, Living
<1>9. WokenInv' /\ NoMissedExit'
  BY SMT, <1>1, <1>4, <1>5, TypeFacts DEF WokenInv, NoMissedExit
<1>10. PtableInv'
  <2>1. \A q \in Slot : thread[q].pc = "getptable_pid" => thread[q].i # p
    BY SMT, <1>1, TypeFacts DEF PtableInv
  <2> QED
    BY SMT, <1>1, <1>4, <2>1 DEF PtableInv
<1> QED
  BY <1>6, <1>7, <1>8, <1>9, <1>10

-----------------------------------------------------------------------------
(* fork()                                                                  *)

LEMMA ForkAllocStep ==
  ASSUME ProcInv, NEW p \in Slot, ForkAlloc(p)
  PROVE  ProcInv'
<1> USE DEF ProcInv
<1> DEFINE np == thread[p].i
<1>1. /\ proc[p].state = "RUNNING" /\ thread[p].pc = "fork" /\ np < NPROC
      /\ proc[np].state = "UNUSED" /\ Call(p, "fork_parent", np)
      /\ nextpid \in Nat /\ nextpid' = nextpid + 1
      /\ UNCHANGED <<plock, wait_lock>>
  BY DEF ForkAlloc, At, TypeOK
<1>2. np \in Slot /\ np \in Int /\ proc[np] \in ProcRec
  BY SMT, <1>1, TypeFacts DEF Slot, TypeOK
<1>3. /\ proc' \in [Slot -> ProcRec]
      /\ \A r \in Slot : r # np => proc'[r] = proc[r]
      /\ proc'[np].state = "USED" /\ proc'[np].parent = proc[np].parent
  <2> DEFINE r == [proc[np] EXCEPT !.state = "USED", !.pid = nextpid]
  <2>1. r \in ProcRec /\ r.state = "USED" /\ r.parent = proc[np].parent
    BY <1>1, <1>2 DEF ProcRec, ProcState
  <2>2. proc' = [proc EXCEPT ![np] = r]
    BY <1>2 DEF ForkAlloc, TypeOK
  <2> HIDE DEF r, np
  <2> QED
    BY <1>2, <2>1, <2>2 DEF TypeOK
<1>4. /\ thread' \in [Slot -> ThreadRec]
      /\ \A q \in Slot : q # p => thread'[q] = thread[q]
      /\ thread'[p].pc = "fork_parent" /\ thread'[p].arg = np
  <2>1. "fork_parent" \in Place
    BY DEF Place
  <2> HIDE DEF np
  <2> QED
    BY <1>1, <1>2, <2>1, CallFacts
<1>5. TypeOK'
  BY SMT, <1>1, <1>3, <1>4 DEF TypeOK
<1>6. np # p /\ np # initproc /\ proc[np].parent = None
  BY <1>1, <1>2 DEF TreeInv, Living
<1> HIDE DEF np
<1>7. PlaceInv' /\ TreeInv' /\ HolderInv'
  <2>1. PlaceInv'
    BY SMT, <1>1, <1>2, <1>3, <1>4, <1>6 DEF PlaceInv, Exiting
  <2>2. TreeInv'
    BY <1>2, <1>3, <1>6, TypeFacts DEF TreeInv
  <2>3. HolderInv'
    BY <1>1, <1>2, <1>3, <1>4, <1>6 DEF HolderInv, Holding
  <2> QED
    BY <2>1, <2>2, <2>3
<1>8. ForkInv'
  <2>1. \A q \in Slot : thread[q].pc \in {"fork_parent", "fork_start"} => thread[q].arg # np
    BY <1>1 DEF ForkInv
  <2> HIDE DEF np
  <2>2. ASSUME NEW q \in Slot, q # p, thread'[q].pc \in {"fork_parent", "fork_start"}
        PROVE  /\ thread'[q].arg \in Slot /\ thread'[q].arg # np
               /\ proc'[thread'[q].arg].state = "USED"
               /\ proc'[thread'[q].arg].parent = IF thread'[q].pc = "fork_start" THEN q ELSE None
    <3>1. thread'[q] = thread[q]
      BY <1>4, <2>2
    <3>2. /\ thread[q].arg \in Slot /\ thread[q].arg # np
          /\ proc[thread[q].arg].state = "USED"
          /\ proc[thread[q].arg].parent = IF thread[q].pc = "fork_start" THEN q ELSE None
      BY <2>1, <2>2, <3>1 DEF ForkInv
    <3>3. proc'[thread[q].arg] = proc[thread[q].arg]
      BY <1>3, <3>2
    <3> QED
      BY <3>1, <3>2, <3>3
  <2>3. ASSUME NEW q \in Slot, NEW r \in Slot, thread'[q].arg = thread'[r].arg,
               thread'[q].pc \in {"fork_parent", "fork_start"},
               thread'[r].pc \in {"fork_parent", "fork_start"}
        PROVE  r = q
    <3>1. CASE q # p /\ r # p
      <4>1. thread'[q] = thread[q] /\ thread'[r] = thread[r]
        BY <1>4, <3>1
      <4> QED
        BY ZenonT(60), <2>3, <4>1 DEF ForkInv
    <3>2. CASE q = p \/ r = p
      BY <1>4, <2>2, <2>3, <3>2
    <3> QED
      BY <3>1, <3>2
  <2> QED
    BY <1>2, <1>3, <1>4, <1>6, <2>2, <2>3 DEF ForkInv
<1>9. ParentAlive' /\ ReparentInv' /\ WaitScanValid'
  <2> HIDE DEF np
  <2>2. \A r \in Slot : proc'[r].parent = proc[r].parent
    BY <1>2, <1>3
  <2>1. ParentAlive'
    <3>1. \A r \in Slot : /\ proc'[r].state \in Living => proc[r].state \in Living
                          /\ proc[r].state \in Living => proc'[r].state \in Living
                          /\ proc'[r].state = "ZOMBIE" => proc[r].state = "ZOMBIE"
      BY <1>1, <1>2, <1>3 DEF Living
    <3>2. \A r \in Slot : proc[r].parent \in Slot \cup {None}
      BY TypeFacts
    <3> QED
      BY <2>2, <3>1, <3>2 DEF ParentAlive
  <2>3. ReparentInv'
    BY <1>4, <2>2 DEF ReparentInv
  <2>4. \A r \in Slot : proc'[r].state = "ZOMBIE" => proc[r].state = "ZOMBIE"
    BY <1>2, <1>3
  <2>5. WaitScanValid'
    <3> SUFFICES ASSUME NEW a \in Slot, NEW b \in Slot, proc'[b].parent = a,
                        \/ thread'[a].pc = "wait_scan" /\ b < thread'[a].i
                        \/ thread'[a].pc = "wait_sleep"
                 PROVE  /\ proc'[b].state # "ZOMBIE"
                        /\ thread'[a].pc = "wait_scan" => thread'[a].havekids
      BY DEF WaitScanValid
    <3>1. thread'[a] = thread[a] /\ proc[b].parent = a
      BY <1>4, <2>2
    <3>2. /\ proc[b].state # "ZOMBIE"
          /\ thread[a].pc = "wait_scan" => thread[a].havekids
      BY <3>1 DEF WaitScanValid
    <3> QED
      BY <2>4, <3>1, <3>2
  <2> QED
    BY <2>1, <2>3, <2>5
<1>10. WokenInv' /\ NoMissedExit'
  <2>1. wait_lock # p
    BY <1>1 DEF HolderInv, Holding
  <2>2. WokenInv'
    <3> SUFFICES ASSUME NEW a \in Slot, NEW b \in Slot,
                        proc'[a].state = "RUNNING", proc'[a].parent = b,
                        \/ thread'[a].pc = "exit_zombie"
                        \/ thread'[a].pc = "exit_wakeup" /\ b < thread'[a].j
                 PROVE  ~(proc'[b].state = "SLEEPING" /\ proc'[b].chan = b)
      BY DEF WokenInv
    <3>1. a # p /\ a # np
      BY <1>3, <1>4
    <3>2. thread'[a] = thread[a] /\ proc'[a] = proc[a]
      BY <1>3, <1>4, <3>1
    <3>3. ~(proc[b].state = "SLEEPING" /\ proc[b].chan = b)
      BY <3>2 DEF WokenInv
    <3>4. b = np \/ proc'[b] = proc[b]
      BY <1>3
    <3> QED
      BY <1>3, <3>3, <3>4
  <2>3. NoMissedExit'
    BY SMT, <1>1, <1>2, <1>3, <1>4, <1>6, <2>1, TypeFacts DEF NoMissedExit, TypeOK
  <2> QED
    BY <2>2, <2>3
<1>11. PtableInv'
  <2>1. \A r \in Slot : proc'[r].parent = proc[r].parent
    BY <1>3
  <2>2. plock' = plock /\ thread[p].pc = "fork"
    BY <1>1
  <2> QED
    BY SMT, <1>4, <2>1, <2>2 DEF PtableInv
<1> QED
  BY <1>5, <1>7, <1>8, <1>9, <1>10, <1>11

LEMMA ForkFailStep ==
  ASSUME ProcInv, NEW p \in Slot, ForkFail(p)
  PROVE  ProcInv'
<1> USE DEF ProcInv
<1> DEFINE np == thread[p].i
<1>1. /\ proc[p].state = "RUNNING" /\ thread[p].pc = "fork" /\ np < NPROC
      /\ proc[np].state = "UNUSED" /\ Return(p) /\ nextpid' \in Nat
      /\ UNCHANGED <<plock, wait_lock>>
  BY SMT DEF ForkFail, At, TypeOK
<1>2. np \in Slot
  BY SMT, <1>1, TypeFacts DEF Slot
<1>3. proc[np].parent = None /\ np # p
  BY <1>1, <1>2 DEF TreeInv
<1>4. /\ UnusedProc \in ProcRec
      /\ UnusedProc.state = "UNUSED" /\ UnusedProc.parent = None
  BY DEF UnusedProc, ProcRec, ProcState
<1>5. proc' = [proc EXCEPT ![np] = UnusedProc]
  BY DEF ForkFail
<1>6. /\ proc' \in [Slot -> ProcRec]
      /\ \A r \in Slot : r # np => proc'[r] = proc[r]
      /\ proc'[np].state = "UNUSED" /\ proc'[np].parent = None
  <2> HIDE DEF np
  <2> QED
    BY <1>2, <1>4, <1>5 DEF TypeOK
<1>7. /\ thread' \in [Slot -> ThreadRec]
      /\ \A q \in Slot : q # p => thread'[q] = thread[q]
      /\ thread'[p].pc = "user"
  BY <1>1, ReturnFacts
<1>8. TypeOK'
  BY <1>1, <1>6, <1>7 DEF TypeOK
<1> HIDE DEF np
<1>9. PlaceInv' /\ TreeInv' /\ HolderInv' /\ ForkInv'
  BY SMTT(40), <1>1, <1>2, <1>3, <1>6, <1>7, TypeFacts
     DEF PlaceInv, TreeInv, HolderInv, ForkInv, Exiting, Holding
<1>10. ParentAlive' /\ ReparentInv' /\ WaitScanValid'
  BY SMTT(40), <1>1, <1>2, <1>3, <1>6, <1>7, TypeFacts DEF ParentAlive, ReparentInv, WaitScanValid, Living
<1>11. WokenInv' /\ NoMissedExit'
  <2>1. wait_lock # p
    BY <1>1 DEF HolderInv, Holding
  <2>2. WokenInv'
    BY SMT, <1>1, <1>2, <1>3, <1>6, <1>7, TypeFacts DEF WokenInv
  <2>3. NoMissedExit'
    BY SMT, <1>1, <1>2, <1>3, <1>6, <1>7, <2>1, TypeFacts DEF NoMissedExit, TypeOK
  <2> QED
    BY <2>2, <2>3
<1>12. PtableInv'
  BY SMT, <1>1, <1>2, <1>3, <1>6, <1>7 DEF PtableInv
<1> QED
  BY <1>8, <1>9, <1>10, <1>11, <1>12

\* p becomes the parent of the slot under wait_lock.
LEMMA ForkParentStep ==
  ASSUME ProcInv, NEW p \in Slot, ForkParent(p)
  PROVE  ProcInv'
<1> USE DEF ProcInv
<1> DEFINE np == thread[p].arg
<1>1. /\ proc[p].state = "RUNNING" /\ thread[p].pc = "fork_parent"
      /\ wait_lock = None /\ Goto(p, "fork_start")
      /\ UNCHANGED <<plock, wait_lock, nextpid>>
  BY DEF ForkParent, At
<1>2. np \in Slot /\ proc[np].state = "USED" /\ proc[np].parent = None /\ np # p
  BY <1>1 DEF ForkInv
<1>3. /\ proc' \in [Slot -> ProcRec]
      /\ \A r \in Slot : r # np => proc'[r] = proc[r]
      /\ proc'[np].state = "USED" /\ proc'[np].parent = p
  <2> DEFINE r == [proc[np] EXCEPT !.parent = p]
  <2>1. r \in ProcRec /\ r.state = proc[np].state /\ r.parent = p
    BY SMT, <1>2 DEF ProcRec, TypeOK
  <2>2. proc' = [proc EXCEPT ![np] = r]
    BY <1>2 DEF ForkParent, TypeOK
  <2> HIDE DEF r, np
  <2> QED
    BY <1>2, <2>1, <2>2 DEF TypeOK
<1>4. /\ thread' \in [Slot -> ThreadRec]
      /\ \A q \in Slot : q # p => thread'[q] = thread[q]
      /\ thread'[p].pc = "fork_start" /\ thread'[p].arg = np
  BY <1>1, GotoFacts DEF Place
<1>5. TypeOK'
  BY <1>1, <1>3, <1>4 DEF TypeOK
<1> HIDE DEF np
<1>6. np # initproc
  BY <1>2 DEF TreeInv, Living
<1>7. PlaceInv' /\ TreeInv' /\ HolderInv'
  BY SMT, <1>1, <1>2, <1>3, <1>4, <1>6, TypeFacts
     DEF PlaceInv, TreeInv, HolderInv, Exiting, Holding
<1>8. ForkInv'
  BY SMT, <1>1, <1>2, <1>3, <1>4 DEF ForkInv, np
<1>9. ParentAlive' /\ ReparentInv'
  BY SMT, <1>1, <1>2, <1>3, <1>4, TypeFacts DEF ParentAlive, ReparentInv, Living
<1>10. WaitScanValid' /\ WokenInv' /\ NoMissedExit'
  BY SMTT(40), <1>1, <1>2, <1>3, <1>4, TypeFacts DEF WaitScanValid, WokenInv, NoMissedExit
<1>11. PtableInv'
  BY SMT, <1>1, <1>2, <1>3, <1>4, TypeFacts DEF PtableInv
<1> QED
  BY <1>5, <1>7, <1>8, <1>9, <1>10, <1>11

LEMMA ForkStartStep ==
  ASSUME ProcInv, NEW p \in Slot, ForkStart(p)
  PROVE  ProcInv'
<1> USE DEF ProcInv
<1> DEFINE np == thread[p].arg
<1>1. /\ proc[p].state = "RUNNING" /\ thread[p].pc = "fork_start" /\ Return(p)
      /\ UNCHANGED <<plock, wait_lock, nextpid>>
  BY DEF ForkStart, At
<1>2. np \in Slot /\ proc[np].state = "USED" /\ proc[np].parent = p /\ np # p
  BY <1>1 DEF ForkInv
<1>3. "RUNNABLE" \in ProcState /\ proc' = [proc EXCEPT ![np].state = "RUNNABLE"]
  BY DEF ForkStart, ProcState
<1>4. /\ proc' \in [Slot -> ProcRec]
      /\ \A r \in Slot : r # np => proc'[r] = proc[r]
      /\ proc'[np].state = "RUNNABLE" /\ proc'[np].parent = p
  <2> HIDE DEF np
  <2> QED
    BY <1>2, <1>3, SetState
<1>5. /\ thread' \in [Slot -> ThreadRec]
      /\ \A q \in Slot : q # p => thread'[q] = thread[q]
      /\ thread'[p].pc = "user"
  BY <1>1, ReturnFacts
<1>6. TypeOK'
  BY <1>1, <1>4, <1>5 DEF TypeOK
<1>7. /\ thread[np].pc = "user"
      /\ \A q \in Slot : q # p /\ thread[q].pc \in {"fork_parent", "fork_start"} =>
           thread[q].arg # np
  BY <1>1, <1>2 DEF PlaceInv, ForkInv
<1> HIDE DEF np
<1>8. PlaceInv' /\ TreeInv' /\ HolderInv'
  BY SMT, <1>1, <1>2, <1>4, <1>5, <1>7, TypeFacts
     DEF PlaceInv, TreeInv, HolderInv, Exiting, Holding, Living
<1>9. ForkInv'
  BY SMT, <1>1, <1>2, <1>4, <1>5, <1>7 DEF ForkInv
<1>10. ParentAlive' /\ ReparentInv' /\ WaitScanValid'
  BY SMTT(40), <1>1, <1>2, <1>4, <1>5, TypeFacts DEF ParentAlive, ReparentInv, WaitScanValid, Living
<1>11. WokenInv' /\ NoMissedExit'
  <2>1. wait_lock # p
    BY <1>1 DEF HolderInv, Holding
  <2>2. WokenInv'
    BY SMT, <1>1, <1>2, <1>4, <1>5, TypeFacts DEF WokenInv
  <2>3. NoMissedExit'
    BY SMT, <1>1, <1>2, <1>4, <1>5, <2>1, TypeFacts DEF NoMissedExit, TypeOK
  <2> QED
    BY <2>2, <2>3
<1>12. PtableInv'
  BY SMT, <1>1, <1>2, <1>4, <1>5, TypeFacts DEF PtableInv
<1> QED
  BY <1>6, <1>8, <1>9, <1>10, <1>11, <1>12

-----------------------------------------------------------------------------
(* exit()                                                                  *)

\* Nobody but the holder of wait_lock is at a place where it is held, except
\* zombies, which do not go on.
LEMMA OneHolder ==
  ASSUME ProcInv, NEW p \in Slot \cup {None}, wait_lock = p, NEW q \in Slot, q # p,
         thread[q].pc \in Holding
  PROVE  proc[q].state = "ZOMBIE" /\ thread[q].pc = "exit_zombie"
<1>1. proc[q].state \in ProcState /\ proc[q].state # "RUNNING"
  BY TypeFacts DEF ProcInv, HolderInv
<1> QED
  BY <1>1 DEF ProcInv, PlaceInv, Holding, ProcState

\* Slot q of a wakeup()
LEMMA WokenFacts ==
  ASSUME TypeOK, NEW p \in Slot, NEW q \in Slot, NEW chan, Woken(p, q, chan)
  PROVE  /\ proc' \in [Slot -> ProcRec]
         /\ q # p => Free(q) /\ ~(proc'[q].state = "SLEEPING" /\ proc'[q].chan = chan)
         /\ \A r \in Slot :
              /\ proc'[r].parent = proc[r].parent /\ proc'[r].chan = proc[r].chan
              /\ \/ proc'[r].state = proc[r].state
                 \/ proc[r].state = "SLEEPING" /\ proc'[r].state = "RUNNABLE"
<1>1. CASE q # p /\ proc[q].state = "SLEEPING" /\ proc[q].chan = chan
  <2>1. "RUNNABLE" \in ProcState /\ proc' = [proc EXCEPT ![q].state = "RUNNABLE"]
    BY <1>1 DEF Woken, ProcState
  <2>2. /\ proc' \in [Slot -> ProcRec]
        /\ \A r \in Slot : r # q => proc'[r] = proc[r]
        /\ proc'[q].state = "RUNNABLE" /\ proc'[q].chan = proc[q].chan
        /\ proc'[q].parent = proc[q].parent
    BY <2>1, SetState
  <2> QED
    BY <1>1, <2>2 DEF Woken
<1>2. CASE ~(q # p /\ proc[q].state = "SLEEPING" /\ proc[q].chan = chan)
  BY <1>2 DEF Woken, TypeOK
<1> QED
  BY <1>1, <1>2

LEMMA NextSlotFacts ==
  ASSUME TypeOK, NEW p \in Slot, NEW pc \in Place, NEW i \in 0..NPROC,
         NextSlot(p, pc, i)
  PROVE  /\ thread' \in [Slot -> ThreadRec]
         /\ \A q \in Slot : q # p => thread'[q] = thread[q]
         /\ \/ /\ thread'[p].pc = thread[p].pc /\ thread'[p].i = thread[p].i
               /\ thread'[p].j = thread[p].j + 1
            \/ /\ thread'[p].pc = pc /\ thread'[p].i = i /\ thread'[p].j = 0
               /\ thread[p].j = NPROC - 1
<1>1. thread[p] \in ThreadRec /\ NPROC \in Nat \ {0} /\ thread[p].j \in 0..(NPROC - 1)
  BY ProcAssumption DEF TypeOK, ThreadRec, Slot
<1>2. CASE thread[p].j + 1 < NPROC
  <2> DEFINE t == [thread[p] EXCEPT !.j = @ + 1]
  <2>1. /\ t \in ThreadRec /\ t.pc = thread[p].pc /\ t.i = thread[p].i
        /\ t.j = thread[p].j + 1
    BY SMT, <1>1, <1>2 DEF ThreadRec, Slot
  <2>2. thread' = [thread EXCEPT ![p] = t]
    BY <1>2 DEF NextSlot, TypeOK
  <2> HIDE DEF t
  <2> QED
    BY <2>1, <2>2 DEF TypeOK
<1>3. CASE ~(thread[p].j + 1 < NPROC)
  <2> DEFINE t == [thread[p] EXCEPT !.j = 0, !.pc = pc, !.i = i]
  <2>0. 0 \in Slot
    BY SMT, <1>1 DEF Slot
  <2>1. t \in ThreadRec /\ t.pc = pc /\ t.i = i /\ t.j = 0
    BY <1>1, <2>0 DEF ThreadRec
  <2>2. thread' = [thread EXCEPT ![p] = t]
    BY <1>3 DEF NextSlot, TypeOK
  <2>3. thread[p].j = NPROC - 1
    BY SMT, <1>1, <1>3
  <2> HIDE DEF t
  <2> QED
    BY <2>1, <2>2, <2>3 DEF TypeOK
<1> QED
  BY <1>2, <1>3

LEMMA ExitLockStep ==
  ASSUME ProcInv, NEW p \in Slot, ExitLock(p)
  PROVE  ProcInv'
<1> USE DEF ProcInv
<1>1. /\ proc[p].state = "RUNNING" /\ thread[p].pc = "exit" /\ wait_lock = None
      /\ wait_lock' = p /\ Goto(p, "reparent") /\ UNCHANGED <<proc, plock, nextpid>>
  BY DEF ExitLock, At
<1>2. /\ thread' \in [Slot -> ThreadRec]
      /\ \A q \in Slot : q # p => thread'[q] = thread[q]
      /\ thread'[p].pc = "reparent" /\ thread'[p].i = 0 /\ thread'[p].j = 0
  BY ZenonT(60), <1>1, GotoFacts DEF Place, PlaceInv
<1>3. TypeOK'
  BY <1>1, <1>2 DEF TypeOK
<1>4. \A q \in Slot : thread[q].pc \in Holding => proc[q].state # "RUNNING"
  BY <1>1, TypeFacts DEF HolderInv
<1>5. PlaceInv' /\ TreeInv' /\ HolderInv' /\ ForkInv'
  BY SMT, <1>1, <1>2, <1>4, TypeFacts DEF PlaceInv, TreeInv, HolderInv, ForkInv, Exiting, Holding
<1>6. ParentAlive' /\ ReparentInv' /\ WokenInv' /\ NoMissedExit' /\ WaitScanValid'
  BY SMT, <1>1, <1>2, TypeFacts DEF ParentAlive, ReparentInv, WokenInv, NoMissedExit, WaitScanValid
<1>7. PtableInv'
  BY SMT, <1>1, <1>2 DEF PtableInv
<1> QED
  BY <1>3, <1>5, <1>6, <1>7

LEMMA ReparentSkipStep ==
  ASSUME ProcInv, NEW p \in Slot, ReparentSkip(p)
  PROVE  ProcInv'
<1> USE DEF ProcInv
<1>1. /\ proc[p].state = "RUNNING" /\ thread[p].pc = "reparent" /\ thread[p].i < NPROC
      /\ proc[thread[p].i].parent # p /\ UNCHANGED <<proc, plock, wait_lock, nextpid>>
      /\ thread' = [thread EXCEPT ![p].i = @ + 1]
  BY DEF ReparentSkip, At
<1>2. /\ thread' \in [Slot -> ThreadRec]
      /\ \A q \in Slot : q # p => thread'[q] = thread[q]
      /\ thread'[p].pc = "reparent" /\ thread'[p].i = thread[p].i + 1
      /\ thread'[p].j = thread[p].j
  BY <1>1, LoopFacts
<1>3. TypeOK'
  BY <1>1, <1>2 DEF TypeOK
<1>4. PlaceInv' /\ TreeInv' /\ HolderInv' /\ ForkInv'
  BY SMT, <1>1, <1>2, TypeFacts DEF PlaceInv, TreeInv, HolderInv, ForkInv, Exiting, Holding
<1>5. ReparentInv'
  <2> SUFFICES ASSUME NEW q \in Slot, proc[q].parent = p
               PROVE  thread[p].i + 1 <= q
    BY ZenonT(60), <1>1, <1>2 DEF ReparentInv
  <2>1. thread[p].i <= q /\ thread[p].i # q
    BY <1>1 DEF ReparentInv
  <2> QED
    BY SMT, <2>1, TypeFacts
<1>6. ParentAlive' /\ WokenInv' /\ NoMissedExit' /\ WaitScanValid'
  BY SMT, <1>1, <1>2, TypeFacts DEF ParentAlive, WokenInv, NoMissedExit, WaitScanValid
<1>7. PtableInv'
  BY SMT, <1>1, <1>2, TypeFacts DEF PtableInv
<1> QED
  BY <1>3, <1>4, <1>5, <1>6, <1>7

LEMMA ReparentEndStep ==
  ASSUME ProcInv, NEW p \in Slot, ReparentEnd(p)
  PROVE  ProcInv'
<1> USE DEF ProcInv
<1>1. /\ proc[p].state = "RUNNING" /\ thread[p].pc = "reparent" /\ thread[p].i = NPROC
      /\ Call(p, "exit_wakeup", None) /\ UNCHANGED <<proc, plock, wait_lock, nextpid>>
  BY DEF ReparentEnd, At
<1>2. /\ thread' \in [Slot -> ThreadRec]
      /\ \A q \in Slot : q # p => thread'[q] = thread[q]
      /\ thread'[p].pc = "exit_wakeup" /\ thread'[p].j = 0
  <2>1. "exit_wakeup" \in Place /\ None \in Int
    BY SMT DEF Place, None
  <2> QED
    BY <1>1, <2>1, CallFacts
<1>3. TypeOK'
  BY <1>1, <1>2 DEF TypeOK
<1>4. PlaceInv' /\ TreeInv' /\ HolderInv' /\ ForkInv'
  BY SMT, <1>1, <1>2, TypeFacts DEF PlaceInv, TreeInv, HolderInv, ForkInv, Exiting, Holding
<1>5. ReparentInv'
  BY SMT, <1>1, <1>2, TypeFacts DEF ReparentInv
<1>6. ParentAlive' /\ WaitScanValid'
  BY SMT, <1>1, <1>2, TypeFacts DEF ParentAlive, WaitScanValid
<1>7. WokenInv'
  BY SMT, <1>1, <1>2, TypeFacts DEF WokenInv
<1>8. NoMissedExit'
  <2>1. wait_lock = p /\ thread[p].pc # "reparent_wakeup"
    BY <1>1 DEF HolderInv, Holding
  <2> QED
    BY <1>1, <2>1 DEF NoMissedExit
<1>9. PtableInv'
  BY SMT, <1>1, <1>2, TypeFacts DEF PtableInv
<1> QED
  BY <1>3, <1>4, <1>5, <1>6, <1>7, <1>8, <1>9

\* A child is given to init, and init not woken yet.
LEMMA ReparentStep ==
  ASSUME ProcInv, NEW p \in Slot, Reparent(p)
  PROVE  ProcInv'
<1> USE DEF ProcInv
<1> DEFINE c == thread[p].i
<1>1. /\ proc[p].state = "RUNNING" /\ thread[p].pc = "reparent" /\ c < NPROC
      /\ proc[c].parent = p /\ Goto(p, "reparent_wakeup")
      /\ UNCHANGED <<plock, wait_lock, nextpid>>
  BY DEF Reparent, At
<1>2. c \in Slot /\ p # initproc /\ c # p /\ c # initproc /\ wait_lock = p
  BY SMT, <1>1, TypeFacts DEF Slot, PlaceInv, TreeInv, Exiting, HolderInv, Holding
<1>3. /\ proc' \in [Slot -> ProcRec]
      /\ \A r \in Slot :
           /\ proc'[r].state = proc[r].state /\ proc'[r].chan = proc[r].chan
           /\ proc'[r].parent = IF r = c THEN initproc ELSE proc[r].parent
  <2> DEFINE r == [proc[c] EXCEPT !.parent = initproc]
  <2>1. /\ r \in ProcRec /\ r.state = proc[c].state /\ r.chan = proc[c].chan
        /\ r.parent = initproc
    BY SMTT(40), <1>2, TypeFacts DEF ProcRec, TypeOK
  <2>2. proc' = [proc EXCEPT ![c] = r]
    BY <1>2 DEF Reparent, TypeOK
  <2> HIDE DEF r, c
  <2> QED
    BY <1>2, <2>1, <2>2 DEF TypeOK
<1>4. /\ thread' \in [Slot -> ThreadRec]
      /\ \A q \in Slot : q # p => thread'[q] = thread[q]
      /\ thread'[p].pc = "reparent_wakeup" /\ thread'[p].i = c /\ thread'[p].j = 0
  BY ZenonT(60), <1>1, GotoFacts DEF Place, PlaceInv
<1> HIDE DEF c
<1>5. TypeOK'
  BY <1>1, <1>3, <1>4 DEF TypeOK
<1>6. \A q \in Slot : q # p /\ thread[q].pc \in Holding => proc[q].state = "ZOMBIE"
                      /\ thread[q].pc = "exit_zombie"
  BY <1>2, OneHolder
<1>7. PlaceInv' /\ TreeInv' /\ HolderInv'
  <2>1. PlaceInv'
    BY SMT, <1>1, <1>2, <1>3, <1>4 DEF PlaceInv, Exiting
  <2>2. TreeInv'
    BY SMT, <1>1, <1>2, <1>3, TypeFacts DEF TreeInv
  <2>3. HolderInv'
    BY SMT, <1>1, <1>2, <1>3, <1>4 DEF HolderInv, Holding
  <2> QED
    BY <2>1, <2>2, <2>3
<1>8. ForkInv'
  BY SMT, <1>1, <1>2, <1>3, <1>4, TypeFacts DEF ForkInv
<1>9. ParentAlive'
  <2>2. proc[initproc].state \in Living /\ initproc # None
    BY TypeFacts DEF TreeInv
  <2> QED
    BY SMT, <1>2, <1>3, <2>2, TypeFacts DEF ParentAlive
<1>10. ReparentInv'
  <2> SUFFICES ASSUME NEW a \in Slot, NEW b \in Slot, proc'[b].parent = a
               PROVE  /\ thread'[a].pc \notin {"exit_wakeup", "exit_zombie"}
                      /\ thread'[a].pc = "reparent" => thread'[a].i <= b
                      /\ thread'[a].pc = "reparent_wakeup" => thread'[a].i < b
    BY DEF ReparentInv
  <2>1. CASE b = c
    <3>1. a = initproc
      BY <1>3, <2>1
    <3> QED
      BY <1>2, <1>4, <3>1 DEF PlaceInv, Exiting
  <2>2. CASE b # c /\ a = p
    <3>1. thread[p].i <= b
      BY <1>1, <1>3, <2>2 DEF ReparentInv
    <3> QED
      BY SMTT(30), <1>2, <1>4, <2>2, <3>1, TypeFacts DEF c
  <2>3. CASE b # c /\ a # p
    BY <1>3, <1>4, <2>3 DEF ReparentInv
  <2> QED
    BY <2>1, <2>2, <2>3
<1>11. WokenInv'
  <2>1. \A q \in Slot : proc'[q].state = "RUNNING" =>
                          thread'[q].pc \notin {"exit_wakeup", "exit_zombie"}
    <3> SUFFICES ASSUME NEW q \in Slot, thread'[q].pc \in {"exit_wakeup", "exit_zombie"}
                 PROVE  proc'[q].state # "RUNNING"
      OBVIOUS
    <3>1. q # p /\ thread[q].pc \in Holding
      BY <1>4 DEF Holding
    <3> QED
      BY <1>3, <1>6, <3>1
  <2> QED
    BY <2>1 DEF WokenInv
<1>12. NoMissedExit'
  <2> SUFFICES ASSUME NEW a \in Slot, NEW z \in Slot,
                      proc'[a].state = "SLEEPING", proc'[a].chan = a,
                      proc'[z].state = "ZOMBIE", proc'[z].parent = a
               PROVE  a = initproc
    BY SMT, <1>1, <1>2, <1>4, TypeFacts DEF NoMissedExit, initproc
  <2>1. CASE z = c
    BY <1>3, <2>1
  <2>2. CASE z # c
    BY <1>3, <2>2 DEF NoMissedExit
  <2> QED
    BY <2>1, <2>2
<1>13. WaitScanValid'
  BY ZenonT(60), <1>2, <1>3, <1>4, <1>6 DEF WaitScanValid, Holding
<1>14. PtableInv'
  <2> SUFFICES ASSUME NEW a \in Slot, a # p, thread[a].pc = "getptable_pid",
                      NEW q, NEW r, q = thread[a].i, r = thread[a].arg
               PROVE  /\ q \in Slot /\ plock'[q] = a
                      /\ r \in Slot /\ r # q
                      /\ \/ proc'[q].parent = r
                         \/ thread'[r].pc = "reparent" /\ q < thread'[r].i
                         \/ thread'[r].pc = "reparent_wakeup" /\ q <= thread'[r].i
                         \/ thread'[r].pc = "exit_wakeup" /\ thread'[r].j <= q
    BY SMT, <1>4 DEF PtableInv
  <2>1. /\ q \in Slot /\ plock[q] = a
        /\ r \in Slot /\ r # q
        /\ \/ proc[q].parent = r
           \/ thread[r].pc = "reparent" /\ q < thread[r].i
           \/ thread[r].pc = "reparent_wakeup" /\ q <= thread[r].i
           \/ thread[r].pc = "exit_wakeup" /\ thread[r].j <= q
    BY DEF PtableInv
  <2>2. CASE r # p
    BY <1>1, <1>3, <1>4, <2>1, <2>2
  <2>3. CASE r = p
    <3>1. proc[q].parent = p \/ q < c
      BY <1>1, <2>1, <2>3 DEF c
    <3> QED
      BY SMT, <1>1, <1>2, <1>3, <1>4, <2>1, <2>3, <3>1, TypeFacts
  <2> QED
    BY <2>2, <2>3
<1> QED
  BY <1>5, <1>7, <1>8, <1>9, <1>10, <1>11, <1>12, <1>13, <1>14

\* wakeup(initproc): init is the first slot.
LEMMA ReparentWakeupStep ==
  ASSUME ProcInv, NEW p \in Slot, ReparentWakeup(p)
  PROVE  ProcInv'
<1> USE DEF ProcInv
<1>1. /\ proc[p].state = "RUNNING" /\ thread[p].pc = "reparent_wakeup"
      /\ Woken(p, thread[p].j, initproc) /\ NextSlot(p, "reparent", thread[p].i + 1)
      /\ UNCHANGED <<plock, wait_lock, nextpid>>
  BY DEF ReparentWakeup, At
<1>2. /\ p # initproc /\ wait_lock = p /\ thread[p].i < NPROC
      /\ thread[p].j \in Slot /\ thread[p].i + 1 \in 0..NPROC
  BY SMT, <1>1, TypeFacts DEF PlaceInv, Exiting, HolderInv, Holding
<1>3. /\ proc' \in [Slot -> ProcRec]
      /\ thread[p].j = initproc =>
           ~(proc'[initproc].state = "SLEEPING" /\ proc'[initproc].chan = initproc)
      /\ \A r \in Slot :
           /\ proc'[r].parent = proc[r].parent /\ proc'[r].chan = proc[r].chan
           /\ \/ proc'[r].state = proc[r].state
              \/ proc[r].state = "SLEEPING" /\ proc'[r].state = "RUNNABLE"
  BY <1>1, <1>2, WokenFacts
<1>4. /\ thread' \in [Slot -> ThreadRec]
      /\ \A q \in Slot : q # p => thread'[q] = thread[q]
      /\ \/ /\ thread'[p].pc = "reparent_wakeup" /\ thread'[p].i = thread[p].i
            /\ thread'[p].j = thread[p].j + 1
         \/ /\ thread'[p].pc = "reparent" /\ thread'[p].i = thread[p].i + 1
            /\ thread'[p].j = 0 /\ thread[p].j = NPROC - 1
  <2>1. "reparent" \in Place
    BY DEF Place
  <2> QED
    BY SMT, <1>1, <1>2, <2>1, NextSlotFacts
<1>5. TypeOK'
  BY <1>1, <1>3, <1>4 DEF TypeOK
<1>6. PlaceInv'
  BY SMT, <1>1, <1>2, <1>3, <1>4 DEF PlaceInv, Exiting
<1>7. TreeInv'
  BY SMT, <1>3, TypeFacts DEF TreeInv, Living
<1>8. HolderInv'
  BY SMTT(40), <1>1, <1>2, <1>3, <1>4, TypeFacts DEF HolderInv, PlaceInv, Holding
<1>9. ForkInv'
  BY SMT, <1>1, <1>3, <1>4 DEF ForkInv
<1>10. ParentAlive'
  BY SMT, <1>3, TypeFacts DEF ParentAlive, Living
<1>11. ReparentInv'
  <2>1. \A q \in Slot : proc[q].parent = p => thread[p].i < q
    BY <1>1 DEF ReparentInv
  <2> QED
    BY SMT, <1>1, <1>3, <1>4, <2>1, TypeFacts DEF ReparentInv
<1>12. WokenInv'
  BY SMT, <1>1, <1>3, <1>4 DEF WokenInv
<1>13. NoMissedExit'
  <2> SUFFICES ASSUME NEW a \in Slot, NEW z \in Slot,
                      proc'[a].state = "SLEEPING", proc'[a].chan = a,
                      proc'[z].state = "ZOMBIE", proc'[z].parent = a
               PROVE  FALSE
    BY DEF NoMissedExit
  <2>1. a = initproc /\ thread[p].j <= initproc
    BY SMT, <1>2, <1>3 DEF NoMissedExit
  <2>2. thread[p].j = initproc
    BY SMT, <1>2, <2>1, ProcAssumption DEF initproc, Slot
  <2> QED
    BY <1>3, <2>1, <2>2
<1>14. WaitScanValid'
  BY SMT, <1>1, <1>3, <1>4 DEF WaitScanValid
<1>15. PtableInv'
  <2> SUFFICES ASSUME NEW a \in Slot, a # p, thread[a].pc = "getptable_pid",
                      thread[a].arg = p, NEW q \in Slot, q = thread[a].i,
                      proc[q].parent # p
               PROVE  \/ thread'[p].pc = "reparent" /\ q < thread'[p].i
                      \/ thread'[p].pc = "reparent_wakeup" /\ q <= thread'[p].i
    BY SMT, <1>1, <1>3, <1>4 DEF PtableInv
  <2>1. q <= thread[p].i
    BY <1>1 DEF PtableInv
  <2> QED
    BY SMTT(40), <1>4, <2>1, TypeFacts
<1> QED
  BY <1>5, <1>6, <1>7, <1>8, <1>9, <1>10, <1>11, <1>12, <1>13, <1>14, <1>15

\* wakeup(p->parent)
LEMMA ExitWakeupStep ==
  ASSUME ProcInv, NEW p \in Slot, ExitWakeup(p)
  PROVE  ProcInv'
<1> USE DEF ProcInv
<1> DEFINE k == thread[p].j
<1>1. /\ proc[p].state = "RUNNING" /\ thread[p].pc = "exit_wakeup"
      /\ Woken(p, k, proc[p].parent) /\ NextSlot(p, "exit_zombie", 0)
      /\ UNCHANGED <<plock, wait_lock, nextpid>>
  BY DEF ExitWakeup, At
<1>2. p # initproc /\ wait_lock = p /\ k \in Slot /\ NPROC \in Nat /\ 0 \in 0..NPROC
  BY SMT, <1>1, TypeFacts DEF PlaceInv, Exiting, HolderInv, Holding
<1>3. /\ proc' \in [Slot -> ProcRec]
      /\ k # p => plock[k] = None
      /\ k = proc[p].parent => ~(proc'[k].state = "SLEEPING" /\ proc'[k].chan = k)
      /\ \A r \in Slot :
           /\ proc'[r].parent = proc[r].parent /\ proc'[r].chan = proc[r].chan
           /\ \/ proc'[r].state = proc[r].state
              \/ proc[r].state = "SLEEPING" /\ proc'[r].state = "RUNNABLE"
  <2>1. proc[p].parent # p
    BY DEF TreeInv
  <2> HIDE DEF k
  <2> QED
    BY SMT, <1>1, <1>2, <2>1, WokenFacts DEF Free
<1>4. /\ thread' \in [Slot -> ThreadRec]
      /\ \A q \in Slot : q # p => thread'[q] = thread[q]
      /\ \/ /\ thread'[p].pc = "exit_wakeup" /\ thread'[p].j = k + 1
         \/ thread'[p].pc = "exit_zombie" /\ k = NPROC - 1
  <2>1. "exit_zombie" \in Place
    BY DEF Place
  <2> QED
    BY <1>1, <1>2, <2>1, NextSlotFacts
<1>5. TypeOK'
  BY <1>1, <1>3, <1>4 DEF TypeOK
<1>6. PlaceInv'
  BY SMT, <1>1, <1>2, <1>3, <1>4 DEF PlaceInv, Exiting
<1>7. TreeInv'
  BY SMTT(40), <1>3, TypeFacts DEF TreeInv, Living
<1>8. HolderInv'
  BY SMTT(40), <1>1, <1>2, <1>3, <1>4, TypeFacts DEF HolderInv, PlaceInv, Holding
<1>9. ForkInv'
  BY SMT, <1>1, <1>3, <1>4 DEF ForkInv
<1>10. ParentAlive'
  BY SMT, <1>3, TypeFacts DEF ParentAlive, Living
<1>11. ReparentInv'
  BY ZenonT(60), <1>1, <1>3, <1>4 DEF ReparentInv
<1>12. WokenInv'
  <2> SUFFICES ASSUME NEW a \in Slot, NEW b \in Slot,
                      proc'[a].state = "RUNNING", proc'[a].parent = b,
                      \/ thread'[a].pc = "exit_zombie"
                      \/ thread'[a].pc = "exit_wakeup" /\ b < thread'[a].j
               PROVE  ~(proc'[b].state = "SLEEPING" /\ proc'[b].chan = b)
    BY DEF WokenInv
  <2>1. CASE a # p
    BY SMT, <1>3, <1>4, <2>1 DEF WokenInv
  <2>2. CASE a = p
    <3>1. b < k \/ b = k
      BY SMT, <1>2, <1>4, <2>2, TypeFacts
    <3>2. CASE b = k
      BY <1>3, <2>2, <3>2
    <3>3. CASE b < k
      BY SMT, <1>1, <1>3, <2>2, <3>3 DEF WokenInv
    <3> QED
      BY <3>1, <3>2, <3>3
  <2> QED
    BY <2>1, <2>2
<1>13. NoMissedExit'
  BY SMT, <1>1, <1>2, <1>3 DEF NoMissedExit
<1>14. WaitScanValid'
  BY SMT, <1>1, <1>3, <1>4 DEF WaitScanValid
<1>15. PtableInv'
  <2> SUFFICES ASSUME NEW a \in Slot, a # p, thread[a].pc = "getptable_pid",
                      thread[a].arg = p, NEW q \in Slot, q = thread[a].i,
                      proc[q].parent # p
               PROVE  thread'[p].pc = "exit_wakeup" /\ thread'[p].j <= q
    BY SMT, <1>1, <1>3, <1>4 DEF PtableInv
  <2>1. plock[q] = a /\ q # p /\ k <= q /\ a # None
    BY <1>1, TypeFacts DEF PtableInv
  <2>2. k # q
    BY <1>3, <2>1
  <2> QED
    BY SMTT(40), <1>2, <1>4, <2>1, <2>2, TypeFacts
<1> QED
  BY <1>5, <1>6, <1>7, <1>8, <1>9, <1>10, <1>11, <1>12, <1>13, <1>14, <1>15

LEMMA ExitZombieStep ==
  ASSUME ProcInv, NEW p \in Slot, ExitZombie(p)
  PROVE  ProcInv'
<1> USE DEF ProcInv
<1>1. /\ proc[p].state = "RUNNING" /\ thread[p].pc = "exit_zombie" /\ plock[p] = None
      /\ wait_lock' = None /\ UNCHANGED <<nextpid, thread>>
      /\ plock' = [plock EXCEPT ![p] = p]
      /\ "ZOMBIE" \in ProcState /\ proc' = [proc EXCEPT ![p].state = "ZOMBIE"]
  BY DEF ExitZombie, At, Free, ProcState
<1>2. /\ proc' \in [Slot -> ProcRec]
      /\ \A r \in Slot : r # p => proc'[r] = proc[r]
      /\ proc'[p].state = "ZOMBIE" /\ proc'[p].parent = proc[p].parent
  BY <1>1, SetState
<1>3. p # initproc /\ wait_lock = p
  BY <1>1 DEF PlaceInv, Exiting, HolderInv, Holding
<1>4. TypeOK'
  BY <1>1, <1>2 DEF TypeOK
<1>5. \A q \in Slot : q # p /\ thread[q].pc \in Holding =>
        proc[q].state = "ZOMBIE" /\ thread[q].pc = "exit_zombie"
  BY <1>3, OneHolder
<1>6. PlaceInv'
  BY <1>1, <1>2 DEF PlaceInv
<1>7. TreeInv'
  BY <1>2, <1>3, TypeFacts DEF TreeInv
<1>8. HolderInv'
  BY <1>1, <1>2, <1>5, TypeFacts DEF HolderInv, Holding
<1>9. ForkInv'
  BY <1>1, <1>2, TypeFacts DEF ForkInv
<1>10. ParentAlive'
  <2>1. \A q \in Slot : proc[q].parent # p
    BY <1>1 DEF ReparentInv
  <2> QED
    BY SMT, <1>1, <1>2, <2>1, TypeFacts DEF ParentAlive, Living
<1>11. ReparentInv'
  BY <1>1, <1>2 DEF ReparentInv
<1>12. WokenInv'
  BY <1>1, <1>2 DEF WokenInv
<1>13. NoMissedExit'
  <2> SUFFICES ASSUME NEW a \in Slot, NEW z \in Slot,
                      proc'[a].state = "SLEEPING", proc'[a].chan = a,
                      proc'[z].state = "ZOMBIE", proc'[z].parent = a
               PROVE  FALSE
    BY DEF NoMissedExit
  <2>1. a # p /\ proc[a].state = "SLEEPING" /\ proc[a].chan = a
    BY <1>2
  <2>2. CASE z = p
    BY <1>1, <1>2, <2>1, <2>2 DEF WokenInv
  <2>3. CASE z # p
    BY <1>1, <1>2, <1>3, <2>1, <2>3 DEF NoMissedExit
  <2> QED
    BY <2>2, <2>3
<1>14. WaitScanValid'
  <2>1. \A a \in Slot : thread[a].pc \notin {"wait_scan", "wait_sleep"}
    BY <1>1, <1>5 DEF Holding
  <2> QED
    BY <1>1, <2>1 DEF WaitScanValid
<1>15. PtableInv'
  <2>1. \A q \in Slot : thread[q].pc = "getptable_pid" => thread[q].i # p
    BY SMT, <1>1, TypeFacts DEF PtableInv
  <2>2. \A q \in Slot : proc'[q].parent = proc[q].parent /\ (q # p => plock'[q] = plock[q])
    BY <1>1, <1>2 DEF TypeOK
  <2> QED
    BY SMT, <1>1, <2>1, <2>2 DEF PtableInv
<1> QED
  BY <1>4, <1>6, <1>7, <1>8, <1>9, <1>10, <1>11, <1>12, <1>13, <1>14, <1>15

-----------------------------------------------------------------------------
(* wait()                                                                  *)

LEMMA WaitLockStep ==
  ASSUME ProcInv, NEW p \in Slot, WaitLock(p)
  PROVE  ProcInv'
<1> USE DEF ProcInv
<1>1. /\ proc[p].state = "RUNNING" /\ thread[p].pc = "wait" /\ wait_lock = None
      /\ wait_lock' = p /\ Call(p, "wait_scan", None) /\ UNCHANGED <<proc, plock, nextpid>>
  BY DEF WaitLock, At
<1>2. /\ thread' \in [Slot -> ThreadRec]
      /\ \A q \in Slot : q # p => thread'[q] = thread[q]
      /\ thread'[p].pc = "wait_scan" /\ thread'[p].i = 0
  <2>1. "wait_scan" \in Place /\ None \in Int
    BY SMT DEF Place, None
  <2> QED
    BY <1>1, <2>1, CallFacts
<1>3. TypeOK'
  BY <1>1, <1>2 DEF TypeOK
<1>4. \A q \in Slot : thread[q].pc \in Holding => proc[q].state # "RUNNING"
  BY <1>1, TypeFacts DEF HolderInv
<1>5. PlaceInv' /\ TreeInv' /\ HolderInv' /\ ForkInv'
  BY SMTT(40), <1>1, <1>2, <1>4, TypeFacts DEF PlaceInv, TreeInv, HolderInv, ForkInv, Exiting, Holding
<1>6. ParentAlive' /\ ReparentInv' /\ WokenInv' /\ NoMissedExit' /\ WaitScanValid'
  BY SMTT(40), <1>1, <1>2, TypeFacts DEF ParentAlive, ReparentInv, WokenInv, NoMissedExit, WaitScanValid
<1>7. PtableInv'
  BY SMT, <1>1, <1>2 DEF PtableInv
<1> QED
  BY <1>3, <1>5, <1>6, <1>7

LEMMA WaitSkipStep ==
  ASSUME ProcInv, NEW p \in Slot, WaitSkip(p)
  PROVE  ProcInv'
<1> USE DEF ProcInv
<1> DEFINE pp == thread[p].i
<1>1. /\ proc[p].state = "RUNNING" /\ thread[p].pc = "wait_scan" /\ pp < NPROC
      /\ proc[pp].parent = p => proc[pp].state # "ZOMBIE"
      /\ UNCHANGED <<proc, plock, wait_lock, nextpid>>
  BY DEF WaitSkip, At
<1>2. /\ thread' \in [Slot -> ThreadRec]
      /\ \A q \in Slot : q # p => thread'[q] = thread[q]
      /\ thread'[p].pc = "wait_scan" /\ thread'[p].i = pp + 1
      /\ thread'[p].havekids <=> thread[p].havekids \/ proc[pp].parent = p
  <2> DEFINE kids == thread[p].havekids \/ proc[pp].parent = p
             t == [thread[p] EXCEPT !.i = pp + 1, !.havekids = kids]
  <2>1. thread[p] \in ThreadRec /\ pp + 1 \in 0..NPROC /\ kids \in BOOLEAN
    BY SMT, <1>1, TypeFacts DEF TypeOK
  <2>2. /\ t \in ThreadRec /\ t.pc = thread[p].pc /\ t.i = pp + 1
        /\ t.havekids = kids
    <3> HIDE DEF kids, pp
    <3> QED
      BY <2>1 DEF ThreadRec
  <2>3. thread' = [thread EXCEPT ![p] = t]
    BY DEF WaitSkip, TypeOK
  <2>4. thread' \in [Slot -> ThreadRec] /\ thread'[p] = t
        /\ \A q \in Slot : q # p => thread'[q] = thread[q]
    <3> HIDE DEF t
    <3> QED
      BY <2>2, <2>3 DEF TypeOK
  <2> HIDE DEF t
  <2> QED
    BY <1>1, <2>2, <2>4
<1>3. TypeOK'
  BY <1>1, <1>2 DEF TypeOK
<1>4. PlaceInv' /\ TreeInv' /\ HolderInv' /\ ForkInv'
  BY SMTT(40), <1>1, <1>2, TypeFacts DEF PlaceInv, TreeInv, HolderInv, ForkInv, Exiting, Holding
<1>5. ParentAlive' /\ ReparentInv' /\ WokenInv' /\ NoMissedExit'
  <2>1. wait_lock = p /\ thread[p].pc # "reparent_wakeup"
    BY <1>1 DEF HolderInv, Holding
  <2>2. NoMissedExit'
    BY <1>1, <2>1 DEF NoMissedExit
  <2> QED
    BY SMT, <1>1, <1>2, <2>2, TypeFacts DEF ParentAlive, ReparentInv, WokenInv
<1>6. WaitScanValid'
  <2> SUFFICES ASSUME NEW q \in Slot, q < pp + 1, proc[q].parent = p
               PROVE  proc[q].state # "ZOMBIE" /\ thread'[p].havekids
    BY SMT, <1>1, <1>2 DEF WaitScanValid
  <2>1. CASE q = pp
    BY <1>1, <1>2, <2>1
  <2>2. CASE q # pp
    <3>1. q < pp
      BY SMT, <2>2, TypeFacts
    <3> QED
      BY <1>1, <1>2, <3>1 DEF WaitScanValid
  <2> QED
    BY <2>1, <2>2
<1>7. PtableInv'
  BY SMT, <1>1, <1>2 DEF PtableInv
<1> QED
  BY <1>3, <1>4, <1>5, <1>6, <1>7

\* wait() returns without a child, or with a child that it leaves.
LEMMA WaitReturnStep ==
  ASSUME ProcInv, NEW p \in Slot, WaitFail(p) \/ WaitNone(p)
  PROVE  ProcInv'
<1> USE DEF ProcInv
<1>1. /\ proc[p].state = "RUNNING" /\ thread[p].pc = "wait_scan"
      /\ wait_lock' = None /\ Return(p) /\ UNCHANGED <<proc, plock, nextpid>>
  BY DEF WaitFail, WaitNone, AtZombie, At
<1>2. /\ thread' \in [Slot -> ThreadRec]
      /\ \A q \in Slot : q # p => thread'[q] = thread[q]
      /\ thread'[p].pc = "user"
  BY <1>1, ReturnFacts
<1>3. TypeOK'
  BY <1>1, <1>2 DEF TypeOK
<1>4. wait_lock = p
  BY <1>1 DEF HolderInv, Holding
<1>5. \A q \in Slot : q # p /\ thread[q].pc \in Holding =>
        proc[q].state = "ZOMBIE" /\ thread[q].pc = "exit_zombie"
  BY <1>4, OneHolder
<1>6. PlaceInv' /\ TreeInv' /\ HolderInv' /\ ForkInv'
  BY SMTT(40), <1>1, <1>2, <1>5, TypeFacts DEF PlaceInv, TreeInv, HolderInv, ForkInv, Exiting, Holding
<1>7. ParentAlive' /\ ReparentInv' /\ WokenInv' /\ WaitScanValid'
  BY SMT, <1>1, <1>2, TypeFacts DEF ParentAlive, ReparentInv, WokenInv, WaitScanValid
<1>8. NoMissedExit'
  BY <1>1, <1>4 DEF NoMissedExit
<1>9. PtableInv'
  BY SMT, <1>1, <1>2 DEF PtableInv
<1> QED
  BY <1>3, <1>6, <1>7, <1>8, <1>9

LEMMA WaitBlockStep ==
  ASSUME ProcInv, NEW p \in Slot, WaitBlock(p)
  PROVE  ProcInv'
<1> USE DEF ProcInv
<1>1. /\ proc[p].state = "RUNNING" /\ thread[p].pc = "wait_scan" /\ thread[p].i = NPROC
      /\ Call(p, "wait_sleep", None) /\ UNCHANGED <<proc, plock, wait_lock, nextpid>>
  BY DEF WaitBlock, At
<1>2. /\ thread' \in [Slot -> ThreadRec]
      /\ \A q \in Slot : q # p => thread'[q] = thread[q]
      /\ thread'[p].pc = "wait_sleep"
  <2>1. "wait_sleep" \in Place /\ None \in Int
    BY SMT DEF Place, None
  <2> QED
    BY <1>1, <2>1, CallFacts
<1>3. TypeOK'
  BY <1>1, <1>2 DEF TypeOK
<1>4. PlaceInv' /\ TreeInv' /\ HolderInv' /\ ForkInv'
  BY SMTT(40), <1>1, <1>2, TypeFacts DEF PlaceInv, TreeInv, HolderInv, ForkInv, Exiting, Holding
<1>5. ParentAlive' /\ ReparentInv' /\ WokenInv'
  BY SMT, <1>1, <1>2, TypeFacts DEF ParentAlive, ReparentInv, WokenInv
<1>6. NoMissedExit'
  <2>1. wait_lock = p /\ thread[p].pc # "reparent_wakeup"
    BY <1>1 DEF HolderInv, Holding
  <2> QED
    BY <1>1, <2>1 DEF NoMissedExit
<1>7. WaitScanValid'
  <2>1. \A q \in Slot : proc[q].parent = p => proc[q].state # "ZOMBIE"
    BY <1>1, TypeFacts DEF WaitScanValid
  <2> QED
    BY <1>1, <1>2, <2>1 DEF WaitScanValid
<1>8. PtableInv'
  BY SMT, <1>1, <1>2 DEF PtableInv
<1> QED
  BY <1>3, <1>4, <1>5, <1>6, <1>7, <1>8

\* wait() sleeps: no child has exited, and none can before p has its lock.
LEMMA WaitSleepStep ==
  ASSUME ProcInv, NEW p \in Slot, WaitSleep(p)
  PROVE  ProcInv'
<1> USE DEF ProcInv
<1>1. /\ proc[p].state = "RUNNING" /\ thread[p].pc = "wait_sleep" /\ plock[p] = None
      /\ plock' = [plock EXCEPT ![p] = p]
      /\ wait_lock' = None /\ Call(p, "wait", None) /\ UNCHANGED nextpid
  BY DEF WaitSleep, At, Free
<1>2. proc[p] \in ProcRec /\ proc[p].killed \in BOOLEAN /\ "SLEEPING" \in ProcState
      /\ p \in Slot \cup {Other, None}
  BY DEF TypeOK, ProcRec, ProcState
<1>3. proc' = [proc EXCEPT ![p].state = "SLEEPING", ![p].chan = p,
                           ![p].killed = proc[p].killed]
  <2>1. [proc[p] EXCEPT !.state = "SLEEPING", !.chan = p]
          = [proc[p] EXCEPT !.state = "SLEEPING", !.chan = p, !.killed = proc[p].killed]
    BY <1>2 DEF ProcRec
  <2> QED
    BY <2>1 DEF WaitSleep, TypeOK
<1>4. /\ proc' \in [Slot -> ProcRec]
      /\ \A r \in Slot : r # p => proc'[r] = proc[r]
      /\ proc'[p].state = "SLEEPING" /\ proc'[p].parent = proc[p].parent
  BY <1>2, <1>3, StateFacts
<1>5. /\ thread' \in [Slot -> ThreadRec]
      /\ \A q \in Slot : q # p => thread'[q] = thread[q]
      /\ thread'[p].pc = "wait"
  <2>1. "wait" \in Place /\ None \in Int
    BY SMT DEF Place, None
  <2> QED
    BY <1>1, <2>1, CallFacts
<1>6. TypeOK'
  BY <1>1, <1>4, <1>5 DEF TypeOK
<1>7. wait_lock = p
  BY <1>1 DEF HolderInv, Holding
<1>8. \A q \in Slot : q # p /\ thread[q].pc \in Holding =>
        proc[q].state = "ZOMBIE" /\ thread[q].pc = "exit_zombie"
  BY <1>7, OneHolder
<1>9. PlaceInv' /\ TreeInv'
  BY SMT, <1>1, <1>4, <1>5, TypeFacts DEF PlaceInv, TreeInv, Living, Exiting
<1>10. HolderInv'
  BY <1>1, <1>4, <1>5, <1>8, TypeFacts DEF HolderInv, Holding
<1>11. ForkInv'
  BY SMTT(40), <1>1, <1>4, <1>5 DEF ForkInv
<1>12. ParentAlive' /\ ReparentInv' /\ WaitScanValid'
  BY SMT, <1>1, <1>4, <1>5, TypeFacts DEF ParentAlive, ReparentInv, WaitScanValid, Living
<1>13. WokenInv'
  <2>1. \A a \in Slot : proc'[a].state = "RUNNING" =>
                           thread'[a].pc \notin {"exit_wakeup", "exit_zombie"}
    <3> SUFFICES ASSUME NEW a \in Slot, thread'[a].pc \in {"exit_wakeup", "exit_zombie"}
                 PROVE  proc'[a].state # "RUNNING"
      OBVIOUS
    <3>1. a # p /\ thread[a].pc \in Holding
      BY <1>5 DEF Holding
    <3> QED
      BY <1>4, <1>8, <3>1
  <2> QED
    BY <2>1 DEF WokenInv
<1>14. NoMissedExit'
  <2> SUFFICES ASSUME NEW a \in Slot, NEW z \in Slot,
                      proc'[a].state = "SLEEPING", proc'[a].chan = a,
                      proc'[z].state = "ZOMBIE", proc'[z].parent = a
               PROVE  FALSE
    BY DEF NoMissedExit
  <2>1. z # p /\ proc[z].state = "ZOMBIE" /\ proc[z].parent = a
    BY <1>4
  <2>2. CASE a = p
    BY <1>1, <2>1, <2>2 DEF WaitScanValid
  <2>3. CASE a # p
    BY <1>1, <1>4, <1>7, <2>1, <2>3 DEF NoMissedExit
  <2> QED
    BY <2>2, <2>3
<1>15. PtableInv'
  <2>1. \A q \in Slot : thread[q].pc = "getptable_pid" => thread[q].i # p
    BY SMT, <1>1, TypeFacts DEF PtableInv
  <2>2. \A q \in Slot : proc'[q].parent = proc[q].parent /\ (q # p => plock'[q] = plock[q])
    BY <1>1, <1>4 DEF TypeOK
  <2> QED
    BY SMT, <1>1, <1>5, <2>1, <2>2 DEF PtableInv
<1> QED
  BY <1>6, <1>9, <1>10, <1>11, <1>12, <1>13, <1>14, <1>15

\* freeproc() of a zombie: nobody else refers to its slot.
LEMMA WaitReapStep ==
  ASSUME ProcInv, NEW p \in Slot, WaitReap(p)
  PROVE  ProcInv'
<1> USE DEF ProcInv
<1> DEFINE pp == thread[p].i
<1>1. /\ proc[p].state = "RUNNING" /\ thread[p].pc = "wait_scan" /\ pp < NPROC
      /\ proc[pp].state = "ZOMBIE" /\ plock[pp] = None /\ wait_lock' = None
      /\ UNCHANGED <<plock, nextpid>>
  BY DEF WaitReap, AtZombie, At, Free
<1>2. pp \in Slot /\ pp # p /\ pp # initproc /\ wait_lock = p
  BY SMT, <1>1, TypeFacts DEF Slot, TreeInv, Living, HolderInv, Holding
<1>3. /\ proc' \in [Slot -> ProcRec]
      /\ \A r \in Slot : r # pp => proc'[r] = proc[r]
      /\ proc'[pp].state = "UNUSED" /\ proc'[pp].parent = None
  <2>1. /\ UnusedProc \in ProcRec
        /\ UnusedProc.state = "UNUSED" /\ UnusedProc.parent = None
    BY DEF UnusedProc, ProcRec, ProcState
  <2>2. proc' = [proc EXCEPT ![pp] = UnusedProc]
    BY DEF WaitReap
  <2> HIDE DEF pp
  <2> QED
    BY <1>2, <2>1, <2>2 DEF TypeOK
<1>4. /\ thread' \in [Slot -> ThreadRec]
      /\ \A q \in Slot : q \notin {p, pp} => thread'[q] = thread[q]
      /\ thread'[p].pc = "user" /\ thread'[pp].pc = "user"
  <2>1. UserMode \in ThreadRec /\ UserMode.pc = "user"
    BY SMT, ProcAssumption DEF UserMode, ThreadRec, Slot, Place
  <2>2. thread' = [thread EXCEPT ![p] = UserMode, ![pp] = UserMode]
    BY DEF WaitReap
  <2> HIDE DEF pp
  <2> QED
    BY <1>2, <2>1, <2>2 DEF TypeOK
<1>5. TypeOK'
  BY <1>1, <1>3, <1>4 DEF TypeOK
<1>6. /\ \A q \in Slot : proc[q].parent # pp
      /\ \A q \in Slot : thread[q].pc \in {"fork_parent", "fork_start"} => thread[q].arg # pp
  BY <1>1, <1>2, TypeFacts DEF ParentAlive, Living, ForkInv
<1>7. \A q \in Slot : q # p /\ thread[q].pc \in Holding =>
        proc[q].state = "ZOMBIE" /\ thread[q].pc = "exit_zombie"
  BY <1>2, OneHolder
<1> HIDE DEF pp
<1>8. PlaceInv'
  BY ZenonT(60), <1>1, <1>2, <1>3, <1>4 DEF PlaceInv, Exiting
<1>9. TreeInv'
  BY <1>2, <1>3, TypeFacts DEF TreeInv
<1>10. HolderInv'
  BY <1>1, <1>2, <1>3, <1>4, <1>7, TypeFacts DEF HolderInv, Holding
<1>11. ForkInv'
  BY SMT, <1>1, <1>2, <1>3, <1>4, <1>6 DEF ForkInv
<1>12. ParentAlive'
  BY SMT, <1>1, <1>2, <1>3, <1>6, TypeFacts DEF ParentAlive, Living
<1>13. ReparentInv'
  BY SMT, <1>1, <1>2, <1>3, <1>4, <1>6, TypeFacts DEF ReparentInv
<1>14. WokenInv'
  BY SMT, <1>1, <1>2, <1>3, <1>4, <1>6, TypeFacts DEF WokenInv
<1>15. NoMissedExit'
  BY <1>1, <1>2, <1>3, <1>6 DEF NoMissedExit
<1>16. WaitScanValid'
  BY SMT, <1>1, <1>2, <1>3, <1>4, <1>6, TypeFacts DEF WaitScanValid
<1>17. PtableInv'
  <2> SUFFICES ASSUME NEW a \in Slot, thread'[a].pc = "getptable_pid"
               PROVE  LET q == thread'[a].i
                          r == thread'[a].arg
                      IN  /\ q \in Slot /\ plock'[q] = a
                          /\ r \in Slot /\ r # q
                          /\ \/ proc'[q].parent = r
                             \/ thread'[r].pc = "reparent" /\ q < thread'[r].i
                             \/ thread'[r].pc = "reparent_wakeup" /\ q <= thread'[r].i
                             \/ thread'[r].pc = "exit_wakeup" /\ thread'[r].j <= q
    BY DEF PtableInv
  <2> DEFINE q == thread[a].i
             r == thread[a].arg
  <2>1. a \notin {p, pp} /\ thread'[a] = thread[a]
    BY <1>4
  <2>2. /\ q \in Slot /\ plock[q] = a
        /\ r \in Slot /\ r # q
        /\ \/ proc[q].parent = r
           \/ thread[r].pc = "reparent" /\ q < thread[r].i
           \/ thread[r].pc = "reparent_wakeup" /\ q <= thread[r].i
           \/ thread[r].pc = "exit_wakeup" /\ thread[r].j <= q
    BY <2>1 DEF PtableInv
  <2>3. q # pp /\ proc'[q] = proc[q]
    BY SMT, <1>1, <1>3, <2>2, TypeFacts
  <2>4. thread[pp].pc = "exit_zombie"
    BY <1>1, <1>2 DEF PlaceInv
  <2>5. proc[q].parent = r \/ thread'[r] = thread[r]
    BY <1>1, <1>4, <2>2, <2>4
  <2> QED
    BY <1>1, <2>1, <2>2, <2>3, <2>5
<1> QED
  BY <1>5, <1>8, <1>9, <1>10, <1>11, <1>12, <1>13, <1>14, <1>15, <1>16, <1>17

-----------------------------------------------------------------------------
(* getptable()                                                             *)

LEMMA GetPtableParentStep ==
  ASSUME ProcInv, NEW p \in Slot, GetPtableParent(p)
  PROVE  ProcInv'
<1> USE DEF ProcInv
<1> DEFINE q == thread[p].i
<1>1. /\ proc[p].state = "RUNNING" /\ thread[p].pc = "getptable" /\ q < NPROC
      /\ plock[q] = None /\ proc[q].parent # None /\ plock' = [plock EXCEPT ![q] = p]
      /\ UNCHANGED <<proc, wait_lock, nextpid>>
  BY DEF GetPtableParent, At, Free
<1>2. q \in Slot /\ proc[q].parent \in Slot /\ proc[q].parent # q /\ proc[q].parent \in Int
  BY SMT, <1>1, TypeFacts DEF Slot, TreeInv
<1>3. /\ thread' \in [Slot -> ThreadRec]
      /\ \A r \in Slot : r # p => thread'[r] = thread[r]
      /\ thread'[p].pc = "getptable_pid" /\ thread'[p].i = q
      /\ thread'[p].arg = proc[q].parent
  <2> DEFINE t == [thread[p] EXCEPT !.pc = "getptable_pid", !.arg = proc[q].parent]
  <2>1. thread[p] \in ThreadRec /\ "getptable_pid" \in Place
    BY DEF TypeOK, Place
  <2>2. /\ t \in ThreadRec /\ t.pc = "getptable_pid" /\ t.i = thread[p].i
        /\ t.arg = proc[q].parent
    BY <1>2, <2>1 DEF ThreadRec
  <2>3. thread' = [thread EXCEPT ![p] = t]
    BY DEF GetPtableParent, TypeOK
  <2> HIDE DEF t
  <2> QED
    BY <2>2, <2>3 DEF TypeOK
<1> HIDE DEF q
<1>4. TypeOK'
  BY <1>1, <1>2, <1>3 DEF TypeOK
<1>5. PlaceInv' /\ TreeInv' /\ HolderInv' /\ ForkInv'
  BY SMTT(40), <1>1, <1>3, TypeFacts DEF PlaceInv, TreeInv, HolderInv, ForkInv, Exiting, Holding
<1>6. ParentAlive' /\ ReparentInv' /\ WokenInv' /\ WaitScanValid'
  BY SMT, <1>1, <1>3, TypeFacts DEF ParentAlive, ReparentInv, WokenInv, WaitScanValid
<1>7. NoMissedExit'
  <2>1. wait_lock # p
    BY <1>1 DEF HolderInv, Holding
  <2> QED
    BY ZenonT(60), <1>1, <1>3, <2>1, TypeFacts DEF NoMissedExit, TypeOK
<1>8. PtableInv'
  <2>1. \A r \in Slot : thread[r].pc = "getptable_pid" => thread[r].i # q
    BY SMT, <1>1, <1>2, TypeFacts DEF PtableInv
  <2>2. plock'[q] = p /\ \A r \in Slot : r # q => plock'[r] = plock[r]
    BY <1>1, <1>2 DEF TypeOK
  <2>3. proc' = proc /\ thread[p].pc = "getptable"
    BY <1>1
  <2> QED
    BY SMT, <1>2, <1>3, <2>1, <2>2, <2>3 DEF PtableInv
<1> QED
  BY <1>4, <1>5, <1>6, <1>7, <1>8

LEMMA GetPtablePidStep ==
  ASSUME ProcInv, NEW p \in Slot, GetPtablePid(p)
  PROVE  ProcInv'
<1> USE DEF ProcInv
<1> DEFINE q == thread[p].i
<1>1. /\ proc[p].state = "RUNNING" /\ thread[p].pc = "getptable_pid"
      /\ plock' = [plock EXCEPT ![q] = None]
      /\ UNCHANGED <<proc, wait_lock, nextpid>>
  BY DEF GetPtablePid, At
<1>2. q \in Slot /\ plock[q] = p
  BY <1>1 DEF PtableInv
<1>3. /\ thread' \in [Slot -> ThreadRec]
      /\ \A r \in Slot : r # p => thread'[r] = thread[r]
      /\ thread'[p].pc \in {"getptable", "user"}
  <2> DEFINE t == [thread[p] EXCEPT !.pc = "getptable", !.i = q + 1, !.arg = None]
  <2>1. CASE thread' = [thread EXCEPT ![p] = t]
    <3>1. thread[p] \in ThreadRec /\ "getptable" \in Place /\ q + 1 \in 0..NPROC /\ None \in Int
      BY SMT, <1>2, TypeFacts DEF TypeOK, Place, None
    <3>2. t \in ThreadRec /\ t.pc = "getptable"
      BY <3>1 DEF ThreadRec
    <3> HIDE DEF t
    <3> QED
      BY <2>1, <3>2 DEF TypeOK
  <2>2. CASE Return(p)
    BY <2>2, ReturnFacts
  <2>3. Return(p) \/ thread' = [thread EXCEPT ![p] = t]
    BY DEF GetPtablePid, TypeOK
  <2> QED
    BY <2>1, <2>2, <2>3
<1> HIDE DEF q
<1>4. TypeOK'
  BY <1>1, <1>2, <1>3 DEF TypeOK
<1>5. PlaceInv' /\ TreeInv' /\ HolderInv' /\ ForkInv'
  BY SMTT(40), <1>1, <1>3, TypeFacts DEF PlaceInv, TreeInv, HolderInv, ForkInv, Exiting, Holding
<1>6. ParentAlive' /\ ReparentInv' /\ WokenInv' /\ WaitScanValid'
  BY SMT, <1>1, <1>3, TypeFacts DEF ParentAlive, ReparentInv, WokenInv, WaitScanValid
<1>7. NoMissedExit'
  <2>1. wait_lock # p
    BY <1>1 DEF HolderInv, Holding
  <2> QED
    BY ZenonT(60), <1>1, <1>3, <2>1, TypeFacts DEF NoMissedExit, TypeOK
<1>8. PtableInv'
  <2>1. \A r \in Slot : r # p /\ thread[r].pc = "getptable_pid" => thread[r].i # q
    BY <1>2 DEF PtableInv
  <2>2. \A r \in Slot : r # q => plock'[r] = plock[r]
    BY <1>1, <1>2 DEF TypeOK
  <2>3. proc' = proc /\ thread[p].pc = "getptable_pid"
    BY <1>1
  <2> QED
    BY SMT, <1>2, <1>3, <2>1, <2>2, <2>3 DEF PtableInv
<1> QED
  BY <1>4, <1>5, <1>6, <1>7, <1>8

-----------------------------------------------------------------------------
LEMMA NextInv ==
  ASSUME ProcInv, [Next]_vars
  PROVE  ProcInv'
<1>1. CASE UNCHANGED vars
  <2>1. TypeOK' /\ PlaceInv' /\ TreeInv'
    BY <1>1 DEF vars, ProcInv, TypeOK, PlaceInv, TreeInv
  <2>2. HolderInv' /\ ForkInv' /\ ParentAlive' /\ ReparentInv'
    BY <1>1 DEF vars, ProcInv, HolderInv, ForkInv, ParentAlive, ReparentInv
  <2>3. WokenInv' /\ NoMissedExit' /\ WaitScanValid' /\ PtableInv'
    <3>1. WokenInv' /\ WaitScanValid'
      BY <1>1 DEF vars, ProcInv, WokenInv, WaitScanValid
    <3>2. NoMissedExit' /\ PtableInv'
      BY <1>1 DEF vars, ProcInv, NoMissedExit, PtableInv
    <3> QED
      BY <3>1, <3>2
  <2> QED
    BY <2>1, <2>2, <2>3 DEF ProcInv
<1>2. ASSUME NEW p \in Slot, Run(p) \/ Switched(p) \/ Wake(p) \/ SysCall(p) PROVE ProcInv'
  BY <1>2, RunStep, SwitchedStep, WakeStep, SysCallStep, SleepStep DEF SysCall
<1>3. ASSUME NEW p \in Slot, ForkSteps(p) PROVE ProcInv'
  BY <1>3, LoopStep, ReturnStep, ForkAllocStep, ForkFailStep, ForkParentStep, ForkStartStep
     DEF ForkSteps
<1>4. ASSUME NEW p \in Slot, ExitSteps(p) PROVE ProcInv'
  BY <1>4, ExitLockStep, ReparentSkipStep, ReparentStep, ReparentWakeupStep, ReparentEndStep,
     ExitWakeupStep, ExitZombieStep DEF ExitSteps
<1>5. ASSUME NEW p \in Slot, WaitSteps(p) PROVE ProcInv'
  BY <1>5, WaitLockStep, WaitSkipStep, WaitReapStep, WaitReturnStep, WaitBlockStep, WaitSleepStep
     DEF WaitSteps
<1>6. ASSUME NEW p \in Slot, KillSteps(p) \/ ReadSteps(p) PROVE ProcInv'
  BY <1>6, LoopStep, KillStep, ReturnStep, GetPtableParentStep, GetPtablePidStep
     DEF KillSteps, ReadSteps
<1> QED
  BY <1>1, <1>2, <1>3, <1>4, <1>5, <1>6 DEF Next

\* The inductive invariant of the process table, its locks and its threads.
THEOREM Invariance == Spec => []ProcInv
  BY InitInv, NextInv, PTL DEF Spec

\* wait() misses no child: nobody sleeps in wait() with a child that has
\* exited, and what the scan has found out stays true until wait() sleeps or
\* returns, for any table size and whatever forks, exits, kills and other
\* waits interleave with it.
THEOREM WaitIsSound == Spec => []WaitSound
<1>1. ProcInv => WaitSound
  BY DEF ProcInv, WaitSound
<1> QED
  BY <1>1, Invariance, PTL

\* p->parent points to a living process wherever the kernel follows it: in
\* exit() and wait(), which hold wait_lock, and in getptable(), which holds
\* only the lock of the slot (the parent cannot finish its exit() before its
\* wakeup() has had that lock).
THEOREM ParentsAreAlive == Spec => []ParentsAlive
<1>1. ProcInv => PtableParentAlive
  <2> SUFFICES ASSUME ProcInv, NEW p \in Slot, thread[p].pc = "getptable_pid"
               PROVE  proc[thread[p].arg].state \in Living
    BY DEF PtableParentAlive
  <2> DEFINE q == thread[p].i
             r == thread[p].arg
  <2>1. /\ q \in Slot /\ r \in Slot
        /\ proc[q].parent = r \/ thread[r].pc \in {"reparent", "reparent_wakeup", "exit_wakeup"}
    BY DEF ProcInv, PtableInv
  <2>2. r # None /\ proc[r].state \in ProcState
    BY <2>1, TypeFacts DEF ProcInv
  <2>3. CASE proc[q].parent = r
    BY <2>1, <2>2, <2>3 DEF ProcInv, ParentAlive
  <2>4. CASE thread[r].pc \in {"reparent", "reparent_wakeup", "exit_wakeup"}
    BY <2>1, <2>2, <2>4 DEF ProcInv, PlaceInv, ProcState, Living
  <2> QED
    BY <2>1, <2>3, <2>4
<1>2. ProcInv => ParentsAlive
  BY <1>1 DEF ProcInv, ParentsAlive
<1> QED
  BY <1>2, Invariance, PTL
=============================================================================
