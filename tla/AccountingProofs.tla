-------------------------- MODULE AccountingProofs --------------------------
(***************************************************************************)
(* What the process monitor reports, for any number of slots, CPUs and     *)
(* ticks: the waiting time of a process is exact and its run time does not *)
(* exceed its age, also when ticks wraps around.  As long as ticks has not *)
(* come round once, the metrics are consistent.                            *)
(***************************************************************************)
EXTENDS AccountingHistory, TLAPS

-----------------------------------------------------------------------------
(* Unsigned arithmetic                                                     *)

LEMMA UType ==
  ASSUME NEW x \in Int
  PROVE  U(x) \in Uint
  BY AccountingAssumption DEF U, Uint

LEMMA USmall ==
  ASSUME NEW x \in Uint
  PROVE  U(x) = x
  BY AccountingAssumption DEF U, Uint

LEMMA UUnique ==
  ASSUME NEW a \in Uint, NEW b \in Uint, NEW k \in Int, a = b + UINT * k
  PROVE  a = b
<1> USE AccountingAssumption DEF Uint
<1>1. CASE k >= 1
  <2>1. UINT * k >= UINT
    BY <1>1
  <2> QED
    BY <2>1
<1>2. CASE k <= -1
  <2>1. UINT * k <= -UINT
    BY <1>2
  <2> QED
    BY <2>1
<1>3. CASE k = 0
  BY <1>3
<1> QED
  BY <1>1, <1>2, <1>3

\* Sums may be reduced at any time.
LEMMA UAdd ==
  ASSUME NEW a \in Int, NEW b \in Int
  PROVE  U(U(a) + b) = U(a + b)
<1> DEFINE x == U(a) + b
           y == a + b
<1>1. U(a) \in Int /\ U(a) \in Uint
  BY UType, AccountingAssumption DEF Uint
<1>2. x \in Int /\ y \in Int
  BY <1>1
<1>3. /\ a = UINT * (a \div UINT) + U(a)
      /\ a \div UINT \in Int
  BY AccountingAssumption DEF U
<1>4. /\ x = UINT * (x \div UINT) + U(x) /\ x \div UINT \in Int
  BY <1>2, AccountingAssumption DEF U
<1>5. /\ y = UINT * (y \div UINT) + U(y) /\ y \div UINT \in Int
  BY <1>2, AccountingAssumption DEF U
<1>6. U(x) \in Uint /\ U(y) \in Uint
  BY <1>2, UType
<1>7. PICK i \in Int, j \in Int, k \in Int :
        a = UINT * i + U(a) /\ x = UINT * j + U(x) /\ y = UINT * k + U(y)
  BY <1>3, <1>4, <1>5
<1>8. U(y) = U(x) + UINT * (i + j - k)
  <2>1. y = x + UINT * i
    BY <1>1, <1>7, AccountingAssumption
  <2>2. U(y) = U(x) + UINT * j + UINT * i - UINT * k
    BY <1>2, <1>6, <1>7, <2>1, AccountingAssumption DEF Uint
  <2> QED
    BY <1>6, <2>2, AccountingAssumption DEF Uint
<1>9. U(y) = U(x)
  BY <1>6, <1>8, UUnique
<1> QED
  BY <1>9

LEMMA UAtMost ==
  ASSUME NEW x \in Nat
  PROVE  U(x) <= x
  BY AccountingAssumption DEF U

-----------------------------------------------------------------------------
(* The inductive invariants                                                *)

\* A process on a CPU is RUNNING, and on one CPU only.
RunningInv ==
  /\ \A c \in CPU : running[c] # None => proc[running[c]].state = "RUNNING"
  /\ \A c, d \in CPU : running[c] = running[d] => running[c] = None \/ c = d

\* A free slot has no history, waits are counted exactly, and the run time of
\* a process that update_time() has still to look at is at most its age.
SlotInv(p) ==
  /\ ~Alive(p) => age[p] = 0 /\ waited[p] = 0 /\ lost[p] = 0
  /\ Alive(p) => U(Counted(p) + lost[p]) = waited[p]
  /\ Alive(p) => proc[p].run_time <= age[p] + 1
  /\ Alive(p) /\ clock # None /\ clock <= p => proc[p].run_time <= age[p]

HistoryTypeOK ==
  /\ age \in [Slot -> Nat]
  /\ waited \in [Slot -> Uint]
  /\ lost \in [Slot -> Uint]

TimesInv ==
  TypeOK /\ HistoryTypeOK /\ RunningInv /\ \A p \in Slot : SlotInv(p)

\* While ticks has not come round to where it started: nobody is older than the
\* ticks so far, has waited longer than it is old, or has another age than the
\* one exit() computes (the creation time of init is not kept).
LapInv(p) ==
  /\ age[p] + U(MaxTicks - ticks) < UINT
  /\ Alive(p) => Counted(p) <= age[p]
  /\ Alive(p) /\ p # initproc => U(ticks - proc[p].creation_time) = age[p]

MetricsInv == MetricsConsistent /\ \A p \in Slot : LapInv(p)
-----------------------------------------------------------------------------
(* What a step does to one slot                                            *)

\* The history variables of p.
Records(p) ==
  /\ age'[p] = Advance(age[p], p, Alive(p))
  /\ waited'[p] = U(Advance(waited[p], p, proc[p].state = "RUNNABLE"))
  /\ lost'[p] = U(Advance(lost[p], p, /\ proc[p].state = "RUNNABLE"
                                      /\ proc[p].last_runnable_time = 0))

\* p goes on, and what the kernel knows of its waiting time with it.
GoesOn(p) ==
  /\ Alive(p) /\ Alive(p)' /\ ticks' = ticks
  /\ Counted(p)' = Counted(p)
  /\ proc'[p].creation_time = proc[p].creation_time

Moves(p) ==
  /\ GoesOn(p)
  /\ proc'[p].run_time = proc[p].run_time
  /\ clock' # None /\ clock' <= p => clock # None /\ clock <= p

\* update_time() charges p one tick.
Charged(p) ==
  /\ GoesOn(p)
  /\ proc'[p].run_time = U(proc[p].run_time + 1)
  /\ clock = p /\ clock' = p + 1

\* allocproc() takes the slot; the slot is free afterwards.
Begins(p) ==
  /\ ~Alive(p) /\ Alive(p)' /\ ticks' = ticks
  /\ Counted(p)' = 0 /\ proc'[p].run_time = 0 /\ proc'[p].creation_time = ticks

Ends(p) == ~Alive(p)' /\ ticks' = ticks

Ticks(p) ==
  /\ proc'[p] = proc[p]
  /\ ticks # MaxTicks /\ ticks' = U(ticks + 1)

SlotStep(p) == Moves(p) \/ Charged(p) \/ Begins(p) \/ Ends(p) \/ Ticks(p)

LEMMA SlotFacts ==
  ASSUME TypeOK, NEW p \in Slot
  PROVE  /\ proc[p] \in ProcRec /\ p \in Nat /\ Uint \subseteq Nat /\ 0 \in Uint
         /\ proc[p].run_time \in Uint /\ proc[p].creation_time \in Uint
         /\ proc[p].last_runnable_time \in Uint /\ proc[p].total_waiting_time \in Uint
         /\ ticks \in Uint /\ WaitingTime(p) \in Uint /\ Counted(p) \in Uint
<1>1. proc[p] \in ProcRec /\ ticks \in Uint
  BY DEF TypeOK
<1>2. p \in Nat /\ Uint \subseteq Nat /\ 0 \in Uint
  BY AccountingAssumption DEF Slot, Uint
<1>3. /\ proc[p].run_time \in Uint /\ proc[p].creation_time \in Uint
      /\ proc[p].last_runnable_time \in Uint /\ proc[p].total_waiting_time \in Uint
  BY <1>1 DEF ProcRec
<1>4. ticks - proc[p].last_runnable_time \in Int
  BY <1>1, <1>3, AccountingAssumption DEF Uint
<1>5. U(ticks - proc[p].last_runnable_time) \in Uint
  BY <1>4, UType
<1>6. proc[p].total_waiting_time + U(ticks - proc[p].last_runnable_time) \in Int
  BY <1>3, <1>5, AccountingAssumption DEF Uint
<1>7. U(proc[p].total_waiting_time + U(ticks - proc[p].last_runnable_time)) \in Uint
  BY <1>6, UType
<1>8. WaitingTime(p) \in Uint
  BY <1>3, <1>7 DEF WaitingTime
<1> QED
  BY <1>1, <1>2, <1>3, <1>8 DEF Counted

LEMMA RecordsType ==
  ASSUME TypeOK, HistoryTypeOK, NEW p \in Slot, Records(p)
  PROVE  age'[p] \in Nat /\ waited'[p] \in Uint /\ lost'[p] \in Uint
<1>1. age[p] \in Nat /\ waited[p] \in Nat /\ lost[p] \in Nat
  BY SlotFacts DEF HistoryTypeOK
<1>2. /\ Advance(age[p], p, Alive(p)) \in Nat
      /\ Advance(waited[p], p, proc[p].state = "RUNNABLE") \in Int
      /\ Advance(lost[p], p, /\ proc[p].state = "RUNNABLE"
                             /\ proc[p].last_runnable_time = 0) \in Int
  BY <1>1 DEF Advance
<1> QED
  BY <1>2, UType DEF Records

\* A tick of the clock in the middle of a wait.
LEMMA WaitGrows ==
  ASSUME TypeOK, HistoryTypeOK, NEW p \in Slot, Ticks(p),
         proc[p].state = "RUNNABLE", proc[p].last_runnable_time > 0
  PROVE  Counted(p)' = U(Counted(p) + 1)
<1> DEFINE w == proc[p].total_waiting_time
           l == proc[p].last_runnable_time
           u == U(ticks - l)
<1>1. w \in Int /\ l \in Int /\ ticks \in Int
  BY SlotFacts
<1>2. u \in Int
  BY <1>1, UType, SlotFacts
<1>3. Counted(p) = U(w + u)
  BY DEF Counted, WaitingTime
<1>4. Counted(p)' = U(w + U(U(ticks + 1) - l))
  BY DEF Counted, WaitingTime, Ticks
<1> HIDE DEF w, l
<1>5. U(U(ticks + 1) - l) = U(ticks + 1 - l)
  <2>1. U(U(ticks + 1) + (-l)) = U(ticks + 1 + (-l))
    BY <1>1, UAdd
  <2>2. U(ticks + 1) \in Int
    BY <1>1, UType, SlotFacts
  <2> QED
    BY <1>1, <2>1, <2>2
<1>6. U(ticks + 1 - l) = U(u + 1)
  <2>1. U(U(ticks - l) + 1) = U(ticks - l + 1)
    BY <1>1, UAdd
  <2> QED
    BY <1>1, <2>1
<1> HIDE DEF u
<1>7. U(U(u + 1) + w) = U(w + u + 1)
  <2>1. U(U(u + 1) + w) = U(u + 1 + w)
    BY <1>1, <1>2, UAdd
  <2> QED
    BY <1>1, <1>2, <2>1
<1>8. U(U(w + u) + 1) = U(w + u + 1)
  BY <1>1, <1>2, UAdd
<1>9. U(u + 1) \in Int
  BY <1>2, UType, SlotFacts
<1>10. Counted(p)' = U(w + U(u + 1))
  BY <1>4, <1>5, <1>6
<1> QED
  BY <1>1, <1>3, <1>7, <1>8, <1>9, <1>10

\* Between two ticks the history of a process does not change, and a free slot
\* has none.
LEMMA RecordsSame ==
  ASSUME TypeOK, HistoryTypeOK, NEW p \in Slot, Records(p), ticks' = ticks
  PROVE  /\ Alive(p)' => age'[p] = age[p] /\ waited'[p] = waited[p] /\ lost'[p] = lost[p]
         /\ ~Alive(p)' => age'[p] = 0 /\ waited'[p] = 0 /\ lost'[p] = 0
<1>1. U(0) = 0 /\ U(waited[p]) = waited[p] /\ U(lost[p]) = lost[p]
  <2>1. 0 \in Uint /\ waited[p] \in Uint /\ lost[p] \in Uint
    BY SlotFacts DEF HistoryTypeOK
  <2> QED
    BY <2>1, USmall
<1> QED
  BY <1>1 DEF Records, Advance, Alive

LEMMA TicksSlotInv ==
  ASSUME TypeOK, HistoryTypeOK, NEW p \in Slot, Records(p), SlotInv(p), Ticks(p)
  PROVE  SlotInv(p)'
<1>1. ticks' # ticks
  <2>1. ticks \in 0..(UINT - 1) /\ ticks + 1 \in Int /\ UINT \in Nat /\ UINT > 1
    BY AccountingAssumption DEF TypeOK, Uint
  <2>2. CASE ticks + 1 < UINT
    <3>1. ticks + 1 \in Uint
      BY <2>1, <2>2 DEF Uint
    <3>2. U(ticks + 1) = ticks + 1
      BY <3>1, USmall
    <3> QED
      BY <2>1, <3>2 DEF Ticks
  <2>3. CASE ticks + 1 = UINT
    <3>1. U(ticks + 1) = 0
      BY <2>1, <2>3 DEF U
    <3> QED
      BY <2>1, <2>3, <3>1 DEF Ticks
  <2> QED
    BY <2>1, <2>2, <2>3
<1>2. (Alive(p)' <=> Alive(p)) /\ proc'[p] = proc[p]
  BY DEF Alive, Ticks
<1>3. /\ waited[p] \in Uint /\ lost[p] \in Uint /\ age[p] \in Nat
      /\ waited[p] \in Int /\ lost[p] \in Int /\ proc[p].run_time \in Nat
      /\ Counted(p) \in Uint /\ Counted(p) \in Int
  BY SlotFacts DEF HistoryTypeOK
<1>6. Counted(p) + lost[p] \in Int /\ lost[p] + 1 \in Int /\ Counted(p) + 1 \in Int
  BY <1>3
<1>4. CASE ~Alive(p)
  <2>1. U(0) = 0
    BY SlotFacts, USmall
  <2> QED
    BY <1>2, <1>4, <2>1 DEF SlotInv, Records, Advance, Alive
<1>5. CASE Alive(p)
  <2>1. age'[p] = age[p] + 1
    BY <1>1, <1>2, <1>5 DEF Records, Advance, Alive
  <2>2. U(Counted(p)' + lost'[p]) = waited'[p]
    <3>1. U(Counted(p) + lost[p]) = waited[p]
      BY <1>5 DEF SlotInv
    <3>2. CASE proc[p].state # "RUNNABLE"
      <4>1. waited'[p] = waited[p] /\ lost'[p] = lost[p]
        BY <1>2, <1>3, <1>5, <3>2, USmall DEF Records, Advance, Alive
      <4>2. Counted(p)' = Counted(p)
        BY <1>2, <3>2 DEF Counted
      <4> QED
        BY <3>1, <4>1, <4>2
    <3>3. CASE proc[p].state = "RUNNABLE"
      <4>1. waited'[p] = U(waited[p] + 1)
        BY <1>1, <1>2, <1>5, <3>3 DEF Records, Advance, Alive
      <4>2. waited'[p] = U(Counted(p) + lost[p] + 1)
        <5>1. \A x \in Int : U(U(x) + 1) = U(x + 1)
          BY UAdd
        <5> QED
          BY <1>6, <3>1, <4>1, <5>1
      <4>3. CASE proc[p].last_runnable_time = 0
        <5>1. lost'[p] = U(lost[p] + 1)
          BY <1>1, <1>2, <1>5, <3>3, <4>3 DEF Records, Advance, Alive
        <5>2. Counted(p)' = Counted(p)
          BY <1>2, <3>3, <4>3 DEF Counted, WaitingTime
        <5>3. U(U(lost[p] + 1) + Counted(p)) = U(lost[p] + 1 + Counted(p))
          BY <1>3, <1>6, UAdd
        <5>4. U(lost[p] + 1) \in Int
          BY <1>3, UType, SlotFacts
        <5> QED
          BY <1>3, <4>2, <5>1, <5>2, <5>3, <5>4
      <4>4. CASE proc[p].last_runnable_time # 0
        <5>1. proc[p].last_runnable_time > 0
          BY <4>4, SlotFacts
        <5>2. lost'[p] = lost[p]
          BY <1>2, <1>3, <1>5, <4>4, USmall DEF Records, Advance, Alive
        <5>3. Counted(p)' = U(Counted(p) + 1)
          BY <3>3, <5>1, WaitGrows
        <5>4. U(U(Counted(p) + 1) + lost[p]) = U(Counted(p) + 1 + lost[p])
          BY <1>3, <1>6, UAdd
        <5> QED
          BY <1>3, <4>2, <5>2, <5>3, <5>4
      <4> QED
        BY <4>3, <4>4
    <3> QED
      BY <3>2, <3>3
  <2>3. proc'[p].run_time <= age'[p]
    BY <1>2, <1>3, <1>5, <2>1 DEF SlotInv
  <2>4. proc'[p].run_time <= age'[p] + 1
    BY <1>2, <1>3, <2>1, <2>3
  <2> QED
    BY <1>2, <1>5, <2>2, <2>3, <2>4 DEF SlotInv
<1> QED
  BY <1>4, <1>5

LEMMA SlotStepInv ==
  ASSUME TypeOK, HistoryTypeOK, NEW p \in Slot, Records(p), SlotInv(p), SlotStep(p)
  PROVE  SlotInv(p)'
<1>1. /\ age[p] \in Nat /\ p \in Nat /\ proc[p].run_time \in Nat
      /\ clock \in Nat \cup {None}
  BY SlotFacts DEF HistoryTypeOK, TypeOK, None
<1>2. CASE Moves(p)
  <2>1. age'[p] = age[p] /\ waited'[p] = waited[p] /\ lost'[p] = lost[p]
    BY <1>2, RecordsSame DEF Moves, GoesOn
  <2> QED
    BY <1>2, <2>1 DEF SlotInv, Moves, GoesOn
<1>3. CASE Charged(p)
  <2>1. age'[p] = age[p] /\ waited'[p] = waited[p] /\ lost'[p] = lost[p]
    BY <1>3, RecordsSame DEF Charged, GoesOn
  <2>2. /\ Alive(p) /\ Alive(p)' /\ Counted(p)' = Counted(p)
        /\ proc'[p].run_time = U(proc[p].run_time + 1) /\ clock = p /\ clock' = p + 1
    BY <1>3 DEF Charged, GoesOn
  <2>3. proc[p].run_time <= age[p]
    BY <1>1, <2>2 DEF SlotInv, None
  <2>4. ~(clock' <= p)
    BY <1>1, <2>2
  <2>5. proc'[p].run_time <= age'[p] + 1
    <3>1. proc[p].run_time + 1 \in Nat
      BY <1>1
    <3>2. /\ U(proc[p].run_time + 1) <= proc[p].run_time + 1
          /\ U(proc[p].run_time + 1) \in Nat
      BY <3>1, UAtMost, UType, SlotFacts
    <3> QED
      BY <1>1, <2>1, <2>2, <2>3, <3>2
  <2> QED
    BY <2>1, <2>2, <2>4, <2>5 DEF SlotInv
<1>4. CASE Begins(p)
  <2>1. age[p] = 0 /\ waited[p] = 0 /\ lost[p] = 0
    BY <1>4 DEF SlotInv, Begins
  <2>2. age'[p] = 0 /\ waited'[p] = 0 /\ lost'[p] = 0
    BY <1>4, <2>1, RecordsSame DEF Begins
  <2>3. U(0) = 0
    BY SlotFacts, USmall
  <2> QED
    BY <1>4, <2>2, <2>3 DEF SlotInv, Begins
<1>5. CASE Ends(p)
  BY <1>5, RecordsSame DEF SlotInv, Ends
<1>6. CASE Ticks(p)
  BY <1>6, TicksSlotInv
<1> QED
  BY <1>2, <1>3, <1>4, <1>5, <1>6 DEF SlotStep

-----------------------------------------------------------------------------
(* Every action, slot by slot                                              *)

\* Nothing that is accounted for happens to p; it is put in another state
\* without waiting before or afterwards.
Untouched(p) ==
  /\ proc'[p].creation_time = proc[p].creation_time
  /\ proc'[p].run_time = proc[p].run_time
  /\ proc'[p].total_waiting_time = proc[p].total_waiting_time
  /\ proc'[p].last_runnable_time = proc[p].last_runnable_time
  /\ \/ proc'[p].state = proc[p].state
     \/ /\ proc[p].state \notin {"UNUSED", "RUNNABLE"}
        /\ proc'[p].state \notin {"UNUSED", "RUNNABLE"}

LEMMA UntouchedStep ==
  ASSUME NEW p \in Slot, Untouched(p), ticks' = ticks,
         clock' # None /\ clock' <= p => clock # None /\ clock <= p
  PROVE  SlotStep(p)
<1>1. CASE ~Alive(p)
  BY <1>1 DEF SlotStep, Ends, Untouched, Alive
<1>2. CASE Alive(p)
  <2>1. Alive(p)'
    BY <1>2 DEF Alive, Untouched
  <2>2. Counted(p)' = Counted(p)
    BY DEF Counted, WaitingTime, Untouched
  <2> QED
    BY <1>2, <2>1, <2>2 DEF SlotStep, Moves, GoesOn, Untouched
<1> QED
  BY <1>1, <1>2

\* A wait that begins adds nothing yet.
LEMMA MakeRunnableStep ==
  ASSUME TypeOK, NEW p \in Slot, ticks' = ticks, clock' = clock,
         proc[p].state \notin {"UNUSED", "RUNNABLE"}, proc'[p].state = "RUNNABLE",
         proc'[p].last_runnable_time = ticks,
         proc'[p].total_waiting_time = proc[p].total_waiting_time,
         proc'[p].run_time = proc[p].run_time,
         proc'[p].creation_time = proc[p].creation_time
  PROVE  SlotStep(p)
<1>1. Alive(p) /\ Alive(p)'
  BY DEF Alive
<1>2. Counted(p)' = Counted(p)
  <2>1. Counted(p) = proc[p].total_waiting_time
    BY DEF Counted
  <2>2. U(ticks - ticks) = 0
    <3>1. ticks - ticks = 0
      BY SlotFacts
    <3> QED
      BY <3>1, SlotFacts, USmall
  <2>3. U(proc[p].total_waiting_time + 0) = proc[p].total_waiting_time
    <3>1. proc[p].total_waiting_time + 0 = proc[p].total_waiting_time
      BY SlotFacts
    <3> QED
      BY <3>1, SlotFacts, USmall
  <2>4. Counted(p)' = proc[p].total_waiting_time
    BY <2>2, <2>3 DEF Counted, WaitingTime
  <2> QED
    BY <2>1, <2>4
<1> QED
  BY <1>1, <1>2 DEF SlotStep, Moves, GoesOn

\* The processes on the CPUs, when p leaves or changes its state off the CPUs.
LEMMA RunningSame ==
  ASSUME TypeOK, RunningInv, running' = running,
         \A p \in Slot : proc[p].state = "RUNNING" => proc'[p].state = "RUNNING"
  PROVE  RunningInv'
<1>1. running \in [CPU -> Slot \cup {None}]
  BY DEF TypeOK
<1> QED
  BY <1>1 DEF RunningInv

LEMMA RunningLeft ==
  ASSUME TypeOK, RunningInv, NEW c \in CPU, running[c] # None,
         running' = [running EXCEPT ![c] = None],
         \A p \in Slot : p # running[c] => proc'[p].state = proc[p].state
  PROVE  RunningInv' /\ running' \in [CPU -> Slot \cup {None}]
<1>1. running \in [CPU -> Slot \cup {None}]
  BY DEF TypeOK
<1>2. /\ running'[c] = None
      /\ \A d \in CPU : d # c => running'[d] = running[d]
  BY <1>1
<1>3. ASSUME NEW d \in CPU, running'[d] # None
      PROVE  proc'[running'[d]].state = "RUNNING"
  <2>1. d # c /\ running'[d] = running[d] /\ running[d] \in Slot
    BY <1>1, <1>2, <1>3
  <2>2. running[d] # running[c]
    BY <1>3, <2>1 DEF RunningInv
  <2>3. proc[running[d]].state = "RUNNING"
    BY <1>3, <2>1 DEF RunningInv
  <2> QED
    BY <2>1, <2>2, <2>3
<1>4. \A d, e \in CPU : running'[d] = running'[e] => running'[d] = None \/ d = e
  BY <1>2 DEF RunningInv
<1>5. running' \in [CPU -> Slot \cup {None}]
  BY <1>1
<1> QED
  BY <1>3, <1>4, <1>5 DEF RunningInv

StepOK == TypeOK' /\ RunningInv' /\ \A p \in Slot : SlotStep(p)

LEMMA OneSlot ==
  ASSUME TypeOK, NEW p \in Slot, NEW t \in ProcRec, proc' = [proc EXCEPT ![p] = t]
  PROVE  /\ proc' \in [Slot -> ProcRec] /\ proc'[p] = t
         /\ \A q \in Slot : q # p => proc'[q] = proc[q]
  BY DEF TypeOK

LEMMA OtherSlots ==
  ASSUME NEW p \in Slot, \A q \in Slot : q # p => proc'[q] = proc[q],
         SlotStep(p), ticks' = ticks, clock' = clock
  PROVE  \A q \in Slot : SlotStep(q)
<1>1. ASSUME NEW q \in Slot, q # p
      PROVE  SlotStep(q)
  <2>1. Untouched(q)
    BY <1>1 DEF Untouched
  <2> QED
    BY <2>1, UntouchedStep
<1> QED
  BY <1>1

LEMMA DispatchStep ==
  ASSUME TypeOK, RunningInv, NEW c \in CPU, NEW p \in Slot, Dispatch(c, p)
  PROVE  StepOK
<1> DEFINE t == [proc[p] EXCEPT !.state = "RUNNING", !.total_waiting_time = WaitingTime(p)]
<1>1. /\ t \in ProcRec /\ t.state = "RUNNING" /\ t.total_waiting_time = WaitingTime(p)
      /\ t.run_time = proc[p].run_time /\ t.creation_time = proc[p].creation_time
  <2>1. proc[p] \in ProcRec /\ WaitingTime(p) \in Uint /\ "RUNNING" \in ProcState
    BY SlotFacts DEF ProcState
  <2> HIDE DEF WaitingTime
  <2> QED
    BY <2>1 DEF ProcRec
<1>2. /\ proc' = [proc EXCEPT ![p] = t] /\ proc[p].state = "RUNNABLE"
      /\ running[c] = None /\ running' = [running EXCEPT ![c] = p]
      /\ UNCHANGED <<clock, ticks, sched_mode, metrics, forks>>
  BY DEF Dispatch
<1> HIDE DEF t
<1>3. /\ proc' \in [Slot -> ProcRec] /\ proc'[p] = t
      /\ \A q \in Slot : q # p => proc'[q] = proc[q]
  BY <1>1, <1>2, OneSlot
<1>4. SlotStep(p)
  <2>1. Alive(p) /\ Alive(p)'
    BY <1>1, <1>2, <1>3 DEF Alive
  <2>2. Counted(p)' = Counted(p)
    BY <1>1, <1>2, <1>3 DEF Counted
  <2> QED
    BY <1>1, <1>2, <1>3, <2>1, <2>2 DEF SlotStep, Moves, GoesOn
<1>5. \A q \in Slot : SlotStep(q)
  BY <1>2, <1>3, <1>4, OtherSlots
<1>6. running \in [CPU -> Slot \cup {None}]
  BY DEF TypeOK
<1>7. /\ running' \in [CPU -> Slot \cup {None}] /\ running'[c] = p
      /\ \A d \in CPU : d # c => running'[d] = running[d]
  BY <1>2, <1>6
<1>8. TypeOK'
  BY <1>2, <1>3, <1>7 DEF TypeOK
<1>9. RunningInv'
  <2>1. ASSUME NEW d \in CPU, d # c, running[d] # None
        PROVE  running[d] \in Slot /\ running[d] # p /\ proc[running[d]].state = "RUNNING"
    BY <1>2, <1>6, <2>1 DEF RunningInv
  <2>2. ASSUME NEW d \in CPU, running'[d] # None
        PROVE  proc'[running'[d]].state = "RUNNING"
    BY <1>1, <1>3, <1>7, <2>1, <2>2
  <2>3. ASSUME NEW d \in CPU, NEW e \in CPU, running'[d] = running'[e], running'[d] # None
        PROVE  d = e
    <3>1. CASE d = c \/ e = c
      BY <1>7, <2>1, <2>3, <3>1
    <3>2. CASE d # c /\ e # c
      BY <1>7, <2>3, <3>2 DEF RunningInv
    <3> QED
      BY <3>1, <3>2
  <2> QED
    BY <2>2, <2>3, Zenon DEF RunningInv
<1> QED
  BY <1>5, <1>8, <1>9 DEF StepOK

LEMMA YieldStep ==
  ASSUME TypeOK, RunningInv, NEW c \in CPU, Yield(c)
  PROVE  StepOK
<1>a. PICK p \in Slot : running[c] = p /\ proc[p].state = "RUNNING"
  BY DEF Yield, TypeOK, RunningInv
<1> DEFINE u == [proc[p] EXCEPT !.state = "RUNNABLE", !.last_runnable_time = ticks]
           t == [u EXCEPT !.policy = IF u.policy = Yielding THEN None ELSE u.policy]
<1>1. /\ t \in ProcRec /\ t.state = "RUNNABLE" /\ t.last_runnable_time = ticks
      /\ t.total_waiting_time = proc[p].total_waiting_time
      /\ t.run_time = proc[p].run_time /\ t.creation_time = proc[p].creation_time
  <2>1. proc[p] \in ProcRec /\ ticks \in Uint /\ "RUNNABLE" \in ProcState
    BY SlotFacts DEF ProcState
  <2>2. /\ u \in ProcRec /\ u.state = "RUNNABLE" /\ u.last_runnable_time = ticks
        /\ u.total_waiting_time = proc[p].total_waiting_time
        /\ u.run_time = proc[p].run_time /\ u.creation_time = proc[p].creation_time
    BY <2>1 DEF ProcRec
  <2> HIDE DEF u
  <2> QED
    BY <2>2 DEF ProcRec
<1>2. proc' = [proc EXCEPT ![p] = t]
  <2> DEFINE m == [proc EXCEPT ![p] = u]
  <2>1. MakeRunnable(p) = m
    BY DEF MakeRunnable
  <2>2. proc' = [m EXCEPT ![p].policy = IF @ = Yielding THEN None ELSE @]
    BY <1>a, <2>1 DEF Yield, Yielded
  <2>3. m[p] = u /\ m \in [Slot -> {m[q] : q \in Slot}]
    BY DEF TypeOK
  <2> HIDE DEF u
  <2>4. proc' = [m EXCEPT ![p] = t]
    BY <2>2, <2>3
  <2> QED
    BY <2>4 DEF TypeOK
<1>3. /\ running[c] # None /\ running' = [running EXCEPT ![c] = None]
      /\ UNCHANGED <<clock, ticks, sched_mode, metrics, forks>>
  BY DEF Yield
<1> HIDE DEF t, u
<1>4. /\ proc' \in [Slot -> ProcRec] /\ proc'[p] = t
      /\ \A q \in Slot : q # p => proc'[q] = proc[q]
  BY <1>1, <1>2, OneSlot
<1>5. SlotStep(p)
  BY <1>a, <1>1, <1>3, <1>4, MakeRunnableStep
<1>6. \A q \in Slot : SlotStep(q)
  BY <1>3, <1>4, <1>5, OtherSlots
<1>7. RunningInv' /\ running' \in [CPU -> Slot \cup {None}]
  BY <1>a, <1>3, <1>4, RunningLeft
<1>8. TypeOK'
  BY <1>3, <1>4, <1>7 DEF TypeOK
<1> QED
  BY <1>6, <1>7, <1>8 DEF StepOK

\* The fields of a struct proc that accounting reads.
Accounted(r) ==
  <<r.creation_time, r.run_time, r.total_waiting_time, r.last_runnable_time, r.state>>

LEMMA QuietStep ==
  ASSUME TypeOK, RunningInv, NEW p \in Slot, NEW t \in ProcRec,
         proc' = [proc EXCEPT ![p] = t], Accounted(t) = Accounted(proc[p]),
         UNCHANGED <<running, clock, ticks, forks>>, sched_mode' \in 0..2,
         metrics' \in [turnaround: Nat, waiting: Nat, finished: Nat]
  PROVE  StepOK
<1>1. /\ proc' \in [Slot -> ProcRec] /\ proc'[p] = t
      /\ \A q \in Slot : q # p => proc'[q] = proc[q]
  BY OneSlot
<1>2. Untouched(p) /\ t.state = proc[p].state
  BY <1>1 DEF Untouched, Accounted
<1>3. SlotStep(p)
  BY <1>2, UntouchedStep
<1>4. \A q \in Slot : SlotStep(q)
  BY <1>1, <1>3, OtherSlots
<1>5. RunningInv'
  BY <1>1, <1>2, RunningSame
<1>6. TypeOK'
  BY <1>1 DEF TypeOK
<1> QED
  BY <1>4, <1>5, <1>6 DEF StepOK

LEMMA YieldFCFSStep ==
  ASSUME TypeOK, RunningInv, NEW c \in CPU, YieldFCFS(c)
  PROVE  StepOK
<1>a. PICK p \in Slot : running[c] = p
  BY DEF YieldFCFS, TypeOK
<1> DEFINE t == [proc[p] EXCEPT !.policy = IF proc[p].policy = Yielding THEN None ELSE @]
<1>1. t \in ProcRec /\ Accounted(t) = Accounted(proc[p])
  <2>1. proc[p] \in ProcRec
    BY DEF TypeOK
  <2> QED
    BY <2>1 DEF ProcRec, Accounted
<1>2. /\ proc' = [proc EXCEPT ![p] = t]
      /\ UNCHANGED <<running, clock, ticks, sched_mode, metrics, forks>>
  BY <1>a DEF YieldFCFS, Yielded
<1> HIDE DEF t
<1>3. sched_mode' \in 0..2 /\ metrics' \in [turnaround: Nat, waiting: Nat, finished: Nat]
  BY <1>2 DEF TypeOK
<1> QED
  BY <1>1, <1>2, <1>3, QuietStep

LEMMA ExitStep ==
  ASSUME TypeOK, RunningInv, NEW c \in CPU, Exit(c)
  PROVE  StepOK
<1>a. PICK p \in Slot : running[c] = p
  BY DEF Exit, InUser, TypeOK
<1> DEFINE t == [proc[p] EXCEPT !.exiting = TRUE]
<1>1. t \in ProcRec /\ Accounted(t) = Accounted(proc[p])
  <2>1. proc[p] \in ProcRec
    BY DEF TypeOK
  <2> QED
    BY <2>1 DEF ProcRec, Accounted
<1>2. /\ proc' = [proc EXCEPT ![p] = t]
      /\ UNCHANGED <<running, clock, ticks, sched_mode, forks>>
  BY <1>a DEF Exit
<1> HIDE DEF t
<1>3. sched_mode' \in 0..2
  BY <1>2 DEF TypeOK
<1>4. metrics' \in [turnaround: Nat, waiting: Nat, finished: Nat]
  <2>1. ticks - proc[p].creation_time \in Int
    BY SlotFacts
  <2>2. U(ticks - proc[p].creation_time) \in Nat
    BY <2>1, UType, SlotFacts
  <2>3. /\ metrics.turnaround \in Nat /\ metrics.waiting \in Nat /\ metrics.finished \in Nat
        /\ proc[p].total_waiting_time \in Nat
    BY SlotFacts DEF TypeOK
  <2>4. metrics' = [turnaround |-> metrics.turnaround + U(ticks - proc[p].creation_time),
                    waiting |-> metrics.waiting + proc[p].total_waiting_time,
                    finished |-> metrics.finished + 1]
    BY <1>a DEF Exit
  <2> QED
    BY <2>2, <2>3, <2>4
<1> QED
  BY <1>1, <1>2, <1>3, <1>4, QuietStep

LEMMA SetSchedulerStep ==
  ASSUME TypeOK, RunningInv, NEW c \in CPU, NEW m \in Policies, SetScheduler(c, m)
  PROVE  StepOK
<1>a. PICK p \in Slot : running[c] = p
  BY DEF SetScheduler, InUser, TypeOK
<1> DEFINE t == [proc[p] EXCEPT !.policy = m]
<1>1. t \in ProcRec /\ Accounted(t) = Accounted(proc[p])
  <2>1. proc[p] \in ProcRec /\ m \in 0..2
    BY AccountingAssumption DEF TypeOK
  <2> QED
    BY <2>1 DEF ProcRec, Accounted
<1>2. /\ proc' = [proc EXCEPT ![p] = t] /\ metrics' = NoMetrics
      /\ UNCHANGED <<running, clock, ticks, sched_mode, forks>>
  BY <1>a DEF SetScheduler
<1> HIDE DEF t
<1>3. sched_mode' \in 0..2 /\ metrics' \in [turnaround: Nat, waiting: Nat, finished: Nat]
  BY <1>2 DEF TypeOK, NoMetrics
<1> QED
  BY <1>1, <1>2, <1>3, QuietStep

LEMMA SetSchedulerStoreStep ==
  ASSUME TypeOK, RunningInv, NEW c \in CPU, SetSchedulerStore(c)
  PROVE  StepOK
<1>a. PICK p \in Slot : running[c] = p
  BY DEF SetSchedulerStore, TypeOK
<1> DEFINE t == [proc[p] EXCEPT !.policy = Yielding]
<1>1. t \in ProcRec /\ Accounted(t) = Accounted(proc[p])
  <2>1. proc[p] \in ProcRec
    BY DEF TypeOK
  <2> QED
    BY <2>1 DEF ProcRec, Accounted
<1>2. /\ proc' = [proc EXCEPT ![p] = t] /\ sched_mode' = proc[p].policy
      /\ proc[p].policy \in Policies
      /\ UNCHANGED <<running, clock, ticks, metrics, forks>>
  BY <1>a DEF SetSchedulerStore
<1> HIDE DEF t
<1>3. sched_mode' \in 0..2 /\ metrics' \in [turnaround: Nat, waiting: Nat, finished: Nat]
  BY <1>2, AccountingAssumption DEF TypeOK
<1> QED
  BY <1>1, <1>2, <1>3, QuietStep

\* sleep() and the end of exit() leave the CPU.
LEMMA LeaveStep ==
  ASSUME TypeOK, RunningInv, NEW c \in CPU, Sleep(c) \/ ExitZombie(c)
  PROVE  StepOK
<1>a. PICK p \in Slot : running[c] = p /\ proc[p].state = "RUNNING"
  BY DEF Sleep, ExitZombie, TypeOK, RunningInv
<1>b. PICK s \in {"SLEEPING", "ZOMBIE"} : proc' = [proc EXCEPT ![p].state = s]
  BY <1>a DEF Sleep, ExitZombie
<1> DEFINE t == [proc[p] EXCEPT !.state = s]
<1>1. /\ t \in ProcRec /\ t.state = s
      /\ t.creation_time = proc[p].creation_time /\ t.run_time = proc[p].run_time
      /\ t.total_waiting_time = proc[p].total_waiting_time
      /\ t.last_runnable_time = proc[p].last_runnable_time
  <2>1. proc[p] \in ProcRec /\ s \in ProcState
    BY DEF TypeOK, ProcState
  <2> QED
    BY <2>1 DEF ProcRec
<1>2. /\ proc' = [proc EXCEPT ![p] = t]
      /\ running[c] # None /\ running' = [running EXCEPT ![c] = None]
      /\ UNCHANGED <<clock, ticks, sched_mode, metrics, forks>>
  BY <1>b DEF Sleep, ExitZombie
<1> HIDE DEF t
<1>3. /\ proc' \in [Slot -> ProcRec] /\ proc'[p] = t
      /\ \A q \in Slot : q # p => proc'[q] = proc[q]
  BY <1>1, <1>2, OneSlot
<1>4. Untouched(p)
  BY <1>a, <1>1, <1>3 DEF Untouched
<1>5. SlotStep(p)
  BY <1>2, <1>4, UntouchedStep
<1>6. \A q \in Slot : SlotStep(q)
  BY <1>2, <1>3, <1>5, OtherSlots
<1>7. RunningInv' /\ running' \in [CPU -> Slot \cup {None}]
  BY <1>a, <1>2, <1>3, RunningLeft
<1>8. TypeOK'
  BY <1>2, <1>3, <1>7 DEF TypeOK
<1> QED
  BY <1>6, <1>7, <1>8 DEF StepOK

\* wakeup(), kill() and the end of fork().
LEMMA StartStep ==
  ASSUME TypeOK, RunningInv, NEW p \in Slot, proc' = MakeRunnable(p),
         proc[p].state \in {"SLEEPING", "USED"},
         UNCHANGED <<running, clock, ticks, sched_mode, metrics, forks>>
  PROVE  StepOK
<1> DEFINE t == [proc[p] EXCEPT !.state = "RUNNABLE", !.last_runnable_time = ticks]
<1>1. /\ t \in ProcRec /\ t.state = "RUNNABLE" /\ t.last_runnable_time = ticks
      /\ t.total_waiting_time = proc[p].total_waiting_time
      /\ t.run_time = proc[p].run_time /\ t.creation_time = proc[p].creation_time
  <2>1. proc[p] \in ProcRec /\ ticks \in Uint /\ "RUNNABLE" \in ProcState
    BY SlotFacts DEF ProcState
  <2> QED
    BY <2>1 DEF ProcRec
<1>2. proc' = [proc EXCEPT ![p] = t]
  BY DEF MakeRunnable
<1> HIDE DEF t
<1>3. /\ proc' \in [Slot -> ProcRec] /\ proc'[p] = t
      /\ \A q \in Slot : q # p => proc'[q] = proc[q]
  BY <1>1, <1>2, OneSlot
<1>4. SlotStep(p)
  BY <1>1, <1>3, MakeRunnableStep
<1>5. \A q \in Slot : SlotStep(q)
  BY <1>3, <1>4, OtherSlots
<1>6. RunningInv'
  BY <1>3, RunningSame
<1>7. TypeOK'
  BY <1>3 DEF TypeOK
<1> QED
  BY <1>5, <1>6, <1>7 DEF StepOK

LEMMA ForkStep ==
  ASSUME TypeOK, RunningInv, NEW c \in CPU, NEW p \in Slot, Fork(c, p)
  PROVE  StepOK
<1>1. /\ Allocated(p) \in ProcRec /\ Allocated(p).state = "USED"
      /\ Allocated(p).creation_time = ticks /\ Allocated(p).run_time = 0
      /\ Allocated(p).total_waiting_time = 0
  <2>1. proc[p] \in ProcRec /\ ticks \in Uint /\ 0 \in Uint /\ "USED" \in ProcState
    BY SlotFacts DEF ProcState
  <2> QED
    BY <2>1 DEF ProcRec, Allocated
<1>2. /\ proc[p].state = "UNUSED" /\ proc' = [proc EXCEPT ![p] = Allocated(p)]
      /\ UNCHANGED <<running, clock, ticks, sched_mode, metrics>> /\ forks' = forks + 1
  BY DEF Fork
<1>3. /\ proc' \in [Slot -> ProcRec] /\ proc'[p] = Allocated(p)
      /\ \A q \in Slot : q # p => proc'[q] = proc[q]
  BY <1>1, <1>2, OneSlot
<1>4. SlotStep(p)
  BY <1>1, <1>2, <1>3 DEF SlotStep, Begins, Alive, Counted
<1>5. \A q \in Slot : SlotStep(q)
  BY <1>2, <1>3, <1>4, OtherSlots
<1>6. RunningInv'
  BY <1>2, <1>3, RunningSame
<1>7. TypeOK'
  BY <1>2, <1>3 DEF TypeOK
<1> QED
  BY <1>5, <1>6, <1>7 DEF StepOK

\* freeproc(), in wait() or when fork() fails.
LEMMA FreeStep ==
  ASSUME TypeOK, RunningInv, NEW c \in CPU, NEW p \in Slot, ForkFail(c, p) \/ Reap(c, p)
  PROVE  StepOK
<1>1. PICK r \in ProcRec : proc' = [proc EXCEPT ![p] = Freed(r)]
  <2>1. proc[p] \in ProcRec /\ Allocated(p) \in ProcRec
    <3>1. proc[p] \in ProcRec /\ ticks \in Uint /\ 0 \in Uint /\ "USED" \in ProcState
      BY SlotFacts DEF ProcState
    <3> QED
      BY <3>1 DEF ProcRec, Allocated
  <2>2. CASE ForkFail(c, p)
    BY <2>1, <2>2 DEF ForkFail
  <2>3. CASE Reap(c, p)
    BY <2>1, <2>3 DEF Reap
  <2> QED
    BY <2>2, <2>3
<1>2. Freed(r) \in ProcRec /\ Freed(r).state = "UNUSED"
  <2>1. ticks \in Uint /\ 0 \in Uint /\ "UNUSED" \in ProcState
    BY SlotFacts DEF ProcState
  <2> QED
    BY <2>1 DEF ProcRec, Freed
<1>3. /\ proc[p].state # "RUNNING"
      /\ UNCHANGED <<running, clock, ticks, sched_mode, metrics, forks>>
  BY DEF ForkFail, Reap
<1>4. /\ proc' \in [Slot -> ProcRec] /\ proc'[p] = Freed(r)
      /\ \A q \in Slot : q # p => proc'[q] = proc[q]
  BY <1>1, <1>2, OneSlot
<1>5. SlotStep(p)
  BY <1>2, <1>3, <1>4 DEF SlotStep, Ends, Alive
<1>6. \A q \in Slot : SlotStep(q)
  BY <1>3, <1>4, <1>5, OtherSlots
<1>7. RunningInv'
  BY <1>3, <1>4, RunningSame
<1>8. TypeOK'
  BY <1>3, <1>4 DEF TypeOK
<1> QED
  BY <1>6, <1>7, <1>8 DEF StepOK

LEMMA ClockStep ==
  ASSUME TypeOK, RunningInv, ClockIntr \/ UpdateTime \/ ClockEnd
  PROVE  StepOK
<1>a. NPROC \in Nat /\ Slot = 0..(NPROC - 1) /\ None = -1
  BY AccountingAssumption DEF Slot, None
<1>1. CASE ClockIntr
  <2>1. ticks + 1 \in Int
    BY AccountingAssumption DEF TypeOK, Uint
  <2>2. ticks' \in Uint
    BY <1>1, <2>1, UType DEF ClockIntr
  <2>3. TypeOK'
    BY <1>a, <1>1, <2>2 DEF ClockIntr, TypeOK
  <2>4. RunningInv'
    BY <1>1, RunningSame DEF ClockIntr
  <2>5. \A p \in Slot : SlotStep(p)
    BY <1>1 DEF ClockIntr, SlotStep, Ticks
  <2> QED
    BY <2>3, <2>4, <2>5 DEF StepOK
<1>2. CASE UpdateTime /\ proc[clock].state = "RUNNING"
  <2>a. PICK p \in Slot : p = clock
    BY <1>2 DEF UpdateTime
  <2> DEFINE t == [proc[p] EXCEPT !.run_time = U(proc[p].run_time + 1)]
  <2>1. /\ t \in ProcRec /\ t.run_time = U(proc[p].run_time + 1)
        /\ t.creation_time = proc[p].creation_time /\ t.state = proc[p].state
        /\ t.total_waiting_time = proc[p].total_waiting_time
    <3>1. proc[p] \in ProcRec /\ proc[p].run_time + 1 \in Int
      BY SlotFacts
    <3>2. U(proc[p].run_time + 1) \in Uint
      BY <3>1, UType
    <3> HIDE DEF U
    <3> QED
      BY <3>1, <3>2 DEF ProcRec
  <2>2. /\ proc' = [proc EXCEPT ![p] = t] /\ clock' = clock + 1
        /\ UNCHANGED <<running, ticks, sched_mode, metrics, forks>>
        /\ proc[p].state = "RUNNING"
    BY <1>2, <2>a DEF UpdateTime
  <2> HIDE DEF t
  <2>3. /\ proc' \in [Slot -> ProcRec] /\ proc'[p] = t
        /\ \A q \in Slot : q # p => proc'[q] = proc[q]
    BY <2>1, <2>2, OneSlot
  <2>4. SlotStep(p)
    <3>1. Counted(p)' = Counted(p)
      BY <2>1, <2>2, <2>3 DEF Counted
    <3> QED
      BY <2>a, <2>1, <2>2, <2>3, <3>1 DEF SlotStep, Charged, GoesOn, Alive
  <2>5. ASSUME NEW q \in Slot, q # p
        PROVE  SlotStep(q)
    <3>1. Untouched(q)
      BY <2>3, <2>5 DEF Untouched
    <3>2. clock' <= q => clock # None /\ clock <= q
      BY <1>a, <2>a, <2>2
    <3> QED
      BY <2>2, <3>1, <3>2, UntouchedStep
  <2>6. RunningInv'
    BY <2>1, <2>2, <2>3, RunningSame
  <2>7. clock' \in 0..NPROC
    BY <1>a, <2>a, <2>2
  <2>8. TypeOK'
    BY <2>2, <2>3, <2>7 DEF TypeOK
  <2> QED
    BY <2>4, <2>5, <2>6, <2>8 DEF StepOK
<1>3. CASE (UpdateTime /\ proc[clock].state # "RUNNING") \/ ClockEnd
  <2>1. UNCHANGED <<proc, running, ticks, sched_mode, metrics, forks>>
    BY <1>3 DEF UpdateTime, ClockEnd
  <2>2. \/ clock \in Slot /\ clock' = clock + 1
        \/ clock' = None
    BY <1>3 DEF UpdateTime, ClockEnd
  <2>3. ASSUME NEW q \in Slot
        PROVE  SlotStep(q)
    <3>1. Untouched(q)
      BY <2>1 DEF Untouched
    <3>2. clock' # None /\ clock' <= q => clock # None /\ clock <= q
      BY <1>a, <2>2
    <3> QED
      BY <2>1, <3>1, <3>2, UntouchedStep
  <2>4. RunningInv'
    BY <2>1, RunningSame
  <2>5. clock' \in 0..NPROC \cup {None}
    BY <1>a, <2>2
  <2>6. TypeOK'
    BY <2>1, <2>5 DEF TypeOK
  <2> QED
    BY <2>3, <2>4, <2>6 DEF StepOK
<1> QED
  BY <1>1, <1>2, <1>3

LEMMA NextStep ==
  ASSUME TypeOK, RunningInv, Next
  PROVE  StepOK
<1>1. CASE ClockIntr \/ UpdateTime \/ ClockEnd
  BY <1>1, ClockStep
<1>2. ASSUME NEW p \in Slot, Wakeup(p)
      PROVE  StepOK
  BY <1>2, StartStep DEF Wakeup
<1>3. ASSUME NEW c \in CPU, Yield(c) \/ YieldFCFS(c) \/ Sleep(c) \/ Exit(c) \/ ExitZombie(c)
      PROVE  StepOK
  BY <1>3, YieldStep, YieldFCFSStep, ExitStep, LeaveStep
<1>4. ASSUME NEW c \in CPU, SetSchedulerStore(c) \/ \E m \in Policies : SetScheduler(c, m)
      PROVE  StepOK
  BY <1>4, SetSchedulerStoreStep, SetSchedulerStep
<1>5. ASSUME NEW c \in CPU, NEW p \in Slot, Dispatch(c, p) \/ Reap(c, p) \/ Fork(c, p)
      PROVE  StepOK
  BY <1>5, DispatchStep, FreeStep, ForkStep
<1>6. ASSUME NEW c \in CPU, NEW p \in Slot, ForkFail(c, p) \/ ForkStart(c, p)
      PROVE  StepOK
  <2>1. CASE ForkFail(c, p)
    BY <2>1, FreeStep
  <2>2. CASE ForkStart(c, p)
    BY <2>2, StartStep DEF ForkStart
  <2> QED
    BY <1>6, <2>1, <2>2
<1> QED
  BY <1>1, <1>2, <1>3, <1>4, <1>5, <1>6 DEF Next

-----------------------------------------------------------------------------
LEMMA TimesInit == HistoryInit => TimesInv
<1> SUFFICES ASSUME HistoryInit
             PROVE  TimesInv
  OBVIOUS
<1>a. /\ ticks \in Uint /\ 0 \in Uint /\ 0 \in Nat /\ NPROC \in Nat
      /\ clock = None /\ running = [c \in CPU |-> None]
  BY AccountingAssumption DEF HistoryInit, Init, Uint
<1>b. /\ age = [p \in Slot |-> 0] /\ waited = [p \in Slot |-> 0]
      /\ lost = [p \in Slot |-> 0]
  BY DEF HistoryInit
<1> DEFINE r == [UnusedProc EXCEPT !.state = "RUNNABLE", !.last_runnable_time = ticks]
<1>1. /\ UnusedProc \in ProcRec /\ UnusedProc.state = "UNUSED"
  BY <1>a DEF UnusedProc, ProcRec, ProcState
<1>2. /\ r \in ProcRec /\ r.state = "RUNNABLE" /\ r.last_runnable_time = ticks
      /\ r.total_waiting_time = 0 /\ r.run_time = 0
  BY <1>a DEF UnusedProc, ProcRec, ProcState
<1>3. proc = [p \in Slot |-> IF p = initproc THEN r ELSE UnusedProc]
  BY DEF HistoryInit, Init
<1> HIDE DEF r
<1>4. TypeOK
  <2>1. proc \in [Slot -> ProcRec]
    BY <1>1, <1>2, <1>3
  <2>2. /\ sched_mode \in 0..2 /\ forks \in Nat
        /\ metrics \in [turnaround: Nat, waiting: Nat, finished: Nat]
    BY DEF HistoryInit, Init, NoMetrics
  <2> QED
    BY <1>a, <2>1, <2>2 DEF TypeOK
<1>5. HistoryTypeOK
  BY <1>a, <1>b DEF HistoryTypeOK
<1>6. RunningInv
  BY <1>a DEF RunningInv
<1>7. ASSUME NEW p \in Slot
      PROVE  SlotInv(p)
  <2>1. age[p] = 0 /\ waited[p] = 0 /\ lost[p] = 0
    BY <1>b
  <2>2. CASE p # initproc
    BY <1>1, <1>3, <2>1, <2>2 DEF SlotInv, Alive
  <2>3. CASE p = initproc
    <3>1. proc[p] = r
      BY <1>3, <2>3
    <3>2. U(0) = 0
      BY <1>a, USmall
    <3>3. U(ticks - ticks) = 0
      <4>1. ticks - ticks = 0
        BY <1>4, SlotFacts
      <4> QED
        BY <3>2, <4>1
    <3>4. Counted(p) = 0
      BY <1>2, <3>1, <3>2, <3>3 DEF Counted, WaitingTime
    <3> QED
      BY <1>a, <1>2, <2>1, <3>1, <3>2, <3>4 DEF SlotInv, Alive
  <2> QED
    BY <2>2, <2>3
<1> QED
  BY <1>4, <1>5, <1>6, <1>7 DEF TimesInv

LEMMA TimesNext == TimesInv /\ [HistoryNext]_HistoryVars => TimesInv'
<1> SUFFICES ASSUME TimesInv, [HistoryNext]_HistoryVars
             PROVE  TimesInv'
  OBVIOUS
<1>a. TypeOK /\ HistoryTypeOK /\ RunningInv /\ \A p \in Slot : SlotInv(p)
  BY DEF TimesInv
<1>1. CASE HistoryNext
  <2>1. Next /\ \A p \in Slot : Records(p)
    BY <1>1 DEF HistoryNext, Records
  <2>2. TypeOK' /\ RunningInv' /\ \A p \in Slot : SlotStep(p)
    BY <1>a, <2>1, NextStep DEF StepOK
  <2>3. \A p \in Slot : SlotInv(p)'
    BY <1>a, <2>1, <2>2, SlotStepInv
  <2>4. HistoryTypeOK'
    <3>1. \A p \in Slot : age'[p] \in Nat /\ waited'[p] \in Uint /\ lost'[p] \in Uint
      BY <1>a, <2>1, RecordsType
    <3>2. /\ age' = [p \in Slot |-> age'[p]] /\ waited' = [p \in Slot |-> waited'[p]]
          /\ lost' = [p \in Slot |-> lost'[p]]
      BY <1>1, Zenon DEF HistoryNext
    <3> QED
      BY <3>1, <3>2 DEF HistoryTypeOK
  <2> QED
    BY <2>2, <2>3, <2>4 DEF TimesInv
<1>2. CASE UNCHANGED HistoryVars
  <2>1. UNCHANGED <<proc, running, clock, ticks, sched_mode, metrics, forks>>
    BY <1>2 DEF HistoryVars, vars
  <2>2. UNCHANGED <<age, waited, lost>>
    BY <1>2 DEF HistoryVars
  <2>3. TypeOK' /\ HistoryTypeOK' /\ RunningInv'
    BY <1>a, <2>1, <2>2 DEF TypeOK, HistoryTypeOK, RunningInv
  <2>4. \A p \in Slot : SlotInv(p)'
    BY <1>a, <2>1, <2>2 DEF SlotInv, Alive, Counted, WaitingTime
  <2> QED
    BY <2>3, <2>4 DEF TimesInv
<1> QED
  BY <1>1, <1>2

\* The inductive invariant of the accounting.
THEOREM Invariance == HistorySpec => []TimesInv
  BY TimesInit, TimesNext, PTL DEF HistorySpec

\* The times that getptable() reports are those that passed: total_waiting_time
\* counts every tick a process spent RUNNABLE once, except in waits that began
\* at time stamp 0, and run_time is at most one more than the age, for any
\* interleaving of scheduler(), wakeup(), fork(), exit() and update_time() and
\* however often ticks wraps around.
THEOREM TimesAreExact == HistorySpec => []TimesExact
<1>1. TimesInv => TimesExact
  BY DEF TimesInv, SlotInv, TimesExact, WaitingExact, RunTimeWithinLife
<1> QED
  BY <1>1, Invariance, PTL

-----------------------------------------------------------------------------
(* The metrics                                                             *)

LEMMA UDiff ==
  ASSUME NEW a \in Uint, NEW b \in Uint
  PROVE  U(a - b) = IF b <= a THEN a - b ELSE a - b + UINT
<1>1. CASE b <= a
  <2>1. a - b \in Uint
    BY <1>1, AccountingAssumption DEF Uint
  <2> QED
    BY <1>1, <2>1, USmall
<1>2. CASE ~(b <= a)
  <2>1. a - b + UINT \in Uint /\ a - b \in Int /\ UINT \in Nat \ {0}
    BY <1>2, AccountingAssumption DEF Uint
  <2>2. U(a - b) = U(a - b + UINT)
    <3>1. UINT % UINT = 0
      BY <2>1
    <3>2. U(U(UINT) + (a - b)) = U(UINT + (a - b))
      BY <2>1, UAdd
    <3>3. U(UINT) = 0
      BY <3>1 DEF U
    <3>4. 0 + (a - b) = a - b /\ UINT + (a - b) = a - b + UINT
      BY <2>1
    <3> QED
      BY <3>2, <3>3, <3>4
  <2>3. U(a - b + UINT) = a - b + UINT
    BY <2>1, USmall
  <2> QED
    BY <1>2, <2>2, <2>3
<1> QED
  BY <1>1, <1>2

LEMMA USucc ==
  ASSUME NEW a \in Uint
  PROVE  U(a + 1) = IF a + 1 = UINT THEN 0 ELSE a + 1
<1>1. CASE a + 1 = UINT
  BY <1>1, AccountingAssumption DEF U, Uint
<1>2. CASE a + 1 # UINT
  <2>1. a + 1 \in Uint
    BY <1>2, AccountingAssumption DEF Uint
  <2> QED
    BY <1>2, <2>1, USmall
<1> QED
  BY <1>1, <1>2

LEMMA SlotStepLap ==
  ASSUME MaxTicks < UINT, TypeOK, HistoryTypeOK, NEW p \in Slot, Records(p),
         SlotInv(p), LapInv(p), SlotStep(p)
  PROVE  LapInv(p)'
<1> DEFINE d == U(MaxTicks - ticks)
<1>1. /\ MaxTicks \in Uint /\ ticks \in Uint /\ UINT \in Nat /\ UINT > 1
      /\ \A x \in Uint : x \in Nat /\ x < UINT
  BY SlotFacts, AccountingAssumption DEF Uint
<1>2. d \in Uint
  <2>1. MaxTicks - ticks \in Int
    BY <1>1
  <2> QED
    BY <2>1, UType
<1>3. age[p] \in Nat /\ Counted(p) \in Nat /\ proc[p].creation_time \in Uint
  BY SlotFacts DEF HistoryTypeOK
<1>4. CASE Moves(p) \/ Charged(p)
  <2>1. GoesOn(p)
    BY <1>4 DEF Moves, Charged
  <2>2. age'[p] = age[p]
    BY <2>1, RecordsSame DEF GoesOn
  <2> QED
    BY <2>1, <2>2 DEF LapInv, GoesOn
<1>5. CASE Begins(p)
  <2>1. age[p] = 0 /\ age'[p] = 0
    BY <1>5, RecordsSame DEF SlotInv, Begins
  <2>2. U(ticks - ticks) = 0
    BY <1>1, UDiff
  <2> QED
    BY <1>1, <1>5, <2>1, <2>2 DEF LapInv, Begins
<1>6. CASE Ends(p)
  <2>1. age'[p] = 0 /\ ticks' = ticks
    BY <1>6, RecordsSame DEF Ends
  <2> QED
    BY <1>1, <1>2, <1>6, <2>1 DEF LapInv, Ends
<1>7. CASE Ticks(p)
  <2>1. ticks # MaxTicks /\ ticks' = U(ticks + 1) /\ proc'[p] = proc[p]
    BY <1>7 DEF Ticks
  <2>2. ticks' = IF ticks + 1 = UINT THEN 0 ELSE ticks + 1
    BY <1>1, <2>1, USucc
  <2>3. ticks' \in Uint /\ ticks' # ticks
    BY <1>1, <2>2, AccountingAssumption DEF Uint
  <2>4. d >= 1 /\ U(MaxTicks - ticks') = d - 1
    <3>1. d = IF ticks <= MaxTicks THEN MaxTicks - ticks ELSE MaxTicks - ticks + UINT
      BY <1>1, UDiff
    <3>2. U(MaxTicks - ticks') = IF ticks' <= MaxTicks THEN MaxTicks - ticks'
                                 ELSE MaxTicks - ticks' + UINT
      BY <1>1, <2>3, UDiff
    <3> HIDE DEF d
    <3> QED
      BY <1>1, <2>1, <2>2, <3>1, <3>2
  <2>5. age[p] + d < UINT
    BY DEF LapInv
  <2>6. Alive(p)' <=> Alive(p)
    BY <2>1 DEF Alive
  <2>7. age'[p] = IF Alive(p) THEN age[p] + 1 ELSE 0
    BY <2>3, <2>6 DEF Records, Advance, Alive
  <2>8. age'[p] + U(MaxTicks - ticks') < UINT
    <3> HIDE DEF d
    <3> QED
      BY <1>1, <1>2, <1>3, <2>4, <2>5, <2>7
  <2>9. ASSUME Alive(p)
        PROVE  Counted(p)' <= age'[p]
    <3>1. Counted(p) <= age[p] /\ age'[p] = age[p] + 1
      BY <2>7, <2>9 DEF LapInv
    <3>2. CASE proc[p].state = "RUNNABLE" /\ proc[p].last_runnable_time > 0
      <4>1. Counted(p)' = U(Counted(p) + 1)
        BY <1>7, <3>2, WaitGrows
      <4>2. Counted(p) + 1 \in Nat
        BY <1>3
      <4>3. U(Counted(p) + 1) <= Counted(p) + 1 /\ U(Counted(p) + 1) \in Nat
        BY <1>1, <4>2, UAtMost, UType
      <4> QED
        BY <1>3, <3>1, <4>1, <4>3
    <3>3. CASE ~(proc[p].state = "RUNNABLE" /\ proc[p].last_runnable_time > 0)
      <4>1. Counted(p)' = Counted(p)
        BY <2>1, <3>3 DEF Counted, WaitingTime
      <4> QED
        BY <1>3, <3>1, <4>1
    <3> QED
      BY <3>2, <3>3
  <2>10. ASSUME Alive(p), p # initproc
         PROVE  U(ticks' - proc'[p].creation_time) = age'[p]
    <3> DEFINE c == proc[p].creation_time
    <3>1. U(ticks - c) = age[p] /\ age'[p] = age[p] + 1
      BY <2>7, <2>10 DEF LapInv
    <3>2. U(ticks - c) = IF c <= ticks THEN ticks - c ELSE ticks - c + UINT
      BY <1>1, <1>3, UDiff
    <3>3. U(ticks' - c) = IF c <= ticks' THEN ticks' - c ELSE ticks' - c + UINT
      BY <1>3, <2>3, UDiff
    <3>4. c \in Nat /\ c < UINT /\ proc'[p].creation_time = c
      BY <1>1, <1>3, <2>1
    <3>5. age[p] + 1 < UINT
      <4> HIDE DEF d
      <4> QED
        BY <1>1, <1>2, <1>3, <2>4, <2>5
    <3> HIDE DEF c
    <3> QED
      BY <1>1, <1>3, <2>2, <3>1, <3>2, <3>3, <3>4, <3>5
  <2> QED
    BY <2>6, <2>8, <2>9, <2>10 DEF LapInv
<1> QED
  BY <1>4, <1>5, <1>6, <1>7 DEF SlotStep

\* A process that exits adds no more waiting time than life time.
LEMMA MetricsStep ==
  ASSUME TypeOK, RunningInv, MetricsConsistent, \A p \in Slot : LapInv(p), Next
  PROVE  MetricsConsistent'
<1>1. CASE \E c \in CPU : Exit(c)
  <2>1. PICK c \in CPU : Exit(c)
    BY <1>1
  <2>2. PICK p \in Slot : running[c] = p /\ proc[p].state = "RUNNING" /\ p # initproc
    BY <2>1 DEF Exit, InUser, TypeOK, RunningInv
  <2>3. metrics' = [turnaround |-> metrics.turnaround + U(ticks - proc[p].creation_time),
                    waiting |-> metrics.waiting + proc[p].total_waiting_time,
                    finished |-> metrics.finished + 1]
    BY <2>1, <2>2 DEF Exit
  <2>4. /\ proc[p].total_waiting_time <= U(ticks - proc[p].creation_time)
        /\ proc[p].total_waiting_time \in Nat /\ U(ticks - proc[p].creation_time) \in Nat
    <3>1. proc[p].total_waiting_time = Counted(p) /\ Alive(p)
      BY <2>2 DEF Counted, Alive
    <3>2. Counted(p) <= age[p] /\ U(ticks - proc[p].creation_time) = age[p]
      BY <2>2, <3>1 DEF LapInv
    <3>3. ticks - proc[p].creation_time \in Int
      BY SlotFacts
    <3>4. U(ticks - proc[p].creation_time) \in Nat
      BY <3>3, UType, SlotFacts
    <3> QED
      BY <3>1, <3>2, <3>4, SlotFacts
  <2>5. metrics.turnaround \in Nat /\ metrics.waiting \in Nat /\ metrics.finished \in Nat
    BY DEF TypeOK
  <2>6. metrics.waiting <= metrics.turnaround
    BY DEF MetricsConsistent
  <2> DEFINE n == metrics.finished + 1
  <2>7. n # 0 /\ metrics'.finished = n
    BY <2>3, <2>5
  <2>8. metrics'.waiting <= metrics'.turnaround
    BY <2>3, <2>4, <2>5, <2>6
  <2> QED
    BY <2>7, <2>8 DEF MetricsConsistent
<1>2. CASE metrics' = metrics
  BY <1>2 DEF MetricsConsistent
<1>3. CASE metrics' = NoMetrics
  BY <1>3 DEF MetricsConsistent, NoMetrics
<1>4. (\E c \in CPU : Exit(c)) \/ metrics' = metrics \/ metrics' = NoMetrics
  BY DEF Next, ClockIntr, UpdateTime, ClockEnd, Wakeup, Yield, YieldFCFS, Sleep, ExitZombie,
    SetSchedulerStore, SetScheduler, Dispatch, Reap, Fork, ForkFail, ForkStart
<1> QED
  BY <1>1, <1>2, <1>3, <1>4

\* What getmetrics() reports is consistent until ticks has come round to where
\* it started (the run stops counting at MaxTicks < UINT, after fewer than UINT
\* ticks): the sum of the waiting times that exit() adds up never exceeds that
\* of the turnaround times, whatever exits and resets by setscheduler()
\* interleave.
THEOREM MetricsAreConsistent ==
  ASSUME MaxTicks < UINT
  PROVE  HistorySpec => []MetricsConsistent
<1>1. HistoryInit => MetricsInv
  <2> SUFFICES ASSUME HistoryInit
               PROVE  MetricsInv
    OBVIOUS
  <2>1. TimesInv
    BY TimesInit
  <2>2. MetricsConsistent
    BY DEF HistoryInit, Init, MetricsConsistent, NoMetrics
  <2>3. ASSUME NEW p \in Slot
        PROVE  LapInv(p)
    <3>1. TypeOK /\ SlotInv(p) /\ age[p] = 0 /\ waited[p] = 0 /\ lost[p] = 0
      BY <2>1 DEF TimesInv, HistoryInit
    <3>2. U(MaxTicks - ticks) \in Nat /\ U(MaxTicks - ticks) < UINT
      <4>1. MaxTicks - ticks \in Int
        BY <3>1, SlotFacts, AccountingAssumption
      <4> QED
        BY <4>1, UType, AccountingAssumption DEF Uint
    <3>3. Counted(p) <= age[p]
      <4>1. CASE ~Alive(p)
        BY <3>1, <4>1 DEF HistoryInit, Init, Counted, UnusedProc, Alive
      <4>2. CASE Alive(p)
        <5>1. Counted(p) \in Uint
          BY <3>1, SlotFacts
        <5>2. U(Counted(p) + 0) = 0
          BY <3>1, <4>2 DEF SlotInv
        <5>3. Counted(p) + 0 = Counted(p)
          BY <5>1, AccountingAssumption DEF Uint
        <5>4. Counted(p) = 0
          BY <5>1, <5>2, <5>3, USmall
        <5> QED
          BY <3>1, <5>4
      <4> QED
        BY <4>1, <4>2
    <3>4. p # initproc => ~Alive(p)
      BY DEF HistoryInit, Init, UnusedProc, Alive
    <3> QED
      BY <3>1, <3>2, <3>3, <3>4 DEF LapInv
  <2> QED
    BY <2>2, <2>3 DEF MetricsInv
<1>2. TimesInv /\ MetricsInv /\ [HistoryNext]_HistoryVars => MetricsInv'
  <2> SUFFICES ASSUME TimesInv, MetricsInv, [HistoryNext]_HistoryVars
               PROVE  MetricsInv'
    OBVIOUS
  <2>a. /\ TypeOK /\ HistoryTypeOK /\ RunningInv /\ \A p \in Slot : SlotInv(p)
        /\ MetricsConsistent /\ \A p \in Slot : LapInv(p)
    BY DEF TimesInv, MetricsInv
  <2>1. CASE HistoryNext
    <3>1. Next /\ \A p \in Slot : Records(p)
      BY <2>1 DEF HistoryNext, Records
    <3>2. \A p \in Slot : SlotStep(p)
      BY <2>a, <3>1, NextStep DEF StepOK
    <3>3. \A p \in Slot : LapInv(p)'
      BY <2>a, <3>1, <3>2, SlotStepLap
    <3>4. MetricsConsistent'
      BY <2>a, <3>1, MetricsStep
    <3> QED
      BY <3>3, <3>4 DEF MetricsInv
  <2>2. CASE UNCHANGED HistoryVars
    <3>1. UNCHANGED <<proc, running, clock, ticks, sched_mode, metrics, forks>>
      BY <2>2 DEF HistoryVars, vars
    <3>2. age' = age
      BY <2>2 DEF HistoryVars
    <3>3. \A p \in Slot : LapInv(p)'
      BY <2>a, <3>1, <3>2 DEF LapInv, Alive, Counted, WaitingTime
    <3>4. MetricsConsistent'
      BY <2>a, <3>1 DEF MetricsConsistent
    <3> QED
      BY <3>3, <3>4 DEF MetricsInv
  <2> QED
    BY <2>1, <2>2
<1>3. MetricsInv => MetricsConsistent
  BY DEF MetricsInv
<1> QED
  BY <1>1, <1>2, <1>3, Invariance, PTL DEF HistorySpec

=============================================================================
