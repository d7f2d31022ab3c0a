------------------------------ MODULE Channel ------------------------------
(***************************************************************************)
(* What a pipe promises to the processes at its two ends: a bounded        *)
(* first-in first-out queue of bytes that accepts bytes while the read end *)
(* is open and delivers every byte once, also after the write end has been *)
(* closed, until both ends are closed.                                     *)
(***************************************************************************)
EXTENDS Naturals, Sequences

CONSTANTS
  Byte,       \* the bytes that are sent
  Capacity    \* the number of bytes in the queue at most

VARIABLES
  queue,      \* the bytes sent and not yet received
  reading,    \* the read end is open
  writing     \* the write end is open

vars == <<queue, reading, writing>>

Init == queue = <<>> /\ ~reading /\ ~writing

Open ==
  /\ ~reading /\ ~writing
  /\ queue' = <<>> /\ reading' /\ writing'

Send(b) ==
  /\ reading /\ writing
  /\ Len(queue) < Capacity
  /\ queue' = Append(queue, b)
  /\ UNCHANGED <<reading, writing>>

Receive(n) ==
  /\ reading
  /\ n <= Len(queue)
  /\ queue' = SubSeq(queue, n + 1, Len(queue))
  /\ UNCHANGED <<reading, writing>>

\* Closing one end keeps the bytes under way for the other one.
Close ==
  /\ \/ reading /\ ~reading' /\ UNCHANGED writing
     \/ writing /\ ~writing' /\ UNCHANGED reading
  /\ queue' = IF reading' \/ writing' THEN queue ELSE <<>>

Next ==
  \/ Open \/ Close
  \/ \E b \in Byte : Send(b)
  \/ \E n \in 1..Capacity : Receive(n)

Spec == Init /\ [][Next]_vars
=============================================================================
