-------------------------------- MODULE Tty ---------------------------------
(***************************************************************************)
(* What the console promises its readers: typed characters form a line     *)
(* that can be edited until it is ended, lines are read in the order they  *)
(* were typed, every byte by one reader, and a read stops at the end of a  *)
(* line or of the input.                                                   *)
(***************************************************************************)
EXTENDS Integers, Sequences

CONSTANTS Procs, Sizes, SIZE

VARIABLES
    line,    \* what can still be edited
    ready,   \* what can be read
    got,     \* [Procs -> what the read in progress, or the last, has returned]
    want     \* [Procs -> how many bytes the read still wants; 0: it has ended]

Init == line = <<>> /\ ready = <<>> /\ got = [p \in Procs |-> <<>>] /\ want = [p \in Procs |-> 0]

\* A character is entered; the line ends with nl, with eof or when there is no more room.
Enter(c) ==
    LET new == Append(line, c)
        ends == c \in {"nl", "eof"} \/ Len(ready) + Len(new) = SIZE
    IN  /\ Len(ready) + Len(line) < SIZE
        /\ line' = IF ends THEN <<>> ELSE new
        /\ ready' = IF ends THEN ready \o new ELSE ready
        /\ UNCHANGED <<got, want>>

\* The last character, or all of them, are taken back.
Edit ==
    /\ line # <<>>
    /\ line' \in {<<>>, SubSeq(line, 1, Len(line) - 1)}
    /\ UNCHANGED <<ready, got, want>>

Call(p) ==
    /\ want[p] = 0
    /\ \E n \in Sizes : want' = [want EXCEPT ![p] = n]
    /\ got' = [got EXCEPT ![p] = <<>>]
    /\ UNCHANGED <<line, ready>>

\* The first k bytes are read.  The read has ended if they are all it wants, if
\* they end a line, or at eof, which is kept if the read has returned something;
\* with less it goes on, or ends because the process was killed.
Take(p) ==
    \E k \in 0 .. Len(ready) :
        LET bytes == SubSeq(ready, 1, k)
            rest == SubSeq(ready, k + 1, Len(ready))
            full == k = want[p]
            eol == k > 0 /\ bytes[k] = "nl"
            eof == ~full /\ ~eol /\ rest # <<>> /\ Head(rest) = "eof"
        IN  /\ want[p] > 0 /\ k <= want[p]
            /\ \A i \in 1 .. k : bytes[i] # "eof" /\ (bytes[i] = "nl" => i = k)
            /\ full \/ eol \/ eof \/ rest = <<>>
            /\ got' = [got EXCEPT ![p] = @ \o bytes]
            /\ \E n \in (IF full \/ eol \/ eof THEN {0} ELSE {0, want[p] - k}) :
                  want' = [want EXCEPT ![p] = n]
            /\ ready' = IF eof /\ got'[p] = <<>> THEN Tail(rest) ELSE rest
            /\ UNCHANGED line

\* The process has no memory where the byte should go: the byte is lost.
Fail(p) ==
    /\ want[p] > 0 /\ ready # <<>>
    /\ want' = [want EXCEPT ![p] = 0]
    /\ ready' = Tail(ready)
    /\ UNCHANGED <<line, got>>

tty == <<line, ready, got, want>>

Next ==
    /\ tty' # tty
    /\ \/ \E c \in {"x", "nl", "eof"} : Enter(c)
       \/ Edit
       \/ \E p \in Procs : Call(p) \/ Take(p) \/ Fail(p)

Spec == Init /\ [][Next]_tty
=============================================================================
