------------------------------ MODULE ByteFile ------------------------------
(***************************************************************************)
(* What read() and write() promise of files: a file is a sequence of       *)
(* bytes, every open file has an offset in it that all its users share,    *)
(* and each chunk of a write, each read and each truncation is atomic.     *)
(***************************************************************************)
EXTENDS Integers, Sequences

CONSTANTS
    Procs, Inodes,
    Files,      \* [open files -> Inodes]
    MaxChunk,   \* the most bytes that are written atomically
    MAXSIZE,    \* the most bytes in a file
    Src(_)      \* Src(p): the bytes that p writes

VARIABLES
    content,    \* [Inodes -> Seq(bytes)]
    off,        \* [DOMAIN Files -> Nat]
    got         \* [Procs -> Seq(bytes)]: what p's last read() or fstat() returned

Max(a, b) == IF a > b THEN a ELSE b

\* The file s with bytes put at position o, which is not beyond its end.
Overwrite(s, o, bytes) ==
    [k \in 1 .. Max(Len(s), o + Len(bytes)) |->
        IF k > o /\ k <= o + Len(bytes) THEN bytes[k - o] ELSE s[k]]

Init ==
    /\ content = [i \in Inodes |-> <<>>]
    /\ off = [f \in DOMAIN Files |-> 0]
    /\ got = [p \in Procs |-> <<>>]

\* r of the bytes a..b-1 of p's buffer arrive, and the offset moves over them.
\* Of a chunk that falls short, junk more bytes may be changed, not appended.
Write(p, f) ==
    LET i == Files[f]
        o == off[f]
        n == Len(content[i])
    IN  /\ o <= n
        /\ \E a \in 0 .. Len(Src(p)) - 1, r, junk \in 0 .. MaxChunk :
              /\ a + r + junk <= Len(Src(p)) /\ r + junk > 0 /\ r + junk <= MaxChunk
              /\ o + r <= MAXSIZE
              /\ junk > 0 => o + r + junk <= Max(n, o + r)
              /\ content' = [content EXCEPT ![i] =
                                Overwrite(@, o, SubSeq(Src(p), a + 1, a + r + junk))]
        \* the offset is where the bytes that count end
              /\ off' = [off EXCEPT ![f] = o + r]
        /\ UNCHANGED got

Read(p, f) ==
    LET s == content[Files[f]]
    IN  \E n \in 0 .. MAXSIZE :
          /\ off[f] + n <= Max(Len(s), off[f])
          /\ got' = [got EXCEPT ![p] = SubSeq(s, off[f] + 1, off[f] + n)]
          /\ off' = [off EXCEPT ![f] = @ + n]
          /\ UNCHANGED content

\* open(O_TRUNC): the file is empty for all, and the new open file is at 0.
Truncate(f) ==
    /\ content' = [content EXCEPT ![Files[f]] = <<>>]
    /\ off' = [off EXCEPT ![f] = 0]
    /\ UNCHANGED got

\* fstat(): the size, never that of a write or truncation in progress.
Stat(p, f) ==
    /\ got' = [got EXCEPT ![p] = <<Len(content[Files[f]])>>]
    /\ UNCHANGED <<content, off>>

Next == \E f \in DOMAIN Files :
    \/ Truncate(f)
    \/ \E p \in Procs : Write(p, f) \/ Read(p, f) \/ Stat(p, f)

Spec == Init /\ [][Next]_<<content, off, got>>
=============================================================================
