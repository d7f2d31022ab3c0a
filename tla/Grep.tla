-------------------------------- MODULE Grep --------------------------------
(***************************************************************************)
(* grep.c: lines are looked for in a buffer that is filled in whatever     *)
(* pieces read() returns; what is left of a line moves to the front.  The  *)
(* input has no NUL.  memmove and strchr are those of ulib.c.              *)
(***************************************************************************)
EXTENDS Integers, Sequences

CONSTANTS
    Patterns, Texts,   \* sets of sequences of characters; "nl" ends a line
    SIZE               \* sizeof(buf)

VARIABLES
    pattern, text,
    pos,     \* bytes of text that have been read
    buf,     \* [0 .. SIZE - 1 -> characters]
    m,       \* bytes in buf
    out,     \* the lines of this file that were written
    eof      \* read() has returned 0

vars == <<pattern, text, pos, buf, m, out, eof>>

NUL == "nul"

-----------------------------------------------------------------------------
(* The matcher.  A string ends where the sequence ends. *)

At(s, k) == IF k <= Len(s) THEN s[k] ELSE NUL
From(s, k) == SubSeq(s, k, Len(s))

RECURSIVE matchhere(_, _), matchstar(_, _, _)
matchhere(re, t) ==
    IF At(re, 1) = NUL THEN TRUE
    ELSE IF At(re, 2) = "*" THEN matchstar(re[1], From(re, 3), t)
    ELSE IF re[1] = "$" /\ At(re, 2) = NUL THEN t = <<>>
    ELSE t # <<>> /\ re[1] \in {".", t[1]} /\ matchhere(From(re, 2), From(t, 2))

matchstar(c, re, t) ==
    \/ matchhere(re, t)
    \/ t # <<>> /\ c \in {".", t[1]} /\ matchstar(c, re, From(t, 2))

match(re, t) ==
    IF At(re, 1) = "^" THEN matchhere(From(re, 2), t)
    ELSE \E k \in 1 .. Len(t) + 1 : matchhere(re, From(t, k))

-----------------------------------------------------------------------------
(* The buffer *)

\* Mutant: always from the end, which is wrong for an overlap with dst in front.
memmove_down(b, dst, src, n) ==
    LET f[k \in 0 .. n] == IF k = 0 THEN b ELSE [f[k - 1] EXCEPT ![dst + n - k] = f[k - 1][src + n - k]]
    IN  f[n]

\* Byte by byte; f[k] is the buffer after k bytes.
memmove(b, dst, src, n) ==
    LET i(k) == IF src > dst THEN k - 1 ELSE n - k
        f[k \in 0 .. n] == IF k = 0 THEN b ELSE [f[k - 1] EXCEPT ![dst + i(k)] = f[k - 1][src + i(k)]]
    IN  f[n]

\* The first c at or after p, -1 if a NUL comes first.
RECURSIVE strchr(_, _, _)
strchr(b, p, c) == IF b[p] = NUL THEN -1 ELSE IF b[p] = c THEN p ELSE strchr(b, p + 1, c)

\* The lines from p on: [p, out] after the last newline.
RECURSIVE Lines(_, _, _)
Lines(b, p, o) ==
    LET q == strchr(b, p, "nl")
        line == [k \in 1 .. q - p |-> b[p + k - 1]]
    IN  IF q = -1 THEN [p |-> p, out |-> o]
        ELSE Lines(b, q + 1, IF match(pattern, line) THEN Append(o, line) ELSE o)

Init ==
    /\ pattern \in Patterns /\ text \in Texts
    /\ pos = 0
    /\ buf = [k \in 0 .. SIZE - 1 |-> NUL]
    /\ m = 0
    /\ out = <<>>
    /\ eof = FALSE

\* One turn of grep's loop; n is what read() returns.
grep(n) ==
    LET want == SIZE - m - 1
        b == [k \in 0 .. SIZE - 1 |-> IF k >= m /\ k < m + n THEN text[pos + k - m + 1]
                                      ELSE IF k = m + n THEN NUL ELSE buf[k]]
    IN  /\ ~eof /\ n <= want /\ n <= Len(text) - pos
        /\ \/ /\ n = 0 /\ (want = 0 \/ pos = Len(text))
              /\ eof' = TRUE
              /\ UNCHANGED <<buf, m, out>>
           \/ /\ n > 0
              /\ \E l \in {Lines(b, 0, out)} :
                    /\ out' = l.out
                    /\ m' = m + n - l.p
                    /\ buf' = memmove(b, 0, l.p, m + n - l.p)
              /\ UNCHANGED eof
        /\ pos' = pos + n
        /\ UNCHANGED <<pattern, text>>

\* The next file, with what the last one has left in buf.
main ==
    /\ eof
    /\ text' \in Texts
    /\ pos' = 0 /\ m' = 0 /\ out' = <<>> /\ eof' = FALSE
    /\ UNCHANGED <<pattern, buf>>

Next == (\E n \in 0 .. SIZE - 1 : grep(n)) \/ main

Spec == Init /\ [][Next]_vars

-----------------------------------------------------------------------------
(* Properties *)

\* The items of a pattern without its "^": a character or ".", starred or not, and
\* "$" at the end.
RECURSIVE Items(_)
Items(re) ==
    IF re = <<>> THEN <<>>
    ELSE IF At(re, 2) = "*" THEN <<[c |-> re[1], kind |-> "star"]>> \o Items(From(re, 3))
    ELSE <<[c |-> re[1], kind |-> IF re = <<"$">> THEN "end" ELSE "one"]>> \o Items(From(re, 2))

\* A line matches if it can be cut so that each item has its piece.
Matches(re, t) ==
    LET anchored == At(re, 1) = "^"
        items == Items(IF anchored THEN From(re, 2) ELSE re)
        n == Len(items)
        Fits(x, a, b) == /\ x.kind = "one" => b = a + 1
                         /\ x.kind = "end" => a = Len(t) /\ b = a
                         /\ x.kind # "end" => \A k \in a + 1 .. b : x.c \in {".", t[k]}
    IN  \E cut \in [0 .. n -> 0 .. Len(t)] :
            /\ anchored => cut[0] = 0
            /\ \A j \in 1 .. n : cut[j - 1] <= cut[j] /\ Fits(items[j], cut[j - 1], cut[j])

Ends(s) == {k \in DOMAIN s : s[k] = "nl"}
\* The lines of s that end with a newline.
RECURSIVE LinesOf(_)
LinesOf(s) ==
    IF Ends(s) = {} THEN <<>>
    ELSE LET k == CHOOSE x \in Ends(s) : \A y \in Ends(s) : x <= y
         IN  <<SubSeq(s, 1, k - 1)>> \o LinesOf(From(s, k + 1))

\* In whatever pieces the input comes, grep has written exactly the lines it has seen
\* the end of that match the pattern, in their order, and the buffer holds the start of
\* the next line.  It stops early only at a line that does not fit the buffer.
GrepExact ==
    /\ out = SelectSeq(LinesOf(SubSeq(text, 1, pos)), LAMBDA l : Matches(pattern, l))
    /\ [k \in 1 .. m |-> buf[k - 1]] = SubSeq(text, pos - m + 1, pos)
    /\ pos = m \/ text[pos - m] = "nl"
    /\ eof => pos = Len(text) \/ m = SIZE - 1
=============================================================================
