------------------------------- MODULE Shell --------------------------------
(***************************************************************************)
(* The shell, sh.c: the parser, as functions from a position in the        *)
(* command line to [ok, s, cmd] (ok is FALSE after panic(), s is *ps), and *)
(* runcmd(), as a function from a command and the open files of a process  *)
(* to what is executed with which files.  Both are compared with reference *)
(* definitions for every command line that can be typed from a few pieces. *)
(***************************************************************************)
EXTENDS Integers, Sequences, FiniteSets, SequencesExt

CONSTANTS
    Pieces,     \* what a line is typed from: sequences of characters
    MaxPieces,  \* bound on the pieces of a line
    MAXARGS,
    Missing     \* files that open() does not find

VARIABLES buf, pieces   \* the line, and of how many pieces it is

Init == buf = <<>> /\ pieces = 0

\* A line is typed; getcmd clears buf before the next one.
Type(x) == pieces < MaxPieces /\ buf' = buf \o x /\ pieces' = pieces + 1
getcmd == pieces > 0 /\ buf' = <<>> /\ pieces' = 0
Next == getcmd \/ \E x \in Pieces : Type(x)

-----------------------------------------------------------------------------
(* Tokens *)

NUL == "0"
whitespace == {" "}
symbols == {"<", "|", ">", "&", ";", "(", ")"}

At(b, s) == IF s > Len(b) THEN NUL ELSE b[s]

RECURSIVE Skip(_, _, _)
Skip(b, s, chars) == IF s <= Len(b) /\ b[s] \in chars THEN Skip(b, s + 1, chars) ELSE s

RECURSIVE WordEnd(_, _)
WordEnd(b, s) ==
    IF s <= Len(b) /\ b[s] \notin whitespace \cup symbols THEN WordEnd(b, s + 1) ELSE s

\* gettoken returns [tok, q, eq, s]; tok is the symbol, "+" for >>, "a" for a word.
gettoken(b, ps) ==
    LET Token(tok, q, eq) == [tok |-> tok, q |-> q, eq |-> eq, s |-> Skip(b, eq, whitespace)]
        From(s) == CASE At(b, s) = NUL -> Token(NUL, s, s)
                     [] At(b, s) = ">" /\ At(b, s + 1) = ">" -> Token("+", s, s + 2)
                     [] At(b, s) \in symbols /\ ~(At(b, s) = ">" /\ At(b, s + 1) = ">")
                           -> Token(b[s], s, s + 1)
                     [] OTHER -> Token("a", s, WordEnd(b, s))
    IN  From(Skip(b, ps, whitespace))

peek(b, s, toks) == At(b, Skip(b, s, whitespace)) \in toks

-----------------------------------------------------------------------------
(* Parser *)

Ok(s, cmd) == [ok |-> TRUE, s |-> s, cmd |-> cmd]
panic == [ok |-> FALSE, s |-> 0, cmd |-> <<>>]

execcmd(argv) == [type |-> "EXEC", argv |-> argv]
redircmd(cmd, q, eq, mode, fd) ==
    [type |-> "REDIR", cmd |-> cmd, file |-> [q |-> q, eq |-> eq], mode |-> mode, fd |-> fd]
pipecmd(left, right) == [type |-> "PIPE", left |-> left, right |-> right]
listcmd(left, right) == [type |-> "LIST", left |-> left, right |-> right]
backcmd(cmd) == [type |-> "BACK", cmd |-> cmd]

\* parseredirs collects redirections in the order it meets them; each one becomes
\* the command around what was there before it.
RECURSIVE parseredirs(_, _, _)
parseredirs(b, s, cmd) ==
    LET Redir(t, f) ==
            IF f.tok # "a" THEN panic
            ELSE parseredirs(b, f.s,
                     CASE t.tok = "<" -> redircmd(cmd, f.q, f.eq, "O_RDONLY", 0)
                       [] t.tok = ">" -> redircmd(cmd, f.q, f.eq, "O_TRUNC", 1)
                       [] t.tok = "+" -> redircmd(cmd, f.q, f.eq, "O_CREATE", 1))
        File(t) == Redir(t, gettoken(b, t.s))
    IN  IF peek(b, s, {"<", ">"}) THEN File(gettoken(b, s)) ELSE Ok(s, cmd)

\* The innermost command gets one more argument (cmd in parseexec stays the execcmd).
RECURSIVE AddArg(_, _)
AddArg(cmd, arg) == IF cmd.type = "EXEC" THEN [cmd EXCEPT !.argv = Append(@, arg)]
                    ELSE [cmd EXCEPT !.cmd = AddArg(@, arg)]

\* Mutant: one argument too many is let in.
TooMany_late(argc) == argc > MAXARGS

TooMany(argc) == argc >= MAXARGS

\* The loop of parseexec.
RECURSIVE ArgsFrom(_, _, _, _)
ArgsFrom(b, s, cmd, argc) ==
    LET Redirs(r) == IF r.ok THEN ArgsFrom(b, r.s, r.cmd, argc + 1) ELSE panic
        Arg(t) == IF t.tok = NUL THEN Ok(t.s, cmd)
                  ELSE IF t.tok # "a" \/ TooMany(argc + 1) THEN panic
                  ELSE Redirs(parseredirs(b, t.s, AddArg(cmd, [q |-> t.q, eq |-> t.eq])))
    IN  IF peek(b, s, {"|", ")", "&", ";"}) THEN Ok(s, cmd) ELSE Arg(gettoken(b, s))

\* The & loop of parseline.
RECURSIVE BackFrom(_, _, _)
BackFrom(b, s, cmd) ==
    IF peek(b, s, {"&"}) THEN BackFrom(b, gettoken(b, s).s, backcmd(cmd)) ELSE Ok(s, cmd)

\* parseline, parsepipe and parseexec with parseblock: what = "line", "pipe" or "exec".
RECURSIVE parse(_, _, _)
parse(b, s, what) ==
    LET Listed(r, cmd) == IF r.ok THEN Ok(r.s, listcmd(cmd, r.cmd)) ELSE panic
        Backed(r) == IF peek(b, r.s, {";"})
                     THEN Listed(parse(b, gettoken(b, r.s).s, "line"), r.cmd) ELSE r
        Line(r) == IF r.ok THEN Backed(BackFrom(b, r.s, r.cmd)) ELSE panic
        Piped(r, cmd) == IF r.ok THEN Ok(r.s, pipecmd(cmd, r.cmd)) ELSE panic
        Pipe(r) == IF r.ok /\ peek(b, r.s, {"|"})
                   THEN Piped(parse(b, gettoken(b, r.s).s, "pipe"), r.cmd) ELSE r
        Block(r) == IF ~r.ok \/ ~peek(b, r.s, {")"}) THEN panic
                    ELSE parseredirs(b, gettoken(b, r.s).s, r.cmd)
        Args(r) == IF r.ok THEN ArgsFrom(b, r.s, r.cmd, 0) ELSE panic
    IN  CASE what = "line" -> Line(parse(b, s, "pipe"))
          [] what = "pipe" -> Pipe(parse(b, s, "exec"))
          [] what = "exec" /\ peek(b, s, {"("}) -> Block(parse(b, gettoken(b, s).s, "line"))
          [] what = "exec" /\ ~peek(b, s, {"("}) -> Args(parseredirs(b, s, execcmd(<<>>)))

\* The positions where nulterminate writes a NUL.
RECURSIVE nulterminate(_)
nulterminate(cmd) ==
    CASE cmd.type = "EXEC" -> {cmd.argv[i].eq : i \in DOMAIN cmd.argv}
      [] cmd.type = "REDIR" -> nulterminate(cmd.cmd) \cup {cmd.file.eq}
      [] cmd.type \in {"PIPE", "LIST"} -> nulterminate(cmd.left) \cup nulterminate(cmd.right)
      [] cmd.type = "BACK" -> nulterminate(cmd.cmd)

\* The string at q of the line with NULs at ends.
RECURSIVE String(_, _, _)
String(b, ends, q) ==
    IF q > Len(b) \/ q \in ends THEN <<>> ELSE <<b[q]>> \o String(b, ends, q + 1)

\* The command with the strings that its pointers point to.
RECURSIVE Strings(_, _, _)
Strings(b, ends, cmd) ==
    CASE cmd.type = "EXEC" ->
            [cmd EXCEPT !.argv = [i \in DOMAIN @ |-> String(b, ends, @[i].q)]]
      [] cmd.type = "REDIR" ->
            [cmd EXCEPT !.cmd = Strings(b, ends, @), !.file = String(b, ends, @.q)]
      [] cmd.type \in {"PIPE", "LIST"} ->
            [cmd EXCEPT !.left = Strings(b, ends, @), !.right = Strings(b, ends, @)]
      [] cmd.type = "BACK" -> [cmd EXCEPT !.cmd = Strings(b, ends, @)]

\* parsecmd: <<command>>, or <<>> after panic().
parsecmd(b) ==
    LET Line(r) == IF ~r.ok \/ Skip(b, r.s, whitespace) <= Len(b) THEN <<>>
                   ELSE <<Strings(b, nulterminate(r.cmd), r.cmd)>>
    IN  Line(parse(b, 1, "line"))

-----------------------------------------------------------------------------
(* runcmd: fds gives what each file descriptor of a process refers to, a    *)
(* pipe is named by where in the command its pipecmd is.                    *)

NOFILE == 6
Closed == <<>>
Console == <<"console">>

Fdalloc(fds, file) ==
    LET fd == CHOOSE n \in DOMAIN fds :
                  fds[n] = Closed /\ \A m \in DOMAIN fds : fds[m] = Closed => n <= m
    IN  [fds EXCEPT ![fd] = file]

\* Mutant: the left side keeps the read end open.
PipeEnd_leak(fds, p0, p1, fd, end) ==
    [Fdalloc([fds EXCEPT ![fd] = Closed], fds[end]) EXCEPT ![p1] = Closed]

\* A child of PIPE: close(fd), dup(end), close(p[0]), close(p[1]).
PipeEnd(fds, p0, p1, fd, end) ==
    [Fdalloc([fds EXCEPT ![fd] = Closed], fds[end]) EXCEPT ![p0] = Closed, ![p1] = Closed]

\* What runcmd leads to: the programs executed and the waits, with the files that
\* are open there.
RECURSIVE runcmd(_, _, _)
runcmd(cmd, fds, at) ==
    LET Opened(f) == IF cmd.file \in Missing /\ cmd.mode = "O_RDONLY" THEN {}
                     ELSE runcmd(cmd.cmd, Fdalloc(f, <<cmd.file, cmd.mode>>), at)
        Fd(f, end) == CHOOSE n \in DOMAIN f : f[n] = <<at, end>>
        Piped(f, p0, p1) ==
            runcmd(cmd.left, PipeEnd(f, p0, p1, 1, p1), Append(at, "left"))
            \cup runcmd(cmd.right, PipeEnd(f, p0, p1, 0, p0), Append(at, "right"))
            \cup {[argv |-> <<>>, fds |-> [f EXCEPT ![p0] = Closed, ![p1] = Closed]]}
        Pipe(f) == Piped(f, Fd(f, "read"), Fd(f, "write"))
    IN  CASE cmd.type = "EXEC" ->
                IF cmd.argv = <<>> THEN {} ELSE {[argv |-> cmd.argv, fds |-> fds]}
          [] cmd.type = "REDIR" -> Opened([fds EXCEPT ![cmd.fd] = Closed])
          [] cmd.type = "LIST" -> runcmd(cmd.left, fds, Append(at, "left"))
                                  \cup {[argv |-> <<>>, fds |-> fds]}
                                  \cup runcmd(cmd.right, fds, Append(at, "right"))
          [] cmd.type = "PIPE" -> Pipe(Fdalloc(Fdalloc(fds, <<at, "read">>), <<at, "write">>))
          [] cmd.type = "BACK" -> runcmd(cmd.cmd, fds, at)

-----------------------------------------------------------------------------
(* What the line means, defined by splitting it instead of by reading on.  *)

\* Its tokens with their text, one character after the other.
Lexed(acc, c) ==
    LET n == Len(acc.toks)
        New(k) == [toks |-> Append(acc.toks, [k |-> k, text |-> <<c>>]), last |-> c]
    IN  CASE c \in whitespace -> [acc EXCEPT !.last = c]
          [] c = ">" /\ acc.last = ">" -> [toks |-> [acc.toks EXCEPT ![n].k = "+"], last |-> " "]
          [] c \in symbols /\ ~(c = ">" /\ acc.last = ">") -> New(c)
          [] c \notin whitespace \cup symbols ->
                IF acc.last \in whitespace \cup symbols THEN New("a")
                ELSE [acc EXCEPT !.toks[n].text = Append(@, c)]

Tokens(b) == FoldLeft(Lexed, [toks |-> <<>>, last |-> " "], b).toks

Depth(ts, i) == Cardinality({j \in 1..(i - 1) : ts[j].k = "("})
                - Cardinality({j \in 1..(i - 1) : ts[j].k = ")"})

\* The first position of token k outside every parenthesis; 0 if there is none.
FirstTop(ts, k) ==
    LET at == {i \in DOMAIN ts : ts[i].k = k /\ Depth(ts, i) = IF k = ")" THEN 1 ELSE 0}
    IN  IF at = {} THEN 0 ELSE CHOOSE i \in at : \A j \in at : i <= j

Wrap(redirs, cmd) ==
    FoldLeft(LAMBDA c, r : [type |-> "REDIR", cmd |-> c, file |-> r.file, mode |-> r.mode,
                            fd |-> IF r.mode = "O_RDONLY" THEN 0 ELSE 1], cmd, redirs)

Mode == ("<" :> "O_RDONLY") @@ (">" :> "O_TRUNC") @@ ("+" :> "O_CREATE")

IsOp(ts, i) == i \in DOMAIN ts /\ ts[i].k \in DOMAIN Mode
Indices(ts, P(_)) == SetToSortSeq({i \in DOMAIN ts : P(i)}, <)
Words(ts) == LET at == Indices(ts, LAMBDA i : ts[i].k = "a" /\ ~IsOp(ts, i - 1))
             IN  [n \in DOMAIN at |-> ts[at[n]].text]
Redirs(ts) == LET at == Indices(ts, LAMBDA i : IsOp(ts, i))
              IN  [n \in DOMAIN at |-> [file |-> ts[at[n] + 1].text, mode |-> Mode[ts[at[n]].k]]]
WellFormed(ts) == \A i \in DOMAIN ts :
                     \/ ts[i].k = "a"
                     \/ IsOp(ts, i) /\ i < Len(ts) /\ ts[i + 1].k = "a"

Both(type, l, r) == IF l = <<>> \/ r = <<>> THEN <<>>
                    ELSE <<[type |-> type, left |-> l[1], right |-> r[1]]>>

RECURSIVE Meaning(_, _)
Meaning(ts, what) ==
    LET Split(i, type, left, right) ==
            Both(type, Meaning(SubSeq(ts, 1, i - 1), left), Meaning(SubSeq(ts, i + 1, Len(ts)), right))
        Line(i) == IF i > 0 THEN Split(i, "LIST", "back", "line") ELSE Meaning(ts, "back")
        Back(cmd) == IF cmd = <<>> THEN <<>> ELSE <<[type |-> "BACK", cmd |-> cmd[1]]>>
        Pipe(i) == IF i > 0 THEN Split(i, "PIPE", "exec", "pipe") ELSE Meaning(ts, "exec")
        Around(rest, cmd) == IF cmd = <<>> \/ ~WellFormed(rest) \/ Words(rest) # <<>> THEN <<>>
                             ELSE <<Wrap(Redirs(rest), cmd[1])>>
        Block(i) == IF i = 0 THEN <<>>
                    ELSE Around(SubSeq(ts, i + 1, Len(ts)), Meaning(SubSeq(ts, 2, i - 1), "line"))
        Exec == IF ~WellFormed(ts) \/ Len(Words(ts)) >= MAXARGS THEN <<>>
                ELSE <<Wrap(Redirs(ts), [type |-> "EXEC", argv |-> Words(ts)])>>
    IN  CASE what = "line" -> Line(FirstTop(ts, ";"))
          [] what = "back" -> IF ts # <<>> /\ ts[Len(ts)].k = "&"
                              THEN Back(Meaning(SubSeq(ts, 1, Len(ts) - 1), "back"))
                              ELSE Meaning(ts, "pipe")
          [] what = "pipe" -> Pipe(FirstTop(ts, "|"))
          [] what = "exec" -> IF ts # <<>> /\ ts[1].k = "(" THEN Block(FirstTop(ts, ")")) ELSE Exec

\* Who is executed with which standard input and output, and nothing else open.
Std(in, out) == [n \in 0..(NOFILE - 1) |-> CASE n = 0 -> in [] n = 1 -> out
                                             [] n = 2 -> Console [] n > 2 -> Closed]

RECURSIVE Wired(_, _, _, _)
Wired(cmd, in, out, at) ==
    LET Here(argv) == {[argv |-> argv, fds |-> Std(in, out)]}
        Sides(out1, in2) == Wired(cmd.left, in, out1, Append(at, "left"))
                            \cup Wired(cmd.right, in2, out, Append(at, "right"))
    IN  CASE cmd.type = "EXEC" -> IF cmd.argv = <<>> THEN {} ELSE Here(cmd.argv)
          [] cmd.type = "BACK" -> Wired(cmd.cmd, in, out, at)
          [] cmd.type = "LIST" -> Sides(out, in) \cup Here(<<>>)
          [] cmd.type = "PIPE" -> Sides(<<at, "write">>, <<at, "read">>) \cup Here(<<>>)
          [] cmd.type = "REDIR" ->
                IF cmd.fd = 1 THEN Wired(cmd.cmd, in, <<cmd.file, cmd.mode>>, at)
                ELSE IF cmd.file \in Missing THEN {}
                ELSE Wired(cmd.cmd, <<cmd.file, cmd.mode>>, out, at)

-----------------------------------------------------------------------------
(* Properties *)

\* The one-pass parser of sh.c accepts exactly the lines of the grammar and builds the
\* command they mean: ; binds weaker than &, & weaker than |, a redirection belongs to
\* the command or block it follows, and after nulterminate() has written its NULs into
\* the line every argument and file name is still the whole word that was typed.
ParseExact == parsecmd(buf) = Meaning(Tokens(buf), "line")

\* However pipes, lists, blocks and redirections nest, runcmd() starts every program
\* with the right standard input and output and without any other end of a pipe, and no
\* process waits for its children while it holds an end of a pipe of theirs: otherwise
\* the reader at the other end would never see end of file and the wait never return.
RunExact ==
    \A cmd \in Range(parsecmd(buf)) :
        runcmd(cmd, Std(Console, Console), <<>>) = Wired(cmd, Console, Console, <<>>)
=============================================================================
