------------------------------ MODULE MCParts -------------------------------
(***************************************************************************)
(* The scheduler, and the parts that share no state with any other: job    *)
(* says which of them a behaviour is about, and only that one moves.       *)
(***************************************************************************)
EXTENDS SchedScan, Sequences, FiniteSets

VARIABLES
    job,
    mem, space, held,                        \* Vm
    inode, block, used, off, got, caller,    \* FileData
    hd, freep, brk, live, gaps, refused,     \* Umalloc
    buf, pieces,                             \* Shell
    now, cal, up,                            \* Datetime
    disk, wanted, left, stage,               \* Mkfs
    pattern, text, pos, gbuf, m, out, eof    \* Grep

vm == <<mem, space, held>>
files == <<inode, block, used, off, got, caller>>
heap == <<hd, freep, brk, live, gaps, refused>>
line == <<buf, pieces>>
clock == <<now, cal, up>>
image == <<disk, wanted, left, stage>>
search == <<pattern, text, pos, gbuf, m, out, eof>>
parts == <<vm, files, heap, line, clock, image, search>>

-----------------------------------------------------------------------------
(* Instances *)

\* A text page with one argument, and with arguments that overflow the stack page;
\* text and data with bss; a file that is shorter than its header says.
Seg(vaddr, memsz, bytes, flags) ==
    [vaddr |-> vaddr, memsz |-> memsz, filesz |-> Len(bytes), bytes |-> bytes, flags |-> flags]
Text == <<Seg(0, 3, <<2, 2, 2>>, {"X"})>>
Data == Seg(4, 3, <<3>>, {"W"})
MCExecs == { [img |-> Text, args |-> << <<7>> >>],
             [img |-> Text, args |-> << <<7, 7, 7>> >>],
             [img |-> Append(Text, Data), args |-> <<>>],
             [img |-> Append(Text, [Data EXCEPT !.filesz = 2]), args |-> <<>>] }

V == INSTANCE Vm WITH
         proc <- space, Procs <- {1, 2}, InitProc <- 1, InitCode <- <<9, 9>>, Execs <- MCExecs,
         Increments <- {6, -6, -30}, Writes <- {[va |-> 2, src |-> <<6, 6, 6>>]},
         PGSIZE <- 4, ALIGN <- 2, FAN <- 2, NPAGES <- 21, MaxHeld <- 13

Call(op, f, n, ok) == [op |-> op, f |-> f, n |-> n, ok |-> ok]
MCCalls == [p1 |-> {Call("write", "shared", 3, 3), Call("read", "reader", 2, 2),
                    Call("read", "reader", 2, 0), Call("fstat", "reader", 1, 1)},
            p2 |-> {Call("write", "shared", 1, 1), Call("write", "own", 3, 2),
                    Call("open", "own", 0, 0)}]
MCSrc(p) == IF p = "p1" THEN <<1, 2, 1>> ELSE <<3, 4, 3>>

F == INSTANCE FileData WITH
         proc <- caller, Procs <- {"p1", "p2"}, Inodes <- {"i1", "i2"},
         Files <- [shared |-> "i1", own |-> "i2", reader |-> "i2"], Calls <- MCCalls,
         Src <- MCSrc, BSIZE <- 2, NDIRECT <- 1, NINDIRECT <- 2, NBLOCKS <- 5, BPB <- 1,
         MAXOPBLOCKS <- 6

U == INSTANCE Umalloc WITH Requests <- {1, 4, 9}, HSIZE <- 2, NALLOC <- 4, HEAP <- 3, LIMIT <- 12

S == INSTANCE Shell WITH
         Pieces <- {<<"a">>, <<" ", "b">>, <<"|">>, <<";">>, <<"&">>,
                    <<"(">>, <<")">>, <<"<", "c">>, <<">">>},
         MaxPieces <- 5, MAXARGS <- 3, Missing <- {<<"c", "a">>}

D == INSTANCE Datetime WITH
         Boots <- {[day |-> 0, year |-> 1970, weekday |-> 4],
                   [day |-> 10957, year |-> 2000, weekday |-> 6],
                   [day |-> 47482, year |-> 2100, weekday |-> 5]},
         Uptime <- 1600

\* Seven data blocks; a file of five bytes has an indirect block.
K == INSTANCE Mkfs WITH
         files <- wanted, BSIZE <- 2, IPB <- 2, BPB <- 16, FSSIZE <- 14, NINODES <- 5,
         LOGSIZE <- 1, NDIRECT <- 1, NINDIRECT <- 2, MaxLen <- 7

\* Every pattern of up to three characters; short and empty lines, a last line without
\* a newline, and a line that does not fit.
G == INSTANCE Grep WITH
         buf <- gbuf, SIZE <- 6,
         Patterns <- UNION {[1 .. n -> {"a", ".", "*", "^", "$"}] : n \in 0 .. 3},
         Texts <- {<<"b", "a", "nl", "a", "a", "b", "nl", "nl", "a">>,
                   <<"a", "nl", "b", "a", "a", "b", "b", "nl">>}

-----------------------------------------------------------------------------
NoVm == mem = 0 /\ space = 0 /\ held = 0
NoFiles == inode = 0 /\ block = 0 /\ used = 0 /\ off = 0 /\ got = 0 /\ caller = 0
NoHeap == hd = 0 /\ freep = 0 /\ brk = 0 /\ live = 0 /\ gaps = 0 /\ refused = 0
NoLine == buf = 0 /\ pieces = 0
NoClock == now = 0 /\ cal = 0 /\ up = 0
NoImage == disk = 0 /\ wanted = 0 /\ left = 0 /\ stage = 0
NoSearch == pattern = 0 /\ text = 0 /\ pos = 0 /\ gbuf = 0 /\ m = 0 /\ out = 0 /\ eof = 0

PartsInit ==
    /\ ScanInit
    /\ job \in {"sched", "vm", "file", "heap", "shell", "date", "mkfs", "grep"}
    /\ IF job = "vm" THEN V!Init ELSE NoVm
    /\ IF job = "file" THEN F!Init ELSE NoFiles
    /\ IF job = "heap" THEN U!Init ELSE NoHeap
    /\ IF job = "shell" THEN S!Init ELSE NoLine
    /\ IF job = "date" THEN D!Init ELSE NoClock
    /\ IF job = "mkfs" THEN K!Init ELSE NoImage
    /\ IF job = "grep" THEN G!Init ELSE NoSearch

PartsNext ==
    \/ job = "sched" /\ ScanNext /\ UNCHANGED <<job, parts>>
    \/ /\ UNCHANGED <<job, ScanVars>>
       /\ \/ job = "vm" /\ V!Next /\ UNCHANGED <<files, heap, line, clock, image, search>>
          \/ job = "file" /\ F!Next /\ UNCHANGED <<vm, heap, line, clock, image, search>>
          \/ job = "heap" /\ U!Next /\ UNCHANGED <<vm, files, line, clock, image, search>>
          \/ job = "shell" /\ S!Next /\ UNCHANGED <<vm, files, heap, clock, image, search>>
          \/ job = "date" /\ D!Next /\ UNCHANGED <<vm, files, heap, line, image, search>>
          \/ job = "mkfs" /\ K!Next /\ UNCHANGED <<vm, files, heap, line, clock, search>>
          \/ job = "grep" /\ G!Next /\ UNCHANGED <<vm, files, heap, line, clock, image>>

PartsSpec == PartsInit /\ [][PartsNext]_<<job, ScanVars, parts>>

\* States that differ only in which physical pages or disk blocks play which role are
\* one state: the address spaces, the shape of the page tables and the number of pages
\* held (and mem = mem, which makes TLC evaluate mem before it writes it to disk); the
\* shapes of the files, their bytes and the number of blocks in use.
Tables(p) ==
    IF ~V!Live(p) THEN <<{}, 0>>
    ELSE <<{vpn \in 0 .. 7 : V!walk(mem, space[p].pt, vpn * 4, FALSE).r # 0},
           Cardinality(V!TablesFrom(space[p].pt, 2))>>
At(b) == IF b = 0 THEN <<>> ELSE block[b]
Shape(i) ==
    LET a == inode[i].addrs
    IN  <<inode[i].size, inode[i].lock, At(a[1]), a[2] # 0, [k \in DOMAIN At(a[2]) |-> At(At(a[2])[k])]>>

MCView ==
    CASE job = "sched" -> <<job, ScanVars>>
      [] job = "vm" -> <<job, [p \in {1, 2} |-> <<V!SpaceOf(p), Tables(p)>>], Cardinality(held), mem = mem>>
      [] job = "file" ->
            <<job, [i \in {"i1", "i2"} |-> Shape(i)], Cardinality(used), off,
              [p \in {"p1", "p2"} |-> <<Len(caller[p].todo), Cardinality(caller[p].logged),
                                        [caller[p] EXCEPT !.todo = <<>>, !.logged = {}]>>]>>
      [] job = "heap" -> <<job, heap>>
      [] job = "shell" -> <<job, line>>
      [] job = "date" -> <<job, clock>>
      [] job = "mkfs" -> <<job, image>>
      [] job = "grep" -> <<job, search>>

-----------------------------------------------------------------------------
(* Properties *)

\* Every physical page has exactly one owner, whichever allocation of fork, exec, sbrk
\* or proc_pagetable fails, and no panic of vm.c is reached (see Vm).
PagesExact == job = "vm" => V!PagesExact

\* copyin and copyinstr return exactly the user's bytes and fail on the first byte
\* that is not the user's (see Vm).  Neither depends on held, and Others may always
\* give everything back.
CopyExact == job = "vm" /\ held = {} => V!CopyExact

\* Through page tables, fork, exec, sbrk and copyout do to address spaces what
\* AddressSpace says, and a call that fails changes none.
AddressSpaceSpec == /\ job = "vm" => V!AS!Init
                    /\ [][job = "vm" => UNCHANGED V!Spaces \/ V!AS!Next]_vm

\* Every disk block is free, in one file, or about to be freed by a truncation,
\* whichever step of a write fails (see FileData).
BlocksExact == job = "file" => F!BlocksExact

\* One chunk of filewrite() logs at most the MAXOPBLOCKS blocks begin_op() reserved
\* (see FileData).
TransactionFits == job = "file" => F!TransactionFits

\* Through blocks, indirect blocks and chunks, files are the byte sequences of
\* ByteFile, and users of one open file never write over each other.
ByteFileSpec == /\ job = "file" => F!BF!Init
                /\ [][job = "file" => UNCHANGED <<off, got, F!Contents>> \/ F!BF!Next]_files

\* malloc() and free() keep the heap partitioned into blocks and the free list a ring
\* in address order without neighbours, and malloc() fails only if nothing fits (see
\* Umalloc).
HeapExact == job = "heap" => U!HeapExact

\* The parser of the shell accepts the lines of the grammar and builds what they mean
\* (see Shell).
ParseExact == job = "shell" => S!ParseExact

\* runcmd() starts every program with the right files and no other end of a pipe, and
\* nobody waits while holding an end of a pipe (see Shell).
RunExact == job = "shell" => S!RunExact

\* datetime() reports what calendar and clock show in Cairo (see Datetime).
DatetimeExact == job = "date" => D!DatetimeExact

\* The kernel finds the file system that mkfs was asked for (see Mkfs).
ImageExact == job = "mkfs" => K!ImageExact

\* grep writes exactly the lines that match, in whatever pieces it reads them (see Grep).
GrepExact == job = "grep" => G!GrepExact
=============================================================================
