------------------------------ MODULE MCInode ------------------------------
EXTENDS Inode

CONSTANTS p1, p2

Call(op, path) == [op |-> op, path |-> path, new |-> <<>>]

\* p1 and p2 make, link and remove a file b and a directory a with an entry in it;
\* some of the calls can only fail.
MCCalls == [p \in Procs |->
    IF p = p1
    THEN { Call("create", <<"/", "b">>), Call("unlink", <<"/", "b">>), Call("mkdir", <<"a">>),
           [op |-> "link", path |-> <<"/", "b">>, new |-> <<"/", "a", "b">>],
           [op |-> "link", path |-> <<".">>, new |-> <<"/", "b">>],
           Call("close", <<>>), Call("unlink", <<"/", "a">>), Call("unlink", <<"/">>) }
    ELSE { Call("open", <<"/", "b">>), Call("close", <<>>), Call("create", <<"a", "b">>), Call("mkdir", <<"a", "b">>),
           Call("unlink", <<"/", "a", "b">>),
           Call("chdir", <<"/", "a">>), Call("chdir", <<"..">>), Call("chdir", <<"/", "b">>),
           Call("unlink", <<".">>) }]
=============================================================================
