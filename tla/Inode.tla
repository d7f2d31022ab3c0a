------------------------------- MODULE Inode -------------------------------
(***************************************************************************)
(* Inodes, directories and path names: the inode table of fs.c and the     *)
(* system calls of sysfile.c that walk, make and remove names, run by      *)
(* several processes at once.  An inode is known by its number: its entry  *)
(* of the inode table (itable) is found by the number, so that the place   *)
(* in the table does not matter.                                           *)
(*                                                                         *)
(* One step is one critical section: of itable.lock (iget, iput), of an    *)
(* inode's sleep lock, or of the buffer of an inode block (ialloc).  What  *)
(* is done between ilock() and iunlock() is one step unless a second lock  *)
(* is acquired in between; the lock is then held across steps.  Log shows  *)
(* that the disk writes of a call are atomic.                              *)
(***************************************************************************)
EXTENDS Integers, Sequences, FiniteSets

CONSTANTS
    Procs,
    Names,      \* path elements other than "." and ".."
    NINODES,    \* inodes on disk; number 1 is the root directory
    Calls,      \* [Procs -> set of calls]: [op, path, new]; new is link's second path
    DiskFull,   \* subset of BOOLEAN: whether dirlink may find no room on the disk
    None

ROOTINO == 1
Inums == 1 .. NINODES
Elems == Names \cup {".", ".."}

\* The path elements of a path: without the "/" that an absolute one begins with.
Rest(path) == IF path # <<>> /\ Head(path) = "/" THEN Tail(path) ELSE path

Paths == {s \in Seq(Elems \cup {"/"}) : Rest(s) \in Seq(Elems)}
Ops == {"open", "create", "mkdir", "link", "unlink", "chdir", "close"}
NoCall == [op |-> "none", path |-> <<>>, new |-> <<>>]

ASSUME InodeAssumption ==
    /\ IsFiniteSet(Procs) /\ None \notin Procs
    /\ IsFiniteSet(Names) /\ Names \cap {".", ".."} = {}
    /\ NINODES \in Nat \ {0}
    /\ Calls \in [Procs -> SUBSET [op : Ops, path : Paths, new : Paths]]

VARIABLES
    dinode,     \* [Inums -> [type, nlink]]: the inodes on disk
    dir,        \* [Inums -> [Elems -> Inums \cup {0}]]: the directory entries on disk
    itable,     \* [Inums -> [ref, valid, type, nlink, lock]]: the inodes in memory
    proc,       \* [Procs -> record]: see Init
    busyRemoved,\* history: a directory was removed while it was in use
    lost        \* history: inodes whose last reference iput() dropped without a look

vars == <<dinode, dir, itable, proc, busyRemoved, lost>>

NoEntries == [n \in Elems |-> 0]
NotInTable == [ref |-> 0, valid |-> FALSE, type |-> "none", nlink |-> 0, lock |-> None]

\* Every process starts with the root as its working directory (userinit, fork).
Init ==
    /\ dinode = [i \in Inums |-> IF i = ROOTINO THEN [type |-> "dir", nlink |-> 1]
                                 ELSE [type |-> "none", nlink |-> 0]]
    /\ dir = [i \in Inums |-> IF i = ROOTINO
                              THEN [NoEntries EXCEPT !["."] = ROOTINO, ![".."] = ROOTINO]
                              ELSE NoEntries]
    /\ itable = [i \in Inums |-> IF i = ROOTINO
                                 THEN [NotInTable EXCEPT !.ref = Cardinality(Procs)]
                                 ELSE NotInTable]
    /\ proc = [p \in Procs |->
          [pc   |-> "user",
           call |-> NoCall,
           path |-> <<>>,   \* namex: the elements still to walk
           ip   |-> 0,      \* the inode being walked, made, opened or removed
           dp   |-> 0,      \* the parent directory of the last element
           old  |-> 0,      \* sys_link: the inode of the old name
           puts |-> <<>>,   \* inodes to iput, unlocking each first
           then |-> "user", \* where to go on when puts is empty
           cwd  |-> ROOTINO,
           fd   |-> 0]]     \* the open file's inode (NOFILE = 1)
    /\ busyRemoved = FALSE
    /\ lost = {}

-----------------------------------------------------------------------------
(* The inode table, as functions from a table t to a table *)

iget(t, i) ==
    IF t[i].ref > 0 THEN [t EXCEPT ![i].ref = @ + 1]
    ELSE [t EXCEPT ![i] = [NotInTable EXCEPT !.ref = 1]]

\* ilock reads the inode if the copy is not valid; the lock is free when a step locks.
ilock(t, i, p) ==
    [t EXCEPT ![i] = IF @.valid THEN [@ EXCEPT !.lock = p]
                     ELSE [@ EXCEPT !.lock = p, !.valid = TRUE,
                                    !.type = dinode[i].type, !.nlink = dinode[i].nlink]]

iunlock(t, i, p) == IF t[i].lock = p THEN [t EXCEPT ![i].lock = None] ELSE t

\* A copy that is changed and written back with iupdate.
SetLinks(t, i, n) == [t EXCEPT ![i].nlink = n]
iupdate(t, S) == [i \in Inums |-> IF i \in S THEN [type |-> t[i].type, nlink |-> t[i].nlink]
                                  ELSE dinode[i]]

Unlocked(i) == itable[i].lock = None
Locked(i, p) == ilock(itable, i, p)
At(p, pc) == proc[p].pc = pc

\* Continue with iunlockput(i) for each i of puts, then at pc `then`.
\* t is the table before the first of them is unlocked.
PutAndGo(p, t, r, puts, then) ==
    /\ itable' = iunlock(t, Head(puts), p)
    /\ proc' = [proc EXCEPT ![p] = [r EXCEPT !.pc = "iput", !.puts = puts, !.then = then]]

Return(r) == [r EXCEPT !.pc = "user", !.call = NoCall, !.path = <<>>]

dirlookup(dp, name) == dir[dp][name]   \* 0 if there is no such entry

\* dirlink of a name that is not there, in directories d.
dirlink(d, dp, name, inum) == [d EXCEPT ![dp][name] = inum]

-----------------------------------------------------------------------------
(* iput *)

\* The reference is dropped; the next of puts is unlocked, or the call goes on.
Drop(p, t, i) ==
    LET r == proc[p]
        u == [t EXCEPT ![i] = IF @.ref = 1 THEN NotInTable ELSE [@ EXCEPT !.ref = @ - 1]]
    IN  IF Len(r.puts) > 1
        THEN /\ itable' = iunlock(u, r.puts[2], p)
             /\ proc' = [proc EXCEPT ![p].puts = Tail(@), ![p].pc = "iput"]
        ELSE /\ itable' = u
             /\ proc' = [proc EXCEPT ![p] =
                   IF r.then = "user" THEN Return([r EXCEPT !.puts = <<>>])
                   ELSE [r EXCEPT !.puts = <<>>, !.pc = r.then, !.then = "user"]]

\* Mutant: other references to the inode are not looked at.
LastRef_shared(i) == itable[i].valid /\ itable[i].nlink = 0

LastRef(i) == itable[i].ref = 1 /\ itable[i].valid /\ itable[i].nlink = 0

iput(p) ==
    /\ At(p, "iput")
    /\ LET i == Head(proc[p].puts)
       IN  \/ ~LastRef(i) /\ Drop(p, itable, i)
           \/ /\ LastRef(i)
              /\ itable' = [itable EXCEPT ![i].lock = p]
              /\ proc' = [proc EXCEPT ![p].pc = "iput_free"]
    /\ UNCHANGED <<dinode, dir, busyRemoved, lost>>

\* itrunc, type = 0, iupdate, valid = 0, releasesleep.
iput_free(p) ==
    /\ At(p, "iput_free")
    /\ LET i == Head(proc[p].puts)
       IN  /\ dinode' = [dinode EXCEPT ![i] = [type |-> "none", nlink |-> 0]]
           /\ dir' = [dir EXCEPT ![i] = NoEntries]
           /\ itable' = [itable EXCEPT ![i] = [NotInTable EXCEPT !.ref = itable[i].ref]]
    /\ proc' = [proc EXCEPT ![p].pc = "iput_drop"]
    /\ UNCHANGED <<busyRemoved, lost>>

iput_drop(p) ==
    /\ At(p, "iput_drop")
    /\ LET i == Head(proc[p].puts)
       IN  /\ Drop(p, itable, i)
           /\ lost' = IF itable[i].ref = 1 /\ dinode[i].type # "none" /\ dinode[i].nlink = 0
                      THEN lost \cup {i} ELSE lost
    /\ UNCHANGED <<dinode, dir, busyRemoved>>

-----------------------------------------------------------------------------
(* namex *)

WantsParent(r) == \/ r.call.op \in {"create", "mkdir", "unlink"}
                  \/ r.call.op = "link" /\ r.old # 0

\* Where the path comes from: a path that begins with "/" is walked from the root.
Start(p, r, t, path) ==
    LET i == IF path # <<>> /\ Head(path) = "/" THEN ROOTINO ELSE r.cwd
    IN  /\ itable' = iget(t, i)
        /\ proc' = [proc EXCEPT ![p] = [r EXCEPT !.pc = "namex", !.ip = i, !.path = Rest(path)]]

syscall(p) ==
    /\ At(p, "user")
    /\ \E c \in Calls[p] :
          \/ /\ c.op # "close"
             /\ Start(p, [proc[p] EXCEPT !.call = c], itable, c.path)
          \/ /\ c.op = "close" /\ proc[p].fd # 0
             /\ PutAndGo(p, itable, [proc[p] EXCEPT !.fd = 0], <<proc[p].fd>>, "user")
    /\ UNCHANGED <<dinode, dir, busyRemoved, lost>>

\* A walk that fails: link has to undo its nlink++, every other call returns -1.
Fail(r) == IF r.call.op = "link" /\ r.old # 0 THEN "link_bad" ELSE "user"

namex(p) ==
    LET r == proc[p]
        t == Locked(r.ip, p)
        next == dirlookup(r.ip, Head(r.path))
    IN  /\ At(p, "namex")
        /\ \/ /\ r.path = <<>> /\ ~WantsParent(r)
              /\ proc' = [proc EXCEPT ![p].pc = r.call.op]
              /\ UNCHANGED itable
           \/ /\ r.path = <<>> /\ WantsParent(r)
              /\ PutAndGo(p, itable, [r EXCEPT !.ip = 0], <<r.ip>>, Fail(r))
           \/ /\ r.path # <<>> /\ Unlocked(r.ip)
              /\ \/ /\ t[r.ip].type = "dir" /\ WantsParent(r) /\ Len(r.path) = 1
                    /\ itable' = iunlock(t, r.ip, p)
                    /\ proc' = [proc EXCEPT ![p].pc = r.call.op, ![p].dp = r.ip, ![p].ip = 0]
                 \/ /\ \/ t[r.ip].type # "dir"
                       \/ ~(WantsParent(r) /\ Len(r.path) = 1) /\ next = 0
                    /\ PutAndGo(p, t, [r EXCEPT !.ip = 0], <<r.ip>>, Fail(r))
                 \/ /\ t[r.ip].type = "dir" /\ ~(WantsParent(r) /\ Len(r.path) = 1) /\ next # 0
                    /\ PutAndGo(p, iget(t, next), [r EXCEPT !.ip = next, !.path = Tail(@)],
                                <<r.ip>>, "namex")
        /\ UNCHANGED <<dinode, dir, busyRemoved, lost>>

-----------------------------------------------------------------------------
(* sys_open without O_CREATE (read only), sys_chdir *)

\* Mutant: without a descriptor the reference is kept.
Opened_leak(p, t, r) ==
    /\ itable' = iunlock(t, r.ip, p)
    /\ proc' = [proc EXCEPT ![p] = Return([r EXCEPT !.fd = IF @ = 0 THEN r.ip ELSE @, !.ip = 0])]

\* The end of sys_open, with ip locked in table t: a descriptor, or none left.
Opened(p, t, r) ==
    \/ /\ r.fd = 0
       /\ itable' = iunlock(t, r.ip, p)
       /\ proc' = [proc EXCEPT ![p] = Return([r EXCEPT !.fd = r.ip, !.ip = 0])]
    \/ r.fd # 0 /\ PutAndGo(p, t, [r EXCEPT !.ip = 0], <<r.ip>>, "user")

sys_open(p) ==
    /\ At(p, "open") /\ Unlocked(proc[p].ip)
    /\ Opened(p, Locked(proc[p].ip, p), proc[p])
    /\ UNCHANGED <<dinode, dir, busyRemoved, lost>>

sys_chdir(p) ==
    LET r == proc[p]
        t == Locked(r.ip, p)
    IN  /\ At(p, "chdir") /\ Unlocked(r.ip)
        /\ \/ t[r.ip].type # "dir" /\ PutAndGo(p, t, [r EXCEPT !.ip = 0], <<r.ip>>, "user")
           \/ /\ t[r.ip].type = "dir"
              /\ PutAndGo(p, iunlock(t, r.ip, p), [r EXCEPT !.cwd = r.ip, !.ip = 0],
                          <<r.cwd>>, "user")
        /\ UNCHANGED <<dinode, dir, busyRemoved, lost>>

-----------------------------------------------------------------------------
(* create (open with O_CREATE, mkdir) *)

Type(op) == IF op = "mkdir" THEN "dir" ELSE "file"

\* Mutant: every new or removed entry counts for the directory.
SubdirLinks_any(t, dp, isdir, n) == SetLinks(t, dp, t[dp].nlink + n)

\* A subdirectory's ".." is a link to dp.
SubdirLinks(t, dp, isdir, n) == IF isdir THEN SetLinks(t, dp, t[dp].nlink + n) ELSE t

\* ialloc() marks inode i, which its scan has found free.
ialloc(i, type) == [dinode EXCEPT ![i] = [type |-> type, nlink |-> 0]]

create(p) ==
    LET r == proc[p]
        t == Locked(r.dp, p)
        found == dirlookup(r.dp, Head(r.path))
        free == {i \in Inums : dinode[i].type = "none"}
    IN  /\ r.pc \in {"create", "mkdir"} /\ Unlocked(r.dp)
        /\ \/ /\ found # 0
              /\ PutAndGo(p, iget(t, found), [r EXCEPT !.ip = found, !.dp = 0],
                          <<r.dp>>, "create_found")
              /\ UNCHANGED dinode
           \/ /\ found = 0 /\ free = {}
              /\ PutAndGo(p, t, [r EXCEPT !.dp = 0], <<r.dp>>, "user")
              /\ UNCHANGED dinode
           \/ /\ found = 0
              /\ \E i \in free :   \* any that the scan may find free
                    /\ dinode' = ialloc(i, Type(r.call.op))
                    /\ itable' = t
                    /\ proc' = [proc EXCEPT ![p].pc = "ialloc_iget", ![p].ip = i]
        /\ UNCHANGED <<dir, busyRemoved, lost>>

create_found(p) ==
    LET r == proc[p]
        t == Locked(r.ip, p)
    IN  /\ At(p, "create_found") /\ Unlocked(r.ip)
        /\ IF Type(r.call.op) = "file" /\ t[r.ip].type = "file"
           THEN Opened(p, t, r)
           ELSE PutAndGo(p, t, [r EXCEPT !.ip = 0], <<r.ip>>, "user")
        /\ UNCHANGED <<dinode, dir, busyRemoved, lost>>

ialloc_iget(p) ==
    /\ At(p, "ialloc_iget")
    /\ itable' = iget(itable, proc[p].ip)
    /\ proc' = [proc EXCEPT ![p].pc = "create_new"]
    /\ UNCHANGED <<dinode, dir, busyRemoved, lost>>

\* With dp locked: ip is locked, filled in and entered into dp, or given back.
create_new(p) ==
    LET r == proc[p]
        isdir == Type(r.call.op) = "dir"
        t == SetLinks(Locked(r.ip, p), r.ip, 1)
        u == SubdirLinks(t, r.dp, isdir, 1)
        f == SetLinks(t, r.ip, 0)
    IN  /\ At(p, "create_new") /\ Unlocked(r.ip)
        /\ \/ /\ dinode' = iupdate(u, {r.ip, r.dp})
              /\ dir' = dirlink(IF isdir THEN dirlink(dirlink(dir, r.ip, ".", r.ip), r.ip, "..", r.dp)
                                ELSE dir, r.dp, Head(r.path), r.ip)
              /\ PutAndGo(p, u, [r EXCEPT !.dp = 0], <<r.dp>>, "create_end")
           \/ /\ TRUE \in DiskFull
              /\ dinode' = iupdate(f, {r.ip})
              /\ PutAndGo(p, f, [r EXCEPT !.ip = 0, !.dp = 0], <<r.ip, r.dp>>, "user")
              /\ UNCHANGED dir
        /\ UNCHANGED <<busyRemoved, lost>>

create_end(p) ==
    /\ At(p, "create_end")
    /\ IF proc[p].call.op = "mkdir"
       THEN PutAndGo(p, itable, [proc[p] EXCEPT !.ip = 0], <<proc[p].ip>>, "user")
       ELSE Opened(p, itable, proc[p])
    /\ UNCHANGED <<dinode, dir, busyRemoved, lost>>

-----------------------------------------------------------------------------
(* sys_link *)

\* After namei(old): one more link, then nameiparent(new).
sys_link(p) ==
    LET r == proc[p]
        t == Locked(r.ip, p)
        u == SetLinks(t, r.ip, t[r.ip].nlink + 1)
    IN  /\ At(p, "link") /\ r.old = 0 /\ Unlocked(r.ip)
        /\ \/ /\ t[r.ip].type = "dir"
              /\ PutAndGo(p, t, [r EXCEPT !.ip = 0], <<r.ip>>, "user")
              /\ UNCHANGED dinode
           \/ /\ t[r.ip].type # "dir"
              /\ dinode' = iupdate(u, {r.ip})
              /\ Start(p, [r EXCEPT !.old = r.ip], iunlock(u, r.ip, p), r.call.new)
        /\ UNCHANGED <<dir, busyRemoved, lost>>

\* dirlink fails if the name is there (the reference it takes is dropped again).
link_enter(p) ==
    LET r == proc[p]
        t == Locked(r.dp, p)
        name == Head(r.path)
    IN  /\ At(p, "link") /\ r.old # 0 /\ Unlocked(r.dp)
        /\ \/ /\ dirlookup(r.dp, name) = 0
              /\ dir' = dirlink(dir, r.dp, name, r.old)
              /\ PutAndGo(p, t, [r EXCEPT !.dp = 0, !.old = 0], <<r.dp, r.old>>, "user")
           \/ /\ dirlookup(r.dp, name) # 0 \/ TRUE \in DiskFull
              /\ PutAndGo(p, t, [r EXCEPT !.dp = 0], <<r.dp>>, "link_bad")
              /\ UNCHANGED dir
        /\ UNCHANGED <<dinode, busyRemoved, lost>>

link_bad(p) ==
    LET r == proc[p]
        t == Locked(r.old, p)
        u == SetLinks(t, r.old, t[r.old].nlink - 1)
    IN  /\ At(p, "link_bad") /\ Unlocked(r.old)
        /\ dinode' = iupdate(u, {r.old})
        /\ PutAndGo(p, u, [r EXCEPT !.old = 0], <<r.old>>, "user")
        /\ UNCHANGED <<dir, busyRemoved, lost>>

-----------------------------------------------------------------------------
(* sys_unlink *)

\* Mutant: only ".." is refused.
CannotUnlink_parent(name) == name = ".."

CannotUnlink(name) == name \in {".", ".."}

sys_unlink(p) ==
    LET r == proc[p]
        t == Locked(r.dp, p)
        name == Head(r.path)
        found == dirlookup(r.dp, name)
    IN  /\ At(p, "unlink") /\ Unlocked(r.dp)
        /\ \/ /\ CannotUnlink(name) \/ found = 0
              /\ PutAndGo(p, t, [r EXCEPT !.dp = 0], <<r.dp>>, "user")
           \/ /\ ~CannotUnlink(name) /\ found # 0
              /\ itable' = iget(t, found)
              /\ proc' = [proc EXCEPT ![p].pc = "unlink_entry", ![p].ip = found]
        /\ UNCHANGED <<dinode, dir, busyRemoved, lost>>

isdirempty(i) == \A n \in Names : dir[i][n] = 0

unlink_entry(p) ==
    LET r == proc[p]
        t == Locked(r.ip, p)
        isdir == t[r.ip].type = "dir"
        u == SubdirLinks(t, r.dp, isdir, -1)
    IN  /\ At(p, "unlink_entry") /\ Unlocked(r.ip)
        /\ \/ /\ isdir /\ ~isdirempty(r.ip)
              /\ PutAndGo(p, t, [r EXCEPT !.ip = 0, !.dp = 0], <<r.ip, r.dp>>, "user")
              /\ UNCHANGED <<dinode, dir, busyRemoved>>
           \/ /\ ~(isdir /\ ~isdirempty(r.ip))
              /\ dir' = [dir EXCEPT ![r.dp][Head(r.path)] = 0]
              /\ dinode' = iupdate(u, {r.dp})
              /\ PutAndGo(p, u, [r EXCEPT !.dp = 0], <<r.dp>>, "unlink_inode")
              /\ busyRemoved' = (busyRemoved \/ (isdir /\ itable[r.ip].ref > 1))
        /\ UNCHANGED lost

unlink_inode(p) ==
    LET r == proc[p]
        u == SetLinks(itable, r.ip, itable[r.ip].nlink - 1)
    IN  /\ At(p, "unlink_inode")
        /\ dinode' = iupdate(u, {r.ip})
        /\ PutAndGo(p, u, [r EXCEPT !.ip = 0], <<r.ip>>, "user")
        /\ UNCHANGED <<dir, busyRemoved, lost>>

-----------------------------------------------------------------------------
Next ==
    \E p \in Procs :
        \/ syscall(p) \/ namex(p) \/ iput(p) \/ iput_free(p) \/ iput_drop(p)
        \/ sys_open(p) \/ sys_chdir(p)
        \/ create(p) \/ create_found(p) \/ ialloc_iget(p) \/ create_new(p) \/ create_end(p)
        \/ sys_link(p) \/ link_enter(p) \/ link_bad(p)
        \/ sys_unlink(p) \/ unlink_entry(p) \/ unlink_inode(p)

Spec == Init /\ [][Next]_vars

-----------------------------------------------------------------------------
(* Properties *)

Pointers(p) ==
    LET r == proc[p]
    IN  {r.cwd, r.fd, r.ip, r.dp, r.old} \cup {r.puts[k] : k \in DOMAIN r.puts}

\* Links that a call has counted and not entered yet, or removed and not uncounted yet.
Pending(i) ==
    Cardinality({p \in Procs : proc[p].old = i})
    + Cardinality({p \in Procs : proc[p].ip = i
                                 /\ "unlink_inode" \in {proc[p].pc, proc[p].then}})

\* The link count of every inode, on disk and in a valid copy, is the number of
\* directory entries for it, a subdirectory's ".." included and "." not, plus the
\* links that a sys_link or sys_unlink in progress has still to enter or uncount.
\* So unlink() never meets nlink < 1, and an inode that still has a name is not freed.
LinksExact ==
    \A i \in Inums :
        LET names == {e \in Inums \X Names : dir[e[1]][e[2]] = i}
            subdirs == {n \in Names : dir[i][n] # 0 /\ dinode[dir[i][n]].type = "dir"}
        IN  /\ dinode[i].nlink = Cardinality(names) + Cardinality(subdirs) + Pending(i)
                                 + (IF i = ROOTINO THEN 1 ELSE 0)
            /\ itable[i].valid => /\ itable[i].nlink = dinode[i].nlink
                                  /\ itable[i].type = dinode[i].type

\* A directory that can be reached by a name.
Named(d) == d = ROOTINO \/ \E e \in Inums, n \in Names : dir[e][n] = d

\* No directory entry and no pointer of a process leads to a free inode, whatever
\* iput(), ialloc(), link() and unlink() do at the same time: ilock() never reads
\* type 0 (its panic "ilock: no type").  Only iput() itself keeps its reference
\* for a moment after it has freed the inode, and only the ".." of a directory that
\* sys_unlink has taken out of its parent, which nobody can reach any more, may
\* outlive that parent.
NoDangling ==
    /\ \A d \in Inums, n \in Elems :
          dir[d][n] # 0 => /\ dinode[d].type = "dir"
                           /\ \/ dinode[dir[d][n]].type # "none"
                              \/ n = ".." /\ ~Named(d)
    /\ \A p \in Procs : \A i \in Pointers(p) \ {0} :
          \/ dinode[i].type # "none"
          \/ proc[p].pc = "iput_drop" /\ i = Head(proc[p].puts)

\* An allocated inode has a name, or somebody refers to it and will free it:
\* no failed create() or link() leaks an inode.  One race of iput() with ialloc()
\* does: an inode that is reused between iput()'s two critical sections, and loses
\* its last link in that time, is dropped by `ip->ref--` without being freed (lost).
Reclaimed ==
    \A i \in Inums :
        dinode[i].type # "none" =>
            \/ dinode[i].nlink > 0
            \/ \E p \in Procs : i \in Pointers(p)
            \/ i \in lost

\* The inode that p waits to lock, 0 if it does not wait.
Wants(p) ==
    LET r == proc[p]
    IN  CASE r.pc \in {"open", "chdir", "create_found", "create_new", "unlink_entry"} -> r.ip
          [] r.pc \in {"create", "mkdir", "unlink"} -> r.dp
          [] r.pc = "link" -> IF r.old = 0 THEN r.ip ELSE r.dp
          [] r.pc = "link_bad" -> r.old
          [] r.pc = "namex" /\ r.path # <<>> -> r.ip
          [] OTHER -> 0

\* Processes that lock a directory and an entry of it never wait for each other in
\* a circle or for themselves, and, as the comment in iput() says, the lock that
\* iput() acquires with itable.lock held is free.
NoLockCycle ==
    /\ \A S \in SUBSET Procs \ {{}} :
          \E p \in S : \/ Wants(p) = 0
                       \/ itable[Wants(p)].lock \notin S
    /\ \A p \in Procs :
          At(p, "iput") /\ LastRef(Head(proc[p].puts)) => Unlocked(Head(proc[p].puts))

\* The run does not follow what happens after a directory in use was removed.
NotBusy == ~busyRemoved
=============================================================================
