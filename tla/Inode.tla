-------------------------------- MODULE Inode --------------------------------
(***************************************************************************)
(* Inodes, directories and path names (kernel/fs.c), and the system calls  *)
(* that name, open, write and remove files (sysfile.c, file.c).            *)
(*                                                                         *)
(* What a process does from ilock to iunlock is one action where it waits  *)
(* for no other lock; a lock that is kept while the process waits for      *)
(* another one is explicit, and iput is taken apart, because it frees an   *)
(* inode outside itable.lock.  dino is the disk as transactions leave it   *)
(* (module Log).  "." and ".." are only counted, in nlink.                 *)
(***************************************************************************)
EXTENDS Integers, Sequences, SequencesExt, FiniteSets, FiniteSetsExt, Functions

CONSTANTS
    Proc, Nobody, Names,
    Calls,       \* the system calls with paths that processes make
    NINODES,     \* inodes on the disk
    NINODE,      \* entries of the inode table
    Blocks,      \* data blocks of files, at most one for each
    MaxFds,      \* bound on open files of a process
    DiskFull,    \* may dirlink fail for want of a block?
    MayFill,     \* may the inode table be full, when iget panics?
    RmdirBusy    \* may a directory be removed on which another path lookup is?

ASSUME InodeConstants ==
    /\ NINODES \in Nat \ {0} /\ NINODE \in Nat \ {0}
    /\ IsFiniteSet(Proc) /\ Nobody \notin Proc
    /\ IsFiniteSet(Names) /\ Blocks \subseteq Nat
    /\ \A c \in Calls : /\ c.op \in {"open", "create", "mkdir", "unlink", "link"}
                        /\ c.path \in Seq(Names) \ {<<>>} /\ c.new \in Seq(Names)
                        /\ c.op = "link" => c.new # <<>>

Inums == 1 .. NINODES
Slots == 1 .. NINODE
ROOTINO == 1

VARIABLES
    dino,     \* dino[i] on disk: type, nlink, addrs, and a directory's entries
    it,       \* it[s] in memory: inum, ref, valid, and a copy of the above
    lock,     \* who has the sleep lock of it[s]
    bitmap,   \* the blocks in use
    pc,       \* where p is
    call,     \* its system call: op, ip, dp, the rest of the path, new path
    todo,     \* the inodes that p has to iput, before it goes on to next[p]
    next,
    fds,      \* fds[p]: the inodes of its open files
    panicked

disk == <<dino, bitmap>>
vars == <<disk, it, lock, pc, call, todo, next, fds, panicked>>

NoEntries == [n \in Names |-> 0]
FreeInode == [type |-> "NONE", nlink |-> 0, addrs |-> {}, ents |-> NoEntries]
NoInode   == [inum |-> 0, ref |-> 0, valid |-> FALSE, type |-> "NONE", nlink |-> 0,
              addrs |-> {}]
NoCall    == [op |-> "none", ip |-> 0, dp |-> 0, path |-> <<>>, new |-> <<>>]

Init ==
    /\ dino = [i \in Inums |-> IF i # ROOTINO THEN FreeInode
                               ELSE [FreeInode EXCEPT !.type = "DIR", !.nlink = 1]]
    /\ it = [s \in Slots |-> NoInode]
    /\ lock = [s \in Slots |-> Nobody]
    /\ bitmap = {}
    /\ pc = [p \in Proc |-> "user"] /\ next = [p \in Proc |-> "user"]
    /\ call = [p \in Proc |-> NoCall]
    /\ todo = [p \in Proc |-> <<>>]
    /\ fds = [p \in Proc |-> {}]
    /\ panicked = FALSE

-----------------------------------------------------------------------------
(* The inode table, as functions of the table t. *)

\* iget: the entry that has the inode, or else the first that is empty.
Has(t, i)  == {s \in Slots : t[s].ref > 0 /\ t[s].inum = i}
Slot(t, i) == LET empty == {s \in Slots : t[s].ref = 0} IN
    IF Has(t, i) # {} THEN Min(Has(t, i)) ELSE IF empty # {} THEN Min(empty) ELSE 0
Iget(t, i) == LET s == Slot(t, i) IN
    [t EXCEPT ![s] = IF Has(t, i) # {} THEN [t[s] EXCEPT !.ref = t[s].ref + 1]
                     ELSE [NoInode EXCEPT !.inum = i, !.ref = 1]]

\* iget panics when it finds no entry.
Full(t, i) == Slot(t, i) = 0
Room(t, i) == MayFill \/ ~Full(t, i)

\* ilock, as to the table: what is not valid is read from disk.
Read(e, d)  == [e EXCEPT !.valid = TRUE, !.type = d.type, !.nlink = d.nlink,
                         !.addrs = d.addrs]
Ilock(t, s) == IF t[s].valid THEN t
               ELSE [t EXCEPT ![s] = Read(t[s], dino[t[s].inum])]

\* iupdate: the copy goes to disk.
Stored(d, e)     == [d EXCEPT !.type = e.type, !.nlink = e.nlink, !.addrs = e.addrs]
Iupdate(d, t, s) == [d EXCEPT ![t[s].inum] = Stored(d[t[s].inum], t[s])]

\* The copy of an inode has k links.
WithLinks(t, s, k) == [t EXCEPT ![s] = [t[s] EXCEPT !.nlink = k]]

\* The directory d gets the name n for the inode i, or none for i = 0.
Enter(e, d, n, i) == [e EXCEPT ![d] = [e[d] EXCEPT !.ents = [e[d].ents EXCEPT ![n] = i]]]

\* p is at a step that starts with ilock of s, and gets the lock.
Locks(p, at, s) == ~panicked /\ pc[p] = at /\ lock[s] = Nobody

Goes(p, there) == pc' = [pc EXCEPT ![p] = there] /\ UNCHANGED <<todo, next>>

\* The process has the inodes ss to iput, and continues there.
Puts(p, ss, there) ==
    /\ pc' = [pc EXCEPT ![p] = "put"]
    /\ todo' = [todo EXCEPT ![p] = ss]
    /\ next' = [next EXCEPT ![p] = there]

\* The system call is over but for the inodes ss.
Ends(p, ss) == Puts(p, ss, "user") /\ call' = [call EXCEPT ![p] = NoCall]

-----------------------------------------------------------------------------
(* Path names. *)

\* sys_link goes to bad, without the directory it has in ip.
LinkFails(p) == /\ Puts(p, <<call[p].ip>>, "bad")
                /\ call' = [call EXCEPT ![p].ip = 0]

Parent(op) == op \in {"create", "mkdir", "unlink", "link2"}

\* A system call with a path begins: namex gets the root directory.
Begin(p, c) ==
    /\ ~panicked /\ pc[p] = "user"
    /\ c.op \in {"open", "create"} => Cardinality(fds[p]) < MaxFds
    /\ Room(it, ROOTINO) /\ panicked' = Full(it, ROOTINO)
    /\ it' = Iget(it, ROOTINO)
    /\ call' = [call EXCEPT ![p] = [op |-> c.op, ip |-> Slot(it, ROOTINO), dp |-> 0,
                                    path |-> c.path, new |-> c.new]]
    /\ Goes(p, "walk")
    /\ UNCHANGED <<disk, lock, fds>>

\* One turn of namex; the inode it leaves is put afterwards.
Walk(p) ==
    LET c == call[p]
        s == c.ip
        t == Ilock(it, s)
        i == dino[t[s].inum].ents[Head(c.path)]
        parent == Parent(c.op) /\ Len(c.path) = 1
        fails == t[s].type # "DIR" \/ (~parent /\ i = 0)
    IN  /\ Locks(p, "walk", s)
        /\ \/ /\ fails /\ it' = t
              /\ IF c.op = "link2" THEN LinkFails(p) ELSE Ends(p, <<s>>)
              /\ panicked' = (t[s].type = "NONE")
           \/ /\ ~fails /\ parent /\ it' = t
              /\ Goes(p, c.op) /\ UNCHANGED <<call, panicked>>
           \/ /\ ~fails /\ ~parent /\ Room(t, i) /\ panicked' = Full(t, i)
              /\ it' = Iget(t, i)
              /\ call' = [call EXCEPT ![p].ip = Slot(t, i), ![p].path = Tail(@)]
              /\ Puts(p, <<s>>, IF Len(c.path) = 1 THEN c.op ELSE "walk")
        /\ UNCHANGED <<disk, lock, fds>>

-----------------------------------------------------------------------------
(* iput *)

Dropped(p, s) ==
    /\ it' = [it EXCEPT ![s] = IF it[s].ref = 1 THEN NoInode
                              ELSE [it[s] EXCEPT !.ref = it[s].ref - 1]]
    /\ todo' = [todo EXCEPT ![p] = Tail(@)]
    /\ pc' = [pc EXCEPT ![p] = IF Len(todo[p]) = 1 THEN next[p] ELSE "put"]
    /\ next' = [next EXCEPT ![p] = IF Len(todo[p]) = 1 THEN "user" ELSE @]

\* Mutant: iput does not look at the reference count.
IputWhileOpen(p) ==
    LET s == Head(todo[p])
        t == [it EXCEPT ![s].addrs = {}, ![s].type = "NONE"]
    IN  /\ ~panicked /\ pc[p] = "put"
        /\ IF it[s].valid /\ it[s].nlink = 0
           THEN /\ lock[s] = Nobody
                /\ lock' = [lock EXCEPT ![s] = p]
                /\ bitmap' = bitmap \ it[s].addrs
                /\ it' = t
                /\ dino' = [dino EXCEPT ![it[s].inum] = FreeInode]
                /\ Goes(p, "invalid")
           ELSE Dropped(p, s) /\ UNCHANGED <<disk, lock>>
        /\ UNCHANGED <<call, fds, panicked>>

\* The last reference to an inode without links takes its lock, which must be
\* free: the process would sleep with itable.lock.  Then itrunc gives back the
\* blocks (bfree panics on a free one) and iupdate frees the inode on disk; from
\* here on ialloc may take it, although it is still in the table.
Iput(p) ==
    LET s == Head(todo[p])
        t == [it EXCEPT ![s].addrs = {}, ![s].type = "NONE"]
    IN  /\ ~panicked /\ pc[p] = "put"
        /\ IF it[s].ref = 1 /\ it[s].valid /\ it[s].nlink = 0
           THEN /\ panicked' = (lock[s] # Nobody \/ ~(it[s].addrs \subseteq bitmap))
                /\ lock' = [lock EXCEPT ![s] = p]
                /\ bitmap' = bitmap \ it[s].addrs
                /\ it' = t
                /\ dino' = [dino EXCEPT ![it[s].inum] = FreeInode]
                /\ Goes(p, "invalid")
           ELSE Dropped(p, s) /\ UNCHANGED <<disk, lock, panicked>>
        /\ UNCHANGED <<call, fds>>

\* Mutant: iput leaves the entry valid.
IputStaysValid(p) ==
    /\ ~panicked /\ pc[p] = "invalid"
    /\ lock' = [lock EXCEPT ![Head(todo[p])] = Nobody]
    /\ Goes(p, "drop")
    /\ UNCHANGED <<disk, it, call, fds, panicked>>

IputInvalid(p) ==
    LET s == Head(todo[p]) IN
    /\ ~panicked /\ pc[p] = "invalid"
    /\ it' = [it EXCEPT ![s] = [NoInode EXCEPT !.inum = it[s].inum, !.ref = it[s].ref]]
    /\ lock' = [lock EXCEPT ![s] = Nobody]
    /\ Goes(p, "drop")
    /\ UNCHANGED <<disk, call, fds, panicked>>

IputDrop(p) ==
    /\ ~panicked /\ pc[p] = "drop"
    /\ Dropped(p, Head(todo[p]))
    /\ UNCHANGED <<disk, lock, call, fds, panicked>>

-----------------------------------------------------------------------------
(* open, write, close *)

Opened(p, s) == /\ fds' = [fds EXCEPT ![p] = @ \cup {s}]
                /\ call' = [call EXCEPT ![p] = NoCall]

\* The end of sys_open, with the inode locked and the table t: the file table
\* may be full.
OpenEnd(p, s, t) ==
    /\ it' = t
    /\ \/ s \notin fds[p] /\ Opened(p, s) /\ Goes(p, "user")
       \/ Ends(p, <<s>>) /\ UNCHANGED fds

Open(p) ==
    LET s == call[p].ip IN
    /\ Locks(p, "open", s)
    /\ OpenEnd(p, s, Ilock(it, s))
    /\ panicked' = (Ilock(it, s)[s].type = "NONE")
    /\ UNCHANGED <<disk, lock>>

\* filewrite: writei needs a block, and balloc may have one.  A process that
\* opens the file with O_TRUNC gives it back.
Write(p, s) ==
    LET Free == Blocks \ bitmap
        new  == IF it[s].addrs # {} \/ Free = {} THEN {} ELSE {Min(Free)}
        t    == [it EXCEPT ![s].addrs = @ \cup new]
    IN  /\ Locks(p, "user", s) /\ s \in fds[p] /\ it[s].type = "FILE"
        /\ it' = t /\ dino' = Iupdate(dino, t, s)
        /\ bitmap' = bitmap \cup new
        /\ UNCHANGED <<lock, pc, call, todo, next, fds, panicked>>

Truncate(p, s) ==
    LET t == [it EXCEPT ![s].addrs = {}] IN
    /\ Locks(p, "user", s) /\ s \in fds[p] /\ it[s].type = "FILE"
    /\ panicked' = ~(it[s].addrs \subseteq bitmap)
    /\ bitmap' = bitmap \ it[s].addrs
    /\ it' = t /\ dino' = Iupdate(dino, t, s)
    /\ UNCHANGED <<lock, pc, call, todo, next, fds>>

Close(p, s) ==
    /\ ~panicked /\ pc[p] = "user" /\ s \in fds[p]
    /\ fds' = [fds EXCEPT ![p] = @ \ {s}]
    /\ Puts(p, <<s>>, "user")
    /\ UNCHANGED <<disk, it, lock, call, panicked>>

-----------------------------------------------------------------------------
(* create: sys_open with O_CREATE, and sys_mkdir *)

Type(op) == IF op = "mkdir" THEN "DIR" ELSE "FILE"
Name(p)  == Last(call[p].path)

\* create up to the lock of the inode, which is there or is made by ialloc.
Create(p, op) ==
    LET d == call[p].ip
        t == Ilock(it, d)
        i == dino[t[d].inum].ents[Name(p)]
        Free == {j \in Inums : dino[j].type = "NONE"}
        new == Min(Free)
    IN  /\ Locks(p, op, d) /\ op \in {"create", "mkdir"}
        /\ \/ /\ i # 0 /\ Room(t, i) /\ panicked' = Full(t, i)
              /\ it' = Iget(t, i)
              /\ call' = [call EXCEPT ![p].ip = Slot(t, i)]
              /\ Puts(p, <<d>>, "found")
              /\ UNCHANGED <<dino, lock>>
           \/ /\ i = 0 /\ Free = {}
              /\ it' = t /\ Ends(p, <<d>>)
              /\ UNCHANGED <<dino, lock, panicked>>
           \/ /\ i = 0 /\ Free # {} /\ Room(t, new) /\ panicked' = Full(t, new)
              /\ it' = Iget(t, new)
              /\ dino' = [dino EXCEPT ![new] = [FreeInode EXCEPT !.type = Type(op)]]
              /\ lock' = [lock EXCEPT ![d] = p]
              /\ call' = [call EXCEPT ![p].ip = Slot(t, new), ![p].dp = d]
              /\ Goes(p, "fresh")
        /\ UNCHANGED <<bitmap, fds>>

CreateFound(p) ==
    LET s == call[p].ip
        t == Ilock(it, s)
    IN  /\ Locks(p, "found", s)
        /\ IF call[p].op = "create" /\ t[s].type = "FILE" THEN OpenEnd(p, s, t)
           ELSE it' = t /\ Ends(p, <<s>>) /\ UNCHANGED fds
        /\ panicked' = (t[s].type = "NONE")
        /\ UNCHANGED <<disk, lock>>

\* The rest of create; ilock of the new inode waits for an iput that has just
\* freed it.  A directory's ".." is a link to its parent.  The file that is made
\* may fail to be opened, as in OpenEnd.
CreateFresh(p) ==
    LET s  == call[p].ip
        d  == call[p].dp
        op == call[p].op
        t1 == WithLinks(Ilock(it, s), s, 1)
        t2 == IF op = "mkdir" THEN WithLinks(t1, d, t1[d].nlink + 1) ELSE t1
        t0 == WithLinks(t1, s, 0)
    IN  /\ Locks(p, "fresh", s)
        /\ \/ /\ dino' = Enter(Iupdate(Iupdate(dino, t2, s), t2, d),
                              it[d].inum, Name(p), it[s].inum)
              /\ it' = t2
              /\ \/ op = "create" /\ Opened(p, s) /\ Puts(p, <<d>>, "user")
                 \/ Ends(p, <<d, s>>) /\ UNCHANGED fds
           \/ /\ DiskFull
              /\ dino' = Iupdate(dino, t0, s) /\ it' = t0
              /\ Ends(p, <<s, d>>) /\ UNCHANGED fds
        /\ lock' = [lock EXCEPT ![d] = Nobody]
        /\ panicked' = (t1[s].type = "NONE")
        /\ UNCHANGED bitmap

-----------------------------------------------------------------------------
(* unlink and link *)

\* sys_unlink up to the lock of the inode, with the directory locked.
Unlink(p) ==
    LET d == call[p].ip
        t == Ilock(it, d)
        i == dino[t[d].inum].ents[Name(p)]
        busy == \E q \in Proc \ {p} : call[q].ip \in Has(t, i)
    IN  /\ Locks(p, "unlink", d)
        /\ i # 0 /\ busy /\ dino[i].type = "DIR" => RmdirBusy
        /\ \/ /\ i = 0 /\ it' = t
              /\ Ends(p, <<d>>) /\ UNCHANGED <<lock, panicked>>
           \/ /\ i # 0 /\ Room(t, i) /\ panicked' = Full(t, i)
              /\ it' = Iget(t, i)
              /\ lock' = [lock EXCEPT ![d] = p]
              /\ call' = [call EXCEPT ![p].ip = Slot(t, i), ![p].dp = d]
              /\ Goes(p, "remove")
        /\ UNCHANGED <<disk, fds>>

UnlinkRemove(p) ==
    LET s   == call[p].ip
        d   == call[p].dp
        t   == Ilock(it, s)
        dir == t[s].type = "DIR"
        t1  == WithLinks(t, s, t[s].nlink - 1)
        t2  == IF dir THEN WithLinks(t1, d, t1[d].nlink - 1) ELSE t1
        full == dir /\ dino[t[s].inum].ents # NoEntries
    IN  /\ Locks(p, "remove", s)
        /\ panicked' = (t[s].nlink < 1 \/ t[s].type = "NONE")
        /\ \/ /\ full /\ it' = t
              /\ Ends(p, <<s, d>>) /\ UNCHANGED dino
           \/ /\ ~full /\ it' = t2
              /\ dino' = Enter(Iupdate(Iupdate(dino, t2, s), t2, d), it[d].inum, Name(p), 0)
              /\ Ends(p, <<d, s>>)
        /\ lock' = [lock EXCEPT ![d] = Nobody]
        /\ UNCHANGED <<bitmap, fds>>

\* Mutant: sys_link keeps the lock while it looks up the new path.
LinkKeepsLock(p) ==
    LET s == call[p].ip
        t == WithLinks(Ilock(it, s), s, Ilock(it, s)[s].nlink + 1)
    IN  /\ Locks(p, "link", s) /\ t[s].type = "FILE"
        /\ it' = Iget(t, ROOTINO)
        /\ dino' = Iupdate(dino, t, s)
        /\ call' = [call EXCEPT ![p] =
               [op |-> "link2", ip |-> Slot(t, ROOTINO), dp |-> s,
                path |-> call[p].new, new |-> <<>>]]
        /\ lock' = [lock EXCEPT ![s] = p]
        /\ Goes(p, "walk")
        /\ UNCHANGED <<bitmap, fds, panicked>>

\* sys_link: the count goes up before the new path is looked up, ...
Link(p) ==
    LET s == call[p].ip
        t == WithLinks(Ilock(it, s), s, Ilock(it, s)[s].nlink + 1)
    IN  /\ Locks(p, "link", s)
        /\ \/ /\ t[s].type = "DIR" /\ it' = Ilock(it, s)
              /\ Ends(p, <<s>>) /\ UNCHANGED <<dino, panicked>>
           \/ /\ t[s].type # "DIR" /\ Room(t, ROOTINO)
              /\ it' = Iget(t, ROOTINO) /\ dino' = Iupdate(dino, t, s)
              /\ call' = [call EXCEPT ![p] =
                     [op |-> "link2", ip |-> Slot(t, ROOTINO), dp |-> s,
                      path |-> call[p].new, new |-> <<>>]]
              /\ Goes(p, "walk")
              /\ panicked' = (t[s].type = "NONE" \/ Full(t, ROOTINO))
        /\ UNCHANGED <<bitmap, lock, fds>>

\* ... dirlink enters the name unless it is there, ...
LinkName(p) ==
    LET d == call[p].ip
        s == call[p].dp
        t == Ilock(it, d)
        n == Name(p)
    IN  /\ Locks(p, "link2", d)
        /\ it' = t
        /\ \/ /\ dino[t[d].inum].ents[n] = 0
              /\ dino' = Enter(dino, t[d].inum, n, it[s].inum)
              /\ Ends(p, <<d, s>>)
           \/ /\ dino[t[d].inum].ents[n] # 0 \/ DiskFull
              /\ LinkFails(p) /\ UNCHANGED dino
        /\ UNCHANGED <<bitmap, lock, fds, panicked>>

\* ... and the count goes down again when that fails.
LinkBad(p) ==
    LET s == call[p].dp
        t == WithLinks(it, s, it[s].nlink - 1)
    IN  /\ Locks(p, "bad", s)
        /\ it' = t /\ dino' = Iupdate(dino, t, s)
        /\ Ends(p, <<s>>)
        /\ UNCHANGED <<bitmap, lock, fds, panicked>>

-----------------------------------------------------------------------------
User(p) ==
    \/ \E c \in Calls : Begin(p, c)
    \/ \E s \in Slots : Write(p, s) \/ Truncate(p, s) \/ Close(p, s)

Kernel(p) ==
    \/ Walk(p) \/ Open(p)
    \/ Iput(p) \/ IputInvalid(p) \/ IputDrop(p)
    \/ (\E op \in {"create", "mkdir"} : Create(p, op))
    \/ CreateFound(p) \/ CreateFresh(p)
    \/ Unlink(p) \/ UnlinkRemove(p)
    \/ Link(p) \/ LinkName(p) \/ LinkBad(p)

Next == \E p \in Proc : User(p) \/ Kernel(p)

Spec == Init /\ [][Next]_vars

-----------------------------------------------------------------------------
\* The inode table is right: each inode is there once, with as many references
\* as open files and system calls hold, and a valid entry is what is on disk.
\* Only one that iput has freed may differ, when ialloc has taken it already
\* (fs.c:352).
TableAgrees ==
    /\ ~panicked
    /\ \A i \in Inums : Cardinality(Has(it, i)) <= 1
    /\ \A s \in Slots :
          /\ it[s].ref = Cardinality({p \in Proc : s \in fds[p]})
                         + Cardinality({p \in Proc : s \in ToSet(todo[p])})
                         + Cardinality({p \in Proc : call[p].ip = s})
                         + Cardinality({p \in Proc : call[p].dp = s})
          /\ it[s].valid => LET d == dino[it[s].inum] IN
                \/ /\ it[s].type = d.type /\ it[s].nlink = d.nlink
                   /\ it[s].addrs = d.addrs
                \/ \E p \in Proc : lock[s] = p /\ pc[p] = "invalid"

\* Nothing is lost and nothing is used after it is freed: links are counted,
\* those that sys_link has promised (sysfile.c:145) included; an inode with a
\* name or a user is never free, a free one has no blocks; and a block is in use
\* exactly for one inode.  (An inode without name or user may stay allocated:
\* iput drops its reference only after it has given up the lock, fs.c:357.)
Entries(i) == {e \in Inums \X Names : dino[e[1]].ents[e[2]] = i}
SubDirs(i) == {n \in Names : dino[i].ents[n] # 0 /\ dino[dino[i].ents[n]].type = "DIR"}
Promised(i) == {p \in Proc : call[p].op = "link2" /\ it[call[p].dp].inum = i}
NothingLost ==
    /\ \A i \in Inums :
          /\ dino[i].nlink = Cardinality(Entries(i)) + Cardinality(SubDirs(i))
                + Cardinality(Promised(i)) + (IF i = ROOTINO THEN 1 ELSE 0)
          /\ dino[i].type = "NONE" => Entries(i) = {} /\ dino[i].addrs = {}
    /\ \A p \in Proc : \A s \in fds[p] : it[s].valid /\ it[s].type # "NONE"
    /\ bitmap = UNION {dino[i].addrs : i \in Inums}
    /\ \A i, j \in Inums : i # j => dino[i].addrs \cap dino[j].addrs = {}

\* Inode locks are taken from parent to child, so that someone can always go on.
Waits(p) == /\ pc[p] \in {"walk", "open", "create", "mkdir", "found", "fresh", "unlink",
                          "remove", "link", "link2"}
            /\ lock[call[p].ip] # Nobody
NoStandstill == (\E p \in Proc : pc[p] # "user")
                   => \E p \in Proc : pc[p] # "user" /\ ~Waits(p)
=============================================================================
