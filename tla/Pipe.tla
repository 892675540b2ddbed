-------------------------------- MODULE Pipe --------------------------------
(***************************************************************************)
(* Pipes (kernel/pipe.c) with the file table (file.c), the descriptor      *)
(* tables of processes and the system calls on them (sysfile.c), and what  *)
(* fork, exit, kill and the traps of proc.c and trap.c do to them.         *)
(*                                                                         *)
(* A critical section of ftable.lock or of a pipe's lock is one action:    *)
(* pipewrite and piperead run from acquire, or from the end of a sleep, to *)
(* the next sleep or the return.  Interrupts are off inside, so that on    *)
(* the one CPU of the Makefile kill() cannot come between.                 *)
(***************************************************************************)
EXTENDS Naturals, Sequences, SequencesExt, FiniteSets, FiniteSetsExt

CONSTANTS
    Proc, Bytes, Empty,
    NOFILE, NFILE, \* descriptors of a process; entries of the file table
    NPIPE,         \* pages that kalloc has for pipes
    PIPESIZE,
    WRAP,          \* nread and nwrite count modulo WRAP: 2^32
    Sizes          \* bound: how many bytes a call asks for

ASSUME PipeConstants ==
    /\ Empty \notin Bytes
    /\ NFILE \in Nat /\ NOFILE \in Nat /\ NPIPE \in Nat \ {0}
    /\ PIPESIZE \in Nat \ {0} /\ WRAP \in Nat
    /\ WRAP % PIPESIZE = 0 /\ WRAP > PIPESIZE
    /\ Sizes \subseteq Nat

Files == 1 .. NFILE
Pipes == 1 .. NPIPE

VARIABLES
    ofile,    \* ofile[p][f]: how many descriptors of p are for file f
    file,     \* file[f]: ref, type, pipe, writable
    pipe,     \* pipe[i]: data, nread, nwrite, readopen, writeopen; NoPage if free
    pc,       \* what p does: unused, user, in sys_pipe, closing, read or write
    arg,      \* its system call: the pipe, the bytes that are left, their value
    todo,     \* the files that p has still to close
    asleep,
    killed,
    panicked

vars == <<ofile, file, pipe, pc, arg, todo, asleep, killed, panicked>>

Unused == [ref |-> 0, type |-> "NONE", pipe |-> 0, writable |-> FALSE]
NoPage == [data |-> <<>>]
NoCall == [n |-> 0]

Count(i) == (pipe[i].nwrite - pipe[i].nread + WRAP) % WRAP
Spare(p) == NOFILE - SumFunction(ofile[p])

\* wakeup(): everybody who sleeps in that call on the pipe.
Woken(call, i) == [p \in Proc |->
    asleep[p] /\ ~(pc[p] = call /\ arg[p].pipe = i)]

Init ==
    /\ ofile = [p \in Proc |-> [f \in Files |-> 0]]
    /\ file = [f \in Files |-> Unused]
    /\ pipe = [i \in Pipes |-> NoPage]
    /\ \E first \in Proc :
          pc = [p \in Proc |-> IF p = first THEN "user" ELSE "unused"]
    /\ arg = [p \in Proc |-> NoCall]
    /\ todo = [p \in Proc |-> <<>>]
    /\ asleep = [p \in Proc |-> FALSE]
    /\ killed = [p \in Proc |-> FALSE]
    /\ panicked = FALSE

Runs(p, at) == ~panicked /\ pc[p] = at /\ ~asleep[p]
At(p, there) == pc' = [pc EXCEPT ![p] = there]

-----------------------------------------------------------------------------
(* Making pipes. *)

\* filealloc: the first entry without references.
FileAlloc == LET Free == {f \in Files : file[f].ref = 0}
             IN  IF Free = {} THEN 0 ELSE Min(Free)

\* sys_pipe, pipealloc: two entries of the file table, one after the other.
\* Files that p has so far are in todo: that is what it closes when it fails.
TakeFile(p) ==
    /\ IF FileAlloc = 0 THEN At(p, "close") /\ UNCHANGED <<file, todo>>
       ELSE /\ file' = [file EXCEPT ![FileAlloc].ref = 1]
            /\ todo' = [todo EXCEPT ![p] = Append(@, FileAlloc)]
            /\ At(p, "alloc")
    /\ UNCHANGED <<ofile, pipe, arg, asleep, killed, panicked>>

SysPipe(p)  == Runs(p, "user") /\ ~killed[p] /\ TakeFile(p)
PipeFile(p) == Runs(p, "alloc") /\ Len(todo[p]) = 1 /\ TakeFile(p)

\* The page, and then the descriptors; the copyout of their numbers may fail.
PipeInit(p) ==
    LET r == todo[p][1]
        w == todo[p][2]
        Free == {i \in Pipes : pipe[i] = NoPage}
        i == Min(Free)
        Entry(end) == [ref |-> 1, type |-> "PIPE", pipe |-> i, writable |-> end]
    IN  /\ Runs(p, "alloc") /\ Len(todo[p]) = 2
        /\ IF Free = {} THEN At(p, "close") /\ UNCHANGED <<pipe, file, ofile, todo>>
           ELSE /\ pipe' = [pipe EXCEPT ![i] =
                       [data |-> [j \in 0 .. PIPESIZE - 1 |-> Empty], nread |-> 0,
                        nwrite |-> 0, readopen |-> TRUE, writeopen |-> TRUE]]
                /\ file' = [file EXCEPT ![r] = Entry(FALSE), ![w] = Entry(TRUE)]
                /\ \/ /\ Spare(p) >= 2
                      /\ ofile' = [ofile EXCEPT ![p][r] = 1, ![p][w] = 1]
                      /\ todo' = [todo EXCEPT ![p] = <<>>]
                      /\ At(p, "user")
                   \/ At(p, "close") /\ UNCHANGED <<ofile, todo>>
        /\ UNCHANGED <<arg, asleep, killed, panicked>>

-----------------------------------------------------------------------------
(* Sharing files, and closing them. *)

SysDup(p, f) ==
    /\ Runs(p, "user") /\ ~killed[p] /\ ofile[p][f] > 0 /\ Spare(p) > 0
    /\ panicked' = (file[f].ref < 1)
    /\ ofile' = [ofile EXCEPT ![p][f] = @ + 1]
    /\ file' = [file EXCEPT ![f].ref = @ + 1]
    /\ UNCHANGED <<pipe, pc, arg, todo, asleep, killed>>

\* Mutant: fork copies the descriptors without filedup.
ForkWithoutDup(p, q) ==
    /\ Runs(p, "user") /\ ~killed[p] /\ pc[q] = "unused"
    /\ ofile' = [ofile EXCEPT ![q] = ofile[p]]
    /\ At(q, "user")
    /\ UNCHANGED <<file, pipe, arg, todo, asleep, killed, panicked>>

\* fork: the child has the parent's descriptors.
Fork(p, q) ==
    /\ Runs(p, "user") /\ ~killed[p] /\ pc[q] = "unused"
    /\ panicked' = (\E f \in Files : ofile[p][f] > 0 /\ file[f].ref < 1)
    /\ file' = [f \in Files |-> [file[f] EXCEPT !.ref = @ + ofile[p][f]]]
    /\ ofile' = [ofile EXCEPT ![q] = ofile[p]]
    /\ At(q, "user")
    /\ UNCHANGED <<pipe, arg, todo, asleep, killed>>

SysClose(p, f) ==
    /\ Runs(p, "user") /\ ~killed[p] /\ ofile[p][f] > 0
    /\ ofile' = [ofile EXCEPT ![p][f] = @ - 1]
    /\ todo' = [todo EXCEPT ![p] = <<f>>]
    /\ At(p, "close")
    /\ UNCHANGED <<file, pipe, arg, asleep, killed, panicked>>

\* exit, which a killed process calls when it traps or a system call ends.
Exit(p) ==
    /\ Runs(p, "user")
    /\ At(p, "exit")
    /\ UNCHANGED <<ofile, file, pipe, arg, todo, asleep, killed, panicked>>

\* fileclose under ftable.lock; the last reference leaves its pipe to close.
\* exit closes one descriptor after the other.
FileClose(p, f) ==
    LET last == file[f].ref = 1
        left == [file[f] EXCEPT !.ref = file[f].ref - 1]
    IN
    /\ ~panicked /\ arg[p] = NoCall
    /\ \/ /\ pc[p] = "close" /\ todo[p] # <<>> /\ f = Head(todo[p])
          /\ todo' = [todo EXCEPT ![p] = Tail(@)] /\ UNCHANGED ofile
       \/ /\ pc[p] = "exit" /\ ofile[p][f] > 0
          /\ ofile' = [ofile EXCEPT ![p][f] = @ - 1] /\ UNCHANGED todo
    /\ panicked' = (file[f].ref < 1)
    /\ file' = [file EXCEPT ![f] = IF last THEN Unused ELSE left]
    /\ arg' = IF last /\ file[f].type = "PIPE"
              THEN [arg EXCEPT ![p] = [n |-> 0, pipe |-> file[f].pipe,
                                       writable |-> file[f].writable]]
              ELSE arg
    /\ UNCHANGED <<pipe, pc, asleep, killed>>

\* Mutant: pipeclose wakes the sleepers of the end that is closed.
PipeCloseWakesOwn(p) ==
    LET i == arg[p].pipe
        w == arg[p].writable
        left == [pipe[i] EXCEPT !.readopen = @ /\ w, !.writeopen = @ /\ ~w]
    IN  /\ ~panicked /\ pc[p] \in {"close", "exit"} /\ arg[p] # NoCall
        /\ asleep' = Woken(IF w THEN "write" ELSE "read", i)
        /\ pipe' = [pipe EXCEPT ![i] =
               IF left.readopen \/ left.writeopen THEN left ELSE NoPage]
        /\ arg' = [arg EXCEPT ![p] = NoCall]
        /\ UNCHANGED <<ofile, file, pc, todo, killed, panicked>>

\* pipeclose: who sleeps at the other end wakes up, the last end frees the page.
PipeClose(p) ==
    LET i == arg[p].pipe
        w == arg[p].writable
        left == [pipe[i] EXCEPT !.readopen = @ /\ w, !.writeopen = @ /\ ~w]
    IN  /\ ~panicked /\ pc[p] \in {"close", "exit"} /\ arg[p] # NoCall
        /\ asleep' = Woken(IF w THEN "read" ELSE "write", i)
        /\ pipe' = [pipe EXCEPT ![i] =
               IF left.readopen \/ left.writeopen THEN left ELSE NoPage]
        /\ arg' = [arg EXCEPT ![p] = NoCall]
        /\ UNCHANGED <<ofile, file, pc, todo, killed, panicked>>

\* The system call returns, or the process is gone: wait makes the slot free.
Closed(p) ==
    /\ ~panicked /\ arg[p] = NoCall
    /\ \/ pc[p] = "close" /\ todo[p] = <<>>
       \/ pc[p] = "exit" /\ \A f \in Files : ofile[p][f] = 0
    /\ At(p, IF pc[p] = "exit" THEN "unused" ELSE "user")
    /\ killed' = [killed EXCEPT ![p] = @ /\ pc[p] # "exit"]
    /\ UNCHANGED <<ofile, file, pipe, arg, todo, asleep, panicked>>

-----------------------------------------------------------------------------
(* Reading and writing. *)

\* sys_read and sys_write, fileread and filewrite up to the pipe's lock.
Call(p, f, n, v) ==
    /\ Runs(p, "user") /\ ~killed[p] /\ ofile[p][f] > 0
    /\ At(p, IF file[f].writable THEN "write" ELSE "read")
    /\ arg' = [arg EXCEPT ![p] = [pipe |-> file[f].pipe, n |-> n,
                                   byte |-> IF file[f].writable THEN v ELSE Empty]]
    /\ UNCHANGED <<ofile, file, pipe, todo, asleep, killed, panicked>>

Return(p) == At(p, "user") /\ arg' = [arg EXCEPT ![p] = NoCall]

\* The pipe after k bytes v, and after k bytes are read; those are forgotten.
Put(data, from, k, v) == [j \in 0 .. PIPESIZE - 1 |->
    IF (j - from + WRAP) % PIPESIZE < k THEN v ELSE data[j]]

\* Mutant: pipewrite stores at ++nwrite, not at nwrite++.
FilledFromNext(r, k, v) ==
    [r EXCEPT !.nwrite = (r.nwrite + k) % WRAP,
              !.data   = Put(r.data, r.nwrite + 1, k, v)]

Filled(r, k, v) == [r EXCEPT !.nwrite = (r.nwrite + k) % WRAP,
                             !.data   = Put(r.data, r.nwrite, k, v)]
Drained(r, k)   == [r EXCEPT !.nread  = (r.nread + k) % WRAP,
                             !.data   = Put(r.data, r.nread, k, Empty)]

\* pipewrite.  It fails on a closed pipe and when killed; it fills the pipe,
\* wakes readers and sleeps when more is left; copyin may fail on the way.
PipeWrite(p) ==
    LET i    == arg[p].pipe
        room == PIPESIZE - Count(i)
    IN  /\ Runs(p, "write")
        /\ IF ~pipe[i].readopen \/ killed[p]
           THEN Return(p) /\ UNCHANGED <<pipe, asleep>>
           ELSE \/ /\ arg[p].n > room
                   /\ pipe' = [pipe EXCEPT ![i] = Filled(pipe[i], room, arg[p].byte)]
                   /\ arg' = [arg EXCEPT ![p].n = @ - room]
                   /\ asleep' = [Woken("read", i) EXCEPT ![p] = TRUE]
                   /\ UNCHANGED pc
                \/ \E k \in 0 .. Min({arg[p].n, room}) :
                   /\ pipe' = [pipe EXCEPT ![i] = Filled(pipe[i], k, arg[p].byte)]
                   /\ asleep' = Woken("read", i)
                   /\ k < room \/ k = arg[p].n
                   /\ Return(p)
        /\ UNCHANGED <<ofile, file, todo, killed, panicked>>

\* piperead.  It sleeps while the pipe is empty and somebody can write, and
\* otherwise takes what is there; a byte for which copyout fails is lost.
PipeRead(p) ==
    LET i == arg[p].pipe IN
    /\ Runs(p, "read")
    /\ IF Count(i) = 0 /\ pipe[i].writeopen
       THEN /\ UNCHANGED pipe
            /\ IF killed[p] THEN Return(p) /\ UNCHANGED asleep
               ELSE asleep' = [asleep EXCEPT ![p] = TRUE] /\ UNCHANGED <<pc, arg>>
       ELSE \E k \in 0 .. Min({arg[p].n, Count(i)}) :
            /\ k = 0 => Count(i) = 0
            /\ pipe' = [pipe EXCEPT ![i] = Drained(pipe[i], k)]
            /\ asleep' = Woken("write", i)
            /\ Return(p)
    /\ UNCHANGED <<ofile, file, todo, killed, panicked>>

\* kill(), from another process or from the console.
Kill(p) ==
    /\ ~panicked /\ pc[p] \notin {"unused", "exit"}
    /\ killed' = [killed EXCEPT ![p] = TRUE]
    /\ asleep' = [asleep EXCEPT ![p] = FALSE]
    /\ UNCHANGED <<ofile, file, pipe, pc, arg, todo, panicked>>

User(p) == \/ SysPipe(p)
           \/ \E f \in Files : SysDup(p, f) \/ SysClose(p, f)
           \/ \E q \in Proc : Fork(p, q)
           \/ \E f \in Files, n \in Sizes, v \in Bytes : Call(p, f, n, v)
Kernel(p) == \/ PipeFile(p) \/ PipeInit(p)
             \/ (\E f \in Files : FileClose(p, f)) \/ PipeClose(p) \/ Closed(p)
             \/ PipeWrite(p) \/ PipeRead(p)

Next == \E p \in Proc : User(p) \/ Kernel(p) \/ Exit(p) \/ Kill(p)

Spec == Init /\ [][Next]_vars

-----------------------------------------------------------------------------
\* Nobody has a file or a pipe that is gone, and none is left over: a file has
\* as many references as descriptor tables and calls hold, an end of a pipe is
\* open as long as a file for it is, or is just being closed (file.c:71 drops
\* the file before the pipe), and the page is there as long as an end is.
Fds(f)    == UNION {{p} \X (1 .. ofile[p][f]) : p \in Proc}
InCall(f) == {p \in Proc : f \in ToSet(todo[p])}
Ends(i, w) ==
    {f \in Files : file[f].type = "PIPE" /\ file[f].pipe = i /\ file[f].writable = w}
Closing(i, w) == {p \in Proc : pc[p] \in {"close", "exit"} /\ arg[p] # NoCall
                               /\ arg[p].pipe = i /\ arg[p].writable = w}
NothingDangles ==
    /\ ~panicked
    /\ \A f \in Files : file[f].ref = Cardinality(Fds(f)) + Cardinality(InCall(f))
    /\ \A i \in Pipes :
          /\ Cardinality(Ends(i, TRUE) \cup Closing(i, TRUE))
             = (IF pipe[i] # NoPage /\ pipe[i].writeopen THEN 1 ELSE 0)
          /\ Cardinality(Ends(i, FALSE) \cup Closing(i, FALSE))
             = (IF pipe[i] # NoPage /\ pipe[i].readopen THEN 1 ELSE 0)
    /\ \A p \in Proc : pc[p] \in {"read", "write"} => Ends(arg[p].pipe, pc[p] = "write") # {}

\* Nobody sleeps on a pipe without a reason: bytes, room, the other end's
\* closing and kill() have all woken who waits for them.
SleeperHasReason ==
    \A p \in Proc : asleep[p] =>
        /\ ~killed[p]
        /\ \/ pc[p] = "read"  /\ Count(arg[p].pipe) = 0 /\ pipe[arg[p].pipe].writeopen
           \/ pc[p] = "write" /\ Count(arg[p].pipe) = PIPESIZE
                              /\ pipe[arg[p].pipe].readopen

\* A pipe is a queue, whoever reads, writes, shares and closes it.
Queue(i) == IF pipe[i] = NoPage THEN <<>>
            ELSE [j \in 1 .. Count(i) |-> pipe[i].data[(pipe[i].nread + j - 1) % PIPESIZE]]
One == INSTANCE ByteQueue WITH
    queue     <- Queue(1),
    readopen  <- pipe[1] # NoPage /\ pipe[1].readopen,
    writeopen <- pipe[1] # NoPage /\ pipe[1].writeopen
PipeIsQueue == One!Spec
=============================================================================
