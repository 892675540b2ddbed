-------------------------------- MODULE Log --------------------------------
(***************************************************************************)
(* The write-ahead log of the xv6 file system (kernel/log.c) over the      *)
(* reference counts of the buffer cache (kernel/bio.c) and a disk that     *)
(* loses power at any instant.                                             *)
(*                                                                         *)
(* Grain: a section of code under log.lock is one step, and so is each     *)
(* synchronous bwrite; between two of them every other process, and a      *)
(* crash, can come in.  commit() runs without log.lock, so it is a chain   *)
(* of steps of the committing process ("phase" and "tail" are its program  *)
(* counter and its loop variable; the boot process uses them to recover).  *)
(***************************************************************************)
EXTENDS Naturals, Sequences, FiniteSets

CONSTANTS
    Proc,         \* processes that make file-system calls
    Block,        \* disk blocks outside the log
    Val,          \* contents of a block
    NotCached,    \* no buffer of the cache holds the block
    MAXOPBLOCKS,  \* param.h: blocks that begin_op reserves for one operation
    LOGSIZE,      \* param.h: capacity of the in-memory header
    NLOG,         \* sb->nlog: blocks of the on-disk log, its header included
    OPBLOCKS      \* the most distinct blocks that one operation does log

ASSUME LogConstants ==
    /\ MAXOPBLOCKS \in Nat \ {0}
    /\ LOGSIZE \in Nat /\ MAXOPBLOCKS <= LOGSIZE
    /\ NLOG \in Nat \ {0}
    /\ OPBLOCKS \in 0 .. MAXOPBLOCKS

ASSUME NotCachedAssumption == NotCached \notin Val

ASSUME FiniteAssumption == IsFiniteSet(Proc) /\ IsFiniteSet(Block)

VARIABLES
    pc,           \* where each process is with respect to its operation
    wrote,        \* the blocks that its current operation has logged
    outstanding,  \* log.outstanding
    committing,   \* log.committing
    lh,           \* log.lh: the block numbers logged since the last commit
    phase,        \* program counter of commit() and of recover_from_log()
    tail,         \* loop variable of write_log() and install_trans(), from 1
    cache,        \* contents of each block's buffer, or NotCached
    pin,          \* references that the log holds on each block's buffer
    disk,         \* home locations on disk
    slot,         \* data blocks of the on-disk log
    hdr,          \* header block of the on-disk log
    panicked      \* a panic() has stopped the kernel

memory == <<pc, wrote, outstanding, committing, lh, phase, tail, cache, pin>>
storage == <<disk, slot, hdr>>
vars == <<memory, storage, panicked>>

Slots == 1 .. NLOG - 1
Contents(s) == {s[i] : i \in DOMAIN s}

Phases == {"boot", "rinstall", "rclear", "run",
           "commit", "wlog", "whead", "install", "clear", "done"}

TypeOK ==
    /\ pc \in [Proc -> {"idle", "begin", "asleep", "active", "commit"}]
    /\ wrote \in [Proc -> SUBSET Block]
    /\ outstanding \in Nat
    /\ committing \in BOOLEAN
    /\ lh \in Seq(Block)
    /\ phase \in Phases
    /\ tail \in Nat \ {0}
    /\ cache \in [Block -> Val \cup {NotCached}]
    /\ pin \in [Block -> Nat]
    /\ disk \in [Block -> Val]
    /\ slot \in [Slots -> Val]
    /\ hdr \in Seq(Block)
    /\ panicked \in BOOLEAN

-----------------------------------------------------------------------------
(* The machine comes up with zeroed memory and an empty log, as mkfs made it. *)

Init ==
    /\ pc = [p \in Proc |-> "idle"]
    /\ wrote = [p \in Proc |-> {}]
    /\ outstanding = 0 /\ committing = FALSE
    /\ lh = <<>> /\ phase = "boot" /\ tail = 1
    /\ cache = [b \in Block |-> NotCached]
    /\ pin = [b \in Block |-> 0]
    /\ disk \in [Block -> Val]
    /\ \E v \in Val : slot = [i \in Slots |-> v]
    /\ hdr = <<>>
    /\ panicked = FALSE

(* What bread() finds: the buffer, or the disk when no buffer has the block. *)
bread(b) == IF cache[b] = NotCached THEN disk[b] ELSE cache[b]

-----------------------------------------------------------------------------
(* begin_op *)

\* A process makes a file-system call.  All of its effect on the log is in
\* begin_op below; this only brings the process to the first acquire.
Call(p) ==
    /\ phase \notin {"boot", "rinstall", "rclear"}
    /\ pc[p] = "idle"
    /\ pc' = [pc EXCEPT ![p] = "begin"]
    /\ UNCHANGED <<wrote, outstanding, committing, lh, phase, tail, cache, pin,
                   storage>>

\* Mutant: the caller's own reservation is left out.
mNoSpaceForgetsSelf ==
    Len(lh) + outstanding * MAXOPBLOCKS > LOGSIZE

\* The reservation test of begin_op: this operation might exhaust the log.
NoSpace ==
    Len(lh) + (outstanding + 1) * MAXOPBLOCKS > LOGSIZE

MustWait == committing \/ NoSpace

\* One turn of the loop of begin_op, under log.lock.
BeginOp(p) ==
    /\ pc[p] = "begin"
    /\ \/ /\ MustWait
          /\ pc' = [pc EXCEPT ![p] = "asleep"]
          /\ UNCHANGED outstanding
       \/ /\ ~MustWait
          /\ outstanding' = outstanding + 1
          /\ pc' = [pc EXCEPT ![p] = "active"]
    /\ UNCHANGED <<wrote, committing, lh, phase, tail, cache, pin, storage>>

-----------------------------------------------------------------------------
(* log_write *)

\* Mutant: no absorption.
mAppendAlways(s, b) == Append(s, b)

\* Log absorption: a block that is in the header already keeps its place.
Absorb(s, b) == IF b \in Contents(s) THEN s ELSE Append(s, b)

LogFull == Len(lh) >= LOGSIZE \/ Len(lh) >= NLOG - 1

\* bpin(b), called only for a block that is new to the header.
Pinned(b) ==
    IF b \in Contents(lh) THEN pin ELSE [pin EXCEPT ![b] = @ + 1]

\* The caller has b's buffer locked, puts v in it and calls log_write.
LogWrite(p, b, v) ==
    /\ pc[p] = "active"
    /\ Cardinality(wrote[p] \cup {b}) <= OPBLOCKS
    /\ ~LogFull /\ outstanding >= 1
    /\ cache' = [cache EXCEPT ![b] = v]
    /\ lh' = Absorb(lh, b)
    /\ pin' = Pinned(b)
    /\ wrote' = [wrote EXCEPT ![p] = @ \cup {b}]
    /\ UNCHANGED <<pc, outstanding, committing, phase, tail, storage>>

\* The two panics of log_write: "too big a transaction" and "outside of trans".
LogWritePanics(p, b) ==
    /\ pc[p] = "active"
    /\ Cardinality(wrote[p] \cup {b}) <= OPBLOCKS
    /\ LogFull \/ outstanding < 1

-----------------------------------------------------------------------------
(* end_op *)

\* Mutant: wakeup on the wrong channel.
mWakeNobody == pc

\* wakeup(&log): every process asleep in begin_op will test again.
Wakeup == [q \in Proc |-> IF pc[q] = "asleep" THEN "begin" ELSE pc[q]]

EndOpPanics(p) == pc[p] = "active" /\ committing

\* Mutant: every end_op commits, whoever else is still writing.
mEndOpCommitsEarly(p) ==
    /\ pc[p] = "active"
    /\ ~committing
    /\ outstanding' = outstanding - 1
    /\ committing' = TRUE
    /\ phase' = "commit"
    /\ pc' = [pc EXCEPT ![p] = "commit"]
    /\ wrote' = [wrote EXCEPT ![p] = {}]
    /\ UNCHANGED <<lh, tail, cache, pin, storage>>

\* The first critical section of end_op: the last operation becomes the
\* committer, any other gives its reservation back and wakes the waiters.
EndOp(p) ==
    /\ pc[p] = "active"
    /\ ~committing
    /\ outstanding' = outstanding - 1
    /\ \/ /\ outstanding = 1
          /\ committing' = TRUE
          /\ phase' = "commit"
          /\ pc' = [pc EXCEPT ![p] = "commit"]
       \/ /\ outstanding # 1
          /\ pc' = [Wakeup EXCEPT ![p] = "idle"]
          /\ UNCHANGED <<committing, phase>>
    /\ wrote' = [wrote EXCEPT ![p] = {}]
    /\ UNCHANGED <<lh, tail, cache, pin, storage>>

\* The last critical section of end_op, after commit() has returned.
EndCommit(p) ==
    /\ pc[p] = "commit" /\ phase = "done"
    /\ committing' = FALSE
    /\ phase' = "run"
    /\ pc' = [Wakeup EXCEPT ![p] = "idle"]
    /\ UNCHANGED <<wrote, outstanding, lh, tail, cache, pin, storage>>

-----------------------------------------------------------------------------
(* commit: the steps of the process that found no other operation open *)

\* Mutant: a transaction of one block is taken for an empty one.
mCommitOffByOne ==
    /\ phase = "commit"
    /\ phase' = IF Len(lh) > 1 THEN "wlog" ELSE "done"
    /\ tail' = 1
    /\ UNCHANGED <<pc, wrote, outstanding, committing, lh, cache, pin, storage>>

Commit ==
    /\ phase = "commit"
    /\ phase' = IF Len(lh) > 0 THEN "wlog" ELSE "done"
    /\ tail' = 1
    /\ UNCHANGED <<pc, wrote, outstanding, committing, lh, cache, pin, storage>>

\* One iteration of write_log: buffer to log slot.
WriteLog ==
    /\ phase = "wlog"
    /\ tail <= Len(lh)
    /\ slot' = [slot EXCEPT ![tail] = bread(lh[tail])]
    /\ tail' = tail + 1
    /\ UNCHANGED <<pc, wrote, outstanding, committing, lh, phase, cache, pin,
                   disk, hdr>>

\* Mutant: write_log stops one block short.
mWriteLogShort ==
    /\ phase = "wlog" /\ tail >= Len(lh)
    /\ phase' = "whead"
    /\ UNCHANGED <<pc, wrote, outstanding, committing, lh, tail, cache, pin,
                   storage>>

WriteLogDone ==
    /\ phase = "wlog" /\ tail > Len(lh)
    /\ phase' = "whead"
    /\ UNCHANGED <<pc, wrote, outstanding, committing, lh, tail, cache, pin,
                   storage>>

\* The real commit: write_head with a non-empty header.
WriteHead ==
    /\ phase = "whead"
    /\ hdr' = lh
    /\ phase' = "install" /\ tail' = 1
    /\ UNCHANGED <<pc, wrote, outstanding, committing, lh, cache, pin,
                   disk, slot>>

\* One iteration of install_trans: log slot to home, in buffer and on disk.
InstallBlock(recovering) ==
    LET b == lh[tail] IN
    /\ tail <= Len(lh)
    /\ cache' = [cache EXCEPT ![b] = slot[tail]]
    /\ disk' = [disk EXCEPT ![b] = slot[tail]]
    /\ pin' = IF recovering THEN pin ELSE [pin EXCEPT ![b] = @ - 1]
    /\ tail' = tail + 1
    /\ UNCHANGED <<pc, wrote, outstanding, committing, lh, phase, slot, hdr>>

\* Mutant: install_trans never gets past its first block.
mInstallStuck ==
    /\ phase = "install" /\ tail <= Len(lh)
    /\ UNCHANGED <<memory, storage>>

InstallTrans == phase = "install" /\ InstallBlock(FALSE)

\* install_trans returns and log.lh.n becomes 0.
InstallDone ==
    /\ phase = "install" /\ tail > Len(lh)
    /\ lh' = <<>>
    /\ phase' = "clear"
    /\ UNCHANGED <<pc, wrote, outstanding, committing, tail, cache, pin,
                   storage>>

\* write_head with n = 0 erases the transaction from the on-disk log.
ClearHead ==
    /\ phase = "clear"
    /\ hdr' = lh
    /\ phase' = "done"
    /\ UNCHANGED <<pc, wrote, outstanding, committing, lh, tail, cache, pin,
                   disk, slot>>

-----------------------------------------------------------------------------
(* initlog / recover_from_log, before any file-system call *)

ReadHead ==
    /\ phase = "boot"
    /\ lh' = hdr
    /\ phase' = "rinstall" /\ tail' = 1
    /\ UNCHANGED <<pc, wrote, outstanding, committing, cache, pin, storage>>

RecoverInstall == phase = "rinstall" /\ InstallBlock(TRUE)

RecoverInstalled ==
    /\ phase = "rinstall" /\ tail > Len(lh)
    /\ lh' = <<>>
    /\ phase' = "rclear"
    /\ UNCHANGED <<pc, wrote, outstanding, committing, tail, cache, pin,
                   storage>>

RecoverClear ==
    /\ phase = "rclear"
    /\ hdr' = lh
    /\ phase' = "run"
    /\ UNCHANGED <<pc, wrote, outstanding, committing, lh, tail, cache, pin,
                   disk, slot>>

-----------------------------------------------------------------------------
(* The environment *)

\* bget recycles the buffer of a block that nobody holds a reference to.
Evict(b) ==
    /\ cache[b] # NotCached
    /\ pin[b] = 0
    /\ cache' = [cache EXCEPT ![b] = NotCached]
    /\ UNCHANGED <<pc, wrote, outstanding, committing, lh, phase, tail, pin,
                   storage>>

\* Power fails.  A data block whose write was under way may be left with any
\* contents; the header fits in one 512-byte sector and is never torn.
Torn(v) ==
    \/ UNCHANGED storage
    \/ /\ phase = "wlog" /\ tail <= Len(lh)
       /\ slot' = [slot EXCEPT ![tail] = v]
       /\ UNCHANGED <<disk, hdr>>
    \/ /\ phase \in {"install", "rinstall"} /\ tail <= Len(lh)
       /\ disk' = [disk EXCEPT ![lh[tail]] = v]
       /\ UNCHANGED <<slot, hdr>>

Crash ==
    /\ \E v \in Val : Torn(v)
    /\ pc' = [p \in Proc |-> "idle"]
    /\ wrote' = [p \in Proc |-> {}]
    /\ outstanding' = 0 /\ committing' = FALSE
    /\ lh' = <<>> /\ phase' = "boot" /\ tail' = 1
    /\ cache' = [b \in Block |-> NotCached]
    /\ pin' = [b \in Block |-> 0]
    /\ panicked' = FALSE

\* A panic stops every processor; only a reboot gets out of it.
Panic(p) ==
    /\ EndOpPanics(p) \/ \E b \in Block : LogWritePanics(p, b)
    /\ panicked' = TRUE
    /\ UNCHANGED <<memory, storage>>

-----------------------------------------------------------------------------
Kernel ==
    \/ Commit \/ WriteLog \/ WriteLogDone \/ WriteHead
    \/ InstallTrans \/ InstallDone \/ ClearHead
    \/ ReadHead \/ RecoverInstall \/ RecoverInstalled \/ RecoverClear

Running ==
    /\ ~panicked
    /\ \/ Kernel
       \/ \E p \in Proc : Call(p) \/ BeginOp(p) \/ EndOp(p) \/ EndCommit(p)
       \/ \E p \in Proc, b \in Block, v \in Val : LogWrite(p, b, v)
       \/ \E b \in Block : Evict(b)
    /\ UNCHANGED panicked

Next ==
    \/ Running
    \/ ~panicked /\ \E p \in Proc : Panic(p)
    \/ Crash

Spec == Init /\ [][Next]_vars

\* The kernel's own steps are taken when they can be: a disk write completes,
\* a runnable process runs and a system call gets to its end_op.  Nothing is
\* assumed about who wins the race for log space, about new calls, or crashes.
Fairness ==
    /\ WF_vars(~panicked /\ Kernel /\ UNCHANGED panicked)
    /\ \A p \in Proc :
         /\ WF_vars(~panicked /\ BeginOp(p) /\ UNCHANGED panicked)
         /\ WF_vars(~panicked /\ EndOp(p) /\ UNCHANGED panicked)
         /\ WF_vars(~panicked /\ EndCommit(p) /\ UNCHANGED panicked)

FairSpec == Spec /\ Fairness
-----------------------------------------------------------------------------
(* What the log promises: the mapping to the abstract disk *)

Booting == phase \in {"boot", "rinstall", "rclear"}

\* What recover_from_log would leave if the power failed now: the blocks named
\* by the on-disk header come from the log, all others from their home.
Recovered ==
    [b \in Block |->
        IF b \in Contents(hdr)
        THEN slot[CHOOSE i \in DOMAIN hdr :
                    /\ hdr[i] = b
                    /\ \A j \in DOMAIN hdr : hdr[j] = b => j <= i]
        ELSE disk[b]]

Current == IF Booting THEN Recovered ELSE [b \in Block |-> bread(b)]

Active == {p \in Proc : pc[p] = "active"}

AD == INSTANCE AtomicDisk
        WITH durable <- Recovered, current <- Current, active <- Active

\* Crash atomicity (log.c as a whole): whatever instant the power fails at,
\* half-way through write_log, write_head, install_trans or a recovery from an
\* earlier failure, the disk comes back with whole groups of operations.
AtomicOperations == AD!Spec

\* When end_op has returned for every call that began, nothing is left to
\* lose: the last end_op waits for commit() to have installed everything.
QuietIsDurable ==
    outstanding = 0 /\ ~committing /\ ~Booting =>
        /\ lh = <<>>
        /\ Recovered = Current

\* The log "only commits when there are no FS system calls active" (log.c,
\* lines 12-14), and the operations it counts are those that are running.
CommitExcludesOps ==
    /\ committing <=> \E p \in Proc : pc[p] = "commit"
    /\ committing => Active = {}
    /\ outstanding = Cardinality(Active)

\* The reservation of begin_op is enough: no log_write finds the log full and
\* no end_op finds a commit under way.
NoPanic == ~panicked

\* The blocks of the header that install_trans has still to write home.
Uninstalled ==
    LET from == CASE phase = "install" -> tail
                  [] phase = "rinstall" -> Len(lh) + 1
                  [] OTHER -> 1
    IN  {lh[i] : i \in from .. Len(lh)}

PinnedOnce == \A b \in Block : pin[b] = IF b \in Uninstalled THEN 1 ELSE 0

\* Every block that has yet to be installed is pinned exactly once, so bget
\* cannot recycle its buffer, and no pin outlives the commit (bpin, bunpin).
\* Every variable has its type: no count goes below zero, and no slot outside
\* the log is used.
PinsMatchHeader == TypeOK /\ PinnedOnce

\* A process asleep in begin_op has someone left to wake it: an operation that
\* is yet to end, or the committer (the two wakeup calls of end_op).
SleeperHasWaker ==
    \A p \in Proc : pc[p] = "asleep" => outstanding > 0 \/ committing

\* Nobody sleeps in begin_op for ever: the commits he waits for return, one after
\* another, and wake him (end_op, commit).
SleeperWakes == \A p \in Proc : pc[p] = "asleep" ~> pc[p] # "asleep"
=============================================================================
