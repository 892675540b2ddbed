-------------------------------- MODULE Proc --------------------------------
(***************************************************************************)
(* Process life cycle, scheduling, sleep and wakeup (kernel/proc.c).       *)
(*                                                                         *)
(* Every CPU runs either its scheduler loop or one process.  Grain: one    *)
(* step per critical section of p->lock, and the two critical sections     *)
(* that stay open across other steps are explicit: wait_lock, held through *)
(* wait()'s scan and through exit()'s wakeups, and p->lock, handed over in *)
(* swtch() from a process to the scheduler and back.  wakeup() visits the  *)
(* table one slot at a time.  Slot 1 is initproc.                          *)
(***************************************************************************)
EXTENDS Naturals, FiniteSets

CONSTANTS
    NPROC,      \* param.h: slots of the process table
    CPU,        \* the harts
    NoCpu,      \* a lock that is free
    MaxPid,     \* bound: pids handed out, so at most MaxPid - 1 calls of fork
    KillPids    \* the pids that processes pass to kill()

ASSUME ProcConstants == NPROC \in Nat \ {0, 1} /\ MaxPid \in Nat \ {0}
ASSUME NoCpuAssumption == NoCpu \notin CPU

Slot == 1 .. NPROC
initproc == 1

VARIABLES
    state,      \* p->state
    parent,     \* p->parent, 0 for none
    pid,        \* p->pid, 0 for a free slot
    killed,     \* p->killed
    chan,       \* p->chan: the slot whose wait() channel it is, 0 for none
    plock,      \* p->lock: the CPU that holds it
    waitlock,   \* wait_lock: the CPU that holds it
    cpu,        \* c->proc, 0 while the scheduler runs
    pc,         \* where the kernel thread of the slot is
    sw,         \* its context: running, inside sched(), saved, or just loaded
    idx,        \* its loop variable, in wait() and in wakeup()
    nextpid,    \* nextpid
    asked       \* history: the pids somebody called kill() with, and those of
                \* the processes that raised an exception of their own

proc == <<state, parent, pid, killed, chan>>
locks == <<plock, waitlock>>
thread == <<pc, sw, idx>>
vars == <<proc, locks, cpu, thread, nextpid, asked>>

TypeOK ==
    /\ state \in [Slot -> {"UNUSED", "USED", "RUNNABLE", "RUNNING", "SLEEPING",
                           "ZOMBIE"}]
    /\ parent \in [Slot -> 0 .. NPROC]
    /\ pid \in [Slot -> Nat]
    /\ killed \in [Slot -> BOOLEAN]
    /\ chan \in [Slot -> 0 .. NPROC]
    /\ plock \in [Slot -> CPU \cup {NoCpu}]
    /\ waitlock \in CPU \cup {NoCpu}
    /\ cpu \in [CPU -> 0 .. NPROC]
    /\ pc \in [Slot -> {"user", "forkp", "forkr", "wait", "scan", "kids", "sleep1",
                        "sleep2", "awake", "exit", "reparent", "wakeinit",
                        "wakeparent", "exit2", "dead"}]
    /\ sw \in [Slot -> {"run", "swtch", "off", "load"}]
    /\ idx \in [Slot -> 0 .. NPROC + 1]
    /\ nextpid \in Nat
    /\ asked \subseteq Nat

\* userinit has made the first process, and every CPU is in its scheduler.
Init ==
    /\ state = [s \in Slot |-> IF s = initproc THEN "RUNNABLE" ELSE "UNUSED"]
    /\ parent = [s \in Slot |-> 0]
    /\ pid = [s \in Slot |-> IF s = initproc THEN 1 ELSE 0]
    /\ killed = [s \in Slot |-> FALSE]
    /\ chan = [s \in Slot |-> 0]
    /\ plock = [s \in Slot |-> NoCpu] /\ waitlock = NoCpu
    /\ cpu = [c \in CPU |-> 0]
    /\ pc = [s \in Slot |-> "user"] /\ sw = [s \in Slot |-> "off"]
    /\ idx = [s \in Slot |-> 0]
    /\ nextpid = 2
    /\ asked = {}

-----------------------------------------------------------------------------
(* Who runs where, and the locks *)

On(s) == CHOOSE c \in CPU : cpu[c] = s
Runs(s, at) == sw[s] = "run" /\ pc[s] = at
Free(s) == plock[s] = NoCpu

At(s, there) == pc' = [pc EXCEPT ![s] = there]

-----------------------------------------------------------------------------
(* The scheduler and context switches *)

\* scheduler(): a free CPU takes a runnable process, with its lock held, and
\* switches to it.
Schedule(c, s) ==
    /\ cpu[c] = 0
    /\ Free(s) /\ state[s] = "RUNNABLE"
    /\ plock' = [plock EXCEPT ![s] = c]
    /\ state' = [state EXCEPT ![s] = "RUNNING"]
    /\ cpu' = [cpu EXCEPT ![c] = s]
    /\ sw' = [sw EXCEPT ![s] = "load"]
    /\ UNCHANGED <<parent, pid, killed, chan, waitlock, pc, idx, nextpid, asked>>

\* Mutant: the tail of sleep() goes for wait_lock before it lets p->lock go.
mResumeKeepsLock(s) ==
    /\ sw[s] = "load"
    /\ plock' = IF pc[s] = "awake" THEN plock ELSE [plock EXCEPT ![s] = NoCpu]
    /\ sw' = [sw EXCEPT ![s] = "run"]
    /\ \/ /\ pc[s] = "awake"
          /\ chan' = [chan EXCEPT ![s] = 0]
          /\ At(s, "wait")
       \/ pc[s] # "awake" /\ UNCHANGED <<chan, pc>>
    /\ UNCHANGED <<state, parent, pid, killed, waitlock, cpu, idx, nextpid, asked>>

\* The process is back from sched(), or starts in forkret: it releases its
\* lock; the tail of sleep() clears p->chan and goes for wait_lock again.
Resume(s) ==
    /\ sw[s] = "load"
    /\ plock' = [plock EXCEPT ![s] = NoCpu]
    /\ sw' = [sw EXCEPT ![s] = "run"]
    /\ \/ /\ pc[s] = "awake"
          /\ chan' = [chan EXCEPT ![s] = 0]
          /\ At(s, "wait")
       \/ pc[s] # "awake" /\ UNCHANGED <<chan, pc>>
    /\ UNCHANGED <<state, parent, pid, killed, waitlock, cpu, idx, nextpid, asked>>

\* sched(): the process switches to the scheduler of its CPU, which forgets
\* the process and releases the process's lock.
Sched(s) ==
    /\ sw[s] = "swtch"
    /\ cpu' = [cpu EXCEPT ![On(s)] = 0]
    /\ plock' = [plock EXCEPT ![s] = NoCpu]
    /\ sw' = [sw EXCEPT ![s] = "off"]
    /\ UNCHANGED <<proc, waitlock, pc, idx, nextpid, asked>>

\* yield(), on a timer interrupt: possible wherever no spinlock is held.
Yield(s) ==
    /\ sw[s] = "run" /\ pc[s] \in {"user", "forkp", "forkr", "wait", "exit"}
    /\ Free(s)
    /\ plock' = [plock EXCEPT ![s] = On(s)]
    /\ state' = [state EXCEPT ![s] = "RUNNABLE"]
    /\ sw' = [sw EXCEPT ![s] = "swtch"]
    /\ UNCHANGED <<parent, pid, killed, chan, waitlock, cpu, pc, idx, nextpid,
                   asked>>

-----------------------------------------------------------------------------
(* fork *)

\* allocproc() and the copying part of fork(), in one critical section of
\* np->lock; when an allocation fails freeproc() gives the slot back.  The
\* parent keeps the child's slot in idx.
ForkAlloc(s, np) ==
    /\ Runs(s, "user") /\ ~killed[s]
    /\ Free(np) /\ state[np] = "UNUSED"
    /\ nextpid <= MaxPid
    /\ nextpid' = nextpid + 1
    /\ \/ /\ pid' = [pid EXCEPT ![np] = nextpid]
          /\ state' = [state EXCEPT ![np] = "USED"]
          /\ pc' = [pc EXCEPT ![s] = "forkp", ![np] = "user"]
          /\ sw' = [sw EXCEPT ![np] = "off"]
          /\ idx' = [idx EXCEPT ![s] = np]
          /\ UNCHANGED killed
       \/ /\ killed' = [killed EXCEPT ![np] = FALSE]
          /\ UNCHANGED <<pid, state, thread>>
    /\ UNCHANGED <<parent, chan, locks, cpu, asked>>

\* np->parent = p, under wait_lock.
ForkParent(s) ==
    /\ Runs(s, "forkp") /\ waitlock = NoCpu
    /\ parent' = [parent EXCEPT ![idx[s]] = s]
    /\ At(s, "forkr")
    /\ UNCHANGED <<state, pid, killed, chan, locks, cpu, sw, idx, nextpid, asked>>

\* np->state = RUNNABLE, under np->lock.
ForkRunnable(s) ==
    /\ Runs(s, "forkr") /\ Free(idx[s])
    /\ state' = [state EXCEPT ![idx[s]] = "RUNNABLE"]
    /\ idx' = [idx EXCEPT ![s] = 0]
    /\ At(s, "user")
    /\ UNCHANGED <<parent, pid, killed, chan, locks, cpu, sw, nextpid, asked>>

-----------------------------------------------------------------------------
(* wait *)

CallWait(s) ==
    /\ Runs(s, "user") /\ ~killed[s]
    /\ At(s, "wait")
    /\ UNCHANGED <<proc, locks, cpu, sw, idx, nextpid, asked>>

WaitLock(s) ==
    /\ Runs(s, "wait") /\ waitlock = NoCpu
    /\ waitlock' = On(s)
    /\ idx' = [idx EXCEPT ![s] = 1]
    /\ At(s, "scan")
    /\ UNCHANGED <<proc, plock, cpu, sw, nextpid, asked>>

\* wait() is done: wait_lock goes, the call returns to user space.
WaitReturns(s) ==
    /\ waitlock' = NoCpu
    /\ idx' = [idx EXCEPT ![s] = 0]
    /\ At(s, "user")

\* The scan passes a slot that is no child, or a child that is no zombie.
Scan(s) ==
    LET pp == idx[s] IN
    /\ Runs(s, "scan") /\ pp <= NPROC
    /\ \/ parent[pp] # s
       \/ parent[pp] = s /\ Free(pp) /\ state[pp] # "ZOMBIE"
    /\ idx' = [idx EXCEPT ![s] = pp + 1]
    /\ UNCHANGED <<proc, locks, cpu, pc, sw, nextpid, asked>>

\* Mutant: the zombie is freed without asking for its lock.
mReapUnlocked(s) ==
    LET pp == idx[s] IN
    /\ Runs(s, "scan") /\ pp <= NPROC
    /\ parent[pp] = s /\ state[pp] = "ZOMBIE"
    /\ state' = [state EXCEPT ![pp] = "UNUSED"]
    /\ parent' = [parent EXCEPT ![pp] = 0]
    /\ pid' = [pid EXCEPT ![pp] = 0]
    /\ killed' = [killed EXCEPT ![pp] = FALSE]
    /\ chan' = [chan EXCEPT ![pp] = 0]
    /\ WaitReturns(s)
    /\ UNCHANGED <<plock, cpu, sw, nextpid, asked>>

\* Mutant: freeproc() forgets p->killed.
mReapKeepsKilled(s) ==
    LET pp == idx[s] IN
    /\ Runs(s, "scan") /\ pp <= NPROC
    /\ parent[pp] = s /\ Free(pp) /\ state[pp] = "ZOMBIE"
    /\ state' = [state EXCEPT ![pp] = "UNUSED"]
    /\ parent' = [parent EXCEPT ![pp] = 0]
    /\ pid' = [pid EXCEPT ![pp] = 0]
    /\ chan' = [chan EXCEPT ![pp] = 0]
    /\ WaitReturns(s)
    /\ UNCHANGED <<killed, plock, cpu, sw, nextpid, asked>>

\* Mutant: wait() returns the pid and does not call freeproc().
mReapKeepsZombie(s) ==
    LET pp == idx[s] IN
    /\ Runs(s, "scan") /\ pp <= NPROC
    /\ parent[pp] = s /\ Free(pp) /\ state[pp] = "ZOMBIE"
    /\ WaitReturns(s)
    /\ UNCHANGED <<proc, plock, cpu, sw, nextpid, asked>>

\* A zombie child: freeproc(), under wait_lock and the child's own lock.
Reap(s) ==
    LET pp == idx[s] IN
    /\ Runs(s, "scan") /\ pp <= NPROC
    /\ parent[pp] = s /\ Free(pp) /\ state[pp] = "ZOMBIE"
    /\ state' = [state EXCEPT ![pp] = "UNUSED"]
    /\ parent' = [parent EXCEPT ![pp] = 0]
    /\ pid' = [pid EXCEPT ![pp] = 0]
    /\ killed' = [killed EXCEPT ![pp] = FALSE]
    /\ chan' = [chan EXCEPT ![pp] = 0]
    /\ WaitReturns(s)
    /\ UNCHANGED <<plock, cpu, sw, nextpid, asked>>

\* copyout() of the exit status fails, which init never asks for: the zombie
\* stays and wait() returns -1.
ReapBadAddress(s) ==
    LET pp == idx[s] IN
    /\ s # initproc
    /\ Runs(s, "scan") /\ pp <= NPROC
    /\ parent[pp] = s /\ Free(pp) /\ state[pp] = "ZOMBIE"
    /\ WaitReturns(s)
    /\ UNCHANGED <<proc, plock, cpu, sw, nextpid, asked>>

\* No zombie: return -1 when there is no child at all or killed(p), which
\* takes p->lock; otherwise go to sleep.
HasKids(s) == \E pp \in Slot : parent[pp] = s

WaitTest(s) ==
    /\ Runs(s, "scan") /\ idx[s] > NPROC
    /\ \/ /\ ~HasKids(s) \/ (Free(s) /\ killed[s])
          /\ WaitReturns(s)
       \/ /\ HasKids(s) /\ Free(s) /\ ~killed[s]
          /\ At(s, "sleep1")
          /\ UNCHANGED <<waitlock, idx>>
    /\ UNCHANGED <<proc, plock, cpu, sw, nextpid, asked>>

\* sleep(p, &wait_lock): take p->lock, only then release wait_lock.
SleepLock(s) ==
    /\ Runs(s, "sleep1") /\ Free(s)
    /\ plock' = [plock EXCEPT ![s] = On(s)]
    /\ waitlock' = NoCpu
    /\ At(s, "sleep2")
    /\ UNCHANGED <<proc, cpu, sw, idx, nextpid, asked>>

\* The rest of sleep() up to sched().
SleepSet(s) ==
    /\ Runs(s, "sleep2")
    /\ chan' = [chan EXCEPT ![s] = s]
    /\ state' = [state EXCEPT ![s] = "SLEEPING"]
    /\ sw' = [sw EXCEPT ![s] = "swtch"]
    /\ idx' = [idx EXCEPT ![s] = 0]
    /\ At(s, "awake")
    /\ UNCHANGED <<parent, pid, killed, locks, cpu, nextpid, asked>>

-----------------------------------------------------------------------------
(* exit, kill and wakeup *)

\* exit(), called or forced by usertrap() on a killed process.  Closing the
\* files and the directory is not part of this module; init never exits.
CallExit(s) ==
    /\ Runs(s, "user") /\ s # initproc
    /\ At(s, "exit")
    /\ UNCHANGED <<proc, locks, cpu, sw, idx, nextpid, asked>>

\* usertrap() finds an exception it does not handle: the process marks itself
\* as killed, under its lock, and exits.  init raises none.
Fault(s) ==
    /\ Runs(s, "user") /\ s # initproc
    /\ Free(s)
    /\ killed' = [killed EXCEPT ![s] = TRUE]
    /\ asked' = asked \cup {pid[s]}
    /\ At(s, "exit")
    /\ UNCHANGED <<state, parent, pid, chan, locks, cpu, sw, idx, nextpid>>

\* Mutant: exit() does not call reparent().
mExitLockNoReparent(s) ==
    /\ Runs(s, "exit") /\ waitlock = NoCpu
    /\ waitlock' = On(s)
    /\ idx' = [idx EXCEPT ![s] = 1]
    /\ At(s, "wakeparent")
    /\ UNCHANGED <<proc, plock, cpu, sw, nextpid, asked>>

ExitLock(s) ==
    /\ Runs(s, "exit") /\ waitlock = NoCpu
    /\ waitlock' = On(s)
    /\ At(s, "reparent")
    /\ UNCHANGED <<proc, plock, cpu, sw, idx, nextpid, asked>>

\* reparent(): the orphans go to init, which is then woken up.
Reparent(s) ==
    /\ Runs(s, "reparent")
    /\ parent' = [q \in Slot |-> IF parent[q] = s THEN initproc ELSE parent[q]]
    /\ At(s, IF HasKids(s) THEN "wakeinit" ELSE "wakeparent")
    /\ idx' = [idx EXCEPT ![s] = 1]
    /\ UNCHANGED <<state, pid, killed, chan, locks, cpu, sw, nextpid, asked>>

\* Mutant: the sleepers are compared with the caller, not with the channel.
mWakeOne(s, i, ch) ==
    /\ i # s => Free(i)
    /\ state' = IF i # s /\ state[i] = "SLEEPING" /\ chan[i] = s
                THEN [state EXCEPT ![i] = "RUNNABLE"] ELSE state

\* One iteration of wakeup(ch) by s, at slot i: skip itself, otherwise look
\* at the slot under its lock.
WakeOne(s, i, ch) ==
    /\ i # s => Free(i)
    /\ state' = IF i # s /\ state[i] = "SLEEPING" /\ chan[i] = ch
                THEN [state EXCEPT ![i] = "RUNNABLE"] ELSE state

\* wakeup(initproc) and wakeup(p->parent): one slot after another.
Wake(s) ==
    LET i == idx[s] IN
    /\ sw[s] = "run" /\ pc[s] \in {"wakeinit", "wakeparent"} /\ i <= NPROC
    /\ WakeOne(s, i, IF pc[s] = "wakeinit" THEN initproc ELSE parent[s])
    /\ idx' = [idx EXCEPT ![s] = i + 1]
    /\ UNCHANGED <<parent, pid, killed, chan, locks, cpu, pc, sw, nextpid, asked>>

WakeDone(s) ==
    /\ sw[s] = "run" /\ pc[s] \in {"wakeinit", "wakeparent"} /\ idx[s] > NPROC
    /\ \/ /\ pc[s] = "wakeinit"
          /\ At(s, "wakeparent")
          /\ idx' = [idx EXCEPT ![s] = 1]
       \/ /\ pc[s] = "wakeparent"
          /\ At(s, "exit2")
          /\ idx' = [idx EXCEPT ![s] = 0]
    /\ UNCHANGED <<proc, locks, cpu, sw, nextpid, asked>>

\* Mutant: p->lock is not taken before the state changes to ZOMBIE.
mExitZombieUnlocked(s) ==
    /\ Runs(s, "exit2")
    /\ state' = [state EXCEPT ![s] = "ZOMBIE"]
    /\ waitlock' = NoCpu
    /\ sw' = [sw EXCEPT ![s] = "swtch"]
    /\ At(s, "dead")
    /\ UNCHANGED <<parent, pid, killed, chan, plock, cpu, idx, nextpid, asked>>

\* The end of exit(): p->lock, ZOMBIE, release wait_lock, sched().
ExitZombie(s) ==
    /\ Runs(s, "exit2") /\ Free(s)
    /\ plock' = [plock EXCEPT ![s] = On(s)]
    /\ state' = [state EXCEPT ![s] = "ZOMBIE"]
    /\ waitlock' = NoCpu
    /\ sw' = [sw EXCEPT ![s] = "swtch"]
    /\ At(s, "dead")
    /\ UNCHANGED <<parent, pid, killed, chan, cpu, idx, nextpid, asked>>

\* Mutant: kill() does not wake its victim.
mKillSilent(s, q) ==
    /\ Runs(s, "user") /\ ~killed[s]
    /\ pid[q] \in KillPids /\ \A r \in 1 .. q - 1 : pid[r] # pid[q]
    /\ Free(q)
    /\ killed' = [killed EXCEPT ![q] = TRUE]
    /\ asked' = asked \cup {pid[q]}
    /\ UNCHANGED <<state, parent, pid, chan, locks, cpu, thread, nextpid>>

\* kill(n) by a process in a system call: the slot with that pid is marked
\* and, if it sleeps, made runnable, under its lock.
Kill(s, q) ==
    /\ Runs(s, "user") /\ ~killed[s]
    /\ pid[q] \in KillPids /\ \A r \in 1 .. q - 1 : pid[r] # pid[q]
    /\ Free(q)
    /\ killed' = [killed EXCEPT ![q] = TRUE]
    /\ state' = IF state[q] = "SLEEPING"
                THEN [state EXCEPT ![q] = "RUNNABLE"] ELSE state
    /\ asked' = asked \cup {pid[q]}
    /\ UNCHANGED <<parent, pid, chan, locks, cpu, thread, nextpid>>

-----------------------------------------------------------------------------
\* What a thread does inside the kernel, once it is there.
KernelStep(s) ==
    \/ ForkParent(s) \/ ForkRunnable(s)
    \/ WaitLock(s) \/ Scan(s) \/ Reap(s) \/ ReapBadAddress(s) \/ WaitTest(s)
    \/ SleepLock(s) \/ SleepSet(s)
    \/ ExitLock(s) \/ Reparent(s) \/ Wake(s) \/ WakeDone(s) \/ ExitZombie(s)

Next ==
    \E s \in Slot :
        \/ KernelStep(s)
        \/ Resume(s) \/ Sched(s) \/ Yield(s)
        \/ CallWait(s)
        \/ CallExit(s) \/ Fault(s)
        \/ \E c \in CPU : Schedule(c, s)
        \/ \E np \in Slot : ForkAlloc(s, np)
        \/ \E q \in Slot : Kill(s, q)

Spec == Init /\ [][Next]_vars

\* Scheduling: every CPU finishes its context switches and has its own timer,
\* the scheduler's loop comes round to every slot, a spinlock that is released
\* again and again is acquired in the end, a killed process traps, and init
\* calls wait() again.  No other system call is assumed to be made.
Fairness ==
    /\ SF_vars(CallWait(initproc))
    /\ \A c \in CPU :
         /\ WF_vars(\E s \in Slot : cpu[c] = s /\ (Resume(s) \/ Sched(s)))
         /\ SF_vars(\E s \in Slot : cpu[c] = s /\ Yield(s))
    /\ \A s \in Slot :
         /\ SF_vars(KernelStep(s))
         /\ SF_vars(\E c \in CPU : Schedule(c, s))
    /\ \A s \in Slot \ {initproc} : SF_vars(killed[s] /\ CallExit(s))

FairSpec == Spec /\ Fairness

-----------------------------------------------------------------------------
(* Properties *)

\* No two CPUs are ever on one kernel stack, and freeproc() never frees a
\* process that is still on its own: the lock of an exiting or sleeping process
\* is only released by the scheduler, after swtch() (scheduler, sched, wait).
StackExclusive ==
    /\ \A c, d \in CPU : cpu[c] = cpu[d] /\ cpu[c] # 0 => c = d
    /\ \A s \in Slot : sw[s] = "off" <=> \A c \in CPU : cpu[c] # s
    /\ \A s \in Slot : state[s] \in {"UNUSED", "USED"} => sw[s] = "off"

\* The panics of sched(): a process gives up its CPU holding its own lock and
\* no other, wait_lock included, and with p->state changed from RUNNING.
SchedChecks ==
    /\ TypeOK
    /\ \A s \in Slot : sw[s] = "swtch" =>
           /\ plock[s] = On(s) /\ state[s] # "RUNNING"
           /\ waitlock # On(s)
           /\ \A q \in Slot \ {s} : plock[q] # On(s)

\* No lost wakeup: outside the critical sections of wait_lock no process is
\* asleep in wait() while it has a child to collect (exit, reparent, sleep).
NoMissedZombie ==
    waitlock = NoCpu =>
        ~ \E p, z \in Slot : /\ state[p] = "SLEEPING" /\ chan[p] = p
                             /\ state[z] = "ZOMBIE" /\ parent[z] = p

\* Every process but init has a parent that can still wait for it: exit()
\* hands its children over before it becomes a zombie (reparent).
HasLivingParent ==
    \A s \in Slot \ {initproc} :
        state[s] \notin {"UNUSED", "USED"} =>
            parent[s] # 0 /\ state[parent[s]] \notin {"UNUSED", "USED", "ZOMBIE"}

\* A process is only marked as killed when kill() was called with its own pid
\* or it raised an exception itself: the mark never passes to the next owner of
\* a slot (kill, setkilled, freeproc).
KilledWasAsked ==
    \A s \in Slot : state[s] # "UNUSED" /\ killed[s] => pid[s] \in asked

\* The spinlocks a thread spins for.
WantsWaitLock(s) == sw[s] = "run" /\ pc[s] \in {"forkp", "wait", "exit"}
WantsLock(s, q) ==
    /\ sw[s] = "run"
    /\ \/ pc[s] = "forkr" /\ q = idx[s]
       \/ pc[s] = "scan" /\ q = idx[s] /\ parent[q] = s
       \/ pc[s] = "scan" /\ idx[s] > NPROC /\ q = s
       \/ pc[s] \in {"sleep1", "exit2"} /\ q = s
       \/ pc[s] \in {"wakeinit", "wakeparent"} /\ q = idx[s] /\ q # s

\* s spins for a lock that the CPU of t holds.
SpinsFor(s, t) ==
    \/ WantsWaitLock(s) /\ waitlock \in CPU /\ cpu[waitlock] = t
    \/ \E q \in Slot : WantsLock(s, q) /\ plock[q] \in CPU /\ cpu[plock[q]] = t

\* No CPUs wait for each other's spinlocks in a circle: wait_lock is taken
\* before any p->lock, and who has a p->lock besides takes no other lock before
\* it lets go (fork, wait, sleep, exit, reparent, wakeup).
NoLockCircle ==
    \A ring \in (SUBSET Slot) \ {{}} :
        \E s \in ring : \A t \in ring : ~SpinsFor(s, t)

\* A zombie that belongs to init, orphans of orphans included, is collected.
ZombieReaped ==
    \A s \in Slot \ {initproc} :
        state[s] = "ZOMBIE" /\ parent[s] = initproc ~> state[s] = "UNUSED"

\* A killed process exits, whatever it was doing (kill, wait, usertrap).  So it
\* is on one CPU; with two, a kill between wait()'s test of killed(p) and its
\* sleep() (proc.c:521) leaves it asleep.
KilledExits ==
    \A s \in Slot \ {initproc} : killed[s] ~> state[s] \in {"ZOMBIE", "UNUSED"}
=============================================================================
