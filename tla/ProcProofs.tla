----------------------------- MODULE ProcProofs -----------------------------
(***************************************************************************)
(* Proofs about Proc, for any number of CPUs and any size of the process   *)
(* table.  The inductive invariant says where each kernel thread is and    *)
(* what it holds there: its stack, its lock, wait_lock, the slot it is     *)
(* filling, the family it belongs to, and what it has yet to wake.         *)
(***************************************************************************)
EXTENDS Proc, TLAPS

USE ProcConstants, NoCpuAssumption

\* The places of a thread inside the critical section of wait_lock ...
Waiting == {"scan", "sleep1", "reparent", "wakeinit", "wakeparent", "exit2"}
\* ... in fork, after allocproc, in exit, and in exit after reparent.
Forking == {"forkp", "forkr"}
Leaving == {"exit", "reparent", "wakeinit", "wakeparent", "exit2", "dead"}
Childless == {"wakeinit", "wakeparent", "exit2", "dead"}

\* A stack is on one CPU at most, and on none exactly while it is saved.
Stack ==
    /\ \A c, d \in CPU : cpu[c] = cpu[d] /\ cpu[c] # 0 => c = d
    /\ \A s \in Slot : sw[s] = "off" <=> \A c \in CPU : cpu[c] # s

\* The state of a process, its context and its place agree.
Place ==
    \A s \in Slot :
        /\ state[s] = "RUNNING" <=> sw[s] \in {"run", "load"}
        /\ state[s] \in {"UNUSED", "USED"} => sw[s] = "off"
        /\ state[s] = "UNUSED" => pc[s] \in {"user", "dead"}
        /\ state[s] = "USED" => pc[s] = "user"
        /\ state[s] = "SLEEPING" => pc[s] = "awake"
        /\ state[s] = "ZOMBIE" => pc[s] = "dead"
        /\ pc[s] = "dead" => state[s] \in {"ZOMBIE", "UNUSED"}
        /\ pc[s] = "awake" => chan[s] = s /\ sw[s] # "run"
        /\ pc[s] \in Waiting \cup {"sleep2"} => sw[s] = "run"

\* p->lock is held across swtch and at the end of sleep, by the CPU of p.
Busy(s) == sw[s] \in {"swtch", "load"} \/ pc[s] = "sleep2"
Locks ==
    /\ \A s \in Slot : Busy(s) => plock[s] \in CPU /\ cpu[plock[s]] = s
    /\ \A s \in Slot : ~Busy(s) => plock[s] = NoCpu
    /\ \A s \in Slot : pc[s] \in Waiting =>
           waitlock \in CPU /\ cpu[waitlock] = s
    /\ waitlock # NoCpu => \E s \in Slot : pc[s] \in Waiting

\* A process in fork has a slot of its own to fill, and loops are in bounds.
Filling ==
    /\ \A s \in Slot : pc[s] \in Forking =>
           idx[s] \in Slot /\ state[idx[s]] = "USED"
    /\ \A s \in Slot : pc[s] = "forkr" => parent[idx[s]] = s
    /\ \A s, t \in Slot :
           pc[s] \in Forking /\ pc[t] \in Forking /\ idx[s] = idx[t] => s = t
    /\ \A s \in Slot :
           pc[s] \in {"scan", "wakeinit", "wakeparent"} => idx[s] # 0

\* Who may have children, and who has a parent.
Family ==
    /\ state[initproc] \notin {"UNUSED", "USED", "ZOMBIE"}
    /\ parent[initproc] = 0
    /\ \A s \in Slot : pc[s] \in Leaving => s # initproc
    /\ \A s \in Slot :
           state[s] \in {"UNUSED", "USED"} \/ pc[s] \in Childless =>
               \A q \in Slot : parent[q] # s
    /\ HasLivingParent

\* p is asleep in wait, or can no longer be kept from it.
Sleepy(p) == pc[p] = "sleep2" \/ state[p] = "SLEEPING"
Kid(z, p) == state[z] = "ZOMBIE" /\ parent[z] = p

\* No wakeup is lost: what wait has seen stays so while it has wait_lock; who
\* has been woken stays awake until its child is a zombie; and a parent that
\* sleeps beside a zombie is init, just before it is woken by reparent.
Wakeups ==
    /\ \A p, z \in Slot : pc[p] = "scan" /\ z < idx[p] => ~Kid(z, p)
    /\ \A p, z \in Slot : pc[p] = "sleep1" => ~Kid(z, p)
    /\ \A s \in Slot : \/ pc[s] = "wakeparent" /\ idx[s] > parent[s]
                       \/ pc[s] = "exit2"
                       => ~Sleepy(parent[s])
    /\ \A p, z \in Slot : Sleepy(p) /\ Kid(z, p) =>
           /\ p = initproc
           /\ \E s \in Slot : pc[s] = "wakeinit" /\ idx[s] = 1

IInv == TypeOK /\ Stack /\ Place /\ Locks /\ Filling /\ Family /\ Wakeups

\* A free slot is not marked as killed, and who is marked was asked for by kill()
\* or by an exception of its own.
Kills ==
    /\ \A s \in Slot : state[s] = "UNUSED" => pid[s] = 0 /\ ~killed[s]
    /\ KilledWasAsked

-----------------------------------------------------------------------------
(* Facts that every action needs *)

\* The slots are the numbers from 1 to NPROC, and 0 is none of them.
LEMMA Slots ==
    /\ initproc \in Slot /\ 0 \notin Slot
    /\ \A i \in Slot : i \in Nat /\ i <= NPROC
    /\ \A i \in 0 .. NPROC + 1 : i # 0 /\ i <= NPROC => i \in Slot
    /\ \A i \in 0 .. NPROC : i # 0 => i \in Slot
BY DEF Slot, initproc

\* A thread that is not saved has one CPU, the one mycpu() answers.
LEMMA OnCpu ==
    ASSUME TypeOK, Stack, NEW s \in Slot, sw[s] # "off"
    PROVE  /\ On(s) \in CPU /\ cpu[On(s)] = s
           /\ \A c \in CPU : cpu[c] = s => c = On(s)
BY DEF Stack, On

\* One thread at a time is in the critical section of wait_lock.
LEMMA OneHolder ==
    ASSUME Locks, NEW s \in Slot, NEW t \in Slot,
           pc[s] \in Waiting, pc[t] \in Waiting
    PROVE  s = t
BY DEF Locks

\* A process inside exit() is not init and has a parent.
LEMMA ParentSlot ==
    ASSUME TypeOK, Place, Family, NEW s \in Slot, pc[s] \in Leaving \ {"dead"}
    PROVE  s # initproc /\ parent[s] \in Slot
<1>1. state[s] \notin {"UNUSED", "USED"}
  BY DEF Place, Leaving
<1>2. s # initproc
  BY DEF Family
<1>3. parent[s] # 0
  BY <1>1 DEF Family, HasLivingParent
<1>4. parent[s] \in 0 .. NPROC
  BY DEF TypeOK
<1> QED  BY <1>2, <1>3, <1>4, Slots

-----------------------------------------------------------------------------
(* Every action keeps the invariant *)

\* After userinit every CPU is in its scheduler and no lock is held.
LEMMA Start ==
    ASSUME Init
    PROVE  IInv
<1>1. TypeOK
  BY DEF Init, TypeOK
<1>2. Stack /\ Place /\ Locks
  BY Slots DEF Init, Stack, Place, Locks, Busy, Waiting
<1>3. Filling /\ Family /\ Wakeups
  BY Slots DEF Init, Filling, Forking, Family, Leaving, HasLivingParent,
     Wakeups, Kid
<1> QED  BY <1>1, <1>2, <1>3 DEF IInv

\* scheduler() loads a context that is saved, on a CPU that has none.
LEMMA ScheduleKeeps ==
    ASSUME IInv, NEW c \in CPU, NEW s \in Slot, Schedule(c, s)
    PROVE  IInv'
<1> USE DEF Schedule, Free
<1>0. TypeOK /\ Stack /\ Place /\ Locks /\ Filling /\ Family /\ Wakeups
  BY DEF IInv
<1>1. TypeOK'
  BY <1>0, Slots DEF TypeOK
<1>2. Stack'
  <2>1. sw[s] = "off"
    BY <1>0 DEF TypeOK, Place, Locks, Busy
  <2> QED  BY <1>0, <2>1, Slots DEF TypeOK, Stack
<1>3. Place'
  BY <1>0 DEF TypeOK, Place
<1>4. Locks'
  BY <1>0, Slots DEF TypeOK, Locks, Busy
<1>5. Filling'
  BY <1>0 DEF Filling
<1>6. Family'
  BY <1>0 DEF Family, HasLivingParent
<1>7. Wakeups'
  BY <1>0 DEF Wakeups, Sleepy, Kid
<1> QED  BY <1>1, <1>2, <1>3, <1>4, <1>5, <1>6, <1>7 DEF IInv

\* A process back from sched() gives up the lock that came with it.
LEMMA ResumeKeeps ==
    ASSUME IInv, NEW s \in Slot, Resume(s)
    PROVE  IInv'
<1> USE DEF Resume, At
<1>0. TypeOK /\ Stack /\ Place /\ Locks /\ Filling /\ Family /\ Wakeups
  BY DEF IInv
<1>1. TypeOK'
  BY <1>0 DEF TypeOK
<1>2. Stack'
  BY <1>0 DEF Stack
<1>3. Place'
  BY <1>0 DEF TypeOK, Place
<1>4. Locks'
  BY <1>0 DEF TypeOK, Place, Locks, Busy, Waiting
<1>5. Filling'
  BY <1>0 DEF TypeOK, Filling, Forking
<1>6. Family'
  BY <1>0 DEF TypeOK, Family, Leaving, Childless, HasLivingParent
<1>7. Wakeups'
  BY <1>0, Slots DEF TypeOK, Wakeups, Sleepy, Kid, Place, Waiting, Family,
     Leaving, HasLivingParent
<1> QED  BY <1>1, <1>2, <1>3, <1>4, <1>5, <1>6, <1>7 DEF IInv

\* sched() ends with the stack saved and the lock of the process free.
LEMMA SchedKeeps ==
    ASSUME IInv, NEW s \in Slot, Sched(s)
    PROVE  IInv'
<1> USE DEF Sched, proc
<1>0. TypeOK /\ Stack /\ Place /\ Locks /\ Filling /\ Family /\ Wakeups
  BY DEF IInv
<1>a. /\ On(s) \in CPU /\ cpu[On(s)] = s
      /\ \A d \in CPU : cpu[d] = s => d = On(s)
  BY <1>0, OnCpu
<1>1. TypeOK'
  BY <1>0, <1>a DEF TypeOK
<1>2. Stack'
  BY <1>0, <1>a, Slots DEF TypeOK, Stack
<1>3. Place'
  BY <1>0 DEF Place
<1>4. Locks'
  BY <1>0, <1>a DEF TypeOK, Place, Locks, Busy
<1>5. Filling'
  BY <1>0 DEF Filling
<1>6. Family'
  BY <1>0 DEF Family, HasLivingParent
<1>7. Wakeups'
  BY <1>0 DEF Wakeups, Sleepy, Kid
<1> QED  BY <1>1, <1>2, <1>3, <1>4, <1>5, <1>6, <1>7 DEF IInv

\* yield() happens where no other lock is held.
LEMMA YieldKeeps ==
    ASSUME IInv, NEW s \in Slot, Yield(s)
    PROVE  IInv'
<1> USE DEF Yield, Free
<1>0. TypeOK /\ Stack /\ Place /\ Locks /\ Filling /\ Family /\ Wakeups
  BY DEF IInv
<1>a. /\ On(s) \in CPU /\ cpu[On(s)] = s
      /\ \A d \in CPU : cpu[d] = s => d = On(s)
  BY <1>0, OnCpu
<1>1. TypeOK'
  BY <1>0, <1>a DEF TypeOK
<1>2. Stack'
  BY <1>0 DEF Stack
<1>3. Place'
  BY <1>0 DEF TypeOK, Place, Waiting
<1>4. Locks'
  BY <1>0, <1>a DEF TypeOK, Locks, Busy
<1>5. Filling'
  BY <1>0 DEF Place, Filling
<1>6. Family'
  BY <1>0 DEF Place, Family, HasLivingParent
<1>7. Wakeups'
  BY <1>0 DEF Wakeups, Sleepy, Kid
<1> QED  BY <1>1, <1>2, <1>3, <1>4, <1>5, <1>6, <1>7 DEF IInv

\* allocproc() finds a slot that no other call of fork is filling.
LEMMA ForkAllocKeeps ==
    ASSUME IInv, NEW s \in Slot, NEW np \in Slot, ForkAlloc(s, np)
    PROVE  IInv'
<1> USE DEF ForkAlloc, Runs, Free, locks, thread
<1>0. TypeOK /\ Stack /\ Place /\ Locks /\ Filling /\ Family /\ Wakeups
  BY DEF IInv
<1>1. TypeOK'
  <2>1. CASE /\ pid' = [pid EXCEPT ![np] = nextpid]
            /\ state' = [state EXCEPT ![np] = "USED"]
            /\ pc' = [pc EXCEPT ![s] = "forkp", ![np] = "user"]
            /\ sw' = [sw EXCEPT ![np] = "off"]
            /\ idx' = [idx EXCEPT ![s] = np]
            /\ UNCHANGED killed
    <3> QED  BY <1>0, <2>1, Slots DEF TypeOK
  <2>2. CASE /\ killed' = [killed EXCEPT ![np] = FALSE]
            /\ UNCHANGED <<pid, state, thread>>
    <3> QED  BY <1>0, <2>2 DEF TypeOK
  <2> QED  BY <2>1, <2>2
<1>2. Stack'
  BY <1>0 DEF TypeOK, Stack, Place
<1>3. Place'
  BY <1>0 DEF TypeOK, Place, Waiting
<1>4. Locks'
  BY <1>0 DEF TypeOK, Place, Locks, Busy, Waiting
<1>5. Filling'
  <2>1. CASE /\ state' = [state EXCEPT ![np] = "USED"]
            /\ pc' = [pc EXCEPT ![s] = "forkp", ![np] = "user"]
            /\ sw' = [sw EXCEPT ![np] = "off"]
            /\ idx' = [idx EXCEPT ![s] = np]
            /\ UNCHANGED killed
    <3> QED  BY <1>0 DEF TypeOK, Filling, Forking
  <2>2. CASE UNCHANGED <<pid, state, thread>>
    BY <1>0, <2>2 DEF Filling
  <2> QED  BY <2>1, <2>2
<1>6. Family'
  BY <1>0, Slots DEF TypeOK, Place, Family, Leaving, Childless,
     HasLivingParent
<1>7. Wakeups'
  <2>1. CASE /\ state' = [state EXCEPT ![np] = "USED"]
            /\ pc' = [pc EXCEPT ![s] = "forkp", ![np] = "user"]
            /\ sw' = [sw EXCEPT ![np] = "off"]
            /\ idx' = [idx EXCEPT ![s] = np]
            /\ UNCHANGED killed
    <3>1. s # np /\ pc[np] \in {"user", "dead"}
      BY <1>0 DEF Place
    <3>2. \A t \in Slot : t \notin {s, np} =>
               pc'[t] = pc[t] /\ idx'[t] = idx[t] /\ state'[t] = state[t]
      BY <1>0 DEF TypeOK
    <3>3. /\ pc'[s] = "forkp" /\ state'[s] = state[s]
          /\ pc'[np] = "user" /\ state'[np] = "USED"
      BY <1>0, <2>1 DEF TypeOK
    <3>4. \A t \in Slot : /\ Sleepy(t)' <=> Sleepy(t)
                          /\ \A p \in Slot : Kid(t, p)' <=> Kid(t, p)
      BY <3>1, <3>2, <3>3 DEF Sleepy, Kid
    <3>5. \A t \in Slot : pc[t] \in Waiting =>
               parent[t] \in Slot \/ pc[t] \in {"scan", "sleep1"}
      BY <1>0, ParentSlot DEF Waiting, Leaving
    <3> QED  BY <1>0, <3>1, <3>2, <3>3, <3>4, <3>5 DEF Wakeups, Waiting
  <2>2. CASE UNCHANGED <<pid, state, thread>>
    BY <1>0, <2>2 DEF Wakeups, Sleepy, Kid
  <2> QED  BY <2>1, <2>2
<1> QED  BY <1>1, <1>2, <1>3, <1>4, <1>5, <1>6, <1>7 DEF IInv

\* fork() links the child to a parent that is not leaving.
LEMMA ForkParentKeeps ==
    ASSUME IInv, NEW s \in Slot, ForkParent(s)
    PROVE  IInv'
<1> USE DEF ForkParent, Runs, At, locks
<1>0. TypeOK /\ Stack /\ Place /\ Locks /\ Filling /\ Family /\ Wakeups
  BY DEF IInv
<1>1. TypeOK'
  <2>1. idx[s] \in Slot /\ s \in 0 .. NPROC
    BY <1>0, Slots DEF Filling, Forking
  <2> QED  BY <1>0, <2>1 DEF TypeOK
<1>2. Stack'
  BY <1>0 DEF Stack
<1>3. Place'
  BY <1>0 DEF Place
<1>4. Locks'
  BY <1>0 DEF Locks, Busy, Waiting
<1>5. Filling'
  BY <1>0 DEF TypeOK, Filling, Forking
<1>6. Family'
  BY <1>0 DEF Place, Family, Leaving, Childless, HasLivingParent, Filling,
     Forking
<1>7. Wakeups'
  BY <1>0 DEF Wakeups, Sleepy, Kid, Locks, Waiting, Filling, Forking
<1> QED  BY <1>1, <1>2, <1>3, <1>4, <1>5, <1>6, <1>7 DEF IInv

\* The child of fork() is complete and has its parent when it is runnable.
LEMMA ForkRunnableKeeps ==
    ASSUME IInv, NEW s \in Slot, ForkRunnable(s)
    PROVE  IInv'
<1> USE DEF ForkRunnable, Runs, Free, At, locks
<1>0. TypeOK /\ Stack /\ Place /\ Locks /\ Filling /\ Family /\ Wakeups
  BY DEF IInv
<1>1. TypeOK'
  BY <1>0 DEF TypeOK, Filling, Forking
<1>2. Stack'
  BY <1>0 DEF Stack
<1>3. Place'
  BY <1>0 DEF Place, Filling, Forking
<1>4. Locks'
  BY <1>0 DEF Locks, Busy, Waiting
<1>5. Filling'
  BY <1>0 DEF TypeOK, Filling, Forking
<1>6. Family'
  BY <1>0, Slots DEF Place, Family, Leaving, Childless, HasLivingParent,
     Filling
<1>7. Wakeups'
  BY <1>0 DEF Wakeups, Sleepy, Kid
<1> QED  BY <1>1, <1>2, <1>3, <1>4, <1>5, <1>6, <1>7 DEF IInv

\* Entering wait() takes no lock yet.
LEMMA CallWaitKeeps ==
    ASSUME IInv, NEW s \in Slot, CallWait(s)
    PROVE  IInv'
<1> USE DEF CallWait, Runs, At, proc, locks
<1>0. TypeOK /\ Stack /\ Place /\ Locks /\ Filling /\ Family /\ Wakeups
  BY DEF IInv
<1>1. TypeOK'
  BY <1>0 DEF TypeOK
<1>2. Stack'
  BY <1>0 DEF Stack
<1>3. Place'
  BY <1>0 DEF Place
<1>4. Locks'
  BY <1>0 DEF Locks, Busy, Waiting
<1>5. Filling'
  BY <1>0 DEF Filling, Forking
<1>6. Family'
  BY <1>0 DEF Family, Leaving, Childless, HasLivingParent
<1>7. Wakeups'
  BY <1>0 DEF Wakeups, Sleepy, Kid
<1> QED  BY <1>1, <1>2, <1>3, <1>4, <1>5, <1>6, <1>7 DEF IInv

\* wait() enters the critical section of wait_lock with nothing seen.
LEMMA WaitLockKeeps ==
    ASSUME IInv, NEW s \in Slot, WaitLock(s)
    PROVE  IInv'
<1> USE DEF WaitLock, Runs, At, proc
<1>0. TypeOK /\ Stack /\ Place /\ Locks /\ Filling /\ Family /\ Wakeups
  BY DEF IInv
<1>a. /\ On(s) \in CPU /\ cpu[On(s)] = s
      /\ \A d \in CPU : cpu[d] = s => d = On(s)
  BY <1>0, OnCpu
<1>1. TypeOK'
  BY <1>0, <1>a DEF TypeOK
<1>2. Stack'
  BY <1>0 DEF Stack
<1>3. Place'
  BY <1>0 DEF Place
<1>4. Locks'
  BY <1>0, <1>a DEF TypeOK, Locks, Busy, Waiting
<1>5. Filling'
  BY <1>0 DEF TypeOK, Filling, Forking
<1>6. Family'
  BY <1>0 DEF Family, Leaving, Childless, HasLivingParent
<1>7. Wakeups'
  BY <1>0, Slots DEF TypeOK, Wakeups, Sleepy, Kid
<1> QED  BY <1>1, <1>2, <1>3, <1>4, <1>5, <1>6, <1>7 DEF IInv

\* What wait() has passed is no zombie child, and stays none.
LEMMA ScanKeeps ==
    ASSUME IInv, NEW s \in Slot, Scan(s)
    PROVE  IInv'
<1> USE DEF Scan, Runs, Free, proc, locks
<1>0. TypeOK /\ Stack /\ Place /\ Locks /\ Filling /\ Family /\ Wakeups
  BY DEF IInv
<1>1. TypeOK'
  BY <1>0 DEF TypeOK
<1>2. Stack'
  BY <1>0 DEF Stack
<1>3. Place'
  BY <1>0 DEF Place
<1>4. Locks'
  BY <1>0 DEF Locks, Busy
<1>5. Filling'
  BY <1>0 DEF TypeOK, Filling, Forking
<1>6. Family'
  BY <1>0 DEF Family, HasLivingParent
<1>7. Wakeups'
  <2>1. ~Kid(idx[s], s)
    BY DEF Kid
  <2>2. ASSUME NEW z \in Slot, z < idx'[s]
        PROVE  ~Kid(z, s)
    <3>1. idx'[s] = idx[s] + 1 /\ idx[s] \in Nat /\ z \in Nat
      BY <1>0, Slots DEF TypeOK
    <3>2. z = idx[s] \/ z < idx[s]
      BY <2>2, <3>1
    <3> QED  BY <1>0, <2>1, <3>2 DEF Wakeups
  <2> QED  BY <1>0, <2>2 DEF Wakeups, Sleepy, Kid
<1> QED  BY <1>1, <1>2, <1>3, <1>4, <1>5, <1>6, <1>7 DEF IInv

\* freeproc() in wait() frees a slot that has no stack and no children.
LEMMA ReapKeeps ==
    ASSUME IInv, NEW s \in Slot, Reap(s)
    PROVE  IInv'
<1> USE DEF Reap, Runs, Free, WaitReturns, At
<1>0. TypeOK /\ Stack /\ Place /\ Locks /\ Filling /\ Family /\ Wakeups
  BY DEF IInv
<1>1. TypeOK'
  <2>1. idx[s] \in Slot
    BY <1>0, Slots DEF TypeOK, Filling
  <2> QED  BY <1>0, <2>1 DEF TypeOK
<1>2. Stack'
  BY <1>0 DEF Stack
<1>3. Place'
  BY <1>0 DEF TypeOK, Place, Locks, Busy
<1>4. Locks'
  BY <1>0 DEF TypeOK, Locks, Busy, Waiting
<1>5. Filling'
  BY <1>0 DEF TypeOK, Filling, Forking
<1>6. Family'
  BY <1>0, Slots DEF TypeOK, Place, Family, Leaving, Childless, HasLivingParent
<1>7. Wakeups'
  BY <1>0 DEF TypeOK, Wakeups, Sleepy, Kid, Locks, Waiting
<1> QED  BY <1>1, <1>2, <1>3, <1>4, <1>5, <1>6, <1>7 DEF IInv

\* A failing copyout() in wait() leaves the zombie with its parent.
LEMMA ReapBadAddressKeeps ==
    ASSUME IInv, NEW s \in Slot, ReapBadAddress(s)
    PROVE  IInv'
<1> USE DEF ReapBadAddress, Runs, Free, WaitReturns, At, proc
<1>0. TypeOK /\ Stack /\ Place /\ Locks /\ Filling /\ Family /\ Wakeups
  BY DEF IInv
<1>1. TypeOK'
  BY <1>0 DEF TypeOK
<1>2. Stack'
  BY <1>0 DEF Stack
<1>3. Place'
  BY <1>0 DEF Place
<1>4. Locks'
  BY <1>0 DEF TypeOK, Locks, Busy, Waiting
<1>5. Filling'
  BY <1>0 DEF TypeOK, Filling, Forking
<1>6. Family'
  BY <1>0 DEF Family, Childless, HasLivingParent
<1>7. Wakeups'
  BY <1>0 DEF TypeOK, Wakeups, Sleepy, Kid
<1> QED  BY <1>1, <1>2, <1>3, <1>4, <1>5, <1>6, <1>7 DEF IInv

\* wait() goes to sleep only after a whole scan without a zombie child.
LEMMA WaitTestKeeps ==
    ASSUME IInv, NEW s \in Slot, WaitTest(s)
    PROVE  IInv'
<1> USE DEF WaitTest, Runs, Free, WaitReturns, At, HasKids, proc
<1>0. TypeOK /\ Stack /\ Place /\ Locks /\ Filling /\ Family /\ Wakeups
  BY DEF IInv
<1>1. TypeOK'
  BY <1>0 DEF TypeOK
<1>2. Stack'
  BY <1>0 DEF Stack
<1>3. Place'
  BY <1>0 DEF TypeOK, Place
<1>4. Locks'
  BY <1>0 DEF TypeOK, Locks, Busy, Waiting
<1>5. Filling'
  BY <1>0 DEF TypeOK, Filling, Forking
<1>6. Family'
  BY <1>0 DEF TypeOK, Family, Leaving, Childless, HasLivingParent
<1>7. Wakeups'
  BY <1>0, Slots DEF TypeOK, Wakeups, Sleepy, Kid, Place, Locks, Busy, Waiting
<1> QED  BY <1>1, <1>2, <1>3, <1>4, <1>5, <1>6, <1>7 DEF IInv

\* sleep() has p->lock before it lets wait_lock go.
LEMMA SleepLockKeeps ==
    ASSUME IInv, NEW s \in Slot, SleepLock(s)
    PROVE  IInv'
<1> USE DEF SleepLock, Runs, Free, At, proc
<1>0. TypeOK /\ Stack /\ Place /\ Locks /\ Filling /\ Family /\ Wakeups
  BY DEF IInv
<1>a. /\ On(s) \in CPU /\ cpu[On(s)] = s
      /\ \A d \in CPU : cpu[d] = s => d = On(s)
  BY <1>0, OnCpu
<1>1. TypeOK'
  BY <1>0, <1>a DEF TypeOK
<1>2. Stack'
  BY <1>0 DEF Stack
<1>3. Place'
  BY <1>0 DEF Place
<1>4. Locks'
  BY <1>0, <1>a DEF TypeOK, Locks, Busy, Waiting
<1>5. Filling'
  BY <1>0 DEF Filling, Forking
<1>6. Family'
  BY <1>0 DEF Family, Leaving, Childless, HasLivingParent
<1>7. Wakeups'
  BY <1>0 DEF Wakeups, Sleepy, Kid, Locks, Waiting
<1> QED  BY <1>1, <1>2, <1>3, <1>4, <1>5, <1>6, <1>7 DEF IInv

\* sleep() is asleep before its lock can be taken by a wakeup.
LEMMA SleepSetKeeps ==
    ASSUME IInv, NEW s \in Slot, SleepSet(s)
    PROVE  IInv'
<1> USE DEF SleepSet, Runs, At, locks
<1>0. TypeOK /\ Stack /\ Place /\ Locks /\ Filling /\ Family /\ Wakeups
  BY DEF IInv
<1>1. TypeOK'
  BY <1>0, Slots DEF TypeOK
<1>2. Stack'
  BY <1>0 DEF Stack
<1>3. Place'
  BY <1>0 DEF TypeOK, Place, Waiting
<1>4. Locks'
  BY <1>0 DEF TypeOK, Locks, Busy, Waiting
<1>5. Filling'
  BY <1>0 DEF Place, Filling, Forking
<1>6. Family'
  BY <1>0 DEF Place, Family, Leaving, Childless, HasLivingParent
<1>7. Wakeups'
  BY <1>0 DEF Wakeups, Sleepy, Kid
<1> QED  BY <1>1, <1>2, <1>3, <1>4, <1>5, <1>6, <1>7 DEF IInv

\* Entering exit() takes no lock yet; init does not get there.
LEMMA CallExitKeeps ==
    ASSUME IInv, NEW s \in Slot, CallExit(s)
    PROVE  IInv'
<1> USE DEF CallExit, Runs, At, proc, locks
<1>0. TypeOK /\ Stack /\ Place /\ Locks /\ Filling /\ Family /\ Wakeups
  BY DEF IInv
<1>1. TypeOK'
  BY <1>0 DEF TypeOK
<1>2. Stack'
  BY <1>0 DEF Stack
<1>3. Place'
  BY <1>0 DEF Place
<1>4. Locks'
  BY <1>0 DEF Locks, Busy, Waiting
<1>5. Filling'
  BY <1>0 DEF Filling, Forking
<1>6. Family'
  BY <1>0 DEF Family, Childless, HasLivingParent
<1>7. Wakeups'
  BY <1>0 DEF Wakeups, Sleepy, Kid
<1> QED  BY <1>1, <1>2, <1>3, <1>4, <1>5, <1>6, <1>7 DEF IInv

\* A process that marks itself as killed goes to exit() as any other.
LEMMA FaultKeeps ==
    ASSUME IInv, NEW s \in Slot, Fault(s)
    PROVE  IInv'
<1> USE DEF Fault, Runs, Free, At, locks
<1>0. TypeOK /\ Stack /\ Place /\ Locks /\ Filling /\ Family /\ Wakeups
  BY DEF IInv
<1>1. TypeOK'
  <2>1. pid[s] \in Nat
    BY <1>0 DEF TypeOK
  <2>2. asked' \subseteq Nat
    BY <1>0, <2>1, Zenon DEF TypeOK
  <2> QED  BY <1>0, <2>2 DEF TypeOK
<1>2. Stack'
  BY <1>0 DEF Stack
<1>3. Place'
  BY <1>0 DEF Place
<1>4. Locks'
  BY <1>0 DEF Locks, Busy, Waiting
<1>5. Filling'
  BY <1>0 DEF Filling, Forking
<1>6. Family'
  BY <1>0 DEF Family, Childless, HasLivingParent
<1>7. Wakeups'
  BY <1>0 DEF Wakeups, Sleepy, Kid
<1> QED  BY <1>1, <1>2, <1>3, <1>4, <1>5, <1>6, <1>7 DEF IInv

\* exit() enters the critical section of wait_lock.
LEMMA ExitLockKeeps ==
    ASSUME IInv, NEW s \in Slot, ExitLock(s)
    PROVE  IInv'
<1> USE DEF ExitLock, Runs, At, proc
<1>0. TypeOK /\ Stack /\ Place /\ Locks /\ Filling /\ Family /\ Wakeups
  BY DEF IInv
<1>a. /\ On(s) \in CPU /\ cpu[On(s)] = s
      /\ \A d \in CPU : cpu[d] = s => d = On(s)
  BY <1>0, OnCpu
<1>1. TypeOK'
  BY <1>0, <1>a DEF TypeOK
<1>2. Stack'
  BY <1>0 DEF Stack
<1>3. Place'
  BY <1>0 DEF Place
<1>4. Locks'
  BY <1>0, <1>a DEF TypeOK, Locks, Busy, Waiting
<1>5. Filling'
  BY <1>0 DEF Filling, Forking
<1>6. Family'
  BY <1>0 DEF Family, Leaving, Childless, HasLivingParent
<1>7. Wakeups'
  BY <1>0 DEF Wakeups, Sleepy, Kid
<1> QED  BY <1>1, <1>2, <1>3, <1>4, <1>5, <1>6, <1>7 DEF IInv

\* reparent() leaves no child behind, and init is woken if it got one.
LEMMA ReparentKeeps ==
    ASSUME IInv, NEW s \in Slot, Reparent(s)
    PROVE  IInv'
<1> USE DEF Reparent, Runs, At, HasKids, locks, initproc
<1>0. TypeOK /\ Stack /\ Place /\ Locks /\ Filling /\ Family /\ Wakeups
  BY DEF IInv
<1>1. TypeOK'
  BY <1>0 DEF TypeOK
<1>2. Stack'
  BY <1>0 DEF Stack
<1>3. Place'
  BY <1>0 DEF Place
<1>4. Locks'
  BY <1>0 DEF Locks, Busy, Waiting
<1>5. Filling'
  BY <1>0 DEF TypeOK, Filling, Forking
<1>6. Family'
  BY <1>0, Slots DEF Family, Leaving, Childless, HasLivingParent
<1>7. Wakeups'
  BY <1>0 DEF TypeOK, Wakeups, Sleepy, Kid, Place, Locks, Waiting, Family,
     Leaving, HasLivingParent
<1> QED  BY <1>1, <1>2, <1>3, <1>4, <1>5, <1>6, <1>7 DEF IInv

\* wakeup() leaves the parent awake once it has passed its slot.
LEMMA WakeKeeps ==
    ASSUME IInv, NEW s \in Slot, Wake(s)
    PROVE  IInv'
<1> USE DEF Wake, WakeOne, Free, locks, initproc
<1>0. TypeOK /\ Stack /\ Place /\ Locks /\ Filling /\ Family /\ Wakeups
  BY DEF IInv
<1>1. TypeOK'
  <2>1. idx[s] \in Slot /\ idx[s] + 1 \in 0 .. NPROC + 1
    BY <1>0, Slots DEF TypeOK, Filling
  <2>2. state' \in [Slot -> {"UNUSED", "USED", "RUNNABLE", "RUNNING",
                            "SLEEPING", "ZOMBIE"}]
    BY <1>0, <2>1 DEF TypeOK
  <2> QED  BY <1>0, <2>2 DEF TypeOK
<1>2. Stack'
  BY <1>0 DEF Stack
<1>3. Place'
  BY <1>0 DEF Place
<1>4. Locks'
  BY <1>0 DEF Locks, Busy
<1>5. Filling'
  BY <1>0 DEF TypeOK, Filling, Forking
<1>6. Family'
  BY <1>0 DEF Family, HasLivingParent
<1>7. Wakeups'
  <2> DEFINE i == idx[s]
  <2>1. i \in Slot /\ s # initproc /\ parent[s] # s
    BY <1>0, Slots DEF TypeOK, Filling, Family, Leaving, Childless
  <2>2. \A t \in Slot : pc[t] \in Waiting => t = s
    BY <1>0, OneHolder DEF Waiting
  <2>9. /\ \A t \in Slot \ {s} : idx'[t] = idx[t]
        /\ idx'[s] = i + 1
    BY <1>0 DEF TypeOK
  <2>4. \A t, p \in Slot : /\ Sleepy(t)' => Sleepy(t)
                           /\ Kid(t, p)' <=> Kid(t, p)
    BY DEF Sleepy, Kid
  <2>5. ASSUME NEW j \in Slot, j = i, j # s,
               j = (IF pc[s] = "wakeinit" THEN initproc ELSE parent[s])
        PROVE  ~Sleepy(j)'
    <3>1. pc[j] # "sleep2"
      BY <1>0, <2>5 DEF Locks, Busy
    <3>2. CASE state[j] = "SLEEPING"
      <4>1. chan[j] = j
        BY <1>0, <3>2 DEF Place
      <4>2. state'[j] = "RUNNABLE"
        BY <1>0, <2>5, <3>2, <4>1 DEF TypeOK
      <4> QED  BY <3>1, <4>2 DEF Sleepy
    <3>3. CASE state[j] # "SLEEPING"
      BY <3>1, <3>3 DEF Sleepy
    <3> QED  BY <3>2, <3>3
  <2>6. parent[s] \in Slot
    BY <1>0, <2>1, Slots DEF TypeOK, Family, HasLivingParent, Place
  <2>7. \A t \in Slot : \/ pc[t] = "wakeparent" /\ idx'[t] > parent[t]
                       \/ pc[t] = "exit2"
                       => ~Sleepy(parent[t])'
    <3> SUFFICES pc[s] = "wakeparent" /\ i + 1 > parent[s] =>
                     ~Sleepy(parent[s])'
      BY <2>2, <2>9 DEF Waiting
    <3>1. CASE i = parent[s]
      BY <2>1, <2>5, <3>1
    <3>2. CASE i # parent[s] /\ i + 1 > parent[s]
      <4>1. i > parent[s]
        BY <3>2, <2>1, <2>6, Slots
      <4> QED  BY <1>0, <4>1, <2>4, <2>6 DEF Wakeups
    <3> QED  BY <3>1, <3>2
  <2>8. \A p, z \in Slot : ~(Sleepy(p)' /\ Kid(z, p)')
    <3> SUFFICES ASSUME NEW p \in Slot, NEW z \in Slot, Sleepy(p)', Kid(z, p)
                 PROVE  FALSE
      BY <2>4
    <3>1. p = initproc /\ \E t \in Slot : pc[t] = "wakeinit" /\ idx[t] = 1
      BY <1>0, <2>4 DEF Wakeups
    <3>2. pc[s] = "wakeinit" /\ i = initproc
      BY <3>1, <2>2 DEF Waiting
    <3> QED  BY <3>1, <3>2, <2>1, <2>5
  <2> QED  BY <2>2, <2>7, <2>8 DEF Wakeups, Waiting
<1> QED  BY <1>1, <1>2, <1>3, <1>4, <1>5, <1>6, <1>7 DEF IInv

\* After the whole table the parent is awake.
LEMMA WakeDoneKeeps ==
    ASSUME IInv, NEW s \in Slot, WakeDone(s)
    PROVE  IInv'
<1> USE DEF WakeDone, At, proc, locks, initproc
<1>0. TypeOK /\ Stack /\ Place /\ Locks /\ Filling /\ Family /\ Wakeups
  BY DEF IInv
<1>1. TypeOK'
  BY <1>0 DEF TypeOK
<1>2. Stack'
  BY <1>0 DEF Stack
<1>3. Place'
  BY <1>0 DEF TypeOK, Place
<1>4. Locks'
  BY <1>0 DEF TypeOK, Locks, Busy, Waiting
<1>5. Filling'
  <2>1. \A t \in Slot \ {s} : pc'[t] = pc[t] /\ idx'[t] = idx[t]
    BY <1>0 DEF TypeOK
  <2>2. (pc'[s] = "wakeparent" /\ idx'[s] = 1) \/ pc'[s] = "exit2"
    BY <1>0 DEF TypeOK
  <2> QED  BY <1>0, <2>1, <2>2 DEF Filling, Forking
<1>6. Family'
  BY <1>0 DEF TypeOK, Family, Leaving, Childless, HasLivingParent
<1>7. Wakeups'
  BY <1>0, Slots DEF TypeOK, Wakeups, Sleepy, Kid, Place, Locks, Waiting,
     Family, Leaving, Childless, HasLivingParent
<1> QED  BY <1>1, <1>2, <1>3, <1>4, <1>5, <1>6, <1>7 DEF IInv

\* exit() makes a zombie under both locks, with its parent awake.
LEMMA ExitZombieKeeps ==
    ASSUME IInv, NEW s \in Slot, ExitZombie(s)
    PROVE  IInv'
<1> USE DEF ExitZombie, Runs, Free, At
<1>0. TypeOK /\ Stack /\ Place /\ Locks /\ Filling /\ Family /\ Wakeups
  BY DEF IInv
<1>a. /\ On(s) \in CPU /\ cpu[On(s)] = s
      /\ \A d \in CPU : cpu[d] = s => d = On(s)
  BY <1>0, OnCpu
<1>1. TypeOK'
  BY <1>0, <1>a DEF TypeOK
<1>2. Stack'
  BY <1>0 DEF Stack
<1>3. Place'
  BY <1>0 DEF TypeOK, Place, Waiting
<1>4. Locks'
  BY <1>0, <1>a DEF TypeOK, Locks, Busy, Waiting
<1>5. Filling'
  BY <1>0 DEF Place, Filling, Forking
<1>6. Family'
  BY <1>0 DEF Place, Family, Leaving, Childless, HasLivingParent
<1>7. Wakeups'
  BY <1>0 DEF Wakeups, Sleepy, Kid, Locks, Waiting
<1> QED  BY <1>1, <1>2, <1>3, <1>4, <1>5, <1>6, <1>7 DEF IInv

\* kill() changes the state of a sleeper only.
LEMMA KillKeeps ==
    ASSUME IInv, NEW s \in Slot, NEW q \in Slot, Kill(s, q)
    PROVE  IInv'
<1> USE DEF Kill, Runs, Free, locks, thread
<1>0. TypeOK /\ Stack /\ Place /\ Locks /\ Filling /\ Family /\ Wakeups
  BY DEF IInv
<1>1. TypeOK'
  <2>2. pid[q] \in Nat
    BY <1>0 DEF TypeOK
  <2>3. asked' \subseteq Nat
    BY <1>0, <2>2, Zenon DEF TypeOK
  <2> QED  BY <1>0, <2>3 DEF TypeOK
<1>2. Stack'
  BY <1>0 DEF Stack
<1>3. Place'
  BY <1>0 DEF Place
<1>4. Locks'
  BY <1>0 DEF Locks, Busy
<1>5. Filling'
  BY <1>0 DEF Filling
<1>6. Family'
  BY <1>0 DEF Family, HasLivingParent
<1>7. Wakeups'
  BY <1>0 DEF Wakeups, Sleepy, Kid
<1> QED  BY <1>1, <1>2, <1>3, <1>4, <1>5, <1>6, <1>7 DEF IInv

-----------------------------------------------------------------------------
(* The theorems *)

\* The invariant holds in every step of every execution of proc.c.
THEOREM ProcInvariant == Spec => []IInv
<1>1. ASSUME IInv, [Next]_vars
      PROVE  IInv'
  <2>1. CASE UNCHANGED vars
    BY <1>1, <2>1 DEF vars, proc, locks, thread, IInv, TypeOK, Stack, Place,
       Locks, Busy, Filling, Family, HasLivingParent, Wakeups, Sleepy, Kid
  <2>2. ASSUME NEW s \in Slot, KernelStep(s)
        PROVE  IInv'
    BY <1>1, <2>2, ForkParentKeeps, ForkRunnableKeeps, WaitLockKeeps,
       ScanKeeps, ReapKeeps, ReapBadAddressKeeps, WaitTestKeeps,
       SleepLockKeeps, SleepSetKeeps, ExitLockKeeps, ReparentKeeps, WakeKeeps,
       WakeDoneKeeps, ExitZombieKeeps DEF KernelStep
  <2>3. ASSUME NEW s \in Slot,
               \/ Resume(s) \/ Sched(s) \/ Yield(s)
               \/ CallWait(s) \/ CallExit(s) \/ Fault(s)
        PROVE  IInv'
    BY <1>1, <2>3, ResumeKeeps, SchedKeeps, YieldKeeps, CallWaitKeeps,
       CallExitKeeps, FaultKeeps
  <2>4. ASSUME NEW s \in Slot, NEW c \in CPU, Schedule(c, s)
        PROVE  IInv'
    BY <1>1, <2>4, ScheduleKeeps
  <2>5. ASSUME NEW s \in Slot, NEW q \in Slot, ForkAlloc(s, q) \/ Kill(s, q)
        PROVE  IInv'
    BY <1>1, <2>5, ForkAllocKeeps, KillKeeps
  <2> QED  BY <1>1, <2>1, <2>2, <2>3, <2>4, <2>5 DEF Next
<1> QED  BY Start, <1>1, PTL DEF Spec

\* Two CPUs are never on one kernel stack, and wait() never frees a process
\* that is still on its own (scheduler, sched, freeproc).
THEOREM StackIsExclusive == Spec => []StackExclusive
<1>1. IInv => StackExclusive
  BY DEF IInv, Stack, Place, StackExclusive
<1> QED  BY ProcInvariant, <1>1, PTL

\* sched() never panics: who gives up a CPU holds its own lock and no other,
\* and is no longer marked as running (yield, sleep, exit, sched).
THEOREM SchedNeverPanics == Spec => []SchedChecks
<1>1. ASSUME IInv
      PROVE  SchedChecks
  <2>0. TypeOK /\ Stack /\ Place /\ Locks
    BY <1>1 DEF IInv
  <2>1. ASSUME NEW s \in Slot, sw[s] = "swtch"
        PROVE  /\ plock[s] = On(s) /\ state[s] # "RUNNING"
               /\ waitlock # On(s)
               /\ \A q \in Slot \ {s} : plock[q] # On(s)
    <3>1. /\ On(s) \in CPU /\ cpu[On(s)] = s
          /\ \A c \in CPU : cpu[c] = s => c = On(s)
      BY <2>0, <2>1, OnCpu
    <3>2. plock[s] = On(s) /\ state[s] # "RUNNING"
      BY <2>0, <2>1, <3>1 DEF Locks, Busy, Place
    <3>3. waitlock # On(s)
      BY <2>0, <2>1, <3>1 DEF Locks, Place
    <3>4. \A q \in Slot \ {s} : plock[q] # On(s)
      BY <2>0, <3>1 DEF Locks
    <3> QED  BY <3>2, <3>3, <3>4
  <2> QED  BY <2>0, <2>1 DEF SchedChecks
<1> QED  BY ProcInvariant, <1>1, PTL

\* No wakeup is lost between wait() and exit(): while nobody is inside the
\* critical sections of wait_lock no parent sleeps beside a zombie child.
THEOREM NoWakeupLost == Spec => []NoMissedZombie
<1>1. ASSUME IInv, waitlock = NoCpu
      PROVE  ~ \E p, z \in Slot : /\ state[p] = "SLEEPING" /\ chan[p] = p
                                  /\ state[z] = "ZOMBIE" /\ parent[z] = p
  <2>1. \A s \in Slot : pc[s] # "wakeinit"
    BY <1>1 DEF IInv, Locks, Waiting
  <2> QED  BY <1>1, <2>1 DEF IInv, Wakeups, Sleepy, Kid
<1>2. IInv => NoMissedZombie
  BY <1>1 DEF NoMissedZombie
<1> QED  BY ProcInvariant, <1>2, PTL

\* Every process but init has a parent that can still wait for it (fork,
\* reparent, exit).
THEOREM ParentsAreAlive == Spec => []HasLivingParent
<1>1. IInv => HasLivingParent
  BY DEF IInv, Family
<1> QED  BY ProcInvariant, <1>1, PTL

\* The spinlocks of proc.c are never waited for in a circle, on any number of
\* CPUs (fork, wait, sleep, exit, reparent, wakeup): who is waited for at
\* wait_lock waits for a p->lock at most, and who is waited for at a p->lock
\* waits for nothing.
THEOREM LocksAreOrdered == Spec => []NoLockCircle
<1>1. ASSUME IInv
      PROVE  NoLockCircle
  <2>0. TypeOK /\ Stack /\ Place /\ Locks
    BY <1>1 DEF IInv
  <2>1. ASSUME NEW s \in Slot, NEW t \in Slot, NEW u \in Slot,
               NEW q \in Slot, plock[q] \in CPU, cpu[plock[q]] = t,
               SpinsFor(t, u)
        PROVE  FALSE
    <3>1. Busy(q) /\ t = q
      BY <2>0, <2>1, NoCpuAssumption DEF Locks
    <3> QED  BY <2>1, <3>1 DEF Busy, SpinsFor, WantsWaitLock, WantsLock
  <2>2. ASSUME NEW s \in Slot, NEW t \in Slot,
               WantsWaitLock(s), waitlock \in CPU, cpu[waitlock] = t
        PROVE  ~WantsWaitLock(t)
    <3>1. pc[t] \in Waiting
      BY <2>0, <2>2, NoCpuAssumption DEF Locks
    <3> QED  BY <3>1 DEF Waiting, WantsWaitLock
  <2>3. ASSUME NEW ring \in (SUBSET Slot) \ {{}},
               \A s \in ring : \E t \in ring : SpinsFor(s, t)
        PROVE  FALSE
    <3>1. PICK s \in ring : TRUE
      BY <2>3
    <3>2. PICK t \in ring : SpinsFor(s, t)
      BY <2>3
    <3>3. PICK u \in ring : SpinsFor(t, u)
      BY <2>3
    <3>4. PICK v \in ring : SpinsFor(u, v)
      BY <2>3
    <3>5. WantsWaitLock(s) /\ waitlock \in CPU /\ cpu[waitlock] = t
      BY <2>1, <3>2, <3>3 DEF SpinsFor
    <3>6. WantsWaitLock(t) /\ waitlock \in CPU /\ cpu[waitlock] = u
      BY <2>1, <3>3, <3>4 DEF SpinsFor
    <3> QED  BY <2>2, <3>5, <3>6
  <2> QED  BY <2>3 DEF NoLockCircle
<1> QED  BY ProcInvariant, <1>1, PTL

\* A process is marked as killed only when kill() was called with its pid or it
\* raised an exception itself; the mark never passes to the next owner of its
\* slot (kill, setkilled, freeproc).  As long as nobody kills pid 0.
THEOREM KilledOnRequest ==
    ASSUME 0 \notin KillPids
    PROVE  Spec => []KilledWasAsked
<1>1. Init => Kills
  BY DEF Init, Kills, KilledWasAsked
<1>2. ASSUME IInv, Kills, [Next]_vars
      PROVE  Kills'
  <2>0. TypeOK /\ Filling
    BY <1>2 DEF IInv
  <2>1. CASE UNCHANGED <<state, pid, killed, asked>>
    BY <1>2, <2>1 DEF Kills, KilledWasAsked
  <2>2. ASSUME NEW s \in Slot, NEW q \in Slot, Kill(s, q)
        PROVE  Kills'
    <3>1. state[q] # "UNUSED"
      BY <1>2, <2>2 DEF Kills, Kill
    <3>2. \A r \in Slot : /\ state'[r] = "UNUSED" <=> state[r] = "UNUSED"
                          /\ pid'[r] = pid[r]
                          /\ r # q => killed'[r] = killed[r]
      BY <2>0, <2>2 DEF Kill, TypeOK
    <3>3. asked \subseteq asked' /\ pid[q] \in asked'
      BY <2>2 DEF Kill
    <3> QED  BY <1>2, <3>1, <3>2, <3>3 DEF Kills, KilledWasAsked
  <2>7. ASSUME NEW s \in Slot, Fault(s)
        PROVE  Kills'
    <3>1. state[s] # "UNUSED"
      BY <1>2, <2>7 DEF IInv, Place, Fault, Runs
    <3>2. /\ state' = state /\ pid' = pid
          /\ \A r \in Slot : r # s => killed'[r] = killed[r]
      BY <2>0, <2>7 DEF Fault, TypeOK
    <3>3. asked \subseteq asked' /\ pid[s] \in asked'
      BY <2>7 DEF Fault
    <3> QED  BY <1>2, <3>1, <3>2, <3>3 DEF Kills, KilledWasAsked
  <2>3. ASSUME NEW s \in Slot, NEW q \in Slot, ForkAlloc(s, q)
        PROVE  Kills'
    BY <1>2, <2>0, <2>3 DEF Kills, KilledWasAsked, ForkAlloc, TypeOK
  <2>4. ASSUME NEW s \in Slot, Reap(s)
        PROVE  Kills'
    <3> QED  BY <1>2, <2>0, <2>4 DEF Kills, KilledWasAsked, Reap, TypeOK
  <2>5. ASSUME UNCHANGED <<pid, killed, asked>>,
               \A r \in Slot : state'[r] = "UNUSED" <=> state[r] = "UNUSED"
        PROVE  Kills'
    BY <1>2, <2>5 DEF Kills, KilledWasAsked
  <2>6. ASSUME NEW s \in Slot,
               \/ Yield(s) \/ SleepSet(s) \/ ExitZombie(s)
               \/ ForkRunnable(s) \/ Wake(s)
               \/ \E c \in CPU : Schedule(c, s)
        PROVE  Kills'
    <3>1. UNCHANGED <<pid, killed, asked>>
      BY <2>6 DEF Yield, SleepSet, ExitZombie, ForkRunnable, Wake, Schedule
    <3>2. /\ state[s] # "UNUSED"
          /\ pc[s] = "forkr" => idx[s] \in Slot /\ state[idx[s]] = "USED"
          /\ pc[s] \in {"wakeinit", "wakeparent"} /\ idx[s] <= NPROC =>
                 idx[s] \in Slot
      BY <1>2, <2>6, Slots DEF IInv, Place, Filling, Forking, TypeOK, Yield,
         SleepSet, ExitZombie, ForkRunnable, Wake, Schedule, Runs
    <3>3. \A r \in Slot : state'[r] = "UNUSED" <=> state[r] = "UNUSED"
      BY <2>0, <2>6, <3>2 DEF TypeOK, Yield, SleepSet, ExitZombie,
         ForkRunnable, Wake, WakeOne, Schedule, Runs
    <3> QED  BY <2>5, <3>1, <3>3
  <2> QED  BY <1>2, <2>1, <2>2, <2>3, <2>4, <2>6, <2>7 DEF Next, KernelStep, vars,
              proc, Resume, Sched, CallWait, CallExit, ForkParent, WaitLock,
              Scan, ReapBadAddress, WaitTest, SleepLock, ExitLock, Reparent,
              WakeDone
<1>3. Kills => KilledWasAsked
  BY DEF Kills
<1> QED  BY ProcInvariant, <1>1, <1>2, <1>3, PTL DEF Spec
=============================================================================
