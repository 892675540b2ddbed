------------------------------- MODULE BlockIO -------------------------------
(***************************************************************************)
(* The buffer cache with its sleep locks (kernel/bio.c, sleeplock.c) on    *)
(* top of the virtio disk driver (kernel/virtio_disk.c) and its device.    *)
(*                                                                         *)
(* A critical section of bcache.lock or of a sleep lock's spin lock is one *)
(* action.  vdisk_lock is kept explicitly, because the interrupt handler   *)
(* works through the used ring with it held while the device goes on.      *)
(* A process sleeps on what its pc says: the lock of its buffer ("lock"),  *)
(* free descriptors ("alloc") or the end of its request ("wait").          *)
(***************************************************************************)
EXTENDS Naturals, Sequences, SequencesExt, FiniteSets

CONSTANTS
    Proc, Blocks, Vals, Nobody,
    NBUF,        \* buffers
    NUM,         \* descriptors, and entries of each ring
    WRAP,        \* the ring indices count modulo WRAP: 2^16
    MaxPins,     \* bound on blocks that are pinned at a time
    MayRunOut    \* do callers ask for a buffer when all are in use?

Bufs == 1 .. NBUF
Desc == 0 .. NUM - 1

\* A chain of descriptors, with the op, the buffer and the status byte it is for.
Request == [op : {"read", "write"}, buf : Bufs, block : Blocks,
            chain : SUBSET Desc, ok : BOOLEAN]

ASSUME BlockIOConstants ==
    /\ NBUF \in Nat \ {0} /\ NUM \in Nat \ {0} /\ WRAP \in Nat
    /\ WRAP >= NUM /\ WRAP % NUM = 0
    /\ IsFiniteSet(Proc) /\ Vals # {}
    /\ Nobody \notin Proc \cup Blocks \cup Desc /\ Nobody \notin Request

VARIABLES
    buf,         \* buf[b]: block, valid, refcnt, whether the disk owns it, data
    lock,        \* who has the sleep lock of b
    lru,         \* the list of buffers, most recently used first
    pinned,      \* blocks with a pin
    pc, at,      \* what each process does, and on which buffer
    op,          \* the disk request it makes: read, unless it is in bwrite
    asleep,
    free,        \* disk.free: descriptors that are free
    req,         \* req[h]: the request whose chain starts at h, or Nobody
    avail, used, \* the rings: [ring, idx]; what has been read is forgotten
    dev,         \* the device: how far it has read, requests it works on
    used_idx,    \* how far the driver has looked
    isr,         \* the device's interrupt is pending
    intr,        \* the handler runs, with vdisk_lock
    disk,        \* disk[k]
    panicked

cache == <<buf, lock, lru, pinned>>
ctl   == <<pc, at, op, asleep>>
ring  == <<free, req, avail, used, dev, used_idx, isr, intr>>
vars  == <<cache, ctl, ring, disk, panicked>>

Cached(k) == {b \in Bufs : buf[b].block = k}
Using(b)  == {p \in Proc : pc[p] # "idle" /\ at[p] = b}
Dirty(b)  == buf[b].valid /\ buf[b].data # disk[buf[b].block]

\* wakeup of everybody who sleeps with pc = c, on buffer b where it matters.
Woken(c, b) == [p \in Proc |->
    asleep[p] /\ ~(pc[p] = c /\ (c = "alloc" \/ at[p] = b))]

Init ==
    /\ buf = [b \in Bufs |-> [block |-> Nobody, valid |-> FALSE, refcnt |-> 0,
                              disk |-> FALSE, data |-> CHOOSE v \in Vals : TRUE]]
    /\ lock = [b \in Bufs |-> Nobody]
    /\ lru = [i \in Bufs |-> NBUF + 1 - i]
    /\ pinned = {}
    /\ pc = [p \in Proc |-> "idle"]
    /\ at = [p \in Proc |-> 1]
    /\ op = [p \in Proc |-> "read"]
    /\ asleep = [p \in Proc |-> FALSE]
    /\ free = Desc
    /\ req = [h \in Desc |-> Nobody]
    /\ avail = [ring |-> [i \in Desc |-> Nobody], idx |-> 0]
    /\ used = [ring |-> [i \in Desc |-> Nobody], idx |-> 0]
    /\ dev = [idx |-> 0, works |-> {}]
    /\ used_idx = 0 /\ isr = FALSE /\ intr = FALSE
    /\ disk = [k \in Blocks |-> CHOOSE v \in Vals : TRUE]
    /\ panicked = FALSE

Panic == panicked' = TRUE /\ UNCHANGED <<cache, ctl, ring, disk>>

-----------------------------------------------------------------------------
(* The buffer cache. *)

\* Mutant: bget looks at the lock instead of the count.
UnusedByLock == {i \in Bufs : lock[lru[i]] = Nobody}

\* The buffer that bget recycles: the least recently used one without users.
Unused     == {i \in Bufs : buf[lru[i]].refcnt = 0}
Recyclable == lru[CHOOSE i \in Unused : \A j \in Unused : j <= i]

\* Mutant: a recycled buffer keeps its valid bit.
BgetKeepsValid(p, k) ==
    LET hit == Cached(k) # {}
        b   == IF hit THEN CHOOSE c \in Cached(k) : TRUE ELSE Recyclable
    IN  /\ ~panicked /\ pc[p] = "idle" /\ (hit \/ Unused # {})
        /\ buf' = [buf EXCEPT ![b].refcnt = @ + 1, ![b].block = k]
        /\ at' = [at EXCEPT ![p] = b]
        /\ pc' = [pc EXCEPT ![p] = "lock"]
        /\ UNCHANGED <<lock, lru, pinned, op, asleep, ring, disk, panicked>>

Bget(p, k) ==
    LET hit == Cached(k) # {}
        b   == IF hit THEN CHOOSE c \in Cached(k) : TRUE ELSE Recyclable
    IN  /\ ~panicked /\ pc[p] = "idle"
        /\ IF ~hit /\ Unused = {} THEN MayRunOut /\ Panic
           ELSE /\ buf' = IF hit THEN [buf EXCEPT ![b].refcnt = @ + 1]
                          ELSE [buf EXCEPT ![b].block = k, ![b].valid = FALSE,
                                           ![b].refcnt = 1]
                /\ at' = [at EXCEPT ![p] = b]
                /\ pc' = [pc EXCEPT ![p] = "lock"]
                /\ UNCHANGED <<lock, lru, pinned, op, asleep, ring, disk, panicked>>

\* acquiresleep, and in bread the test of b->valid under the lock.
AcquireSleep(p) ==
    LET b == at[p] IN
    /\ ~panicked /\ pc[p] = "lock" /\ ~asleep[p]
    /\ IF lock[b] # Nobody
       THEN asleep' = [asleep EXCEPT ![p] = TRUE] /\ UNCHANGED <<lock, pc>>
       ELSE /\ lock' = [lock EXCEPT ![b] = p]
            /\ pc' = [pc EXCEPT ![p] = IF buf[b].valid THEN "held" ELSE "alloc"]
            /\ UNCHANGED asleep
    /\ UNCHANGED <<buf, lru, pinned, at, op, ring, disk, panicked>>

\* The holder changes the data; who does so writes the block or pins it
\* (log_write) before brelse, and unpins it once written (install_trans).
Modify(p, v) ==
    /\ ~panicked /\ pc[p] = "held"
    /\ buf' = [buf EXCEPT ![at[p]].data = v]
    /\ UNCHANGED <<lock, lru, pinned, ctl, ring, disk, panicked>>

Bwrite(p) ==
    /\ ~panicked /\ pc[p] = "held"
    /\ IF lock[at[p]] # p THEN Panic
       ELSE /\ pc' = [pc EXCEPT ![p] = "alloc"]
            /\ op' = [op EXCEPT ![p] = "write"]
            /\ UNCHANGED <<cache, at, asleep, ring, disk, panicked>>

Bpin(p) ==
    LET b == at[p] IN
    /\ ~panicked /\ pc[p] = "held" /\ buf[b].block \notin pinned
    /\ Cardinality(pinned) < MaxPins
    /\ pinned' = pinned \cup {buf[b].block}
    /\ buf' = [buf EXCEPT ![b].refcnt = @ + 1]
    /\ UNCHANGED <<lock, lru, ctl, ring, disk, panicked>>

Bunpin(p) ==
    LET b == at[p] IN
    /\ ~panicked /\ pc[p] = "held" /\ buf[b].block \in pinned /\ ~Dirty(b)
    /\ pinned' = pinned \ {buf[b].block}
    /\ buf' = [buf EXCEPT ![b].refcnt = @ - 1]
    /\ UNCHANGED <<lock, lru, ctl, ring, disk, panicked>>

\* brelse up to releasesleep.
ReleaseSleep(p) ==
    LET b == at[p] IN
    /\ ~panicked /\ pc[p] = "held"
    /\ Dirty(b) => buf[b].block \in pinned
    /\ IF lock[b] # p THEN Panic
       ELSE /\ lock' = [lock EXCEPT ![b] = Nobody]
            /\ asleep' = Woken("lock", b)
            /\ pc' = [pc EXCEPT ![p] = "drop"]
            /\ UNCHANGED <<buf, lru, pinned, at, op, ring, disk, panicked>>

\* The list with b unlinked and put at its head.
AtHead(b) == LET place == CHOOSE i \in Bufs : lru[i] = b
             IN  [i \in Bufs |-> IF i = 1 THEN b
                                ELSE IF i <= place THEN lru[i - 1] ELSE lru[i]]

\* The rest of brelse: the last user puts the buffer at the head of the list.
Brelse(p) ==
    LET b == at[p] IN
    /\ ~panicked /\ pc[p] = "drop"
    /\ buf' = [buf EXCEPT ![b].refcnt = @ - 1]
    /\ lru' = IF buf[b].refcnt = 1 THEN AtHead(b) ELSE lru
    /\ pc' = [pc EXCEPT ![p] = "idle"]
    /\ at' = [at EXCEPT ![p] = 1]
    /\ UNCHANGED <<lock, pinned, op, asleep, ring, disk, panicked>>

-----------------------------------------------------------------------------
(* The driver. *)

\* alloc3_desc takes the three lowest free descriptors.
Lowest(n, D) == {d \in D : Cardinality({e \in D : e < d}) < n}
First(D)     == CHOOSE d \in D : \A e \in D : d <= e

\* virtio_disk_rw up to the sleep for the answer.  An attempt that fails gives
\* back what it took, which wakes the others that wait for descriptors.
Submit(p) ==
    LET b == at[p]
        D == Lowest(3, free)
        h == First(D)
    IN  /\ ~panicked /\ pc[p] = "alloc" /\ ~asleep[p] /\ ~intr
        /\ IF Cardinality(free) < 3
           THEN /\ asleep' = [IF free = {} THEN asleep ELSE Woken("alloc", b)
                                EXCEPT ![p] = TRUE]
                /\ UNCHANGED <<buf, pc, free, req, avail>>
           ELSE /\ free' = free \ D
                /\ req' = [req EXCEPT ![h] = [op |-> op[p], buf |-> b,
                              block |-> buf[b].block, chain |-> D, ok |-> FALSE]]
                /\ buf' = [buf EXCEPT ![b].disk = TRUE]
                /\ avail' = [ring |-> [avail.ring EXCEPT ![avail.idx % NUM] = h],
                             idx  |-> (avail.idx + 1) % WRAP]
                /\ pc' = [pc EXCEPT ![p] = "wait"]
                /\ asleep' = [asleep EXCEPT ![p] = TRUE]
        /\ UNCHANGED <<lock, lru, pinned, at, op, used, dev, used_idx, isr, intr,
                       disk, panicked>>

\* virtio_disk_rw after the answer: free_chain, and in bread b->valid = 1.
Finish(p) ==
    LET b == at[p]
        h == CHOOSE g \in Desc : req[g] # Nobody /\ req[g].buf = b
    IN  /\ ~panicked /\ pc[p] = "wait" /\ ~asleep[p] /\ ~intr
        /\ IF buf[b].disk
           THEN /\ asleep' = [asleep EXCEPT ![p] = TRUE]
                /\ UNCHANGED <<buf, pc, op, free, req, panicked>>
           ELSE /\ free' = free \cup req[h].chain
                /\ panicked' = (free \cap req[h].chain # {})
                /\ req' = [req EXCEPT ![h] = Nobody]
                /\ buf' = [buf EXCEPT ![b].valid = TRUE]
                /\ pc' = [pc EXCEPT ![p] = "held"]
                /\ op' = [op EXCEPT ![p] = "read"]
                /\ asleep' = Woken("alloc", b)
        /\ UNCHANGED <<lock, lru, pinned, at, avail, used, dev, used_idx, isr,
                       intr, disk>>

\* virtio_disk_intr: acknowledge, one turn of the loop, return.
IntrBegin ==
    /\ ~panicked /\ isr /\ ~intr
    /\ isr' = FALSE /\ intr' = TRUE
    /\ UNCHANGED <<cache, ctl, free, req, avail, used, dev, used_idx, disk, panicked>>

\* Mutant: the handler looks at one entry of the used ring only.
IntrEntryOnce ==
    LET h == used.ring[used_idx % NUM] IN
    /\ ~panicked /\ intr /\ used_idx # used.idx
    /\ buf' = [buf EXCEPT ![req[h].buf].disk = FALSE]
    /\ asleep' = Woken("wait", req[h].buf)
    /\ used_idx' = (used_idx + 1) % WRAP
    /\ used' = [used EXCEPT !.ring[used_idx % NUM] = Nobody]
    /\ intr' = FALSE
    /\ UNCHANGED <<lock, lru, pinned, pc, at, op, free, req, avail, dev, isr,
                   disk, panicked>>

IntrEntry ==
    LET h == used.ring[used_idx % NUM] IN
    /\ ~panicked /\ intr /\ used_idx # used.idx
    /\ IF h = Nobody \/ req[h] = Nobody \/ ~req[h].ok THEN Panic
       ELSE /\ buf' = [buf EXCEPT ![req[h].buf].disk = FALSE]
            /\ asleep' = Woken("wait", req[h].buf)
            /\ used_idx' = (used_idx + 1) % WRAP
            /\ used' = [used EXCEPT !.ring[used_idx % NUM] = Nobody]
            /\ UNCHANGED <<lock, lru, pinned, pc, at, op, free, req, avail, dev,
                           isr, intr, disk, panicked>>

IntrEnd ==
    /\ ~panicked /\ intr /\ used_idx = used.idx
    /\ intr' = FALSE
    /\ UNCHANGED <<cache, ctl, free, req, avail, used, dev, used_idx, isr, disk,
                   panicked>>

-----------------------------------------------------------------------------
(* The device: takes requests in order, and answers them in any order. *)

DeviceTake ==
    /\ ~panicked /\ dev.idx # avail.idx
    /\ dev' = [idx   |-> (dev.idx + 1) % WRAP,
               works |-> dev.works \cup {avail.ring[dev.idx % NUM]}]
    /\ avail' = [avail EXCEPT !.ring[dev.idx % NUM] = Nobody]
    /\ UNCHANGED <<cache, ctl, free, req, used, used_idx, isr, intr, disk,
                   panicked>>

DeviceAnswer(h) ==
    LET r == req[h] IN
    /\ ~panicked /\ h \in dev.works /\ r # Nobody
    /\ IF r.op = "write"
       THEN disk' = [disk EXCEPT ![r.block] = buf[r.buf].data] /\ UNCHANGED buf
       ELSE buf' = [buf EXCEPT ![r.buf].data = disk[r.block]] /\ UNCHANGED disk
    /\ req' = [req EXCEPT ![h].ok = TRUE]
    /\ used' = [ring |-> [used.ring EXCEPT ![used.idx % NUM] = h],
                idx  |-> (used.idx + 1) % WRAP]
    /\ dev' = [dev EXCEPT !.works = @ \ {h}]
    /\ isr' = TRUE
    /\ UNCHANGED <<lock, lru, pinned, ctl, free, avail, used_idx, intr, panicked>>

User(p) == \/ \E k \in Blocks : Bget(p, k)
           \/ \E v \in Vals : Modify(p, v)
           \/ Bwrite(p) \/ Bpin(p) \/ Bunpin(p)
Kernel(p) == AcquireSleep(p) \/ ReleaseSleep(p) \/ Brelse(p) \/ Submit(p) \/ Finish(p)
Device == DeviceTake \/ \E h \in Desc : DeviceAnswer(h)
Interrupt == IntrBegin \/ IntrEntry \/ IntrEnd

Next == \/ \E p \in Proc : User(p) \/ Kernel(p)
        \/ Device
        \/ Interrupt

Spec == Init /\ [][Next]_vars

-----------------------------------------------------------------------------
\* The cache and its locks agree: no two buffers for one block (a hit goes on
\* with a buffer it has only counted, bio.c:69), each use and pin counted once,
\* so that a buffer is recycled only when nobody is about to take its lock, and
\* the disk works on a buffer only for the process that has it.
CacheCoherent ==
    /\ ~panicked
    /\ \A k \in Blocks : Cardinality(Cached(k)) <= 1
    /\ ToSet(lru) = Bufs
    /\ \A b \in Bufs :
          /\ buf[b].refcnt = Cardinality(Using(b))
                             + (IF buf[b].block \in pinned THEN 1 ELSE 0)
          /\ lock[b] # Nobody => lock[b] \in Using(b)
          /\ buf[b].disk => lock[b] # Nobody /\ pc[lock[b]] = "wait"
    /\ \A p \in Proc : pc[p] \in {"alloc", "wait", "held"} => lock[at[p]] = p

\* Nobody sleeps for what is already there or never comes: a lock that is free,
\* three free descriptors, or the answer to a request that is nowhere any more.
\* No ring entry is overwritten or skipped (virtio_disk.c:312), and an answer is
\* never left in the used ring without an interrupt.
InFlight(h) == \/ h \in dev.works
               \/ \E i \in Desc : avail.ring[i] = h
               \/ (isr \/ intr) /\ \E i \in Desc : used.ring[i] = h
SleeperHasReason ==
    \A p \in Proc : asleep[p] =>
        \/ pc[p] = "lock"  /\ lock[at[p]] # Nobody
        \/ pc[p] = "alloc" /\ Cardinality(free) < 3
        \/ /\ pc[p] = "wait" /\ buf[at[p]].disk
           /\ \E h \in Desc : req[h] # Nobody /\ req[h].buf = at[p] /\ InFlight(h)

\* Together they are a store of blocks, whatever is cached, recycled or pinned.
Content(k)  == IF \E b \in Cached(k) : buf[b].valid
               THEN buf[CHOOSE b \in Cached(k) : buf[b].valid].data ELSE disk[k]
Holds(p, k) == /\ (pc[p] = "held" \/ (op[p] = "write" /\ pc[p] \in {"alloc", "wait"}))
               /\ buf[at[p]].block = k
Owner(k)    == IF \E p \in Proc : Holds(p, k) THEN CHOOSE p \in Proc : Holds(p, k)
               ELSE Nobody
Store == INSTANCE BlockStore WITH content <- [k \in Blocks |-> Content(k)],
                                  owner   <- [k \in Blocks |-> Owner(k)]
StoresBlocks == Store!Spec
=============================================================================
