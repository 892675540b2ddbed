------------------------------- MODULE Paging -------------------------------
(***************************************************************************)
(* Demand paging of the heap with page swapping (assignment 2, pfault.c,   *)
(* with track_heap and growproc of proc.c and the resets in exec and       *)
(* exit).                                                                  *)
(*                                                                         *)
(* A heap page is named by its distance from the start of the heap.  Its   *)
(* contents are BPP parts, one per disk block; a program stores whole      *)
(* pages.  The page fault handler is split where it shares something with  *)
(* another process: at the scan of psa_tracker, at the marking of the      *)
(* blocks that were found and at every disk block, for which it sleeps.    *)
(* Clock values are only compared, so they are kept as ranks: a tick       *)
(* renumbers the load times in use and stays above all of them.            *)
(***************************************************************************)
EXTENDS Integers, Sequences, FiniteSets, SequencesExt, FiniteSetsExt

CONSTANTS
    Proc,           \* processes that run on-demand programs
    MAXHEAP,        \* param.h: entries of heap_tracker
    MAXRESHEAP,     \* param.h: heap pages a process may keep in memory
    SCAN,           \* PSASIZE - PSASTART: how many blocks the scan looks at
    BPP,            \* blocks per page, 4 in the code
    Vals,           \* what programs store in a page
    SbrkSizes,      \* how many whole pages they ask sbrk for
    MaxSbrk,        \* how often a program calls sbrk
    InOrder,        \* do programs touch new pages in the order of addresses?
    ExitAlone,      \* does a program only end when no other one is running?
    Ticking,        \* does the clock advance?  (It only orders the evictions.)
    OneCpu          \* is there one CPU only?  The handler runs with interrupts
                    \* off, so it is then interrupted where it sleeps only.

ASSUME PagingConstants ==
    /\ MAXHEAP \in Nat \ {0} /\ MAXRESHEAP \in 1 .. MAXHEAP
    /\ SCAN \in Nat \ {0} /\ BPP \in Nat \ {0}
    /\ 0 \in Vals /\ Vals \subseteq Nat
    /\ SbrkSizes \subseteq Nat /\ MaxSbrk \in Nat
    /\ {InOrder, ExitAlone, Ticking, OneCpu} \subseteq BOOLEAN

Idx == 0 .. MAXHEAP - 1
Page == 0 .. 2 * MAXHEAP            \* track_heap adds the index to the start
Part == 0 .. BPP - 1
Block == 0 .. SCAN + BPP - 2        \* psa_tracker and the blocks behind it
NoAddr == -1                        \* 0xFFFFFFFFFFFFFFFF, no such address
Never == MAXHEAP * Cardinality(Proc) + 1    \* 0xFFFFFFFFFFFFFFFF, as a time
Junk == -1                          \* what kalloc() left in a page
Whole(v) == [k \in Part |-> v]

VARIABLES
    heap_tracker, resident, sz, \* p->heap_tracker, resident_heap_pages, p->sz
    mapped, mem,                \* heap pages in p's page table, their contents
    psa_tracker, disk,          \* blocks in use, and what the PSA holds
    now,                        \* ticks, as a rank
    pc, want, val,              \* where p is; the page and value of its store
    blockno, victim, part,      \* locals of evict_page_to_disk and
    kernel_page,                \* retrieve_page_from_disk
    panicked,
    given, last, order          \* history: pages sbrk returned, last value
                                \* stored, resident pages in order of loading

proc == <<heap_tracker, resident, sz, mapped, mem>>
local == <<blockno, victim, part, kernel_page>>
history == <<given, last, order>>
vars == <<proc, psa_tracker, disk, now, pc, want, val, local, panicked, history>>

TypeOK ==
    /\ \A p \in Proc : \A i \in Idx :
           heap_tracker[p][i] \in [addr : Page \cup {NoAddr}, loaded : BOOLEAN,
                                   last_load_time : 0 .. Never,
                                   startblock : Block \cup {-1}]
    /\ resident \in [Proc -> 0 .. MAXRESHEAP]
    /\ sz \in [Proc -> Page]
    /\ mapped \in [Proc -> SUBSET Page]
    /\ mem \in [Proc -> [Page -> [Part -> Vals \cup {Junk}]]]
    /\ psa_tracker \in [Block -> BOOLEAN]
    /\ disk \in [Block -> Vals \cup {Junk}]
    /\ now \in 0 .. Never - 1
    /\ pc \in [Proc -> {"none", "user", "fault", "scan", "mark", "write", "map",
                        "read", "retry"}]
    /\ want \in [Proc -> Page] /\ val \in [Proc -> Vals]
    /\ blockno \in [Proc -> Block] /\ victim \in [Proc -> Idx]
    /\ part \in [Proc -> Part]
    /\ kernel_page \in [Proc -> [Part -> Vals \cup {Junk}]]
    /\ panicked \in BOOLEAN
    /\ given \in [Proc -> Seq(SUBSET Page)] /\ last \in [Proc -> [Page -> Vals]]
    /\ order \in [Proc -> Seq(Page)]

Untracked == [addr |-> NoAddr, loaded |-> FALSE, last_load_time |-> Never,
              startblock |-> -1]

Init ==
    /\ heap_tracker = [p \in Proc |-> [i \in Idx |-> Untracked]]
    /\ resident = [p \in Proc |-> 0] /\ sz = [p \in Proc |-> 0]
    /\ mapped = [p \in Proc |-> {}]
    /\ mem = [p \in Proc |-> [g \in Page |-> Whole(0)]]
    /\ psa_tracker = [b \in Block |-> FALSE]    \* init_psa_regions() in main()
    /\ disk = [b \in Block |-> Junk]
    /\ now = 0
    /\ pc = [p \in Proc |-> "none"]
    /\ want = [p \in Proc |-> 0] /\ val = [p \in Proc |-> 0]
    /\ blockno = [p \in Proc |-> 0] /\ victim = [p \in Proc |-> 0]
    /\ part = [p \in Proc |-> 0]
    /\ kernel_page = [p \in Proc |-> Whole(Junk)]
    /\ panicked = FALSE
    /\ given = [p \in Proc |-> <<>>]
    /\ last = [p \in Proc |-> [g \in Page |-> 0]]
    /\ order = [p \in Proc |-> <<>>]

\* The handler has returned: its locals have no value any more.
LocalsDead(p) ==
    /\ blockno' = [blockno EXCEPT ![p] = 0]
    /\ victim' = [victim EXCEPT ![p] = 0]
    /\ part' = [part EXCEPT ![p] = 0]
    /\ kernel_page' = [kernel_page EXCEPT ![p] = Whole(Junk)]

Goto(p, l) == pc' = [pc EXCEPT ![p] = l]

\* panic(): nothing moves any more.
Panic == panicked' = TRUE

-----------------------------------------------------------------------------
(* exec, sbrk and exit *)

\* A new process execs an on-demand program, which starts with no heap.
exec(p) ==
    /\ pc[p] = "none"
    /\ heap_tracker' = [heap_tracker EXCEPT ![p] = [i \in Idx |-> Untracked]]
    /\ resident' = [resident EXCEPT ![p] = 0]
    /\ sz' = [sz EXCEPT ![p] = 0]
    /\ mapped' = [mapped EXCEPT ![p] = {}]
    /\ mem' = [mem EXCEPT ![p] = [g \in Page |-> Whole(0)]]
    /\ Goto(p, "user")
    /\ given' = [given EXCEPT ![p] = <<>>]
    /\ last' = [last EXCEPT ![p] = [g \in Page |-> 0]]
    /\ order' = [order EXCEPT ![p] = <<>>]
    /\ UNCHANGED <<psa_tracker, disk, now, want, val, local, panicked>>

FreeEntries(p) == {i \in Idx : heap_tracker[p][i].addr = NoAddr}

\* The entries that track_heap fills for n pages: the first n free ones.  For
\* n = 0 the countdown has missed its end and all of them are filled.
Filled(p, n) ==
    IF n = 0 THEN FreeEntries(p)
    ELSE {i \in FreeEntries(p) :
             Cardinality({j \in FreeEntries(p) : j < i}) < n}

track_heap(p, start, n) ==
    [i \in Idx |->
        IF i \in Filled(p, n)
        THEN [heap_tracker[p][i] EXCEPT !.addr = start + i, !.loaded = FALSE,
                                        !.startblock = -1]
        ELSE heap_tracker[p][i]]

\* sys_sbrk and growproc of an on-demand process: the pages are tracked, p->sz,
\* which sbrk returns, stays.
Sbrk(p, n) ==
    /\ pc[p] = "user" /\ Len(given[p]) < MaxSbrk
    /\ IF n = 0 \/ n > Cardinality(FreeEntries(p))
       THEN /\ Panic
            /\ UNCHANGED <<heap_tracker, given>>
       ELSE /\ heap_tracker' = [heap_tracker EXCEPT ![p] = track_heap(p, sz[p], n)]
            /\ given' = [given EXCEPT ![p] = Append(@, sz[p] .. sz[p] + n - 1)]
            /\ UNCHANGED panicked
    /\ UNCHANGED <<resident, sz, mapped, mem, psa_tracker, disk, now, pc, want,
                   val, local, last, order>>

\* exit() calls init_psa_regions().
ExitPsa == [b \in Block |-> FALSE]

exit(p) ==
    /\ pc[p] = "user"
    /\ ExitAlone => \A q \in Proc \ {p} : pc[q] = "none"
    /\ psa_tracker' = ExitPsa
    /\ Goto(p, "none")
    /\ UNCHANGED <<proc, disk, now, want, val, local, panicked, history>>

-----------------------------------------------------------------------------
(* A store and the page fault it may cause *)

DoStore(p, g, v) ==
    /\ mem' = [mem EXCEPT ![p][g] = Whole(v)]
    /\ last' = [last EXCEPT ![p][g] = v]

\* The pages a program may use now: those sbrk returned, and with InOrder no
\* page before the ones below it have been touched.
Usable(p) ==
    {g \in UNION Range(given[p]) : InOrder => g <= sz[p]}

\* A program stores v in page g.  (A load of g is a store of what g holds.)
Store(p, g, v) ==
    /\ pc[p] = "user" /\ g \in Usable(p)
    /\ IF g \in mapped[p]
       THEN /\ DoStore(p, g, v)
            /\ UNCHANGED <<pc, want, val>>
       ELSE /\ Goto(p, "fault")
            /\ want' = [want EXCEPT ![p] = g] /\ val' = [val EXCEPT ![p] = v]
            /\ UNCHANGED <<mem, last>>
    /\ UNCHANGED <<heap_tracker, resident, sz, mapped, psa_tracker, disk, now,
                   local, panicked, given, order>>

\* The handler has returned: the store is tried again, and may fault again.
Retry(p) ==
    /\ pc[p] = "retry"
    /\ IF want[p] \in mapped[p]
       THEN /\ DoStore(p, want[p], val[p])
            /\ want' = [want EXCEPT ![p] = 0] /\ val' = [val EXCEPT ![p] = 0]
            /\ Goto(p, "user")
       ELSE /\ Goto(p, "fault")
            /\ UNCHANGED <<mem, last, want, val>>
    /\ UNCHANGED <<heap_tracker, resident, sz, mapped, psa_tracker, disk, now,
                   local, panicked, given, order>>

\* Mutant: the search stops before the last entry.
mEntry(p) == {i \in 0 .. MAXHEAP - 2 : heap_tracker[p][i].addr = want[p]}

\* The entries that track the page p faulted on.
Entry(p) == {i \in Idx : heap_tracker[p][i].addr = want[p]}

MustEvict(p) == resident[p] = MAXRESHEAP

\* page_fault_handler up to the eviction.  A page no entry tracks is looked for
\* in the program file, whose segments end below the heap: nothing is mapped.
page_fault_handler(p) ==
    /\ pc[p] = "fault"
    /\ Goto(p, IF Entry(p) = {} THEN "retry"
               ELSE IF MustEvict(p) THEN "scan" ELSE "map")
    /\ UNCHANGED <<proc, psa_tracker, disk, now, want, val, local, panicked,
                   history>>

-----------------------------------------------------------------------------
(* evict_page_to_disk *)

\* Mutant: the loop goes on after it has found a free block.
mFindFreeLast ==
    LET free == {b \in 0 .. SCAN - 1 : ~ psa_tracker[b]}
    IN  IF free = {} THEN 0 ELSE Max(free)

\* Mutant: the loop does not look at psa_tracker.
mFindFirst == 0

\* The first block that is not in use; block 0 if there is none.
FindFree ==
    LET free == {b \in 0 .. SCAN - 1 : ~ psa_tracker[b]}
    IN  IF free = {} THEN 0 ELSE Min(free)

EvictScan(p) ==
    /\ pc[p] = "scan"
    /\ blockno' = [blockno EXCEPT ![p] = FindFree]
    /\ Goto(p, "mark")
    /\ UNCHANGED <<proc, psa_tracker, disk, now, want, val, victim, part,
                   kernel_page, panicked, history>>

Before(p, i, j) ==
    LET t(k) == heap_tracker[p][k].last_load_time
    IN  t(i) < t(j) \/ (t(i) = t(j) /\ i <= j)

\* Mutant: the scan for the victim compares the wrong way round.
mVictimOf(p) ==
    LET resident_pages == {i \in Idx : heap_tracker[p][i].addr \in mapped[p]}
    IN  CHOOSE i \in resident_pages : \A j \in resident_pages : Before(p, j, i)

\* Of the entries whose page is not on disk, the one loaded first.
VictimOf(p) ==
    LET candidates == {i \in Idx : ~ heap_tracker[p][i].loaded}
    IN  CHOOSE i \in candidates : \A j \in candidates : Before(p, i, j)

Blocks(b) == b .. b + BPP - 1

Mark(b, used) == [c \in Block |-> IF c \in Blocks(b) THEN used ELSE psa_tracker[c]]

\* The victim is marked as on disk and copied to kernel_page.  copyin fails if
\* the victim is not mapped, and nobody looks.  Its load time is dead: it is not
\* read before the page is back, when it is set again.
EvictMark(p) ==
    /\ pc[p] = "mark"
    /\ LET v == VictimOf(p)
           g == heap_tracker[p][v].addr
       IN  /\ heap_tracker' = [heap_tracker EXCEPT ![p][v].loaded = TRUE,
                                                   ![p][v].startblock = blockno[p],
                                                   ![p][v].last_load_time = Never]
           /\ kernel_page' = [kernel_page EXCEPT ![p] =
                                  IF g \in mapped[p] THEN mem[p][g] ELSE Whole(Junk)]
           /\ victim' = [victim EXCEPT ![p] = v]
    /\ psa_tracker' = Mark(blockno[p], TRUE)
    /\ part' = [part EXCEPT ![p] = 0]
    /\ Goto(p, "write")
    /\ UNCHANGED <<resident, sz, mapped, mem, disk, now, want, val, blockno,
                   panicked, history>>

\* uvmunmap: a page that is not mapped is passed over, an entry that tracks no
\* page has an address that is not aligned, and panics.
Unmap(p, g) ==
    /\ mapped' = [mapped EXCEPT ![p] = @ \ {g}]
    /\ mem' = [mem EXCEPT ![p] = [h \in Page |-> IF h = g THEN Whole(0) ELSE @[h]]]
    /\ order' = [order EXCEPT ![p] = SelectSeq(@, LAMBDA h : h # g)]
    /\ panicked' = (g = NoAddr)

\* Mutant: the last block of the page is not written.
mLastPart == BPP - 2

LastPart == BPP - 1

\* One block is written; after the last one the page is unmapped.
EvictWrite(p) ==
    /\ pc[p] = "write"
    /\ disk' = [disk EXCEPT ![blockno[p] + part[p]] = kernel_page[p][part[p]]]
    /\ IF part[p] < LastPart
       THEN /\ part' = [part EXCEPT ![p] = @ + 1]
            /\ UNCHANGED <<resident, mapped, mem, pc, order, panicked>>
       ELSE /\ Unmap(p, heap_tracker[p][victim[p]].addr)
            /\ resident' = [resident EXCEPT ![p] = @ - 1]
            /\ Goto(p, "map")
            /\ UNCHANGED part
    /\ UNCHANGED <<heap_tracker, sz, psa_tracker, now, want, val, blockno, victim,
                   kernel_page, given, last>>

-----------------------------------------------------------------------------
(* The rest of page_fault_handler, with retrieve_page_from_disk *)

FaultEntry(p) == CHOOSE i \in Entry(p) : TRUE

\* A page was mapped: its load time is now, and it counts as resident.
Loaded(p, g) ==
    /\ resident' = [resident EXCEPT ![p] = @ + 1]
    /\ mapped' = [mapped EXCEPT ![p] = @ \cup {g}]
    /\ order' = [order EXCEPT ![p] = Append(@, g)]
    /\ Goto(p, "retry")

\* A page that was never evicted is mapped at p->sz, whatever page is wanted.
MapFresh(p) ==
    /\ pc[p] = "map" /\ ~ heap_tracker[p][FaultEntry(p)].loaded
    /\ IF sz[p] \in mapped[p]
       THEN /\ Panic            \* mappages: remap
            /\ UNCHANGED <<proc, pc, local, order>>
       ELSE /\ Loaded(p, sz[p])
            /\ LocalsDead(p)
            /\ sz' = [sz EXCEPT ![p] = @ + 1]
            /\ heap_tracker' = [heap_tracker EXCEPT
                                    ![p][FaultEntry(p)].last_load_time = now]
            /\ UNCHANGED <<mem, panicked>>
    /\ UNCHANGED <<psa_tracker, disk, now, want, val, given, last>>

\* Mutant: the blocks of the last eviction are read.
mRetrieveFrom(p) == blockno[p]

RetrieveFrom(p) == heap_tracker[p][FaultEntry(p)].startblock

RetrieveStart(p) ==
    /\ pc[p] = "map" /\ heap_tracker[p][FaultEntry(p)].loaded
    /\ blockno' = [blockno EXCEPT ![p] = RetrieveFrom(p)]
    /\ heap_tracker' = [heap_tracker EXCEPT ![p][FaultEntry(p)].loaded = FALSE]
    /\ part' = [part EXCEPT ![p] = 0]
    /\ kernel_page' = [kernel_page EXCEPT ![p] = Whole(Junk)]
    /\ Goto(p, "read")
    /\ UNCHANGED <<resident, sz, mapped, mem, psa_tracker, disk, now, want, val,
                   victim, panicked, history>>

\* The blocks of the page are free again.
RetrievePsa(p) == Mark(blockno[p], FALSE)

\* One block is read; after the last one the page is mapped and its blocks are
\* free.
RetrieveRead(p) ==
    LET page == [kernel_page[p] EXCEPT ![part[p]] = disk[blockno[p] + part[p]]]
    IN  /\ pc[p] = "read"
        /\ IF part[p] < BPP - 1
           THEN /\ part' = [part EXCEPT ![p] = @ + 1]
                /\ kernel_page' = [kernel_page EXCEPT ![p] = page]
                /\ UNCHANGED <<proc, psa_tracker, pc, blockno, victim, order>>
           ELSE /\ Loaded(p, want[p])
                /\ LocalsDead(p)
                /\ mem' = [mem EXCEPT ![p][want[p]] = page]
                /\ psa_tracker' = RetrievePsa(p)
                /\ heap_tracker' = [heap_tracker EXCEPT
                                        ![p][FaultEntry(p)].last_load_time = now]
                /\ UNCHANGED sz
        /\ UNCHANGED <<disk, now, want, val, panicked, given, last>>

-----------------------------------------------------------------------------
\* The timer interrupt: later than every load time in use.
Tick ==
    LET used == {heap_tracker[p][i].last_load_time : p \in Proc, i \in Idx} \ {Never}
        rank(t) == IF t = Never THEN Never ELSE Cardinality({u \in used : u < t})
    IN  /\ Ticking
        /\ now' = Cardinality(used)
        /\ heap_tracker' = [p \in Proc |-> [i \in Idx |->
               [heap_tracker[p][i] EXCEPT !.last_load_time = rank(@)]]]
        /\ UNCHANGED <<resident, sz, mapped, mem, psa_tracker, disk, pc, want, val,
                       local, panicked, history>>

Handler(p) ==
    \/ page_fault_handler(p)
    \/ EvictScan(p) \/ EvictMark(p) \/ EvictWrite(p)
    \/ MapFresh(p) \/ RetrieveStart(p) \/ RetrieveRead(p)
    \/ Retry(p)

Next ==
    /\ ~ panicked
    /\ \/ \E p \in Proc :
           /\ OneCpu => \A q \in Proc \ {p} : pc[q] # "mark"
           /\ \/ exec(p) \/ exit(p)
              \/ \E n \in SbrkSizes : Sbrk(p, n)
              \/ \E g \in Page, v \in Vals : Store(p, g, v)
              \/ Handler(p)
       \/ Tick

Spec == Init /\ [][Next]_vars

\* A process in the kernel runs on: the disk answers, and the scheduler comes
\* round to every process.
FairSpec ==
    Spec /\ \A p \in Proc : WF_vars(~ panicked /\ Handler(p))

-----------------------------------------------------------------------------
(* Properties *)

OnDisk(p) == {i \in Idx : heap_tracker[p][i].loaded}

\* A page handed out by sbrk holds what the program last stored in it (zeros
\* before that), in memory or, part by part, in its PSA blocks, however often
\* it was evicted and brought back, and whatever other processes swap.
HeapIntact ==
    \A p \in Proc : pc[p] \in {"user", "retry"} =>
        /\ \A g \in mapped[p] : mem[p][g] = Whole(last[p][g])
        /\ \A i \in OnDisk(p) : \A k \in Part :
               disk[heap_tracker[p][i].startblock + k] = last[p][heap_tracker[p][i].addr]

\* resident_heap_pages counts the heap pages in the page table, at most
\* MAXRESHEAP, and these are pages that sbrk returned.
ResidentMatches ==
    \A p \in Proc : /\ resident[p] = Cardinality(mapped[p])
                    /\ resident[p] <= MAXRESHEAP
                    /\ mapped[p] \subseteq UNION Range(given[p])

\* The trackers are right: heap_tracker of the pages in memory, and between
\* faults psa_tracker of the pages on disk: no block belongs to two pages, of
\* one process or of two, and none leaks.
BlocksAccounted ==
    /\ TypeOK
    /\ ResidentMatches
    /\ (\A p \in Proc : pc[p] \in {"none", "user"}) =>
        /\ \A p, q \in Proc : \A i \in OnDisk(p), j \in OnDisk(q) :
               /\ pc[p] = "user" /\ pc[q] = "user"
               /\ <<p, i>> # <<q, j>>
               => Blocks(heap_tracker[p][i].startblock)
                      \cap Blocks(heap_tracker[q][j].startblock) = {}
        /\ {b \in Block : psa_tracker[b]} =
               UNION {Blocks(heap_tracker[p][i].startblock) :
                          <<p, i>> \in {x \in Proc \X Idx : pc[x[1]] = "user"
                                                            /\ x[2] \in OnDisk(x[1])}}

\* "Find victim page using FIFO" (pfault.c, line 48): the victim is in memory,
\* and a page that came in before it came in within the same clock tick.
EvictsOldest ==
    [][\A p \in Proc : pc[p] = "mark" /\ pc'[p] = "write" =>
           LET v == heap_tracker[p][victim'[p]]
           IN  \E n \in DOMAIN order[p] :
                   /\ order[p][n] = v.addr
                   /\ \A i \in Idx :
                          (\E m \in 1 .. n - 1 : order[p][m] = heap_tracker[p][i].addr)
                          => heap_tracker[p][i].last_load_time = v.last_load_time]_vars

\* A store to a page that sbrk returned is eventually done.
StoreCompletes ==
    \A p \in Proc : pc[p] = "fault" ~> pc[p] = "user"
=============================================================================
