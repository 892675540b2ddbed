--------------------------------- MODULE Cow ---------------------------------
(***************************************************************************)
(* Copy-on-write fork of assignment 2: kernel/cow.c, the parts of fork,    *)
(* exit, wait and exec in kernel/proc.c and exec.c that share and free     *)
(* frames, uvmunmap of kernel/vm.c, and the write fault of pfault.c.       *)
(*                                                                         *)
(* fork and wait hold a process lock, and the fault handler runs with      *)
(* interrupts off, so on the one CPU of the Makefile each is one step;     *)
(* exit reads and writes a group's count with interrupts on.  cow_init is  *)
(* never called, so that an unused group has number 0, which is also the   *)
(* cow_group of a process that has none.                                   *)
(***************************************************************************)
EXTENDS Naturals, Integers, FiniteSets, FiniteSetsExt

CONSTANTS
    NPROC,         \* process slots, and CoW groups
    Pages,         \* page numbers of a program that lie in its ELF file
    Frames,        \* frames of the page allocator
    Vals,          \* what a page holds
    Image, Junk,   \* what exec loads, what kfree leaves behind
    MaxPid,        \* bound on processes ever created
    MaxMembers,    \* processes that a program lets share by fork(1)
    Orphans,       \* may a process exit before its children are collected?
    SharedExec,    \* may a process call exec while it shares frames?
    StaleGroups,   \* may programs meet in a group that a slot's last owner left?
    SharerForks,   \* may a process with pages still read-only call fork(0)?
    KernelWrites   \* do system calls store results in shared pages?

Slots == 1 .. NPROC
Sh    == 1                    \* init and the shell, in one

ASSUME CowConstants ==
    /\ NPROC \in Nat \ {0} /\ MaxPid \in Nat /\ MaxMembers \in Nat
    /\ Pages # {}
    /\ Image \in [Pages -> Vals]
    /\ Junk \notin Vals

VARIABLES
    state,         \* state[p]: unused, live, exiting (in exit), zombie
    parent,        \* parent[p]
    pid,           \* pid[p]
    cow_group,     \* cow_group[p], kept when the slot is freed
    cow_enabled,   \* cow_enabled[p], kept when the slot is freed
    pt,            \* pt[p]: page -> [frame, writable]; empty when unused
    group,         \* the table cow_group[]: number, count, shmem
    data,          \* data[f]: contents of each frame
    free,          \* kmem.freelist
    seen,          \* the count that exit has read, per process
    kin,           \* history: the first process of those that p shares with by
                   \* fork(1) since p was made, as a number; 0 if there is none
    nextpid,
    panicked       \* why the kernel has stopped, or "no"

vars == <<state, parent, pid, cow_group, cow_enabled, pt, group, data, free,
          seen, kin, nextpid, panicked>>

Mapped(p)    == {pt[p][a].frame : a \in DOMAIN pt[p]}
Children(p)  == {q \in Slots : state[q] # "unused" /\ parent[q] = p}
Members(k)   == {q \in Slots : state[q] # "unused" /\ kin[q] = k}
Shares(p)    == \E q \in Slots \ {p} : Mapped(p) \cap Mapped(q) # {}
TypeOK ==
    /\ state \in [Slots -> {"unused", "live", "exiting", "zombie"}]
    /\ cow_group \in [Slots -> 0 .. MaxPid]
    /\ \A p \in Slots : DOMAIN pt[p] = IF state[p] = "unused" THEN {} ELSE Pages
    /\ \A p \in Slots : Mapped(p) \subseteq Frames
    /\ data \in [Frames -> Vals \cup {Junk}]
    /\ free \subseteq Frames
    /\ kin \in [Slots -> 0 .. MaxPid]

\* Frames for all pages of a program, one each, out of the set F.
Layouts(F) == {new \in [Pages -> F] : \A a, b \in Pages : new[a] = new[b] => a = b}
Laid(new)  == {new[a] : a \in Pages}

\* Memory d once the pages are filled with val.
Fill(d, new, val) ==
    [f \in Frames |-> IF f \in Laid(new)
                      THEN val[CHOOSE a \in Pages : new[a] = f] ELSE d[f]]

\* The first process runs; cow_group[] holds zeroes when the kernel starts.
InitWith(number) ==
    /\ state = [p \in Slots |-> IF p = Sh THEN "live" ELSE "unused"]
    /\ parent = [p \in Slots |-> Sh]
    /\ pid = [p \in Slots |-> IF p = Sh THEN 1 ELSE 0]
    /\ cow_group = [p \in Slots |-> 0]
    /\ cow_enabled = [p \in Slots |-> FALSE]
    /\ group = [i \in Slots |-> [number |-> number, count |-> 0, shmem |-> {}]]
    /\ seen = [p \in Slots |-> 0]
    /\ kin = [p \in Slots |-> 0]
    /\ nextpid = 2
    /\ panicked = "no"
    /\ \E new \in Layouts(Frames) :
          /\ pt = [p \in Slots |-> [a \in IF p = Sh THEN Pages ELSE {} |->
                                        [frame |-> new[a], writable |-> TRUE]]]
          /\ data = Fill([f \in Frames |-> Junk], new, Image)
          /\ free = Frames \ Laid(new)

\* Mutant: main() calls cow_init, which numbers the unused groups -1.
InitCowInit == InitWith(-1)

Init == InitWith(0)

-----------------------------------------------------------------------------
(* The table of groups. *)

\* get_cow_group: the first entry with that number; NotFound is a NULL pointer.
NotFound == 0
Entry(gs, g) == LET E == {i \in Slots : gs[i].number = g}
                IN  IF E = {} THEN NotFound ELSE Min(E)

\* cow_group_init: the first unused entry gets the number, and keeps it.
CowGroupInit(gs, g) == IF Entry(gs, 0) = NotFound THEN gs
                       ELSE [gs EXCEPT ![Entry(gs, 0)].number = g]

\* Mutant: uvmunmap without the test of the shared list.
FreedAlways(me, F) == F

\* uvmunmap with do_free, called by process me: which of the frames F are freed.
Freed(me, F) ==
    LET g == group[Entry(group, cow_group[me])]
    IN  {f \in F : f \notin g.shmem \/ g.count = 1}

\* The new contents of memory when the frames F go back to the allocator.
Kfree(d, F) == [f \in Frames |-> IF f \in F THEN Junk ELSE d[f]]

\* A NULL group is dereferenced.
LosesGroup(me) == Entry(group, cow_group[me]) = NotFound

Panic(why) ==
    /\ panicked' = why
    /\ UNCHANGED <<state, parent, pid, cow_group, cow_enabled, pt, group, data,
                   free, seen, kin, nextpid>>

-----------------------------------------------------------------------------
(* System calls. *)

\* allocproc takes the first unused slot.
NewSlot(q) == /\ state[q] = "unused"
              /\ \A r \in Slots : r < q => state[r] # "unused"

\* What fork does alike in both cases once the memory of q is set up.
Child(p, q) ==
    /\ panicked = "no"
    /\ state[p] = "live" /\ NewSlot(q) /\ nextpid <= MaxPid
    /\ state' = [state EXCEPT ![q] = "live"]
    /\ parent' = [parent EXCEPT ![q] = p]
    /\ pid' = [pid EXCEPT ![q] = nextpid]
    /\ nextpid' = nextpid + 1
    /\ UNCHANGED <<seen, panicked>>

\* fork(0): uvmcopy copies every page, with its flags; the CoW fields of the
\* new process are those of the slot's last owner.
Fork0(p, q) ==
    /\ SharerForks \/ \A a \in DOMAIN pt[p] : pt[p][a].writable
    /\ Child(p, q)
    /\ \E copy \in Layouts(free) :
          /\ pt' = [pt EXCEPT ![q] = [a \in Pages |->
                       [frame |-> copy[a], writable |-> pt[p][a].writable]]]
          /\ data' = Fill(data, copy, [a \in Pages |-> data[pt[p][a].frame]])
          /\ free' = free \ Laid(copy)
    /\ UNCHANGED <<cow_group, cow_enabled, group, kin>>

\* What programs keep to when they call fork(1); the code tests none of it.  With
\* the new process no more than MaxMembers share, and nobody else who shares is in
\* the group, which a slot's last owner may have left to p, or to the other.
Disciplined(p, k, g) ==
    /\ Cardinality(Members(k) \cup {p}) < MaxMembers
    /\ StaleGroups \/ \A q \in Slots : kin[q] \in {0, k} \/ cow_group[q] # g

\* Mutant: uvmcopy_cow takes the writable bit from the child only.
Fork1ParentWrites(p, q) ==
    LET founder == cow_group[p] = 0
        g       == IF founder THEN pid[p] ELSE cow_group[p]
        gs      == IF founder THEN CowGroupInit(group, g) ELSE group
        k       == IF kin[p] = 0 THEN pid[p] ELSE kin[p]
    IN  /\ p # Sh /\ Disciplined(p, k, g)
        /\ Child(p, q)
        /\ kin' = [kin EXCEPT ![p] = k, ![q] = k]
        /\ cow_group' = [cow_group EXCEPT ![p] = g, ![q] = g]
        /\ cow_enabled' = [cow_enabled EXCEPT ![p] = TRUE, ![q] = TRUE]
        /\ group' = [gs EXCEPT ![Entry(gs, g)].count = @ + 1,
                               ![Entry(gs, g)].shmem = @ \cup Mapped(p)]
        /\ pt' = [pt EXCEPT ![q] = [a \in Pages |->
                                      [pt[p][a] EXCEPT !.writable = FALSE]]]
        /\ UNCHANGED <<data, free>>

\* fork(1): the first one makes p the founder of a group.  uvmcopy_cow maps
\* p's frames in both, read-only, and lists them; one more sharer is counted.
Fork1(p, q) ==
    LET founder == cow_group[p] = 0
        g       == IF founder THEN pid[p] ELSE cow_group[p]
        gs      == IF founder THEN CowGroupInit(group, g) ELSE group
        shared  == [a \in Pages |-> [pt[p][a] EXCEPT !.writable = FALSE]]
        k       == IF kin[p] = 0 THEN pid[p] ELSE kin[p]
    IN  /\ p # Sh /\ Disciplined(p, k, g)
        /\ IF Entry(gs, g) = NotFound
           THEN panicked = "no" /\ state[p] = "live" /\ NewSlot(q) /\ Panic("null group")
           ELSE /\ Child(p, q)
                /\ kin' = [kin EXCEPT ![p] = k, ![q] = k]
                /\ cow_group' = [cow_group EXCEPT ![p] = g, ![q] = g]
                /\ cow_enabled' = [cow_enabled EXCEPT
                                      ![p] = founder \/ cow_enabled[p],
                                      ![q] = TRUE]
                /\ group' = [gs EXCEPT ![Entry(gs, g)] =
                      [number |-> g, count |-> @.count + 1,
                       shmem |-> @.shmem \cup Mapped(p)]]
                /\ pt' = [pt EXCEPT ![p] = shared, ![q] = shared]
                /\ UNCHANGED <<data, free>>

\* A store to a page mapped writable; with KernelWrites also a copyout, which
\* does not look at the writable bit.
Store(p, a, v) ==
    /\ panicked = "no"
    /\ p # Sh /\ state[p] = "live"
    /\ pt[p][a].writable \/ KernelWrites
    /\ data' = [data EXCEPT ![pt[p][a].frame] = v]
    /\ UNCHANGED <<state, parent, pid, cow_group, cow_enabled, pt, group, free,
                   seen, kin, nextpid, panicked>>

\* The write fault.  copy_on_write carries the page over in a kernel page and
\* leaves the old frame to the others; the store is tried again.  In a process
\* without CoW the page is taken for one that has to be loaded: remap.
WriteFault(p, a) ==
    /\ panicked = "no"
    /\ p # Sh /\ state[p] = "live"
    /\ ~pt[p][a].writable
    /\ IF ~cow_enabled[p]
       THEN Panic("remap")
       ELSE IF Cardinality(free) < 2
       THEN Panic("no memory")
       ELSE /\ \E f \in free :
                  /\ free' = free \ {f}
                  /\ pt' = [pt EXCEPT ![p][a] = [frame |-> f, writable |-> TRUE]]
                  /\ data' = [data EXCEPT ![f] = data[pt[p][a].frame]]
            /\ UNCHANGED <<state, parent, pid, cow_group, cow_enabled, group,
                           seen, kin, nextpid, panicked>>

\* exec builds a new image and frees the old one, as a member of p's group.
Exec(p) ==
    /\ panicked = "no"
    /\ p # Sh /\ state[p] = "live"
    /\ SharedExec \/ ~Shares(p)
    /\ IF LosesGroup(p) THEN Panic("null group")
       ELSE /\ \E new \in Layouts(free) :
                  /\ pt' = [pt EXCEPT ![p] = [a \in Pages |->
                               [frame |-> new[a], writable |-> TRUE]]]
                  /\ data' = Fill(Kfree(data, Freed(p, Mapped(p))), new, Image)
                  /\ free' = (free \ Laid(new)) \cup Freed(p, Mapped(p))
            /\ UNCHANGED <<state, parent, pid, cow_group, cow_enabled, group,
                           seen, kin, nextpid, panicked>>

\* exit, up to reading the count of the group.
ExitRead(p) ==
    /\ panicked = "no"
    /\ p # Sh /\ state[p] = "live"
    /\ Orphans \/ Children(p) = {}
    /\ IF cow_enabled[p] /\ LosesGroup(p) THEN Panic("null group")
       ELSE /\ state' = [state EXCEPT ![p] = "exiting"]
            /\ seen' = [seen EXCEPT ![p] =
                  IF cow_enabled[p] THEN group[Entry(group, cow_group[p])].count
                                    ELSE 0]
            /\ UNCHANGED <<parent, pid, cow_group, cow_enabled, pt, group, data,
                           free, kin, nextpid, panicked>>

\* exit, from writing the count to ZOMBIE; the children go to init.
ExitZombie(p) ==
    /\ panicked = "no"
    /\ state[p] = "exiting"
    /\ state' = [state EXCEPT ![p] = "zombie"]
    /\ parent' = [q \in Slots |-> IF q \in Children(p) THEN Sh ELSE parent[q]]
    /\ group' = IF cow_enabled[p]
                THEN [group EXCEPT ![Entry(group, cow_group[p])].count = seen[p] - 1]
                ELSE group
    /\ seen' = [seen EXCEPT ![p] = 0]
    /\ UNCHANGED <<pid, cow_group, cow_enabled, pt, data, free, kin, nextpid, panicked>>

\* wait: p collects its child q.  freeproc frees the memory of q, but uvmunmap
\* asks for the group of the process that runs: p.
Wait(p, q) ==
    /\ panicked = "no"
    /\ state[p] = "live" /\ q \in Children(p) /\ state[q] = "zombie"
    /\ IF LosesGroup(p) THEN Panic("null group")
       ELSE /\ state' = [state EXCEPT ![q] = "unused"]
            /\ parent' = [parent EXCEPT ![q] = Sh]
            /\ pid' = [pid EXCEPT ![q] = 0]
            /\ pt' = [pt EXCEPT ![q] = [a \in {} |-> 0]]
            /\ data' = Kfree(data, Freed(p, Mapped(q)))
            /\ free' = free \cup Freed(p, Mapped(q))
            /\ kin' = [kin EXCEPT ![q] = 0]
            /\ UNCHANGED <<cow_group, cow_enabled, group, seen, nextpid, panicked>>

Next ==
    \E p \in Slots :
        \/ \E q \in Slots : Fork0(p, q) \/ Fork1(p, q) \/ Wait(p, q)
        \/ \E a \in Pages : WriteFault(p, a) \/ \E v \in Vals : Store(p, a, v)
        \/ Exec(p) \/ ExitRead(p) \/ ExitZombie(p)

Spec == Init /\ [][Next]_vars

-----------------------------------------------------------------------------
(* Properties, for programs that share in pairs of a parent and one child     *)
(* that it waits for (MaxMembers = 2, no Orphans), no two pairs in one group   *)
(* (no StaleGroups), that do not call exec while they share, and whose system  *)
(* calls store in pages of their own.                                          *)

\* Frames are never freed while a process, a zombie included, still maps them:
\* the shared list and the count of a group, which outlive its processes and
\* lose updates, tell uvmunmap (vm.c:196) what it may free.
NotFreedInUse == TypeOK /\ \A p \in Slots : Mapped(p) \cap free = {}

\* The kernel never follows the NULL of get_cow_group (cow.c:32), although the
\* groups are never given back: each slot founds at most one, since freeproc
\* leaves cow_group behind, and the shell's slot leaves one entry unused.
GroupIsFound == panicked # "null group"

\* A store never stops the kernel by a remap of the page it hits: who has a page
\* that fork(1) made read-only is known for it (cow_enabled, pfault.c:178), if no
\* process that has one calls fork(0).  Only want of memory stops the kernel.
KernelRunsOn == GroupIsFound /\ panicked # "remap"

\* Copy on write is invisible: every process has the memory it would have if
\* fork had copied all of it.
NoMem == [a \in {} |-> 0]
Private == INSTANCE PrivateMemory WITH
    mem <- [p \in Slots |-> IF state[p] = "live"
                            THEN [a \in Pages |-> data[pt[p][a].frame]]
                            ELSE NoMem]
MemoryIsPrivate == Private!Spec
=============================================================================
