------------------------------ MODULE CowProofs ------------------------------
(***************************************************************************)
(* Proofs about Cow, for any number of slots, pages and frames.            *)
(*                                                                         *)
(* That get_cow_group finds a group is a matter of counting: an entry of   *)
(* the table is taken for good, but so is the cow_group of the slot whose  *)
(* process founded it, and the shell's slot is never in a group.           *)
(*                                                                         *)
(* That no frame is freed in use needs to know who may share: under        *)
(* InPairs a parent and one child, with the frames both map listed in      *)
(* their group, whose count is 1 at most and 0 once the child is a zombie. *)
(* A process whose slot left it that group lowers the count when it exits, *)
(* which frees nothing; kin tells it from those that share.                *)
(***************************************************************************)
EXTENDS Cow, FiniteSetTheorems, TLAPS

Page  == [frame : Frames, writable : BOOLEAN]
Group == [number : Nat, count : Int, shmem : SUBSET Frames]
Types ==
    /\ state \in [Slots -> {"unused", "live", "exiting", "zombie"}]
    /\ parent \in [Slots -> Slots]
    /\ pid \in [Slots -> Nat]
    /\ cow_group \in [Slots -> 0 .. MaxPid]
    /\ cow_enabled \in [Slots -> BOOLEAN]
    /\ pt \in [Slots -> [Pages -> Page] \cup {NoMem}]
    /\ group \in [Slots -> Group]
    /\ data \in [Frames -> Vals \cup {Junk}]
    /\ free \subseteq Frames
    /\ seen \in [Slots -> Int]
    /\ kin \in [Slots -> 0 .. MaxPid]
    /\ nextpid \in Nat
    /\ \A p \in Slots : state[p] = "unused" <=> pt[p] = NoMem

\* Processes have numbers of their own, which MaxPid bounds.
Pids ==
    /\ state[Sh] = "live" /\ nextpid >= 2
    /\ \A p \in Slots : state[p] # "unused" =>
          /\ 1 <= pid[p] /\ pid[p] < nextpid
          /\ p # Sh => pid[p] <= MaxPid
    /\ \A p, q \in Slots :
          pid[p] = pid[q] /\ state[p] # "unused" /\ state[q] # "unused" => p = q

\* Every group that a slot names is in the table once, no more entries are taken
\* than slots have a group, and no process without a group has the number of one.
Grouped == {p \in Slots : cow_group[p] # 0}
Taken   == {i \in Slots : group[i].number # 0}
Groups ==
    /\ cow_group[Sh] = 0
    /\ \A p \in Slots : cow_enabled[p] <=> cow_group[p] # 0
    /\ \A p \in Grouped : \E i \in Slots : group[i].number = cow_group[p]
    /\ Cardinality(Taken) <= Cardinality(Grouped)
    /\ \A i, j \in Taken : group[i].number = group[j].number => i = j
    /\ \A i \in Taken : group[i].number < nextpid
    /\ \A i \in Slots, p \in Slots :
          state[p] # "unused" /\ group[i].number = pid[p] => cow_group[p] # 0
    /\ \A i \in Slots \ Taken : group[i].count = 0 /\ group[i].shmem = {}

IInv == Types /\ Pids /\ Groups /\ GroupIsFound

\* Programs that share in pairs of a parent and one child that it waits for, no two
\* pairs in one group, and that do not call exec while they share.
InPairs == MaxMembers <= 2 /\ ~Orphans /\ ~SharedExec /\ ~StaleGroups

\* q is the child that p shares with: what both map is listed, and once q is a
\* zombie the count no longer lets p free it.
Pair(p, q) == /\ state[p] = "live" /\ state[q] # "unused" /\ parent[q] = p
              /\ cow_group[p] = cow_group[q] /\ cow_group[p] # 0
              /\ kin[p] # 0 /\ kin[q] # 0
              /\ \A i \in Slots : group[i].number = cow_group[p] =>
                    /\ Mapped(p) \cap Mapped(q) \subseteq group[i].shmem
                    /\ state[q] = "zombie" => group[i].count <= 0

\* A group's count, and what exit has read of it, is 1 at most; at 1 the parent and
\* the child are both there.
Counts ==
    /\ \A i \in Slots : group[i].count <= 1
    /\ \A p \in Slots : seen[p] <= 1
    /\ \A i \in Slots : group[i].count = 1 =>
          \E p, q \in Slots :
             /\ p # q /\ parent[q] = p /\ state[p] = "live" /\ state[q] \in {"live", "exiting"}
             /\ cow_group[p] = group[i].number /\ cow_group[q] = group[i].number
             /\ kin[p] # 0 /\ kin[q] # 0

\* Frames are shared in pairs only, and none of them is free.
Sharing ==
    /\ \A p \in Slots : state[p] \in {"exiting", "zombie"} => Children(p) = {}
    /\ \A p, q \in Slots : p # q /\ Mapped(p) \cap Mapped(q) # {} => Pair(p, q) \/ Pair(q, p)
    /\ \A p \in Slots : Mapped(p) \cap free = {}

\* A frame is one page of its process, and writable where nobody else maps it.
Aliases ==
    /\ \A p \in Slots : state[p] # "unused" =>
          \A a, b \in Pages : pt[p][a].frame = pt[p][b].frame => a = b
    /\ \A p, q \in Slots : p # q /\ state[p] # "unused" /\ state[q] # "unused" =>
          \A a, b \in Pages : pt[p][a].frame = pt[q][b].frame => ~pt[p][a].writable

-----------------------------------------------------------------------------
(* The table of groups. *)

\* Min is what it says.
LEMMA Least ==
  ASSUME NEW T \in SUBSET Slots, T # {}
  PROVE  Min(T) \in T
<1>1. T \in SUBSET Nat
  BY CowConstants DEF Slots
<1>2. PICK x \in T : \A y \in T : ~(<<y, x>> \in OpToRel(<, Nat))
  BY <1>1, NatLessThanWellFounded, WFMin
<1>3. ASSUME NEW y \in T PROVE x <= y
  <2>1. ~(y < x) /\ x \in Nat /\ y \in Nat
    BY <1>1, <1>2 DEF OpToRel
  <2> QED BY <2>1
<1> QED BY <1>3 DEF Min

\* get_cow_group finds an entry with the number, if there is one.
LEMMA EntryFound ==
  ASSUME NEW gs, NEW g, NEW i \in Slots, gs[i].number = g
  PROVE  /\ Entry(gs, g) \in Slots /\ gs[Entry(gs, g)].number = g
         /\ Entry(gs, g) # NotFound
<1> DEFINE E == {j \in Slots : gs[j].number = g}
<1>1. E \in SUBSET Slots /\ E # {}
  OBVIOUS
<1>2. Entry(gs, g) \in E
  BY <1>1, Least DEF Entry
<1>3. 0 \notin Slots
  BY CowConstants DEF Slots
<1> QED BY <1>2, <1>3 DEF NotFound

\* The table is never full: the shell is in no group.
LEMMA EntryLeft ==
  ASSUME Types, Groups
  PROVE  \E i \in Slots : group[i].number = 0
<1> SUFFICES ASSUME \A i \in Slots : group[i].number # 0 PROVE FALSE
  OBVIOUS
<1>1. Taken = Slots
  BY DEF Taken
<1>2. IsFiniteSet(Slots) /\ Sh \in Slots
  BY FS_Interval, CowConstants DEF Slots, Sh
<1>3. Grouped \subseteq Slots \ {Sh}
  BY DEF Grouped, Groups
<1>4. /\ IsFiniteSet(Slots \ {Sh})
      /\ Cardinality(Slots \ {Sh}) = Cardinality(Slots) - 1
  BY <1>2, FS_RemoveElement
<1>5. Cardinality(Grouped) <= Cardinality(Slots \ {Sh})
  BY <1>3, <1>4, FS_Subset
<1>6. Cardinality(Slots) \in Nat /\ Cardinality(Grouped) \in Nat
  BY <1>2, <1>3, <1>4, FS_Subset, FS_CardinalityType
<1> QED BY <1>1, <1>4, <1>5, <1>6 DEF Groups

\* Everybody's group is found.
LEMMA GroupKnown ==
  ASSUME Types, Groups, NEW p \in Slots
  PROVE  /\ Entry(group, cow_group[p]) \in Slots
         /\ group[Entry(group, cow_group[p])].number = cow_group[p]
         /\ ~LosesGroup(p)
<1>1. \E i \in Slots : group[i].number = cow_group[p]
  <2>1. CASE cow_group[p] = 0
    BY <2>1, EntryLeft
  <2>2. CASE cow_group[p] # 0
    BY <2>2 DEF Groups, Grouped
  <2> QED BY <2>1, <2>2
<1> QED BY <1>1, EntryFound DEF LosesGroup

\* There is a slot for the shell.
LEMMA ShellSlot == Sh \in Slots
BY CowConstants DEF Sh, Slots

\* A used slot has pages.
LEMMA HasPages ==
  ASSUME Types, NEW p \in Slots, state[p] # "unused"
  PROVE  /\ pt[p] \in [Pages -> Page]
         /\ Mapped(p) = {pt[p][a].frame : a \in Pages}
         /\ Mapped(p) \subseteq Frames
<1>1. pt[p] \in [Pages -> Page]
  BY DEF Types
<1> QED BY <1>1 DEF Mapped, Page

\* An unused slot maps nothing.
LEMMA NoPages ==
  ASSUME Types, NEW p \in Slots, state[p] = "unused"
  PROVE  Mapped(p) = {}
BY DEF Types, Mapped, NoMem

\* A page table with pages is not the empty one.
LEMMA EmptyMap == \A g \in [Pages -> Page] : g # NoMem
BY CowConstants DEF NoMem

-----------------------------------------------------------------------------
(* Steps keep processes and groups in order, whatever the programs do. *)

\* What fork does in both cases, and that process numbers stay apart.
LEMMA ChildStep ==
  ASSUME IInv, NEW p \in Slots, NEW q \in Slots, Child(p, q)
  PROVE  /\ p # q /\ q # Sh /\ state[p] = "live" /\ state[q] = "unused"
         /\ nextpid <= MaxPid /\ Pids' /\ panicked' = panicked
         /\ state' = [state EXCEPT ![q] = "live"]
         /\ parent' = [parent EXCEPT ![q] = p]
         /\ pid' = [pid EXCEPT ![q] = nextpid]
         /\ nextpid' = nextpid + 1 /\ seen' = seen
<1>1. /\ p # q /\ q # Sh /\ state[p] = "live" /\ state[q] = "unused"
      /\ nextpid <= MaxPid
  BY DEF Child, NewSlot, IInv, Pids
<1>2. Pids'
  <2>1. nextpid \in Nat /\ pid \in [Slots -> Nat] /\ MaxPid \in Nat
    BY CowConstants DEF IInv, Types
  <2>2. /\ state'[q] = "live" /\ pid'[q] = nextpid /\ nextpid' = nextpid + 1
        /\ \A r \in Slots \ {q} : state'[r] = state[r] /\ pid'[r] = pid[r]
    BY DEF Child, IInv, Types
  <2>3. state'[Sh] = "live" /\ nextpid' >= 2
    BY <1>1, <2>1, <2>2, ShellSlot DEF IInv, Pids
  <2>4. \A r \in Slots : state'[r] # "unused" =>
          /\ 1 <= pid'[r] /\ pid'[r] < nextpid'
          /\ r # Sh => pid'[r] <= MaxPid
    BY <1>1, <2>1, <2>2 DEF IInv, Pids
  <2>5. \A r, s \in Slots : pid'[r] = pid'[s] /\ state'[r] # "unused"
                           /\ state'[s] # "unused" => r = s
    <3>1. \A r \in Slots \ {q} : state'[r] # "unused" => pid'[r] < nextpid
      BY <2>2 DEF IInv, Pids
    <3> QED BY <3>1, <2>1, <2>2 DEF IInv, Pids
  <2> QED BY <2>3, <2>4, <2>5 DEF Pids
<1> QED BY <1>1, <1>2 DEF Child

\* fork(0) inherits the CoW fields of the slot's last owner, which name a group
\* that is still there.
LEMMA Fork0Step ==
  ASSUME IInv, NEW p \in Slots, NEW q \in Slots, Fork0(p, q)
  PROVE  IInv'
<1>0. Types /\ Pids /\ Groups
  BY DEF IInv
<1>1. /\ p # q /\ q # Sh /\ state[p] = "live" /\ state[q] = "unused"
      /\ nextpid <= MaxPid /\ Pids' /\ panicked' = panicked
      /\ state' = [state EXCEPT ![q] = "live"]
      /\ parent' = [parent EXCEPT ![q] = p]
      /\ pid' = [pid EXCEPT ![q] = nextpid]
      /\ nextpid' = nextpid + 1 /\ seen' = seen
  BY ChildStep DEF Fork0
<1>2. UNCHANGED <<cow_group, cow_enabled, group, kin>>
  BY DEF Fork0
<1>3. Types'
  <2>1. PICK copy \in Layouts(free) :
          /\ pt' = [pt EXCEPT ![q] = [a \in Pages |->
                       [frame |-> copy[a], writable |-> pt[p][a].writable]]]
          /\ data' = Fill(data, copy, [a \in Pages |-> data[pt[p][a].frame]])
          /\ free' = free \ Laid(copy)
    BY DEF Fork0
  <2>2. pt[p] \in [Pages -> Page] /\ copy \in [Pages -> Frames]
    BY <1>0, <1>1, HasPages DEF Layouts, Types
  <2>3. [a \in Pages |-> [frame |-> copy[a], writable |-> pt[p][a].writable]]
          \in [Pages -> Page]
    BY <2>2 DEF Page
  <2>4. pt' \in [Slots -> [Pages -> Page] \cup {NoMem}] /\ pt'[q] # NoMem
        /\ \A r \in Slots \ {q} : pt'[r] = pt[r]
    BY <2>1, <2>3, <1>0, EmptyMap DEF Types
  <2>5. data' \in [Frames -> Vals \cup {Junk}]
    <3>1. \A a \in Pages : data[pt[p][a].frame] \in Vals \cup {Junk}
      BY <2>2, <1>0 DEF Types, Page
    <3>2. \A f \in Laid(copy) : (CHOOSE a \in Pages : copy[a] = f) \in Pages
      BY DEF Laid
    <3> QED BY <3>1, <3>2, <2>1, <1>0 DEF Fill, Types
  <2>6. \A r \in Slots : state'[r] = "unused" <=> pt'[r] = NoMem
    BY <2>4, <1>0, <1>1 DEF Types
  <2>7. /\ state' \in [Slots -> {"unused", "live", "exiting", "zombie"}]
        /\ parent' \in [Slots -> Slots] /\ pid' \in [Slots -> Nat] /\ nextpid' \in Nat
    BY <1>0, <1>1 DEF Types
  <2>8. free' \subseteq Frames
    BY <2>1, <1>0 DEF Types
  <2> QED BY <2>4, <2>5, <2>6, <2>7, <2>8, <1>0, <1>1, <1>2 DEF Types
<1>4. Groups'
  <2>1. nextpid \in Nat /\ group \in [Slots -> Group]
    BY <1>0 DEF Types
  <2>2. \A i \in Slots, r \in Slots :
          state'[r] # "unused" /\ group[i].number = pid'[r] => cow_group[r] # 0
    <3>1. ASSUME NEW i \in Slots, group[i].number = nextpid PROVE FALSE
      <4>1. i \in Taken
        BY <3>1, <1>0, <2>1 DEF Taken, Pids
      <4>2. group[i].number < nextpid
        BY <4>1, <1>0 DEF Groups
      <4> QED BY <4>2, <3>1, <2>1
    <3>2. /\ pid'[q] = nextpid
          /\ \A r \in Slots \ {q} : pid'[r] = pid[r] /\ state'[r] = state[r]
      BY <1>0, <1>1 DEF Types
    <3> QED BY <3>1, <3>2, <1>0 DEF Groups
  <2>3. \A i \in Taken : group[i].number < nextpid + 1
    <3>1. \A i \in Taken : group[i].number < nextpid /\ group[i].number \in Nat
      BY <1>0, <2>1 DEF Groups, Taken, Group
    <3> QED BY <3>1, <2>1
  <2>4. Taken' = Taken /\ Grouped' = Grouped
    BY <1>2 DEF Taken, Grouped
  <2> QED BY <2>2, <2>3, <2>4, <1>0, <1>1, <1>2 DEF Groups
<1> QED BY <1>0, <1>1, <1>3, <1>4 DEF IInv, GroupIsFound

\* What fork(1) does to the group g of p, at entry e of the table.
Joins(p, q, g, e) ==
    /\ p # Sh /\ g # 0
    /\ \E k \in 1 .. MaxPid : /\ kin[p] \in {0, k} /\ Disciplined(p, k, g)
                             /\ kin' = [kin EXCEPT ![p] = k, ![q] = k]
    /\ \/ cow_group[p] = g /\ group[e].number = g
       \/ cow_group[p] = 0 /\ group[e].number = 0 /\ g = pid[p]
    /\ cow_group' = [cow_group EXCEPT ![p] = g, ![q] = g]
    /\ cow_enabled' = [cow_enabled EXCEPT ![p] = TRUE, ![q] = TRUE]
    /\ group' = [group EXCEPT ![e] = [number |-> g, count |-> group[e].count + 1,
                                      shmem |-> group[e].shmem \cup Mapped(p)]]

\* fork(1) finds the group of p, or room for a new one: the slots that have a
\* group are fewer than the entries, since the shell's has none.
LEMMA Fork1Does ==
  ASSUME IInv, NEW p \in Slots, NEW q \in Slots, Fork1(p, q)
  PROVE  Child(p, q) /\ \E g \in 0 .. MaxPid, e \in Slots : Joins(p, q, g, e)
<1>0. Types /\ Pids /\ Groups
  BY DEF IInv
<1> DEFINE founder == cow_group[p] = 0
           g       == IF founder THEN pid[p] ELSE cow_group[p]
           gs      == IF founder THEN CowGroupInit(group, g) ELSE group
           e       == IF founder THEN Entry(group, 0) ELSE Entry(group, g)
           k       == IF kin[p] = 0 THEN pid[p] ELSE kin[p]
<1>1. p # Sh /\ state[p] = "live"
  BY DEF Fork1, Child
<1>2. g \in 0 .. MaxPid /\ g # 0 /\ g \in Nat
  <2>1. pid[p] \in Nat /\ 1 <= pid[p] /\ pid[p] <= MaxPid /\ cow_group[p] \in 0 .. MaxPid
    BY <1>0, <1>1 DEF Pids, Types
  <2> QED BY <2>1, CowConstants
<1>3. group \in [Slots -> Group]
  BY <1>0 DEF Types
<1>4. /\ Entry(gs, g) = e /\ e \in Slots /\ e # NotFound
      /\ gs = [group EXCEPT ![e].number = g]
      /\ \/ cow_group[p] = g /\ group[e].number = g
         \/ cow_group[p] = 0 /\ group[e].number = 0 /\ g = pid[p]
  <2>1. CASE founder
    <3>1. e \in Slots /\ group[e].number = 0 /\ e # NotFound
      BY <2>1, <1>0, EntryLeft, EntryFound
    <3>2. gs = [group EXCEPT ![e].number = g]
      BY <2>1, <3>1 DEF CowGroupInit
    <3>3. gs[e].number = g
      BY <3>1, <3>2, <1>3 DEF Group
    <3>4. \A i \in Slots \ {e} : gs[i].number # g
      <4>1. g = pid[p] /\ \A i \in Slots : group[i].number # pid[p]
        BY <2>1, <1>0, <1>1 DEF Groups
      <4>2. \A i \in Slots \ {e} : gs[i] = group[i]
        BY <3>2, <1>3
      <4> QED BY <4>1, <4>2
    <3>5. Entry(gs, g) \in Slots /\ gs[Entry(gs, g)].number = g
      BY <3>1, <3>3, EntryFound
    <3> QED BY <3>1, <3>2, <3>4, <3>5, <2>1
  <2>2. CASE ~founder
    <3>1. e \in Slots /\ group[e].number = g /\ e # NotFound
      BY <2>2, <1>0, GroupKnown DEF LosesGroup
    <3>2. group = [group EXCEPT ![e].number = g]
      BY <3>1, <1>3 DEF Group
    <3> QED BY <3>1, <3>2, <2>2
  <2> QED BY <2>1, <2>2
<1>a. Entry(gs, g) # NotFound
  BY <1>4
<1>5. /\ Child(p, q)
      /\ Disciplined(p, k, g)
      /\ kin' = [kin EXCEPT ![p] = k, ![q] = k]
      /\ cow_group' = [cow_group EXCEPT ![p] = g, ![q] = g]
      /\ cow_enabled' = [cow_enabled EXCEPT ![p] = founder \/ cow_enabled[p], ![q] = TRUE]
      /\ group' = [gs EXCEPT ![Entry(gs, g)] =
                      [number |-> g, count |-> gs[Entry(gs, g)].count + 1,
                       shmem |-> gs[Entry(gs, g)].shmem \cup Mapped(p)]]
  BY <1>a DEF Fork1
<1>6. (founder \/ cow_enabled[p]) = TRUE
  BY <1>0 DEF Groups, Types
<1>7. group' = [group EXCEPT ![e] = [number |-> g, count |-> group[e].count + 1,
                                    shmem |-> group[e].shmem \cup Mapped(p)]]
  <2> HIDE DEF gs, e, g
  <2>1. gs \in [Slots -> Group] /\ gs[e] = [group[e] EXCEPT !.number = g]
        /\ \A i \in Slots \ {e} : gs[i] = group[i]
    BY <1>2, <1>3, <1>4 DEF Group
  <2>2. group' = [gs EXCEPT ![e] = [number |-> g, count |-> gs[e].count + 1,
                                    shmem |-> gs[e].shmem \cup Mapped(p)]]
    BY <1>4, <1>5
  <2>3. /\ group'[e] = [number |-> g, count |-> group[e].count + 1,
                        shmem |-> group[e].shmem \cup Mapped(p)]
        /\ \A i \in Slots \ {e} : group'[i] = group[i]
        /\ DOMAIN group' = Slots
    BY <2>1, <2>2, <1>3, <1>4 DEF Group
  <2> QED BY <2>3, <2>2, <2>1, <1>3, <1>4
<1>b. k \in 1 .. MaxPid /\ kin[p] \in {0, k}
  <2>1. pid[p] \in Nat /\ 1 <= pid[p] /\ pid[p] <= MaxPid /\ kin[p] \in 0 .. MaxPid
    BY <1>0, <1>1 DEF Pids, Types
  <2> QED BY <2>1, CowConstants
<1> HIDE DEF g, gs, e, k
<1>8. Joins(p, q, g, e)
  BY <1>1, <1>2, <1>4, <1>5, <1>6, <1>7, <1>b DEF Joins
<1> QED BY <1>2, <1>4, <1>5, <1>8

\* Only what Groups looks at has changed nowhere.
LEMMA SameGroups ==
  ASSUME Groups, UNCHANGED <<cow_group, cow_enabled, group, nextpid>>,
         \A r \in Slots : state'[r] # "unused" => state[r] # "unused" /\ pid'[r] = pid[r]
  PROVE  Groups'
<1>1. Taken' = Taken /\ Grouped' = Grouped
  BY DEF Taken, Grouped
<1> QED BY <1>1 DEF Groups

\* fork(1) maps the frames of p in both, read-only.
LEMMA Fork1Shares ==
  ASSUME IInv, NEW p \in Slots, NEW q \in Slots, Fork1(p, q)
  PROVE  \E shared : /\ shared = [a \in Pages |-> [pt[p][a] EXCEPT !.writable = FALSE]]
                     /\ pt' = [pt EXCEPT ![p] = shared, ![q] = shared]
                     /\ UNCHANGED <<data, free>>
<1>1. Entry(IF cow_group[p] = 0
            THEN CowGroupInit(group, IF cow_group[p] = 0 THEN pid[p] ELSE cow_group[p])
            ELSE group, IF cow_group[p] = 0 THEN pid[p] ELSE cow_group[p]) # NotFound
  BY Fork1Does DEF Fork1, Child, Panic
<1> QED BY <1>1 DEF Fork1

\* fork(1), with a new group or an old one.
LEMMA Fork1Step ==
  ASSUME IInv, NEW p \in Slots, NEW q \in Slots, Fork1(p, q)
  PROVE  IInv'
<1>0. Types /\ Pids /\ Groups
  BY DEF IInv
<1>1. PICK g \in 0 .. MaxPid, e \in Slots : Joins(p, q, g, e)
  BY Fork1Does
<1>2. /\ p # q /\ q # Sh /\ state[p] = "live" /\ state[q] = "unused"
      /\ nextpid <= MaxPid /\ Pids' /\ panicked' = panicked
      /\ state' = [state EXCEPT ![q] = "live"]
      /\ parent' = [parent EXCEPT ![q] = p]
      /\ pid' = [pid EXCEPT ![q] = nextpid]
      /\ nextpid' = nextpid + 1 /\ seen' = seen
  BY Fork1Does, ChildStep
<1>3. Mapped(p) \subseteq Frames /\ pt[p] \in [Pages -> Page]
  BY <1>0, <1>2, HasPages
<1>4. group \in [Slots -> Group] /\ MaxPid \in Nat /\ nextpid \in Nat
      /\ cow_group \in [Slots -> 0 .. MaxPid] /\ cow_enabled \in [Slots -> BOOLEAN]
  BY <1>0, CowConstants DEF Types
<1>5. /\ group'[e] = [number |-> g, count |-> group[e].count + 1,
                      shmem |-> group[e].shmem \cup Mapped(p)]
      /\ \A i \in Slots \ {e} : group'[i] = group[i]
  BY <1>1, <1>4 DEF Joins
<1>6. Types'
  <2>1. group' \in [Slots -> Group]
    <3>1. group'[e] \in Group
      BY <1>3, <1>4, <1>5 DEF Group
    <3> QED BY <3>1, <1>1, <1>4 DEF Joins
  <2>2. PICK shared : /\ shared = [a \in Pages |-> [pt[p][a] EXCEPT !.writable = FALSE]]
                      /\ pt' = [pt EXCEPT ![p] = shared, ![q] = shared]
                      /\ UNCHANGED <<data, free>>
    BY Fork1Shares
  <2>3. shared \in [Pages -> Page]
    BY <2>2, <1>3 DEF Page
  <2>4. /\ pt' \in [Slots -> [Pages -> Page] \cup {NoMem}]
        /\ \A r \in Slots : state'[r] = "unused" <=> pt'[r] = NoMem
    BY <2>2, <2>3, <1>0, <1>2, EmptyMap DEF Types
  <2>5. cow_group' \in [Slots -> 0 .. MaxPid] /\ cow_enabled' \in [Slots -> BOOLEAN]
    BY <1>1, <1>4 DEF Joins
  <2>a. kin' \in [Slots -> 0 .. MaxPid]
    <3>1. PICK k \in 1 .. MaxPid : kin' = [kin EXCEPT ![p] = k, ![q] = k]
      BY <1>1 DEF Joins
    <3>2. k \in 0 .. MaxPid /\ kin \in [Slots -> 0 .. MaxPid]
      BY <1>0, <1>4 DEF Types
    <3> QED BY <3>1, <3>2
  <2>6. /\ state' \in [Slots -> {"unused", "live", "exiting", "zombie"}]
        /\ parent' \in [Slots -> Slots] /\ pid' \in [Slots -> Nat] /\ nextpid' \in Nat
    BY <1>0, <1>2 DEF Types
  <2> QED BY <2>1, <2>2, <2>4, <2>5, <2>a, <2>6, <1>0, <1>2 DEF Types
<1>7. Groups'
  <2>1. /\ cow_group'[p] = g /\ cow_group'[q] = g
        /\ \A r \in Slots \ {p, q} : cow_group'[r] = cow_group[r]
        /\ \A r \in Slots : r \notin {p, q} => cow_enabled'[r] = cow_enabled[r]
        /\ cow_enabled'[p] = TRUE /\ cow_enabled'[q] = TRUE
    BY <1>1, <1>2, <1>4 DEF Joins
  <2>2. g # 0 /\ p # Sh /\ (group[e].number = 0 \/ group[e].number = g)
    BY <1>1 DEF Joins
  <2>3. cow_group'[Sh] = 0
    BY <2>1, <2>2, <1>0, <1>2, ShellSlot DEF Groups
  <2>4. \A r \in Slots : cow_enabled'[r] <=> cow_group'[r] # 0
    <3>1. \A r \in Slots : cow_enabled[r] <=> cow_group[r] # 0
      BY <1>0 DEF Groups
    <3>2. \A r \in Slots \ {p, q} : cow_enabled'[r] <=> cow_group'[r] # 0
      BY <3>1, <2>1
    <3>3. \A r \in {p, q} : cow_enabled'[r] = TRUE /\ cow_group'[r] # 0
      BY <2>1, <2>2
    <3> QED BY <3>2, <3>3
  <2>5. \A r \in Grouped' : \E i \in Slots : group'[i].number = cow_group'[r]
    <3>1. ASSUME NEW r \in Grouped' PROVE \E i \in Slots : group'[i].number = cow_group'[r]
      <4>1. CASE r \in {p, q}
        BY <4>1, <2>1, <1>5
      <4>2. CASE r \notin {p, q}
        <5>1. r \in Grouped
          BY <4>2, <3>1, <2>1 DEF Grouped
        <5>2. PICK i \in Slots : group[i].number = cow_group[r]
          BY <5>1, <1>0 DEF Groups
        <5>3. group'[i].number = group[i].number
          BY <5>1, <5>2, <1>5, <2>2 DEF Grouped
        <5> QED BY <5>1, <5>2, <5>3, <4>2, <2>1 DEF Grouped
      <4> QED BY <4>1, <4>2
    <3> QED BY <3>1
  <2>6. Cardinality(Taken') <= Cardinality(Grouped')
    <3>1. IsFiniteSet(Slots)
      BY FS_Interval, CowConstants DEF Slots
    <3>2. /\ IsFiniteSet(Taken) /\ IsFiniteSet(Grouped) /\ IsFiniteSet(Grouped')
          /\ Cardinality(Taken) \in Nat /\ Cardinality(Grouped) \in Nat
          /\ Cardinality(Grouped') \in Nat
      BY <3>1, FS_Subset, FS_CardinalityType DEF Taken, Grouped
    <3>3. Grouped \subseteq Grouped' /\ p \in Grouped'
      BY <2>1, <2>2 DEF Grouped
    <3>4. Cardinality(Grouped) <= Cardinality(Grouped')
      BY <3>2, <3>3, FS_Subset
    <3>5. CASE group[e].number = g
      <4>1. Taken' = Taken
        BY <3>5, <1>5, <2>2 DEF Taken
      <4> QED BY <4>1, <3>2, <3>4, <1>0 DEF Groups
    <3>6. CASE group[e].number # g
      <4>1. group[e].number = 0 /\ cow_group[p] = 0
        BY <3>6, <1>1 DEF Joins
      <4>2. e \notin Taken /\ p \notin Grouped /\ Taken' = Taken \cup {e}
        BY <4>1, <1>5, <2>2 DEF Taken, Grouped
      <4>3. Cardinality(Taken') = Cardinality(Taken) + 1
        BY <4>2, <3>2, FS_AddElement
      <4>4. /\ Cardinality(Grouped \cup {p}) = Cardinality(Grouped) + 1
            /\ Grouped \cup {p} \subseteq Grouped'
        BY <4>2, <3>2, <3>3, FS_AddElement
      <4>5. Cardinality(Grouped \cup {p}) <= Cardinality(Grouped')
        BY <4>4, <3>2, FS_Subset
      <4> QED BY <4>3, <4>4, <4>5, <3>2, <1>0 DEF Groups
    <3> QED BY <3>5, <3>6
  <2>7. \A i, j \in Taken' : group'[i].number = group'[j].number => i = j
    <3>1. ASSUME NEW i \in Slots \ {e}, group[i].number = g PROVE FALSE
      <4>1. CASE group[e].number = g
        BY <4>1, <3>1, <2>2, <1>0 DEF Groups, Taken
      <4>2. CASE group[e].number # g
        BY <4>2, <3>1, <1>0, <1>1, <1>2 DEF Joins, Groups
      <4> QED BY <4>1, <4>2
    <3>2. \A i \in Taken' \ {e} : i \in Taken /\ i \in Slots \ {e}
      BY <1>5 DEF Taken
    <3> QED BY <3>1, <3>2, <1>0, <1>5 DEF Groups, Taken
  <2>8. \A i \in Taken' : group'[i].number < nextpid'
    <3>1. g < nextpid /\ g \in Nat
      <4>1. CASE group[e].number = g
        BY <4>1, <2>2, <1>0, <1>4 DEF Groups, Taken
      <4>2. CASE group[e].number # g
        BY <4>2, <1>0, <1>1, <1>2 DEF Joins, Pids
      <4> QED BY <4>1, <4>2
    <3>2. \A i \in Taken' \ {e} : group'[i].number < nextpid /\ group'[i].number \in Nat
      BY <1>0, <1>4, <1>5 DEF Groups, Taken, Group
    <3> QED BY <3>1, <3>2, <1>2, <1>4, <1>5
  <2>9. \A i \in Slots, r \in Slots :
          state'[r] # "unused" /\ group'[i].number = pid'[r] => cow_group'[r] # 0
    <3>1. ASSUME NEW i \in Slots, NEW r \in Slots \ {p, q}, state'[r] # "unused",
                 group'[i].number = pid'[r]
          PROVE  cow_group'[r] # 0
      <4>1. pid'[r] = pid[r] /\ state[r] # "unused"
        BY <3>1, <1>0, <1>2 DEF Types
      <4>2. CASE i # e \/ group[e].number = g
        <5>1. group'[i].number = group[i].number
          BY <4>2, <1>5
        <5>2. cow_group[r] # 0
          BY <5>1, <4>1, <3>1, <1>0 DEF Groups
        <5> QED BY <5>2, <2>1
      <4>3. CASE i = e /\ group[e].number # g
        <5>1. pid[r] = pid[p]
          BY <4>1, <4>3, <3>1, <1>1, <1>5 DEF Joins
        <5> QED BY <5>1, <4>1, <3>1, <1>0, <1>2 DEF Pids
      <4> QED BY <4>2, <4>3
    <3> QED BY <3>1, <2>1, <2>2
  <2>10. \A i \in Slots \ Taken' : group'[i].count = 0 /\ group'[i].shmem = {}
    <3>1. \A i \in Slots \ Taken' : i # e /\ i \in Slots \ Taken
      BY <1>5, <2>2 DEF Taken
    <3> QED BY <3>1, <1>0, <1>5 DEF Groups
  <2> QED BY <2>3, <2>4, <2>5, <2>6, <2>7, <2>8, <2>9, <2>10 DEF Groups
<1> QED BY <1>2, <1>6, <1>7 DEF IInv, GroupIsFound

\* The other panics.
LEMMA PanicStep ==
  ASSUME IInv, NEW why, why # "null group", Panic(why)
  PROVE  IInv'
<1>1. Groups'
  BY SameGroups DEF IInv, Panic
<1> QED BY <1>1 DEF Panic, IInv, Types, Pids, GroupIsFound

\* A store.
LEMMA StoreStep ==
  ASSUME IInv, NEW p \in Slots, NEW a \in Pages, NEW v \in Vals, Store(p, a, v)
  PROVE  IInv'
<1>1. Groups'
  BY SameGroups DEF IInv, Store
<1>2. data' \in [Frames -> Vals \cup {Junk}]
  BY DEF Store, IInv, Types
<1> QED BY <1>1, <1>2 DEF Store, IInv, Types, Pids, GroupIsFound

\* The write fault.
LEMMA WriteFaultStep ==
  ASSUME IInv, NEW p \in Slots, NEW a \in Pages, WriteFault(p, a)
  PROVE  IInv'
<1>1. CASE Panic("remap") \/ Panic("no memory")
  BY <1>1, PanicStep
<1>2. CASE ~(Panic("remap") \/ Panic("no memory"))
  <2>0. Types
    BY DEF IInv
  <2>1. PICK f \in free :
          /\ free' = free \ {f}
          /\ pt' = [pt EXCEPT ![p][a] = [frame |-> f, writable |-> TRUE]]
          /\ data' = [data EXCEPT ![f] = data[pt[p][a].frame]]
    BY <1>2 DEF WriteFault
  <2>2. UNCHANGED <<state, parent, pid, cow_group, cow_enabled, group, seen, kin,
                    nextpid, panicked>> /\ state[p] = "live"
    BY <1>2 DEF WriteFault
  <2>3. Groups'
    BY <2>2, SameGroups DEF IInv
  <2>4. pt[p] \in [Pages -> Page] /\ f \in Frames
    BY <2>0, <2>1, <2>2, HasPages DEF Types
  <2>5. data' \in [Frames -> Vals \cup {Junk}]
    <3>1. pt[p][a].frame \in Frames
      BY <2>4 DEF Page
    <3> QED BY <3>1, <2>0, <2>1, <2>4 DEF Types
  <2>6. /\ pt' \in [Slots -> [Pages -> Page] \cup {NoMem}]
        /\ \A r \in Slots : state[r] = "unused" <=> pt'[r] = NoMem
    <3>1. [frame |-> f, writable |-> TRUE] \in Page
      BY <2>4 DEF Page
    <3>2. PICK m \in [Pages -> Page] :
            m = [pt[p] EXCEPT ![a] = [frame |-> f, writable |-> TRUE]]
      BY <3>1, <2>4
    <3>3. pt' = [pt EXCEPT ![p] = m]
      BY <3>2, <2>1
    <3> QED BY <3>3, <2>0, <2>2, EmptyMap DEF Types
  <2> QED BY <2>0, <2>1, <2>2, <2>3, <2>5, <2>6 DEF IInv, Types, Pids, GroupIsFound
<1> QED BY <1>1, <1>2

\* exec never loses its group.
LEMMA ExecStep ==
  ASSUME IInv, NEW p \in Slots, Exec(p)
  PROVE  IInv'
<1>0. Types
  BY DEF IInv
<1>1. ~LosesGroup(p)
  BY GroupKnown DEF IInv
<1>2. PICK new \in Layouts(free) :
        /\ pt' = [pt EXCEPT ![p] = [a \in Pages |-> [frame |-> new[a], writable |-> TRUE]]]
        /\ data' = Fill(Kfree(data, Freed(p, Mapped(p))), new, Image)
        /\ free' = (free \ Laid(new)) \cup Freed(p, Mapped(p))
  BY <1>1 DEF Exec
<1>3. UNCHANGED <<state, parent, pid, cow_group, cow_enabled, group, seen, kin,
                  nextpid, panicked>> /\ state[p] = "live"
  BY <1>1 DEF Exec
<1>4. Groups'
  BY <1>3, SameGroups DEF IInv
<1>5. new \in [Pages -> Frames] /\ Freed(p, Mapped(p)) \subseteq Frames
  BY <1>0, <1>2, <1>3, HasPages DEF Layouts, Freed, Types
<1>6. /\ pt' \in [Slots -> [Pages -> Page] \cup {NoMem}]
      /\ \A r \in Slots : state[r] = "unused" <=> pt'[r] = NoMem
  <2>1. [a \in Pages |-> [frame |-> new[a], writable |-> TRUE]] \in [Pages -> Page]
    BY <1>5 DEF Page
  <2> QED BY <2>1, <1>0, <1>2, <1>3, EmptyMap DEF Types
<1>7. data' \in [Frames -> Vals \cup {Junk}]
  <2>1. \A f \in Laid(new) : (CHOOSE a \in Pages : new[a] = f) \in Pages
    BY DEF Laid
  <2> QED BY <2>1, <1>0, <1>2, CowConstants DEF Fill, Kfree, Types
<1>8. free' \subseteq Frames
  BY <1>0, <1>2, <1>5 DEF Types
<1> QED BY <1>0, <1>3, <1>4, <1>6, <1>7, <1>8 DEF IInv, Types, Pids, GroupIsFound

\* exit never loses its group.
LEMMA ExitReadStep ==
  ASSUME IInv, NEW p \in Slots, ExitRead(p)
  PROVE  IInv'
<1>0. Types /\ Pids /\ Groups
  BY DEF IInv
<1>1. ~LosesGroup(p)
  BY <1>0, GroupKnown
<1>2. /\ p # Sh /\ state[p] = "live" /\ state' = [state EXCEPT ![p] = "exiting"]
      /\ seen' = [seen EXCEPT ![p] = IF cow_enabled[p]
                     THEN group[Entry(group, cow_group[p])].count ELSE 0]
      /\ UNCHANGED <<parent, pid, cow_group, cow_enabled, pt, group, data, free,
                     kin, nextpid, panicked>>
  BY <1>1 DEF ExitRead
<1>3. \A r \in Slots : /\ state'[r] = "unused" <=> state[r] = "unused"
                       /\ r # p => state'[r] = state[r]
  BY <1>0, <1>2 DEF Types
<1>4. Groups'
  BY <1>0, <1>2, <1>3, SameGroups
<1>5. Pids'
  BY <1>0, <1>2, <1>3, ShellSlot DEF Pids
<1>6. seen' \in [Slots -> Int]
  <2>1. group[Entry(group, cow_group[p])].count \in Int
    BY <1>0, GroupKnown DEF Types, Group
  <2> QED BY <2>1, <1>0, <1>2 DEF Types
<1>7. Types'
  BY <1>0, <1>2, <1>3, <1>6 DEF Types
<1> QED BY <1>2, <1>4, <1>5, <1>7 DEF IInv, GroupIsFound

\* The rest of exit.
LEMMA ExitZombieStep ==
  ASSUME IInv, NEW p \in Slots, ExitZombie(p)
  PROVE  IInv'
<1>0. Types /\ Pids /\ Groups
  BY DEF IInv
<1>1. UNCHANGED <<pid, cow_group, cow_enabled, pt, data, free, kin, nextpid, panicked>>
  BY DEF ExitZombie
<1>a. state[p] = "exiting" /\ state' = [state EXCEPT ![p] = "zombie"]
  BY DEF ExitZombie
<1>b. seen' \in [Slots -> Int] /\ state' \in [Slots -> {"unused", "live", "exiting", "zombie"}]
  BY <1>0, <1>a DEF ExitZombie, Types
<1>2. parent' \in [Slots -> Slots]
  BY <1>0, ShellSlot DEF ExitZombie, Types
<1>3. \A r \in Slots : /\ state'[r] = "unused" <=> state[r] = "unused"
                       /\ r # p => state'[r] = state[r]
  BY <1>0, <1>a DEF Types
<1>4. Pids'
  BY <1>0, <1>1, <1>3, <1>a, ShellSlot DEF Pids
<1>5. CASE ~cow_enabled[p]
  <2>1. group' = group
    BY <1>5 DEF ExitZombie
  <2>2. Groups'
    BY <2>1, <1>0, <1>1, <1>3, SameGroups
  <2>3. Types'
    BY <2>1, <1>0, <1>1, <1>2, <1>3, <1>b DEF Types
  <2> QED BY <2>2, <2>3, <1>1, <1>4 DEF IInv, GroupIsFound
<1>6. CASE cow_enabled[p]
  <2>1. PICK e \in Slots : e = Entry(group, cow_group[p]) /\ e \in Taken
    BY <1>0, <1>6, GroupKnown DEF Groups, Taken
  <2>2. group' = [group EXCEPT ![e].count = seen[p] - 1]
    BY <1>6, <2>1 DEF ExitZombie
  <2>3. group \in [Slots -> Group] /\ seen[p] \in Int
    BY <1>0 DEF Types
  <2>4. /\ group' \in [Slots -> Group]
        /\ \A i \in Slots : /\ group'[i].number = group[i].number
                            /\ group'[i].shmem = group[i].shmem
                            /\ i # e => group'[i] = group[i]
    BY <2>2, <2>3 DEF Group
  <2>5. Taken' = Taken /\ Grouped' = Grouped /\ Taken \subseteq Slots
    BY <2>4, <1>1 DEF Taken, Grouped
  <2>6. Groups'
    <3>1. cow_group'[Sh] = 0 /\ \A r \in Slots : cow_enabled'[r] <=> cow_group'[r] # 0
      BY <1>0, <1>1 DEF Groups
    <3>2. \A r \in Grouped' : \E i \in Slots : group'[i].number = cow_group'[r]
      BY <2>4, <2>5, <1>0, <1>1 DEF Groups
    <3>3. Cardinality(Taken') <= Cardinality(Grouped')
      BY <2>5, <1>0 DEF Groups
    <3>4. /\ \A i, j \in Taken' : group'[i].number = group'[j].number => i = j
          /\ \A i \in Taken' : group'[i].number < nextpid'
      BY <2>4, <2>5, <1>0, <1>1 DEF Groups
    <3>5. \A i \in Slots, r \in Slots :
            state'[r] # "unused" /\ group'[i].number = pid'[r] => cow_group'[r] # 0
      BY <2>4, <1>0, <1>1, <1>3 DEF Groups
    <3>6. \A i \in Slots \ Taken' : group'[i].count = 0 /\ group'[i].shmem = {}
      BY <2>1, <2>4, <2>5, <1>0 DEF Groups
    <3> QED BY <3>1, <3>2, <3>3, <3>4, <3>5, <3>6 DEF Groups
  <2>7. Types'
    BY <2>4, <1>0, <1>1, <1>2, <1>3, <1>b DEF Types
  <2> QED BY <2>6, <2>7, <1>1, <1>4 DEF IInv, GroupIsFound
<1> QED BY <1>5, <1>6

\* wait never loses its group.
LEMMA WaitStep ==
  ASSUME IInv, NEW p \in Slots, NEW q \in Slots, Wait(p, q)
  PROVE  IInv'
<1>0. Types /\ Pids /\ Groups
  BY DEF IInv
<1>1. ~LosesGroup(p)
  BY <1>0, GroupKnown
<1>2. /\ state[q] = "zombie" /\ state' = [state EXCEPT ![q] = "unused"]
      /\ parent' = [parent EXCEPT ![q] = Sh] /\ pid' = [pid EXCEPT ![q] = 0]
      /\ pt' = [pt EXCEPT ![q] = NoMem]
      /\ data' = Kfree(data, Freed(p, Mapped(q)))
      /\ free' = free \cup Freed(p, Mapped(q))
      /\ kin' = [kin EXCEPT ![q] = 0]
      /\ UNCHANGED <<cow_group, cow_enabled, group, seen, nextpid, panicked>>
  BY <1>1 DEF Wait, NoMem
<1>3. /\ state'[q] = "unused"
      /\ \A r \in Slots \ {q} : state'[r] = state[r] /\ pid'[r] = pid[r] /\ pt'[r] = pt[r]
  BY <1>0, <1>2 DEF Types
<1>4. Groups'
  BY <1>0, <1>2, <1>3, SameGroups
<1>5. Pids'
  BY <1>0, <1>2, <1>3, ShellSlot DEF Pids
<1>6. Types'
  <2>1. /\ state' \in [Slots -> {"unused", "live", "exiting", "zombie"}]
        /\ parent' \in [Slots -> Slots] /\ pid' \in [Slots -> Nat]
        /\ kin' \in [Slots -> 0 .. MaxPid]
    BY <1>0, <1>2, ShellSlot, CowConstants DEF Types
  <2>2. /\ pt' \in [Slots -> [Pages -> Page] \cup {NoMem}]
        /\ \A r \in Slots : state'[r] = "unused" <=> pt'[r] = NoMem
    BY <1>0, <1>2, <1>3 DEF Types
  <2>3. data' \in [Frames -> Vals \cup {Junk}]
    BY <1>0, <1>2 DEF Types, Kfree
  <2>4. free' \subseteq Frames
    BY <1>0, <1>2, HasPages DEF Types, Freed
  <2> QED BY <2>1, <2>2, <2>3, <2>4, <1>0, <1>2 DEF Types
<1> QED BY <1>2, <1>4, <1>5, <1>6 DEF IInv, GroupIsFound

\* The invariant holds when the first process runs.
LEMMA StartsSound == Init => IInv
<1> SUFFICES ASSUME Init PROVE IInv
  OBVIOUS
<1>1. PICK new \in Layouts(Frames) :
        /\ pt = [p \in Slots |-> [a \in IF p = Sh THEN Pages ELSE {} |->
                                        [frame |-> new[a], writable |-> TRUE]]]
        /\ data = Fill([f \in Frames |-> Junk], new, Image)
        /\ free = Frames \ Laid(new)
  BY DEF Init, InitWith
<1>2. /\ state = [p \in Slots |-> IF p = Sh THEN "live" ELSE "unused"]
      /\ parent = [p \in Slots |-> Sh]
      /\ pid = [p \in Slots |-> IF p = Sh THEN 1 ELSE 0]
      /\ cow_group = [p \in Slots |-> 0] /\ cow_enabled = [p \in Slots |-> FALSE]
      /\ group = [i \in Slots |-> [number |-> 0, count |-> 0, shmem |-> {}]]
      /\ seen = [p \in Slots |-> 0] /\ kin = [p \in Slots |-> 0]
      /\ nextpid = 2 /\ panicked = "no"
  BY DEF Init, InitWith
<1>3. new \in [Pages -> Frames]
  BY DEF Layouts
<1>4. /\ pt \in [Slots -> [Pages -> Page] \cup {NoMem}]
      /\ \A p \in Slots : state[p] = "unused" <=> pt[p] = NoMem
  <2>1. ASSUME NEW p \in Slots, p # Sh PROVE pt[p] = NoMem
    BY <2>1, <1>1 DEF NoMem
  <2>2. pt[Sh] = [a \in Pages |-> [frame |-> new[a], writable |-> TRUE]]
    BY <1>1, ShellSlot
  <2>3. pt[Sh] \in [Pages -> Page]
    BY <2>2, <1>3 DEF Page
  <2> QED BY <2>1, <2>3, <1>1, <1>2, EmptyMap
<1>5. data \in [Frames -> Vals \cup {Junk}]
  <2>1. \A f \in Laid(new) : (CHOOSE a \in Pages : new[a] = f) \in Pages
    BY DEF Laid
  <2> QED BY <2>1, <1>1, CowConstants DEF Fill
<1>6. Types
  <2>1. /\ cow_group \in [Slots -> 0 .. MaxPid] /\ kin \in [Slots -> 0 .. MaxPid]
        /\ cow_enabled \in [Slots -> BOOLEAN] /\ seen \in [Slots -> Int]
        /\ pid \in [Slots -> Nat] /\ nextpid \in Nat
    BY <1>2, CowConstants
  <2>2. group \in [Slots -> Group]
    BY <1>2 DEF Group
  <2> QED BY <2>1, <2>2, <1>1, <1>2, <1>4, <1>5, ShellSlot DEF Types
<1>7. Pids
  BY <1>2, ShellSlot DEF Pids
<1>8. Groups
  <2>1. Taken = {} /\ Grouped = {} /\ Cardinality({}) = 0
    BY <1>2, FS_EmptySet DEF Taken, Grouped
  <2> QED BY <2>1, <1>2, ShellSlot DEF Groups
<1> QED BY <1>2, <1>6, <1>7, <1>8 DEF IInv, GroupIsFound

\* Every step keeps the invariant.
LEMMA StepsSound == IInv /\ [Next]_vars => IInv'
<1> SUFFICES ASSUME IInv, [Next]_vars PROVE IInv'
  OBVIOUS
<1>1. CASE UNCHANGED vars
  <2>1. Groups'
    BY <1>1, SameGroups DEF IInv, vars
  <2> QED BY <2>1, <1>1 DEF IInv, Types, Pids, GroupIsFound, vars
<1>2. ASSUME NEW p \in Slots, NEW q \in Slots, Fork0(p, q) \/ Fork1(p, q) \/ Wait(p, q)
      PROVE  IInv'
  BY <1>2, Fork0Step, Fork1Step, WaitStep
<1>3. ASSUME NEW p \in Slots, NEW a \in Pages,
             WriteFault(p, a) \/ \E v \in Vals : Store(p, a, v)
      PROVE  IInv'
  BY <1>3, WriteFaultStep, StoreStep
<1>4. ASSUME NEW p \in Slots, Exec(p) \/ ExitRead(p) \/ ExitZombie(p) PROVE IInv'
  BY <1>4, ExecStep, ExitReadStep, ExitZombieStep
<1> QED BY <1>1, <1>2, <1>3, <1>4 DEF Next

\* The inductive invariant of processes and groups holds in every behaviour,
\* whatever the programs do.
THEOREM CowInvariant == Spec => []IInv
<1> QED BY StartsSound, StepsSound, PTL DEF Spec

\* The kernel never follows the NULL of get_cow_group (cow.c:32), whatever the
\* programs do: although groups are never given back, one is found by every
\* process that looks for it and there is an entry for every new one.
THEOREM GroupsAreFound == Spec => []GroupIsFound
<1>1. IInv => GroupIsFound
  BY DEF IInv
<1> QED BY <1>1, CowInvariant, PTL

-----------------------------------------------------------------------------
(* No store stops the kernel. *)

\* Who has a page that is read-only is known for copy on write.
Flags == \A p \in Slots : state[p] # "unused" =>
            \A a \in Pages : ~pt[p][a].writable => cow_enabled[p]

KInv == IInv /\ Flags /\ KernelRunsOn

\* fork keeps the flags: fork(0) copies pages that are writable, fork(1) enables
\* both processes.
LEMMA ForkFlags ==
  ASSUME ~SharerForks, KInv, IInv', NEW p \in Slots, NEW q \in Slots,
         Fork0(p, q) \/ Fork1(p, q)
  PROVE  KInv'
<1>0. Types /\ Flags
  BY DEF KInv, IInv
<1>1. CASE Fork0(p, q)
  <2>1. /\ state[p] = "live" /\ state' = [state EXCEPT ![q] = "live"]
        /\ cow_enabled' = cow_enabled /\ panicked' = panicked
    BY <1>1, ChildStep DEF Fork0, KInv
  <2>2. PICK copy \in Layouts(free) :
          pt' = [pt EXCEPT ![q] = [a \in Pages |->
                       [frame |-> copy[a], writable |-> pt[p][a].writable]]]
    BY <1>1 DEF Fork0
  <2>3. \A a \in Pages : pt[p][a].writable
    BY <1>0, <1>1, <2>1, HasPages DEF Fork0
  <2>4. /\ \A a \in Pages : pt'[q][a].writable
        /\ \A r \in Slots \ {q} : pt'[r] = pt[r] /\ state'[r] = state[r]
    BY <1>0, <2>1, <2>2, <2>3 DEF Types
  <2>5. Flags'
    BY <1>0, <2>1, <2>4 DEF Flags
  <2> QED BY <2>1, <2>5 DEF KInv, KernelRunsOn, GroupIsFound
<1>2. CASE Fork1(p, q)
  <2>1. /\ state' = [state EXCEPT ![q] = "live"] /\ panicked' = panicked
        /\ cow_enabled' = [cow_enabled EXCEPT ![p] = TRUE, ![q] = TRUE]
    BY <1>2, Fork1Does, ChildStep DEF Joins, KInv
  <2>2. PICK shared : pt' = [pt EXCEPT ![p] = shared, ![q] = shared]
    BY <1>2, Fork1Shares DEF KInv
  <2>3. /\ \A r \in Slots \ {p, q} : /\ pt'[r] = pt[r] /\ state'[r] = state[r]
                                      /\ cow_enabled'[r] = cow_enabled[r]
        /\ cow_enabled'[p] = TRUE /\ cow_enabled'[q] = TRUE
    BY <1>0, <2>1, <2>2 DEF Types
  <2>4. Flags'
    BY <1>0, <2>3 DEF Flags
  <2> QED BY <2>1, <2>4 DEF KInv, KernelRunsOn, GroupIsFound
<1> QED BY <1>1, <1>2

\* The write fault is served, or there is no memory for it.
LEMMA WriteFaultFlags ==
  ASSUME KInv, IInv', NEW p \in Slots, NEW a \in Pages, WriteFault(p, a)
  PROVE  KInv'
<1>0. Types /\ Flags
  BY DEF KInv, IInv
<1>1. cow_enabled[p]
  BY <1>0 DEF WriteFault, Flags
<1>2. CASE Cardinality(free) < 2
  <2>1. Panic("no memory")
    BY <1>1, <1>2 DEF WriteFault
  <2>2. Flags'
    BY <1>0, <2>1 DEF Panic, Flags
  <2> QED BY <2>1, <2>2 DEF Panic, KInv, KernelRunsOn, GroupIsFound
<1>3. CASE ~(Cardinality(free) < 2)
  <2>1. /\ UNCHANGED <<state, cow_enabled, panicked>> /\ state[p] = "live"
        /\ \E f \in free : pt' = [pt EXCEPT ![p][a] = [frame |-> f, writable |-> TRUE]]
    BY <1>1, <1>3 DEF WriteFault
  <2>2. PICK f \in free : pt' = [pt EXCEPT ![p][a] = [frame |-> f, writable |-> TRUE]]
    BY <2>1
  <2>3. pt[p] \in [Pages -> Page] /\ pt \in [Slots -> [Pages -> Page] \cup {NoMem}]
    BY <1>0, <2>1, HasPages DEF Types
  <2>4. /\ \A r \in Slots \ {p} : pt'[r] = pt[r]
        /\ pt'[p][a].writable /\ \A b \in Pages \ {a} : pt'[p][b] = pt[p][b]
    BY <2>2, <2>3
  <2>5. Flags'
    BY <1>0, <2>1, <2>4 DEF Flags
  <2> QED BY <2>1, <2>5 DEF KInv, KernelRunsOn, GroupIsFound
<1> QED BY <1>2, <1>3

\* The other steps map no page read-only.
LEMMA RestFlags ==
  ASSUME KInv, IInv', NEW p \in Slots, NEW q \in Slots, NEW a \in Pages, NEW v \in Vals,
         Wait(p, q) \/ Store(p, a, v) \/ Exec(p) \/ ExitRead(p) \/ ExitZombie(p)
  PROVE  KInv'
<1>0. Types /\ Groups /\ Flags
  BY DEF KInv, IInv
<1>1. ~LosesGroup(p)
  BY <1>0, GroupKnown
<1>2. UNCHANGED <<cow_enabled, panicked>>
  BY <1>1 DEF Wait, Store, Exec, ExitRead, ExitZombie
<1>3. CASE Wait(p, q)
  <2>1. state' = [state EXCEPT ![q] = "unused"] /\ pt' = [pt EXCEPT ![q] = NoMem]
    BY <1>1, <1>3 DEF Wait, NoMem
  <2>2. /\ state'[q] = "unused"
        /\ \A r \in Slots \ {q} : pt'[r] = pt[r] /\ state'[r] = state[r]
    BY <1>0, <2>1 DEF Types
  <2>3. Flags'
    BY <1>0, <1>2, <2>2 DEF Flags
  <2> QED BY <1>2, <2>3 DEF KInv, KernelRunsOn, GroupIsFound
<1>4. CASE Exec(p)
  <2>1. PICK new \in Layouts(free) :
          pt' = [pt EXCEPT ![p] = [b \in Pages |-> [frame |-> new[b], writable |-> TRUE]]]
    BY <1>1, <1>4 DEF Exec
  <2>2. state' = state /\ \A b \in Pages : pt'[p][b].writable
    BY <1>0, <1>1, <1>4, <2>1 DEF Exec, Types
  <2>3. \A r \in Slots \ {p} : pt'[r] = pt[r]
    BY <1>0, <2>1 DEF Types
  <2>4. Flags'
    BY <1>0, <1>2, <2>2, <2>3 DEF Flags
  <2> QED BY <1>2, <2>4 DEF KInv, KernelRunsOn, GroupIsFound
<1>5. CASE Store(p, a, v) \/ ExitRead(p) \/ ExitZombie(p)
  <2>1. pt' = pt /\ \A r \in Slots : state'[r] # "unused" => state[r] # "unused"
    BY <1>0, <1>1, <1>5 DEF Store, ExitRead, ExitZombie, Types
  <2>2. Flags'
    BY <1>0, <1>2, <2>1 DEF Flags
  <2> QED BY <1>2, <2>2 DEF KInv, KernelRunsOn, GroupIsFound
<1> QED BY <1>3, <1>4, <1>5

\* No store stops the kernel by a remap of its page (pfault.c:178), if no process
\* calls fork(0) while it has pages that fork(1) made read-only, and no lookup of a
\* group fails: the kernel runs on while there is memory.
THEOREM RunsOn ==
  ASSUME ~SharerForks
  PROVE  Spec => []KernelRunsOn
<1>1. ASSUME Init PROVE KInv
  <2>1. PICK new \in Layouts(Frames) :
          pt = [p \in Slots |-> [a \in IF p = Sh THEN Pages ELSE {} |->
                                        [frame |-> new[a], writable |-> TRUE]]]
    BY <1>1 DEF Init, InitWith
  <2>2. panicked = "no" /\ state = [p \in Slots |-> IF p = Sh THEN "live" ELSE "unused"]
    BY <1>1 DEF Init, InitWith
  <2>3. Flags
    BY <2>1, <2>2 DEF Flags
  <2> QED BY <1>1, <2>2, <2>3, StartsSound DEF KInv, KernelRunsOn, GroupIsFound
<1>2. ASSUME KInv, IInv', [Next]_vars PROVE KInv'
  <2>0. PICK a \in Pages, v \in Vals : TRUE
    BY CowConstants
  <2>1. CASE UNCHANGED vars
    BY <1>2, <2>1 DEF KInv, Flags, KernelRunsOn, GroupIsFound, vars
  <2>2. ASSUME NEW p \in Slots, NEW q \in Slots, Fork0(p, q) \/ Fork1(p, q) \/ Wait(p, q)
        PROVE  KInv'
    BY <1>2, <2>0, <2>2, ForkFlags, RestFlags
  <2>3. ASSUME NEW p \in Slots, NEW b \in Pages,
               WriteFault(p, b) \/ \E w \in Vals : Store(p, b, w)
        PROVE  KInv'
    BY <1>2, <2>3, WriteFaultFlags, RestFlags
  <2>4. ASSUME NEW p \in Slots, Exec(p) \/ ExitRead(p) \/ ExitZombie(p) PROVE KInv'
    BY <1>2, <2>0, <2>4, RestFlags
  <2> QED BY <1>2, <2>1, <2>2, <2>3, <2>4 DEF Next
<1>3. KInv => KernelRunsOn
  BY DEF KInv
<1>4. Init => KInv
  BY <1>1
<1>5. KInv /\ IInv' /\ [Next]_vars => KInv'
  BY <1>2
<1> QED BY <1>3, <1>4, <1>5, CowInvariant, PTL DEF Spec

-----------------------------------------------------------------------------
(* Steps keep what is shared, for programs that share in pairs. *)

\* What keeps frames in use from being freed.
Safe == Counts /\ Sharing

\* A page table left alone maps the same frames.
LEMMA SameMapped ==
  ASSUME NEW r \in Slots, pt'[r] = pt[r]
  PROVE  Mapped(r)' = Mapped(r)
BY DEF Mapped

\* A pair left alone stays a pair.
LEMMA PairKept ==
  ASSUME NEW r \in Slots, NEW s \in Slots, Pair(r, s),
         state'[r] = state[r], state'[s] = state[s], parent'[s] = parent[s],
         cow_group'[r] = cow_group[r], cow_group'[s] = cow_group[s],
         kin'[r] = kin[r], kin'[s] = kin[s],
         Mapped(r)' \cap Mapped(s)' \subseteq Mapped(r) \cap Mapped(s),
         \A i \in Slots : group'[i].number = cow_group[r] => group'[i] = group[i]
  PROVE  Pair(r, s)'
BY DEF Pair

\* Frames that the allocator hands out are nobody's.
LEMMA Fresh ==
  ASSUME Types, Sharing, NEW F \in SUBSET free, NEW r \in Slots
  PROVE  Mapped(r) \cap F = {}
BY DEF Sharing

\* New pages come from free frames.
LEMMA LaidIsFree ==
  ASSUME Types, NEW new \in Layouts(free)
  PROVE  Laid(new) \in SUBSET free /\ Laid(new) \subseteq Frames
BY DEF Layouts, Laid, Types

\* fork(0) gives the child frames of its own.
LEMMA Fork0Safe ==
  ASSUME IInv, Safe, IInv', NEW p \in Slots, NEW q \in Slots, Fork0(p, q)
  PROVE  Safe'
<1>0. Types /\ Pids /\ Groups /\ Counts /\ Sharing /\ Types'
  BY DEF IInv, Safe
<1>1. /\ p # q /\ q # Sh /\ state[p] = "live" /\ state[q] = "unused" /\ seen' = seen
      /\ state' = [state EXCEPT ![q] = "live"] /\ parent' = [parent EXCEPT ![q] = p]
  BY ChildStep DEF Fork0
<1>2. UNCHANGED <<cow_group, cow_enabled, group, kin>>
  BY DEF Fork0
<1>3. PICK copy \in Layouts(free) :
        /\ pt' = [pt EXCEPT ![q] = [a \in Pages |->
                     [frame |-> copy[a], writable |-> pt[p][a].writable]]]
        /\ free' = free \ Laid(copy)
  BY DEF Fork0
<1>4. /\ state'[q] = "live" /\ parent'[q] = p
      /\ \A r \in Slots \ {q} : state'[r] = state[r] /\ parent'[r] = parent[r]
  BY <1>0, <1>1 DEF Types
<1>5. \A r \in Slots \ {q} : Mapped(r)' = Mapped(r)
  BY <1>0, <1>3, SameMapped DEF Types
<1>6. Mapped(q)' = Laid(copy)
  <2>1. pt'[q] = [a \in Pages |-> [frame |-> copy[a], writable |-> pt[p][a].writable]]
    BY <1>0, <1>3 DEF Types
  <2> QED BY <2>1 DEF Mapped, Laid
<1>7. Laid(copy) \in SUBSET free /\ \A r \in Slots : Mapped(r) \cap Laid(copy) = {}
  BY <1>0, LaidIsFree, Fresh
<1>8. Counts'
  BY <1>0, <1>1, <1>2, <1>4 DEF Counts
<1>9. Sharing'
  <2>1. \A r \in Slots : state'[r] \in {"exiting", "zombie"} => Children(r)' = {}
    BY <1>0, <1>1, <1>4 DEF Sharing, Children
  <2>2. ASSUME NEW r \in Slots, NEW s \in Slots, r # s, Mapped(r)' \cap Mapped(s)' # {}
        PROVE  Pair(r, s)' \/ Pair(s, r)'
    <3>1. r # q /\ s # q
      BY <2>2, <1>5, <1>6, <1>7
    <3>2. Pair(r, s) \/ Pair(s, r)
      BY <3>1, <2>2, <1>0, <1>5 DEF Sharing
    <3> QED BY <3>1, <3>2, <1>2, <1>4, <1>5, PairKept
  <2>3. \A r \in Slots : Mapped(r)' \cap free' = {}
    BY <1>0, <1>3, <1>5, <1>6 DEF Sharing
  <2> QED BY <2>1, <2>2, <2>3 DEF Sharing
<1> QED BY <1>8, <1>9 DEF Safe

\* fork(1) is called by a process that shares with nobody.
LEMMA OnlyMember ==
  ASSUME Types, InPairs, NEW p \in Slots, NEW k, NEW g, Disciplined(p, k, g)
  PROVE  Members(k) \subseteq {p}
<1> SUFFICES ASSUME NEW r \in Members(k), r # p PROVE FALSE
  OBVIOUS
<1>1. IsFiniteSet(Slots)
  BY FS_Interval, CowConstants DEF Slots
<1>2. IsFiniteSet(Members(k) \cup {p})
  BY <1>1, FS_Subset DEF Members
<1>3. IsFiniteSet({p}) /\ Cardinality({p}) = 1
  BY FS_Singleton
<1>4. Cardinality({p} \cup {r}) = 2
  BY <1>3, FS_AddElement
<1>5. /\ Cardinality({p} \cup {r}) <= Cardinality(Members(k) \cup {p})
      /\ Cardinality(Members(k) \cup {p}) \in Nat
  BY <1>2, FS_Subset, FS_CardinalityType
<1> QED BY <1>4, <1>5, CowConstants DEF InPairs, Disciplined

\* fork(1) makes a pair: InPairs leaves p no other member to share with.
LEMMA Fork1Safe ==
  ASSUME IInv, Safe, IInv', InPairs, NEW p \in Slots, NEW q \in Slots, Fork1(p, q)
  PROVE  Safe'
<1>0. Types /\ Pids /\ Groups /\ Counts /\ Sharing /\ Types' /\ Groups'
  BY DEF IInv, Safe
<1>1. PICK g \in 0 .. MaxPid, e \in Slots : Joins(p, q, g, e)
  BY Fork1Does
<1>2. /\ p # q /\ q # Sh /\ state[p] = "live" /\ state[q] = "unused" /\ seen' = seen
      /\ state' = [state EXCEPT ![q] = "live"] /\ parent' = [parent EXCEPT ![q] = p]
  BY Fork1Does, ChildStep
<1>3. /\ state'[q] = "live" /\ parent'[q] = p
      /\ \A r \in Slots \ {q} : state'[r] = state[r] /\ parent'[r] = parent[r]
  BY <1>0, <1>2 DEF Types
<1>4. PICK shared : /\ shared = [a \in Pages |-> [pt[p][a] EXCEPT !.writable = FALSE]]
                    /\ pt' = [pt EXCEPT ![p] = shared, ![q] = shared]
                    /\ UNCHANGED <<data, free>>
  BY Fork1Shares
<1>5. /\ Mapped(p)' = Mapped(p) /\ Mapped(q)' = Mapped(p)
      /\ \A r \in Slots \ {p, q} : Mapped(r)' = Mapped(r)
  <2>1. pt[p] \in [Pages -> Page] /\ Mapped(p) = {pt[p][a].frame : a \in Pages}
    BY <1>0, <1>2, HasPages
  <2>2. DOMAIN shared = Pages /\ \A a \in Pages : shared[a].frame = pt[p][a].frame
    BY <2>1, <1>4 DEF Page
  <2>3. pt'[p] = shared /\ pt'[q] = shared /\ \A r \in Slots \ {p, q} : pt'[r] = pt[r]
    <3>1. pt \in [Slots -> [Pages -> Page] \cup {NoMem}] /\ p # q
      BY <1>0, <1>2 DEF Types
    <3>2. pt' = [pt EXCEPT ![p] = shared, ![q] = shared]
      BY <1>4
    <3> QED BY <3>1, <3>2
  <2> QED BY <2>1, <2>2, <2>3, SameMapped DEF Mapped
<1>6. group \in [Slots -> Group] /\ group[e].count \in Int
  BY <1>0 DEF Types, Group
<1>7. /\ group'[e] = [number |-> g, count |-> group[e].count + 1,
                      shmem |-> group[e].shmem \cup Mapped(p)]
      /\ \A i \in Slots \ {e} : group'[i] = group[i]
  BY <1>1, <1>6 DEF Joins
<1>8. /\ cow_group'[p] = g /\ cow_group'[q] = g /\ g # 0
      /\ \A r \in Slots \ {p, q} : cow_group'[r] = cow_group[r]
      /\ kin'[p] # 0 /\ kin'[q] # 0
      /\ \A r \in Slots \ {p, q} : kin'[r] = kin[r]
  BY <1>0, <1>1, <1>2 DEF Joins, Types
<1>9. \A r \in Slots : state[r] # "unused" /\ kin[r] # 0 /\ cow_group[r] = g => r = p
  <2>1. PICK k \in 1 .. MaxPid : Disciplined(p, k, g)
    BY <1>1 DEF Joins
  <2>2. Members(k) \subseteq {p}
    BY <1>0, <2>1, OnlyMember
  <2>3. \A r \in Slots : kin[r] # 0 /\ cow_group[r] = g => kin[r] = k
    BY <2>1 DEF Disciplined, InPairs
  <2> QED BY <2>2, <2>3 DEF Members
<1>10. \A i \in Slots : group'[i].number = g => i = e
  <2>1. \A i \in Slots : group'[i].number = g => i \in Taken'
    BY <1>8 DEF Taken
  <2> QED BY <2>1, <1>0, <1>7 DEF Groups
<1>11. group[e].count <= 0
  <2>1. CASE group[e].count = 1
    <3>1. PICK r \in Slots, s \in Slots :
             /\ r # s /\ state[r] = "live" /\ state[s] \in {"live", "exiting"}
             /\ cow_group[r] = group[e].number /\ cow_group[s] = group[e].number
             /\ kin[r] # 0 /\ kin[s] # 0
      BY <2>1, <1>0 DEF Counts
    <3>2. group[e].number # 0
      BY <2>1, <1>0 DEF Groups, Taken
    <3>3. group[e].number = g
      BY <3>2, <1>1 DEF Joins
    <3> QED BY <3>1, <3>3, <1>9
  <2> QED BY <2>1, <1>0, <1>6 DEF Counts
<1>12. Counts'
  <2>1. \A i \in Slots : group'[i].count <= 1
    BY <1>0, <1>6, <1>7, <1>11 DEF Counts
  <2>2. ASSUME NEW i \in Slots, group'[i].count = 1
        PROVE  \E r, s \in Slots :
                 /\ r # s /\ parent'[s] = r /\ state'[r] = "live"
                 /\ state'[s] \in {"live", "exiting"}
                 /\ cow_group'[r] = group'[i].number /\ cow_group'[s] = group'[i].number
                 /\ kin'[r] # 0 /\ kin'[s] # 0
    <3>1. CASE i = e
      BY <3>1, <1>2, <1>3, <1>7, <1>8
    <3>2. CASE i # e
      <4>1. PICK r \in Slots, s \in Slots :
               /\ r # s /\ parent[s] = r /\ state[r] = "live" /\ state[s] \in {"live", "exiting"}
               /\ cow_group[r] = group[i].number /\ cow_group[s] = group[i].number
               /\ kin[r] # 0 /\ kin[s] # 0
        BY <3>2, <2>2, <1>0, <1>7 DEF Counts
      <4>2. group[i].number # 0 /\ group[i].number # g
        <5>1. group[i].number # 0
          BY <3>2, <2>2, <1>0, <1>7 DEF Groups, Taken
        <5> QED BY <5>1, <3>2, <1>7, <1>10
      <4>3. cow_group[p] # group[i].number
        BY <4>2, <1>1 DEF Joins
      <4>4. r \notin {p, q} /\ s \notin {p, q}
        BY <4>1, <4>3, <1>2
      <4> QED BY <4>1, <4>4, <3>2, <1>3, <1>7, <1>8
    <3> QED BY <3>1, <3>2
  <2> QED BY <2>1, <2>2, <1>0, <1>2 DEF Counts
<1>13. Sharing'
  <2>1. \A r \in Slots : state'[r] \in {"exiting", "zombie"} => Children(r)' = {}
    BY <1>0, <1>2, <1>3 DEF Sharing, Children
  <2>2. ASSUME NEW r \in Slots, r # p PROVE Mapped(p) \cap Mapped(r) = {}
    <3>1. Pair(p, r) \/ Pair(r, p) => cow_group[r] = cow_group[p] /\ cow_group[p] # 0
                                      /\ state[r] # "unused" /\ kin[r] # 0
      BY DEF Pair
    <3>2. cow_group[p] # 0 => cow_group[p] = g
      BY <1>1 DEF Joins
    <3>3. ~(Pair(p, r) \/ Pair(r, p))
      BY <3>1, <3>2, <2>2, <1>9
    <3> QED BY <3>3, <2>2, <1>0 DEF Sharing
  <2>3. Pair(p, q)'
    BY <1>2, <1>3, <1>5, <1>7, <1>8, <1>10 DEF Pair
  <2>4. ASSUME NEW r \in Slots, NEW s \in Slots, r # s, Mapped(r)' \cap Mapped(s)' # {}
        PROVE  Pair(r, s)' \/ Pair(s, r)'
    <3>1. CASE r \in {p, q}
      <4>1. s \in {p, q}
        BY <3>1, <2>2, <2>4, <1>5
      <4> QED BY <4>1, <3>1, <2>3, <2>4
    <3>2. CASE s \in {p, q}
      <4>1. r \in {p, q}
        BY <3>2, <2>2, <2>4, <1>5
      <4> QED BY <4>1, <3>2, <2>3, <2>4
    <3>3. CASE r \notin {p, q} /\ s \notin {p, q}
      <4>1. Pair(r, s) \/ Pair(s, r)
        BY <3>3, <2>4, <1>0, <1>5 DEF Sharing
      <4>2. cow_group[r] # g /\ cow_group[s] # g
        BY <4>1, <3>3, <1>9 DEF Pair
      <4>3. \A i \in Slots : group'[i].number = cow_group[r] \/ group'[i].number = cow_group[s]
                             => group'[i] = group[i]
        BY <4>2, <1>7
      <4> QED BY <4>1, <4>3, <3>3, <1>3, <1>5, <1>8, PairKept
    <3> QED BY <3>1, <3>2, <3>3
  <2>5. \A r \in Slots : Mapped(r)' \cap free' = {}
    BY <1>0, <1>4, <1>5 DEF Sharing
  <2> QED BY <2>1, <2>4, <2>5 DEF Sharing
<1> QED BY <1>12, <1>13 DEF Safe

\* A step that shares nothing more and frees nothing that is mapped.
LEMMA SameSafe ==
  ASSUME Safe, UNCHANGED <<state, parent, cow_group, group, seen, kin>>,
         \A r, s \in Slots : r # s =>
            Mapped(r)' \cap Mapped(s)' \subseteq Mapped(r) \cap Mapped(s),
         \A r \in Slots : Mapped(r)' \cap free' = {}
  PROVE  Safe'
<1>1. Counts'
  BY DEF Safe, Counts
<1>2. \A r \in Slots : Children(r)' = Children(r)
  BY DEF Children
<1>3. ASSUME NEW r \in Slots, NEW s \in Slots, r # s, Mapped(r)' \cap Mapped(s)' # {}
      PROVE  Pair(r, s)' \/ Pair(s, r)'
  <2>1. Pair(r, s) \/ Pair(s, r)
    BY <1>3 DEF Safe, Sharing
  <2> QED BY <2>1, <1>3, PairKept
<1> QED BY <1>1, <1>2, <1>3 DEF Safe, Sharing

\* A store maps and frees nothing.
LEMMA StoreSafe ==
  ASSUME Safe, NEW p \in Slots, NEW a \in Pages, NEW v \in Vals, Store(p, a, v)
  PROVE  Safe'
<1>1. UNCHANGED <<state, parent, cow_group, group, seen, kin, free>>
      /\ \A r \in Slots : Mapped(r)' = Mapped(r)
  BY SameMapped DEF Store
<1> QED BY <1>1, SameSafe DEF Safe, Sharing

\* Nor does a panic.
LEMMA PanicSafe ==
  ASSUME Safe, NEW why, Panic(why)
  PROVE  Safe'
<1>1. UNCHANGED <<state, parent, cow_group, group, seen, kin, free>>
      /\ \A r \in Slots : Mapped(r)' = Mapped(r)
  BY SameMapped DEF Panic
<1> QED BY <1>1, SameSafe DEF Safe, Sharing

\* A write fault ends the sharing of one page.
LEMMA WriteFaultSafe ==
  ASSUME IInv, Safe, NEW p \in Slots, NEW a \in Pages, WriteFault(p, a)
  PROVE  Safe'
<1>0. Types /\ Sharing
  BY DEF IInv, Safe
<1>1. CASE Panic("remap") \/ Panic("no memory")
  BY <1>1, PanicSafe
<1>2. CASE ~(Panic("remap") \/ Panic("no memory"))
  <2>1. PICK f \in free :
          /\ free' = free \ {f}
          /\ pt' = [pt EXCEPT ![p][a] = [frame |-> f, writable |-> TRUE]]
    BY <1>2 DEF WriteFault
  <2>2. UNCHANGED <<state, parent, cow_group, group, seen, kin>> /\ state[p] = "live"
    BY <1>2 DEF WriteFault
  <2>3. pt[p] \in [Pages -> Page] /\ Mapped(p) = {pt[p][b].frame : b \in Pages}
    BY <1>0, <2>2, HasPages
  <2>4. pt'[p] = [pt[p] EXCEPT ![a] = [frame |-> f, writable |-> TRUE]]
        /\ \A r \in Slots \ {p} : pt'[r] = pt[r]
    BY <1>0, <2>1 DEF Types
  <2>5. Mapped(p)' \subseteq Mapped(p) \cup {f}
    BY <2>3, <2>4 DEF Mapped
  <2>6. \A r \in Slots \ {p} : Mapped(r)' = Mapped(r)
    BY <2>4, SameMapped
  <2>7. \A r \in Slots : f \notin Mapped(r)
    BY <1>0, <2>1 DEF Sharing
  <2>8. \A r \in Slots : Mapped(r)' \cap free' = {}
    BY <1>0, <2>1, <2>5, <2>6 DEF Sharing
  <2>9. \A r, s \in Slots : r # s =>
           Mapped(r)' \cap Mapped(s)' \subseteq Mapped(r) \cap Mapped(s)
    BY <2>5, <2>6, <2>7
  <2> QED BY <2>2, <2>8, <2>9, SameSafe
<1> QED BY <1>1, <1>2

\* exec frees frames of its own only, once SharedExec is ruled out.
LEMMA ExecFrees ==
  ASSUME IInv, Safe, InPairs, NEW p \in Slots, Exec(p), NEW r \in Slots, r # p
  PROVE  Mapped(r) \cap Freed(p, Mapped(p)) = {}
<1>1. ~Shares(p)
  BY DEF Exec, InPairs
<1>2. Mapped(p) \cap Mapped(r) = {}
  BY <1>1 DEF Shares
<1> QED BY <1>2 DEF Freed

\* exec frees frames that only its process maps.
LEMMA ExecSafe ==
  ASSUME IInv, Safe, InPairs, NEW p \in Slots, Exec(p)
  PROVE  Safe'
<1>0. Types /\ Sharing
  BY DEF IInv, Safe
<1>1. ~LosesGroup(p)
  BY GroupKnown DEF IInv
<1>2. PICK new \in Layouts(free) :
        /\ pt' = [pt EXCEPT ![p] = [a \in Pages |-> [frame |-> new[a], writable |-> TRUE]]]
        /\ free' = (free \ Laid(new)) \cup Freed(p, Mapped(p))
  BY <1>1 DEF Exec
<1>3. UNCHANGED <<state, parent, cow_group, group, seen, kin>>
  BY <1>1 DEF Exec
<1>4. Mapped(p)' = Laid(new)
  <2>1. pt'[p] = [a \in Pages |-> [frame |-> new[a], writable |-> TRUE]]
    BY <1>0, <1>2 DEF Types
  <2> QED BY <2>1 DEF Mapped, Laid
<1>5. \A r \in Slots \ {p} : Mapped(r)' = Mapped(r)
  BY <1>0, <1>2, SameMapped DEF Types
<1>6. Laid(new) \in SUBSET free /\ \A r \in Slots : Mapped(r) \cap Laid(new) = {}
  BY <1>0, LaidIsFree, Fresh
<1>7. Freed(p, Mapped(p)) \subseteq Mapped(p)
  BY DEF Freed
<1>8. \A r \in Slots : Mapped(r)' \cap free' = {}
  <2>1. Mapped(p)' \cap free' = {}
    BY <1>2, <1>4, <1>6, <1>7
  <2>2. ASSUME NEW r \in Slots, r # p PROVE Mapped(r)' \cap free' = {}
    BY <2>2, <1>0, <1>2, <1>5, ExecFrees DEF Sharing
  <2> QED BY <2>1, <2>2
<1>9. \A r, s \in Slots : r # s =>
         Mapped(r)' \cap Mapped(s)' \subseteq Mapped(r) \cap Mapped(s)
  BY <1>4, <1>5, <1>6
<1> QED BY <1>3, <1>8, <1>9, SameSafe

\* exit begins when the children are collected.
LEMMA ExitReadSafe ==
  ASSUME IInv, Safe, InPairs, NEW p \in Slots, ExitRead(p)
  PROVE  Safe'
<1>0. Types /\ Groups /\ Counts /\ Sharing
  BY DEF IInv, Safe
<1>1. ~LosesGroup(p)
  BY <1>0, GroupKnown
<1>2. /\ state[p] = "live" /\ Children(p) = {} /\ state' = [state EXCEPT ![p] = "exiting"]
      /\ UNCHANGED <<parent, cow_group, pt, group, free, kin>>
  BY <1>1 DEF ExitRead, InPairs
<1>3. seen' = [seen EXCEPT ![p] = IF cow_enabled[p]
                     THEN group[Entry(group, cow_group[p])].count ELSE 0]
  BY <1>1 DEF ExitRead
<1>4. /\ state'[p] = "exiting"
      /\ \A r \in Slots \ {p} : state'[r] = state[r]
  BY <1>0, <1>2 DEF Types
<1>5. \A r \in Slots : Mapped(r)' = Mapped(r) /\ Children(r)' = Children(r)
  BY <1>2, <1>4, SameMapped DEF Children
<1>6. Counts'
  <2>1. \A r \in Slots : seen'[r] <= 1
    <3>1. group[Entry(group, cow_group[p])].count <= 1
      BY <1>0, GroupKnown DEF Counts
    <3> QED BY <3>1, <1>0, <1>3 DEF Counts, Types
  <2>2. \A r, s \in Slots : state[r] = "live" /\ state[s] # "unused" /\ parent[s] = r => r # p
    BY <1>2 DEF Children
  <2> QED BY <2>1, <2>2, <1>0, <1>2, <1>4 DEF Counts
<1>7. Sharing'
  <2>1. ASSUME NEW r \in Slots, NEW s \in Slots, Pair(r, s) PROVE Pair(r, s)'
    <3>1. r # p
      BY <2>1, <1>2 DEF Pair, Children
    <3> QED BY <3>1, <2>1, <1>2, <1>4, <1>5 DEF Pair
  <2> QED BY <2>1, <1>0, <1>2, <1>4, <1>5 DEF Sharing
<1> QED BY <1>6, <1>7 DEF Safe

\* exit writes a count of at most 0.
LEMMA ExitZombieSafe ==
  ASSUME IInv, Safe, IInv', NEW p \in Slots, ExitZombie(p)
  PROVE  Safe'
<1>0. Types /\ Groups /\ Counts /\ Sharing
  BY DEF IInv, Safe
<1>1. /\ state[p] = "exiting" /\ state' = [state EXCEPT ![p] = "zombie"]
      /\ UNCHANGED <<cow_group, pt, free, kin>>
  BY DEF ExitZombie
<1>2. \A r \in Slots : parent'[r] = parent[r]
  BY <1>0, <1>1 DEF ExitZombie, Sharing
<1>3. /\ state'[p] = "zombie"
      /\ \A r \in Slots \ {p} : state'[r] = state[r]
  BY <1>0, <1>1 DEF Types
<1>4. \A r \in Slots : Mapped(r)' = Mapped(r) /\ Children(r)' = Children(r)
  BY <1>1, <1>2, <1>3, SameMapped DEF Children
<1>5. \A r \in Slots : seen'[r] <= 1
  BY <1>0 DEF ExitZombie, Counts, Types
<1>6. /\ \A i \in Slots : group'[i].number = group[i].number
      /\ \A i \in Slots : group'[i].shmem = group[i].shmem
      /\ \A i \in Slots : cow_group[p] # 0 /\ group[i].number = cow_group[p]
                          => group'[i].count <= 0
      /\ \A i \in Slots : group'[i].count <= 0 \/ group'[i] = group[i]
  <2>1. CASE ~cow_enabled[p]
    BY <2>1, <1>0 DEF ExitZombie, Groups
  <2>2. CASE cow_enabled[p]
    <3>1. PICK e \in Slots : e = Entry(group, cow_group[p]) /\ e \in Taken
                             /\ group[e].number = cow_group[p]
      BY <1>0, <2>2, GroupKnown DEF Groups, Taken
    <3>2. group' = [group EXCEPT ![e].count = seen[p] - 1]
      BY <2>2, <3>1 DEF ExitZombie
    <3>3. group \in [Slots -> Group] /\ seen[p] \in Int /\ seen[p] <= 1
      BY <1>0 DEF Types, Counts
    <3>4. /\ \A i \in Slots \ {e} : group'[i] = group[i]
          /\ group'[e].number = group[e].number /\ group'[e].shmem = group[e].shmem
          /\ group'[e].count = seen[p] - 1
      BY <3>2, <3>3 DEF Group
    <3>5. \A i \in Slots : cow_group[p] # 0 /\ group[i].number = cow_group[p] => i = e
      BY <3>1, <1>0 DEF Groups, Taken
    <3> QED BY <3>3, <3>4, <3>5
  <2> QED BY <2>1, <2>2
<1>7. Counts'
  <2>1. \A i \in Slots : group'[i].count \in Int
    BY DEF IInv, Types, Group
  <2>2. \A i \in Slots : group'[i].count <= 1
    BY <2>1, <1>0, <1>6 DEF Counts
  <2>3. ASSUME NEW i \in Slots, group'[i].count = 1
        PROVE  \E r, s \in Slots :
                 /\ r # s /\ parent'[s] = r /\ state'[r] = "live"
                 /\ state'[s] \in {"live", "exiting"}
                 /\ cow_group'[r] = group'[i].number /\ cow_group'[s] = group'[i].number
                 /\ kin'[r] # 0 /\ kin'[s] # 0
    <3>1. group'[i] = group[i]
      BY <2>3, <1>6
    <3>2. PICK r \in Slots, s \in Slots :
             /\ r # s /\ parent[s] = r /\ state[r] = "live" /\ state[s] \in {"live", "exiting"}
             /\ cow_group[r] = group[i].number /\ cow_group[s] = group[i].number
             /\ kin[r] # 0 /\ kin[s] # 0
      BY <3>1, <2>3, <1>0 DEF Counts
    <3>3. group[i].number # 0
      BY <3>1, <2>3, <1>0 DEF Groups, Taken
    <3>4. s # p
      BY <3>2, <3>3, <2>3, <1>6
    <3> QED BY <3>1, <3>2, <3>4, <1>1, <1>2, <1>3
  <2> QED BY <2>2, <2>3, <1>5 DEF Counts
<1>8. Sharing'
  <2>1. ASSUME NEW r \in Slots, NEW s \in Slots, Pair(r, s) PROVE Pair(r, s)'
    <3>1. r # p /\ cow_group[r] # 0
      BY <2>1, <1>1 DEF Pair
    <3>2. ASSUME NEW i \in Slots, group'[i].number = cow_group'[r]
          PROVE  /\ Mapped(r)' \cap Mapped(s)' \subseteq group'[i].shmem
                 /\ state'[s] = "zombie" => group'[i].count <= 0
      <4>1. group[i].number = cow_group[r] /\ group'[i].shmem = group[i].shmem
        BY <3>2, <1>1, <1>6
      <4>2. CASE s = p
        BY <4>1, <4>2, <3>1, <2>1, <1>4, <1>6 DEF Pair
      <4>3. CASE s # p
        BY <4>1, <4>3, <2>1, <1>3, <1>4, <1>6 DEF Pair
      <4> QED BY <4>2, <4>3
    <3> QED BY <3>1, <3>2, <2>1, <1>1, <1>2, <1>3 DEF Pair
  <2> QED BY <2>1, <1>0, <1>1, <1>3, <1>4 DEF Sharing
<1> QED BY <1>7, <1>8 DEF Safe

\* What wait frees is mapped by the child only: what it shares with its parent is on
\* the list of the group that uvmunmap asks for, and the count is not 1.
LEMMA WaitFrees ==
  ASSUME IInv, Safe, NEW p \in Slots, NEW q \in Slots, Wait(p, q), NEW r \in Slots, r # q
  PROVE  Mapped(r) \cap Freed(p, Mapped(q)) = {}
<1>0. Types /\ Groups /\ Counts /\ Sharing
  BY DEF IInv, Safe
<1>1. state[q] = "zombie" /\ parent[q] = p
  BY DEF Wait, Children
<1> SUFFICES ASSUME NEW f \in Mapped(r), f \in Freed(p, Mapped(q)) PROVE FALSE
  OBVIOUS
<1>2. f \in Mapped(q)
  BY DEF Freed
<1>3. Pair(r, q)
  BY <1>0, <1>1, <1>2 DEF Sharing, Pair
<1>4. r = p
  BY <1>1, <1>3 DEF Pair
<1>5. PICK e \in Slots : e = Entry(group, cow_group[p]) /\ group[e].number = cow_group[p]
  BY <1>0, GroupKnown
<1>6. f \in group[e].shmem /\ group[e].count <= 0
  BY <1>1, <1>2, <1>3, <1>4, <1>5 DEF Pair
<1>7. group[e].count \in Int
  BY <1>0 DEF Types, Group
<1>8. f \notin group[e].shmem \/ group[e].count = 1
  BY <1>5 DEF Freed
<1> QED BY <1>6, <1>7, <1>8

\* wait frees what the child does not share with the parent.
LEMMA WaitSafe ==
  ASSUME IInv, Safe, IInv', NEW p \in Slots, NEW q \in Slots, Wait(p, q)
  PROVE  Safe'
<1>0. Types /\ Groups /\ Counts /\ Sharing /\ Types'
  BY DEF IInv, Safe
<1>1. ~LosesGroup(p)
  BY <1>0, GroupKnown
<1>2. /\ state[q] = "zombie" /\ state' = [state EXCEPT ![q] = "unused"]
      /\ parent' = [parent EXCEPT ![q] = Sh] /\ pt' = [pt EXCEPT ![q] = NoMem]
      /\ free' = free \cup Freed(p, Mapped(q)) /\ kin' = [kin EXCEPT ![q] = 0]
      /\ UNCHANGED <<cow_group, group, seen>>
  BY <1>1 DEF Wait, NoMem
<1>3. /\ state'[q] = "unused"
      /\ \A r \in Slots \ {q} : state'[r] = state[r] /\ parent'[r] = parent[r]
      /\ \A r \in Slots \ {q} : pt'[r] = pt[r] /\ kin'[r] = kin[r]
  BY <1>0, <1>2 DEF Types
<1>4. /\ \A r \in Slots \ {q} : Mapped(r)' = Mapped(r)
      /\ Mapped(q)' = {}
  <2>1. Mapped(q)' = {}
    BY <1>0, <1>2 DEF Mapped, NoMem, Types
  <2> QED BY <2>1, <1>3, SameMapped
<1>5. Counts'
  BY <1>0, <1>2, <1>3 DEF Counts
<1>6. Sharing'
  <2>1. \A r \in Slots : Children(r)' \subseteq Children(r)
    BY <1>3 DEF Children
  <2>2. ASSUME NEW r \in Slots, NEW s \in Slots, r # s, Mapped(r)' \cap Mapped(s)' # {}
        PROVE  Pair(r, s)' \/ Pair(s, r)'
    <3>1. r # q /\ s # q
      BY <2>2, <1>4
    <3>2. Pair(r, s) \/ Pair(s, r)
      BY <3>1, <2>2, <1>0, <1>4 DEF Sharing
    <3> QED BY <3>1, <3>2, <1>2, <1>3, <1>4, PairKept
  <2>3. ASSUME NEW r \in Slots PROVE Mapped(r)' \cap free' = {}
    <3>1. CASE r = q
      BY <3>1, <1>4
    <3>2. CASE r # q
      BY <3>2, <1>0, <1>2, <1>4, WaitFrees DEF Sharing
    <3> QED BY <3>1, <3>2
  <2> QED BY <2>1, <2>2, <2>3, <1>0, <1>3 DEF Sharing
<1> QED BY <1>5, <1>6 DEF Safe

\* At the start nothing is shared.
LEMMA StartsSafe == Init => Safe
<1> SUFFICES ASSUME Init PROVE Safe
  OBVIOUS
<1>1. PICK new \in Layouts(Frames) :
        /\ pt = [p \in Slots |-> [a \in IF p = Sh THEN Pages ELSE {} |->
                                        [frame |-> new[a], writable |-> TRUE]]]
        /\ free = Frames \ Laid(new)
  BY DEF Init, InitWith
<1>2. /\ state = [p \in Slots |-> IF p = Sh THEN "live" ELSE "unused"]
      /\ group = [i \in Slots |-> [number |-> 0, count |-> 0, shmem |-> {}]]
      /\ seen = [p \in Slots |-> 0]
  BY DEF Init, InitWith
<1>3. Mapped(Sh) = Laid(new) /\ \A p \in Slots \ {Sh} : Mapped(p) = {}
  BY <1>1, ShellSlot DEF Mapped, Laid
<1>4. Counts
  BY <1>2 DEF Counts
<1>5. Sharing
  BY <1>1, <1>2, <1>3 DEF Sharing
<1> QED BY <1>4, <1>5 DEF Safe

\* Every step keeps Safe.
LEMMA StepsSafe ==
  ASSUME InPairs, IInv, Safe, IInv', [Next]_vars
  PROVE  Safe'
<1>1. CASE UNCHANGED vars
  <2>1. UNCHANGED <<state, parent, cow_group, group, seen, kin, free>>
        /\ \A r \in Slots : Mapped(r)' = Mapped(r)
    BY <1>1, SameMapped DEF vars
  <2> QED BY <2>1, SameSafe DEF Safe, Sharing
<1>2. ASSUME NEW p \in Slots, NEW q \in Slots, Fork0(p, q) \/ Fork1(p, q) \/ Wait(p, q)
      PROVE  Safe'
  BY <1>2, Fork0Safe, Fork1Safe, WaitSafe
<1>3. ASSUME NEW p \in Slots, NEW a \in Pages,
             WriteFault(p, a) \/ \E v \in Vals : Store(p, a, v)
      PROVE  Safe'
  BY <1>3, WriteFaultSafe, StoreSafe
<1>4. ASSUME NEW p \in Slots, Exec(p) \/ ExitRead(p) \/ ExitZombie(p) PROVE Safe'
  BY <1>4, ExecSafe, ExitReadSafe, ExitZombieSafe
<1> QED BY <1>1, <1>2, <1>3, <1>4 DEF Next

\* In every behaviour of programs that share in pairs, shared frames are listed
\* in the group of the two that map them.
THEOREM SharingInvariant ==
  ASSUME InPairs
  PROVE  Spec => [](IInv /\ Safe)
<1>1. IInv /\ Safe /\ IInv' /\ [Next]_vars => Safe'
  BY StepsSafe
<1> QED BY <1>1, StartsSafe, CowInvariant, PTL DEF Spec

\* Frames are never freed while a process, a zombie included, still maps them
\* (uvmunmap, vm.c:196), for programs that share in pairs.
THEOREM NothingFreedInUse ==
  ASSUME InPairs
  PROVE  Spec => []NotFreedInUse
<1>1. ASSUME IInv, Safe PROVE NotFreedInUse
  <2>1. ASSUME NEW p \in Slots
        PROVE  /\ DOMAIN pt[p] = IF state[p] = "unused" THEN {} ELSE Pages
               /\ Mapped(p) \subseteq Frames
    <3>1. CASE state[p] = "unused"
      BY <3>1, <1>1 DEF IInv, Types, NoMem, Mapped
    <3>2. CASE state[p] # "unused"
      BY <3>2, <1>1, HasPages DEF IInv
    <3> QED BY <3>1, <3>2
  <2>2. TypeOK
    BY <2>1, <1>1 DEF TypeOK, IInv, Types
  <2> QED BY <2>2, <1>1 DEF NotFreedInUse, Safe, Sharing
<1> QED BY <1>1, SharingInvariant, PTL

-----------------------------------------------------------------------------
(* Copy on write is invisible. *)

\* Fill changes the frames of the new pages only.
LEMMA FillsNew ==
  ASSUME NEW F \in SUBSET Frames, NEW new \in Layouts(F), NEW d, NEW val
  PROVE  /\ \A a \in Pages : Fill(d, new, val)[new[a]] = val[a]
         /\ \A f \in Frames \ Laid(new) : Fill(d, new, val)[f] = d[f]
<1>1. new \in [Pages -> F] /\ \A a, b \in Pages : new[a] = new[b] => a = b
  BY DEF Layouts
<1>2. ASSUME NEW a \in Pages PROVE Fill(d, new, val)[new[a]] = val[a]
  <2>1. new[a] \in Laid(new) /\ new[a] \in Frames
    BY <1>1 DEF Laid
  <2>2. (CHOOSE b \in Pages : new[b] = new[a]) = a
    BY <1>1
  <2> QED BY <2>1, <2>2 DEF Fill
<1>3. ASSUME NEW f \in Frames \ Laid(new) PROVE Fill(d, new, val)[f] = d[f]
  BY DEF Fill
<1> QED BY <1>2, <1>3

\* The memory of each process, as PrivateMemory sees it.
memory == [p \in Slots |-> IF state[p] = "live"
                           THEN [a \in Pages |-> data[pt[p][a].frame]] ELSE NoMem]
MemoryStep == Private!Next \/ UNCHANGED memory

\* The memory of a live process.
LEMMA LiveMemory ==
  ASSUME NEW p \in Slots, state[p] = "live"
  PROVE  memory[p] = [a \in Pages |-> data[pt[p][a].frame]] /\ memory[p] # NoMem
<1>1. memory[p] = [a \in Pages |-> data[pt[p][a].frame]]
  BY DEF memory
<1>2. DOMAIN memory[p] # DOMAIN NoMem
  BY <1>1, CowConstants DEF NoMem
<1> QED BY <1>1, <1>2

\* The memory of r is what it was when its pages and their frames are.
LEMMA SameMemory ==
  ASSUME Types, NEW r \in Slots, state'[r] = state[r], pt'[r] = pt[r],
         \A f \in Mapped(r) : data'[f] = data[f]
  PROVE  memory'[r] = memory[r]
<1>1. CASE state[r] = "live"
  <2>1. \A a \in Pages : pt[r][a].frame \in Mapped(r)
    BY <1>1, HasPages
  <2> QED BY <2>1, <1>1 DEF memory
<1>2. CASE state[r] # "live"
  BY <1>2 DEF memory
<1> QED BY <1>1, <1>2

\* A step that changes no memory is a stutter.
LEMMA MemoryKept ==
  ASSUME \A r \in Slots : memory'[r] = memory[r]
  PROVE  MemoryStep
<1>1. memory' = memory
  BY DEF memory
<1> QED BY <1>1 DEF MemoryStep

\* A step that changes one memory.
LEMMA MemoryPut ==
  ASSUME NEW q \in Slots, \A r \in Slots \ {q} : memory'[r] = memory[r]
  PROVE  memory' = [memory EXCEPT ![q] = memory'[q]]
BY DEF memory

\* A step that copies the memory of p to q is the fork of PrivateMemory.
LEMMA ForkPrivate ==
  ASSUME NEW p \in Slots, NEW q \in Slots, state[p] = "live", memory[q] = NoMem,
         memory'[q] = memory[p], \A r \in Slots \ {q} : memory'[r] = memory[r]
  PROVE  MemoryStep
<1>1. memory' = [memory EXCEPT ![q] = memory[p]]
  BY MemoryPut
<1>2. memory[p] # NoMem
  BY LiveMemory
<1>3. Private!Fork(p, q)
  BY <1>1, <1>2 DEF Private!Fork, memory
<1> QED BY <1>3 DEF MemoryStep, Private!Next

\* fork(0) copies the memory.
LEMMA Fork0Private ==
  ASSUME IInv, Safe, NEW p \in Slots, NEW q \in Slots, Fork0(p, q)
  PROVE  MemoryStep
<1>0. Types /\ Sharing
  BY DEF IInv, Safe
<1>1. /\ p # q /\ state[p] = "live" /\ state[q] = "unused"
      /\ state' = [state EXCEPT ![q] = "live"]
  BY ChildStep DEF Fork0
<1>2. PICK copy \in Layouts(free) :
        /\ pt' = [pt EXCEPT ![q] = [a \in Pages |->
                     [frame |-> copy[a], writable |-> pt[p][a].writable]]]
        /\ data' = Fill(data, copy, [a \in Pages |-> data[pt[p][a].frame]])
  BY DEF Fork0
<1>3. /\ \A a \in Pages : data'[copy[a]] = data[pt[p][a].frame]
      /\ \A f \in Frames \ Laid(copy) : data'[f] = data[f]
  BY <1>0, <1>2, FillsNew DEF Types
<1>4. Laid(copy) \in SUBSET free /\ \A r \in Slots : Mapped(r) \cap Laid(copy) = {}
  BY <1>0, LaidIsFree, Fresh
<1>5. \A r \in Slots \ {q} : state'[r] = state[r] /\ pt'[r] = pt[r]
  BY <1>0, <1>1, <1>2 DEF Types
<1>6. ASSUME NEW r \in Slots \ {q} PROVE memory'[r] = memory[r]
  <2>1. Mapped(r) \subseteq Frames
    BY <1>0, HasPages, NoPages
  <2> QED BY <2>1, <1>0, <1>3, <1>4, <1>5, SameMemory
<1>7. memory'[q] = memory[p] /\ memory[q] = NoMem
  <2>1. state'[q] = "live" /\ \A a \in Pages : pt'[q][a].frame = copy[a]
    BY <1>0, <1>1, <1>2 DEF Types
  <2>2. memory'[q] = [a \in Pages |-> data[pt[p][a].frame]]
    BY <2>1, <1>3 DEF memory
  <2> QED BY <2>2, <1>1, LiveMemory DEF memory
<1> QED BY <1>1, <1>6, <1>7, ForkPrivate

\* fork(1) has the same effect without the copy.
LEMMA Fork1Private ==
  ASSUME IInv, Safe, NEW p \in Slots, NEW q \in Slots, Fork1(p, q)
  PROVE  MemoryStep
<1>0. Types
  BY DEF IInv
<1>1. /\ p # q /\ state[p] = "live" /\ state[q] = "unused"
      /\ state' = [state EXCEPT ![q] = "live"]
  BY Fork1Does, ChildStep
<1>2. PICK shared : /\ shared = [a \in Pages |-> [pt[p][a] EXCEPT !.writable = FALSE]]
                    /\ pt' = [pt EXCEPT ![p] = shared, ![q] = shared]
                    /\ UNCHANGED <<data, free>>
  BY Fork1Shares
<1>3. pt[p] \in [Pages -> Page]
  BY <1>0, <1>1, HasPages
<1>4. \A a \in Pages : shared[a].frame = pt[p][a].frame
  BY <1>2, <1>3 DEF Page
<1>5. pt'[p] = shared /\ pt'[q] = shared /\ \A r \in Slots \ {p, q} : pt'[r] = pt[r]
  <2>1. pt \in [Slots -> [Pages -> Page] \cup {NoMem}] /\ p # q
    BY <1>0, <1>1 DEF Types
  <2>2. pt' = [pt EXCEPT ![p] = shared, ![q] = shared]
    BY <1>2
  <2> QED BY <2>1, <2>2
<1>6. state'[q] = "live" /\ \A r \in Slots \ {q} : state'[r] = state[r]
  BY <1>0, <1>1 DEF Types
<1>7. \A r \in Slots \ {p, q} : memory'[r] = memory[r]
  BY <1>0, <1>2, <1>5, <1>6, SameMemory
<1>8. memory'[p] = memory[p] /\ memory'[q] = memory[p]
  <2>1. memory[p] = [a \in Pages |-> data[pt[p][a].frame]]
    BY <1>1 DEF memory
  <2>2. data' = data /\ state'[p] = "live" /\ state'[q] = "live"
    BY <1>1, <1>2, <1>6
  <2>3. \A a \in Pages : /\ data'[pt'[p][a].frame] = data[pt[p][a].frame]
                         /\ data'[pt'[q][a].frame] = data[pt[p][a].frame]
    BY <2>2, <1>4, <1>5
  <2>4. memory'[p] = [a \in Pages |-> data'[pt'[p][a].frame]]
    BY <2>2 DEF memory
  <2>5. memory'[q] = [a \in Pages |-> data'[pt'[q][a].frame]]
    BY <2>2 DEF memory
  <2> QED BY <2>1, <2>3, <2>4, <2>5
<1>9. memory[q] = NoMem
  BY <1>1 DEF memory
<1> QED BY <1>1, <1>7, <1>8, <1>9, ForkPrivate

\* A store is seen by nobody else, since a writable frame has one user.
LEMMA StorePrivate ==
  ASSUME IInv, Aliases, ~KernelWrites,
         NEW p \in Slots, NEW a \in Pages, NEW v \in Vals, Store(p, a, v)
  PROVE  MemoryStep
<1>0. Types
  BY DEF IInv
<1>1. /\ state[p] = "live" /\ pt[p][a].writable
      /\ data' = [data EXCEPT ![pt[p][a].frame] = v] /\ UNCHANGED <<state, pt>>
  BY DEF Store
<1>2. pt[p] \in [Pages -> Page] /\ data \in [Frames -> Vals \cup {Junk}]
  BY <1>0, <1>1, HasPages DEF Types
<1>3. PICK f \in Frames : f = pt[p][a].frame
  BY <1>2 DEF Page
<1>4. data'[f] = v /\ \A g \in Frames \ {f} : data'[g] = data[g]
  BY <1>1, <1>2, <1>3
<1>5. ASSUME NEW r \in Slots \ {p} PROVE memory'[r] = memory[r]
  <2>1. f \notin Mapped(r) /\ Mapped(r) \subseteq Frames
    <3>1. CASE state[r] = "unused"
      BY <3>1, <1>0, NoPages
    <3>2. CASE state[r] # "unused"
      BY <3>2, <1>0, <1>1, <1>3, HasPages DEF Aliases
    <3> QED BY <3>1, <3>2
  <2> QED BY <2>1, <1>0, <1>1, <1>4, SameMemory
<1>6. memory'[p] = [memory[p] EXCEPT ![a] = v]
  <2>1. \A b \in Pages \ {a} : pt[p][b].frame \in Frames \ {f}
    BY <1>1, <1>2, <1>3 DEF Aliases, Page
  <2>2. memory[p] = [b \in Pages |-> data[pt[p][b].frame]]
    BY <1>1 DEF memory
  <2>3. memory'[p] = [b \in Pages |-> data'[pt[p][b].frame]]
    BY <1>1 DEF memory
  <2> QED BY <2>1, <2>2, <2>3, <1>3, <1>4
<1>7. memory' = [memory EXCEPT ![p][a] = v]
  BY <1>5, <1>6, MemoryPut
<1>8. memory[p] # NoMem
  BY <1>1, LiveMemory
<1>9. Private!Store(p, a, v)
  BY <1>7, <1>8 DEF Private!Store, memory
<1> QED BY <1>9 DEF MemoryStep, Private!Next

\* A panic changes no memory.
LEMMA PanicPrivate ==
  ASSUME NEW why, Panic(why)
  PROVE  MemoryStep
BY DEF Panic, MemoryStep, memory

\* A write fault moves a page without changing what the process reads.
LEMMA WriteFaultPrivate ==
  ASSUME IInv, Safe, NEW p \in Slots, NEW a \in Pages, WriteFault(p, a)
  PROVE  MemoryStep
<1>0. Types /\ Sharing
  BY DEF IInv, Safe
<1>1. CASE Panic("remap") \/ Panic("no memory")
  BY <1>1, PanicPrivate
<1>2. CASE ~(Panic("remap") \/ Panic("no memory"))
  <2>1. PICK f \in free :
          /\ pt' = [pt EXCEPT ![p][a] = [frame |-> f, writable |-> TRUE]]
          /\ data' = [data EXCEPT ![f] = data[pt[p][a].frame]]
    BY <1>2 DEF WriteFault
  <2>2. UNCHANGED state /\ state[p] = "live"
    BY <1>2 DEF WriteFault
  <2>3. /\ pt[p] \in [Pages -> Page] /\ f \in Frames
        /\ Mapped(p) = {pt[p][b].frame : b \in Pages} /\ Mapped(p) \subseteq Frames
    BY <1>0, <2>1, <2>2, HasPages DEF Types
  <2>4. pt'[p] = [pt[p] EXCEPT ![a] = [frame |-> f, writable |-> TRUE]]
        /\ \A r \in Slots \ {p} : pt'[r] = pt[r]
    BY <1>0, <2>1 DEF Types
  <2>5. data'[f] = data[pt[p][a].frame] /\ \A g \in Frames \ {f} : data'[g] = data[g]
    BY <1>0, <2>1, <2>3 DEF Types
  <2>6. \A r \in Slots : f \notin Mapped(r) /\ Mapped(r) \subseteq Frames
    BY <1>0, <2>1, HasPages, NoPages DEF Sharing
  <2>7. \A r \in Slots \ {p} : memory'[r] = memory[r]
    BY <1>0, <2>2, <2>4, <2>5, <2>6, SameMemory
  <2>8. \A b \in Pages : data'[pt'[p][b].frame] = data[pt[p][b].frame]
    <3>1. ASSUME NEW b \in Pages PROVE data'[pt'[p][b].frame] = data[pt[p][b].frame]
      <4>1. CASE b = a
        BY <4>1, <2>3, <2>4, <2>5
      <4>2. CASE b # a
        <5>1. pt'[p][b] = pt[p][b] /\ pt[p][b].frame \in Mapped(p)
          BY <4>2, <2>3, <2>4
        <5> QED BY <5>1, <2>5, <2>6
      <4> QED BY <4>1, <4>2
    <3> QED BY <3>1
  <2>9. memory'[p] = memory[p]
    BY <2>2, <2>8 DEF memory
  <2> QED BY <2>7, <2>9, MemoryKept
<1> QED BY <1>1, <1>2

\* exec gives its process the new image, and frees nothing of the others.
LEMMA ExecPrivate ==
  ASSUME IInv, Safe, InPairs, NEW p \in Slots, Exec(p)
  PROVE  MemoryStep
<1>0. Types /\ Sharing
  BY DEF IInv, Safe
<1>1. ~LosesGroup(p)
  BY GroupKnown DEF IInv
<1>2. PICK new \in Layouts(free) :
        /\ pt' = [pt EXCEPT ![p] = [a \in Pages |-> [frame |-> new[a], writable |-> TRUE]]]
        /\ data' = Fill(Kfree(data, Freed(p, Mapped(p))), new, Image)
  BY <1>1 DEF Exec
<1>3. state' = state /\ state[p] = "live"
  BY <1>1 DEF Exec
<1>4. /\ \A a \in Pages : data'[new[a]] = Image[a]
      /\ \A f \in Frames \ Laid(new) : data'[f] = Kfree(data, Freed(p, Mapped(p)))[f]
  BY <1>0, <1>2, FillsNew DEF Types
<1>5. \A r \in Slots : Mapped(r) \cap Laid(new) = {}
  BY <1>0, LaidIsFree, Fresh
<1>6. ASSUME NEW r \in Slots \ {p} PROVE memory'[r] = memory[r]
  <2>1. Mapped(r) \subseteq Frames
    BY <1>0, HasPages, NoPages
  <2>2. Mapped(r) \cap Freed(p, Mapped(p)) = {}
    BY ExecFrees
  <2>3. \A f \in Mapped(r) : data'[f] = data[f]
    BY <2>1, <2>2, <1>4, <1>5 DEF Kfree
  <2>4. pt'[r] = pt[r]
    BY <1>0, <1>2 DEF Types
  <2> QED BY <2>3, <2>4, <1>0, <1>3, SameMemory
<1>7. memory'[p] = Image
  <2>1. \A a \in Pages : pt'[p][a].frame = new[a]
    BY <1>0, <1>2 DEF Types
  <2>2. memory'[p] = [a \in Pages |-> Image[a]]
    BY <2>1, <1>3, <1>4 DEF memory
  <2> QED BY <2>2, CowConstants
<1>8. memory' = [memory EXCEPT ![p] = Image]
  BY <1>6, <1>7, MemoryPut
<1>9. Private!Exec(p)
  BY <1>3, <1>8, LiveMemory DEF Private!Exec, memory
<1> QED BY <1>9 DEF MemoryStep, Private!Next

\* exit gives the memory up.
LEMMA ExitPrivate ==
  ASSUME IInv, NEW p \in Slots, ExitRead(p) \/ ExitZombie(p)
  PROVE  MemoryStep
<1>0. Types
  BY DEF IInv
<1>1. ~LosesGroup(p)
  BY GroupKnown DEF IInv
<1>2. /\ UNCHANGED <<pt, data>>
      /\ state' = [state EXCEPT ![p] = state'[p]] /\ state'[p] # "live"
  BY <1>0, <1>1 DEF ExitRead, ExitZombie, Types
<1>3. \A r \in Slots \ {p} : memory'[r] = memory[r]
  BY <1>0, <1>2, SameMemory DEF Types
<1>4. memory'[p] = NoMem
  BY <1>2 DEF memory
<1>5. memory' = [memory EXCEPT ![p] = NoMem]
  BY <1>3, <1>4, MemoryPut
<1>6. Private!Exit(p)
  BY <1>5 DEF Private!Exit, memory
<1> QED BY <1>6 DEF MemoryStep, Private!Next

\* wait frees nothing that a live process reads.
LEMMA WaitPrivate ==
  ASSUME IInv, Safe, NEW p \in Slots, NEW q \in Slots, Wait(p, q)
  PROVE  MemoryStep
<1>0. Types
  BY DEF IInv
<1>1. ~LosesGroup(p)
  BY GroupKnown DEF IInv
<1>2. /\ state[q] = "zombie" /\ state' = [state EXCEPT ![q] = "unused"]
      /\ pt' = [pt EXCEPT ![q] = NoMem]
      /\ data' = Kfree(data, Freed(p, Mapped(q)))
  BY <1>1 DEF Wait, NoMem
<1>3. /\ state'[q] = "unused"
      /\ \A r \in Slots \ {q} : state'[r] = state[r] /\ pt'[r] = pt[r]
  BY <1>0, <1>2 DEF Types
<1>4. ASSUME NEW r \in Slots \ {q} PROVE memory'[r] = memory[r]
  <2>1. Mapped(r) \subseteq Frames
    BY <1>0, HasPages, NoPages
  <2>2. Mapped(r) \cap Freed(p, Mapped(q)) = {}
    BY WaitFrees
  <2>3. \A f \in Mapped(r) : data'[f] = data[f]
    BY <2>1, <2>2, <1>2 DEF Kfree
  <2> QED BY <2>3, <1>0, <1>3, SameMemory
<1>5. memory'[q] = memory[q]
  BY <1>2, <1>3 DEF memory
<1> QED BY <1>4, <1>5, MemoryKept

-----------------------------------------------------------------------------
(* A frame that two processes map is writable in neither. *)

\* p has its frames to itself, and each for one page.
Alone(p) ==
    /\ \A a, b \in Pages : pt[p][a].frame = pt[p][b].frame => a = b
    /\ \A r \in Slots \ {p} : Mapped(p) \cap Mapped(r) = {}

\* A step that gives one process frames of its own.
LEMMA AliasesElse ==
  ASSUME Types, Types', Aliases, NEW q \in Slots, Alone(q)',
         \A r \in Slots \ {q} : pt'[r] = pt[r] /\ (state'[r] # "unused" => state[r] # "unused")
  PROVE  Aliases'
<1>1. \A r \in Slots : state'[r] # "unused" => \A a \in Pages : pt'[r][a].frame \in Mapped(r)'
  <2>1. ASSUME NEW r \in Slots, state'[r] # "unused", NEW a \in Pages
        PROVE  pt'[r][a].frame \in Mapped(r)'
    <3>1. pt'[r] \in [Pages -> Page]
      BY <2>1 DEF Types
    <3> QED BY <3>1 DEF Mapped
  <2> QED BY <2>1
<1>2. \A r \in Slots : state'[r] # "unused" =>
         \A a, b \in Pages : pt'[r][a].frame = pt'[r][b].frame => a = b
  BY DEF Aliases, Alone
<1>3. ASSUME NEW r \in Slots, NEW s \in Slots, r # s, state'[r] # "unused",
             state'[s] # "unused", NEW a \in Pages, NEW b \in Pages,
             pt'[r][a].frame = pt'[s][b].frame
      PROVE  ~pt'[r][a].writable
  <2>1. r # q /\ s # q
    <3>1. pt'[r][a].frame \in Mapped(r)' \cap Mapped(s)'
      BY <1>1, <1>3
    <3> QED BY <3>1, <1>3 DEF Alone
  <2> QED BY <2>1, <1>3 DEF Aliases
<1> QED BY <1>2, <1>3 DEF Aliases

\* fork(0).
LEMMA Fork0Aliases ==
  ASSUME IInv, IInv', Safe, Aliases, NEW p \in Slots, NEW q \in Slots, Fork0(p, q)
  PROVE  Aliases'
<1>0. Types /\ Sharing /\ Types'
  BY DEF IInv, Safe
<1>1. state' = [state EXCEPT ![q] = "live"]
  BY ChildStep DEF Fork0
<1>2. PICK copy \in Layouts(free) :
        pt' = [pt EXCEPT ![q] = [a \in Pages |->
                     [frame |-> copy[a], writable |-> pt[p][a].writable]]]
  BY DEF Fork0
<1>3. pt'[q] = [a \in Pages |-> [frame |-> copy[a], writable |-> pt[p][a].writable]]
  BY <1>0, <1>2 DEF Types
<1>4. \A r \in Slots \ {q} : pt'[r] = pt[r] /\ Mapped(r)' = Mapped(r)
                             /\ state'[r] = state[r]
  BY <1>0, <1>1, <1>2, SameMapped DEF Types
<1>5. \A r \in Slots : Mapped(r) \cap Laid(copy) = {}
  BY <1>0, LaidIsFree, Fresh
<1>6. Mapped(q)' = Laid(copy)
  BY <1>3 DEF Mapped, Laid
<1>7. Alone(q)'
  BY <1>3, <1>4, <1>5, <1>6 DEF Alone, Layouts
<1> QED BY <1>0, <1>4, <1>7, AliasesElse

\* exec.
LEMMA ExecAliases ==
  ASSUME IInv, IInv', Safe, Aliases, NEW p \in Slots, Exec(p)
  PROVE  Aliases'
<1>0. Types /\ Sharing /\ Types'
  BY DEF IInv, Safe
<1>1. ~LosesGroup(p)
  BY GroupKnown DEF IInv
<1>2. PICK new \in Layouts(free) :
        pt' = [pt EXCEPT ![p] = [a \in Pages |-> [frame |-> new[a], writable |-> TRUE]]]
  BY <1>1 DEF Exec
<1>3. pt'[p] = [a \in Pages |-> [frame |-> new[a], writable |-> TRUE]]
  BY <1>0, <1>2 DEF Types
<1>4. state' = state
  BY <1>1 DEF Exec
<1>5. \A r \in Slots \ {p} : pt'[r] = pt[r] /\ Mapped(r)' = Mapped(r)
  BY <1>0, <1>2, SameMapped DEF Types
<1>6. \A r \in Slots : Mapped(r) \cap Laid(new) = {}
  BY <1>0, LaidIsFree, Fresh
<1>7. Mapped(p)' = Laid(new)
  BY <1>3 DEF Mapped, Laid
<1>8. Alone(p)'
  BY <1>3, <1>5, <1>6, <1>7 DEF Alone, Layouts
<1> QED BY <1>0, <1>4, <1>5, <1>8, AliasesElse

\* A step that changes no page table of a process that stays.
LEMMA SameAliases ==
  ASSUME Aliases,
         \A r \in Slots : state'[r] # "unused" => pt'[r] = pt[r] /\ state[r] # "unused"
  PROVE  Aliases'
BY DEF Aliases

\* fork(1) takes the writable bit from both.
LEMMA Fork1Aliases ==
  ASSUME IInv, IInv', Aliases, NEW p \in Slots, NEW q \in Slots, Fork1(p, q)
  PROVE  Aliases'
<1>0. Types
  BY DEF IInv
<1>1. /\ p # q /\ state[p] = "live" /\ state' = [state EXCEPT ![q] = "live"]
  BY Fork1Does, ChildStep
<1>2. PICK shared : /\ shared = [a \in Pages |-> [pt[p][a] EXCEPT !.writable = FALSE]]
                    /\ pt' = [pt EXCEPT ![p] = shared, ![q] = shared]
  BY Fork1Shares
<1>3. \A a \in Pages : shared[a].frame = pt[p][a].frame /\ shared[a].writable = FALSE
  BY <1>0, <1>1, <1>2, HasPages DEF Page
<1>4. pt'[p] = shared /\ pt'[q] = shared /\ \A r \in Slots \ {p, q} : pt'[r] = pt[r]
  <2>1. pt \in [Slots -> [Pages -> Page] \cup {NoMem}] /\ p # q
    BY <1>0, <1>1 DEF Types
  <2>2. pt' = [pt EXCEPT ![p] = shared, ![q] = shared]
    BY <1>2
  <2> QED BY <2>1, <2>2
<1>5. \A r \in Slots \ {q} : state'[r] = state[r]
  BY <1>0, <1>1 DEF Types
<1>6. \A r \in Slots : state'[r] # "unused" =>
         \A a, b \in Pages : pt'[r][a].frame = pt'[r][b].frame => a = b
  <2>1. \A a, b \in Pages : shared[a].frame = shared[b].frame => a = b
    BY <1>1, <1>3 DEF Aliases
  <2> QED BY <2>1, <1>4, <1>5 DEF Aliases
<1>7. ASSUME NEW r \in Slots, NEW s \in Slots, r # s, state'[r] # "unused",
             state'[s] # "unused", NEW a \in Pages, NEW b \in Pages,
             pt'[r][a].frame = pt'[s][b].frame
      PROVE  ~pt'[r][a].writable
  <2>1. CASE r \in {p, q}
    BY <2>1, <1>3, <1>4
  <2>2. CASE r \notin {p, q} /\ s \in {p, q}
    <3>1. pt[r][a].frame = pt[p][b].frame
      BY <2>2, <1>3, <1>4, <1>7
    <3> QED BY <3>1, <2>2, <1>1, <1>4, <1>5, <1>7 DEF Aliases
  <2>3. CASE r \notin {p, q} /\ s \notin {p, q}
    BY <2>3, <1>4, <1>5, <1>7 DEF Aliases
  <2> QED BY <2>1, <2>2, <2>3
<1> QED BY <1>6, <1>7 DEF Aliases

\* A write fault maps a free frame, which nobody else has.
LEMMA WriteFaultAliases ==
  ASSUME IInv, IInv', Safe, Aliases, NEW p \in Slots, NEW a \in Pages, WriteFault(p, a)
  PROVE  Aliases'
<1>0. Types /\ Sharing
  BY DEF IInv, Safe
<1>1. CASE Panic("remap") \/ Panic("no memory")
  BY <1>1, SameAliases DEF Panic
<1>2. CASE ~(Panic("remap") \/ Panic("no memory"))
  <2>1. PICK f \in free : pt' = [pt EXCEPT ![p][a] = [frame |-> f, writable |-> TRUE]]
    BY <1>2 DEF WriteFault
  <2>2. UNCHANGED state /\ state[p] = "live"
    BY <1>2 DEF WriteFault
  <2>3. pt[p] \in [Pages -> Page]
    BY <1>0, <2>2, HasPages
  <2>4. pt'[p] = [pt[p] EXCEPT ![a] = [frame |-> f, writable |-> TRUE]]
        /\ \A r \in Slots \ {p} : pt'[r] = pt[r]
    BY <1>0, <2>1 DEF Types
  <2>5. /\ pt'[p][a].frame = f
        /\ \A b \in Pages \ {a} : pt'[p][b] = pt[p][b]
    BY <2>3, <2>4
  <2>6. \A r \in Slots : state[r] # "unused" => \A b \in Pages : pt[r][b].frame # f
    <3>1. \A r \in Slots : f \notin Mapped(r)
      BY <1>0, <2>1 DEF Sharing
    <3> QED BY <3>1, <1>0, HasPages
  <2>7. \A r \in Slots : state[r] # "unused" =>
           \A b, c \in Pages : pt'[r][b].frame = pt'[r][c].frame => b = c
    <3>1. ASSUME NEW b \in Pages, NEW c \in Pages, pt'[p][b].frame = pt'[p][c].frame
          PROVE  b = c
      <4>1. CASE b = a \/ c = a
        BY <4>1, <3>1, <2>2, <2>5, <2>6
      <4>2. CASE b # a /\ c # a
        <5>1. pt[p][b].frame = pt[p][c].frame
          BY <4>2, <3>1, <2>5
        <5> QED BY <5>1, <2>2 DEF Aliases
      <4> QED BY <4>1, <4>2
    <3>2. ASSUME NEW r \in Slots \ {p}, state[r] # "unused"
          PROVE  \A b, c \in Pages : pt'[r][b].frame = pt'[r][c].frame => b = c
      <4>1. pt'[r] = pt[r]
        BY <2>4
      <4> QED BY <4>1, <3>2 DEF Aliases
    <3> QED BY <3>1, <3>2
  <2>8. ASSUME NEW r \in Slots, NEW s \in Slots, r # s, state[r] # "unused",
               state[s] # "unused", NEW b \in Pages, NEW c \in Pages,
               pt'[r][b].frame = pt'[s][c].frame
        PROVE  ~pt'[r][b].writable
    <3>1. CASE r # p /\ s # p
      BY <3>1, <2>4, <2>8 DEF Aliases
    <3>2. CASE r = p /\ s # p
      <4>1. b # a /\ pt'[s][c] = pt[s][c]
        BY <3>2, <2>4, <2>5, <2>6, <2>8
      <4> QED BY <4>1, <3>2, <2>5, <2>8 DEF Aliases
    <3>3. CASE r # p /\ s = p
      <4>1. c # a /\ pt'[r][b] = pt[r][b]
        BY <3>3, <2>4, <2>5, <2>6, <2>8
      <4> QED BY <4>1, <3>3, <2>5, <2>8 DEF Aliases
    <3> QED BY <3>1, <3>2, <3>3, <2>8
  <2> QED BY <2>2, <2>7, <2>8 DEF Aliases
<1> QED BY <1>1, <1>2

\* The rest does not touch page tables, or takes one away.
LEMMA RestAliases ==
  ASSUME IInv, Aliases, NEW p \in Slots, NEW q \in Slots, NEW a \in Pages, NEW v \in Vals,
         Wait(p, q) \/ Store(p, a, v) \/ ExitRead(p) \/ ExitZombie(p)
  PROVE  Aliases'
<1>0. Types /\ Groups
  BY DEF IInv
<1>1. CASE Wait(p, q)
  <2>1. ~LosesGroup(p)
    BY <1>0, GroupKnown
  <2>2. state' = [state EXCEPT ![q] = "unused"] /\ pt' = [pt EXCEPT ![q] = NoMem]
    BY <1>1, <2>1 DEF Wait, NoMem
  <2> QED BY <2>2, <1>0, SameAliases DEF Types
<1>2. CASE Store(p, a, v)
  BY <1>2, SameAliases DEF Store
<1>3. CASE ExitRead(p) \/ ExitZombie(p)
  <2>1. ~LosesGroup(p)
    BY <1>0, GroupKnown
  <2>2. pt' = pt /\ state[p] # "unused" /\ \A r \in Slots \ {p} : state'[r] = state[r]
    BY <1>3, <2>1, <1>0 DEF ExitRead, ExitZombie, Types
  <2> QED BY <2>2, SameAliases
<1> QED BY <1>1, <1>2, <1>3

\* At the start every frame has one page.
LEMMA StartsAliases == Init => Aliases
<1> SUFFICES ASSUME Init PROVE Aliases
  OBVIOUS
<1>1. PICK new \in Layouts(Frames) :
        pt = [p \in Slots |-> [a \in IF p = Sh THEN Pages ELSE {} |->
                                        [frame |-> new[a], writable |-> TRUE]]]
  BY DEF Init, InitWith
<1>2. \A p \in Slots : state[p] # "unused" => p = Sh
  BY DEF Init, InitWith
<1>3. pt[Sh] = [a \in Pages |-> [frame |-> new[a], writable |-> TRUE]]
  BY <1>1, ShellSlot
<1> QED BY <1>2, <1>3 DEF Aliases, Layouts

\* Every step keeps Aliases.
LEMMA StepsAliases ==
  ASSUME IInv, Safe, Aliases, IInv', [Next]_vars
  PROVE  Aliases'
<1>1. CASE UNCHANGED vars
  BY <1>1, SameAliases DEF vars
<1>2. ASSUME NEW p \in Slots, NEW q \in Slots, Fork0(p, q) \/ Fork1(p, q) \/ Wait(p, q)
      PROVE  Aliases'
  <2>1. PICK a \in Pages, v \in Vals : TRUE
    BY CowConstants
  <2> QED BY <1>2, <2>1, Fork0Aliases, Fork1Aliases, RestAliases
<1>3. ASSUME NEW p \in Slots, NEW a \in Pages,
             WriteFault(p, a) \/ \E v \in Vals : Store(p, a, v)
      PROVE  Aliases'
  BY <1>3, WriteFaultAliases, RestAliases
<1>4. ASSUME NEW p \in Slots, Exec(p) \/ ExitRead(p) \/ ExitZombie(p)
      PROVE  Aliases'
  <2>1. PICK a \in Pages, v \in Vals : TRUE
    BY CowConstants
  <2> QED BY <1>4, <2>1, ExecAliases, RestAliases
<1> QED BY <1>1, <1>2, <1>3, <1>4 DEF Next

\* In every behaviour of programs that share in pairs, a frame that two processes
\* map is writable in neither.
THEOREM WritersAreAlone ==
  ASSUME InPairs
  PROVE  Spec => [](IInv /\ Safe /\ Aliases)
<1>1. IInv /\ Safe /\ Aliases /\ IInv' /\ [Next]_vars => Aliases'
  BY StepsAliases
<1> QED BY <1>1, StartsAliases, SharingInvariant, PTL DEF Spec

\* Every step is a step or a stutter of PrivateMemory.
LEMMA StepsPrivate ==
  ASSUME InPairs, ~KernelWrites, IInv, Safe, Aliases, [Next]_vars
  PROVE  MemoryStep
<1>1. CASE UNCHANGED vars
  BY <1>1 DEF MemoryStep, memory, vars
<1>2. ASSUME NEW p \in Slots, NEW q \in Slots, Fork0(p, q) \/ Fork1(p, q) \/ Wait(p, q)
      PROVE  MemoryStep
  BY <1>2, Fork0Private, Fork1Private, WaitPrivate
<1>3. ASSUME NEW p \in Slots, NEW a \in Pages,
             WriteFault(p, a) \/ \E v \in Vals : Store(p, a, v)
      PROVE  MemoryStep
  BY <1>3, WriteFaultPrivate, StorePrivate
<1>4. ASSUME NEW p \in Slots, Exec(p) \/ ExitRead(p) \/ ExitZombie(p)
      PROVE  MemoryStep
  BY <1>4, ExecPrivate, ExitPrivate
<1> QED BY <1>1, <1>2, <1>3, <1>4 DEF Next

\* Every process has the memory it would have if fork had copied all of it, for
\* programs that share in pairs and whose system calls store in pages of their
\* own.
THEOREM CopyOnWriteIsInvisible ==
  ASSUME InPairs, ~KernelWrites
  PROVE  Spec => MemoryIsPrivate
<1>1. ASSUME Init PROVE Private!Init
  <2>1. PICK new \in Layouts(Frames) :
          /\ pt = [p \in Slots |-> [a \in IF p = Sh THEN Pages ELSE {} |->
                                        [frame |-> new[a], writable |-> TRUE]]]
          /\ data = Fill([f \in Frames |-> Junk], new, Image)
    BY <1>1 DEF Init, InitWith
  <2>2. state = [p \in Slots |-> IF p = Sh THEN "live" ELSE "unused"]
    BY <1>1 DEF Init, InitWith
  <2>3. \A a \in Pages : data[new[a]] = Image[a]
    BY <2>1, FillsNew
  <2>4. \A a \in Pages : pt[Sh][a].frame = new[a]
    BY <2>1, ShellSlot
  <2>5. memory[Sh] = Image
    <3>1. memory[Sh] = [a \in Pages |-> Image[a]]
      BY <2>2, <2>3, <2>4, ShellSlot DEF memory
    <3> QED BY <3>1, CowConstants
  <2>6. memory = [q \in Slots |-> IF q = Sh THEN Image ELSE NoMem]
    BY <2>2, <2>5 DEF memory
  <2> QED BY <2>6, ShellSlot DEF Private!Init, memory
<1>2. IInv /\ Safe /\ Aliases /\ [Next]_vars => [Private!Next]_memory
  BY StepsPrivate DEF MemoryStep
<1>3. Init => Private!Init
  BY <1>1
<1>4. Spec => Private!Spec
  BY <1>2, <1>3, WritersAreAlone, PTL DEF Spec, Private!Spec, memory
<1> QED BY <1>4 DEF MemoryIsPrivate
=============================================================================
