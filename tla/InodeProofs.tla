---------------------------- MODULE InodeProofs ----------------------------
(***************************************************************************)
(* Proofs about Inode, for any number of processes, inodes, names and      *)
(* blocks, and any size of the inode table.                                *)
(***************************************************************************)
EXTENDS Inode, FiniteSetTheorems, WellFoundedInduction, TLAPS

Types0 == {"NONE", "FILE", "DIR"}
Ops == {"open", "create", "mkdir", "unlink", "link", "link2"}
DInode == [type : Types0, nlink : Nat, addrs : SUBSET Blocks, ents : [Names -> Inums \cup {0}]]
Entry == [inum : Inums \cup {0}, ref : Nat, valid : BOOLEAN, type : Types0, nlink : Nat,
          addrs : SUBSET Blocks]
Call1 == [op : Ops \cup {"none"}, ip : Slots \cup {0}, dp : Slots \cup {0},
          path : Seq(Names), new : Seq(Names)]
Putting == {"put", "invalid", "drop"}
Later == {"user", "walk", "open", "link", "found", "bad"}
Places == Later \cup {"create", "mkdir", "fresh", "unlink", "remove", "link2"}
At(p) == IF pc[p] \in Putting THEN next[p] ELSE pc[p]

Types ==
    /\ dino \in [Inums -> DInode]
    /\ it \in [Slots -> Entry]
    /\ lock \in [Slots -> Proc \cup {Nobody}]
    /\ bitmap \in SUBSET Blocks
    /\ pc \in [Proc -> Places \cup Putting]
    /\ next \in [Proc -> Later]
    /\ call \in [Proc -> Call1]
    /\ todo \in [Proc -> Seq(Slots)]
    /\ fds \in [Proc -> SUBSET Slots]
    /\ panicked = FALSE

\* What p has of its system call, at each place of it.
NoRepeat(s) == \A j, k \in DOMAIN s : s[j] = s[k] => j = k
Place(p) ==
    LET a == At(p) c == call[p] IN
    /\ pc[p] \in Putting <=> todo[p] # <<>>
    /\ NoRepeat(todo[p])
    /\ a = "user" => c = NoCall
    /\ a = "walk" => c.op \in Ops
    /\ a \in {"open", "link", "create", "mkdir", "unlink", "link2"} => c.op = a
    /\ a \in {"found", "fresh"} => c.op \in {"create", "mkdir"}
    /\ a = "remove" => c.op = "unlink"
    /\ a = "bad" => c.op = "link2"
    /\ c.ip # 0 <=> a \notin {"user", "bad"}
    /\ c.dp # 0 <=> a \in {"fresh", "remove"} \/ c.op = "link2"
    /\ a \in {"walk", "create", "mkdir", "fresh", "unlink", "remove", "link2", "bad"} =>
          c.path # <<>>
    /\ c.op = "link" => c.new # <<>>
Placed == \A p \in Proc : Place(p)

HasLock(p, s) == \/ pc[p] \in {"fresh", "remove"} /\ call[p].dp = s
                 \/ pc[p] = "invalid" /\ Head(todo[p]) = s
Locked == \A s \in Slots, p \in Proc : lock[s] = p <=> HasLock(p, s)

Sum(F, T, C, s) == Cardinality({p \in Proc : s \in F[p]})
                   + Cardinality({p \in Proc : s \in ToSet(T[p])})
                   + Cardinality({p \in Proc : C[p].ip = s})
                   + Cardinality({p \in Proc : C[p].dp = s})
Refs(s) == Sum(fds, todo, call, s)
Referenced == \A s \in Slots : it[s].ref = Refs(s)

Keeps(p, s) == s \in fds[p] \/ call[p].ip = s \/ call[p].dp = s
Uses(p, s)  == Keeps(p, s) \/ s \in ToSet(todo[p])
\* The end of iput, after which p does not have s any more.
Drops(p, s) == pc[p] \in {"invalid", "drop"} /\ s = Head(todo[p]) /\ ~Keeps(p, s)

\* The table t is right for the disk d, but for what the entries x are copies of;
\* nobody has a copy of a free inode.
Copy(e, d) == e.type = d.type /\ e.nlink = d.nlink /\ e.addrs = d.addrs /\ d.type # "NONE"
Sound(t, d, x) ==
    /\ t \in [Slots -> Entry]
    /\ \A s, u \in Slots : t[s].ref > 0 /\ t[u].ref > 0 /\ t[s].inum = t[u].inum => s = u
    /\ \A s \in Slots :
          /\ t[s].ref = 0 => t[s] = NoInode
          /\ t[s].ref > 0 => t[s].inum \in Inums
          /\ t[s].valid /\ s \notin x => Copy(t[s], d[t[s].inum])
Freed == {s \in Slots : \E p \in Proc : pc[p] = "invalid" /\ Head(todo[p]) = s}
Table == Sound(it, dino, Freed)

Disk(s) == dino[it[s].inum]
Free ==
    /\ dino[ROOTINO].type = "DIR"
    /\ \A i \in Inums : /\ dino[i].type = "NONE" => dino[i] = FreeInode
                        /\ dino[i].type = "FILE" => dino[i].ents = NoEntries
    /\ \A s \in Slots, p \in Proc : Uses(p, s) /\ Disk(s).type = "NONE" => Drops(p, s)

\* Between the steps of iput, create and unlink.
Freeing(p) == LET s == Head(todo[p]) IN
    /\ Disk(s).nlink = 0 /\ ~Keeps(p, s)
    /\ \A q \in Proc \ {p} : Uses(q, s) => pc[q] = "fresh" /\ call[q].ip = s
Making(p) == LET s == call[p].ip d == call[p].dp IN
    /\ Disk(s) = [FreeInode EXCEPT !.type = Type(call[p].op)]
    /\ \A q \in Proc \ {p} : Uses(q, s) => Drops(q, s)
    /\ s # d /\ s \notin fds[p]
    /\ Disk(d).type = "DIR" /\ Disk(d).ents[Name(p)] = 0
Removing(p) == LET s == call[p].ip d == call[p].dp IN
    Disk(d).type = "DIR" /\ Disk(d).ents[Name(p)] = it[s].inum
Held(p) ==
    /\ pc[p] = "invalid" => Freeing(p)
    /\ pc[p] = "fresh" => Making(p)
    /\ pc[p] = "remove" => Removing(p)
    /\ At(p) \in {"create", "mkdir", "unlink", "link2"} => Disk(call[p].ip).type = "DIR"
    /\ call[p].op = "link2" => Disk(call[p].dp).type = "FILE"
    /\ call[p].dp # 0 => it[call[p].dp].valid
    /\ \A s \in fds[p] : it[s].valid
Holding == \A p \in Proc : Held(p)

Space ==
    /\ bitmap = UNION {dino[i].addrs : i \in Inums}
    /\ \A i, j \in Inums : i # j => dino[i].addrs \cap dino[j].addrs = {}

\* The directories are a tree: an entry leads to a lower rank.
Ranked(r) == \A d \in Inums, n \in Names : LET i == dino[d].ents[n] IN
    i # 0 /\ dino[i].type = "DIR" => r[i] < r[d]
Tree == \E r \in [Inums -> Nat] : Ranked(r)

IsRoot(i) == IF i = ROOTINO THEN 1 ELSE 0
Links(i) == Cardinality(Entries(i)) + Cardinality(SubDirs(i)) + Cardinality(Promised(i)) + IsRoot(i)
Linked == \A i \in Inums : dino[i].nlink >= Links(i)

IInv == /\ Types /\ Placed /\ Locked /\ Referenced /\ Table /\ Free /\ Holding
        /\ Space /\ Tree /\ Linked
-----------------------------------------------------------------------------
(* Numbers, sets and sequences. *)

\* A non-empty set of numbers has a least one.
LEMMA Least ==
  ASSUME NEW T \in SUBSET Nat, T # {}
  PROVE  Min(T) \in T /\ \A y \in T : Min(T) <= y
<1>1. PICK x \in T : \A y \in T : ~(<<y, x>> \in OpToRel(<, Nat))
  BY NatLessThanWellFounded, WFMin
<1>2. ASSUME NEW y \in T PROVE x <= y
  <2>1. ~(y < x) /\ x \in Nat /\ y \in Nat
    BY <1>1 DEF OpToRel
  <2> QED BY <2>1
<1> QED BY <1>2 DEF Min

\* What a process has to put, when it has one inode or two.
LEMMA OnePut ==
  ASSUME NEW s \in Slots
  PROVE  /\ <<s>> \in Seq(Slots) /\ NoRepeat(<<s>>) /\ Head(<<s>>) = s /\ <<s>> # <<>>
         /\ \A u : u \in ToSet(<<s>>) <=> u = s
BY DEF ToSet, NoRepeat

\* Two inodes to put.
LEMMA ToPut ==
  ASSUME NEW s \in Slots, NEW d \in Slots
  PROVE  /\ <<s, d>> \in Seq(Slots) /\ <<s, d>> # <<>>
         /\ \A u : u \in ToSet(<<s, d>>) <=> u = s \/ u = d
         /\ s # d => NoRepeat(<<s, d>>)
BY DEF ToSet, NoRepeat

\* No inode to put, and no system call.
LEMMA NonePut == ToSet(<<>>) = {} /\ NoRepeat(<<>>)
  /\ NoCall \in Call1 /\ NoCall.op = "none" /\ NoCall.ip = 0 /\ NoCall.dp = 0
BY DEF ToSet, NoRepeat, NoCall, Call1

\* The first is put.
LEMMA Popped ==
  ASSUME NEW t \in Seq(Slots), t # <<>>, NoRepeat(t)
  PROVE  /\ Head(t) \in Slots /\ Head(t) \in ToSet(t) /\ Tail(t) \in Seq(Slots)
         /\ NoRepeat(Tail(t)) /\ ToSet(Tail(t)) = ToSet(t) \ {Head(t)}
         /\ Len(t) = 1 <=> Tail(t) = <<>>
<1>1. /\ Len(t) \in Nat \ {0} /\ DOMAIN t = 1 .. Len(t) /\ Head(t) = t[1]
      /\ Tail(t) \in Seq(Slots) /\ DOMAIN Tail(t) = 1 .. Len(t) - 1
      /\ \A k \in 1 .. Len(t) - 1 : Tail(t)[k] = t[k + 1]
      /\ Len(Tail(t)) = Len(t) - 1
  OBVIOUS
<1>2. \A k \in 2 .. Len(t) : k - 1 \in 1 .. Len(t) - 1 /\ t[k] = Tail(t)[k - 1]
  BY <1>1
<1>3. 1 \in DOMAIN t
  BY <1>1
<1>4. NoRepeat(Tail(t))
  <2> SUFFICES ASSUME NEW j \in DOMAIN Tail(t), NEW k \in DOMAIN Tail(t),
                      Tail(t)[j] = Tail(t)[k]
               PROVE  j = k
    BY DEF NoRepeat
  <2>1. t[j + 1] = t[k + 1] /\ j + 1 \in DOMAIN t /\ k + 1 \in DOMAIN t
    BY <1>1
  <2> QED BY <2>1, <1>1 DEF NoRepeat
<1>5. ASSUME NEW x PROVE x \in ToSet(Tail(t)) <=> x \in ToSet(t) \ {Head(t)}
  <2>1. ASSUME x \in ToSet(Tail(t)) PROVE x \in ToSet(t) \ {Head(t)}
    <3>1. PICK k \in 1 .. Len(t) - 1 : x = t[k + 1]
      BY <2>1, <1>1 DEF ToSet
    <3>2. k + 1 \in DOMAIN t /\ k + 1 # 1
      BY <1>1
    <3> QED BY <3>1, <3>2, <1>1, <1>3 DEF ToSet, NoRepeat
  <2>2. ASSUME x \in ToSet(t) \ {Head(t)} PROVE x \in ToSet(Tail(t))
    <3>1. PICK k \in 1 .. Len(t) : x = t[k]
      BY <2>2, <1>1 DEF ToSet
    <3>2. k # 1
      BY <3>1, <2>2, <1>1
    <3>3. k - 1 \in DOMAIN Tail(t) /\ x = Tail(t)[k - 1]
      BY <3>1, <3>2, <1>1, <1>2
    <3> QED BY <3>3 DEF ToSet
  <2> QED BY <2>1, <2>2
<1>6. Head(t) \in ToSet(t) /\ Head(t) \in Slots
  BY <1>1, <1>3 DEF ToSet
<1>7. Len(t) = 1 <=> Tail(t) = <<>>
  <2>1. Tail(t) = <<>> <=> Len(Tail(t)) = 0
    BY <1>1
  <2> QED BY <2>1, <1>1
<1> QED BY <1>1, <1>4, <1>5, <1>6, <1>7

\* Processes can be counted.
LEMMA FiniteProc ==
  ASSUME NEW S \in SUBSET Proc
  PROVE  IsFiniteSet(S) /\ Cardinality(S) \in Nat
BY FS_Subset, FS_CardinalityType, InodeConstants

\* One more or one less.
LEMMA Counts ==
  ASSUME NEW S, NEW T, IsFiniteSet(S), NEW x, \A y : y # x => (y \in S <=> y \in T)
  PROVE  /\ IsFiniteSet(T) /\ Cardinality(S) \in Nat /\ Cardinality(T) \in Nat
         /\ (x \in S <=> x \in T) => Cardinality(T) = Cardinality(S)
         /\ x \in S /\ x \notin T => Cardinality(T) = Cardinality(S) - 1
         /\ x \notin S /\ x \in T => Cardinality(T) = Cardinality(S) + 1
<1>1. CASE x \in S <=> x \in T
  <2>1. S = T
    BY <1>1
  <2> QED BY <2>1, <1>1, FS_CardinalityType
<1>2. CASE x \in S /\ x \notin T
  <2>1. T = S \ {x}
    BY <1>2
  <2> QED BY <2>1, <1>2, FS_RemoveElement, FS_CardinalityType
<1>3. CASE x \notin S /\ x \in T
  <2>1. T = S \cup {x}
    BY <1>3
  <2> QED BY <2>1, <1>3, FS_AddElement, FS_CardinalityType
<1> QED BY <1>1, <1>2, <1>3

-----------------------------------------------------------------------------
(* The inode table. *)

\* The same inodes with the same references, and no copy is lost.
Same(t, u) ==
    /\ u \in [Slots -> Entry]
    /\ \A s \in Slots : /\ u[s].ref = t[s].ref /\ u[s].inum = t[s].inum
                        /\ t[s].valid => u[s].valid
                        /\ u[s].valid => t[s].ref > 0

\* Entries of the table and inodes have numbers, and none is 0.
LEMMA Numbers ==
  /\ Slots \subseteq Nat \ {0} /\ Inums \subseteq Nat \ {0} /\ ROOTINO \in Inums
  /\ 0 \notin Slots /\ 0 \notin Inums
BY InodeConstants DEF Slots, Inums, ROOTINO

\* The empty entry and the free inode.
LEMMA Empty == NoInode \in Entry /\ FreeInode \in DInode
  /\ NoInode.ref = 0 /\ ~NoInode.valid /\ NoInode.inum = 0
  /\ \A T \in Types0 : [FreeInode EXCEPT !.type = T] \in DInode
BY DEF NoInode, FreeInode, Entry, DInode, Types0, NoEntries

\* iget finds the same entry in a table with the same inodes.
LEMMA SameSlot ==
  ASSUME NEW t, NEW u, Same(t, u), NEW i
  PROVE  Has(u, i) = Has(t, i) /\ Slot(u, i) = Slot(t, i) /\ (Full(u, i) <=> Full(t, i))
         /\ (Room(u, i) <=> Room(t, i))
<1>1. Has(u, i) = Has(t, i)
  BY DEF Same, Has
<1>2. {s \in Slots : u[s].ref = 0} = {s \in Slots : t[s].ref = 0}
  BY DEF Same
<1> QED BY <1>1, <1>2 DEF Slot, Full, Room

\* Copies that agree with the disk but for those in y.
LEMMA SoundSame ==
  ASSUME NEW t, NEW u, NEW d, NEW x, NEW y, Same(t, u), Sound(t, d, x),
         \A s \in Slots : s \notin y /\ s \notin x => u[s] = t[s] \/ Copy(u[s], d[u[s].inum]),
         \A s \in Slots : t[s].ref = 0 => u[s] = t[s]
  PROVE  Sound(u, d, x \cup y)
BY DEF Same, Sound

\* ilock
LEMMA IlockIs ==
  ASSUME NEW t, NEW x, Sound(t, dino, x), dino \in [Inums -> DInode],
         NEW s \in Slots, t[s].ref > 0, dino[t[s].inum].type # "NONE"
  PROVE  /\ Same(t, Ilock(t, s)) /\ Sound(Ilock(t, s), dino, x)
         /\ \A u \in Slots \ {s} : Ilock(t, s)[u] = t[u]
         /\ Ilock(t, s)[s].valid
         /\ s \notin x => Copy(Ilock(t, s)[s], dino[t[s].inum])
<1>1. t[s].inum \in Inums /\ dino[t[s].inum] \in DInode /\ t \in [Slots -> Entry]
  BY DEF Sound
<1>2. CASE t[s].valid
  <2>1. Ilock(t, s) = t
    BY <1>2 DEF Ilock
  <2>2. \A u \in Slots : t[u].valid => t[u].ref > 0
    BY Empty DEF Sound, Entry
  <2> QED BY <2>1, <2>2, <1>2 DEF Sound, Same
<1>3. CASE ~t[s].valid
  <2> DEFINE r == Read(t[s], dino[t[s].inum])
  <2>1. Ilock(t, s) = [t EXCEPT ![s] = r]
    BY <1>3 DEF Ilock
  <2>2. /\ r \in Entry /\ r.valid /\ r.ref = t[s].ref /\ r.inum = t[s].inum
        /\ Copy(r, dino[t[s].inum])
    BY <1>1 DEF Read, Entry, DInode, Copy
  <2> HIDE DEF r
  <2>3. Same(t, Ilock(t, s))
    <3>1. \A u \in Slots : t[u].valid => t[u].ref > 0
      BY Empty DEF Sound, Entry
    <3> QED BY <3>1, <2>1, <2>2, <1>1 DEF Same
  <2>4. \A u \in Slots \ {s} : Ilock(t, s)[u] = t[u]
    BY <2>1, <1>1
  <2>5. Ilock(t, s)[s] = r
    BY <2>1, <1>1
  <2>6. Sound(Ilock(t, s), dino, x \cup {})
    BY <2>2, <2>3, <2>4, <2>5, SoundSame
  <2>7. x \cup {} = x
    OBVIOUS
  <2> QED BY <2>2, <2>3, <2>4, <2>5, <2>6, <2>7
<1> QED BY <1>2, <1>3

\* iget
LEMMA IgetIs ==
  ASSUME NEW t, NEW d, NEW x, Sound(t, d, x), NEW i \in Inums, ~Full(t, i)
  PROVE  LET k == Slot(t, i) u == Iget(t, i) IN
         /\ k \in Slots /\ u \in [Slots -> Entry] /\ u[k].inum = i
         /\ \A s \in Slots \ {k} : u[s] = t[s]
         /\ \A s \in Slots : u[s].ref = t[s].ref + (IF s = k THEN 1 ELSE 0)
         /\ t[k].ref > 0 => t[k].inum = i /\ u[k] = [t[k] EXCEPT !.ref = t[k].ref + 1]
         /\ t[k].ref = 0 => /\ u[k] = [NoInode EXCEPT !.inum = i, !.ref = 1]
                            /\ \A s \in Slots : t[s].ref > 0 => t[s].inum # i
         /\ Sound(u, d, x)
<1> DEFINE k == Slot(t, i)
           u == Iget(t, i)
           empty == {s \in Slots : t[s].ref = 0}
<1>1. t \in [Slots -> Entry] /\ \A s \in Slots : t[s] \in Entry /\ t[s].ref \in Nat
  BY DEF Sound, Entry
<1>2. Has(t, i) \in SUBSET Nat /\ empty \in SUBSET Nat
  BY Numbers DEF Has
<1>3. CASE Has(t, i) # {}
  <2>1. k \in Has(t, i)
    BY <1>2, <1>3, Least DEF Slot
  <2>2. k \in Slots /\ t[k].ref > 0 /\ t[k].inum = i
    BY <2>1 DEF Has
  <2>3. u = [t EXCEPT ![k] = [t[k] EXCEPT !.ref = t[k].ref + 1]]
    BY <1>3, <1>1, <2>2 DEF Iget
  <2> HIDE DEF k, u
  <2>4. [t[k] EXCEPT !.ref = t[k].ref + 1] \in Entry
    BY <2>2, <1>1 DEF Entry
  <2>5. /\ \A s \in Slots \ {k} : u[s] = t[s]
        /\ u[k] = [t[k] EXCEPT !.ref = t[k].ref + 1]
        /\ u \in [Slots -> Entry]
    BY <2>2, <2>3, <2>4, <1>1
  <2>6. /\ u[k].ref = t[k].ref + 1 /\ u[k].inum = i /\ u[k].valid = t[k].valid
        /\ u[k].type = t[k].type /\ u[k].nlink = t[k].nlink /\ u[k].addrs = t[k].addrs
    BY <2>2, <2>5, <1>1 DEF Entry
  <2>7. /\ \A s \in Slots : /\ u[s].inum = t[s].inum /\ u[s].valid = t[s].valid
                            /\ Copy(u[s], d[u[s].inum]) <=> Copy(t[s], d[t[s].inum])
                            /\ u[s].ref > 0 <=> t[s].ref > 0
        /\ \A s \in Slots : u[s].ref = 0 => u[s] = t[s]
    <3>1. t[k].ref \in Nat /\ t[k].ref + 1 > 0 /\ t[k].ref + 1 # 0
      BY <2>2, <1>1
    <3>2. ASSUME NEW s \in Slots
          PROVE  /\ u[s].inum = t[s].inum /\ u[s].valid = t[s].valid
                 /\ Copy(u[s], d[u[s].inum]) <=> Copy(t[s], d[t[s].inum])
                 /\ u[s].ref > 0 <=> t[s].ref > 0
                 /\ u[s].ref = 0 => u[s] = t[s]
      <4>1. CASE s = k
        BY <4>1, <3>1, <2>6, <2>2 DEF Copy
      <4>2. CASE s # k
        BY <4>2, <2>5
      <4> QED BY <4>1, <4>2
    <3> QED BY <3>2
  <2>10. Sound(u, d, x)
    BY <2>5, <2>7 DEF Sound
  <2>8. \A s \in Slots : u[s].ref = t[s].ref + (IF s = k THEN 1 ELSE 0)
    <3> SUFFICES ASSUME NEW s \in Slots
                 PROVE  u[s].ref = t[s].ref + (IF s = k THEN 1 ELSE 0)
      OBVIOUS
    <3>1. t[s].ref \in Nat
      BY <1>1
    <3>2. CASE s = k
      BY <3>2, <2>6
    <3>3. CASE s # k
      BY <3>1, <3>3, <2>5
    <3> QED BY <3>2, <3>3
  <2>9. t[k].ref # 0
    BY <2>2, <1>1
  <2> QED BY <2>2, <2>5, <2>6, <2>10, <2>8, <2>9 DEF k, u
<1>4. CASE Has(t, i) = {}
  <2>1. k \in empty
    BY <1>2, <1>4, Least DEF Slot, Full
  <2>2. k \in Slots /\ t[k].ref = 0
    BY <2>1
  <2> DEFINE n == [NoInode EXCEPT !.inum = i, !.ref = 1]
  <2>3. u = [t EXCEPT ![k] = n]
    BY <1>4 DEF Iget
  <2>4. n \in Entry /\ n.inum = i /\ n.ref = 1 /\ ~n.valid
    BY DEF NoInode, Entry, Types0
  <2>5. \A s \in Slots : t[s].ref > 0 => t[s].inum # i
    BY <1>4 DEF Has
  <2> HIDE DEF k, u, n
  <2>6. /\ \A s \in Slots \ {k} : u[s] = t[s]
        /\ u[k] = n /\ u \in [Slots -> Entry]
    BY <2>2, <2>3, <2>4, <1>1
  <2>7. Sound(u, d, x)
    BY <2>2, <2>4, <2>5, <2>6, <1>1 DEF Sound
  <2>8. \A s \in Slots : u[s].ref = t[s].ref + (IF s = k THEN 1 ELSE 0)
    BY <2>2, <2>4, <2>6, <1>1
  <2> QED BY <2>2, <2>4, <2>5, <2>6, <2>7, <2>8 DEF k, u, n
<1> QED BY <1>3, <1>4

\* iupdate
LEMMA IupdateIs ==
  ASSUME NEW t, NEW d, NEW x, Sound(t, d, x), d \in [Inums -> DInode],
         NEW s \in Slots, t[s].ref > 0, t[s].type # "NONE"
  PROVE  LET e == Iupdate(d, t, s) i == t[s].inum IN
         /\ Sound(t, e, x \ {s}) /\ e \in [Inums -> DInode] /\ i \in Inums
         /\ \A j \in Inums \ {i} : e[j] = d[j]
         /\ e[i].ents = d[i].ents /\ Copy(t[s], e[i])
<1> DEFINE i == t[s].inum
           e == Iupdate(d, t, s)
<1>1. t \in [Slots -> Entry] /\ t[s] \in Entry /\ i \in Inums /\ d[i] \in DInode
  BY DEF Sound
<1>2. Stored(d[i], t[s]) \in DInode /\ Stored(d[i], t[s]).ents = d[i].ents
      /\ Copy(t[s], Stored(d[i], t[s]))
  BY <1>1 DEF Stored, Entry, DInode, Copy
<1>3. e = [d EXCEPT ![i] = Stored(d[i], t[s])]
  BY DEF Iupdate
<1> HIDE DEF e
<1>4. e \in [Inums -> DInode] /\ (\A j \in Inums \ {i} : e[j] = d[j]) /\ e[i] = Stored(d[i], t[s])
  BY <1>1, <1>2, <1>3
<1>5. \A u \in Slots : t[u].valid /\ u \notin x \ {s} => Copy(t[u], e[t[u].inum])
  <2> SUFFICES ASSUME NEW u \in Slots, t[u].valid, u \notin x \ {s}
               PROVE  Copy(t[u], e[t[u].inum])
    OBVIOUS
  <2>1. CASE u = s
    BY <2>1, <1>2, <1>4
  <2>2. CASE u # s
    <3>1. t[u].ref > 0
      BY <1>1, Empty DEF Sound, Entry
    <3>2. t[u].inum \in Inums \ {i} /\ Copy(t[u], d[t[u].inum])
      BY <3>1, <2>2 DEF Sound
    <3> QED BY <3>2, <1>4
  <2> QED BY <2>1, <2>2
<1>6. Sound(t, e, x \ {s})
  BY <1>5 DEF Sound
<1> QED BY <1>1, <1>2, <1>4, <1>6 DEF e

\* dirlink, and the end of sys_unlink
LEMMA EnterIs ==
  ASSUME NEW e \in [Inums -> DInode], NEW d \in Inums, NEW n \in Names, NEW i \in Inums \cup {0}
  PROVE  LET f == Enter(e, d, n, i) IN
         /\ f \in [Inums -> DInode]
         /\ \A j \in Inums \ {d} : f[j] = e[j]
         /\ f[d].type = e[d].type /\ f[d].nlink = e[d].nlink /\ f[d].addrs = e[d].addrs
         /\ f[d].ents = [e[d].ents EXCEPT ![n] = i]
         /\ \A t, x : Sound(t, e, x) => Sound(t, f, x)
<1> DEFINE f == Enter(e, d, n, i)
           g == [e[d].ents EXCEPT ![n] = i]
<1>1. e[d] \in DInode /\ e[d].ents \in [Names -> Inums \cup {0}]
  BY DEF DInode
<1>2. g \in [Names -> Inums \cup {0}]
  BY <1>1
<1>3. f = [e EXCEPT ![d] = [e[d] EXCEPT !.ents = g]]
  BY DEF Enter
<1> HIDE DEF f, g
<1>4. [e[d] EXCEPT !.ents = g] \in DInode
  BY <1>1, <1>2 DEF DInode
<1>5. /\ f \in [Inums -> DInode] /\ (\A j \in Inums \ {d} : f[j] = e[j])
      /\ f[d] = [e[d] EXCEPT !.ents = g]
  BY <1>3, <1>4
<1>6. f[d].type = e[d].type /\ f[d].nlink = e[d].nlink /\ f[d].addrs = e[d].addrs /\ f[d].ents = g
  BY <1>5, <1>1 DEF DInode
<1>7. \A j \in Inums : f[j].type = e[j].type /\ f[j].nlink = e[j].nlink /\ f[j].addrs = e[j].addrs
  BY <1>5, <1>6
<1>8. ASSUME NEW t, NEW x, Sound(t, e, x) PROVE Sound(t, f, x)
  <2>1. \A u \in Slots : t[u].valid => t[u].inum \in Inums
    <3> SUFFICES ASSUME NEW u \in Slots, t[u].valid PROVE t[u].inum \in Inums
      OBVIOUS
    <3>1. t[u].ref > 0
      BY <1>8, Empty DEF Sound, Entry
    <3> QED BY <3>1, <1>8 DEF Sound
  <2> QED BY <2>1, <1>7, <1>8 DEF Sound, Copy
<1> QED BY <1>5, <1>6, <1>8 DEF f, g

-----------------------------------------------------------------------------
(* References. *)

Bit(b) == IF b THEN 1 ELSE 0
Has1(F, T, C, p, s) == s \in F[p] \/ s \in ToSet(T[p]) \/ C[p].ip = s \/ C[p].dp = s
Ways(F, T, C, p, s) == Bit(s \in F[p]) + Bit(s \in ToSet(T[p])) + Bit(C[p].ip = s)
                       + Bit(C[p].dp = s)
Count(p, s) == Ways(fds, todo, call, p, s)

\* The step is one of p.
Others(p) == \A q \in Proc \ {p} :
    /\ pc'[q] = pc[q] /\ next'[q] = next[q] /\ call'[q] = call[q]
    /\ todo'[q] = todo[q] /\ fds'[q] = fds[q]

\* References come and go with what p has.
LEMMA RefsStep ==
  ASSUME NEW p \in Proc, Others(p), NEW s \in Slots
  PROVE  /\ Refs(s) \in Nat /\ Refs(s)' \in Nat
         /\ Refs(s)' = Refs(s) + Count(p, s)' - Count(p, s)
<1>1. /\ Cardinality({q \in Proc : s \in fds[q]}) \in Nat
      /\ Cardinality({q \in Proc : s \in fds[q]})' \in Nat
      /\ Cardinality({q \in Proc : s \in fds[q]})'
           = Cardinality({q \in Proc : s \in fds[q]}) + Bit(s \in fds[p])' - Bit(s \in fds[p])
  <2> DEFINE S == {q \in Proc : s \in fds[q]}
  <2>1. IsFiniteSet(S) /\ \A q : q # p => (q \in S <=> q \in S')
    BY FiniteProc DEF Others
  <2> QED BY <2>1, Counts DEF Bit
<1>2. /\ Cardinality({q \in Proc : s \in ToSet(todo[q])}) \in Nat
      /\ Cardinality({q \in Proc : s \in ToSet(todo[q])})' \in Nat
      /\ Cardinality({q \in Proc : s \in ToSet(todo[q])})'
           = Cardinality({q \in Proc : s \in ToSet(todo[q])})
             + Bit(s \in ToSet(todo[p]))' - Bit(s \in ToSet(todo[p]))
  <2> DEFINE S == {q \in Proc : s \in ToSet(todo[q])}
             T == {q \in Proc : s \in ToSet(todo'[q])}
  <2>1. IsFiniteSet(S) /\ \A q : q # p => (q \in S <=> q \in T)
    BY FiniteProc DEF Others
  <2>2. /\ p \in S <=> s \in ToSet(todo[p])
        /\ p \in T <=> s \in ToSet(todo'[p])
        /\ T = {q \in Proc : s \in ToSet(todo[q])}'
    OBVIOUS
  <2> HIDE DEF S, T
  <2>3. /\ Cardinality(S) \in Nat /\ Cardinality(T) \in Nat
        /\ Cardinality(T) = Cardinality(S) + Bit(p \in T) - Bit(p \in S)
    <3>1. /\ Cardinality(S) \in Nat /\ Cardinality(T) \in Nat
          /\ (p \in S <=> p \in T) => Cardinality(T) = Cardinality(S)
          /\ p \in S /\ p \notin T => Cardinality(T) = Cardinality(S) - 1
          /\ p \notin S /\ p \in T => Cardinality(T) = Cardinality(S) + 1
      BY <2>1, Counts
    <3> QED BY <3>1 DEF Bit
  <2> QED BY <2>2, <2>3 DEF S
<1>3. /\ Cardinality({q \in Proc : call[q].ip = s}) \in Nat
      /\ Cardinality({q \in Proc : call[q].ip = s})' \in Nat
      /\ Cardinality({q \in Proc : call[q].ip = s})'
           = Cardinality({q \in Proc : call[q].ip = s}) + Bit(call[p].ip = s)' - Bit(call[p].ip = s)
  <2> DEFINE S == {q \in Proc : call[q].ip = s}
  <2>1. IsFiniteSet(S) /\ \A q : q # p => (q \in S <=> q \in S')
    BY FiniteProc DEF Others
  <2> QED BY <2>1, Counts DEF Bit
<1>4. /\ Cardinality({q \in Proc : call[q].dp = s}) \in Nat
      /\ Cardinality({q \in Proc : call[q].dp = s})' \in Nat
      /\ Cardinality({q \in Proc : call[q].dp = s})'
           = Cardinality({q \in Proc : call[q].dp = s}) + Bit(call[p].dp = s)' - Bit(call[p].dp = s)
  <2> DEFINE S == {q \in Proc : call[q].dp = s}
  <2>1. IsFiniteSet(S) /\ \A q : q # p => (q \in S <=> q \in S')
    BY FiniteProc DEF Others
  <2> QED BY <2>1, Counts DEF Bit
<1>5. \A b : Bit(b) \in {0, 1}
  BY DEF Bit
<1> HIDE DEF Bit
<1> QED BY <1>1, <1>2, <1>3, <1>4, <1>5 DEF Refs, Sum, Count, Ways

\* An entry has references when someone has it, and at least as many as there
\* are ways and processes that have it.
LEMMA RefsAre ==
  ASSUME NEW F, NEW T, NEW C, NEW s
  PROVE  /\ Sum(F, T, C, s) \in Nat
         /\ \A p \in Proc : Has1(F, T, C, p, s) => Sum(F, T, C, s) >= 1
         /\ \A p \in Proc : Sum(F, T, C, s) >= Ways(F, T, C, p, s)
         /\ \A p, q \in Proc :
               Has1(F, T, C, p, s) /\ Has1(F, T, C, q, s) /\ Sum(F, T, C, s) = 1 => p = q
         /\ Sum(F, T, C, s) > 0 => \E p \in Proc : Has1(F, T, C, p, s)
<1> DEFINE A == {p \in Proc : s \in F[p]}
           B == {p \in Proc : s \in ToSet(T[p])}
           D == {p \in Proc : C[p].ip = s}
           E == {p \in Proc : C[p].dp = s}
<1>1. /\ IsFiniteSet(A) /\ IsFiniteSet(B) /\ IsFiniteSet(D) /\ IsFiniteSet(E)
      /\ Cardinality(A) \in Nat /\ Cardinality(B) \in Nat
      /\ Cardinality(D) \in Nat /\ Cardinality(E) \in Nat
  BY FiniteProc
<1>2. Sum(F, T, C, s) = Cardinality(A) + Cardinality(B) + Cardinality(D) + Cardinality(E)
  BY DEF Sum
<1>3. \A p \in Proc : Has1(F, T, C, p, s) <=> p \in (A \cup B) \cup (D \cup E)
  BY DEF Has1
<1>4. \A p \in Proc : Ways(F, T, C, p, s) = Bit(p \in A) + Bit(p \in B) + Bit(p \in D) + Bit(p \in E)
  BY DEF Ways
<1> HIDE DEF A, B, D, E
<1>5. IsFiniteSet(A \cup B) /\ IsFiniteSet(D \cup E)
  BY <1>1, FS_Union
<1>6. /\ IsFiniteSet((A \cup B) \cup (D \cup E))
      /\ Cardinality((A \cup B) \cup (D \cup E)) \in Nat
      /\ Cardinality((A \cup B) \cup (D \cup E))
           <= Cardinality(A) + Cardinality(B) + Cardinality(D) + Cardinality(E)
  <2>1. /\ Cardinality(A \cup B) = Cardinality(A) + Cardinality(B) - Cardinality(A \cap B)
        /\ Cardinality(D \cup E) = Cardinality(D) + Cardinality(E) - Cardinality(D \cap E)
        /\ Cardinality((A \cup B) \cup (D \cup E)) = Cardinality(A \cup B) + Cardinality(D \cup E)
             - Cardinality((A \cup B) \cap (D \cup E))
    BY <1>1, <1>5, FS_Union
  <2>2. /\ Cardinality(A \cap B) \in Nat /\ Cardinality(D \cap E) \in Nat
        /\ Cardinality((A \cup B) \cap (D \cup E)) \in Nat
        /\ Cardinality((A \cup B) \cup (D \cup E)) \in Nat
        /\ IsFiniteSet((A \cup B) \cup (D \cup E))
    BY <1>1, <1>5, FS_Intersection, FS_Union, FS_CardinalityType
  <2>3. Cardinality(A \cup B) \in Nat /\ Cardinality(D \cup E) \in Nat
    BY <1>5, FS_CardinalityType
  <2> QED BY <2>1, <2>2, <2>3, <1>1
<1>7. \A p \in (A \cup B) \cup (D \cup E) : Cardinality((A \cup B) \cup (D \cup E)) >= 1
  <2> SUFFICES ASSUME NEW p \in (A \cup B) \cup (D \cup E)
               PROVE  Cardinality((A \cup B) \cup (D \cup E)) >= 1
    OBVIOUS
  <2>1. Cardinality((A \cup B) \cup (D \cup E)) # 0
    BY <1>6, FS_EmptySet
  <2> QED BY <2>1, <1>6
<1>8. ASSUME NEW p \in (A \cup B) \cup (D \cup E), NEW q \in (A \cup B) \cup (D \cup E), p # q
      PROVE  Cardinality((A \cup B) \cup (D \cup E)) >= 2
  <2> DEFINE U == (A \cup B) \cup (D \cup E)
  <2>1. /\ Cardinality(U \ {p}) = Cardinality(U) - 1 /\ IsFiniteSet(U \ {p})
        /\ Cardinality(U \ {p}) \in Nat
    BY <1>6, FS_RemoveElement, FS_CardinalityType
  <2>2. Cardinality(U \ {p}) # 0
    BY <1>8, <2>1, FS_EmptySet
  <2> QED BY <2>1, <2>2, <1>6
<1>9. ASSUME NEW S, IsFiniteSet(S), NEW p PROVE Bit(p \in S) <= Cardinality(S) /\ Bit(p \in S) \in Nat
  BY <1>9, FS_EmptySet, FS_CardinalityType DEF Bit
<1>10. \A p \in Proc : Ways(F, T, C, p, s) <= Sum(F, T, C, s)
  <2> SUFFICES ASSUME NEW p \in Proc PROVE Ways(F, T, C, p, s) <= Sum(F, T, C, s)
    OBVIOUS
  <2>1. /\ Bit(p \in A) <= Cardinality(A) /\ Bit(p \in B) <= Cardinality(B)
        /\ Bit(p \in D) <= Cardinality(D) /\ Bit(p \in E) <= Cardinality(E)
        /\ Bit(p \in A) \in Nat /\ Bit(p \in B) \in Nat /\ Bit(p \in D) \in Nat /\ Bit(p \in E) \in Nat
    BY <1>1, <1>9
  <2> QED BY <2>1, <1>1, <1>2, <1>4
<1>11. ASSUME Sum(F, T, C, s) > 0 PROVE \E p \in Proc : Has1(F, T, C, p, s)
  <2>1. A # {} \/ B # {} \/ D # {} \/ E # {}
    BY <1>11, <1>2, FS_EmptySet
  <2>2. A \subseteq Proc /\ B \subseteq Proc /\ D \subseteq Proc /\ E \subseteq Proc
    BY DEF A, B, D, E
  <2> QED BY <2>1, <2>2, <1>3
<1>12. Sum(F, T, C, s) \in Nat /\ Cardinality((A \cup B) \cup (D \cup E)) <= Sum(F, T, C, s)
  BY <1>1, <1>2, <1>6
<1> HIDE DEF Has1, Ways, Sum
<1>13. \A p \in Proc : Has1(F, T, C, p, s) => Sum(F, T, C, s) >= 1
  <2> SUFFICES ASSUME NEW p \in Proc, Has1(F, T, C, p, s) PROVE Sum(F, T, C, s) >= 1
    OBVIOUS
  <2>1. p \in (A \cup B) \cup (D \cup E)
    BY <1>3
  <2>2. Cardinality((A \cup B) \cup (D \cup E)) >= 1
    BY <2>1, <1>7
  <2> QED BY <2>2, <1>6, <1>12
<1>14. \A p, q \in Proc : Has1(F, T, C, p, s) /\ Has1(F, T, C, q, s) /\ Sum(F, T, C, s) = 1 => p = q
  BY <1>3, <1>6, <1>8, <1>12
<1> QED BY <1>10, <1>11, <1>12, <1>13, <1>14

\* The reference count of an entry, from below by who has it: before the step,
\* ...
LEMMA RefsNow ==
  ASSUME Referenced, NEW s \in Slots
  PROVE  /\ it[s].ref \in Nat
         /\ \A p \in Proc : (Uses(p, s) => it[s].ref >= 1) /\ it[s].ref >= Count(p, s)
         /\ \A p, q \in Proc : Uses(p, s) /\ Uses(q, s) /\ it[s].ref = 1 => p = q
         /\ it[s].ref > 0 => \E p \in Proc : Uses(p, s)
<1>1. it[s].ref = Sum(fds, todo, call, s)
  BY DEF Referenced, Refs
<1>2. \A p \in Proc : Uses(p, s) <=> Has1(fds, todo, call, p, s)
  BY DEF Uses, Keeps, Has1
<1> QED BY <1>1, <1>2, RefsAre DEF Count

\* ... and after it.
LEMMA RefsNext ==
  ASSUME Referenced', NEW s \in Slots
  PROVE  /\ it'[s].ref \in Nat
         /\ \A p \in Proc : Uses(p, s)' => it'[s].ref >= 1
         /\ it'[s].ref > 0 => \E p \in Proc : Uses(p, s)'
<1>1. it'[s].ref = Sum(fds', todo', call', s)
  BY DEF Referenced, Refs, Sum
<1>2. \A p \in Proc : Uses(p, s)' <=> Has1(fds', todo', call', p, s)
  BY DEF Uses, Keeps, Has1
<1> QED BY <1>1, <1>2, RefsAre

-----------------------------------------------------------------------------
(* What a step of p leaves to the others. *)

Mine(p, u) == Uses(p, u) /\ ~Drops(p, u) /\ lock[u] \in {p, Nobody}

\* p frees the inode that only it has.
Frees(p, u) == it[u].ref = 1 /\ Uses(p, u) /\ Drops(p, u)'
\* p allocates the inode i.
Allots(p, i) ==
    /\ dino[i].type = "NONE" /\ pc'[p] = "fresh"
    /\ call'[p].ip \in Slots /\ it'[call'[p].ip].inum = i
    /\ dino'[i] = [FreeInode EXCEPT !.type = Type(call'[p].op)]
Guar(p) ==
    /\ \A u \in Slots : it[u].ref > 0 /\ it'[u].ref > 0 =>
          /\ it'[u].inum = it[u].inum
          /\ it[u].valid => it'[u].valid \/ (pc[p] = "invalid" /\ u = Head(todo[p]))
    /\ \A i \in Inums : \/ dino'[i] = dino[i]
                        \/ \E u \in Slots : /\ it[u].inum = i /\ Mine(p, u)
                                            /\ dino'[i].type = dino[i].type \/ Frees(p, u)
                        \/ Allots(p, i)
    /\ \A u \in Slots : /\ Uses(p, u)' => \/ Uses(p, u)
                                          \/ dino[it'[u].inum].nlink >= 1
                                          \/ Allots(p, it'[u].inum) /\ u = call'[p].ip
                        /\ Drops(p, u) /\ Uses(p, u)' => Drops(p, u)'
    /\ pc[p] = "fresh" => lock[call[p].ip] = Nobody

\* What the others may rely on.
LEMMA Rely ==
  ASSUME Types, Placed, Locked, Referenced, Table, Free, Holding,
         Referenced', Table', NEW p \in Proc, Others(p), Guar(p),
         NEW q \in Proc \ {p}
  PROVE  Held(q)'
<1>1. /\ pc'[q] = pc[q] /\ next'[q] = next[q] /\ call'[q] = call[q] /\ todo'[q] = todo[q]
      /\ fds'[q] = fds[q] /\ At(q)' = At(q)
  BY DEF Others, At
<1>2. ASSUME NEW s \in Slots, Uses(q, s)
      PROVE  /\ it[s].ref > 0 /\ it'[s].ref > 0 /\ it[s].inum \in Inums
             /\ it'[s].inum = it[s].inum
             /\ \A u \in Slots : it[u].ref > 0 /\ it[u].inum = it[s].inum => u = s
             /\ it[s].valid /\ ~(pc[p] = "invalid" /\ s = Head(todo[p])) => it'[s].valid
  <2>1. Uses(q, s)'
    BY <1>1, <1>2 DEF Uses, Keeps
  <2>2. it[s].ref > 0 /\ it'[s].ref > 0
    BY <2>1, <1>2, RefsNow, RefsNext
  <2> QED BY <2>2 DEF Guar, Table, Sound
<1>3. \A s \in Slots : Mine(p, s) => it[s].ref > 0
  BY RefsNow DEF Mine
<1>4. \A s \in Slots : Uses(q, s) /\ Disk(s).type # "NONE" /\ Disk(s)' # Disk(s) =>
          Mine(p, s) /\ (Disk(s)'.type = Disk(s).type \/ Frees(p, s))
  BY <1>2, <1>3 DEF Guar, Disk, Allots
<1>5. \A s \in Slots : Uses(q, s) /\ Disk(s).type # "NONE" => Disk(s)'.type = Disk(s).type
  BY <1>4, RefsNow DEF Frees
<1>6. \A s \in Slots : lock[s] = q => Uses(q, s) /\ ~Mine(p, s)
  <2> SUFFICES ASSUME NEW s \in Slots, lock[s] = q PROVE Uses(q, s) /\ ~Mine(p, s)
    OBVIOUS
  <2>1. HasLock(q, s)
    BY DEF Locked
  <2>2. Uses(q, s)
    BY <2>1, Popped DEF HasLock, Uses, Keeps, Types, Placed, Place, Putting
  <2> QED BY <2>2, InodeConstants DEF Mine
<1>7. \A s \in Slots : lock[s] = q /\ Disk(s).type # "NONE" => Disk(s)' = Disk(s)
  BY <1>4, <1>6
<1>8. call[q] \in Call1 /\ call[q].ip \in Slots \cup {0} /\ call[q].dp \in Slots \cup {0}
  BY DEF Types, Call1
<1>9. Held(q) /\ Place(q)
  BY DEF Holding, Placed
<1>10. ASSUME pc[q] = "invalid" PROVE Freeing(q)'
  <2>0. PICK s \in Slots : s = Head(todo[q]) /\ s \in ToSet(todo[q])
    BY <1>9, <1>10, Popped DEF Types, Place, Putting
  <2>1. Uses(q, s) /\ lock[s] = q
    BY <2>0, <1>10 DEF Uses, Locked, HasLock
  <2>2. Freeing(q)
    BY <1>9, <1>10 DEF Held
  <2>3. Disk(s).nlink = 0 /\ ~Keeps(q, s)
        /\ \A r \in Proc \ {q} : Uses(r, s) => pc[r] = "fresh" /\ call[r].ip = s
    BY <2>0, <2>2 DEF Freeing
  <2>4. Disk(s)'.nlink = 0
    <3>1. Disk(s)' = Disk(s) \/ Allots(p, it[s].inum)
      BY <2>1, <1>2, <1>3, <1>6 DEF Guar, Disk
    <3>2. Allots(p, it[s].inum) => Disk(s)'.nlink = 0
      BY <2>1, <1>2 DEF Allots, Disk, FreeInode
    <3> QED BY <3>1, <3>2, <2>3
  <2>5. ~Keeps(q, s)'
    BY <2>3, <1>1 DEF Keeps
  <2>6. ASSUME NEW r \in Proc \ {q}, Uses(r, s)' PROVE pc'[r] = "fresh" /\ call'[r].ip = s
    <3>1. CASE r # p
      <4>1. Uses(r, s) /\ pc'[r] = pc[r] /\ call'[r] = call[r]
        BY <2>6, <3>1 DEF Others, Uses, Keeps
      <4> QED BY <4>1, <2>3
    <3>2. CASE r = p /\ Uses(p, s)
      <4>1. pc[p] = "fresh" /\ call[p].ip = s
        BY <2>3, <3>2, <2>6
      <4> QED BY <4>1, <2>1, InodeConstants DEF Guar
    <3>3. CASE r = p /\ ~Uses(p, s)
      <4>1. it'[s].inum = it[s].inum /\ ~(dino[it[s].inum].nlink >= 1)
        BY <2>1, <2>3, <1>2 DEF Disk
      <4>2. Allots(p, it[s].inum) /\ s = call'[p].ip
        BY <4>1, <2>1, <2>6, <3>3 DEF Guar
      <4> QED BY <4>2, <3>3 DEF Allots
    <3> QED BY <3>1, <3>2, <3>3
  <2> QED BY <2>0, <2>4, <2>5, <2>6, <1>1 DEF Freeing
<1>11. ASSUME pc[q] = "fresh" PROVE Making(q)'
  <2>1. Making(q) /\ At(q) = "fresh"
    BY <1>9, <1>11 DEF Held, At, Putting
  <2>0. PICK s \in Slots, d \in Slots : s = call[q].ip /\ d = call[q].dp
    BY <1>8, <1>9, <2>1 DEF Place
  <2>2. Uses(q, s) /\ Uses(q, d) /\ lock[d] = q
    BY <2>0, <1>11 DEF Uses, Keeps, Locked, HasLock
  <2>3. /\ Disk(s) = [FreeInode EXCEPT !.type = Type(call[q].op)]
        /\ \A r \in Proc \ {q} : Uses(r, s) => Drops(r, s)
        /\ s # d /\ s \notin fds[q]
        /\ Disk(d).type = "DIR" /\ Disk(d).ents[Name(q)] = 0
    BY <2>0, <2>1 DEF Making
  <2>4. Disk(s).type # "NONE" /\ Disk(s).nlink = 0
    BY <2>3 DEF Type, FreeInode
  <2>5. Disk(s)' = Disk(s) /\ Disk(d)' = Disk(d)
    <3>1. ~Mine(p, s)
      BY <2>3 DEF Mine
    <3> QED BY <3>1, <2>2, <2>3, <2>4, <1>4, <1>7
  <2>6. ASSUME NEW r \in Proc \ {q}, Uses(r, s)' PROVE Drops(r, s)'
    <3>1. CASE r # p
      <4>1. Uses(r, s) /\ (Drops(r, s)' <=> Drops(r, s))
        BY <2>6, <3>1 DEF Others, Uses, Keeps, Drops
      <4> QED BY <4>1, <2>3
    <3>2. CASE r = p /\ Uses(p, s)
      BY <2>2, <2>3, <2>6, <3>2 DEF Guar
    <3>3. CASE r = p /\ ~Uses(p, s)
      <4>1. it'[s].inum = it[s].inum /\ ~(dino[it[s].inum].nlink >= 1)
        BY <2>2, <2>4, <1>2 DEF Disk
      <4>2. Allots(p, it[s].inum)
        BY <4>1, <2>2, <2>6, <3>3 DEF Guar
      <4> QED BY <4>2, <2>4 DEF Allots, Disk
    <3> QED BY <3>1, <3>2, <3>3
  <2>7. Name(q)' = Name(q)
    BY <1>1 DEF Name
  <2> QED BY <2>0, <2>3, <2>5, <2>6, <2>7, <1>1 DEF Making
<1>12. ASSUME pc[q] = "remove" PROVE Removing(q)'
  <2>1. Removing(q) /\ At(q) = "remove"
    BY <1>9, <1>12 DEF Held, At, Putting
  <2>2. /\ call[q].ip \in Slots /\ call[q].dp \in Slots
        /\ Uses(q, call[q].ip) /\ lock[call[q].dp] = q
    BY <1>8, <1>9, <1>12, <2>1 DEF Place, Uses, Keeps, Locked, HasLock
  <2>3. Disk(call[q].dp)' = Disk(call[q].dp) /\ it'[call[q].ip].inum = it[call[q].ip].inum
    BY <2>1, <2>2, <1>1, <1>2, <1>7 DEF Removing
  <2>4. Name(q)' = Name(q)
    BY <1>1 DEF Name
  <2> QED BY <2>1, <2>3, <2>4, <1>1 DEF Removing
<1>13. ASSUME At(q) \in {"create", "mkdir", "unlink", "link2"}
       PROVE  (Disk(call[q].ip).type = "DIR")'
  <2>1. call[q].ip \in Slots /\ Uses(q, call[q].ip) /\ Disk(call[q].ip).type = "DIR"
    BY <1>8, <1>9, <1>13 DEF Place, Held, Uses, Keeps
  <2> QED BY <2>1, <1>1, <1>5
<1>14. ASSUME call[q].op = "link2" PROVE (Disk(call[q].dp).type = "FILE")'
  <2>1. call[q].dp \in Slots /\ Uses(q, call[q].dp) /\ Disk(call[q].dp).type = "FILE"
    BY <1>8, <1>9, <1>14 DEF Place, Held, Uses, Keeps
  <2> QED BY <2>1, <1>1, <1>5
<1>15. ASSUME NEW s \in Slots, Keeps(q, s), it[s].valid,
              call[q].dp = s \/ s \in fds[q]
       PROVE  it'[s].valid
  <2>1. Uses(q, s)
    BY <1>15 DEF Uses
  <2>2. ~(pc[p] = "invalid" /\ s = Head(todo[p]))
    <3> SUFFICES ASSUME pc[p] = "invalid", s = Head(todo[p]) PROVE FALSE
      OBVIOUS
    <3>1. Freeing(p)
      BY DEF Holding, Held
    <3>2. pc[q] = "fresh" /\ call[q].ip = s
      BY <3>1, <2>1 DEF Freeing
    <3> QED BY <3>2, <1>9, <1>15 DEF Held, Making
  <2> QED BY <2>1, <2>2, <1>2, <1>15
<1>16. call[q].dp # 0 => it'[call[q].dp].valid
  BY <1>8, <1>9, <1>15 DEF Held, Keeps
<1>17. \A s \in fds[q] : it'[s].valid
  BY <1>9, <1>15 DEF Held, Keeps, Types
<1> QED BY <1>1, <1>10, <1>11, <1>12, <1>13, <1>14, <1>16, <1>17 DEF Held

\* References stay right when p's do.
LEMMA RefsKept ==
  ASSUME Referenced, NEW p \in Proc, Others(p),
         \A s \in Slots : it'[s].ref = it[s].ref + Count(p, s)' - Count(p, s)
  PROVE  Referenced'
<1>1. \A s \in Slots : it'[s].ref = Refs(s)'
  BY RefsStep DEF Referenced
<1> QED BY <1>1 DEF Referenced

\* The parts of the invariant that a step of p leaves true, if it does so with
\* what p has.
LEMMA StepIs ==
  ASSUME Types, Placed, Locked, Referenced, Table, Free, Holding,
         NEW p \in Proc, Others(p), Types', Table', Guar(p), Place(p)', Held(p)',
         \A s \in Slots : it'[s].ref = it[s].ref + Count(p, s)' - Count(p, s),
         \A s \in Slots : lock'[s] = p <=> HasLock(p, s)',
         \A s \in Slots, q \in Proc \ {p} : lock'[s] = q <=> lock[s] = q
  PROVE  /\ Placed' /\ Locked' /\ Referenced' /\ Holding'
         /\ \A s \in Slots, q \in Proc : Uses(q, s)' /\ Disk(s)'.type = "NONE" => Drops(q, s)'
<1>1. Placed'
  <2>1. ASSUME NEW q \in Proc \ {p} PROVE Place(q)'
    BY DEF Placed, Place, Others, At
  <2> QED BY <2>1 DEF Placed
<1>2. Locked'
  <2>1. ASSUME NEW q \in Proc \ {p}, NEW s \in Slots PROVE HasLock(q, s)' <=> HasLock(q, s)
    BY DEF HasLock, Others
  <2> QED BY <2>1 DEF Locked
<1>3. Referenced'
  BY RefsKept
<1>4. Holding'
  <2>1. \A q \in Proc \ {p} : Held(q)'
    BY <1>3, Rely
  <2> QED BY <2>1 DEF Holding
<1>5. ASSUME NEW s \in Slots, NEW q \in Proc, Uses(q, s)', Disk(s)'.type = "NONE"
      PROVE  Drops(q, s)'
  <2>1. it'[s].ref > 0 /\ it'[s].inum \in Inums
    BY <1>3, <1>5, RefsNext DEF Table, Sound
  <2>2. \A r \in Proc \ {p} : (Uses(r, s)' <=> Uses(r, s)) /\ (Drops(r, s)' <=> Drops(r, s))
    BY DEF Others, Uses, Keeps, Drops
  <2>3. \A i \in Inums : Allots(p, i) => dino'[i].type # "NONE"
    BY DEF Allots, Type, FreeInode
  <2>4. Disk(s)'.type = dino'[it'[s].inum].type
    BY DEF Disk
  <2>5. CASE dino[it'[s].inum].type # "NONE"
    <3>1. PICK u \in Slots : it[u].inum = it'[s].inum /\ Frees(p, u)
      BY <2>1, <2>3, <2>4, <2>5, <1>5 DEF Guar
    <3>2. Uses(p, u) /\ it[u].ref = 1 /\ Drops(p, u)'
      BY <3>1 DEF Frees
    <3>3. Uses(p, u)' /\ u \in Slots /\ it'[u].ref > 0
      <4>1. Uses(p, u)'
        BY <3>2, <1>1, Popped DEF Drops, Uses, Keeps, Placed, Place, Types, Putting
      <4> QED BY <4>1, <1>3, RefsNext
    <3>4. it'[u].inum = it[u].inum
      BY <3>2, <3>3 DEF Guar
    <3>5. u = s
      BY <2>1, <3>1, <3>3, <3>4 DEF Table, Sound
    <3>6. q = p
      BY <3>2, <3>5, <2>2, <1>5, RefsNow
    <3> QED BY <3>2, <3>5, <3>6
  <2>6. CASE dino[it'[s].inum].type = "NONE"
    <3>1. dino[it'[s].inum].nlink = 0
      BY <2>1, <2>6 DEF Free, FreeInode
    <3>2. Uses(p, s)' => Uses(p, s)
      <4>1. ~(dino[it'[s].inum].nlink >= 1)
        BY <3>1
      <4>2. ~Allots(p, it'[s].inum)
        BY <2>1, <2>3, <2>4, <1>5
      <4> QED BY <4>1, <4>2 DEF Guar
    <3>3. Uses(q, s)
      BY <3>2, <2>2, <1>5
    <3>4. it'[s].inum = it[s].inum
      BY <2>1, <3>3, RefsNow DEF Guar
    <3>5. Drops(q, s)
      BY <3>3, <3>4, <2>6 DEF Free, Disk
    <3> QED BY <3>5, <2>2, <1>5 DEF Guar
  <2> QED BY <2>5, <2>6
<1> QED BY <1>1, <1>2, <1>3, <1>4, <1>5

-----------------------------------------------------------------------------
(* Links. *)

\* Links can be counted.
LEMMA LinkSets ==
  ASSUME NEW i
  PROVE  /\ IsFiniteSet(Entries(i)) /\ IsFiniteSet(SubDirs(i)) /\ IsFiniteSet(Promised(i))
         /\ Links(i) \in Nat
         /\ Entries(i) # {} => Links(i) >= 1
         /\ Links(ROOTINO) >= 1
<1>1. IsFiniteSet(Inums \X Names)
  <2>1. IsFiniteSet(Inums) /\ IsFiniteSet(Names)
    BY FS_Interval, InodeConstants DEF Inums
  <2> QED BY <2>1, FS_Product
<1>2. IsFiniteSet(Entries(i)) /\ IsFiniteSet(SubDirs(i)) /\ IsFiniteSet(Promised(i))
  BY <1>1, FS_Subset, InodeConstants DEF Entries, SubDirs, Promised
<1>3. /\ Cardinality(Entries(i)) \in Nat /\ Cardinality(SubDirs(i)) \in Nat
      /\ Cardinality(Promised(i)) \in Nat
      /\ Entries(i) # {} => Cardinality(Entries(i)) # 0
  BY <1>2, FS_CardinalityType, FS_EmptySet
<1>4. Links(ROOTINO) >= 1
  <2>1. IsFiniteSet(Entries(ROOTINO)) /\ IsFiniteSet(SubDirs(ROOTINO)) /\ IsFiniteSet(Promised(ROOTINO))
    BY <1>1, FS_Subset, InodeConstants DEF Entries, SubDirs, Promised
  <2>2. /\ Cardinality(Entries(ROOTINO)) \in Nat /\ Cardinality(SubDirs(ROOTINO)) \in Nat
        /\ Cardinality(Promised(ROOTINO)) \in Nat
    BY <2>1, FS_CardinalityType
  <2> QED BY <2>2 DEF Links, IsRoot
<1> QED BY <1>2, <1>3, <1>4 DEF Links, IsRoot

\* A named inode has links.
LEMMA Named ==
  ASSUME Types, Linked
  PROVE  /\ dino[ROOTINO].nlink >= 1
         /\ \A d \in Inums, n \in Names : LET i == dino[d].ents[n] IN
               i # 0 => i \in Inums /\ dino[i].nlink >= 1
<1>1. \A i \in Inums : dino[i].nlink \in Nat /\ dino[i].nlink >= Links(i) /\ Links(i) \in Nat
  BY LinkSets DEF Types, DInode, Linked
<1>2. dino[ROOTINO].nlink >= 1
  BY <1>1, LinkSets, Numbers
<1>3. ASSUME NEW d \in Inums, NEW n \in Names, dino[d].ents[n] # 0
      PROVE  dino[d].ents[n] \in Inums /\ dino[dino[d].ents[n]].nlink >= 1
  <2>1. dino[d].ents[n] \in Inums
    BY <1>3 DEF Types, DInode
  <2>2. <<d, n>> \in Entries(dino[d].ents[n])
    BY DEF Entries
  <2>3. Links(dino[d].ents[n]) >= 1
    BY <2>2, LinkSets
  <2> QED BY <2>1, <2>3, <1>1
<1> QED BY <1>2, <1>3

Promises(p, i) == call[p].op = "link2" /\ it[call[p].dp].inum = i
Leads(d, n)    == dino[d].ents[n] # 0 /\ dino[dino[d].ents[n]].type = "DIR"

\* The entries of the table that are in use keep their inodes.
Stays == \A u \in Slots : it[u].ref > 0 /\ it'[u].ref > 0 => it'[u].inum = it[u].inum

\* The promises of sys_link change with p's alone.
LEMMA PromisedStep ==
  ASSUME Types, Placed, Referenced, Referenced', NEW p \in Proc, Others(p), Stays, NEW i
  PROVE  /\ Cardinality(Promised(i)) \in Nat /\ Cardinality(Promised(i)') \in Nat
         /\ Cardinality(Promised(i)') = Cardinality(Promised(i))
              + (Bit(Promises(p, i)') - Bit(Promises(p, i)))
<1> DEFINE S == Promised(i)
           T == Promised(i)'
<1>1. IsFiniteSet(S)
  BY LinkSets
<1>2. \A q \in Proc : (q \in S <=> Promises(q, i)) /\ (q \in T <=> Promises(q, i)')
  BY DEF Promised, Promises
<1>3. ASSUME NEW q \in Proc, q # p PROVE Promises(q, i) <=> Promises(q, i)'
  <2>1. call'[q] = call[q] /\ fds'[q] = fds[q] /\ todo'[q] = todo[q]
    BY <1>3 DEF Others
  <2>2. CASE call[q].op # "link2"
    BY <2>1, <2>2 DEF Promises
  <2>3. CASE call[q].op = "link2"
    <3>1. call[q].dp \in Slots
      BY <2>3 DEF Placed, Place, Types, Call1
    <3>2. Uses(q, call[q].dp) /\ Uses(q, call[q].dp)'
      BY <2>1 DEF Uses, Keeps
    <3>3. it[call[q].dp].ref > 0 /\ it'[call[q].dp].ref > 0
      BY <2>1, <3>1, <3>2, RefsNow, RefsNext
    <3>4. it'[call[q].dp].inum = it[call[q].dp].inum
      BY <3>1, <3>3 DEF Stays
    <3> QED BY <2>1, <3>4 DEF Promises
  <2> QED BY <2>2, <2>3
<1>4. \A q : q # p => (q \in S <=> q \in T)
  <2>1. \A q : q \in S \/ q \in T => q \in Proc
    BY DEF Promised
  <2> QED BY <2>1, <1>2, <1>3
<1>5. (p \in S <=> Promises(p, i)) /\ (p \in T <=> Promises(p, i)')
  BY <1>2
<1> HIDE DEF S, T
<1>6. /\ Cardinality(S) \in Nat /\ Cardinality(T) \in Nat
      /\ (p \in S <=> p \in T) => Cardinality(T) = Cardinality(S)
      /\ p \in S /\ p \notin T => Cardinality(T) = Cardinality(S) - 1
      /\ p \notin S /\ p \in T => Cardinality(T) = Cardinality(S) + 1
  BY <1>1, <1>4, Counts
<1>7. Cardinality(T) = Cardinality(S) + (Bit(Promises(p, i)') - Bit(Promises(p, i)))
  BY <1>5, <1>6 DEF Bit
<1> QED BY <1>6, <1>7 DEF S, T

\* One entry changes, of the directory d0, and the promises of p.
LEMMA LinksStep ==
  ASSUME Types, Placed, Referenced, Referenced', NEW p \in Proc, Others(p), Stays,
         NEW d0 \in Inums, NEW n0 \in Names,
         \A d \in Inums, n \in Names :
            <<d, n>> # <<d0, n0>> => /\ dino'[d].ents[n] = dino[d].ents[n]
                                     /\ Leads(d, n)' <=> Leads(d, n),
         NEW i \in Inums
  PROVE  Links(i)' = Links(i)
           + (Bit(dino'[d0].ents[n0] = i) - Bit(dino[d0].ents[n0] = i))
           + (IF i = d0 THEN Bit(Leads(d0, n0)') - Bit(Leads(d0, n0)) ELSE 0)
           + (Bit(Promises(p, i)') - Bit(Promises(p, i)))
         /\ Links(i)' \in Nat
<1>1. /\ Cardinality(Entries(i)) \in Nat /\ Cardinality(Entries(i)') \in Nat
      /\ Cardinality(Entries(i)') = Cardinality(Entries(i))
           + (Bit(dino'[d0].ents[n0] = i) - Bit(dino[d0].ents[n0] = i))
  <2> DEFINE S == Entries(i)
             T == {e \in Inums \X Names : dino'[e[1]].ents[e[2]] = i}
             e0 == <<d0, n0>>
  <2>1. IsFiniteSet(S) /\ T = Entries(i)'
    BY LinkSets DEF Entries
  <2>2. ASSUME NEW e \in Inums \X Names, e # e0 PROVE e \in S <=> e \in T
    <3>1. dino'[e[1]].ents[e[2]] = dino[e[1]].ents[e[2]]
      BY <2>2
    <3> QED BY <3>1 DEF Entries
  <2>3. \A e : e # e0 => (e \in S <=> e \in T)
    BY <2>2 DEF Entries
  <2>4. /\ e0 \in S <=> dino[d0].ents[n0] = i
        /\ e0 \in T <=> dino'[d0].ents[n0] = i
    BY DEF Entries
  <2> HIDE DEF S, T, e0
  <2>5. /\ Cardinality(S) \in Nat /\ Cardinality(T) \in Nat
        /\ (e0 \in S <=> e0 \in T) => Cardinality(T) = Cardinality(S)
        /\ e0 \in S /\ e0 \notin T => Cardinality(T) = Cardinality(S) - 1
        /\ e0 \notin S /\ e0 \in T => Cardinality(T) = Cardinality(S) + 1
    BY <2>1, <2>3, Counts
  <2>6. Cardinality(T) = Cardinality(S) + (Bit(e0 \in T) - Bit(e0 \in S))
    BY <2>5 DEF Bit
  <2> QED BY <2>1, <2>4, <2>5, <2>6 DEF S
<1>2. /\ Cardinality(SubDirs(i)) \in Nat /\ Cardinality(SubDirs(i)') \in Nat
      /\ Cardinality(SubDirs(i)') = Cardinality(SubDirs(i))
           + (IF i = d0 THEN Bit(Leads(d0, n0)') - Bit(Leads(d0, n0)) ELSE 0)
  <2> DEFINE S == SubDirs(i)
             T == SubDirs(i)'
  <2>1. IsFiniteSet(S)
    BY LinkSets
  <2>2. \A n \in Names : (n \in S <=> Leads(i, n)) /\ (n \in T <=> Leads(i, n)')
    BY DEF SubDirs, Leads
  <2>3. \A n : n # n0 \/ i # d0 => (n \in S <=> n \in T)
    <3>1. ASSUME NEW n \in Names, n # n0 \/ i # d0 PROVE n \in S <=> n \in T
      <4>1. <<i, n>> # <<d0, n0>>
        BY <3>1
      <4> QED BY <4>1, <2>2
    <3>2. \A n : n \in S \/ n \in T => n \in Names
      BY DEF SubDirs
    <3> QED BY <3>1, <3>2
  <2> HIDE DEF S, T
  <2>4. /\ Cardinality(S) \in Nat /\ Cardinality(T) \in Nat
        /\ (n0 \in S <=> n0 \in T) => Cardinality(T) = Cardinality(S)
        /\ n0 \in S /\ n0 \notin T => Cardinality(T) = Cardinality(S) - 1
        /\ n0 \notin S /\ n0 \in T => Cardinality(T) = Cardinality(S) + 1
    <3>1. \A n : n # n0 => (n \in S <=> n \in T)
      BY <2>3
    <3> QED BY <3>1, <2>1, Counts
  <2>5. Cardinality(T) = Cardinality(S)
           + (IF i = d0 THEN Bit(Leads(d0, n0)') - Bit(Leads(d0, n0)) ELSE 0)
    <3>1. CASE i = d0
      <4>1. (n0 \in S <=> Leads(d0, n0)) /\ (n0 \in T <=> Leads(d0, n0)')
        BY <2>2, <3>1
      <4> QED BY <4>1, <2>4, <3>1 DEF Bit
    <3>2. CASE i # d0
      BY <2>3, <2>4, <3>2
    <3> QED BY <3>1, <3>2
  <2> QED BY <2>4, <2>5 DEF S, T
<1>3. /\ Cardinality(Promised(i)) \in Nat /\ Cardinality(Promised(i)') \in Nat
      /\ Cardinality(Promised(i)') = Cardinality(Promised(i))
           + (Bit(Promises(p, i)') - Bit(Promises(p, i)))
  BY PromisedStep
<1>4. IsRoot(i) \in Nat
  BY DEF IsRoot
<1>5. ASSUME NEW b PROVE Bit(b) \in Int
  BY DEF Bit
<1>6. /\ Links(i) = Cardinality(Entries(i)) + Cardinality(SubDirs(i)) + Cardinality(Promised(i)) + IsRoot(i)
      /\ Links(i)' = Cardinality(Entries(i)') + Cardinality(SubDirs(i)') + Cardinality(Promised(i)') + IsRoot(i)
  BY DEF Links, IsRoot
<1>7. Links(i)' \in Nat
  BY <1>1, <1>2, <1>3, <1>4, <1>6
<1>8. /\ (Bit(dino'[d0].ents[n0] = i) - Bit(dino[d0].ents[n0] = i)) \in Int
      /\ (IF i = d0 THEN Bit(Leads(d0, n0)') - Bit(Leads(d0, n0)) ELSE 0) \in Int
      /\ (Bit(Promises(p, i)') - Bit(Promises(p, i))) \in Int
  <2>1. \A b : Bit(b) \in Int
    BY <1>5
  <2> HIDE DEF Bit
  <2> QED BY <2>1
<1> HIDE DEF Bit
<1>9. ASSUME NEW x \in Int, NEW y \in Int, NEW z \in Int, NEW e \in Nat, NEW f \in Nat, NEW g \in Nat,
             NEW h \in Nat
      PROVE  (e + x) + (f + y) + (g + z) + h = (e + f + g + h) + x + y + z
  BY <1>9
<1> QED BY <1>1, <1>2, <1>3, <1>4, <1>6, <1>7, <1>8, <1>9

\* No entry changes.
LEMMA SameTree ==
  ASSUME Types, Placed, Referenced, Referenced', NEW p \in Proc, Others(p), Stays,
         \A d \in Inums : dino'[d].ents = dino[d].ents,
         \A d \in Inums, n \in Names : Leads(d, n)' <=> Leads(d, n),
         NEW i \in Inums
  PROVE  Links(i)' = Links(i) + (Bit(Promises(p, i)') - Bit(Promises(p, i)))
         /\ Links(i)' \in Nat
<1>1. Entries(i)' = Entries(i)
  BY DEF Entries
<1>2. SubDirs(i)' = SubDirs(i)
  BY DEF SubDirs, Leads
<1>3. /\ Cardinality(Promised(i)) \in Nat /\ Cardinality(Promised(i)') \in Nat
      /\ Cardinality(Promised(i)') = Cardinality(Promised(i))
           + (Bit(Promises(p, i)') - Bit(Promises(p, i)))
  BY PromisedStep
<1>4. Cardinality(Entries(i)) \in Nat /\ Cardinality(SubDirs(i)) \in Nat /\ IsRoot(i) \in Nat
  BY LinkSets, FS_CardinalityType DEF IsRoot
<1>5. /\ Links(i) = Cardinality(Entries(i)) + Cardinality(SubDirs(i)) + Cardinality(Promised(i)) + IsRoot(i)
      /\ Links(i)' = Cardinality(Entries(i)') + Cardinality(SubDirs(i)') + Cardinality(Promised(i)') + IsRoot(i)
  BY DEF Links, IsRoot
<1>6. (Bit(Promises(p, i)') - Bit(Promises(p, i))) \in Int
  BY DEF Bit
<1> HIDE DEF Bit
<1> QED BY <1>1, <1>2, <1>3, <1>4, <1>5, <1>6

-----------------------------------------------------------------------------
(* Steps that leave the disk alone. *)

\* What p has after its step.
Local(p, a, ss, n, c, F) ==
    /\ pc'[p] = a /\ todo'[p] = ss /\ next'[p] = n /\ call'[p] = c /\ fds'[p] = F
    /\ Others(p)
    /\ pc' \in [Proc -> Places \cup Putting] /\ next' \in [Proc -> Later]
    /\ call' \in [Proc -> Call1] /\ todo' \in [Proc -> Seq(Slots)]
    /\ fds' \in [Proc -> SUBSET Slots]

\* The places where a process holds no lock.
Calm == (Places \ {"fresh", "remove"}) \cup {"put"}
DirPlaces == {"create", "mkdir", "unlink", "link2"}

\* A process has an inode when it has it in one way or another: in any state, ...
LEMMA WaysAre ==
  ASSUME NEW F, NEW T, NEW C, NEW p, NEW s
  PROVE  Ways(F, T, C, p, s) \in Nat /\ (Has1(F, T, C, p, s) <=> Ways(F, T, C, p, s) >= 1)
<1> DEFINE x == Bit(s \in F[p])
           y == Bit(s \in ToSet(T[p]))
           z == Bit(C[p].ip = s)
           w == Bit(C[p].dp = s)
<1>1. /\ x \in {0, 1} /\ (x = 1 <=> s \in F[p])
      /\ y \in {0, 1} /\ (y = 1 <=> s \in ToSet(T[p]))
      /\ z \in {0, 1} /\ (z = 1 <=> C[p].ip = s)
      /\ w \in {0, 1} /\ (w = 1 <=> C[p].dp = s)
  BY DEF Bit
<1>2. Ways(F, T, C, p, s) = x + y + z + w
  BY DEF Ways
<1> HIDE DEF x, y, z, w
<1>3. x + y + z + w \in Nat /\ (x + y + z + w >= 1 <=> x = 1 \/ y = 1 \/ z = 1 \/ w = 1)
  BY <1>1
<1> QED BY <1>1, <1>2, <1>3 DEF Has1

\* ... and in this one and the next.
LEMMA CountUses ==
  ASSUME NEW p, NEW s
  PROVE  /\ Count(p, s) \in Nat /\ (Uses(p, s) <=> Count(p, s) >= 1)
         /\ Count(p, s)' \in Nat /\ (Uses(p, s)' <=> Count(p, s)' >= 1)
<1>1. /\ Count(p, s) = Ways(fds, todo, call, p, s)
      /\ Count(p, s)' = Ways(fds', todo', call', p, s)
      /\ Uses(p, s) <=> Has1(fds, todo, call, p, s)
      /\ Uses(p, s)' <=> Has1(fds', todo', call', p, s)
  BY DEF Count, Uses, Keeps, Has1, Ways
<1> QED BY <1>1, WaysAre

\* At a place without lock, nothing is locked, freed or dropped by p.
LEMMA CalmIs ==
  ASSUME NEW p \in Proc, pc[p] \in Calm, NEW s
  PROVE  ~HasLock(p, s) /\ ~Drops(p, s) /\ pc[p] # "fresh" /\ pc[p] # "invalid"
BY DEF Calm, HasLock, Drops, Places, Later, Putting

\* No entry is new that leads to a directory.
LEMMA TreeKept ==
  ASSUME Tree,
         \A d \in Inums, n \in Names : LET i == dino'[d].ents[n] IN
            i # 0 /\ dino'[i].type = "DIR" => i = dino[d].ents[n] /\ dino[i].type = "DIR"
  PROVE  Tree'
<1>1. PICK r \in [Inums -> Nat] : Ranked(r)
  BY DEF Tree
<1>2. Ranked(r)'
  BY <1>1 DEF Ranked
<1> QED BY <1>2 DEF Tree

\* Entries are taken away, new directories have none, and p promises nothing new.
LEMMA Shrinks ==
  ASSUME Types, Placed, Tree, Linked, Referenced, Referenced', NEW p \in Proc, Others(p), Guar(p),
         dino' \in [Inums -> DInode],
         \A d \in Inums, n \in Names :
            dino'[d].ents[n] # 0 => dino'[d].ents[n] = dino[d].ents[n],
         \A d \in Inums : dino'[d].type = "DIR" => dino[d].type = "DIR" \/ Entries(d) = {},
         \A d \in Inums : dino'[d].nlink >= dino[d].nlink,
         call'[p].op = "link2" => call[p].op = "link2" /\ call'[p].dp = call[p].dp
  PROVE  Tree' /\ Linked'
<1>1. \A d \in Inums, n \in Names : LET i == dino'[d].ents[n] IN
          i # 0 /\ dino'[i].type = "DIR" =>
             i \in Inums /\ i = dino[d].ents[n] /\ dino[i].type = "DIR"
  <2> SUFFICES ASSUME NEW d \in Inums, NEW n \in Names, dino'[d].ents[n] # 0,
                      dino'[dino'[d].ents[n]].type = "DIR"
               PROVE  LET i == dino'[d].ents[n] IN
                      i \in Inums /\ i = dino[d].ents[n] /\ dino[i].type = "DIR"
    OBVIOUS
  <2>1. dino'[d].ents[n] = dino[d].ents[n] /\ dino[d].ents[n] \in Inums
    BY DEF Types, DInode
  <2>2. <<d, n>> \in Entries(dino[d].ents[n])
    BY DEF Entries
  <2> QED BY <2>1, <2>2
<1>2. Tree'
  BY <1>1, TreeKept
<1>3. ASSUME NEW i \in Inums PROVE dino'[i].nlink >= Links(i)'
  <2>1. /\ dino[i].nlink >= Links(i) /\ Links(i) \in Nat /\ dino[i].nlink \in Nat
        /\ dino'[i].nlink \in Nat
    BY LinkSets DEF Linked, Types, DInode
  <2>2. Entries(i)' \subseteq Entries(i)
    <3> SUFFICES ASSUME NEW e \in Inums \X Names, dino'[e[1]].ents[e[2]] = i
                 PROVE  dino[e[1]].ents[e[2]] = i
      BY DEF Entries
    <3>1. e[1] \in Inums /\ e[2] \in Names
      OBVIOUS
    <3> QED BY <3>1, Numbers
  <2>3. SubDirs(i)' \subseteq SubDirs(i)
    BY <1>1 DEF SubDirs
  <2>4. Promised(i)' \subseteq Promised(i)
    <3> SUFFICES ASSUME NEW q \in Proc, call'[q].op = "link2", it'[call'[q].dp].inum = i
                 PROVE  call[q].op = "link2" /\ it[call[q].dp].inum = i
      BY DEF Promised
    <3>1. call[q].op = "link2" /\ call'[q].dp = call[q].dp
      BY DEF Others
    <3>2. call[q].dp \in Slots
      BY <3>1 DEF Placed, Place, Types, Call1
    <3>3. Uses(q, call[q].dp) /\ Uses(q, call[q].dp)'
      BY <3>1 DEF Uses, Keeps
    <3>4. it[call[q].dp].ref > 0 /\ it'[call[q].dp].ref > 0
      BY <3>1, <3>2, <3>3, RefsNow, RefsNext
    <3> QED BY <3>1, <3>2, <3>4 DEF Guar
  <2>5. ASSUME NEW S, NEW T \in SUBSET S, IsFiniteSet(S)
        PROVE  Cardinality(T) <= Cardinality(S) /\ Cardinality(T) \in Nat /\ Cardinality(S) \in Nat
    BY <2>5, FS_Subset, FS_CardinalityType
  <2>6. IsFiniteSet(Entries(i)) /\ IsFiniteSet(SubDirs(i)) /\ IsFiniteSet(Promised(i))
    BY LinkSets
  <2>7. IsRoot(i) \in Nat
    BY DEF IsRoot
  <2>8. /\ Links(i) = Cardinality(Entries(i)) + Cardinality(SubDirs(i)) + Cardinality(Promised(i)) + IsRoot(i)
        /\ Links(i)' = Cardinality(Entries(i)') + Cardinality(SubDirs(i)') + Cardinality(Promised(i)') + IsRoot(i)
    BY DEF Links, IsRoot
  <2>9. Links(i)' <= Links(i) /\ Links(i)' \in Nat
    BY <2>2, <2>3, <2>4, <2>5, <2>6, <2>7, <2>8
  <2> QED BY <2>1, <2>9
<1> QED BY <1>2, <1>3 DEF Linked

\* Blocks stay with their inodes.
LEMMA SpaceKept ==
  ASSUME Types, Space, bitmap' = bitmap, \A i \in Inums : dino'[i].addrs = dino[i].addrs
  PROVE  Space'
<1>1. UNION {dino'[i].addrs : i \in Inums} = UNION {dino[i].addrs : i \in Inums}
  OBVIOUS
<1> QED BY <1>1 DEF Space

\* A step that leaves the disk alone keeps the invariant, if the table and what p
\* has are right after it.
LEMMA Quiet ==
  ASSUME IInv, NEW p \in Proc, NEW a, NEW ss, NEW n, NEW c, NEW F,
         Local(p, a, ss, n, c, F), UNCHANGED disk, panicked' = FALSE,
         Sound(it', dino, Freed'), lock' \in [Slots -> Proc \cup {Nobody}],
         \A s \in Slots : lock'[s] = p <=> HasLock(p, s)',
         \A s \in Slots, q \in Proc \ {p} : lock'[s] = q <=> lock[s] = q,
         Place(p)',
         \A s \in Slots : it'[s].ref = it[s].ref + Count(p, s)' - Count(p, s),
         \A s \in Slots : it[s].ref > 0 /\ it'[s].ref > 0 =>
            /\ it'[s].inum = it[s].inum
            /\ it[s].valid => it'[s].valid \/ (pc[p] = "invalid" /\ s = Head(todo[p])),
         \A s \in Slots : Uses(p, s)' => Uses(p, s) \/ dino[it'[s].inum].nlink >= 1,
         \A s \in Slots : Drops(p, s) /\ Uses(p, s)' => Drops(p, s)',
         pc[p] = "fresh" => lock[call[p].ip] = Nobody, a \notin {"invalid", "fresh"},
         c.op = "link2" => call[p].op = "link2" /\ c.dp = call[p].dp,
         c.dp # 0 => it'[c.dp].valid,
         \A s \in F : it'[s].valid,
         At(p)' \in DirPlaces => Disk(c.ip)'.type = "DIR",
         a = "remove" => Removing(p)'
  PROVE  IInv'
<1> USE DEF IInv
<1>0. Referenced'
  BY RefsKept DEF Local
<1>1. dino' = dino /\ bitmap' = bitmap
  BY DEF disk
<1>2. Types' /\ Table' /\ Others(p)
  BY <1>1 DEF Types, Table, Local, Sound
<1>3. Guar(p)
  BY <1>1 DEF Guar
<1>4. Held(p)'
  <2>1. ASSUME c.op = "link2" PROVE Disk(c.dp)'.type = "FILE"
    <3>1. call[p].op = "link2" /\ c.dp = call[p].dp /\ call'[p].dp = call[p].dp
      BY <2>1 DEF Local
    <3>2. call[p].dp \in Slots /\ Disk(call[p].dp).type = "FILE"
      BY <3>1 DEF Placed, Place, Types, Call1, Holding, Held
    <3>3. PICK s \in Slots : s = call[p].dp
      BY <3>2
    <3>4. Uses(p, s) /\ Uses(p, s)'
      BY <3>1, <3>3 DEF Uses, Keeps
    <3>5. it[s].ref > 0 /\ it'[s].ref > 0
      BY <3>4, <1>0, RefsNow, RefsNext
    <3> QED BY <3>1, <3>2, <3>3, <3>5, <1>1 DEF Disk
  <2> QED BY <2>1 DEF Held, Local, DirPlaces
<1>5. /\ Placed' /\ Locked' /\ Referenced' /\ Holding'
      /\ \A s \in Slots, q \in Proc : Uses(q, s)' /\ Disk(s)'.type = "NONE" => Drops(q, s)'
  BY <1>2, <1>3, <1>4, StepIs
<1>6. Free' /\ Space'
  BY <1>1, <1>5 DEF Free, Space
<1>7. Tree' /\ Linked'
  <2>1. \A d \in Inums : dino[d].nlink >= dino[d].nlink
    BY DEF Types, DInode
  <2> HIDE DEF IInv
  <2> QED BY <1>1, <1>2, <1>3, <1>5, <2>1, Shrinks DEF Local, IInv, Types
<1> QED BY <1>2, <1>5, <1>6, <1>7

\* ilock of an inode that p has, while nobody has its lock.
LEMMA Looked ==
  ASSUME IInv, NEW p \in Proc, NEW s \in Slots, Uses(p, s), ~Drops(p, s), lock[s] = Nobody
  PROVE  LET t == Ilock(it, s) IN
         /\ s \notin Freed /\ it[s].ref > 0 /\ it[s].inum \in Inums
         /\ Same(it, t) /\ Sound(t, dino, Freed) /\ t \in [Slots -> Entry]
         /\ \A u \in Slots \ {s} : t[u] = it[u]
         /\ t[s].valid /\ Copy(t[s], Disk(s))
         /\ t[s].inum = it[s].inum /\ t[s].ref = it[s].ref
         /\ Disk(s).type # "NONE" /\ t[s].type = Disk(s).type /\ Disk(s) \in DInode
<1> USE DEF IInv
<1>1. it[s].ref > 0
  BY RefsNow
<1>2. s \notin Freed
  BY InodeConstants DEF Freed, Locked, HasLock
<1>3. it[s].inum \in Inums
  BY <1>1 DEF Table, Sound
<1>5. Disk(s).type # "NONE"
  BY DEF Free
<1>4. /\ Same(it, Ilock(it, s)) /\ Sound(Ilock(it, s), dino, Freed)
      /\ \A u \in Slots \ {s} : Ilock(it, s)[u] = it[u]
      /\ Ilock(it, s)[s].valid
      /\ Copy(Ilock(it, s)[s], dino[it[s].inum])
  BY <1>1, <1>2, <1>5, IlockIs DEF Table, Types, Disk
<1> QED BY <1>1, <1>2, <1>3, <1>4, <1>5 DEF Same, Copy, Disk, Types

\* A step from one place without lock to another, with what p had before.
LEMMA Look ==
  ASSUME IInv, NEW p \in Proc, NEW a, NEW ss, NEW n, NEW c, NEW F,
         Local(p, a, ss, n, c, F), UNCHANGED <<disk, lock>>, panicked' = FALSE,
         pc[p] \in Calm, a \in Calm, Same(it, it'), Sound(it', dino, Freed),
         \A s \in Slots : Count(p, s)' = Count(p, s),
         Place(p)',
         c.op = "link2" => call[p].op = "link2" /\ c.dp = call[p].dp,
         c.dp # 0 => c.dp = call[p].dp,
         \A s \in F : s \in fds[p] \/ it'[s].valid,
         At(p)' \in DirPlaces => c.ip \in Slots /\ Disk(c.ip).type = "DIR"
  PROVE  IInv'
<1> USE DEF IInv
<1>1. /\ dino' = dino /\ bitmap' = bitmap /\ lock' = lock
      /\ pc'[p] = a /\ call'[p] = c /\ fds'[p] = F /\ Others(p) /\ call' \in [Proc -> Call1]
  BY DEF disk, Local
<1>2. Freed' = Freed
  <2>1. \A q \in Proc \ {p} : pc'[q] = pc[q] /\ todo'[q] = todo[q]
    BY <1>1 DEF Others
  <2>2. pc[p] # "invalid" /\ pc'[p] # "invalid"
    BY <1>1 DEF Calm, Places, Later
  <2> QED BY <2>1, <2>2 DEF Freed
<1>3. \A s \in Slots : ~HasLock(p, s) /\ ~HasLock(p, s)' /\ ~Drops(p, s)
  BY <1>1 DEF Calm, Places, Later, HasLock, Drops
<1>4. \A s \in Slots : it[s].ref \in Nat /\ it'[s].ref = it[s].ref
  BY DEF Same, Types, Entry
<1>5. \A s \in Slots : it'[s].ref = it[s].ref + Count(p, s)' - Count(p, s)
  BY <1>4, CountUses
<1>6. \A s \in Slots : Uses(p, s)' => Uses(p, s)
  BY CountUses
<1>7. c.dp # 0 => it'[c.dp].valid
  BY <1>1 DEF Holding, Held, Types, Call1, Same
<1>8. \A s \in F : it'[s].valid
  BY DEF Holding, Held, Types, Same
<1>9. At(p)' \in DirPlaces => Disk(c.ip)'.type = "DIR"
  BY <1>1 DEF Disk, Same
<1>10. \A s \in Slots : it'[s].inum = it[s].inum /\ (it[s].valid => it'[s].valid)
  BY DEF Same
<1>11. a \notin {"fresh", "invalid", "remove"} /\ pc[p] # "fresh"
  BY DEF Calm, Places, Later
<1> HIDE DEF IInv
<1>12. lock \in [Slots -> Proc \cup {Nobody}] /\ \A s \in Slots : lock[s] = p <=> HasLock(p, s)
  BY DEF IInv, Types, Locked
<1>13. /\ Sound(it', dino, Freed') /\ UNCHANGED disk /\ lock' \in [Slots -> Proc \cup {Nobody}]
       /\ \A s \in Slots : lock'[s] = p <=> HasLock(p, s)'
       /\ \A s \in Slots, q \in Proc \ {p} : lock'[s] = q <=> lock[s] = q
  BY <1>1, <1>2, <1>3, <1>12
<1>14. /\ \A s \in Slots : it[s].ref > 0 /\ it'[s].ref > 0 =>
            /\ it'[s].inum = it[s].inum
            /\ it[s].valid => it'[s].valid \/ (pc[p] = "invalid" /\ s = Head(todo[p]))
       /\ \A s \in Slots : Uses(p, s)' => Uses(p, s) \/ dino[it'[s].inum].nlink >= 1
       /\ \A s \in Slots : Drops(p, s) /\ Uses(p, s)' => Drops(p, s)'
       /\ a = "remove" => Removing(p)'
  BY <1>3, <1>6, <1>10, <1>11
<1> HIDE DEF Calm
<1> QED BY <1>5, <1>7, <1>8, <1>9, <1>11, <1>13, <1>14, Quiet

\* The same with one inode more, which has a link.
LEMMA Got ==
  ASSUME IInv, NEW t, Same(it, t), Sound(t, dino, Freed), NEW i \in Inums,
         dino[i].nlink >= 1, ~Full(t, i), it' = Iget(t, i)
  PROVE  LET k == Slot(t, i) IN
         /\ k \in Slots /\ Sound(it', dino, Freed) /\ it' \in [Slots -> Entry] /\ it'[k].inum = i
         /\ \A s \in Slots : /\ it'[s].ref = it[s].ref + (IF s = k THEN 1 ELSE 0)
                             /\ it[s].ref > 0 => it'[s].inum = it[s].inum
                             /\ it[s].valid \/ t[s].valid => it'[s].valid
         /\ \A s \in Slots \ {k} : it'[s] = t[s]
<1>0. LET k == Slot(t, i) u == Iget(t, i) IN
      /\ k \in Slots /\ u \in [Slots -> Entry] /\ u[k].inum = i
      /\ \A s \in Slots \ {k} : u[s] = t[s]
      /\ \A s \in Slots : u[s].ref = t[s].ref + (IF s = k THEN 1 ELSE 0)
      /\ t[k].ref > 0 => t[k].inum = i /\ u[k] = [t[k] EXCEPT !.ref = t[k].ref + 1]
      /\ t[k].ref = 0 => /\ u[k] = [NoInode EXCEPT !.inum = i, !.ref = 1]
                         /\ \A s \in Slots : t[s].ref > 0 => t[s].inum # i
      /\ Sound(u, dino, Freed)
  BY IgetIs
<1>1. /\ Slot(t, i) \in Slots /\ it' \in [Slots -> Entry] /\ it'[Slot(t, i)].inum = i
      /\ \A s \in Slots \ {Slot(t, i)} : it'[s] = t[s]
      /\ \A s \in Slots : it'[s].ref = t[s].ref + (IF s = Slot(t, i) THEN 1 ELSE 0)
      /\ t[Slot(t, i)].ref > 0 => /\ t[Slot(t, i)].inum = i
                                  /\ it'[Slot(t, i)] = [t[Slot(t, i)] EXCEPT !.ref = t[Slot(t, i)].ref + 1]
      /\ Sound(it', dino, Freed)
  BY <1>0
<1> DEFINE k == Slot(t, i)
<1>2. k \in Slots /\ t[k] \in Entry /\ it[k] \in Entry
  BY <1>1 DEF Same, Types, IInv
<1> HIDE DEF k
<1>3. t[k].ref > 0 => it'[k].inum = t[k].inum /\ (t[k].valid => it'[k].valid)
  BY <1>1, <1>2 DEF Entry, k
<1>4. it[k].valid => it[k].ref > 0
  BY <1>2, Empty DEF IInv, Table, Sound, Entry
<1>5. ASSUME NEW s \in Slots
      PROVE  /\ it'[s].ref = it[s].ref + (IF s = k THEN 1 ELSE 0)
             /\ it[s].ref > 0 => it'[s].inum = it[s].inum
             /\ it[s].valid \/ t[s].valid => it'[s].valid
  <2>1. CASE s = k
    BY <2>1, <1>1, <1>3, <1>4 DEF Same, k
  <2>2. CASE s # k
    BY <2>2, <1>1 DEF Same, k
  <2> QED BY <2>1, <2>2
<1> QED BY <1>1, <1>5 DEF k

\* A step between places without lock with one inode more.
LEMMA Get ==
  ASSUME IInv, NEW p \in Proc, NEW a, NEW ss, NEW n, NEW c, NEW F,
         Local(p, a, ss, n, c, F), UNCHANGED <<disk, lock>>, panicked' = FALSE,
         pc[p] \in Calm, a \in Calm,
         NEW t, Same(it, t), Sound(t, dino, Freed), NEW i \in Inums,
         dino[i].nlink >= 1, ~Full(t, i), it' = Iget(t, i),
         \A s \in Slots : Count(p, s)' = Count(p, s) + (IF s = Slot(t, i) THEN 1 ELSE 0),
         Place(p)',
         c.op = "link2" => call[p].op = "link2" /\ c.dp = call[p].dp,
         c.dp # 0 => c.dp = call[p].dp,
         F \subseteq fds[p], At(p)' \notin DirPlaces
  PROVE  IInv'
<1>1. /\ dino' = dino /\ bitmap' = bitmap /\ lock' = lock
      /\ pc'[p] = a /\ call'[p] = c /\ fds'[p] = F /\ Others(p) /\ call' \in [Proc -> Call1]
  BY DEF disk, Local
<1>2. Freed' = Freed
  <2>1. \A q \in Proc \ {p} : pc'[q] = pc[q] /\ todo'[q] = todo[q]
    BY <1>1 DEF Others
  <2>2. pc[p] # "invalid" /\ pc'[p] # "invalid"
    BY <1>1 DEF Calm, Places, Later
  <2> QED BY <2>1, <2>2 DEF Freed
<1>3. \A s \in Slots : ~HasLock(p, s) /\ ~HasLock(p, s)' /\ ~Drops(p, s)
  BY <1>1 DEF Calm, Places, Later, HasLock, Drops
<1> DEFINE k == Slot(t, i)
<1>4. /\ k \in Slots /\ Sound(it', dino, Freed) /\ it'[k].inum = i
      /\ \A s \in Slots : /\ it'[s].ref = it[s].ref + (IF s = k THEN 1 ELSE 0)
                          /\ it[s].ref > 0 => it'[s].inum = it[s].inum
                          /\ it[s].valid => it'[s].valid
  BY Got
<1>5. \A s \in Slots : Count(p, s)' = Count(p, s) + (IF s = k THEN 1 ELSE 0)
  OBVIOUS
<1> HIDE DEF k
<1>6. \A s \in Slots : it'[s].ref = it[s].ref + Count(p, s)' - Count(p, s)
  <2> SUFFICES ASSUME NEW s \in Slots PROVE it'[s].ref = it[s].ref + Count(p, s)' - Count(p, s)
    OBVIOUS
  <2>1. it[s].ref \in Nat
    BY DEF IInv, Types, Entry
  <2> DEFINE b == IF s = k THEN 1 ELSE 0
  <2>2. b \in Nat /\ it'[s].ref = it[s].ref + b /\ Count(p, s)' = Count(p, s) + b
    BY <1>4, <1>5
  <2> HIDE DEF b
  <2> QED BY <2>1, <2>2, CountUses
<1>7. \A s \in Slots : Uses(p, s)' => Uses(p, s) \/ dino[it'[s].inum].nlink >= 1
  <2>1. \A s \in Slots \ {k} : Uses(p, s)' => Uses(p, s)
    BY <1>5, CountUses
  <2> QED BY <2>1, <1>4
<1>8. c.dp # 0 => it'[c.dp].valid
  BY <1>1, <1>4 DEF IInv, Holding, Held, Types, Call1
<1>9. \A s \in F : it'[s].valid
  BY <1>4 DEF IInv, Holding, Held, Types
<1>11. a \notin {"fresh", "invalid", "remove"} /\ pc[p] # "fresh"
  BY DEF Calm, Places, Later
<1>12. lock \in [Slots -> Proc \cup {Nobody}] /\ \A s \in Slots : lock[s] = p <=> HasLock(p, s)
  BY DEF IInv, Types, Locked
<1>13. /\ Sound(it', dino, Freed') /\ UNCHANGED disk /\ lock' \in [Slots -> Proc \cup {Nobody}]
       /\ \A s \in Slots : lock'[s] = p <=> HasLock(p, s)'
       /\ \A s \in Slots, q \in Proc \ {p} : lock'[s] = q <=> lock[s] = q
  BY <1>1, <1>2, <1>3, <1>4, <1>12
<1>14. /\ \A s \in Slots : it[s].ref > 0 /\ it'[s].ref > 0 =>
            /\ it'[s].inum = it[s].inum
            /\ it[s].valid => it'[s].valid \/ (pc[p] = "invalid" /\ s = Head(todo[p]))
       /\ \A s \in Slots : Drops(p, s) /\ Uses(p, s)' => Drops(p, s)'
       /\ a = "remove" => Removing(p)'
  BY <1>3, <1>4, <1>11
<1> HIDE DEF Calm
<1> QED BY <1>6, <1>7, <1>8, <1>9, <1>11, <1>13, <1>14, Quiet

-----------------------------------------------------------------------------
(* The steps, one by one. *)

\* What a process has at a place without lock, where it puts nothing.
LEMMA AtRest ==
  ASSUME Types, Placed, NEW p \in Proc, pc[p] \in Places
  PROVE  /\ At(p) = pc[p] /\ todo[p] = <<>> /\ ToSet(todo[p]) = {} /\ call[p] \in Call1
         /\ call[p].ip # 0 => call[p].ip \in Slots
         /\ call[p].dp # 0 => call[p].dp \in Slots
         /\ call[p].path \in Seq(Names) /\ call[p].new \in Seq(Names)
         /\ Place(p) /\ next[p] \in Later /\ fds[p] \in SUBSET Slots
<1>1. Place(p) /\ pc[p] \notin Putting
  BY DEF Placed, Places, Later, Putting
<1>2. ToSet(<<>>) = {}
  BY DEF ToSet
<1> QED BY <1>1, <1>2 DEF Place, At, Types, Call1

\* The table as it is.
LEMMA SameIt == ASSUME IInv PROVE Same(it, it) /\ Sound(it, dino, Freed)
<1>1. \A s \in Slots : it[s].valid => it[s].ref > 0
  BY Empty DEF IInv, Table, Sound, Types, Entry
<1> QED BY <1>1 DEF IInv, Same, Table, Types

\* A system call begins.
LEMMA BeginStep ==
  ASSUME IInv, ~MayFill, NEW p \in Proc, NEW cc \in Calls, Begin(p, cc)
  PROVE  IInv'
<1> DEFINE k == Slot(it, ROOTINO)
           c == [op |-> cc.op, ip |-> k, dp |-> 0, path |-> cc.path, new |-> cc.new]
<1>1. /\ pc[p] = "user" /\ ~Full(it, ROOTINO) /\ panicked' = FALSE
      /\ it' = Iget(it, ROOTINO)
      /\ call' = [call EXCEPT ![p] = c]
      /\ pc' = [pc EXCEPT ![p] = "walk"] /\ UNCHANGED <<disk, lock, todo, next, fds>>
  BY DEF Begin, Goes, Room
<1>2. /\ todo[p] = <<>> /\ ToSet(todo[p]) = {} /\ call[p] = NoCall /\ Place(p)
      /\ next[p] \in Later /\ fds[p] \in SUBSET Slots
  BY <1>1, AtRest DEF IInv, Places, Later, Place
<1>3. /\ cc.op \in {"open", "create", "mkdir", "unlink", "link"}
      /\ cc.path \in Seq(Names) \ {<<>>} /\ cc.new \in Seq(Names)
      /\ cc.op = "link" => cc.new # <<>>
  BY InodeConstants
<1>4. k \in Slots /\ ROOTINO \in Inums /\ dino[ROOTINO].nlink >= 1
  BY <1>1, Got, SameIt, Named, Numbers DEF IInv
<1> HIDE DEF k
<1>5. c \in Call1
  BY <1>3, <1>4 DEF Call1, Ops
<1>6. Local(p, "walk", <<>>, next[p], c, fds[p])
  BY <1>1, <1>2, <1>5 DEF Local, Others, IInv, Types, Places, Later
<1>7. Place(p)'
  BY <1>2, <1>3, <1>4, <1>6, Numbers DEF Local, Place, At, Putting, Ops
<1>8. \A s \in Slots : Count(p, s)' = Count(p, s) + (IF s = k THEN 1 ELSE 0)
  BY <1>1, <1>2, <1>4, <1>6, Numbers DEF Local, Count, Ways, Bit, NoCall
<1>9. At(p)' \notin DirPlaces /\ pc[p] \in Calm /\ "walk" \in Calm
  BY <1>1, <1>6 DEF Local, At, Putting, DirPlaces, Calm, Places, Later
<1>10. c.op # "link2" /\ c.dp = 0
  BY <1>3
<1> HIDE DEF c
<1> QED BY <1>1, <1>4, <1>6, <1>7, <1>8, <1>9, <1>10, Get, SameIt DEF k

\* close
LEMMA CloseStep ==
  ASSUME IInv, NEW p \in Proc, NEW s \in Slots, Close(p, s)
  PROVE  IInv'
<1>1. /\ pc[p] = "user" /\ s \in fds[p] /\ fds' = [fds EXCEPT ![p] = fds[p] \ {s}]
      /\ pc' = [pc EXCEPT ![p] = "put"] /\ todo' = [todo EXCEPT ![p] = <<s>>]
      /\ next' = [next EXCEPT ![p] = "user"]
      /\ UNCHANGED <<disk, it, lock, call, panicked>>
  BY DEF Close, Puts
<1>2. /\ todo[p] = <<>> /\ ToSet(todo[p]) = {} /\ call[p] = NoCall /\ Place(p)
      /\ next[p] \in Later /\ fds[p] \in SUBSET Slots /\ call[p] \in Call1
  BY <1>1, AtRest DEF IInv, Places, Later, Place
<1>3. Local(p, "put", <<s>>, "user", NoCall, fds[p] \ {s})
  BY <1>1, <1>2, OnePut DEF Local, Others, IInv, Types, Putting, Later
<1>4. Place(p)'
  BY <1>2, <1>3, OnePut, NonePut DEF Local, Place, At, Putting
<1>5. \A u \in Slots : Count(p, u)' = Count(p, u)
  <2> SUFFICES ASSUME NEW u \in Slots PROVE Count(p, u)' = Count(p, u)
    OBVIOUS
  <2>1. /\ u \in ToSet(<<s>>) <=> u = s
        /\ u \in fds[p] \ {s} <=> u \in fds[p] /\ u # s
    BY OnePut
  <2> QED BY <1>1, <1>2, <1>3, <2>1, Numbers DEF Local, Count, Ways, Bit, NoCall
<1>6. At(p)' \notin DirPlaces /\ pc[p] \in Calm /\ "put" \in Calm
  BY <1>1, <1>3 DEF Local, At, Putting, DirPlaces, Calm, Places, Later
<1>7. Same(it, it') /\ Sound(it', dino, Freed) /\ panicked' = FALSE
  BY <1>1, SameIt DEF IInv, Types
<1>8. NoCall.op # "link2" /\ NoCall.dp = 0
  BY DEF NoCall
<1> QED BY <1>1, <1>3, <1>4, <1>5, <1>6, <1>7, <1>8, Look

\* A system call ends, or gives its inode to be put: s has been looked at.
LEMMA CallEnds ==
  ASSUME IInv, NEW p \in Proc, NEW s \in Slots, call[p].ip = s, call[p].dp = 0,
         pc[p] \in Calm \cap Places, Ends(p, <<s>>), lock[s] = Nobody,
         it' = Ilock(it, s), UNCHANGED <<disk, lock, fds>>, panicked' = FALSE
  PROVE  IInv'
<1>1. /\ pc' = [pc EXCEPT ![p] = "put"] /\ todo' = [todo EXCEPT ![p] = <<s>>]
      /\ next' = [next EXCEPT ![p] = "user"] /\ call' = [call EXCEPT ![p] = NoCall] /\ fds' = fds
  BY DEF Ends, Puts
<1>2. /\ todo[p] = <<>> /\ ToSet(todo[p]) = {} /\ Place(p) /\ fds[p] \in SUBSET Slots
      /\ NoCall \in Call1
  BY AtRest, NonePut DEF IInv
<1>3. Local(p, "put", <<s>>, "user", NoCall, fds[p])
  BY <1>1, <1>2, OnePut DEF Local, Others, IInv, Types, Putting, Later
<1>4. Place(p)'
  BY <1>2, <1>3, OnePut, NonePut DEF Local, Place, At, Putting
<1>5. \A u \in Slots : Count(p, u)' = Count(p, u)
  <2> SUFFICES ASSUME NEW u \in Slots PROVE Count(p, u)' = Count(p, u)
    OBVIOUS
  <2>1. u \in ToSet(<<s>>) <=> u = s
    BY OnePut
  <2> QED BY <1>1, <1>2, <1>3, <2>1, Numbers DEF Local, Count, Ways, Bit, NoCall
<1>6. At(p)' \notin DirPlaces /\ "put" \in Calm
  BY <1>1, <1>3 DEF Local, At, Putting, DirPlaces, Calm, Places, Later
<1>7. Same(it, it') /\ Sound(it', dino, Freed)
  BY Looked, CalmIs DEF Uses, Keeps
<1>8. NoCall.op # "link2" /\ NoCall.dp = 0
  BY DEF NoCall
<1> QED BY <1>1, <1>3, <1>4, <1>5, <1>6, <1>7, <1>8, Look

\* sys_link gives up, on its way through the new path.
LEMMA NewPathEnds ==
  ASSUME IInv, NEW p \in Proc, NEW s \in Slots, call[p].ip = s, call[p].op = "link2",
         pc[p] \in Calm \cap Places, LinkFails(p), lock[s] = Nobody,
         it' = Ilock(it, s), UNCHANGED <<disk, lock, fds>>, panicked' = FALSE
  PROVE  IInv'
<1> DEFINE c == [call[p] EXCEPT !.ip = 0]
<1>1. /\ pc' = [pc EXCEPT ![p] = "put"] /\ todo' = [todo EXCEPT ![p] = <<s>>]
      /\ next' = [next EXCEPT ![p] = "bad"] /\ call' = [call EXCEPT ![p] = c] /\ fds' = fds
  BY DEF LinkFails, Puts
<1>2. /\ todo[p] = <<>> /\ ToSet(todo[p]) = {} /\ Place(p) /\ fds[p] \in SUBSET Slots
      /\ call[p] \in Call1 /\ c \in Call1
      /\ c.ip = 0 /\ c.op = "link2" /\ c.dp = call[p].dp /\ c.path = call[p].path
      /\ c.new = call[p].new
  BY AtRest DEF IInv, Call1
<1> HIDE DEF c
<1>3. Local(p, "put", <<s>>, "bad", c, fds[p])
  BY <1>1, <1>2, OnePut DEF Local, Others, IInv, Types, Putting, Later
<1>4. Place(p)'
  <2>1. call[p].dp # 0
    BY <1>2 DEF Place
  <2>2. call[p].path # <<>>
    <3>1. At(p) = pc[p] /\ call[p].ip # 0
      BY AtRest, Numbers DEF IInv
    <3> QED BY <1>2, <3>1, NonePut DEF Place, Calm, Places, Later
  <2> QED BY <1>2, <1>3, <2>1, <2>2, OnePut, NonePut DEF Local, Place, At, Putting
<1>5. \A u \in Slots : Count(p, u)' = Count(p, u)
  <2> SUFFICES ASSUME NEW u \in Slots PROVE Count(p, u)' = Count(p, u)
    OBVIOUS
  <2>1. u \in ToSet(<<s>>) <=> u = s
    BY OnePut
  <2> QED BY <1>1, <1>2, <1>3, <2>1, Numbers DEF Local, Count, Ways, Bit
<1>6. At(p)' \notin DirPlaces /\ "put" \in Calm
  BY <1>1, <1>3 DEF Local, At, Putting, DirPlaces, Calm, Places, Later
<1>7. Same(it, it') /\ Sound(it', dino, Freed)
  BY Looked, CalmIs DEF Uses, Keeps
<1> QED BY <1>1, <1>2, <1>3, <1>4, <1>5, <1>6, <1>7, Look

\* The end of sys_open: the inode is opened or given to be put.
LEMMA OpenEndStep ==
  ASSUME IInv, NEW p \in Proc, NEW s \in Slots, call[p].ip = s, call[p].dp = 0,
         pc[p] \in Calm \cap Places, OpenEnd(p, s, Ilock(it, s)), lock[s] = Nobody,
         UNCHANGED <<disk, lock>>, panicked' = FALSE
  PROVE  IInv'
<1>1. CASE s \notin fds[p] /\ Opened(p, s) /\ Goes(p, "user")
  <2>1. /\ pc' = [pc EXCEPT ![p] = "user"] /\ todo' = todo /\ next' = next
        /\ call' = [call EXCEPT ![p] = NoCall] /\ fds' = [fds EXCEPT ![p] = fds[p] \cup {s}]
        /\ it' = Ilock(it, s)
    BY <1>1 DEF Opened, Goes, OpenEnd
  <2>2. /\ todo[p] = <<>> /\ ToSet(todo[p]) = {} /\ Place(p) /\ fds[p] \in SUBSET Slots
        /\ NoCall \in Call1 /\ next[p] \in Later
    BY AtRest, NonePut DEF IInv
  <2>3. Local(p, "user", <<>>, next[p], NoCall, fds[p] \cup {s})
    BY <2>1, <2>2 DEF Local, Others, IInv, Types, Places, Later
  <2>4. Place(p)'
    BY <2>2, <2>3, NonePut DEF Local, Place, At, Putting
  <2>5. \A u \in Slots : Count(p, u)' = Count(p, u)
    BY <1>1, <2>1, <2>2, <2>3, Numbers DEF Local, Count, Ways, Bit, NoCall
  <2>6. At(p)' \notin DirPlaces /\ "user" \in Calm
    BY <2>1, <2>3 DEF Local, At, Putting, DirPlaces, Calm, Places, Later
  <2>7. Same(it, it') /\ Sound(it', dino, Freed) /\ it'[s].valid
    BY <2>1, Looked, CalmIs DEF Uses, Keeps
  <2>8. NoCall.op # "link2" /\ NoCall.dp = 0
    BY DEF NoCall
  <2> QED BY <2>1, <2>3, <2>4, <2>5, <2>6, <2>7, <2>8, Look
<1>2. CASE Ends(p, <<s>>) /\ UNCHANGED fds
  BY <1>2, CallEnds DEF OpenEnd
<1> QED BY <1>1, <1>2 DEF OpenEnd

\* sys_open without O_CREATE
LEMMA OpenStep ==
  ASSUME IInv, NEW p \in Proc, Open(p)
  PROVE  IInv'
<1>1. pc[p] = "open" /\ pc[p] \in Calm \cap Places
  BY DEF Open, Locks, Calm, Places, Later
<1>2. Place(p) /\ At(p) = "open" /\ call[p].ip \in Slots /\ call[p].dp = 0
  BY <1>1, AtRest DEF IInv, Place
<1>3. PICK s \in Slots : s = call[p].ip
  BY <1>2
<1>4. /\ lock[s] = Nobody /\ OpenEnd(p, s, Ilock(it, s)) /\ UNCHANGED <<disk, lock>>
      /\ panicked' = (Ilock(it, s)[s].type = "NONE")
  BY <1>3 DEF Open, Locks
<1>5. panicked' = FALSE
  BY <1>1, <1>3, <1>4, Looked, CalmIs DEF Uses, Keeps
<1> QED BY <1>1, <1>2, <1>3, <1>4, <1>5, OpenEndStep

\* create finds the inode there.
LEMMA CreateFoundStep ==
  ASSUME IInv, NEW p \in Proc, CreateFound(p)
  PROVE  IInv'
<1>1. pc[p] = "found" /\ pc[p] \in Calm \cap Places
  BY DEF CreateFound, Locks, Calm, Places, Later
<1>2. Place(p) /\ At(p) = "found" /\ call[p].ip \in Slots /\ call[p].dp = 0
  BY <1>1, AtRest DEF IInv, Place
<1>3. PICK s \in Slots : s = call[p].ip
  BY <1>2
<1>4. /\ lock[s] = Nobody /\ UNCHANGED <<disk, lock>>
      /\ \/ OpenEnd(p, s, Ilock(it, s))
         \/ it' = Ilock(it, s) /\ Ends(p, <<s>>) /\ UNCHANGED fds
      /\ panicked' = (Ilock(it, s)[s].type = "NONE")
  BY <1>3 DEF CreateFound, Locks
<1>5. panicked' = FALSE
  BY <1>1, <1>3, <1>4, Looked, CalmIs DEF Uses, Keeps
<1>6. CASE OpenEnd(p, s, Ilock(it, s))
  BY <1>1, <1>2, <1>3, <1>4, <1>5, <1>6, OpenEndStep
<1>7. CASE it' = Ilock(it, s) /\ Ends(p, <<s>>) /\ UNCHANGED fds
  BY <1>1, <1>2, <1>3, <1>4, <1>5, <1>7, CallEnds
<1> QED BY <1>4, <1>6, <1>7

\* One turn of namex.
LEMMA WalkStep ==
  ASSUME IInv, ~MayFill, NEW p \in Proc, Walk(p)
  PROVE  IInv'
<1>1. pc[p] = "walk" /\ pc[p] \in Calm \cap Places
  BY DEF Walk, Locks, Calm, Places, Later
<1>2. /\ Place(p) /\ At(p) = "walk" /\ call[p].ip \in Slots /\ call[p].op \in Ops
      /\ todo[p] = <<>> /\ ToSet(todo[p]) = {} /\ call[p] \in Call1 /\ next[p] \in Later
      /\ call[p].path \in Seq(Names) \ {<<>>} /\ fds[p] \in SUBSET Slots
      /\ call[p].dp # 0 <=> call[p].op = "link2"
  BY <1>1, AtRest DEF IInv, Place
<1>3. PICK s \in Slots : s = call[p].ip
  BY <1>2
<1> DEFINE t == Ilock(it, s)
           i == dino[t[s].inum].ents[Head(call[p].path)]
           parent == Parent(call[p].op) /\ Len(call[p].path) = 1
           fails == t[s].type # "DIR" \/ (~parent /\ i = 0)
<1>4. /\ lock[s] = Nobody /\ UNCHANGED <<disk, lock, fds>>
      /\ \/ /\ fails /\ it' = t
            /\ IF call[p].op = "link2" THEN LinkFails(p) ELSE Ends(p, <<s>>)
            /\ panicked' = (t[s].type = "NONE")
         \/ /\ ~fails /\ parent /\ it' = t
            /\ Goes(p, call[p].op) /\ UNCHANGED <<call, panicked>>
         \/ /\ ~fails /\ ~parent /\ Room(t, i) /\ panicked' = Full(t, i)
            /\ it' = Iget(t, i)
            /\ call' = [call EXCEPT ![p].ip = Slot(t, i), ![p].path = Tail(@)]
            /\ Puts(p, <<s>>, IF Len(call[p].path) = 1 THEN call[p].op ELSE "walk")
  BY <1>3 DEF Walk, Locks
<1>5. /\ s \notin Freed /\ it[s].inum \in Inums
      /\ Same(it, t) /\ Sound(t, dino, Freed) /\ t[s].inum = it[s].inum
      /\ t[s].type # "NONE" /\ t[s].type = Disk(s).type /\ Disk(s) \in DInode
  BY <1>1, <1>3, <1>4, Looked, CalmIs DEF Uses, Keeps
<1> HIDE DEF t, i, parent, fails
<1>6. CASE fails /\ it' = t /\ (IF call[p].op = "link2" THEN LinkFails(p) ELSE Ends(p, <<s>>))
           /\ panicked' = (t[s].type = "NONE")
  <2>1. panicked' = FALSE
    BY <1>5, <1>6
  <2>2. CASE call[p].op = "link2"
    BY <1>1, <1>3, <1>4, <1>6, <2>1, <2>2, NewPathEnds DEF t
  <2>3. CASE call[p].op # "link2"
    BY <1>1, <1>2, <1>3, <1>4, <1>6, <2>1, <2>3, CallEnds DEF t
  <2> QED BY <2>2, <2>3
<1>7. CASE ~fails /\ parent /\ it' = t /\ Goes(p, call[p].op) /\ UNCHANGED <<call, panicked>>
  <2>1. /\ pc' = [pc EXCEPT ![p] = call[p].op] /\ todo' = todo /\ next' = next
        /\ call' = call /\ fds' = fds /\ panicked' = FALSE
    BY <1>4, <1>7 DEF Goes, IInv, Types
  <2>2. call[p].op \in DirPlaces
    BY <1>2, <1>7 DEF parent, Parent, DirPlaces, Ops
  <2>3. Local(p, call[p].op, <<>>, next[p], call[p], fds[p])
    BY <1>2, <2>1, <2>2 DEF Local, Others, IInv, Types, Places, DirPlaces
  <2>4. Place(p)'
    BY <1>2, <2>2, <2>3 DEF Local, Place, At, Putting, DirPlaces
  <2>5. \A u \in Slots : Count(p, u)' = Count(p, u)
    BY <2>1 DEF Count, Ways
  <2>6. call[p].op \in Calm
    BY <2>2 DEF DirPlaces, Calm, Places
  <2>7. call[p].ip \in Slots /\ Disk(call[p].ip).type = "DIR"
    BY <1>3, <1>5, <1>7 DEF fails
  <2> QED BY <1>1, <1>4, <1>5, <1>7, <2>1, <2>3, <2>4, <2>5, <2>6, <2>7, Look
<1>8. CASE /\ ~fails /\ ~parent /\ Room(t, i) /\ panicked' = Full(t, i)
           /\ it' = Iget(t, i)
           /\ call' = [call EXCEPT ![p].ip = Slot(t, i), ![p].path = Tail(@)]
           /\ Puts(p, <<s>>, IF Len(call[p].path) = 1 THEN call[p].op ELSE "walk")
  <2> DEFINE k == Slot(t, i)
             c == [call[p] EXCEPT !.ip = k, !.path = Tail(call[p].path)]
             n == IF Len(call[p].path) = 1 THEN call[p].op ELSE "walk"
  <2>1. ~Full(t, i) /\ panicked' = FALSE
    BY <1>8 DEF Room
  <2>2. i \in Inums /\ dino[i].nlink >= 1
    <3>1. i # 0 /\ Head(call[p].path) \in Names
      BY <1>2, <1>8 DEF fails
    <3> QED BY <3>1, <1>5, Named DEF i, IInv
  <2>3. k \in Slots
    BY <1>5, <1>8, <2>1, <2>2, Got
  <2> HIDE DEF k
  <2>4. /\ c \in Call1 /\ c.ip = k /\ c.dp = call[p].dp /\ c.op = call[p].op
        /\ c.path = Tail(call[p].path) /\ c.new = call[p].new
    <3>1. Tail(call[p].path) \in Seq(Names)
      BY <1>2
    <3> QED BY <1>2, <2>3, <3>1 DEF Call1
  <2>5. call' = [call EXCEPT ![p] = c]
    BY <1>8 DEF k
  <2> HIDE DEF c
  <2>6. n \in {"open", "link", "walk"} /\ (n # "walk" => n = call[p].op)
        /\ (n = "walk" => Tail(call[p].path) # <<>>)
    <3>1. CASE Len(call[p].path) = 1
      <4>1. ~Parent(call[p].op)
        BY <1>8, <3>1 DEF parent
      <4> QED BY <1>2, <3>1, <4>1 DEF Parent, Ops
    <3>2. CASE Len(call[p].path) # 1
      <4>1. Len(Tail(call[p].path)) # 0 /\ Tail(call[p].path) \in Seq(Names)
        BY <1>2, <3>2
      <4>2. Len(<<>>) = 0
        OBVIOUS
      <4>3. Tail(call[p].path) # <<>>
        BY <4>1, <4>2
      <4> QED BY <3>2, <4>3
    <3> QED BY <3>1, <3>2
  <2>7. /\ pc' = [pc EXCEPT ![p] = "put"] /\ todo' = [todo EXCEPT ![p] = <<s>>]
        /\ next' = [next EXCEPT ![p] = n] /\ fds' = fds
    BY <1>4, <1>8 DEF Puts
  <2> HIDE DEF n
  <2>8. Local(p, "put", <<s>>, n, c, fds[p])
    BY <1>2, <2>4, <2>5, <2>6, <2>7, OnePut DEF Local, Others, IInv, Types, Putting, Later
  <2>9. Place(p)'
    <3>1. /\ todo'[p] # <<>> /\ NoRepeat(todo'[p]) /\ At(p)' = n /\ call'[p] = c
          /\ pc'[p] \in Putting
      BY <2>8, OnePut DEF Local, At, Putting
    <3>2. /\ n \in {"open", "link"} => c.op = n
          /\ n = "walk" => c.op \in Ops /\ c.path # <<>>
          /\ c.op = "link2" => n = "walk"
      BY <1>2, <2>4, <2>6
    <3>3. c.dp # 0 <=> c.op = "link2"
      BY <1>2, <2>4
    <3>4. c.op = "link" => c.new # <<>>
      BY <1>2, <2>4 DEF Place
    <3>5. n \in {"open", "link", "walk"} /\ c.ip # 0
      BY <2>3, <2>4, <2>6, Numbers
    <3> QED BY <3>1, <3>2, <3>3, <3>4, <3>5 DEF Place
  <2>10. \A u \in Slots : Count(p, u)' = Count(p, u) + (IF u = k THEN 1 ELSE 0)
    <3> SUFFICES ASSUME NEW u \in Slots
                 PROVE  Count(p, u)' = Count(p, u) + (IF u = k THEN 1 ELSE 0)
      OBVIOUS
    <3>1. u \in ToSet(<<s>>) <=> u = s
      BY OnePut
    <3> QED BY <1>2, <1>3, <2>4, <2>8, <3>1 DEF Local, Count, Ways, Bit
  <2>11. At(p)' \notin DirPlaces /\ "put" \in Calm
    BY <2>6, <2>8 DEF Local, At, Putting, DirPlaces, Calm
  <2>12. /\ UNCHANGED <<disk, lock>> /\ it' = Iget(t, i)
         /\ c.op = "link2" => call[p].op = "link2" /\ c.dp = call[p].dp
         /\ c.dp # 0 => c.dp = call[p].dp
         /\ \A u \in Slots : Count(p, u)' = Count(p, u) + (IF u = Slot(t, i) THEN 1 ELSE 0)
    BY <1>4, <1>8, <2>4, <2>10 DEF k
  <2> QED BY <1>1, <1>5, <2>1, <2>2, <2>8, <2>9, <2>11, <2>12, Get
<1> QED BY <1>4, <1>6, <1>7, <1>8

-----------------------------------------------------------------------------
(* iput *)

\* What p is about to put.
LEMMA AtPut ==
  ASSUME IInv, NEW p \in Proc, pc[p] \in Putting
  PROVE  LET s == Head(todo[p]) IN
         /\ Place(p) /\ todo[p] \in Seq(Slots) /\ todo[p] # <<>> /\ NoRepeat(todo[p])
         /\ s \in Slots /\ s \in ToSet(todo[p]) /\ Uses(p, s) /\ At(p) = next[p]
         /\ next[p] \in Later /\ call[p] \in Call1 /\ fds[p] \in SUBSET Slots
         /\ it[s].ref \in Nat /\ it[s].ref >= 1 /\ it[s].inum \in Inums
<1>1. Place(p) /\ todo[p] # <<>> /\ NoRepeat(todo[p]) /\ At(p) = next[p]
  BY DEF IInv, Placed, Place, At
<1>2. todo[p] \in Seq(Slots) /\ next[p] \in Later /\ call[p] \in Call1 /\ fds[p] \in SUBSET Slots
  BY DEF IInv, Types
<1>3. Head(todo[p]) \in Slots /\ Head(todo[p]) \in ToSet(todo[p])
  BY <1>1, <1>2, Popped
<1>4. PICK s \in Slots : s = Head(todo[p])
  BY <1>3
<1>5. Uses(p, s)
  BY <1>3, <1>4 DEF Uses
<1>6. it[s].ref \in Nat /\ it[s].ref >= 1 /\ it[s].inum \in Inums
  BY <1>5, RefsNow DEF IInv, Table, Sound
<1> QED BY <1>1, <1>2, <1>3, <1>4, <1>5, <1>6

\* The end of iput: the reference is dropped.
LEMMA DroppedStep ==
  ASSUME IInv, NEW p \in Proc, pc[p] \in {"put", "drop"}, Dropped(p, Head(todo[p])),
         UNCHANGED <<disk, lock, call, fds>>, panicked' = FALSE
  PROVE  IInv'
<1>1. PICK s \in Slots : s = Head(todo[p])
  BY AtPut DEF Putting
<1>2. /\ Place(p) /\ todo[p] \in Seq(Slots) /\ todo[p] # <<>> /\ NoRepeat(todo[p])
      /\ s \in ToSet(todo[p]) /\ Uses(p, s) /\ At(p) = next[p]
      /\ next[p] \in Later /\ call[p] \in Call1 /\ fds[p] \in SUBSET Slots
      /\ it[s].ref \in Nat /\ it[s].ref >= 1 /\ it[s].inum \in Inums
  BY <1>1, AtPut DEF Putting
<1> DEFINE T == Tail(todo[p])
           a == IF T = <<>> THEN next[p] ELSE "put"
           n == IF T = <<>> THEN "user" ELSE next[p]
<1>3. /\ T \in Seq(Slots) /\ NoRepeat(T) /\ (Len(todo[p]) = 1 <=> T = <<>>)
      /\ ToSet(T) = ToSet(todo[p]) \ {s}
  BY <1>1, <1>2, Popped
<1>4. /\ pc' = [pc EXCEPT ![p] = a] /\ todo' = [todo EXCEPT ![p] = T]
      /\ next' = [next EXCEPT ![p] = n] /\ call' = call /\ fds' = fds
  BY <1>3 DEF Dropped
<1>5. a \in Later \cup {"put"} /\ n \in Later
  BY <1>2 DEF Later
<1>6. (T = <<>> => a = next[p]) /\ (T # <<>> => a = "put" /\ n = next[p])
  OBVIOUS
<1> HIDE DEF a, n, T
<1>7. Local(p, a, T, n, call[p], fds[p])
  BY <1>2, <1>3, <1>4, <1>5 DEF Local, Others, IInv, Types, Places, Putting
<1>8. At(p)' = At(p)
  <2>1. CASE T = <<>>
    BY <2>1, <1>2, <1>6, <1>7 DEF Local, At, Later, Putting
  <2>2. CASE T # <<>>
    BY <2>2, <1>2, <1>6, <1>7 DEF Local, At, Putting
  <2> QED BY <2>1, <2>2
<1>9. Place(p)'
  <2>1. a \in Putting <=> T # <<>>
    BY <1>2, <1>6 DEF Later, Putting
  <2> QED BY <2>1, <1>2, <1>3, <1>7, <1>8 DEF Local, Place
<1>10. \A u \in Slots : Count(p, u)' = Count(p, u) - (IF u = s THEN 1 ELSE 0)
  <2> SUFFICES ASSUME NEW u \in Slots
               PROVE  Count(p, u)' = Count(p, u) - (IF u = s THEN 1 ELSE 0)
    OBVIOUS
  <2>1. u \in ToSet(T) <=> u \in ToSet(todo[p]) /\ u # s
    BY <1>3
  <2> QED BY <2>1, <1>2, <1>7 DEF Local, Count, Ways, Bit
<1>11. /\ it' \in [Slots -> Entry] /\ \A u \in Slots \ {s} : it'[u] = it[u]
       /\ it[s].ref = 1 => it'[s] = NoInode
       /\ it[s].ref # 1 => it'[s] = [it[s] EXCEPT !.ref = it[s].ref - 1]
  <2>1. it' = [it EXCEPT ![s] = IF it[s].ref = 1 THEN NoInode ELSE [it[s] EXCEPT !.ref = it[s].ref - 1]]
    BY <1>1 DEF Dropped
  <2>2. it \in [Slots -> Entry] /\ it[s] \in Entry
    BY DEF IInv, Types
  <2>3. it[s].ref # 1 => [it[s] EXCEPT !.ref = it[s].ref - 1] \in Entry
    <3>1. it[s].ref - 1 \in Nat
      BY <1>2
    <3> QED BY <2>2, <3>1 DEF Entry
  <2> QED BY <2>1, <2>2, <2>3, Empty
<1>12. /\ it'[s].ref = it[s].ref - 1
       /\ it[s].ref # 1 => /\ it'[s].inum = it[s].inum /\ it'[s].valid = it[s].valid
                           /\ Copy(it'[s], Disk(s)) <=> Copy(it[s], Disk(s))
                           /\ it'[s].ref > 0
       /\ it[s].ref = 1 => it'[s].ref = 0 /\ ~it'[s].valid
  <2>1. it[s] \in Entry
    BY DEF IInv, Types
  <2>2. CASE it[s].ref = 1
    BY <2>2, <1>11, Empty
  <2>3. CASE it[s].ref # 1
    <3>1. /\ it'[s].ref = it[s].ref - 1 /\ it'[s].inum = it[s].inum /\ it'[s].valid = it[s].valid
          /\ it'[s].type = it[s].type /\ it'[s].nlink = it[s].nlink /\ it'[s].addrs = it[s].addrs
      BY <2>1, <2>3, <1>11 DEF Entry
    <3> QED BY <3>1, <2>3, <1>2 DEF Copy
  <2> QED BY <2>2, <2>3
<1>13. \A u \in Slots : it'[u].ref = it[u].ref + Count(p, u)' - Count(p, u)
  <2> SUFFICES ASSUME NEW u \in Slots PROVE it'[u].ref = it[u].ref + Count(p, u)' - Count(p, u)
    OBVIOUS
  <2>1. it[u].ref \in Nat
    BY DEF IInv, Types, Entry
  <2>2. CASE u = s
    BY <2>1, <2>2, <1>10, <1>12, CountUses
  <2>3. CASE u # s
    BY <2>1, <2>3, <1>10, <1>11, CountUses
  <2> QED BY <2>2, <2>3
<1>14. Freed' = Freed
  <2>1. \A q \in Proc \ {p} : pc'[q] = pc[q] /\ todo'[q] = todo[q]
    BY <1>7 DEF Local, Others
  <2>2. pc[p] # "invalid" /\ pc'[p] # "invalid"
    BY <1>5, <1>7 DEF Local, Later
  <2> QED BY <2>1, <2>2 DEF Freed
<1>15. Sound(it', dino, Freed)
  <2>1. Sound(it, dino, Freed)
    BY DEF IInv, Table
  <2>2. ASSUME NEW u \in Slots, NEW v \in Slots, it'[u].ref > 0, it'[v].ref > 0, it'[u].inum = it'[v].inum
        PROVE  u = v
    <3>1. it[u].ref > 0 /\ it[v].ref > 0 /\ it[u].inum = it'[u].inum /\ it[v].inum = it'[v].inum
      BY <2>2, <1>2, <1>11, <1>12
    <3> QED BY <2>1, <2>2, <3>1 DEF Sound
  <2>3. ASSUME NEW u \in Slots
        PROVE  /\ it'[u].ref = 0 => it'[u] = NoInode
               /\ it'[u].ref > 0 => it'[u].inum \in Inums
               /\ it'[u].valid /\ u \notin Freed => Copy(it'[u], dino[it'[u].inum])
    <3>1. CASE u = s
      BY <3>1, <2>1, <1>2, <1>11, <1>12 DEF Sound, Disk
    <3>2. CASE u # s
      BY <3>2, <2>1, <1>11 DEF Sound
    <3> QED BY <3>1, <3>2
  <2> QED BY <2>2, <2>3, <1>11 DEF Sound
<1>16. /\ \A u \in Slots : ~HasLock(p, u) /\ ~HasLock(p, u)'
       /\ \A u \in Slots : lock[u] = p <=> HasLock(p, u)
       /\ lock' = lock /\ lock \in [Slots -> Proc \cup {Nobody}] /\ UNCHANGED disk
  <2>1. pc[p] \notin {"fresh", "remove", "invalid"} /\ pc'[p] \notin {"fresh", "remove", "invalid"}
    BY <1>5, <1>7 DEF Local, Later
  <2> QED BY <2>1 DEF HasLock, IInv, Types, Locked
<1>17. \A u \in Slots : it[u].ref > 0 /\ it'[u].ref > 0 =>
            /\ it'[u].inum = it[u].inum
            /\ it[u].valid => it'[u].valid \/ (pc[p] = "invalid" /\ u = Head(todo[p]))
  BY <1>2, <1>11, <1>12
<1>18. \A u \in Slots : Uses(p, u)' => Uses(p, u)
  BY <1>10, CountUses
<1>19. \A u \in Slots : Drops(p, u) => ~Uses(p, u)'
  <2>1. ASSUME Drops(p, s) PROVE ~Uses(p, s)'
    BY <2>1, <1>1, <1>3, <1>7 DEF Local, Drops, Uses, Keeps
  <2> QED BY <2>1, <1>1 DEF Drops
<1>20. \A u \in Slots : Keeps(p, u) => it'[u].ref > 0 /\ it'[u].inum = it[u].inum
                                       /\ (it[u].valid => it'[u].valid)
  <2> SUFFICES ASSUME NEW u \in Slots, Keeps(p, u)
               PROVE  it'[u].ref > 0 /\ it'[u].inum = it[u].inum /\ (it[u].valid => it'[u].valid)
    OBVIOUS
  <2>1. Uses(p, u) /\ Uses(p, u)'
    BY <1>7 DEF Local, Uses, Keeps
  <2>2. Referenced'
    BY <1>7, <1>13, RefsKept DEF Local, IInv
  <2>3. it[u].ref > 0 /\ it'[u].ref > 0
    BY <2>1, <2>2, RefsNow, RefsNext DEF IInv
  <2> QED BY <2>3, <1>17, AtPut
<1>21. call[p].dp # 0 => it'[call[p].dp].valid
  BY <1>2, <1>20 DEF IInv, Holding, Held, Call1, Keeps
<1>22. \A u \in fds[p] : it'[u].valid
  BY <1>2, <1>20 DEF IInv, Holding, Held, Keeps
<1>23. At(p)' \in DirPlaces => Disk(call[p].ip)'.type = "DIR"
  BY <1>2, <1>8 DEF DirPlaces, Later
<1>24. a \notin {"fresh", "invalid", "remove"} /\ pc[p] # "fresh" /\ pc[p] # "invalid"
  BY <1>5 DEF Later
<1>25. /\ Sound(it', dino, Freed')
       /\ \A u \in Slots : lock'[u] = p <=> HasLock(p, u)'
       /\ \A u \in Slots, q \in Proc \ {p} : lock'[u] = q <=> lock[u] = q
       /\ \A u \in Slots : Uses(p, u)' => Uses(p, u) \/ dino[it'[u].inum].nlink >= 1
       /\ \A u \in Slots : Drops(p, u) /\ Uses(p, u)' => Drops(p, u)'
       /\ a = "remove" => Removing(p)'
       /\ lock' \in [Slots -> Proc \cup {Nobody}]
       /\ UNCHANGED disk
  BY <1>14, <1>15, <1>16, <1>18, <1>19, <1>24
<1> QED BY <1>7, <1>9, <1>13, <1>17, <1>21, <1>22, <1>23, <1>24, <1>25, Quiet

\* The end of iput, after it has freed the inode.
LEMMA IputDropStep ==
  ASSUME IInv, NEW p \in Proc, IputDrop(p)
  PROVE  IInv'
BY DroppedStep DEF IputDrop, IInv, Types

\* iput makes the entry invalid, and gives up its lock.
LEMMA IputInvalidStep ==
  ASSUME IInv, NEW p \in Proc, IputInvalid(p)
  PROVE  IInv'
<1>0. pc[p] = "invalid"
  BY DEF IputInvalid
<1>1. PICK s \in Slots : s = Head(todo[p])
  BY <1>0, AtPut DEF Putting
<1>2. /\ Place(p) /\ todo[p] \in Seq(Slots) /\ todo[p] # <<>> /\ NoRepeat(todo[p])
      /\ s \in ToSet(todo[p]) /\ Uses(p, s) /\ At(p) = next[p]
      /\ next[p] \in Later /\ call[p] \in Call1 /\ fds[p] \in SUBSET Slots
      /\ it[s].ref \in Nat /\ it[s].ref >= 1 /\ it[s].inum \in Inums
  BY <1>0, <1>1, AtPut DEF Putting
<1> DEFINE e == [NoInode EXCEPT !.inum = it[s].inum, !.ref = it[s].ref]
<1>3. /\ pc' = [pc EXCEPT ![p] = "drop"] /\ it' = [it EXCEPT ![s] = e]
      /\ lock' = [lock EXCEPT ![s] = Nobody]
      /\ dino' = dino /\ bitmap' = bitmap /\ todo' = todo /\ next' = next /\ call' = call
      /\ fds' = fds /\ panicked' = panicked
  BY <1>1 DEF IputInvalid, Goes, disk
<1>4. e \in Entry /\ e.inum = it[s].inum /\ e.ref = it[s].ref /\ ~e.valid
  BY <1>2 DEF NoInode, Entry, Types0
<1> HIDE DEF e
<1>5. it' \in [Slots -> Entry] /\ it'[s] = e /\ \A u \in Slots \ {s} : it'[u] = it[u]
  BY <1>3, <1>4 DEF IInv, Types
<1>6. Local(p, "drop", todo[p], next[p], call[p], fds[p])
  BY <1>2, <1>3 DEF Local, Others, IInv, Types, Putting
<1>7. At(p)' = At(p) /\ At(p) \in Later
  BY <1>0, <1>2, <1>3, <1>6 DEF Local, At, Putting
<1>8. Place(p)'
  BY <1>2, <1>6, <1>7 DEF Local, Place, Putting
<1>9. ~Keeps(p, s)
  BY <1>0, <1>1 DEF IInv, Holding, Held, Freeing
<1>10. Freed' = Freed \ {s}
  <2>1. \A q \in Proc \ {p} : pc[q] = "invalid" /\ Head(todo[q]) = s => FALSE
    BY <1>0, <1>1 DEF IInv, Locked, HasLock
  <2>2. \A q \in Proc \ {p} : pc'[q] = pc[q] /\ todo'[q] = todo[q]
    BY <1>6 DEF Local, Others
  <2>3. pc'[p] # "invalid"
    BY <1>6 DEF Local
  <2>4. ASSUME NEW u \in Slots PROVE u \in Freed' <=> u \in Freed /\ u # s
    BY <2>1, <2>2, <2>3, <1>0, <1>1 DEF Freed
  <2> QED BY <2>4 DEF Freed
<1>11. Sound(it', dino, Freed')
  <2>1. Sound(it, dino, Freed)
    BY DEF IInv, Table
  <2>2. \A u \in Slots : it'[u].ref = it[u].ref /\ it'[u].inum = it[u].inum
    BY <1>4, <1>5
  <2>3. ASSUME NEW u \in Slots
        PROVE  /\ it'[u].ref = 0 => it'[u] = NoInode
               /\ it'[u].ref > 0 => it'[u].inum \in Inums
               /\ it'[u].valid /\ u \notin Freed' => Copy(it'[u], dino[it'[u].inum])
    <3>1. CASE u = s
      BY <3>1, <1>2, <1>4, <1>5
    <3>2. CASE u # s
      BY <3>2, <2>1, <1>5, <1>10 DEF Sound
    <3> QED BY <3>1, <3>2
  <2> QED BY <2>1, <2>2, <2>3, <1>5 DEF Sound
<1>12. /\ \A u \in Slots : lock'[u] = p <=> HasLock(p, u)'
       /\ \A u \in Slots, q \in Proc \ {p} : lock'[u] = q <=> lock[u] = q
       /\ lock' \in [Slots -> Proc \cup {Nobody}]
  <2>1. \A u \in Slots : lock[u] = p <=> u = s
    BY <1>0, <1>1 DEF IInv, Locked, HasLock
  <2>2. \A u \in Slots : ~HasLock(p, u)'
    BY <1>6 DEF Local, HasLock
  <2> QED BY <2>1, <2>2, <1>3, InodeConstants DEF IInv, Types
<1>13. \A u \in Slots : it'[u].ref = it[u].ref + Count(p, u)' - Count(p, u)
  <2> SUFFICES ASSUME NEW u \in Slots PROVE it'[u].ref = it[u].ref + Count(p, u)' - Count(p, u)
    OBVIOUS
  <2>1. it[u].ref \in Nat /\ it'[u].ref = it[u].ref
    BY <1>4, <1>5 DEF IInv, Types, Entry
  <2>2. Count(p, u)' = Count(p, u)
    BY <1>3 DEF Count, Ways
  <2> QED BY <2>1, <2>2, CountUses
<1>14. /\ \A u \in Slots : Keeps(p, u)' <=> Keeps(p, u)
       /\ \A u \in Slots : Uses(p, u)' <=> Uses(p, u)
  BY <1>3 DEF Keeps, Uses
<1>15. \A u \in Slots : Drops(p, u) => Drops(p, u)'
  BY <1>1, <1>3, <1>6, <1>14 DEF Local, Drops
<1>16. \A u \in Slots : it[u].ref > 0 /\ it'[u].ref > 0 =>
            /\ it'[u].inum = it[u].inum
            /\ it[u].valid => it'[u].valid \/ (pc[p] = "invalid" /\ u = Head(todo[p]))
  BY <1>0, <1>1, <1>4, <1>5
<1>17. call[p].dp # 0 => it'[call[p].dp].valid
  BY <1>2, <1>5, <1>9 DEF IInv, Holding, Held, Call1, Keeps
<1>18. \A u \in fds[p] : it'[u].valid
  BY <1>2, <1>5, <1>9 DEF IInv, Holding, Held, Keeps
<1>19. At(p)' \notin DirPlaces /\ panicked' = FALSE /\ UNCHANGED disk
  BY <1>3, <1>7 DEF DirPlaces, Later, IInv, Types, disk
<1>20. \A u \in Slots : Uses(p, u)' => Uses(p, u) \/ dino[it'[u].inum].nlink >= 1
  BY <1>14
<1>21. /\ pc[p] # "fresh" /\ "drop" \notin {"invalid", "fresh"}
       /\ "drop" = "remove" => Removing(p)'
       /\ At(p)' \in DirPlaces => Disk(call[p].ip)'.type = "DIR"
       /\ \A u \in Slots : Drops(p, u) /\ Uses(p, u)' => Drops(p, u)'
  BY <1>0, <1>15, <1>19
<1> QED BY <1>6, <1>8, <1>11, <1>12, <1>13, <1>16, <1>17, <1>18, <1>19, <1>20, <1>21, Quiet

\* A step that is not quiet: what is left to show of the invariant.
LEMMA Changes ==
  ASSUME IInv, NEW p \in Proc, NEW a, NEW ss, NEW n, NEW c, NEW F,
         Local(p, a, ss, n, c, F), panicked' = FALSE,
         dino' \in [Inums -> DInode], bitmap' \in SUBSET Blocks,
         lock' \in [Slots -> Proc \cup {Nobody}],
         Sound(it', dino', Freed'),
         \A s \in Slots : lock'[s] = p <=> HasLock(p, s)',
         \A s \in Slots, q \in Proc \ {p} : lock'[s] = q <=> lock[s] = q,
         \A s \in Slots : it'[s].ref = it[s].ref + Count(p, s)' - Count(p, s),
         Place(p)', Held(p)', Guar(p),
         dino'[ROOTINO].type = "DIR",
         \A i \in Inums : /\ dino'[i].type = "NONE" => dino'[i] = FreeInode
                          /\ dino'[i].type = "FILE" => dino'[i].ents = NoEntries,
         Space', Referenced' => Tree' /\ Linked'
  PROVE  IInv'
<1>1. Types' /\ Table' /\ Others(p)
  BY DEF IInv, Types, Table, Local, Sound
<1>2. /\ Placed' /\ Locked' /\ Referenced' /\ Holding'
      /\ \A s \in Slots, q \in Proc : Uses(q, s)' /\ Disk(s)'.type = "NONE" => Drops(q, s)'
  BY <1>1, StepIs DEF IInv
<1> QED BY <1>1, <1>2 DEF IInv, Free

\* iput frees the inode on disk, or drops the reference.
LEMMA IputStep ==
  ASSUME IInv, NEW p \in Proc, Iput(p)
  PROVE  IInv'
<1>0. pc[p] = "put"
  BY DEF Iput
<1>1. PICK s \in Slots : s = Head(todo[p])
  BY <1>0, AtPut DEF Putting
<1>2. /\ Place(p) /\ todo[p] \in Seq(Slots) /\ todo[p] # <<>> /\ NoRepeat(todo[p])
      /\ s \in ToSet(todo[p]) /\ Uses(p, s) /\ At(p) = next[p]
      /\ next[p] \in Later /\ call[p] \in Call1 /\ fds[p] \in SUBSET Slots
      /\ it[s].ref \in Nat /\ it[s].ref >= 1 /\ it[s].inum \in Inums
  BY <1>0, <1>1, AtPut DEF Putting
<1>3. CASE ~(it[s].ref = 1 /\ it[s].valid /\ it[s].nlink = 0)
  <2>1. Dropped(p, Head(todo[p])) /\ UNCHANGED <<disk, lock, call, fds, panicked>>
    BY <1>1, <1>3 DEF Iput
  <2> QED BY <1>0, <2>1, DroppedStep DEF IInv, Types
<1>4. CASE it[s].ref = 1 /\ it[s].valid /\ it[s].nlink = 0
  <2> DEFINE i == it[s].inum
             e == [it[s] EXCEPT !.addrs = {}, !.type = "NONE"]
  <2>1. /\ panicked' = (lock[s] # Nobody \/ ~(it[s].addrs \subseteq bitmap))
        /\ lock' = [lock EXCEPT ![s] = p]
        /\ bitmap' = bitmap \ it[s].addrs
        /\ it' = [it EXCEPT ![s] = e]
        /\ dino' = [dino EXCEPT ![i] = FreeInode]
        /\ pc' = [pc EXCEPT ![p] = "invalid"]
        /\ todo' = todo /\ next' = next /\ call' = call /\ fds' = fds
    BY <1>1, <1>4 DEF Iput, Goes
  <2>2. \A q \in Proc \ {p} : ~Uses(q, s)
    BY <1>2, <1>4, RefsNow DEF IInv
  <2>3. lock[s] = Nobody /\ s \notin Freed
    <3>1. ~HasLock(p, s)
      BY <1>0 DEF HasLock
    <3>2. \A q \in Proc : ~(pc[q] = "invalid" /\ Head(todo[q]) = s)
      BY <1>0, <2>2, AtPut DEF Putting
    <3>3. \A q \in Proc \ {p} : ~HasLock(q, s)
      BY <2>2, <3>2 DEF HasLock, Uses, Keeps
    <3> QED BY <3>1, <3>2, <3>3 DEF IInv, Locked, Types, Freed
  <2>4. Copy(it[s], Disk(s)) /\ Disk(s) \in DInode /\ Disk(s).nlink = 0
    BY <1>2, <1>4, <2>3 DEF IInv, Table, Sound, Disk, Types, Copy
  <2>5. it[s].addrs = dino[i].addrs /\ it[s].addrs \subseteq bitmap /\ panicked' = FALSE
    BY <1>2, <2>1, <2>3, <2>4 DEF IInv, Space, Copy, Disk
  <2>6. i # ROOTINO /\ i \in Inums
    BY <1>2, <2>4, Named DEF IInv, Disk
  <2>7. /\ e \in Entry /\ e.inum = i /\ e.ref = 1 /\ e.valid
    BY <1>2, <1>4 DEF IInv, Types, Entry, Types0
  <2> HIDE DEF e
  <2>8. /\ it' \in [Slots -> Entry] /\ it'[s] = e /\ \A u \in Slots \ {s} : it'[u] = it[u]
    BY <2>1, <2>7 DEF IInv, Types
  <2>9. /\ dino' \in [Inums -> DInode] /\ dino'[i] = FreeInode
        /\ \A j \in Inums \ {i} : dino'[j] = dino[j]
    BY <1>2, <2>1, Empty DEF IInv, Types
  <2>10. Local(p, "invalid", todo[p], next[p], call[p], fds[p])
    BY <1>2, <2>1 DEF Local, Others, IInv, Types, Putting
  <2>11. At(p)' = At(p) /\ At(p) \in Later
    BY <1>2, <2>10 DEF Local, At, Putting
  <2>12. Place(p)'
    BY <1>2, <2>10, <2>11 DEF Local, Place, Putting
  <2>13. ~Keeps(p, s)
    <3> SUFFICES ASSUME Keeps(p, s) PROVE FALSE
      OBVIOUS
    <3>1. Count(p, s) <= 1
      BY <1>2, <1>4, RefsNow, CountUses DEF IInv
    <3>2. /\ Bit(s \in ToSet(todo[p])) = 1 /\ Bit(s \in fds[p]) \in Nat
          /\ Bit(call[p].ip = s) \in Nat /\ Bit(call[p].dp = s) \in Nat
      BY <1>2 DEF Bit
    <3>3. Bit(s \in fds[p]) = 1 \/ Bit(call[p].ip = s) = 1 \/ Bit(call[p].dp = s) = 1
      BY DEF Keeps, Bit
    <3>4. Count(p, s) = Bit(s \in fds[p]) + Bit(s \in ToSet(todo[p])) + Bit(call[p].ip = s)
                        + Bit(call[p].dp = s)
      BY DEF Count, Ways
    <3> QED BY <3>1, <3>2, <3>3, <3>4
  <2>14. /\ \A q \in Proc, u \in Slots : Keeps(q, u)' <=> Keeps(q, u)
         /\ \A q \in Proc, u \in Slots : Uses(q, u)' <=> Uses(q, u)
    BY <2>1 DEF Keeps, Uses
  <2>15. Freed' = Freed \cup {s}
    <3>1. \A q \in Proc \ {p} : pc'[q] = pc[q] /\ todo'[q] = todo[q]
      BY <2>10 DEF Local, Others
    <3> QED BY <3>1, <2>10, <1>0, <1>1 DEF Local, Freed
  <2>16. Sound(it', dino', Freed')
    <3>1. Sound(it, dino, Freed)
      BY DEF IInv, Table
    <3>2. \A u \in Slots : it'[u].ref = it[u].ref /\ it'[u].inum = it[u].inum
      BY <1>4, <2>7, <2>8
    <3>3. ASSUME NEW u \in Slots
          PROVE  /\ it'[u].ref = 0 => it'[u] = NoInode
                 /\ it'[u].ref > 0 => it'[u].inum \in Inums
                 /\ it'[u].valid /\ u \notin Freed' => Copy(it'[u], dino'[it'[u].inum])
      <4>1. CASE u = s
        BY <4>1, <1>2, <2>7, <2>8, <2>15
      <4>2. CASE u # s
        <5>1. it[u].ref = 0 => ~it[u].valid
          BY <3>1, Empty DEF Sound
        <5>2. it[u].ref > 0 => it[u].inum # i
          BY <3>1, <4>2, <1>2, <1>4 DEF Sound
        <5>3. it[u].ref \in Nat
          BY DEF IInv, Types, Entry
        <5> QED BY <4>2, <5>1, <5>2, <5>3, <3>1, <2>8, <2>9, <2>15 DEF Sound
      <4> QED BY <4>1, <4>2
    <3> QED BY <3>1, <3>2, <3>3, <2>8 DEF Sound
  <2>17. /\ \A u \in Slots : lock'[u] = p <=> HasLock(p, u)'
         /\ \A u \in Slots, q \in Proc \ {p} : lock'[u] = q <=> lock[u] = q
         /\ lock' \in [Slots -> Proc \cup {Nobody}]
    <3>1. \A u \in Slots : lock[u] # p
      BY <1>0 DEF IInv, Locked, HasLock
    <3>2. \A u \in Slots : HasLock(p, u)' <=> u = s
      BY <1>1, <2>10 DEF Local, HasLock
    <3> QED BY <3>1, <3>2, <2>1, <2>3, InodeConstants DEF IInv, Types
  <2>18. \A u \in Slots : it'[u].ref = it[u].ref + Count(p, u)' - Count(p, u)
    <3> SUFFICES ASSUME NEW u \in Slots PROVE it'[u].ref = it[u].ref + Count(p, u)' - Count(p, u)
      OBVIOUS
    <3>1. it[u].ref \in Nat /\ it'[u].ref = it[u].ref
      BY <1>4, <2>7, <2>8 DEF IInv, Types, Entry
    <3>2. Count(p, u)' = Count(p, u)
      BY <2>1 DEF Count, Ways
    <3> QED BY <3>1, <3>2, CountUses
  <2>19. Guar(p)
    <3>1. Mine(p, s) /\ Frees(p, s)
      BY <1>0, <1>1, <1>2, <1>4, <2>3, <2>10, <2>13, <2>14 DEF Local, Mine, Frees, Drops
    <3>2. \A u \in Slots : it'[u].inum = it[u].inum /\ (it[u].valid => it'[u].valid)
      BY <2>7, <2>8
    <3>3. \A u \in Slots : ~Drops(p, u)
      BY <1>0 DEF Drops
    <3>4. \A j \in Inums : \/ dino'[j] = dino[j]
                           \/ /\ it[s].inum = j /\ Mine(p, s)
                              /\ dino'[j].type = dino[j].type \/ Frees(p, s)
      BY <3>1, <2>9
    <3> QED BY <1>0, <2>14, <3>2, <3>3, <3>4 DEF Guar
  <2>20. Held(p)'
    <3>1. \A u \in Slots : Keeps(p, u) => u # s /\ it'[u] = it[u] /\ (it[u].ref > 0 => Disk(u)' = Disk(u))
      <4> SUFFICES ASSUME NEW u \in Slots, Keeps(p, u)
                   PROVE  u # s /\ it'[u] = it[u] /\ (it[u].ref > 0 => Disk(u)' = Disk(u))
        OBVIOUS
      <4>1. u # s /\ it'[u] = it[u]
        BY <2>8, <2>13
      <4>2. it[u].ref > 0 => it[u].inum \in Inums \ {i}
        BY <4>1, <1>2, <1>4 DEF IInv, Table, Sound
      <4> QED BY <4>1, <4>2, <2>9 DEF Disk
    <3>2. Freeing(p)'
      <4>1. Disk(s)'.nlink = 0
        BY <2>7, <2>8, <2>9 DEF Disk, FreeInode
      <4> QED BY <4>1, <1>1, <2>1, <2>2, <2>13, <2>14 DEF Freeing
    <3>3. call[p].op = "link2" => Disk(call[p].dp)'.type = "FILE"
      <4> SUFFICES ASSUME call[p].op = "link2" PROVE Disk(call[p].dp)'.type = "FILE"
        OBVIOUS
      <4>1. call[p].dp \in Slots /\ Keeps(p, call[p].dp) /\ Disk(call[p].dp).type = "FILE"
        BY <1>2 DEF Place, Call1, Keeps, IInv, Holding, Held
      <4>2. it[call[p].dp].ref > 0
        BY <4>1, RefsNow DEF Uses, IInv
      <4>3. PICK u \in Slots : u = call[p].dp
        BY <4>1
      <4>4. Disk(u)' = Disk(u)
        BY <4>1, <4>2, <4>3, <3>1
      <4> QED BY <4>1, <4>3, <4>4, <2>1 DEF Disk
    <3>4. call[p].dp # 0 => it'[call[p].dp].valid
      BY <1>2, <3>1 DEF IInv, Holding, Held, Call1, Keeps
    <3>5. \A u \in fds[p] : it'[u].valid
      BY <1>2, <3>1 DEF IInv, Holding, Held, Keeps
    <3>6. At(p)' \notin DirPlaces
      BY <2>11 DEF DirPlaces, Later
    <3> QED BY <3>2, <3>3, <3>4, <3>5, <3>6, <2>1, <2>10 DEF Local, Held, DirPlaces
  <2>21. /\ dino'[ROOTINO].type = "DIR"
         /\ \A j \in Inums : /\ dino'[j].type = "NONE" => dino'[j] = FreeInode
                             /\ dino'[j].type = "FILE" => dino'[j].ents = NoEntries
    BY <2>6, <2>9, Numbers DEF IInv, Free, FreeInode
  <2>22. Space'
    <3>1. \A x : x \in bitmap' <=> \E j \in Inums : x \in dino'[j].addrs
      <4>1. \A x : x \in bitmap <=> \E j \in Inums : x \in dino[j].addrs
        BY DEF IInv, Space
      <4>2. \A j \in Inums \ {i} : dino[j].addrs \cap dino[i].addrs = {}
        BY <2>6 DEF IInv, Space
      <4>3. dino'[i].addrs = {}
        BY <2>9 DEF FreeInode
      <4> QED BY <4>1, <4>2, <4>3, <2>1, <2>5, <2>9
    <3>2. \A j, k \in Inums : j # k => dino'[j].addrs \cap dino'[k].addrs = {}
      BY <2>9 DEF FreeInode, IInv, Space
    <3>3. bitmap' = UNION {dino'[j].addrs : j \in Inums}
      BY <3>1
    <3> QED BY <3>2, <3>3 DEF Space
  <2>23. Referenced' => Tree' /\ Linked'
    <3>1. /\ \A d \in Inums, m \in Names : dino'[d].ents[m] # 0 => dino'[d].ents[m] = dino[d].ents[m]
          /\ \A d \in Inums : dino'[d].type = "DIR" => dino[d].type = "DIR"
          /\ \A d \in Inums : dino'[d].nlink >= dino[d].nlink
      <4> SUFFICES ASSUME NEW d \in Inums
                   PROVE  /\ \A m \in Names : dino'[d].ents[m] # 0 => dino'[d].ents[m] = dino[d].ents[m]
                          /\ dino'[d].type = "DIR" => dino[d].type = "DIR"
                          /\ dino'[d].nlink >= dino[d].nlink
        OBVIOUS
      <4>1. dino[d].nlink \in Nat
        BY DEF IInv, Types, DInode
      <4>2. CASE d = i
        BY <4>2, <2>4, <2>9 DEF FreeInode, NoEntries, Disk
      <4>3. CASE d # i
        BY <4>1, <4>3, <2>9
      <4> QED BY <4>2, <4>3
    <3>2. Others(p) /\ call'[p] = call[p]
      BY <2>10 DEF Local
    <3> QED BY <3>1, <3>2, <2>9, <2>19, Shrinks DEF IInv
  <2>24. bitmap' \in SUBSET Blocks
    BY <2>1 DEF IInv, Types
  <2> HIDE DEF i
  <2> QED BY <2>5, <2>9, <2>10, <2>12, <2>16, <2>17, <2>18, <2>19, <2>20, <2>21, <2>22, <2>23, <2>24, Changes
<1> QED BY <1>3, <1>4

-----------------------------------------------------------------------------
(* write and close *)

\* iupdate, with names for the new disk and the inode.
LEMMA Writes ==
  ASSUME NEW t, NEW d, NEW x, Sound(t, d, x), d \in [Inums -> DInode],
         NEW s \in Slots, t[s].ref > 0, t[s].type # "NONE",
         NEW e, e = Iupdate(d, t, s), NEW i, i = t[s].inum
  PROVE  /\ Sound(t, e, x \ {s}) /\ e \in [Inums -> DInode] /\ i \in Inums
         /\ \A j \in Inums \ {i} : e[j] = d[j]
         /\ e[i].ents = d[i].ents /\ Copy(t[s], e[i])
<1>1. LET f == Iupdate(d, t, s) k == t[s].inum IN
      /\ Sound(t, f, x \ {s}) /\ f \in [Inums -> DInode] /\ k \in Inums
      /\ \A j \in Inums \ {k} : f[j] = d[j]
      /\ f[k].ents = d[k].ents /\ Copy(t[s], f[k])
  BY IupdateIs
<1> QED BY <1>1

Rewrites(s, B) == /\ it' = [it EXCEPT ![s].addrs = B] /\ dino' = Iupdate(dino, it', s)
                  /\ UNCHANGED <<lock, pc, call, todo, next, fds>>

\* p writes the inode of an entry s that it has locked for the step, but for
\* its type, its links and its entries.
LEMMA BlocksStep ==
  ASSUME IInv, NEW p \in Proc, NEW s \in Slots, pc[p] = "user", s \in fds[p],
         lock[s] = Nobody, NEW B \in SUBSET Blocks,
         Rewrites(s, B), bitmap' \in SUBSET Blocks, panicked' = FALSE, Space'
  PROVE  IInv'
<1> DEFINE i == it[s].inum
           e == [it[s] EXCEPT !.addrs = B]
<1>1. /\ todo[p] = <<>> /\ call[p] = NoCall /\ Place(p) /\ call[p] \in Call1 /\ At(p) = "user"
      /\ next[p] \in Later /\ fds[p] \in SUBSET Slots /\ Uses(p, s)
  BY AtRest DEF IInv, Places, Later, Place, Uses, Keeps
<1>2. s \notin Freed /\ it[s].ref > 0 /\ i \in Inums /\ Disk(s).type # "NONE" /\ Disk(s) \in DInode
  BY <1>1, Looked, CalmIs DEF Calm, Places, Later
<1>3. it[s].valid /\ Copy(it[s], Disk(s))
  BY <1>2 DEF IInv, Holding, Held, Table, Sound, Disk
<1>4. /\ e \in Entry /\ e.inum = i /\ e.ref = it[s].ref /\ e.valid /\ e.type = it[s].type
      /\ e.nlink = it[s].nlink /\ e.addrs = B
  BY <1>3 DEF IInv, Types, Entry
<1>5. it' = [it EXCEPT ![s] = e]
  BY DEF Rewrites
<1> HIDE DEF e
<1>0. lock' = lock /\ pc' = pc /\ call' = call /\ todo' = todo /\ next' = next /\ fds' = fds
  BY DEF Rewrites
<1>6. /\ it' \in [Slots -> Entry] /\ it'[s] = e /\ \A u \in Slots \ {s} : it'[u] = it[u]
  <2>1. it \in [Slots -> Entry]
    BY DEF IInv, Types
  <2> QED BY <2>1, <1>4, <1>5
<1>7. Sound(it', dino, Freed \cup {s})
  <2>1. Same(it, it')
    BY <1>2, <1>3, <1>4, <1>6, SameIt DEF Same
  <2>2. Sound(it, dino, Freed)
    BY DEF IInv, Table
  <2>3. \A u \in Slots : u \notin {s} /\ u \notin Freed => it'[u] = it[u] \/ Copy(it'[u], dino[it'[u].inum])
    BY <1>6
  <2>4. \A u \in Slots : it[u].ref = 0 => it'[u] = it[u]
    BY <1>2, <1>6 DEF IInv, Types, Entry
  <2> QED BY <2>1, <2>2, <2>3, <2>4, SoundSame
<1>8. /\ Sound(it', dino', (Freed \cup {s}) \ {s}) /\ dino' \in [Inums -> DInode]
      /\ \A j \in Inums \ {i} : dino'[j] = dino[j]
      /\ dino'[i].ents = dino[i].ents /\ Copy(it'[s], dino'[i])
  <2>1. it'[s].ref > 0 /\ it'[s].inum = i /\ dino \in [Inums -> DInode] /\ it'[s].type # "NONE"
    BY <1>2, <1>3, <1>4, <1>6 DEF IInv, Types, Copy, Disk
  <2>2. dino' = Iupdate(dino, it', s)
    BY DEF Rewrites
  <2> QED BY <1>7, <2>1, <2>2, Writes
<1>9. Sound(it', dino', Freed') /\ Freed' = Freed
  <2>1. Freed' = Freed /\ (Freed \cup {s}) \ {s} = Freed
    BY <1>0, <1>2 DEF Freed
  <2> QED BY <2>1, <1>8
<1>10. /\ dino'[i].type = dino[i].type /\ dino'[i].nlink = dino[i].nlink
  <2>1. dino'[i].type = e.type /\ dino'[i].nlink = e.nlink
    BY <1>6, <1>8 DEF Copy
  <2>2. e.type = dino[i].type /\ e.nlink = dino[i].nlink
    BY <1>3, <1>4 DEF Copy, Disk
  <2> QED BY <2>1, <2>2
<1>11. \A j \in Inums : /\ dino'[j].type = dino[j].type /\ dino'[j].nlink = dino[j].nlink
                        /\ dino'[j].ents = dino[j].ents
  BY <1>8, <1>10
<1>12. Local(p, "user", <<>>, next[p], NoCall, fds[p])
  BY <1>0, <1>1 DEF Local, Others, IInv, Types
<1>13. Place(p)' /\ At(p)' = "user"
  BY <1>0, <1>1 DEF Place, At
<1>14. /\ \A u \in Slots : lock'[u] = p <=> HasLock(p, u)'
       /\ \A u \in Slots, q \in Proc \ {p} : lock'[u] = q <=> lock[u] = q
       /\ lock' \in [Slots -> Proc \cup {Nobody}]
  BY <1>0 DEF IInv, Locked, HasLock, Types
<1>15. \A u \in Slots : it'[u].ref = it[u].ref + Count(p, u)' - Count(p, u)
  <2> SUFFICES ASSUME NEW u \in Slots PROVE it'[u].ref = it[u].ref + Count(p, u)' - Count(p, u)
    OBVIOUS
  <2>1. it[u].ref \in Nat /\ it'[u].ref = it[u].ref
    BY <1>4, <1>6 DEF IInv, Types, Entry
  <2>2. Count(p, u)' = Count(p, u)
    BY <1>0 DEF Count, Ways
  <2> QED BY <2>1, <2>2, CountUses
<1>16. Guar(p)
  <2>1. \A u \in Slots : it'[u].inum = it[u].inum /\ (it[u].valid => it'[u].valid)
    BY <1>4, <1>6
  <2>2. \A u \in Slots : ~Drops(p, u) /\ (Uses(p, u)' <=> Uses(p, u))
    BY <1>0 DEF Drops, Uses, Keeps
  <2>3. Mine(p, s)
    BY <1>1, <2>2 DEF Mine
  <2>4. \A j \in Inums : \/ dino'[j] = dino[j]
                         \/ it[s].inum = j /\ Mine(p, s) /\ dino'[j].type = dino[j].type
    BY <2>3, <1>8, <1>11
  <2> QED BY <2>1, <2>2, <2>4, <1>0 DEF Guar
<1>17. Held(p)'
  <2>1. \A u \in fds[p] : it'[u].valid
    BY <1>1, <1>4, <1>6 DEF IInv, Holding, Held
  <2> QED BY <2>1, <1>0, <1>1, <1>13 DEF Held, NoCall, DirPlaces
<1>18. /\ dino'[ROOTINO].type = "DIR"
       /\ \A j \in Inums : /\ dino'[j].type = "NONE" => dino'[j] = FreeInode
                           /\ dino'[j].type = "FILE" => dino'[j].ents = NoEntries
  <2>1. dino'[i].type # "NONE"
    BY <1>2, <1>11 DEF Disk
  <2>2. \A j \in Inums : j # i => dino'[j] = dino[j]
    BY <1>8
  <2>3. /\ dino[ROOTINO].type = "DIR" /\ ROOTINO \in Inums
        /\ \A j \in Inums : /\ dino[j].type = "NONE" => dino[j] = FreeInode
                            /\ dino[j].type = "FILE" => dino[j].ents = NoEntries
    BY Numbers DEF IInv, Free
  <2> HIDE DEF i
  <2> QED BY <2>1, <2>2, <2>3, <1>11
<1>19. Referenced' => Tree' /\ Linked'
  <2>1. \A d \in Inums : dino'[d].nlink >= dino[d].nlink
    <3>1. \A d \in Inums : dino[d].nlink \in Nat
      BY DEF IInv, Types, DInode
    <3> QED BY <3>1, <1>11
  <2>2. Others(p) /\ call'[p] = call[p]
    BY <1>0, <1>12 DEF Local
  <2> QED BY <2>1, <2>2, <1>8, <1>11, <1>16, Shrinks DEF IInv
<1> HIDE DEF i
<1> QED BY <1>8, <1>9, <1>12, <1>13, <1>14, <1>15, <1>16, <1>17, <1>18, <1>19, Changes

\* filewrite: the block was in no file.
LEMMA WriteStep ==
  ASSUME IInv, NEW p \in Proc, NEW s \in Slots, Write(p, s)
  PROVE  IInv'
<1> DEFINE unused == Blocks \ bitmap
           new == IF it[s].addrs # {} \/ unused = {} THEN {} ELSE {Min(unused)}
           i == it[s].inum
<1>1. /\ pc[p] = "user" /\ s \in fds[p] /\ lock[s] = Nobody /\ panicked' = FALSE
      /\ it' = [it EXCEPT ![s].addrs = it[s].addrs \cup new]
      /\ dino' = Iupdate(dino, it', s) /\ bitmap' = bitmap \cup new
      /\ UNCHANGED <<lock, pc, call, todo, next, fds>>
  BY DEF Write, Locks, IInv, Types
<1>2. new \subseteq unused /\ (new # {} => it[s].addrs = {})
  <2>1. unused # {} => Min(unused) \in unused
    BY InodeConstants, Least
  <2> QED BY <2>1
<1> HIDE DEF new
<1>3. Uses(p, s) /\ it[s].addrs \subseteq Blocks /\ bitmap \subseteq Blocks
  BY <1>1 DEF Uses, Keeps, IInv, Types, Entry
<1>4. /\ s \notin Freed /\ i \in Inums /\ it[s].valid /\ Copy(it[s], dino[i])
      /\ it \in [Slots -> Entry] /\ it[s] \in Entry
  BY <1>1, <1>3, Looked, CalmIs DEF Calm, Places, Later, IInv, Holding, Held, Table, Sound, Types
<1>5. Space'
  <2>1. it'[s].inum = i /\ it'[s].addrs = it[s].addrs \cup new
    BY <1>1, <1>4 DEF Entry
  <2>2. /\ dino'[i].addrs = dino[i].addrs \cup new
        /\ \A j \in Inums \ {i} : dino'[j] = dino[j]
    <3>1. dino[i] \in DInode
      BY <1>4 DEF IInv, Types
    <3> QED BY <3>1, <2>1, <1>1, <1>4 DEF Iupdate, Stored, Copy, DInode, IInv, Types
  <2>3. \A x : x \in bitmap <=> \E j \in Inums : x \in dino[j].addrs
    BY DEF IInv, Space
  <2>4. \A x : x \in bitmap' <=> \E j \in Inums : x \in dino'[j].addrs
    BY <1>1, <1>4, <2>2, <2>3
  <2>5. \A j \in Inums : dino[j].addrs \cap new = {}
    BY <2>3, <1>2
  <2>6. \A j, k \in Inums : j # k => dino'[j].addrs \cap dino'[k].addrs = {}
    BY <2>2, <2>5, <1>4 DEF IInv, Space
  <2>7. bitmap' = UNION {dino'[j].addrs : j \in Inums}
    BY <2>4
  <2> QED BY <2>6, <2>7 DEF Space
<1>6. it[s].addrs \cup new \in SUBSET Blocks /\ bitmap' \in SUBSET Blocks
  BY <1>1, <1>2, <1>3
<1> QED BY <1>1, <1>5, <1>6, BlocksStep DEF Rewrites

\* itrunc, of an open file: its blocks were in no other.
LEMMA TruncateStep ==
  ASSUME IInv, NEW p \in Proc, NEW s \in Slots, Truncate(p, s)
  PROVE  IInv'
<1> DEFINE i == it[s].inum
<1>1. /\ pc[p] = "user" /\ s \in fds[p] /\ lock[s] = Nobody
      /\ panicked' = ~(it[s].addrs \subseteq bitmap)
      /\ it' = [it EXCEPT ![s].addrs = {}]
      /\ dino' = Iupdate(dino, it', s) /\ bitmap' = bitmap \ it[s].addrs
      /\ UNCHANGED <<lock, pc, call, todo, next, fds>>
  BY DEF Truncate, Locks
<1>3. Uses(p, s) /\ bitmap \subseteq Blocks
  BY <1>1 DEF Uses, Keeps, IInv, Types, Entry
<1>4. /\ s \notin Freed /\ i \in Inums /\ it[s].valid /\ Copy(it[s], dino[i])
      /\ it \in [Slots -> Entry] /\ it[s] \in Entry
  BY <1>1, <1>3, Looked, CalmIs DEF Calm, Places, Later, IInv, Holding, Held, Table, Sound, Types
<1>5. Space' /\ panicked' = FALSE
  <2>1. it'[s].inum = i /\ it'[s].addrs = {}
    BY <1>1, <1>4 DEF Entry
  <2>2. /\ dino'[i].addrs = {} /\ it[s].addrs = dino[i].addrs
        /\ \A j \in Inums \ {i} : dino'[j] = dino[j]
    <3>1. dino[i] \in DInode
      BY <1>4 DEF IInv, Types
    <3> QED BY <3>1, <2>1, <1>1, <1>4 DEF Iupdate, Stored, Copy, DInode, IInv, Types
  <2>3. \A x : x \in bitmap <=> \E j \in Inums : x \in dino[j].addrs
    BY DEF IInv, Space
  <2>4. \A j \in Inums \ {i} : dino[j].addrs \cap dino[i].addrs = {}
    BY <1>4 DEF IInv, Space
  <2>5. \A x : x \in bitmap' <=> \E j \in Inums : x \in dino'[j].addrs
    BY <1>1, <1>4, <2>2, <2>3, <2>4
  <2>6. \A j, k \in Inums : j # k => dino'[j].addrs \cap dino'[k].addrs = {}
    BY <2>2, <1>4 DEF IInv, Space
  <2>7. bitmap' = UNION {dino'[j].addrs : j \in Inums}
    BY <2>5
  <2>8. it[s].addrs \subseteq bitmap
    BY <1>4, <2>2, <2>3
  <2> QED BY <2>6, <2>7, <2>8, <1>1 DEF Space
<1>6. {} \in SUBSET Blocks /\ bitmap' \in SUBSET Blocks
  BY <1>1, <1>3
<1> QED BY <1>1, <1>5, <1>6, BlocksStep DEF Rewrites

-----------------------------------------------------------------------------
(* Links are counted. *)

\* The copy of s gets k links, and goes to disk: the table is u, the disk f.
Relink(t, e, s, k, u, f) == LET i == t[s].inum IN
    /\ Same(t, u) /\ Sound(u, f, Freed) /\ f \in [Inums -> DInode] /\ i \in Inums
    /\ \A v \in Slots \ {s} : u[v] = t[v]
    /\ u[s] = [t[s] EXCEPT !.nlink = k] /\ u[s].valid /\ u[s].nlink = k
    /\ u[s].type = t[s].type /\ u[s].ref = t[s].ref /\ u[s].inum = i /\ u[s].addrs = t[s].addrs
    /\ \A j \in Inums \ {i} : f[j] = e[j]
    /\ f[i].ents = e[i].ents /\ f[i].nlink = k /\ f[i].type = e[i].type
    /\ f[i].addrs = e[i].addrs /\ e[i].type = t[s].type /\ e[i].type # "NONE"

\* WithLinks and iupdate.
LEMMA Relinked ==
  ASSUME NEW t, NEW e, Sound(t, e, Freed), e \in [Inums -> DInode],
         NEW s \in Slots, s \notin Freed, t[s].ref > 0, t[s].valid, NEW k \in Nat
  PROVE  Relink(t, e, s, k, WithLinks(t, s, k), Iupdate(e, WithLinks(t, s, k), s))
<1> DEFINE u == WithLinks(t, s, k)
           f == Iupdate(e, u, s)
           i == t[s].inum
<1>1. /\ t \in [Slots -> Entry] /\ t[s] \in Entry /\ i \in Inums /\ Copy(t[s], e[i])
      /\ \A v \in Slots : t[v].valid => t[v].ref > 0
  BY Empty DEF Sound, Entry
<1>2. /\ [t[s] EXCEPT !.nlink = k] \in Entry /\ u = [t EXCEPT ![s] = [t[s] EXCEPT !.nlink = k]]
  BY <1>1 DEF Entry, WithLinks
<1> HIDE DEF u
<1>3. /\ u \in [Slots -> Entry] /\ (\A v \in Slots \ {s} : u[v] = t[v])
      /\ u[s] = [t[s] EXCEPT !.nlink = k]
  BY <1>1, <1>2
<1>4. /\ u[s].valid /\ u[s].nlink = k /\ u[s].type = t[s].type /\ u[s].ref = t[s].ref
      /\ u[s].inum = i /\ u[s].addrs = t[s].addrs
  BY <1>1, <1>3 DEF Entry
<1>5. Same(t, u)
  <2> SUFFICES ASSUME NEW v \in Slots
               PROVE  /\ u[v].ref = t[v].ref /\ u[v].inum = t[v].inum
                      /\ t[v].valid => u[v].valid
                      /\ u[v].valid => t[v].ref > 0
    BY <1>3 DEF Same
  <2>1. CASE v = s
    BY <2>1, <1>4
  <2>2. CASE v # s
    BY <2>2, <1>1, <1>3
  <2> QED BY <2>1, <2>2
<1>6. Sound(u, e, Freed \cup {s})
  <2>1. \A v \in Slots : v \notin {s} /\ v \notin Freed => u[v] = t[v] \/ Copy(u[v], e[u[v].inum])
    BY <1>3
  <2>2. \A v \in Slots : t[v].ref = 0 => u[v] = t[v]
    BY <1>1, <1>3 DEF Entry
  <2> QED BY <1>5, <2>1, <2>2, SoundSame
<1>7. (Freed \cup {s}) \ {s} = Freed
  OBVIOUS
<1>8. u[s].ref > 0 /\ u[s].type # "NONE"
  BY <1>1, <1>4 DEF Copy
<1>9. /\ Sound(u, f, (Freed \cup {s}) \ {s}) /\ f \in [Inums -> DInode]
      /\ \A j \in Inums \ {u[s].inum} : f[j] = e[j]
      /\ f[u[s].inum].ents = e[u[s].inum].ents /\ Copy(u[s], f[u[s].inum])
  BY <1>6, <1>8, Writes
<1> HIDE DEF f
<1>10. Copy(u[s], f[i]) /\ f[i].ents = e[i].ents /\ \A j \in Inums \ {i} : f[j] = e[j]
  BY <1>4, <1>9
<1>11. /\ f[i].nlink = k /\ f[i].type = e[i].type
       /\ f[i].addrs = e[i].addrs /\ e[i].type = t[s].type /\ e[i].type # "NONE"
  BY <1>1, <1>4, <1>10 DEF Copy
<1>12. Relink(t, e, s, k, u, f)
  BY <1>1, <1>3, <1>4, <1>5, <1>7, <1>9, <1>10, <1>11 DEF Relink
<1> QED BY <1>12 DEF u, f

\* A copy that gets the links it has is the same.
LEMMA SameLinks ==
  ASSUME NEW t \in [Slots -> Entry], NEW s \in Slots
  PROVE  WithLinks(t, s, t[s].nlink) = t
<1>1. [t[s] EXCEPT !.nlink = t[s].nlink] = t[s]
  BY DEF Entry
<1> QED BY <1>1 DEF WithLinks

\* Two copies get links and go to disk, and the second, a directory, has a name
\* entered.
Relink2(t, s, d, k, l, n, i, u, f) == LET is == t[s].inum id == t[d].inum IN
    /\ Same(t, u) /\ Sound(u, f, Freed) /\ f \in [Inums -> DInode]
    /\ is \in Inums /\ id \in Inums /\ is # id
    /\ u[s].valid /\ u[d].valid
    /\ \A j \in Inums \ {is, id} : f[j] = dino[j]
    /\ f[is].nlink = k /\ f[is].ents = dino[is].ents
    /\ f[id].nlink = l /\ f[id].ents = [dino[id].ents EXCEPT ![n] = i]
    /\ \A j \in Inums : f[j].type = dino[j].type /\ f[j].addrs = dino[j].addrs
Write2(u, s, d, n, i) == Enter(Iupdate(Iupdate(dino, u, s), u, d), u[d].inum, n, i)

\* Both copies, one after the other.
LEMMA TwoLinks ==
  ASSUME NEW t, Sound(t, dino, Freed), dino \in [Inums -> DInode],
         NEW s \in Slots, s \notin Freed, t[s].ref > 0, t[s].valid,
         NEW d \in Slots, d \notin Freed, t[d].ref > 0, t[d].valid, s # d,
         NEW k \in Nat, NEW l \in Nat, NEW n \in Names, NEW i \in Inums \cup {0},
         NEW t2, t2 = WithLinks(WithLinks(t, s, k), d, l)
  PROVE  Relink2(t, s, d, k, l, n, i, t2, Write2(t2, s, d, n, i))
<1> DEFINE t1 == WithLinks(t, s, k)
           e1 == Iupdate(dino, t1, s)
           e2 == Iupdate(e1, t2, d)
           is == t[s].inum
           id == t[d].inum
<1>0. Relink(t, dino, s, k, t1, e1)
  BY Relinked
<1>0a. t2 = WithLinks(t1, d, l)
  OBVIOUS
<1> HIDE DEF t1, e1
<1>1. /\ Same(t, t1) /\ Sound(t1, e1, Freed) /\ e1 \in [Inums -> DInode] /\ is \in Inums
      /\ \A v \in Slots \ {s} : t1[v] = t[v]
      /\ t1[s].valid /\ t1[s].inum = is
      /\ \A j \in Inums \ {is} : e1[j] = dino[j]
      /\ e1[is].ents = dino[is].ents /\ e1[is].nlink = k /\ e1[is].type = dino[is].type
      /\ e1[is].addrs = dino[is].addrs
  BY <1>0 DEF Relink
<1>2. t1[d].ref > 0 /\ t1[d].valid /\ t1[d].inum = id
  BY <1>1
<1>3a. Relink(t1, e1, d, l, t2, e2)
  BY <1>0a, <1>1, <1>2, Relinked
<1> HIDE DEF e2
<1>3. /\ Same(t1, t2) /\ Sound(t2, e2, Freed) /\ e2 \in [Inums -> DInode] /\ id \in Inums
      /\ \A v \in Slots \ {d} : t2[v] = t1[v]
      /\ t2[d].valid /\ t2[d].inum = id
      /\ \A j \in Inums \ {id} : e2[j] = e1[j]
      /\ e2[id].ents = e1[id].ents /\ e2[id].nlink = l /\ e2[id].type = e1[id].type
      /\ e2[id].addrs = e1[id].addrs
  BY <1>3a, <1>2 DEF Relink
<1>4. is # id
  BY DEF Sound
<1>5. t2[s] = t1[s]
  BY <1>3
<1>6. Iupdate(dino, t2, s) = e1
  BY <1>5 DEF Iupdate, e1
<1> DEFINE f == Enter(e2, id, n, i)
<1>7. Write2(t2, s, d, n, i) = f
  BY <1>3, <1>6 DEF Write2, e2
<1>8. /\ f \in [Inums -> DInode]
      /\ \A j \in Inums \ {id} : f[j] = e2[j]
      /\ f[id].type = e2[id].type /\ f[id].nlink = e2[id].nlink /\ f[id].addrs = e2[id].addrs
      /\ f[id].ents = [e2[id].ents EXCEPT ![n] = i]
      /\ Sound(t2, f, Freed)
  <2>1. LET g == Enter(e2, id, n, i) IN
         /\ g \in [Inums -> DInode]
         /\ \A j \in Inums \ {id} : g[j] = e2[j]
         /\ g[id].type = e2[id].type /\ g[id].nlink = e2[id].nlink /\ g[id].addrs = e2[id].addrs
         /\ g[id].ents = [e2[id].ents EXCEPT ![n] = i]
         /\ \A v, x : Sound(v, e2, x) => Sound(v, g, x)
    BY <1>3, EnterIs
  <2> QED BY <2>1, <1>3
<1> HIDE DEF f, is, id
<1>9. Same(t, t2)
  BY <1>1, <1>3 DEF Same
<1>10. \A j \in Inums : f[j].type = dino[j].type /\ f[j].addrs = dino[j].addrs
  BY <1>1, <1>3, <1>4, <1>8
<1>11. /\ f[is].nlink = k /\ f[is].ents = dino[is].ents
       /\ f[id].nlink = l /\ f[id].ents = [dino[id].ents EXCEPT ![n] = i]
       /\ \A j \in Inums \ {is, id} : f[j] = dino[j]
  BY <1>1, <1>3, <1>4, <1>8
<1> QED BY <1>1, <1>3, <1>4, <1>5, <1>7, <1>8, <1>9, <1>10, <1>11 DEF Relink2, is, id

\* A step that changes links and entries, of inodes that p has locked.
LEMMA Edits ==
  ASSUME IInv, NEW p \in Proc, NEW a, NEW ss, NEW n, NEW c, NEW F,
         Local(p, a, ss, n, c, F), panicked' = FALSE, bitmap' = bitmap,
         dino' \in [Inums -> DInode], Sound(it', dino', Freed),
         lock' \in [Slots -> Proc \cup {Nobody}],
         \A s \in Slots : lock'[s] = p <=> HasLock(p, s)',
         \A s \in Slots, q \in Proc \ {p} : lock'[s] = q <=> lock[s] = q,
         \A s \in Slots : it'[s].ref = it[s].ref + Count(p, s)' - Count(p, s),
         \A s \in Slots : it[s].ref > 0 =>
            it'[s].inum = it[s].inum /\ (it[s].valid => it'[s].valid),
         Place(p)', Held(p)',
         \A j \in Inums : /\ dino'[j].type = dino[j].type /\ dino'[j].addrs = dino[j].addrs
                          /\ dino'[j].ents = dino[j].ents \/ dino[j].type = "DIR"
                          /\ dino'[j] = dino[j] \/ \E u \in Slots : it[u].inum = j /\ Mine(p, u),
         \A s \in Slots : Uses(p, s)' => Uses(p, s) \/ dino[it'[s].inum].nlink >= 1,
         pc[p] \notin Putting, a # "invalid",
         pc[p] = "fresh" => lock[call[p].ip] = Nobody,
         Tree', Referenced' /\ Guar(p) => Linked'
  PROVE  IInv'
<1>1. Others(p) /\ pc'[p] = a
  BY DEF Local
<1>2. Freed' = Freed
  <2>1. \A q \in Proc \ {p} : pc'[q] = pc[q] /\ todo'[q] = todo[q]
    BY <1>1 DEF Others
  <2> QED BY <2>1, <1>1 DEF Freed, Putting
<1>3. \A s \in Slots : ~Drops(p, s)
  BY DEF Drops, Putting
<1>4. Guar(p)
  <2>1. \A i \in Inums : \/ dino'[i] = dino[i]
                         \/ \E u \in Slots : /\ it[u].inum = i /\ Mine(p, u)
                                             /\ dino'[i].type = dino[i].type \/ Frees(p, u)
    OBVIOUS
  <2> QED BY <2>1, <1>3 DEF Guar
<1>5. \A j \in Inums : /\ dino'[j].type = "NONE" => dino'[j] = FreeInode
                       /\ dino'[j].type = "FILE" => dino'[j].ents = NoEntries
  <2> SUFFICES ASSUME NEW j \in Inums
               PROVE  /\ dino'[j].type = "NONE" => dino'[j] = FreeInode
                      /\ dino'[j].type = "FILE" => dino'[j].ents = NoEntries
    OBVIOUS
  <2>1. \A u \in Slots : it[u].inum = j /\ Mine(p, u) => dino[j].type # "NONE"
    BY DEF Mine, IInv, Free, Disk
  <2>2. dino[j].type = "NONE" => dino'[j] = dino[j]
    BY <2>1
  <2>3. /\ dino[j].type = "NONE" => dino[j] = FreeInode
        /\ dino[j].type = "FILE" => dino[j].ents = NoEntries
    BY DEF IInv, Free
  <2>4. /\ dino'[j].type = dino[j].type
        /\ dino'[j].ents = dino[j].ents \/ dino[j].type = "DIR"
    OBVIOUS
  <2> QED BY <2>2, <2>3, <2>4
<1>6. Space'
  BY SpaceKept DEF IInv
<1>7. dino'[ROOTINO].type = "DIR" /\ bitmap' \in SUBSET Blocks
  BY Numbers DEF IInv, Free, Types
<1>8. Sound(it', dino', Freed')
  BY <1>2
<1> QED BY <1>4, <1>5, <1>6, <1>7, <1>8, Changes

\* The name that p makes or removes.
LEMMA NameIs ==
  ASSUME Types, NEW p \in Proc, call[p].path # <<>>
  PROVE  Name(p) \in Names
BY DEF Name, Last, Types, Call1

\* A directory has no entry for itself.
LEMMA NotSelf ==
  ASSUME Tree, dino \in [Inums -> DInode], NEW d \in Inums, dino[d].type = "DIR", NEW n \in Names
  PROVE  dino[d].ents[n] # d
<1>1. PICK r \in [Inums -> Nat] : Ranked(r)
  BY DEF Tree
<1>2. ASSUME dino[d].ents[n] = d PROVE FALSE
  <2>1. r[d] < r[d] /\ r[d] \in Nat
    BY <1>1, <1>2, Numbers DEF Ranked
  <2> QED BY <2>1
<1> QED BY <1>2

\* An inode with a subdirectory or a promise has a link.
LEMMA Needed ==
  ASSUME Types, Linked, NEW i \in Inums, SubDirs(i) # {} \/ Promised(i) # {}
  PROVE  dino[i].nlink >= 1
<1>1. /\ IsFiniteSet(Entries(i)) /\ IsFiniteSet(SubDirs(i)) /\ IsFiniteSet(Promised(i))
      /\ dino[i].nlink >= Links(i) /\ dino[i].nlink \in Nat
  BY LinkSets DEF Linked, Types, DInode
<1>2. /\ Cardinality(Entries(i)) \in Nat /\ Cardinality(SubDirs(i)) \in Nat
      /\ Cardinality(Promised(i)) \in Nat /\ IsRoot(i) \in Nat
      /\ Cardinality(SubDirs(i)) # 0 \/ Cardinality(Promised(i)) # 0
  BY <1>1, FS_CardinalityType, FS_EmptySet DEF IsRoot
<1>3. Links(i) = Cardinality(Entries(i)) + Cardinality(SubDirs(i)) + Cardinality(Promised(i)) + IsRoot(i)
  BY DEF Links
<1> QED BY <1>1, <1>2, <1>3

-----------------------------------------------------------------------------
(* create *)

\* The inode of the directory is locked while p waits for another one's lock.
LEMMA TakesLock ==
  ASSUME IInv, NEW p \in Proc, pc[p] \in Calm, NEW d \in Slots, lock[d] = Nobody,
         pc'[p] \in {"fresh", "remove"}, call'[p].dp = d, lock' = [lock EXCEPT ![d] = p]
  PROVE  /\ lock' \in [Slots -> Proc \cup {Nobody}]
         /\ \A s \in Slots : lock'[s] = p <=> HasLock(p, s)'
         /\ \A s \in Slots, q \in Proc \ {p} : lock'[s] = q <=> lock[s] = q
<1>1. \A s \in Slots : lock[s] # p
  BY CalmIs DEF IInv, Locked
<1>2. lock \in [Slots -> Proc \cup {Nobody}]
  BY DEF IInv, Types
<1> QED BY <1>1, <1>2, InodeConstants DEF HasLock

\* The lock of the directory is given up again.
LEMMA GivesLock ==
  ASSUME IInv, NEW p \in Proc, pc[p] \in {"fresh", "remove"}, NEW d \in Slots, call[p].dp = d,
         pc'[p] = "put", lock' = [lock EXCEPT ![d] = Nobody]
  PROVE  /\ lock' \in [Slots -> Proc \cup {Nobody}]
         /\ \A s \in Slots : lock'[s] = p <=> HasLock(p, s)'
         /\ \A s \in Slots, q \in Proc \ {p} : lock'[s] = q <=> lock[s] = q
         /\ lock[d] = p
<1>1. \A s \in Slots : lock[s] = p <=> s = d
  BY DEF IInv, Locked, HasLock
<1>2. lock \in [Slots -> Proc \cup {Nobody}]
  BY DEF IInv, Types
<1> QED BY <1>1, <1>2, InodeConstants DEF HasLock

\* p ends its system call, and gives both inodes to be put, or one when it has
\* opened the other.
LEMMA BothEnd ==
  ASSUME IInv, NEW p \in Proc, pc[p] \in {"fresh", "remove"},
         NEW s \in Slots, NEW d \in Slots, s = call[p].ip, d = call[p].dp, s # d,
         Ends(p, <<s, d>>) \/ Ends(p, <<d, s>>), fds' = fds
  PROVE  \E ss : /\ Local(p, "put", ss, "user", NoCall, fds[p])
                 /\ Place(p)' /\ \A u \in Slots : Count(p, u)' = Count(p, u)
<1>1. PICK ss \in {<<s, d>>, <<d, s>>} : Ends(p, ss)
  OBVIOUS
<1>2. /\ ss \in Seq(Slots) /\ ss # <<>> /\ NoRepeat(ss) /\ \A u : u \in ToSet(ss) <=> u = s \/ u = d
  <2>1. CASE ss = <<s, d>>
    BY <2>1, ToPut
  <2>2. CASE ss = <<d, s>>
    BY <2>2, ToPut
  <2> QED BY <2>1, <2>2, <1>1
<1>3. /\ pc' = [pc EXCEPT ![p] = "put"] /\ todo' = [todo EXCEPT ![p] = ss]
      /\ next' = [next EXCEPT ![p] = "user"] /\ call' = [call EXCEPT ![p] = NoCall]
  BY <1>1 DEF Ends, Puts
<1>4. todo[p] = <<>> /\ ToSet(todo[p]) = {} /\ Place(p) /\ NoCall \in Call1
  BY AtRest, NonePut DEF IInv, Places
<1>5. Local(p, "put", ss, "user", NoCall, fds[p])
  BY <1>2, <1>3, <1>4 DEF Local, Others, IInv, Types, Putting, Later
<1>6. Place(p)'
  BY <1>2, <1>4, <1>5, NonePut DEF Local, Place, At, Putting
<1>7. \A u \in Slots : Count(p, u)' = Count(p, u)
  <2> SUFFICES ASSUME NEW u \in Slots PROVE Count(p, u)' = Count(p, u)
    OBVIOUS
  <2> QED BY <1>2, <1>4, <1>5, Numbers DEF Local, Count, Ways, Bit, NoCall
<1> QED BY <1>5, <1>6, <1>7

-----------------------------------------------------------------------------
(* unlink *)

\* sys_unlink finds the inode, with the directory locked.
LEMMA UnlinkStep ==
  ASSUME IInv, ~MayFill, NEW p \in Proc, Unlink(p)
  PROVE  IInv'
<1>1. pc[p] = "unlink" /\ pc[p] \in Calm \cap Places
  BY DEF Unlink, Locks, Calm, Places, Later
<1>2. /\ Place(p) /\ At(p) = "unlink" /\ call[p].ip \in Slots /\ call[p].op = "unlink"
      /\ call[p].dp = 0 /\ todo[p] = <<>> /\ ToSet(todo[p]) = {} /\ call[p] \in Call1
      /\ next[p] \in Later /\ call[p].path # <<>> /\ fds[p] \in SUBSET Slots
  BY <1>1, AtRest DEF IInv, Place
<1>3. PICK d \in Slots : d = call[p].ip
  BY <1>2
<1> DEFINE t == Ilock(it, d)
           i == dino[t[d].inum].ents[Name(p)]
<1>4. /\ lock[d] = Nobody /\ UNCHANGED <<disk, fds>>
      /\ \/ /\ i = 0 /\ it' = t
            /\ Ends(p, <<d>>) /\ UNCHANGED <<lock, panicked>>
         \/ /\ i # 0 /\ Room(t, i) /\ panicked' = Full(t, i)
            /\ it' = Iget(t, i)
            /\ lock' = [lock EXCEPT ![d] = p]
            /\ call' = [call EXCEPT ![p].ip = Slot(t, i), ![p].dp = d]
            /\ Goes(p, "remove")
  BY <1>3 DEF Unlink, Locks
<1>5. /\ d \notin Freed /\ it[d].ref > 0 /\ it[d].inum \in Inums
      /\ Same(it, t) /\ Sound(t, dino, Freed) /\ t[d].valid /\ t[d].inum = it[d].inum
  BY <1>1, <1>3, <1>4, Looked, CalmIs DEF Uses, Keeps
<1>6. CASE i = 0 /\ it' = t /\ Ends(p, <<d>>) /\ UNCHANGED <<lock, panicked>>
  BY <1>1, <1>2, <1>3, <1>4, <1>6, CallEnds DEF IInv, Types
<1>7. CASE /\ i # 0 /\ Room(t, i) /\ panicked' = Full(t, i)
           /\ it' = Iget(t, i)
           /\ lock' = [lock EXCEPT ![d] = p]
           /\ call' = [call EXCEPT ![p].ip = Slot(t, i), ![p].dp = d]
           /\ Goes(p, "remove")
  <2>1. Name(p) \in Names /\ Disk(d).type = "DIR" /\ i = Disk(d).ents[Name(p)]
    BY <1>2, <1>3, <1>5, NameIs DEF IInv, Holding, Held, Disk
  <2>2. i \in Inums /\ dino[i].nlink >= 1 /\ ~Full(t, i) /\ panicked' = FALSE
    BY <1>5, <1>7, <2>1, Named DEF IInv, Room
  <2> HIDE DEF t, i
  <2> DEFINE k == Slot(t, i)
             c == [call[p] EXCEPT !.ip = k, !.dp = d]
  <2>3. /\ k \in Slots /\ Sound(it', dino, Freed) /\ it' \in [Slots -> Entry] /\ it'[k].inum = i
        /\ \A s \in Slots : /\ it'[s].ref = it[s].ref + (IF s = k THEN 1 ELSE 0)
                            /\ it[s].ref > 0 => it'[s].inum = it[s].inum
                            /\ it[s].valid \/ t[s].valid => it'[s].valid
        /\ \A s \in Slots \ {k} : it'[s] = t[s]
    BY <1>5, <1>7, <2>2, Got
  <2> HIDE DEF k
  <2>4. /\ c \in Call1 /\ c.ip = k /\ c.dp = d /\ c.op = "unlink" /\ c.path = call[p].path
    BY <1>2, <2>3 DEF Call1
  <2>5. call' = [call EXCEPT ![p] = c]
    BY <1>7 DEF k
  <2> HIDE DEF c
  <2>6. pc' = [pc EXCEPT ![p] = "remove"] /\ todo' = todo /\ next' = next /\ fds' = fds
    BY <1>4, <1>7 DEF Goes
  <2>7. Local(p, "remove", <<>>, next[p], c, fds[p])
    BY <1>2, <2>4, <2>5, <2>6 DEF Local, Others, IInv, Types, Places
  <2>8. Place(p)' /\ At(p)' = "remove"
    BY <1>2, <1>3, <2>3, <2>4, <2>7, Numbers, NonePut DEF Local, Place, At, Putting
  <2>9. \A u \in Slots : Count(p, u)' = Count(p, u) + (IF u = k THEN 1 ELSE 0)
    BY <1>2, <1>3, <2>4, <2>5, <2>6, <2>7, Numbers DEF Local, Count, Ways, Bit
  <2>10. \A u \in Slots : it'[u].ref = it[u].ref + Count(p, u)' - Count(p, u)
    <3> SUFFICES ASSUME NEW u \in Slots PROVE it'[u].ref = it[u].ref + Count(p, u)' - Count(p, u)
      OBVIOUS
    <3>1. it[u].ref \in Nat
      BY DEF IInv, Types, Entry
    <3> DEFINE b == IF u = k THEN 1 ELSE 0
    <3>2. b \in Nat /\ it'[u].ref = it[u].ref + b /\ Count(p, u)' = Count(p, u) + b
      BY <2>3, <2>9
    <3> HIDE DEF b
    <3> QED BY <3>1, <3>2, CountUses
  <2>11. \A u \in Slots : Uses(p, u)' => Uses(p, u) \/ dino[it'[u].inum].nlink >= 1
    <3>1. \A u \in Slots \ {k} : Uses(p, u)' => Uses(p, u)
      BY <2>9, CountUses
    <3> QED BY <3>1, <2>2, <2>3
  <2>12. Freed' = Freed /\ dino' = dino
    <3>1. \A q \in Proc \ {p} : pc'[q] = pc[q] /\ todo'[q] = todo[q]
      BY <2>7 DEF Local, Others
    <3>2. pc[p] # "invalid" /\ pc'[p] # "invalid"
      BY <1>1, <2>7 DEF Local
    <3> QED BY <3>1, <3>2, <1>4 DEF Freed, disk
  <2>13. Removing(p)'
    <3>1. Name(p)' = Name(p) /\ call'[p] = c
      BY <2>4, <2>7 DEF Local, Name
    <3>2. it'[d].inum = it[d].inum
      BY <1>5, <2>3
    <3> QED BY <3>1, <3>2, <2>1, <2>3, <2>4, <2>12 DEF Removing, Disk
  <2>14. /\ lock' \in [Slots -> Proc \cup {Nobody}]
         /\ \A s \in Slots : lock'[s] = p <=> HasLock(p, s)'
         /\ \A s \in Slots, q \in Proc \ {p} : lock'[s] = q <=> lock[s] = q
    BY <1>1, <1>4, <1>7, <2>4, <2>7, TakesLock DEF Local
  <2>15. /\ \A s \in Slots : it[s].ref > 0 /\ it'[s].ref > 0 =>
            /\ it'[s].inum = it[s].inum
            /\ it[s].valid => it'[s].valid \/ (pc[p] = "invalid" /\ s = Head(todo[p]))
         /\ \A s \in Slots : Drops(p, s) /\ Uses(p, s)' => Drops(p, s)'
         /\ c.dp # 0 => it'[c.dp].valid
         /\ \A s \in fds[p] : it'[s].valid
    BY <1>1, <1>2, <1>5, <2>3, <2>4, CalmIs DEF IInv, Holding, Held
  <2>16. /\ c.op # "link2" /\ At(p)' \notin DirPlaces /\ pc[p] # "fresh"
         /\ Sound(it', dino, Freed') /\ UNCHANGED disk
    BY <1>1, <1>4, <2>3, <2>4, <2>8, <2>12 DEF DirPlaces
  <2> QED BY <2>2, <2>7, <2>8, <2>10, <2>11, <2>13, <2>14, <2>15, <2>16, Quiet
<1> QED BY <1>4, <1>6, <1>7

\* create or sys_unlink gives up, with nothing changed on the disk.
GiveUp(p, s, d) ==
    /\ pc[p] \in {"fresh", "remove"} /\ s \in Slots /\ d \in Slots /\ s = call[p].ip
    /\ d = call[p].dp /\ s # d /\ lock[s] = Nobody /\ Ends(p, <<s, d>>)
    /\ lock' = [lock EXCEPT ![d] = Nobody] /\ Same(it, it') /\ Sound(it', dino, Freed)
    /\ UNCHANGED <<disk, fds>> /\ panicked' = FALSE

\* To give up keeps the invariant.
LEMMA GivesUp ==
  ASSUME IInv, NEW p \in Proc, NEW s, NEW d, GiveUp(p, s, d)
  PROVE  IInv'
<1> SUFFICES
      ASSUME pc[p] \in {"fresh", "remove"}, s \in Slots, d \in Slots, s = call[p].ip,
             d = call[p].dp, s # d, lock[s] = Nobody, Ends(p, <<s, d>>),
             lock' = [lock EXCEPT ![d] = Nobody], Same(it, it'), Sound(it', dino, Freed),
             UNCHANGED <<disk, fds>>, panicked' = FALSE
      PROVE  IInv'
  BY DEF GiveUp
<1>1. PICK ss : /\ Local(p, "put", ss, "user", NoCall, fds[p])
                /\ Place(p)' /\ \A u \in Slots : Count(p, u)' = Count(p, u)
  BY BothEnd
<1>2. pc'[p] = "put" /\ next'[p] = "user" /\ call'[p] = NoCall /\ Others(p)
  BY <1>1 DEF Local
<1>3. Freed' = Freed
  <2>1. \A q \in Proc \ {p} : pc'[q] = pc[q] /\ todo'[q] = todo[q]
    BY <1>2 DEF Others
  <2> QED BY <2>1, <1>2 DEF Freed
<1>4. \A u \in Slots : it'[u].ref = it[u].ref + Count(p, u)' - Count(p, u)
  <2>1. \A u \in Slots : it[u].ref \in Nat /\ it'[u].ref = it[u].ref
    BY DEF Same, IInv, Types, Entry
  <2> QED BY <2>1, <1>1, CountUses
<1>5. \A u \in Slots : ~Drops(p, u) /\ (Uses(p, u)' => Uses(p, u))
  BY <1>1, CountUses DEF Drops
<1>6. /\ lock' \in [Slots -> Proc \cup {Nobody}]
      /\ \A u \in Slots : lock'[u] = p <=> HasLock(p, u)'
      /\ \A u \in Slots, q \in Proc \ {p} : lock'[u] = q <=> lock[u] = q
  <2>1. call[p].dp = d /\ pc'[p] = "put"
    BY <1>2
  <2> QED BY <2>1, GivesLock
<1>7. \A u \in Slots : it'[u].inum = it[u].inum /\ (it[u].valid => it'[u].valid)
  BY DEF Same
<1>8. \A u \in fds[p] : it'[u].valid
  BY <1>7 DEF IInv, Holding, Held, Types
<1>9. NoCall.op # "link2" /\ NoCall.dp = 0 /\ At(p)' \notin DirPlaces
  BY <1>2, NonePut DEF At, Putting, DirPlaces
<1>10. UNCHANGED disk /\ (pc[p] = "fresh" => lock[call[p].ip] = Nobody)
  OBVIOUS
<1>11. /\ \A u \in Slots : it[u].ref > 0 /\ it'[u].ref > 0 =>
            /\ it'[u].inum = it[u].inum
            /\ it[u].valid => it'[u].valid \/ (pc[p] = "invalid" /\ u = Head(todo[p]))
       /\ \A u \in Slots : Uses(p, u)' => Uses(p, u) \/ dino[it'[u].inum].nlink >= 1
       /\ \A u \in Slots : Drops(p, u) /\ Uses(p, u)' => Drops(p, u)'
       /\ Sound(it', dino, Freed')
       /\ "put" = "remove" => Removing(p)'
       /\ "put" \notin {"invalid", "fresh"}
  BY <1>3, <1>5, <1>7
<1>12. Local(p, "put", ss, "user", NoCall, fds[p]) /\ Place(p)'
  BY <1>1
<1> QED BY <1>12, <1>1, <1>4, <1>6, <1>8, <1>9, <1>10, <1>11, Quiet

\* create or sys_unlink changes the entry n of the directory, from old to i, and
\* the links with it.
DirEdit(p, s, d, k, l, n, i, old, ss, F) ==
    /\ pc[p] \in {"fresh", "remove"} /\ s \in Slots /\ d \in Slots /\ s = call[p].ip
    /\ d = call[p].dp /\ s # d /\ lock[s] = Nobody
    /\ k \in Nat /\ l \in Nat /\ n \in Names
    /\ i \in {0, it[s].inum} /\ old \in {0, it[s].inum}
    /\ Disk(d).type = "DIR" /\ Disk(d).ents[n] = old
    /\ Relink2(Ilock(it, s), s, d, k, l, n, i, it', dino')
    /\ lock' = [lock EXCEPT ![d] = Nobody] /\ bitmap' = bitmap /\ panicked' = FALSE
    /\ F \in SUBSET (fds[p] \cup {s}) /\ Local(p, "put", ss, "user", NoCall, F)
    /\ Place(p)' /\ \A u \in Slots : Count(p, u)' = Count(p, u)
    /\ k = Disk(s).nlink + (Bit(i # 0) - Bit(old # 0))
    /\ l = Disk(d).nlink + (IF Disk(s).type = "DIR" THEN Bit(i # 0) - Bit(old # 0) ELSE 0)
    /\ Tree'

\* To change an entry keeps the invariant.
LEMMA DirChanges ==
  ASSUME IInv, NEW p \in Proc, NEW s, NEW d, NEW k, NEW l, NEW n, NEW i, NEW old, NEW ss, NEW F,
         DirEdit(p, s, d, k, l, n, i, old, ss, F)
  PROVE  IInv'
<1> SUFFICES
      ASSUME pc[p] \in {"fresh", "remove"}, s \in Slots, d \in Slots, s = call[p].ip,
             d = call[p].dp, s # d, lock[s] = Nobody, k \in Nat, l \in Nat, n \in Names,
             i \in {0, it[s].inum}, old \in {0, it[s].inum},
             Disk(d).type = "DIR", Disk(d).ents[n] = old,
             Relink2(Ilock(it, s), s, d, k, l, n, i, it', dino'),
             lock' = [lock EXCEPT ![d] = Nobody], bitmap' = bitmap, panicked' = FALSE,
             F \in SUBSET (fds[p] \cup {s}), Local(p, "put", ss, "user", NoCall, F),
             Place(p)', \A u \in Slots : Count(p, u)' = Count(p, u),
             k = Disk(s).nlink + (Bit(i # 0) - Bit(old # 0)),
             l = Disk(d).nlink + (IF Disk(s).type = "DIR" THEN Bit(i # 0) - Bit(old # 0) ELSE 0),
             Tree'
      PROVE  IInv'
  BY DEF DirEdit
<1> DEFINE t == Ilock(it, s)
<1>1. pc'[p] = "put" /\ next'[p] = "user" /\ call'[p] = NoCall /\ fds'[p] = F /\ Others(p)
  BY DEF Local
<1>2. \A u \in Slots : ~Drops(p, u)
  BY DEF Drops
<1>3. Uses(p, s) /\ Uses(p, d) /\ lock[d] = p
  <2>1. call[p].dp = d /\ d \in Slots /\ pc'[p] = "put" /\ pc[p] \in {"fresh", "remove"}
    BY <1>1
  <2>2. lock[d] = p
    BY <2>1, GivesLock
  <2> QED BY <2>2 DEF Uses, Keeps
<1>4. /\ it[s].inum \in Inums /\ Same(it, t) /\ t[s].inum = it[s].inum /\ t[d].inum = it[d].inum
      /\ it[d].inum \in Inums
  BY <1>2, <1>3, Looked, RefsNow DEF IInv, Table, Sound
<1>16. PICK is \in Inums, id \in Inums : is = it[s].inum /\ id = it[d].inum
  BY <1>4
<1>5. /\ Same(t, it') /\ Sound(it', dino', Freed) /\ dino' \in [Inums -> DInode] /\ is # id
      /\ it'[s].valid /\ it'[d].valid
      /\ \A j \in Inums \ {is, id} : dino'[j] = dino[j]
      /\ dino'[is].nlink = k /\ dino'[is].ents = dino[is].ents
      /\ dino'[id].nlink = l /\ dino'[id].ents = [dino[id].ents EXCEPT ![n] = i]
      /\ \A j \in Inums : dino'[j].type = dino[j].type /\ dino'[j].addrs = dino[j].addrs
  BY <1>4, <1>16 DEF Relink2
<1> HIDE DEF t
<1>6. /\ Disk(s) = dino[is] /\ Disk(d) = dino[id]
      /\ \A j \in Inums : dino[j] \in DInode /\ dino[j].nlink \in Nat
                          /\ dino[j].ents \in [Names -> Inums \cup {0}]
  BY <1>16 DEF Disk, IInv, Types, DInode
<1>15. i \in {0, is} /\ old \in {0, is} /\ is # 0
  BY <1>16, Numbers
<1>7. Same(it, it') /\ \A u \in Slots : it'[u].inum = it[u].inum /\ (it[u].valid => it'[u].valid)
                                        /\ it'[u].ref = it[u].ref
  BY <1>4, <1>5 DEF Same
<1>8. \A u \in Slots : it'[u].ref = it[u].ref + Count(p, u)' - Count(p, u)
  <2>1. \A u \in Slots : it[u].ref \in Nat
    BY DEF IInv, Types, Entry
  <2> QED BY <2>1, <1>7, CountUses
<1>9. /\ lock' \in [Slots -> Proc \cup {Nobody}]
      /\ \A u \in Slots : lock'[u] = p <=> HasLock(p, u)'
      /\ \A u \in Slots, q \in Proc \ {p} : lock'[u] = q <=> lock[u] = q
  <2>1. call[p].dp = d
    OBVIOUS
  <2> QED BY <2>1, <1>1, GivesLock
<1>10. Held(p)'
  <2>1. \A u \in F : it'[u].valid
    BY <1>5, <1>7 DEF IInv, Holding, Held, Types
  <2>2. At(p)' = "user"
    BY <1>1 DEF At, Putting
  <2> QED BY <2>1, <2>2, <1>1, NonePut DEF Held
<1>11. \A j \in Inums : /\ dino'[j].type = dino[j].type /\ dino'[j].addrs = dino[j].addrs
                        /\ dino'[j].ents = dino[j].ents \/ dino[j].type = "DIR"
                        /\ dino'[j] = dino[j] \/ \E u \in Slots : it[u].inum = j /\ Mine(p, u)
  <2>1. Mine(p, s) /\ Mine(p, d) /\ it[s].inum = is /\ it[d].inum = id
    BY <1>2, <1>3, <1>16 DEF Mine
  <2>2. \A j \in Inums : dino'[j].ents = dino[j].ents \/ dino[j].type = "DIR"
    BY <1>5, <1>6
  <2>3. \A j \in Inums : dino'[j] = dino[j] \/ j = is \/ j = id
    BY <1>5
  <2> QED BY <2>1, <2>2, <2>3, <1>5
<1>12. \A u \in Slots : Uses(p, u)' => Uses(p, u) \/ dino[it'[u].inum].nlink >= 1
  BY CountUses
<1>13. ASSUME Referenced', Guar(p) PROVE Linked'
  <2>1. \A e \in Inums, m \in Names :
            <<e, m>> # <<id, n>> => /\ dino'[e].ents[m] = dino[e].ents[m]
                                    /\ Leads(e, m)' <=> Leads(e, m)
    <3> SUFFICES ASSUME NEW e \in Inums, NEW m \in Names, <<e, m>> # <<id, n>>
                 PROVE  /\ dino'[e].ents[m] = dino[e].ents[m]
                        /\ Leads(e, m)' <=> Leads(e, m)
      OBVIOUS
    <3>1. dino'[e].ents[m] = dino[e].ents[m]
      <4>1. CASE e = id
        BY <4>1, <1>5, <1>6
      <4>2. CASE e # id
        BY <4>2, <1>5
      <4> QED BY <4>1, <4>2
    <3>2. dino[e].ents[m] \in Inums \cup {0}
      BY <1>6
    <3> QED BY <3>1, <3>2, <1>5 DEF Leads
  <2>2. dino'[id].ents[n] = i /\ dino[id].ents[n] = old
    BY <1>5, <1>6
  <2> DEFINE D == dino[is].type = "DIR"
  <2>3. /\ Leads(id, n)' <=> i # 0 /\ D
        /\ Leads(id, n) <=> old # 0 /\ D
    <3>1. is # 0 => dino'[is].type = dino[is].type
      BY <1>4, <1>5
    <3> QED BY <3>1, <2>2, <1>15 DEF Leads
  <2>4. \A j : ~Promises(p, j)' /\ ~Promises(p, j)
    <3>1. call[p].op # "link2"
      BY DEF IInv, Placed, Place, At, Putting
    <3> QED BY <3>1, <1>1, NonePut DEF Promises
  <2>5. ASSUME NEW j \in Inums PROVE dino'[j].nlink >= Links(j)'
    <3>1. /\ Links(j)' = Links(j)
            + (Bit(dino'[id].ents[n] = j) - Bit(dino[id].ents[n] = j))
            + (IF j = id THEN Bit(Leads(id, n)') - Bit(Leads(id, n)) ELSE 0)
            + (Bit(Promises(p, j)') - Bit(Promises(p, j)))
          /\ Links(j)' \in Nat
      <4>1. Types /\ Placed /\ Referenced /\ Others(p) /\ Stays /\ id \in Inums
        BY <1>1, <1>4, <1>13 DEF IInv, Guar, Stays
      <4> HIDE DEF D
      <4> QED BY <4>1, <2>1, <1>13, LinksStep
    <3>2. Links(j) \in Nat /\ dino[j].nlink >= Links(j) /\ dino[j].nlink \in Nat
      BY <1>6, LinkSets DEF IInv, Linked
    <3>3. Bit(Promises(p, j)') = 0 /\ Bit(Promises(p, j)) = 0
      BY <2>4 DEF Bit
    <3>4. /\ Bit(i # 0) \in {0, 1} /\ Bit(old # 0) \in {0, 1}
          /\ Bit(i # 0 /\ D) = (IF D THEN Bit(i # 0) ELSE 0)
          /\ Bit(old # 0 /\ D) = (IF D THEN Bit(old # 0) ELSE 0)
      BY DEF Bit
    <3>5. CASE j = is
      <4>1. (dino'[id].ents[n] = j <=> i # 0) /\ (dino[id].ents[n] = j <=> old # 0)
        BY <2>2, <3>5, <1>15, Numbers
      <4>2. Links(j)' = Links(j) + (Bit(i # 0) - Bit(old # 0)) + 0 + (0 - 0)
        BY <4>1, <3>1, <3>3, <3>5, <1>5
      <4>3. dino'[j].nlink = k /\ k = dino[j].nlink + (Bit(i # 0) - Bit(old # 0))
        BY <3>5, <1>5, <1>6
      <4> HIDE DEF Bit
      <4> QED BY <4>2, <4>3, <3>2, <3>4
    <3>6. CASE j = id
      <4>1. ~(dino'[id].ents[n] = j) /\ ~(dino[id].ents[n] = j)
        BY <2>2, <3>6, <1>15, <1>5, Numbers
      <4>2. Links(j)' = Links(j) + (0 - 0) + (Bit(i # 0 /\ D) - Bit(old # 0 /\ D)) + (0 - 0)
        <5>1. Bit(dino'[id].ents[n] = j) = 0 /\ Bit(dino[id].ents[n] = j) = 0
          BY <4>1 DEF Bit
        <5>2. Bit(Leads(id, n)') = Bit(i # 0 /\ D) /\ Bit(Leads(id, n)) = Bit(old # 0 /\ D)
          BY <2>3 DEF Bit
        <5> QED BY <5>1, <5>2, <3>1, <3>3, <3>6
      <4>3. dino'[j].nlink = l
            /\ l = dino[j].nlink + (IF D THEN Bit(i # 0) - Bit(old # 0) ELSE 0)
        BY <3>6, <1>5, <1>6
      <4> HIDE DEF Bit, D
      <4> QED BY <4>2, <4>3, <3>2, <3>4
    <3>7. CASE j # is /\ j # id
      <4>1. ~(dino'[id].ents[n] = j) /\ ~(dino[id].ents[n] = j)
        BY <2>2, <3>7, <1>15, <1>5, Numbers
      <4>2. Links(j)' = Links(j) + (0 - 0) + 0 + (0 - 0)
        <5>1. Bit(dino'[id].ents[n] = j) = 0 /\ Bit(dino[id].ents[n] = j) = 0
          BY <4>1 DEF Bit
        <5> QED BY <5>1, <3>1, <3>3, <3>7
      <4>3. dino'[j].nlink = dino[j].nlink
        BY <3>7, <1>5
      <4> QED BY <4>2, <4>3, <3>2
    <3> QED BY <3>5, <3>6, <3>7
  <2> QED BY <2>5 DEF Linked
<1>14. /\ \A u \in Slots : it[u].ref > 0 =>
             it'[u].inum = it[u].inum /\ (it[u].valid => it'[u].valid)
       /\ pc[p] \notin Putting /\ "put" # "invalid"
       /\ pc[p] = "fresh" => lock[call[p].ip] = Nobody
  BY <1>7 DEF Putting
<1> QED BY <1>5, <1>8, <1>9, <1>10, <1>11, <1>12, <1>13, <1>14, Edits

\* What create and sys_unlink have, with both inodes locked.
LEMMA BothAre ==
  ASSUME IInv, NEW p \in Proc, pc[p] \in {"fresh", "remove"}, lock[call[p].ip] = Nobody
  PROVE  \E s \in Slots, d \in Slots : LET t == Ilock(it, s) IN
         /\ s = call[p].ip /\ d = call[p].dp /\ s # d /\ s \notin Freed /\ d \notin Freed
         /\ Same(it, t) /\ Sound(t, dino, Freed) /\ t \in [Slots -> Entry]
         /\ t[s].ref > 0 /\ t[s].valid /\ t[s].inum = it[s].inum /\ Copy(t[s], Disk(s))
         /\ t[d].ref > 0 /\ t[d].valid /\ t[d].inum = it[d].inum /\ Copy(t[d], Disk(d))
         /\ it[s].inum \in Inums /\ it[d].inum \in Inums
         /\ Disk(s).type # "NONE" /\ Disk(d).type = "DIR"
         /\ call[p].path # <<>> /\ Name(p) \in Names
<1>1. /\ Place(p) /\ At(p) = pc[p] /\ call[p] \in Call1 /\ call[p].ip # 0 /\ call[p].dp # 0
      /\ call[p].path # <<>> /\ Name(p) \in Names
  <2>1. Place(p) /\ At(p) = pc[p] /\ call[p] \in Call1
    BY AtRest DEF IInv, Places
  <2>2. call[p].path # <<>> /\ call[p].ip # 0 /\ call[p].dp # 0
    BY <2>1 DEF Place
  <2> QED BY <2>1, <2>2, NameIs DEF IInv
<1>2. PICK s \in Slots, d \in Slots : s = call[p].ip /\ d = call[p].dp
  BY <1>1 DEF Call1
<1> DEFINE t == Ilock(it, s)
<1>3. Uses(p, s) /\ Uses(p, d) /\ ~Drops(p, s) /\ ~Drops(p, d) /\ lock[d] = p
  BY <1>2 DEF Uses, Keeps, Drops, IInv, Locked, HasLock
<1>4. /\ s \notin Freed /\ it[s].ref > 0 /\ it[s].inum \in Inums
      /\ Same(it, t) /\ Sound(t, dino, Freed) /\ t \in [Slots -> Entry]
      /\ \A u \in Slots \ {s} : t[u] = it[u]
      /\ t[s].valid /\ Copy(t[s], Disk(s))
      /\ t[s].inum = it[s].inum /\ t[s].ref = it[s].ref /\ Disk(s).type # "NONE"
  BY <1>2, <1>3, Looked
<1> HIDE DEF t
<1>5. it[d].ref > 0 /\ it[d].inum \in Inums /\ it[d].valid
  BY <1>1, <1>2, <1>3, RefsNow DEF IInv, Table, Sound, Holding, Held
<1>6. d \notin Freed
  <2>1. \A q \in Proc : pc[q] = "invalid" /\ Head(todo[q]) = d => lock[d] = q
    BY DEF IInv, Locked, HasLock
  <2> QED BY <2>1, <1>3 DEF Freed
<1>7. /\ t[d].ref > 0 /\ t[d].valid /\ t[d].inum = it[d].inum /\ Copy(t[d], Disk(d))
  <2>1. t[d].ref > 0 /\ t[d].inum = it[d].inum /\ t[d].valid
    BY <1>4, <1>5 DEF Same
  <2> QED BY <2>1, <1>4, <1>6 DEF Sound, Disk
<1>8. Disk(d).type = "DIR" /\ s # d
  <2>1. CASE pc[p] = "fresh"
    BY <2>1, <1>2 DEF IInv, Holding, Held, Making
  <2>2. CASE pc[p] = "remove"
    <3>1. Disk(d).type = "DIR" /\ Disk(d).ents[Name(p)] = it[s].inum
      BY <2>2, <1>2 DEF IInv, Holding, Held, Removing
    <3>2. it[s].inum # it[d].inum
      BY <3>1, <1>1, <1>5, NotSelf DEF IInv, Types, Disk
    <3> QED BY <3>1, <3>2
  <2> QED BY <2>1, <2>2
<1> QED BY <1>1, <1>2, <1>4, <1>5, <1>6, <1>7, <1>8 DEF t

\* The end of sys_unlink: the inode is a directory with entries, or loses its name.
LEMMA RemoveIs ==
  ASSUME IInv, NEW p \in Proc, UnlinkRemove(p)
  PROVE  \E s, d : \/ GiveUp(p, s, d)
                   \/ \E k, l, n, i, old, ss, F :
                         /\ DirEdit(p, s, d, k, l, n, i, old, ss, F) /\ i = 0 /\ old # 0
                         /\ Disk(s).type = "DIR" => Disk(s).ents = NoEntries
<1>1. pc[p] = "remove" /\ lock[call[p].ip] = Nobody
  BY DEF UnlinkRemove, Locks
<1>2. PICK s \in Slots, d \in Slots : LET t == Ilock(it, s) IN
      /\ s = call[p].ip /\ d = call[p].dp /\ s # d /\ s \notin Freed /\ d \notin Freed
      /\ Same(it, t) /\ Sound(t, dino, Freed) /\ t \in [Slots -> Entry]
      /\ t[s].ref > 0 /\ t[s].valid /\ t[s].inum = it[s].inum /\ Copy(t[s], Disk(s))
      /\ t[d].ref > 0 /\ t[d].valid /\ t[d].inum = it[d].inum /\ Copy(t[d], Disk(d))
      /\ it[s].inum \in Inums /\ it[d].inum \in Inums
      /\ Disk(s).type # "NONE" /\ Disk(d).type = "DIR"
      /\ call[p].path # <<>> /\ Name(p) \in Names
  BY <1>1, BothAre
<1> DEFINE t    == Ilock(it, s)
           dir  == t[s].type = "DIR"
           t1   == WithLinks(t, s, t[s].nlink - 1)
           t2   == IF dir THEN WithLinks(t1, d, t1[d].nlink - 1) ELSE t1
           full == dir /\ dino[t[s].inum].ents # NoEntries
           n    == Name(p)
<1>3. /\ panicked' = (t[s].nlink < 1 \/ t[s].type = "NONE")
      /\ \/ full /\ it' = t /\ Ends(p, <<s, d>>) /\ UNCHANGED dino
         \/ /\ ~full /\ it' = t2
            /\ dino' = Enter(Iupdate(Iupdate(dino, t2, s), t2, d), it[d].inum, n, 0)
            /\ Ends(p, <<d, s>>)
      /\ lock' = [lock EXCEPT ![d] = Nobody]
      /\ UNCHANGED <<bitmap, fds>>
  BY <1>2 DEF UnlinkRemove
<1>4. Disk(d).ents[n] = it[s].inum
  BY <1>1, <1>2 DEF IInv, Holding, Held, Removing
<1>5. /\ Disk(s).nlink >= 1 /\ Disk(s).nlink \in Nat /\ Disk(d).nlink \in Nat
      /\ t[s].nlink = Disk(s).nlink /\ t[d].nlink = Disk(d).nlink
      /\ t[s].type = Disk(s).type
  <2>1. Disk(s).nlink >= 1
    BY <1>2, <1>4, Named, Numbers DEF IInv, Disk
  <2> QED BY <2>1, <1>2 DEF Copy, IInv, Types, DInode, Disk
<1>6. panicked' = FALSE
  <2>1. ~(t[s].nlink < 1) /\ t[s].type # "NONE"
    BY <1>2, <1>5
  <2> HIDE DEF t
  <2> QED BY <2>1, <1>3
<1>7. /\ s = call[p].ip /\ d = call[p].dp /\ s # d /\ s \notin Freed /\ d \notin Freed
      /\ Same(it, t) /\ Sound(t, dino, Freed) /\ t \in [Slots -> Entry]
      /\ t[s].ref > 0 /\ t[s].valid /\ t[s].inum = it[s].inum
      /\ t[d].ref > 0 /\ t[d].valid /\ t[d].inum = it[d].inum
      /\ it[s].inum \in Inums /\ it[d].inum \in Inums
      /\ Disk(d).type = "DIR" /\ n \in Names /\ lock[s] = Nobody
  BY <1>1, <1>2
<1>8. CASE full /\ it' = t /\ Ends(p, <<s, d>>) /\ UNCHANGED dino
  <2>1. UNCHANGED <<disk, fds>> /\ Same(it, it') /\ Sound(it', dino, Freed)
    BY <1>3, <1>7, <1>8 DEF disk
  <2>2. /\ pc[p] \in {"fresh", "remove"} /\ Ends(p, <<s, d>>) /\ lock' = [lock EXCEPT ![d] = Nobody]
    BY <1>1, <1>3, <1>8
  <2> HIDE DEF t, t1, t2, full, dir, n
  <2> QED BY <1>6, <1>7, <2>1, <2>2 DEF GiveUp
<1>9. CASE /\ ~full /\ it' = t2
           /\ dino' = Enter(Iupdate(Iupdate(dino, t2, s), t2, d), it[d].inum, n, 0)
           /\ Ends(p, <<d, s>>)
  <2> DEFINE k == t[s].nlink - 1
             l == IF dir THEN t[d].nlink - 1 ELSE t[d].nlink
  <2>1. k \in Nat /\ l \in Nat
    <3>1. dir => Disk(d).nlink >= 1
      <4>1. dir => n \in SubDirs(it[d].inum)
        BY <1>4, <1>5, <1>7, Numbers DEF SubDirs, Disk
      <4> QED BY <4>1, <1>7, Needed DEF IInv, Disk
    <3> QED BY <3>1, <1>5
  <2>17. Disk(s).type = "DIR" => Disk(s).ents = NoEntries
    BY <1>5, <1>7, <1>9 DEF Disk
  <2>2. t1 \in [Slots -> Entry] /\ t1[d] = t[d]
    <3>1. [t[s] EXCEPT !.nlink = k] \in Entry
      BY <2>1, <1>7 DEF Entry
    <3> QED BY <3>1, <1>7 DEF WithLinks
  <2>3. t2 = WithLinks(t1, d, l)
    <3>1. CASE dir
      BY <3>1, <2>2
    <3>2. CASE ~dir
      <4>1. l = t1[d].nlink /\ t2 = t1
        BY <3>2, <2>2
      <4> HIDE DEF l, t1, t2
      <4> QED BY <4>1, <2>2, <1>7, SameLinks
    <3> QED BY <3>1, <3>2
  <2>4. it' = WithLinks(WithLinks(t, s, k), d, l)
    BY <1>9, <2>3
  <2> HIDE DEF t2, t1, full
  <2> HIDE DEF t, l, k, dir
  <2>5. Relink2(t, s, d, k, l, n, 0, it', Write2(it', s, d, n, 0))
    BY <1>7, <2>1, <2>4, TwoLinks DEF IInv, Types
  <2>6. Same(t, it')
    BY <2>5 DEF Relink2
  <2>7. dino' = Write2(it', s, d, n, 0)
    <3>1. it'[d].inum = it[d].inum
      BY <2>6, <1>7 DEF Same
    <3> QED BY <3>1, <1>9 DEF Write2
  <2>8. Relink2(t, s, d, k, l, n, 0, it', dino')
    BY <2>5, <2>7
  <2>9. PICK ss : /\ Local(p, "put", ss, "user", NoCall, fds[p])
                  /\ Place(p)' /\ \A u \in Slots : Count(p, u)' = Count(p, u)
    BY <1>1, <1>3, <1>7, <1>9, BothEnd
  <2>10. Bit(0 # 0) = 0 /\ Bit(it[s].inum # 0) = 1
    BY <1>7, Numbers DEF Bit
  <2>11. /\ k = Disk(s).nlink + (Bit(0 # 0) - Bit(it[s].inum # 0))
         /\ l = Disk(d).nlink + (IF Disk(s).type = "DIR" THEN Bit(0 # 0) - Bit(it[s].inum # 0) ELSE 0)
    BY <2>10, <1>5 DEF k, l, dir
  <2>12. Tree'
    <3>1. /\ \A j \in Inums \ {it[s].inum, it[d].inum} : dino'[j] = dino[j]
          /\ dino'[it[s].inum].ents = dino[it[s].inum].ents
          /\ dino'[it[d].inum].ents = [dino[it[d].inum].ents EXCEPT ![n] = 0]
          /\ \A j \in Inums : dino'[j].type = dino[j].type
      BY <2>8, <1>7 DEF Relink2
    <3>2. \A e \in Inums, m \in Names :
             dino'[e].ents[m] # 0 => dino'[e].ents[m] = dino[e].ents[m] /\ dino[e].ents[m] \in Inums
      <4> SUFFICES ASSUME NEW e \in Inums, NEW m \in Names, dino'[e].ents[m] # 0
                   PROVE  dino'[e].ents[m] = dino[e].ents[m] /\ dino[e].ents[m] \in Inums
        OBVIOUS
      <4>1. dino[e].ents \in [Names -> Inums \cup {0}]
        BY DEF IInv, Types, DInode
      <4>2. dino'[e].ents[m] = dino[e].ents[m]
        BY <3>1, <4>1
      <4> QED BY <4>1, <4>2
    <3> QED BY <3>1, <3>2, TreeKept DEF IInv
  <2>13. 0 \in {0, it[s].inum} /\ it[s].inum \in {0, it[s].inum} /\ fds[p] \in SUBSET (fds[p] \cup {s})
         /\ bitmap' = bitmap /\ Relink2(Ilock(it, s), s, d, k, l, n, 0, it', dino')
    BY <1>3, <2>8 DEF t
  <2>14. PICK i \in {0, it[s].inum}, old \in {0, it[s].inum} : i = 0 /\ old = it[s].inum
    OBVIOUS
  <2>15. /\ Relink2(Ilock(it, s), s, d, k, l, n, i, it', dino') /\ Disk(d).ents[n] = old
         /\ k = Disk(s).nlink + (Bit(i # 0) - Bit(old # 0))
         /\ l = Disk(d).nlink + (IF Disk(s).type = "DIR" THEN Bit(i # 0) - Bit(old # 0) ELSE 0)
    BY <2>11, <2>13, <2>14, <1>4
  <2>16. DirEdit(p, s, d, k, l, n, i, old, ss, fds[p])
    BY <1>1, <1>3, <1>6, <1>7, <2>1, <2>9, <2>12, <2>13, <2>14, <2>15 DEF DirEdit
  <2>18. old # 0
    BY <1>7, <2>14, Numbers
  <2> QED BY <2>14, <2>16, <2>17, <2>18
<1> QED BY <1>3, <1>8, <1>9

\* The end of sys_unlink keeps the invariant.
LEMMA UnlinkRemoveStep ==
  ASSUME IInv, NEW p \in Proc, UnlinkRemove(p)
  PROVE  IInv'
<1>1. PICK s, d : \/ GiveUp(p, s, d)
                  \/ \E k, l, n, i, old, ss, F : DirEdit(p, s, d, k, l, n, i, old, ss, F)
  BY RemoveIs
<1> QED BY <1>1, GivesUp, DirChanges

\* The rest of create: there is no block for the name, or the inode gets it.
LEMMA FreshIs ==
  ASSUME IInv, NEW p \in Proc, CreateFresh(p)
  PROVE  \E s, d : \/ GiveUp(p, s, d)
                   \/ \E k, l, n, i, old, ss, F :
                         /\ DirEdit(p, s, d, k, l, n, i, old, ss, F) /\ i # 0 /\ old = 0
                         /\ pc[p] = "fresh" /\ Disk(s).nlink = 0
<1>1. pc[p] = "fresh" /\ lock[call[p].ip] = Nobody
  BY DEF CreateFresh, Locks
<1>2. PICK s \in Slots, d \in Slots : LET t == Ilock(it, s) IN
      /\ s = call[p].ip /\ d = call[p].dp /\ s # d /\ s \notin Freed /\ d \notin Freed
      /\ Same(it, t) /\ Sound(t, dino, Freed) /\ t \in [Slots -> Entry]
      /\ t[s].ref > 0 /\ t[s].valid /\ t[s].inum = it[s].inum /\ Copy(t[s], Disk(s))
      /\ t[d].ref > 0 /\ t[d].valid /\ t[d].inum = it[d].inum /\ Copy(t[d], Disk(d))
      /\ it[s].inum \in Inums /\ it[d].inum \in Inums
      /\ Disk(s).type # "NONE" /\ Disk(d).type = "DIR"
      /\ call[p].path # <<>> /\ Name(p) \in Names
  BY <1>1, BothAre
<1> DEFINE t    == Ilock(it, s)
           op   == call[p].op
           t1   == WithLinks(t, s, 1)
           t2   == IF op = "mkdir" THEN WithLinks(t1, d, t1[d].nlink + 1) ELSE t1
           t0   == WithLinks(t1, s, 0)
           n    == Name(p)
<1>3. /\ \/ /\ dino' = Enter(Iupdate(Iupdate(dino, t2, s), t2, d), it[d].inum, n, it[s].inum)
            /\ it' = t2
            /\ \/ op = "create" /\ Opened(p, s) /\ Puts(p, <<d>>, "user")
               \/ Ends(p, <<d, s>>) /\ UNCHANGED fds
         \/ /\ dino' = Iupdate(dino, t0, s) /\ it' = t0
            /\ Ends(p, <<s, d>>) /\ UNCHANGED fds
      /\ lock' = [lock EXCEPT ![d] = Nobody]
      /\ panicked' = (t1[s].type = "NONE")
      /\ UNCHANGED bitmap
  BY <1>2 DEF CreateFresh
<1>4. /\ Disk(s) = [FreeInode EXCEPT !.type = Type(op)] /\ s \notin fds[p]
      /\ Disk(d).ents[n] = 0
  BY <1>1, <1>2 DEF IInv, Holding, Held, Making
<1>5. /\ Disk(s).nlink = 0 /\ Disk(s).type = Type(op) /\ Disk(s).ents = NoEntries
      /\ Disk(d).nlink \in Nat /\ t[d].nlink = Disk(d).nlink /\ t[s].type = Disk(s).type
  <2>1. Disk(s).nlink = 0 /\ Disk(s).type = Type(op) /\ Disk(s).ents = NoEntries
    BY <1>4 DEF FreeInode
  <2> QED BY <2>1, <1>2 DEF Copy, IInv, Types, DInode, Disk
<1>6. /\ s = call[p].ip /\ d = call[p].dp /\ s # d /\ s \notin Freed /\ d \notin Freed
      /\ Same(it, t) /\ Sound(t, dino, Freed) /\ t \in [Slots -> Entry]
      /\ t[s].ref > 0 /\ t[s].valid /\ t[s].inum = it[s].inum
      /\ t[d].ref > 0 /\ t[d].valid /\ t[d].inum = it[d].inum
      /\ it[s].inum \in Inums /\ it[d].inum \in Inums
      /\ Disk(d).type = "DIR" /\ Disk(s).type # "NONE" /\ n \in Names /\ lock[s] = Nobody
  BY <1>1, <1>2
<1> HIDE DEF t, n
<1>7. t1 = [t EXCEPT ![s] = [t[s] EXCEPT !.nlink = 1]] /\ t1[s] = [t[s] EXCEPT !.nlink = 1]
      /\ t1[s] \in Entry /\ t1[s].type = t[s].type /\ t1 \in [Slots -> Entry] /\ t1[d] = t[d]
  <2>1. [t[s] EXCEPT !.nlink = 1] \in Entry /\ [t[s] EXCEPT !.nlink = 1].type = t[s].type
    BY <1>6 DEF Entry
  <2>2. t1 = [t EXCEPT ![s] = [t[s] EXCEPT !.nlink = 1]]
    BY DEF WithLinks
  <2> HIDE DEF t1
  <2> QED BY <2>1, <2>2, <1>6
<1> HIDE DEF t1
<1>8. panicked' = FALSE
  BY <1>3, <1>5, <1>6, <1>7
<1>9. CASE dino' = Iupdate(dino, t0, s) /\ it' = t0 /\ Ends(p, <<s, d>>) /\ UNCHANGED fds
  <2>1. t0 = WithLinks(t, s, 0)
    <3>1. [t1[s] EXCEPT !.nlink = 0] = [t[s] EXCEPT !.nlink = 0]
      BY <1>6, <1>7 DEF Entry
    <3> QED BY <3>1, <1>6, <1>7 DEF WithLinks
  <2>2. it' = WithLinks(t, s, 0) /\ dino' = Iupdate(dino, WithLinks(t, s, 0), s)
    BY <2>1, <1>9
  <2> HIDE DEF t0
  <2>3. Relink(t, dino, s, 0, it', dino')
    BY <2>2, <1>6, Relinked DEF IInv, Types
  <2>4. PICK is \in Inums : is = it[s].inum
    BY <1>6
  <2>5. /\ Same(t, it') /\ Sound(it', dino', Freed) /\ dino' \in [Inums -> DInode]
        /\ \A j \in Inums \ {is} : dino'[j] = dino[j]
        /\ dino'[is].ents = dino[is].ents /\ dino'[is].nlink = 0 /\ dino'[is].type = dino[is].type
        /\ dino'[is].addrs = dino[is].addrs
    BY <2>3, <2>4, <1>6 DEF Relink
  <2>6. dino \in [Inums -> DInode] /\ dino[is].nlink = 0
    BY <1>5, <2>4 DEF IInv, Types, Disk
  <2>7. dino'[is] = dino[is]
    BY <2>5, <2>6 DEF DInode
  <2>8. dino' = dino
    BY <2>5, <2>6, <2>7
  <2>9. Same(it, it') /\ Sound(it', dino, Freed)
    BY <2>5, <2>8, <1>6 DEF Same
  <2>10. UNCHANGED <<disk, fds>>
    BY <1>3, <1>9, <2>8 DEF disk
  <2> QED BY <1>1, <1>3, <1>6, <1>8, <1>9, <2>9, <2>10 DEF GiveUp
<1>10. CASE /\ dino' = Enter(Iupdate(Iupdate(dino, t2, s), t2, d), it[d].inum, n, it[s].inum)
            /\ it' = t2
            /\ \/ op = "create" /\ Opened(p, s) /\ Puts(p, <<d>>, "user")
               \/ Ends(p, <<d, s>>) /\ UNCHANGED fds
  <2> DEFINE l == IF op = "mkdir" THEN t[d].nlink + 1 ELSE t[d].nlink
  <2>1. 1 \in Nat /\ l \in Nat
    BY <1>5
  <2>2. t2 = WithLinks(t1, d, l)
    <3>1. CASE op = "mkdir"
      <4>3. t1[d] = t[d]
        BY <1>7
      <4>1. t1[d].nlink + 1 = l
        BY <3>1, <4>3
      <4>2. t2 = WithLinks(t1, d, t1[d].nlink + 1)
        BY <3>1
      <4> HIDE DEF l, t2
      <4> QED BY <4>1, <4>2
    <3>2. CASE op # "mkdir"
      <4>1. l = t1[d].nlink /\ t2 = t1
        BY <3>2, <1>7
      <4> HIDE DEF l, t2
      <4> QED BY <4>1, <1>6, <1>7, SameLinks
    <3> QED BY <3>1, <3>2
  <2>3. it' = WithLinks(WithLinks(t, s, 1), d, l)
    BY <1>10, <2>2 DEF t1
  <2> HIDE DEF t2, l
  <2>4. PICK is \in Inums, id \in Inums : is = it[s].inum /\ id = it[d].inum
    BY <1>6
  <2>5. Relink2(t, s, d, 1, l, n, is, it', Write2(it', s, d, n, is))
    BY <1>6, <2>1, <2>3, TwoLinks DEF IInv, Types
  <2>6. Same(t, it')
    BY <2>5 DEF Relink2
  <2>7. dino' = Write2(it', s, d, n, is)
    <3>1. it'[d].inum = it[d].inum
      BY <2>6, <1>6 DEF Same
    <3> QED BY <3>1, <2>4, <1>10 DEF Write2
  <2>8. Relink2(t, s, d, 1, l, n, is, it', dino')
    BY <2>5, <2>7
  <2>9. \E ss, F : /\ Local(p, "put", ss, "user", NoCall, F) /\ F \in SUBSET (fds[p] \cup {s})
                   /\ Place(p)' /\ \A u \in Slots : Count(p, u)' = Count(p, u)
    <3>1. CASE Opened(p, s) /\ Puts(p, <<d>>, "user")
      <4>1. /\ pc' = [pc EXCEPT ![p] = "put"] /\ todo' = [todo EXCEPT ![p] = <<d>>]
            /\ next' = [next EXCEPT ![p] = "user"] /\ call' = [call EXCEPT ![p] = NoCall]
            /\ fds' = [fds EXCEPT ![p] = fds[p] \cup {s}]
        BY <3>1 DEF Opened, Puts
      <4>2. /\ todo[p] = <<>> /\ ToSet(todo[p]) = {} /\ Place(p) /\ NoCall \in Call1
            /\ fds[p] \in SUBSET Slots
        BY <1>1, AtRest, NonePut DEF IInv, Places
      <4>3. Local(p, "put", <<d>>, "user", NoCall, fds[p] \cup {s})
        BY <4>1, <4>2, OnePut DEF Local, Others, IInv, Types, Putting, Later
      <4>4. Place(p)'
        BY <4>2, <4>3, OnePut, NonePut DEF Local, Place, At, Putting
      <4>5. \A u \in Slots : Count(p, u)' = Count(p, u)
        <5> SUFFICES ASSUME NEW u \in Slots PROVE Count(p, u)' = Count(p, u)
          OBVIOUS
        <5>1. u \in ToSet(<<d>>) <=> u = d
          BY OnePut
        <5> QED BY <1>4, <1>6, <4>2, <4>3, <5>1, Numbers DEF Local, Count, Ways, Bit, NoCall
      <4> QED BY <4>3, <4>4, <4>5
    <3>2. CASE Ends(p, <<d, s>>) /\ UNCHANGED fds
      <4>1. PICK ss : /\ Local(p, "put", ss, "user", NoCall, fds[p])
                      /\ Place(p)' /\ \A u \in Slots : Count(p, u)' = Count(p, u)
        BY <1>1, <1>6, <3>2, BothEnd
      <4> QED BY <4>1
    <3> QED BY <3>1, <3>2, <1>10
  <2>10. PICK ss, F : /\ Local(p, "put", ss, "user", NoCall, F) /\ F \in SUBSET (fds[p] \cup {s})
                      /\ Place(p)' /\ \A u \in Slots : Count(p, u)' = Count(p, u)
    BY <2>9
  <2>11. PICK i \in {0, is}, old \in {0, is} : i = is /\ old = 0
    OBVIOUS
  <2>12. Bit(i # 0) = 1 /\ Bit(old # 0) = 0
    BY <2>11, Numbers DEF Bit
  <2>13. /\ 1 = Disk(s).nlink + (Bit(i # 0) - Bit(old # 0))
         /\ l = Disk(d).nlink + (IF Disk(s).type = "DIR" THEN Bit(i # 0) - Bit(old # 0) ELSE 0)
    BY <2>12, <1>5 DEF l, Type
  <2>14. Tree'
    <3>1. /\ \A j \in Inums \ {is, id} : dino'[j] = dino[j]
          /\ dino'[is].ents = dino[is].ents
          /\ dino'[id].ents = [dino[id].ents EXCEPT ![n] = is]
          /\ \A j \in Inums : dino'[j].type = dino[j].type
      BY <2>4, <2>8, <1>6 DEF Relink2
    <3>2. dino[is].ents = NoEntries /\ \A j \in Inums : dino[j].ents \in [Names -> Inums \cup {0}]
      BY <1>5, <2>4 DEF Disk, IInv, Types, DInode
    <3>3. PICK r \in [Inums -> Nat] : Ranked(r)
      BY DEF IInv, Tree
    <3> DEFINE r1 == [j \in Inums |-> IF j = is THEN 0 ELSE r[j] + 1]
    <3>4. r1 \in [Inums -> Nat] /\ r1[is] = 0 /\ \A j \in Inums \ {is} : r1[j] = r[j] + 1
      OBVIOUS
    <3> HIDE DEF r1
    <3>5. ASSUME NEW e \in Inums, NEW m \in Names, NEW x \in Inums, x = dino'[e].ents[m],
                 dino'[x].type = "DIR"
          PROVE  r1[x] < r1[e]
      <4>1. e # is
        BY <3>1, <3>2, <3>5, Numbers DEF NoEntries
      <4>2. x = is \/ (x = dino[e].ents[m] /\ dino[x].type = "DIR")
        BY <3>1, <3>2, <3>5, <4>1
      <4>3. r[e] \in Nat /\ r[x] \in Nat /\ r1[e] = r[e] + 1
        BY <3>3, <3>4, <4>1
      <4>4. CASE x = is
        BY <4>3, <4>4, <3>4
      <4>5. CASE x # is
        <5>1. r[x] < r[e]
          BY <4>2, <4>5, <3>3, Numbers DEF Ranked
        <5> QED BY <5>1, <4>3, <4>5, <3>4
      <4> QED BY <4>4, <4>5
    <3>6. \A e \in Inums, m \in Names : dino'[e].ents[m] \in Inums \cup {0}
      BY <3>1, <3>2
    <3>7. Ranked(r1)'
      BY <3>5, <3>6, Numbers DEF Ranked, r1
    <3> QED BY <3>4, <3>7 DEF Tree
  <2>15. /\ Relink2(Ilock(it, s), s, d, 1, l, n, i, it', dino') /\ Disk(d).ents[n] = old
         /\ i \in {0, it[s].inum} /\ old \in {0, it[s].inum}
    BY <2>4, <2>8, <2>11, <1>4 DEF t
  <2>16. DirEdit(p, s, d, 1, l, n, i, old, ss, F)
    BY <1>1, <1>3, <1>6, <1>8, <2>1, <2>10, <2>13, <2>14, <2>15 DEF DirEdit
  <2>17. i # 0
    BY <2>11, Numbers
  <2> QED BY <1>1, <1>5, <2>11, <2>16, <2>17
<1> QED BY <1>3, <1>9, <1>10

\* The rest of create keeps the invariant.
LEMMA CreateFreshStep ==
  ASSUME IInv, NEW p \in Proc, CreateFresh(p)
  PROVE  IInv'
<1>1. PICK s, d : \/ GiveUp(p, s, d)
                  \/ \E k, l, n, i, old, ss, F : DirEdit(p, s, d, k, l, n, i, old, ss, F)
  BY FreshIs
<1> QED BY <1>1, GivesUp, DirChanges


\* create up to the lock of the inode.
LEMMA CreateStep ==
  ASSUME IInv, ~MayFill, NEW p \in Proc, NEW op \in {"create", "mkdir"}, Create(p, op)
  PROVE  IInv'
<1>1. pc[p] = op /\ pc[p] \in Calm \cap Places
  BY DEF Create, Locks, Calm, Places, Later
<1>2. /\ Place(p) /\ At(p) = op /\ call[p].ip \in Slots /\ call[p].op = op
      /\ call[p].dp = 0 /\ todo[p] = <<>> /\ ToSet(todo[p]) = {} /\ call[p] \in Call1
      /\ next[p] \in Later /\ call[p].path # <<>> /\ fds[p] \in SUBSET Slots
  BY <1>1, AtRest DEF IInv, Place
<1>3. PICK d \in Slots : d = call[p].ip
  BY <1>2
<1> DEFINE t == Ilock(it, d)
           i == dino[t[d].inum].ents[Name(p)]
           unused == {j \in Inums : dino[j].type = "NONE"}
           new == Min(unused)
<1>4. /\ lock[d] = Nobody /\ UNCHANGED <<bitmap, fds>>
      /\ \/ /\ i # 0 /\ Room(t, i) /\ panicked' = Full(t, i)
            /\ it' = Iget(t, i)
            /\ call' = [call EXCEPT ![p].ip = Slot(t, i)]
            /\ Puts(p, <<d>>, "found")
            /\ UNCHANGED <<dino, lock>>
         \/ /\ i = 0 /\ it' = t /\ Ends(p, <<d>>)
            /\ UNCHANGED <<dino, lock, panicked>>
         \/ /\ i = 0 /\ unused # {} /\ Room(t, new) /\ panicked' = Full(t, new)
            /\ it' = Iget(t, new)
            /\ dino' = [dino EXCEPT ![new] = [FreeInode EXCEPT !.type = Type(op)]]
            /\ lock' = [lock EXCEPT ![d] = p]
            /\ call' = [call EXCEPT ![p].ip = Slot(t, new), ![p].dp = d]
            /\ Goes(p, "fresh")
  BY <1>3 DEF Create, Locks
<1>5. /\ d \notin Freed /\ it[d].ref > 0 /\ it[d].inum \in Inums
      /\ Same(it, t) /\ Sound(t, dino, Freed) /\ t[d].valid /\ t[d].inum = it[d].inum
      /\ t[d].ref = it[d].ref
  BY <1>1, <1>3, <1>4, Looked, CalmIs DEF Uses, Keeps
<1>6. Name(p) \in Names /\ Disk(d).type = "DIR" /\ i = Disk(d).ents[Name(p)]
  BY <1>1, <1>2, <1>3, <1>5, NameIs DEF IInv, Holding, Held, Disk, DirPlaces
<1>7. CASE /\ i # 0 /\ Room(t, i) /\ panicked' = Full(t, i)
           /\ it' = Iget(t, i)
           /\ call' = [call EXCEPT ![p].ip = Slot(t, i)]
           /\ Puts(p, <<d>>, "found")
           /\ UNCHANGED <<dino, lock>>
  <2>1. i \in Inums /\ dino[i].nlink >= 1 /\ ~Full(t, i) /\ panicked' = FALSE
    BY <1>5, <1>6, <1>7, Named DEF IInv, Room
  <2> HIDE DEF t, i
  <2> DEFINE k == Slot(t, i)
             c == [call[p] EXCEPT !.ip = k]
  <2>2. k \in Slots
    BY <1>5, <1>7, <2>1, Got
  <2> HIDE DEF k
  <2>3. /\ c \in Call1 /\ c.ip = k /\ c.dp = 0 /\ c.op = op /\ c.path = call[p].path
    BY <1>2, <2>2 DEF Call1
  <2>4. call' = [call EXCEPT ![p] = c]
    BY <1>7 DEF k
  <2> HIDE DEF c
  <2>5. /\ pc' = [pc EXCEPT ![p] = "put"] /\ todo' = [todo EXCEPT ![p] = <<d>>]
        /\ next' = [next EXCEPT ![p] = "found"] /\ fds' = fds
    BY <1>4, <1>7 DEF Puts
  <2>6. Local(p, "put", <<d>>, "found", c, fds[p])
    BY <1>2, <2>3, <2>4, <2>5, OnePut DEF Local, Others, IInv, Types, Putting, Later
  <2>7. Place(p)' /\ At(p)' = "found"
    BY <1>2, <2>2, <2>3, <2>6, OnePut, Numbers DEF Local, Place, At, Putting
  <2>8. \A u \in Slots : Count(p, u)' = Count(p, u) + (IF u = k THEN 1 ELSE 0)
    <3> SUFFICES ASSUME NEW u \in Slots
                 PROVE  Count(p, u)' = Count(p, u) + (IF u = k THEN 1 ELSE 0)
      OBVIOUS
    <3>1. u \in ToSet(<<d>>) <=> u = d
      BY OnePut
    <3> QED BY <1>2, <1>3, <2>3, <2>6, <3>1 DEF Local, Count, Ways, Bit
  <2>9. At(p)' \notin DirPlaces /\ "put" \in Calm
    BY <2>7 DEF DirPlaces, Calm
  <2>10. /\ UNCHANGED <<disk, lock>> /\ it' = Iget(t, i) /\ c.op # "link2"
         /\ \A u \in Slots : Count(p, u)' = Count(p, u) + (IF u = Slot(t, i) THEN 1 ELSE 0)
    BY <1>4, <1>7, <2>3, <2>8 DEF k, disk
  <2> QED BY <1>1, <1>5, <2>1, <2>3, <2>6, <2>7, <2>9, <2>10, Get
<1>8. CASE i = 0 /\ it' = t /\ Ends(p, <<d>>) /\ UNCHANGED <<dino, lock, panicked>>
  BY <1>1, <1>2, <1>3, <1>4, <1>8, CallEnds DEF IInv, Types, disk
<1>9. CASE /\ i = 0 /\ unused # {} /\ Room(t, new) /\ panicked' = Full(t, new)
           /\ it' = Iget(t, new)
           /\ dino' = [dino EXCEPT ![new] = [FreeInode EXCEPT !.type = Type(op)]]
           /\ lock' = [lock EXCEPT ![d] = p]
           /\ call' = [call EXCEPT ![p].ip = Slot(t, new), ![p].dp = d]
           /\ Goes(p, "fresh")
  <2>1. new \in Inums /\ dino[new] = FreeInode /\ ~Full(t, new) /\ panicked' = FALSE
    <3>1. unused \subseteq Nat
      BY Numbers
    <3>2. new \in unused
      BY <3>1, <1>9, Least
    <3> QED BY <3>2, <1>9 DEF IInv, Free, Room
  <2> HIDE DEF t, i, unused, new
  <2>2. PICK j \in Inums : j = new
    BY <2>1
  <2>30. ~Full(t, j)
    BY <2>1, <2>2
  <2>3. LET k0 == Slot(t, j) u == Iget(t, j) IN
         /\ k0 \in Slots /\ u \in [Slots -> Entry] /\ u[k0].inum = j
         /\ \A s \in Slots \ {k0} : u[s] = t[s]
         /\ \A s \in Slots : u[s].ref = t[s].ref + (IF s = k0 THEN 1 ELSE 0)
         /\ t[k0].ref > 0 => t[k0].inum = j /\ u[k0] = [t[k0] EXCEPT !.ref = t[k0].ref + 1]
         /\ t[k0].ref = 0 => /\ u[k0] = [NoInode EXCEPT !.inum = j, !.ref = 1]
                             /\ \A s \in Slots : t[s].ref > 0 => t[s].inum # j
         /\ Sound(u, dino, Freed)
    BY <1>5, <2>30, IgetIs
  <2>31. PICK k \in Slots : k = Slot(t, j)
    BY <2>3
  <2>4. /\ k \in Slots /\ it' \in [Slots -> Entry] /\ it'[k].inum = j
        /\ \A s \in Slots \ {k} : it'[s] = t[s]
        /\ \A s \in Slots : it'[s].ref = t[s].ref + (IF s = k THEN 1 ELSE 0)
        /\ t[k].ref > 0 => t[k].inum = j /\ it'[k] = [t[k] EXCEPT !.ref = t[k].ref + 1]
        /\ Sound(it', dino, Freed)
    BY <1>9, <2>2, <2>3, <2>31
  <2> DEFINE f == [FreeInode EXCEPT !.type = Type(op)]
             c == [call[p] EXCEPT !.ip = k, !.dp = d]
  <2>5. call' = [call EXCEPT ![p] = c]
    BY <1>9, <2>2, <2>31
  <2>6. /\ f.type = Type(op) /\ f.nlink = 0 /\ f.addrs = {} /\ f.ents = NoEntries
        /\ f \in DInode /\ f.type \in {"FILE", "DIR"}
    BY Empty DEF FreeInode, Type, Types0
  <2> HIDE DEF f
  <2>7. /\ dino' \in [Inums -> DInode] /\ dino'[j] = f /\ \A e \in Inums \ {j} : dino'[e] = dino[e]
    BY <1>9, <2>2, <2>6 DEF IInv, Types, f
  <2>8. /\ dino[j] = FreeInode /\ dino[j].type = "NONE" /\ dino[j].nlink = 0 /\ dino[j].addrs = {}
        /\ dino[j].ents = NoEntries
    BY <2>1, <2>2 DEF FreeInode
  <2>9. it[d].inum # j /\ k # d
    <3>1. it[d].inum # j
      BY <1>6, <2>8 DEF Disk
    <3> QED BY <3>1, <1>5, <2>4
  <2>10. /\ \A s \in Slots : /\ it'[s].ref = it[s].ref + (IF s = k THEN 1 ELSE 0)
                             /\ it[s].ref > 0 => it'[s].inum = it[s].inum
                             /\ it[s].valid \/ t[s].valid => it'[s].valid
    <3> SUFFICES ASSUME NEW s \in Slots
                 PROVE  /\ it'[s].ref = it[s].ref + (IF s = k THEN 1 ELSE 0)
                        /\ it[s].ref > 0 => it'[s].inum = it[s].inum
                        /\ it[s].valid \/ t[s].valid => it'[s].valid
      OBVIOUS
    <3>1. /\ t[s].ref = it[s].ref /\ t[s].inum = it[s].inum /\ (it[s].valid => t[s].valid)
          /\ t[s].valid => it[s].ref > 0
          /\ t[s] \in Entry
      BY <1>5 DEF Same
    <3>2. CASE s = k
      <4>1. t[s].ref > 0 => it'[s].valid = t[s].valid
        BY <3>1, <3>2, <2>4 DEF Entry
      <4> QED BY <4>1, <3>1, <3>2, <2>4
    <3>3. CASE s # k
      BY <3>1, <3>3, <2>4
    <3> QED BY <3>2, <3>3
  <2>11. c \in Call1 /\ c.ip = k /\ c.dp = d /\ c.op = op /\ c.path = call[p].path
    BY <1>2, <2>4 DEF Call1
  <2> HIDE DEF c
  <2>12. pc' = [pc EXCEPT ![p] = "fresh"] /\ todo' = todo /\ next' = next /\ fds' = fds
    BY <1>4, <1>9 DEF Goes
  <2>13. Local(p, "fresh", <<>>, next[p], c, fds[p])
    BY <1>2, <2>5, <2>11, <2>12 DEF Local, Others, IInv, Types, Places
  <2>14. Place(p)' /\ At(p)' = "fresh"
    BY <1>2, <2>4, <2>11, <2>13, Numbers, NonePut DEF Local, Place, At, Putting
  <2>15. \A u \in Slots : Count(p, u)' = Count(p, u) + (IF u = k THEN 1 ELSE 0)
    BY <1>2, <1>3, <2>11, <2>12, <2>13, Numbers DEF Local, Count, Ways, Bit
  <2>16. \A u \in Slots : it'[u].ref = it[u].ref + Count(p, u)' - Count(p, u)
    <3> SUFFICES ASSUME NEW u \in Slots PROVE it'[u].ref = it[u].ref + Count(p, u)' - Count(p, u)
      OBVIOUS
    <3>1. it[u].ref \in Nat
      BY DEF IInv, Types, Entry
    <3> DEFINE b == IF u = k THEN 1 ELSE 0
    <3>2. b \in Nat /\ it'[u].ref = it[u].ref + b /\ Count(p, u)' = Count(p, u) + b
      BY <2>10, <2>15
    <3> HIDE DEF b
    <3> QED BY <3>1, <3>2, CountUses
  <2>17. Freed' = Freed
    <3>1. \A q \in Proc \ {p} : pc'[q] = pc[q] /\ todo'[q] = todo[q]
      BY <2>13 DEF Local, Others
    <3>2. pc[p] # "invalid" /\ pc'[p] # "invalid"
      BY <1>1, <2>13 DEF Local
    <3> QED BY <3>1, <3>2 DEF Freed
  <2>18. Sound(it', dino', Freed')
    <3>1. ASSUME NEW s \in Slots, it'[s].valid, s \notin Freed'
          PROVE  Copy(it'[s], dino'[it'[s].inum])
      <4>1. Copy(it'[s], dino[it'[s].inum])
        BY <3>1, <2>4, <2>17 DEF Sound
      <4>2. it'[s].inum # j
        BY <4>1, <2>8 DEF Copy
      <4>3. it'[s].inum \in Inums
        BY <3>1, <2>4, Empty DEF Sound, Entry
      <4> QED BY <4>1, <4>2, <4>3, <2>7
    <3> QED BY <3>1, <2>4 DEF Sound
  <2>19. /\ lock' \in [Slots -> Proc \cup {Nobody}]
         /\ \A s \in Slots : lock'[s] = p <=> HasLock(p, s)'
         /\ \A s \in Slots, q \in Proc \ {p} : lock'[s] = q <=> lock[s] = q
    <3>1. pc'[p] = "fresh" /\ call'[p].dp = d /\ pc[p] \in Calm
      BY <1>1, <2>11, <2>13 DEF Local
    <3>2. lock[d] = Nobody /\ lock' = [lock EXCEPT ![d] = p] /\ pc'[p] \in {"fresh", "remove"}
      BY <1>4, <1>9, <3>1
    <3> HIDE DEF c, f
    <3> QED BY <3>1, <3>2, TakesLock, ZenonT(30)
  <2>20. \A q \in Proc : Uses(q, k) => Drops(q, k)
    <3>1. \A q \in Proc : Uses(q, k) => it[k].ref >= 1
      BY <2>4, RefsNow DEF IInv
    <3>2. it[k].ref > 0 => it[k].inum = j
      BY <2>4, <2>10
    <3>3. it[k].ref \in Nat
      BY <2>4 DEF IInv, Types, Entry
    <3> QED BY <3>1, <3>2, <3>3, <2>4, <2>8 DEF IInv, Free, Disk
  <2>21. \A u \in Slots : ~Drops(p, u)
    BY <1>1, CalmIs
  <2>22. \A u \in Slots \ {k} : Uses(p, u)' => Uses(p, u)
    BY <2>15, CountUses
  <2>23. Allots(p, j)
    BY <2>4, <2>7, <2>8, <2>11, <2>13 DEF Allots, Local, f
  <2>24. Guar(p)
    BY <2>4, <2>7, <2>10, <2>11, <2>13, <2>21, <2>22, <2>23, <1>1 DEF Guar, Local
  <2>25. Making(p)'
    <3>1. call'[p] = c /\ Name(p)' = Name(p) /\ fds'[p] = fds[p]
      BY <2>11, <2>13 DEF Local, Name
    <3>2. it'[d].inum = it[d].inum
      BY <1>5, <2>10
    <3>3. k \notin fds[p]
      BY <2>20, <2>21, <2>4 DEF Uses, Keeps
    <3>4. ASSUME NEW q \in Proc \ {p}, Uses(q, k)' PROVE Drops(q, k)'
      <4>1. (Uses(q, k)' <=> Uses(q, k)) /\ (Drops(q, k)' <=> Drops(q, k))
        BY <2>13 DEF Local, Others, Uses, Keeps, Drops
      <4> QED BY <4>1, <3>4, <2>20
    <3>5. Disk(k)' = f
      BY <2>4, <2>7 DEF Disk
    <3>6. Disk(d)' = Disk(d)
      BY <3>2, <1>5, <2>7, <2>9 DEF Disk
    <3>7. Disk(d).ents[Name(p)] = 0
      BY <1>6, <1>9
    <3> QED BY <3>1, <3>3, <3>4, <3>5, <3>6, <3>7, <1>6, <2>9, <2>11 DEF Making, f
  <2>26. Held(p)'
    <3>1. it'[d].valid /\ \A u \in fds[p] : it'[u].valid
      BY <1>2, <1>5, <2>10 DEF IInv, Holding, Held
    <3> QED BY <3>1, <2>11, <2>13, <2>14, <2>25 DEF Held, Local
  <2>27. /\ dino'[ROOTINO].type = "DIR"
         /\ \A e \in Inums : /\ dino'[e].type = "NONE" => dino'[e] = FreeInode
                             /\ dino'[e].type = "FILE" => dino'[e].ents = NoEntries
    BY <2>6, <2>7, <2>8, Numbers DEF IInv, Free
  <2>28. Space' /\ bitmap' \in SUBSET Blocks
    <3>1. \A e \in Inums : dino'[e].addrs = dino[e].addrs
      BY <2>6, <2>7, <2>8
    <3> QED BY <3>1, <1>4, SpaceKept DEF IInv, Types
  <2>29. Referenced' => Tree' /\ Linked'
    <3>1. Entries(j) = {}
      <4>1. Links(j) \in Nat /\ ~(Links(j) >= 1)
        BY <2>8, LinkSets DEF IInv, Linked
      <4> QED BY <4>1, LinkSets
    <3>2. /\ \A e \in Inums, m \in Names : dino'[e].ents[m] # 0 => dino'[e].ents[m] = dino[e].ents[m]
          /\ \A e \in Inums : dino'[e].type = "DIR" => dino[e].type = "DIR" \/ Entries(e) = {}
          /\ \A e \in Inums : dino'[e].nlink >= dino[e].nlink
      <4> SUFFICES ASSUME NEW e \in Inums
                   PROVE  /\ \A m \in Names : dino'[e].ents[m] # 0 => dino'[e].ents[m] = dino[e].ents[m]
                          /\ dino'[e].type = "DIR" => dino[e].type = "DIR" \/ Entries(e) = {}
                          /\ dino'[e].nlink >= dino[e].nlink
        OBVIOUS
      <4>1. dino[e].nlink \in Nat
        BY DEF IInv, Types, DInode
      <4>2. CASE e = j
        BY <4>2, <2>6, <2>7, <2>8, <3>1
      <4>3. CASE e # j
        BY <4>1, <4>3, <2>7
      <4> QED BY <4>2, <4>3
    <3>3. Others(p) /\ call'[p].op # "link2"
      BY <2>11, <2>13 DEF Local
    <3> QED BY <3>2, <3>3, <2>7, <2>24, Shrinks DEF IInv
  <2> QED BY <2>1, <2>7, <2>13, <2>14, <2>16, <2>18, <2>19, <2>24, <2>26, <2>27, <2>28, <2>29, Changes
<1> QED BY <1>4, <1>7, <1>8, <1>9

-----------------------------------------------------------------------------
(* link *)

\* Links, when no entry changes but the promises of p and the links of i.
LEMMA PromiseStep ==
  ASSUME IInv, NEW p \in Proc, Others(p), Guar(p), Referenced',
         \A j \in Inums : dino'[j].ents = dino[j].ents /\ dino'[j].type = dino[j].type,
         \A j \in Inums : dino'[j].nlink \in Nat /\ dino'[j].nlink
            >= dino[j].nlink + (Bit(Promises(p, j)') - Bit(Promises(p, j)))
  PROVE  Linked'
<1>1. \A e \in Inums, n \in Names : Leads(e, n)' <=> Leads(e, n)
  <2>1. \A e \in Inums, n \in Names : dino[e].ents[n] \in Inums \cup {0}
    BY DEF IInv, Types, DInode
  <2> QED BY <2>1 DEF Leads
<1>2. ASSUME NEW j \in Inums PROVE dino'[j].nlink >= Links(j)'
  <2> DEFINE b == Bit(Promises(p, j)') - Bit(Promises(p, j))
  <2>1. Links(j)' = Links(j) + b /\ Links(j)' \in Nat
    <3>1. Types /\ Placed /\ Referenced /\ Stays
      BY DEF IInv, Guar, Stays
    <3> QED BY <3>1, <1>1, SameTree
  <2>2. b \in Int
    BY DEF Bit
  <2>3. Links(j) \in Nat /\ dino[j].nlink >= Links(j) /\ dino[j].nlink \in Nat
    BY LinkSets DEF IInv, Linked, Types, DInode
  <2>4. dino'[j].nlink >= dino[j].nlink + b /\ dino'[j].nlink \in Nat
    OBVIOUS
  <2> HIDE DEF b
  <2> QED BY <2>1, <2>2, <2>3, <2>4
<1> QED BY <1>2 DEF Linked

\* sys_link, when dirlink has failed.
LEMMA LinkBadStep ==
  ASSUME IInv, NEW p \in Proc, LinkBad(p)
  PROVE  IInv'
<1>1. pc[p] = "bad" /\ pc[p] \in Places /\ pc[p] \notin Putting /\ pc[p] \in Calm
  BY DEF LinkBad, Locks, Places, Later, Putting, Calm
<1>2. /\ Place(p) /\ At(p) = "bad" /\ call[p].ip = 0 /\ call[p].op = "link2"
      /\ call[p].dp \in Slots /\ todo[p] = <<>> /\ ToSet(todo[p]) = {} /\ call[p] \in Call1
      /\ next[p] \in Later /\ call[p].path \in Seq(Names) \ {<<>>} /\ fds[p] \in SUBSET Slots
  BY <1>1, AtRest DEF IInv, Place
<1>3. PICK s \in Slots : s = call[p].dp
  BY <1>2
<1> DEFINE k == it[s].nlink - 1
<1>4. /\ lock[s] = Nobody /\ it' = WithLinks(it, s, k)
      /\ dino' = Iupdate(dino, WithLinks(it, s, k), s) /\ Ends(p, <<s>>)
      /\ UNCHANGED <<bitmap, lock, fds>> /\ panicked' = FALSE
  BY <1>3 DEF LinkBad, Locks, IInv, Types
<1>5. Uses(p, s) /\ \A u \in Slots : ~Drops(p, u)
  BY <1>1, <1>3, CalmIs DEF Uses, Keeps
<1>6. s \notin Freed /\ it[s].ref > 0 /\ it[s].inum \in Inums /\ Disk(s) \in DInode
  BY <1>4, <1>5, Looked
<1>7. it[s].valid /\ Sound(it, dino, Freed) /\ Copy(it[s], Disk(s))
  BY <1>2, <1>3, <1>6, Numbers DEF IInv, Holding, Held, Table, Sound, Disk
<1>8. PICK is \in Inums : is = it[s].inum
  BY <1>6
<1>9. dino[is].nlink >= 1 /\ dino[is].nlink \in Nat /\ it[s].nlink = dino[is].nlink
  <2>1. p \in Promised(is)
    BY <1>2, <1>3, <1>8 DEF Promised
  <2> QED BY <2>1, <1>6, <1>7, <1>8, Needed DEF IInv, Copy, Disk, DInode
<1>10. k \in Nat
  BY <1>9
<1> HIDE DEF k
<1>11. Relink(it, dino, s, k, it', dino')
  BY <1>4, <1>6, <1>7, <1>10, Relinked DEF IInv, Types
<1>12. /\ Same(it, it') /\ Sound(it', dino', Freed) /\ dino' \in [Inums -> DInode]
       /\ \A j \in Inums \ {is} : dino'[j] = dino[j]
       /\ dino'[is].ents = dino[is].ents /\ dino'[is].nlink = k /\ dino'[is].type = dino[is].type
       /\ dino'[is].addrs = dino[is].addrs
  BY <1>8, <1>11 DEF Relink
<1>13. /\ pc' = [pc EXCEPT ![p] = "put"] /\ todo' = [todo EXCEPT ![p] = <<s>>]
       /\ next' = [next EXCEPT ![p] = "user"] /\ call' = [call EXCEPT ![p] = NoCall] /\ fds' = fds
  BY <1>4 DEF Ends, Puts
<1>14. Local(p, "put", <<s>>, "user", NoCall, fds[p])
  BY <1>2, <1>13, OnePut, NonePut DEF Local, Others, IInv, Types, Putting, Later
<1>15. pc'[p] = "put" /\ next'[p] = "user" /\ call'[p] = NoCall /\ fds'[p] = fds[p] /\ Others(p)
  BY <1>14 DEF Local
<1>16. Place(p)'
  BY <1>2, <1>14, OnePut, NonePut DEF Local, Place, At, Putting
<1>17. \A u \in Slots : Count(p, u)' = Count(p, u)
  <2> SUFFICES ASSUME NEW u \in Slots PROVE Count(p, u)' = Count(p, u)
    OBVIOUS
  <2>1. u \in ToSet(<<s>>) <=> u = s
    BY OnePut
  <2> QED BY <1>2, <1>3, <1>14, <2>1, Numbers DEF Local, Count, Ways, Bit, NoCall
<1>18. \A u \in Slots : it'[u].ref = it[u].ref + Count(p, u)' - Count(p, u)
  <2>1. \A u \in Slots : it[u].ref \in Nat /\ it'[u].ref = it[u].ref
    BY <1>12 DEF Same, IInv, Types, Entry
  <2> QED BY <2>1, <1>17, CountUses
<1>19. Held(p)'
  <2>1. \A u \in fds[p] : it'[u].valid
    BY <1>2, <1>12 DEF IInv, Holding, Held, Same
  <2>2. At(p)' = "user"
    BY <1>15 DEF At, Putting
  <2> QED BY <2>1, <2>2, <1>15, NonePut DEF Held
<1>20. \A j \in Inums : /\ dino'[j].type = dino[j].type /\ dino'[j].addrs = dino[j].addrs
                        /\ dino'[j].ents = dino[j].ents
                        /\ dino'[j] = dino[j] \/ \E u \in Slots : it[u].inum = j /\ Mine(p, u)
  <2>1. Mine(p, s)
    BY <1>4, <1>5 DEF Mine
  <2>2. \A j \in Inums : dino'[j] = dino[j] \/ it[s].inum = j
    BY <1>8, <1>12
  <2> QED BY <2>1, <2>2, <1>12
<1>21. /\ lock' \in [Slots -> Proc \cup {Nobody}]
       /\ \A u \in Slots : lock'[u] = p <=> HasLock(p, u)'
       /\ \A u \in Slots, q \in Proc \ {p} : lock'[u] = q <=> lock[u] = q
  BY <1>1, <1>4, <1>15 DEF IInv, Locked, Types, HasLock
<1>22. \A j \in Inums : dino'[j].nlink \in Nat /\ dino'[j].nlink
            >= dino[j].nlink + (Bit(Promises(p, j)') - Bit(Promises(p, j)))
  <2> SUFFICES ASSUME NEW j \in Inums
               PROVE  dino'[j].nlink \in Nat /\ dino'[j].nlink
                         >= dino[j].nlink + (Bit(Promises(p, j)') - Bit(Promises(p, j)))
    OBVIOUS
  <2>1. ~Promises(p, j)' /\ (Promises(p, j) <=> j = is)
    BY <1>2, <1>3, <1>8, <1>15, NonePut DEF Promises
  <2>2. Bit(Promises(p, j)') = 0 /\ Bit(Promises(p, j)) = (IF j = is THEN 1 ELSE 0)
    BY <2>1 DEF Bit
  <2>3. dino[j].nlink \in Nat
    BY DEF IInv, Types, DInode
  <2>4. CASE j = is
    <3>1. dino'[j].nlink = k /\ k = dino[j].nlink - 1
      BY <2>4, <1>9, <1>12 DEF k
    <3> QED BY <3>1, <2>2, <2>3, <2>4, <1>10
  <2>5. CASE j # is
    BY <2>2, <2>3, <2>5, <1>12
  <2> QED BY <2>4, <2>5
<1>23. bitmap' = bitmap
  BY <1>4
<1>24. Tree'
  <2>1. \A e \in Inums, n \in Names : dino[e].ents[n] \in Inums \cup {0}
    BY DEF IInv, Types, DInode
  <2> QED BY <2>1, <1>20, TreeKept DEF IInv
<1>25. Referenced' /\ Guar(p) => Linked'
  BY <1>15, <1>20, <1>22, PromiseStep
<1>26. /\ \A u \in Slots : it[u].ref > 0 =>
             it'[u].inum = it[u].inum /\ (it[u].valid => it'[u].valid)
       /\ \A u \in Slots : Uses(p, u)' => Uses(p, u) \/ dino[it'[u].inum].nlink >= 1
       /\ "put" # "invalid" /\ pc[p] # "fresh"
  BY <1>1, <1>12, <1>17, CountUses DEF Same
<1>27. \A j \in Inums : /\ dino'[j].type = dino[j].type /\ dino'[j].addrs = dino[j].addrs
                        /\ dino'[j].ents = dino[j].ents \/ dino[j].type = "DIR"
                        /\ dino'[j] = dino[j] \/ \E u \in Slots : it[u].inum = j /\ Mine(p, u)
  BY <1>20
<1> QED BY <1>1, <1>4, <1>12, <1>14, <1>16, <1>18, <1>19, <1>21, <1>23, <1>24, <1>25, <1>26, <1>27, Edits

\* sys_link enters the new name, a promise that is kept.
LEMMA LinkNameStep ==
  ASSUME IInv, NEW p \in Proc, LinkName(p)
  PROVE  IInv'
<1>1. pc[p] = "link2" /\ pc[p] \in Calm \cap Places /\ pc[p] \notin Putting
  BY DEF LinkName, Locks, Calm, Places, Later, Putting
<1>2. /\ Place(p) /\ At(p) = "link2" /\ call[p].ip \in Slots /\ call[p].op = "link2"
      /\ call[p].dp \in Slots /\ todo[p] = <<>> /\ ToSet(todo[p]) = {} /\ call[p] \in Call1
      /\ next[p] \in Later /\ call[p].path # <<>> /\ fds[p] \in SUBSET Slots
  BY <1>1, AtRest DEF IInv, Place
<1>3. PICK d \in Slots, s \in Slots : d = call[p].ip /\ s = call[p].dp
  BY <1>2
<1>9. PICK n \in Names : n = Name(p)
  BY <1>2, NameIs DEF IInv
<1> DEFINE t == Ilock(it, d)
<1>4. /\ lock[d] = Nobody /\ UNCHANGED <<bitmap, lock, fds>> /\ panicked' = FALSE /\ it' = t
      /\ \/ /\ dino[t[d].inum].ents[n] = 0
            /\ dino' = Enter(dino, t[d].inum, n, it[s].inum)
            /\ Ends(p, <<d, s>>)
         \/ LinkFails(p) /\ dino' = dino
  BY <1>3, <1>9 DEF LinkName, Locks, IInv, Types
<1>5. Uses(p, s) /\ Uses(p, d) /\ \A u \in Slots : ~Drops(p, u)
  BY <1>1, <1>3, CalmIs DEF Uses, Keeps
<1>6. /\ d \notin Freed /\ it[d].inum \in Inums /\ Same(it, it') /\ Sound(it', dino, Freed)
      /\ t[d].inum = it[d].inum
  BY <1>3, <1>4, <1>5, Looked
<1>7. CASE LinkFails(p) /\ dino' = dino
  BY <1>1, <1>2, <1>3, <1>4, <1>7, NewPathEnds DEF disk
<1>8. CASE /\ dino[t[d].inum].ents[n] = 0
           /\ dino' = Enter(dino, t[d].inum, n, it[s].inum)
           /\ Ends(p, <<d, s>>)
  <2>1. it[s].inum \in Inums /\ it[s].ref > 0
    BY <1>5, RefsNow DEF IInv, Table, Sound
  <2>2. PICK is \in Inums, id \in Inums : is = it[s].inum /\ id = it[d].inum
    BY <1>6, <2>1
  <2>3. dino[id].type = "DIR" /\ dino[is].type = "FILE" /\ s # d /\ is # id
    BY <1>2, <1>3, <2>2 DEF IInv, Holding, Held, Disk
  <2>4. dino[id].ents[n] = 0
    BY <1>6, <1>8, <2>2
  <2>5. dino' = Enter(dino, id, n, is)
    BY <1>6, <1>8, <2>2
  <2> HIDE DEF t
  <2>6. LET f == Enter(dino, id, n, is) IN
         /\ f \in [Inums -> DInode]
         /\ \A j \in Inums \ {id} : f[j] = dino[j]
         /\ f[id].type = dino[id].type /\ f[id].nlink = dino[id].nlink /\ f[id].addrs = dino[id].addrs
         /\ f[id].ents = [dino[id].ents EXCEPT ![n] = is]
         /\ \A v, x : Sound(v, dino, x) => Sound(v, f, x)
    BY <2>4, EnterIs DEF IInv, Types
  <2>7. /\ dino' \in [Inums -> DInode] /\ Sound(it', dino', Freed)
        /\ \A j \in Inums \ {id} : dino'[j] = dino[j]
        /\ dino'[id].type = dino[id].type /\ dino'[id].nlink = dino[id].nlink
        /\ dino'[id].addrs = dino[id].addrs
        /\ dino'[id].ents = [dino[id].ents EXCEPT ![n] = is]
    BY <1>6, <2>5, <2>6
  <2>8. \A j \in Inums : /\ dino[j].nlink \in Nat /\ dino[j].ents \in [Names -> Inums \cup {0}]
                         /\ dino'[j].type = dino[j].type /\ dino'[j].nlink = dino[j].nlink
                         /\ dino'[j].addrs = dino[j].addrs
    BY <2>7 DEF IInv, Types, DInode
  <2>9. /\ pc' = [pc EXCEPT ![p] = "put"] /\ todo' = [todo EXCEPT ![p] = <<d, s>>]
        /\ next' = [next EXCEPT ![p] = "user"] /\ call' = [call EXCEPT ![p] = NoCall] /\ fds' = fds
    BY <1>4, <1>8 DEF Ends, Puts
  <2>10. Local(p, "put", <<d, s>>, "user", NoCall, fds[p])
    BY <1>2, <2>9, ToPut, NonePut DEF Local, Others, IInv, Types, Putting, Later
  <2>11. pc'[p] = "put" /\ next'[p] = "user" /\ call'[p] = NoCall /\ fds'[p] = fds[p] /\ Others(p)
    BY <2>10 DEF Local
  <2>12. Place(p)'
    BY <1>2, <2>3, <2>10, ToPut, NonePut DEF Local, Place, At, Putting
  <2>13. \A u \in Slots : Count(p, u)' = Count(p, u)
    <3> SUFFICES ASSUME NEW u \in Slots PROVE Count(p, u)' = Count(p, u)
      OBVIOUS
    <3>1. u \in ToSet(<<d, s>>) <=> u = d \/ u = s
      BY ToPut
    <3> QED BY <1>2, <1>3, <2>3, <2>10, <3>1, Numbers DEF Local, Count, Ways, Bit, NoCall
  <2>14. \A u \in Slots : it'[u].ref = it[u].ref + Count(p, u)' - Count(p, u)
    <3>1. \A u \in Slots : it[u].ref \in Nat /\ it'[u].ref = it[u].ref
      BY <1>6 DEF Same, IInv, Types, Entry
    <3> QED BY <3>1, <2>13, CountUses
  <2>15. Held(p)'
    <3>1. \A u \in fds[p] : it'[u].valid
      BY <1>2, <1>6 DEF IInv, Holding, Held, Same
    <3>2. At(p)' = "user"
      BY <2>11 DEF At, Putting
    <3> QED BY <3>1, <3>2, <2>11, NonePut DEF Held
  <2>16. \A j \in Inums : /\ dino'[j].type = dino[j].type /\ dino'[j].addrs = dino[j].addrs
                          /\ dino'[j].ents = dino[j].ents \/ dino[j].type = "DIR"
                          /\ dino'[j] = dino[j] \/ \E u \in Slots : it[u].inum = j /\ Mine(p, u)
    <3>1. Mine(p, d)
      BY <1>4, <1>5 DEF Mine
    <3>2. \A j \in Inums : dino'[j] = dino[j] \/ (j = id /\ dino[j].type = "DIR" /\ it[d].inum = j)
      BY <2>2, <2>3, <2>7
    <3> QED BY <3>1, <3>2, <2>8
  <2>17. /\ lock' \in [Slots -> Proc \cup {Nobody}]
         /\ \A u \in Slots : lock'[u] = p <=> HasLock(p, u)'
         /\ \A u \in Slots, q \in Proc \ {p} : lock'[u] = q <=> lock[u] = q
    BY <1>1, <1>4, <2>11 DEF IInv, Locked, Types, HasLock
  <2>18. \A e \in Inums, m \in Names :
            <<e, m>> # <<id, n>> => /\ dino'[e].ents[m] = dino[e].ents[m]
                                    /\ Leads(e, m)' <=> Leads(e, m)
    <3> SUFFICES ASSUME NEW e \in Inums, NEW m \in Names, <<e, m>> # <<id, n>>
                 PROVE  /\ dino'[e].ents[m] = dino[e].ents[m]
                        /\ Leads(e, m)' <=> Leads(e, m)
      OBVIOUS
    <3>1. dino'[e].ents[m] = dino[e].ents[m]
      <4>1. CASE e = id
        BY <4>1, <2>7, <2>8
      <4>2. CASE e # id
        BY <4>2, <2>7
      <4> QED BY <4>1, <4>2
    <3>2. dino[e].ents[m] \in Inums \cup {0}
      BY <2>8
    <3> QED BY <3>1, <3>2, <2>8 DEF Leads
  <2>19. dino'[id].ents[n] = is /\ is # 0
    BY <2>4, <2>7, <2>8, Numbers
  <2>20. ~Leads(id, n)' /\ ~Leads(id, n)
    BY <2>3, <2>4, <2>8, <2>19 DEF Leads
  <2>21. Tree'
    <3>1. ASSUME NEW e \in Inums, NEW m \in Names, Leads(e, m)'
          PROVE  dino'[e].ents[m] = dino[e].ents[m] /\ Leads(e, m)
      <4>1. <<e, m>> # <<id, n>>
        BY <3>1, <2>20
      <4> QED BY <4>1, <3>1, <2>18
    <3>2. \A e \in Inums, m \in Names : LET i == dino'[e].ents[m] IN
            i # 0 /\ dino'[i].type = "DIR" => i = dino[e].ents[m] /\ dino[i].type = "DIR"
      BY <3>1 DEF Leads
    <3> QED BY <3>2, TreeKept DEF IInv
  <2>22. ASSUME Referenced', Guar(p) PROVE Linked'
    <3>1. ASSUME NEW j \in Inums PROVE dino'[j].nlink >= Links(j)'
      <4>1. /\ Links(j)' = Links(j)
              + (Bit(dino'[id].ents[n] = j) - Bit(dino[id].ents[n] = j))
              + (IF j = id THEN Bit(Leads(id, n)') - Bit(Leads(id, n)) ELSE 0)
              + (Bit(Promises(p, j)') - Bit(Promises(p, j)))
            /\ Links(j)' \in Nat
        <5>1. Types /\ Placed /\ Referenced /\ Stays
          BY <2>22 DEF IInv, Guar, Stays
        <5> QED BY <5>1, <2>4, <2>11, <2>18, <2>22, LinksStep
      <4>2. Links(j) \in Nat /\ dino[j].nlink >= Links(j) /\ dino[j].nlink \in Nat
            /\ dino'[j].nlink = dino[j].nlink
        BY <2>8, LinkSets DEF IInv, Linked
      <4>3. /\ ~Promises(p, j)' /\ (Promises(p, j) <=> j = is)
            /\ (dino'[id].ents[n] = j <=> j = is) /\ ~(dino[id].ents[n] = j)
        BY <1>2, <1>3, <2>2, <2>4, <2>11, <2>19, NonePut, Numbers DEF Promises
      <4>4. /\ Bit(Promises(p, j)') = 0 /\ Bit(Promises(p, j)) = Bit(j = is)
            /\ Bit(dino'[id].ents[n] = j) = Bit(j = is) /\ Bit(dino[id].ents[n] = j) = 0
            /\ Bit(Leads(id, n)') = 0 /\ Bit(Leads(id, n)) = 0 /\ Bit(j = is) \in Int
        BY <4>3, <2>20 DEF Bit
      <4>5. Links(j)' = Links(j) + (Bit(j = is) - 0) + 0 + (0 - Bit(j = is))
        BY <4>1, <4>4
      <4> HIDE DEF Bit
      <4> QED BY <4>2, <4>4, <4>5
    <3> QED BY <3>1 DEF Linked
  <2>23. /\ \A u \in Slots : it[u].ref > 0 =>
               it'[u].inum = it[u].inum /\ (it[u].valid => it'[u].valid)
         /\ \A u \in Slots : Uses(p, u)' => Uses(p, u) \/ dino[it'[u].inum].nlink >= 1
         /\ "put" # "invalid" /\ pc[p] # "fresh"
    BY <1>1, <1>6, <2>13, CountUses DEF Same
  <2>24. bitmap' = bitmap
    BY <1>4
  <2> QED BY <1>1, <1>4, <2>7, <2>10, <2>12, <2>14, <2>15, <2>16, <2>17, <2>21, <2>22, <2>23, <2>24, Edits
<1> QED BY <1>4, <1>7, <1>8

\* sys_link promises a link, and goes on with the new path.
LEMMA LinkStep ==
  ASSUME IInv, ~MayFill, NEW p \in Proc, Link(p)
  PROVE  IInv'
<1>1. pc[p] = "link" /\ pc[p] \in Calm \cap Places /\ pc[p] \notin Putting
  BY DEF Link, Locks, Calm, Places, Later, Putting
<1>2. /\ Place(p) /\ At(p) = "link" /\ call[p].ip \in Slots /\ call[p].op = "link"
      /\ call[p].dp = 0 /\ todo[p] = <<>> /\ ToSet(todo[p]) = {} /\ call[p] \in Call1
      /\ next[p] \in Later /\ call[p].new \in Seq(Names) \ {<<>>} /\ fds[p] \in SUBSET Slots
  BY <1>1, AtRest DEF IInv, Place
<1>3. PICK s \in Slots : s = call[p].ip
  BY <1>2
<1> DEFINE t0 == Ilock(it, s)
           m == t0[s].nlink + 1
           t == WithLinks(t0, s, m)
           k0 == Slot(t, ROOTINO)
           c0 == [op |-> "link2", ip |-> k0, dp |-> s, path |-> call[p].new, new |-> <<>>]
<1>4. /\ lock[s] = Nobody /\ UNCHANGED <<bitmap, lock, fds>>
      /\ \/ it' = t0 /\ Ends(p, <<s>>) /\ UNCHANGED <<dino, panicked>>
         \/ /\ t[s].type # "DIR" /\ Room(t, ROOTINO)
            /\ it' = Iget(t, ROOTINO) /\ dino' = Iupdate(dino, t, s)
            /\ call' = [call EXCEPT ![p] = c0]
            /\ Goes(p, "walk")
            /\ panicked' = (t[s].type = "NONE" \/ Full(t, ROOTINO))
  BY <1>3 DEF Link, Locks
<1>5. Uses(p, s) /\ \A u \in Slots : ~Drops(p, u)
  BY <1>1, <1>3, CalmIs DEF Uses, Keeps
<1>6. /\ s \notin Freed /\ it[s].ref > 0 /\ it[s].inum \in Inums
      /\ Same(it, t0) /\ Sound(t0, dino, Freed) /\ t0 \in [Slots -> Entry]
      /\ t0[s].valid /\ Copy(t0[s], Disk(s)) /\ t0[s].inum = it[s].inum /\ t0[s].ref = it[s].ref
      /\ Disk(s).type # "NONE" /\ t0[s].type = Disk(s).type /\ Disk(s) \in DInode
  BY <1>4, <1>5, Looked
<1>7. CASE it' = t0 /\ Ends(p, <<s>>) /\ UNCHANGED <<dino, panicked>>
  BY <1>1, <1>2, <1>3, <1>4, <1>7, CallEnds DEF IInv, Types, disk
<1>8. CASE /\ t[s].type # "DIR" /\ Room(t, ROOTINO)
           /\ it' = Iget(t, ROOTINO) /\ dino' = Iupdate(dino, t, s)
           /\ call' = [call EXCEPT ![p] = c0]
           /\ Goes(p, "walk")
           /\ panicked' = (t[s].type = "NONE" \/ Full(t, ROOTINO))
  <2>1. PICK is \in Inums : is = it[s].inum
    BY <1>6
  <2>2. m \in Nat /\ m = dino[is].nlink + 1 /\ dino[is].nlink \in Nat
    BY <1>6, <2>1 DEF Copy, Disk, DInode
  <2>3. Relink(t0, dino, s, m, t, Iupdate(dino, t, s))
    <3> HIDE DEF m, t0
    <3> QED BY <1>6, <2>2, Relinked DEF IInv, Types
  <2>4. dino' = Iupdate(dino, t, s)
    BY <1>8
  <2> HIDE DEF m, t, t0, k0, c0
  <2>5. Relink(t0, dino, s, m, t, dino')
    BY <2>3, <2>4
  <2>6. /\ Same(it, t) /\ Sound(t, dino', Freed) /\ dino' \in [Inums -> DInode]
        /\ t[s].valid /\ t[s].type = Disk(s).type
        /\ \A j \in Inums \ {is} : dino'[j] = dino[j]
        /\ dino'[is].ents = dino[is].ents /\ dino'[is].nlink = m /\ dino'[is].type = dino[is].type
        /\ dino'[is].addrs = dino[is].addrs
    BY <1>6, <2>1, <2>5 DEF Relink, Same
  <2>7. Disk(s).type = "FILE" /\ ~Full(t, ROOTINO) /\ panicked' = FALSE /\ dino[is].type = "FILE"
    BY <1>6, <1>8, <2>1, <2>6 DEF DInode, Types0, Room, Disk
  <2>8. LET k1 == Slot(t, ROOTINO) u == Iget(t, ROOTINO) IN
         /\ k1 \in Slots /\ u \in [Slots -> Entry] /\ u[k1].inum = ROOTINO
         /\ \A v \in Slots \ {k1} : u[v] = t[v]
         /\ \A v \in Slots : u[v].ref = t[v].ref + (IF v = k1 THEN 1 ELSE 0)
         /\ t[k1].ref > 0 => t[k1].inum = ROOTINO /\ u[k1] = [t[k1] EXCEPT !.ref = t[k1].ref + 1]
         /\ t[k1].ref = 0 => /\ u[k1] = [NoInode EXCEPT !.inum = ROOTINO, !.ref = 1]
                             /\ \A v \in Slots : t[v].ref > 0 => t[v].inum # ROOTINO
         /\ Sound(u, dino', Freed)
    BY <2>6, <2>7, Numbers, IgetIs
  <2>9. PICK k \in Slots : k = Slot(t, ROOTINO)
    BY <2>8
  <2>10. /\ it' \in [Slots -> Entry] /\ it'[k].inum = ROOTINO
         /\ \A v \in Slots \ {k} : it'[v] = t[v]
         /\ \A v \in Slots : it'[v].ref = t[v].ref + (IF v = k THEN 1 ELSE 0)
         /\ t[k].ref > 0 => t[k].inum = ROOTINO /\ it'[k] = [t[k] EXCEPT !.ref = t[k].ref + 1]
         /\ Sound(it', dino', Freed)
    BY <1>8, <2>8, <2>9
  <2>11. is # ROOTINO /\ k # s
    <3>1. is # ROOTINO
      BY <2>7 DEF IInv, Free
    <3>2. t[s].ref > 0 /\ t[s].inum = is
      BY <1>6, <2>1, <2>6 DEF Same
    <3> QED BY <3>1, <3>2, <2>10
  <2>12. \A u \in Slots : /\ it'[u].ref = it[u].ref + (IF u = k THEN 1 ELSE 0)
                          /\ it[u].ref > 0 => it'[u].inum = it[u].inum
                          /\ it[u].valid => it'[u].valid
    <3> SUFFICES ASSUME NEW u \in Slots
                 PROVE  /\ it'[u].ref = it[u].ref + (IF u = k THEN 1 ELSE 0)
                        /\ it[u].ref > 0 => it'[u].inum = it[u].inum
                        /\ it[u].valid => it'[u].valid
      OBVIOUS
    <3>1. /\ t[u].ref = it[u].ref /\ t[u].inum = it[u].inum /\ (it[u].valid => t[u].valid)
          /\ t[u].valid => it[u].ref > 0
          /\ t[u] \in Entry
      BY <2>6 DEF Same
    <3>2. CASE u = k
      <4>1. t[u].ref > 0 => it'[u].valid = t[u].valid
        BY <3>1, <3>2, <2>10 DEF Entry
      <4> QED BY <4>1, <3>1, <3>2, <2>10
    <3>3. CASE u # k
      BY <3>1, <3>3, <2>10
    <3> QED BY <3>2, <3>3
  <2>13. PICK c : c = [op |-> "link2", ip |-> k, dp |-> s, path |-> call[p].new, new |-> <<>>]
    OBVIOUS
  <2>14. /\ c \in Call1 /\ c.op = "link2" /\ c.ip = k /\ c.dp = s /\ c.path = call[p].new
         /\ c.new = <<>> /\ call' = [call EXCEPT ![p] = c]
    <3>1. <<>> \in Seq(Names)
      OBVIOUS
    <3> QED BY <1>2, <1>8, <2>9, <2>13, <3>1 DEF Call1, Ops, k0, c0
  <2>15. pc' = [pc EXCEPT ![p] = "walk"] /\ todo' = todo /\ next' = next /\ fds' = fds
    BY <1>4, <1>8 DEF Goes
  <2>16. Local(p, "walk", <<>>, next[p], c, fds[p])
    BY <1>2, <2>14, <2>15 DEF Local, Others, IInv, Types, Places, Later
  <2>17. pc'[p] = "walk" /\ call'[p] = c /\ fds'[p] = fds[p] /\ Others(p)
    BY <2>16 DEF Local
  <2>18. Place(p)' /\ At(p)' = "walk"
    BY <1>2, <2>14, <2>16, Numbers, NonePut DEF Local, Place, At, Putting, Ops
  <2>19. \A u \in Slots : Count(p, u)' = Count(p, u) + (IF u = k THEN 1 ELSE 0)
    BY <1>2, <1>3, <2>11, <2>14, <2>15, <2>16, Numbers DEF Local, Count, Ways, Bit
  <2>20. \A u \in Slots : it'[u].ref = it[u].ref + Count(p, u)' - Count(p, u)
    <3> SUFFICES ASSUME NEW u \in Slots PROVE it'[u].ref = it[u].ref + Count(p, u)' - Count(p, u)
      OBVIOUS
    <3>1. it[u].ref \in Nat
      BY DEF IInv, Types, Entry
    <3> DEFINE b == IF u = k THEN 1 ELSE 0
    <3>2. b \in Nat /\ it'[u].ref = it[u].ref + b /\ Count(p, u)' = Count(p, u) + b
      BY <2>12, <2>19
    <3> HIDE DEF b
    <3> QED BY <3>1, <3>2, CountUses
  <2>21. \A u \in Slots : Uses(p, u)' => Uses(p, u) \/ dino[it'[u].inum].nlink >= 1
    <3>1. \A u \in Slots \ {k} : Uses(p, u)' => Uses(p, u)
      BY <2>19, CountUses
    <3>2. dino[ROOTINO].nlink >= 1
      BY Named DEF IInv
    <3> QED BY <3>1, <3>2, <2>10
  <2>22. it'[s].inum = is /\ it'[s].valid
    BY <1>6, <2>1, <2>6, <2>10, <2>11, <2>12
  <2>23. Held(p)'
    <3>1. \A u \in fds[p] : it'[u].valid
      BY <1>2, <2>12 DEF IInv, Holding, Held
    <3>2. Disk(s)'.type = "FILE"
      BY <2>6, <2>7, <2>22 DEF Disk
    <3> QED BY <3>1, <3>2, <2>14, <2>17, <2>18, <2>22 DEF Held
  <2>24. \A j \in Inums : /\ dino'[j].type = dino[j].type /\ dino'[j].addrs = dino[j].addrs
                          /\ dino'[j].ents = dino[j].ents
                          /\ dino'[j] = dino[j] \/ \E u \in Slots : it[u].inum = j /\ Mine(p, u)
    <3>1. Mine(p, s)
      BY <1>4, <1>5 DEF Mine
    <3>2. \A j \in Inums : dino'[j] = dino[j] \/ it[s].inum = j
      BY <2>1, <2>6
    <3> QED BY <3>1, <3>2, <2>6
  <2>25. /\ lock' \in [Slots -> Proc \cup {Nobody}]
         /\ \A u \in Slots : lock'[u] = p <=> HasLock(p, u)'
         /\ \A u \in Slots, q \in Proc \ {p} : lock'[u] = q <=> lock[u] = q
    BY <1>1, <1>4, <2>17 DEF IInv, Locked, Types, HasLock
  <2>26. \A j \in Inums : dino'[j].nlink \in Nat /\ dino'[j].nlink
            >= dino[j].nlink + (Bit(Promises(p, j)') - Bit(Promises(p, j)))
    <3> SUFFICES ASSUME NEW j \in Inums
                 PROVE  dino'[j].nlink \in Nat /\ dino'[j].nlink
                           >= dino[j].nlink + (Bit(Promises(p, j)') - Bit(Promises(p, j)))
      OBVIOUS
    <3>1. (Promises(p, j)' <=> j = is) /\ ~Promises(p, j)
      BY <1>2, <2>14, <2>17, <2>22 DEF Promises
    <3>2. Bit(Promises(p, j)') = (IF j = is THEN 1 ELSE 0) /\ Bit(Promises(p, j)) = 0
      BY <3>1 DEF Bit
    <3>3. dino[j].nlink \in Nat
      BY DEF IInv, Types, DInode
    <3>4. CASE j = is
      BY <3>2, <3>3, <3>4, <2>2, <2>6
    <3>5. CASE j # is
      BY <3>2, <3>3, <3>5, <2>6
    <3> QED BY <3>4, <3>5
  <2>27. bitmap' = bitmap
    BY <1>4
  <2>28. Tree'
    <3>1. \A e \in Inums, n \in Names : dino[e].ents[n] \in Inums \cup {0}
      BY DEF IInv, Types, DInode
    <3> QED BY <3>1, <2>24, TreeKept DEF IInv
  <2>29. Referenced' /\ Guar(p) => Linked'
    BY <2>17, <2>24, <2>26, PromiseStep
  <2>30. /\ \A u \in Slots : it[u].ref > 0 =>
               it'[u].inum = it[u].inum /\ (it[u].valid => it'[u].valid)
         /\ "walk" # "invalid" /\ pc[p] # "fresh"
    BY <1>1, <2>12
  <2>31. \A j \in Inums : /\ dino'[j].type = dino[j].type /\ dino'[j].addrs = dino[j].addrs
                          /\ dino'[j].ents = dino[j].ents \/ dino[j].type = "DIR"
                          /\ dino'[j] = dino[j] \/ \E u \in Slots : it[u].inum = j /\ Mine(p, u)
    BY <2>24
  <2>32. /\ dino' \in [Inums -> DInode] /\ Sound(it', dino', Freed) /\ Place(p)'
    BY <2>6, <2>10, <2>18
  <2> QED BY <1>1, <2>7, <2>16, <2>20, <2>21, <2>23, <2>25, <2>27, <2>28, <2>29, <2>30, <2>31, <2>32,
             Edits
<1> QED BY <1>4, <1>7, <1>8

-----------------------------------------------------------------------------
(* The invariant. *)

\* The file system with nothing but the root directory.
LEMMA Initially == Init => IInv
<1> SUFFICES ASSUME Init PROVE IInv
  OBVIOUS
<1> USE DEF Init
<1>1. /\ \A i \in Inums : /\ dino[i] \in DInode /\ dino[i].ents = NoEntries /\ dino[i].addrs = {}
                          /\ dino[i].type # "FILE" /\ dino[i].nlink = IsRoot(i)
                          /\ dino[i].type = "NONE" => dino[i] = FreeInode
      /\ dino[ROOTINO].type = "DIR" /\ dino \in [Inums -> DInode]
  <2>1. /\ FreeInode \in DInode /\ FreeInode.type = "NONE" /\ FreeInode.nlink = 0
        /\ FreeInode.ents = NoEntries /\ FreeInode.addrs = {}
    BY Empty DEF FreeInode
  <2> DEFINE r == [FreeInode EXCEPT !.type = "DIR", !.nlink = 1]
  <2>2. r \in DInode /\ r.type = "DIR" /\ r.nlink = 1 /\ r.ents = NoEntries /\ r.addrs = {}
    BY <2>1 DEF DInode, Types0, FreeInode
  <2>3. dino = [i \in Inums |-> IF i # ROOTINO THEN FreeInode ELSE r]
    OBVIOUS
  <2> HIDE DEF r, Init
  <2> QED BY <2>1, <2>2, <2>3, Numbers DEF IsRoot
<1>2. \A s \in Slots : it[s] = NoInode /\ it[s].ref = 0 /\ ~it[s].valid /\ lock[s] = Nobody
  BY Empty
<1>3. \A p \in Proc : /\ pc[p] = "user" /\ next[p] = "user" /\ call[p] = NoCall /\ todo[p] = <<>>
                      /\ fds[p] = {} /\ At(p) = "user"
  BY DEF At, Putting
<1>4. it \in [Slots -> Entry] /\ call \in [Proc -> Call1]
  BY Empty, NonePut
<1>5. Types
  BY <1>1, <1>4 DEF Types, Places, Later
<1>6. Placed
  BY <1>3, NonePut DEF Placed, Place, Putting, NoCall
<1>7. Locked
  BY <1>2, <1>3, InodeConstants DEF Locked, HasLock
<1>8. \A p \in Proc, s \in Slots : ~Uses(p, s)
  BY <1>3, NonePut, Numbers DEF Uses, Keeps
<1>9. Referenced
  <2> SUFFICES ASSUME NEW s \in Slots PROVE it[s].ref = Refs(s)
    BY DEF Referenced
  <2>1. /\ {p \in Proc : s \in fds[p]} = {} /\ {p \in Proc : s \in ToSet(todo[p])} = {}
        /\ {p \in Proc : call[p].ip = s} = {} /\ {p \in Proc : call[p].dp = s} = {}
    BY <1>8 DEF Uses, Keeps
  <2>2. Cardinality({}) = 0
    BY FS_EmptySet
  <2> HIDE DEF Init
  <2>3. Refs(s) = 0 + 0 + 0 + 0
    BY <2>1, <2>2 DEF Refs, Sum
  <2> QED BY <1>2, <2>3
<1>10. Table
  BY <1>2, <1>4 DEF Table, Sound
<1>11. Free
  BY <1>1, <1>8 DEF Free
<1>12. Holding
  BY <1>3, NonePut DEF Holding, Held
<1>13. Space
  BY <1>1 DEF Space
<1>14. \A i \in Inums, n \in Names : dino[i].ents[n] = 0
  BY <1>1 DEF NoEntries
<1>15. Tree
  <2>1. Ranked([i \in Inums |-> 0])
    BY <1>14 DEF Ranked
  <2>2. [i \in Inums |-> 0] \in [Inums -> Nat]
    OBVIOUS
  <2> QED BY <2>1, <2>2 DEF Tree
<1>16. Linked
  <2> SUFFICES ASSUME NEW i \in Inums PROVE dino[i].nlink >= Links(i)
    BY DEF Linked
  <2>1. Entries(i) = {}
    BY <1>14, Numbers DEF Entries
  <2>2. SubDirs(i) = {} /\ Promised(i) = {}
    BY <1>3, <1>14, NonePut DEF SubDirs, Promised
  <2>3. Links(i) = 0 + 0 + 0 + IsRoot(i)
    BY <2>1, <2>2, FS_EmptySet DEF Links
  <2> QED BY <1>1, <2>3 DEF IsRoot
<1> QED BY <1>5, <1>6, <1>7, <1>9, <1>10, <1>11, <1>12, <1>13, <1>15, <1>16 DEF IInv

\* A step that changes nothing.
LEMMA Stutters == ASSUME IInv, UNCHANGED vars PROVE IInv'
<1> USE DEF vars, disk
<1>1. Types' /\ Placed' /\ Locked'
  BY DEF IInv, Types, Placed, Place, At, Locked, HasLock
<1>2. Referenced' /\ Table' /\ Free'
  BY DEF IInv, Referenced, Refs, Sum, Table, Freed, Free, Uses, Keeps, Drops, Disk
<1>3. Holding'
  BY DEF IInv, Holding, Held, Freeing, Making, Removing, Uses, Keeps, Drops, Disk, At, Name
<1>4. Space' /\ Tree' /\ Linked'
  BY DEF IInv, Space, Tree, Ranked, Linked, Links, Entries, SubDirs, Promised
<1> QED BY <1>1, <1>2, <1>3, <1>4 DEF IInv

\* Every step keeps the invariant.
LEMMA Steps == ASSUME IInv, ~MayFill, Next PROVE IInv'
<1>1. PICK p \in Proc : User(p) \/ Kernel(p)
  BY DEF Next
<1>2. CASE User(p)
  BY <1>2, BeginStep, WriteStep, TruncateStep, CloseStep DEF User
<1>3. CASE Walk(p) \/ Open(p)
  BY <1>3, WalkStep, OpenStep
<1>4. CASE Iput(p) \/ IputInvalid(p) \/ IputDrop(p)
  BY <1>4, IputStep, IputInvalidStep, IputDropStep
<1>5. CASE (\E op \in {"create", "mkdir"} : Create(p, op)) \/ CreateFound(p) \/ CreateFresh(p)
  BY <1>5, CreateStep, CreateFoundStep, CreateFreshStep
<1>6. CASE Unlink(p) \/ UnlinkRemove(p)
  BY <1>6, UnlinkStep, UnlinkRemoveStep
<1>7. CASE Link(p) \/ LinkName(p) \/ LinkBad(p)
  BY <1>7, LinkStep, LinkNameStep, LinkBadStep
<1> QED BY <1>1, <1>2, <1>3, <1>4, <1>5, <1>6, <1>7 DEF Kernel

\* The invariant holds in every state.
THEOREM Inductive == ~MayFill => (Spec => []IInv)
<1> SUFFICES ASSUME ~MayFill PROVE Spec => []IInv
  OBVIOUS
<1>1. IInv /\ [Next]_vars => IInv'
  BY Stutters, Steps
<1> QED BY <1>1, Initially, PTL DEF Spec

-----------------------------------------------------------------------------
(* What follows. *)

\* The invariant says what TableAgrees does: no panic, one entry for each inode,
\* references counted, and valid copies right but for the one that iput has
\* freed.
LEMMA Agrees == ASSUME IInv PROVE TableAgrees
<1>1. ASSUME NEW i \in Inums PROVE Cardinality(Has(it, i)) <= 1
  <2>1. \A s, u \in Has(it, i) : s = u
    BY DEF Has, IInv, Table, Sound
  <2>2. CASE Has(it, i) = {}
    BY <2>2, FS_EmptySet
  <2>3. CASE Has(it, i) # {}
    <3>1. PICK s : Has(it, i) = {s}
      BY <2>1, <2>3
    <3> QED BY <3>1, FS_Singleton
  <2> QED BY <2>2, <2>3
<1>2. ASSUME NEW s \in Slots, it[s].valid, ~\E p \in Proc : lock[s] = p /\ pc[p] = "invalid"
      PROVE  LET d == dino[it[s].inum] IN
             it[s].type = d.type /\ it[s].nlink = d.nlink /\ it[s].addrs = d.addrs
  <2>1. s \notin Freed
    BY <1>2 DEF Freed, IInv, Locked, HasLock
  <2> QED BY <2>1, <1>2 DEF IInv, Table, Sound, Copy
<1> QED BY <1>1, <1>2 DEF TableAgrees, IInv, Types, Referenced, Refs, Sum

\* The inode table is right: TableAgrees.
THEOREM TableIsRight == ~MayFill => (Spec => []TableAgrees)
<1>1. IInv => TableAgrees
  BY Agrees
<1> QED BY <1>1, Inductive, PTL

\* Locks are taken from parent to child: of the processes that have the lock of
\* a directory, the one whose directory is lowest does not wait.
LEMMA Going == ASSUME IInv PROVE NoStandstill
<1> SUFFICES ASSUME NEW p0 \in Proc, pc[p0] # "user", \A p \in Proc : pc[p] # "user" => Waits(p)
             PROVE  FALSE
  BY DEF NoStandstill
<1>1. PICK r \in [Inums -> Nat] : Ranked(r)
  BY DEF IInv, Tree
<1> DEFINE H == {p \in Proc : pc[p] \in {"fresh", "remove"}}
           R == {r[it[call[p].dp].inum] : p \in H}
<1>2. \A p \in H : /\ call[p].dp \in Slots /\ call[p].ip \in Slots
                   /\ it[call[p].dp].inum \in Inums /\ it[call[p].ip].inum \in Inums
  <2> SUFFICES ASSUME NEW p \in H
               PROVE  /\ call[p].dp \in Slots /\ call[p].ip \in Slots
                      /\ it[call[p].dp].inum \in Inums /\ it[call[p].ip].inum \in Inums
    OBVIOUS
  <2>1. call[p].dp \in Slots /\ call[p].ip \in Slots
    BY AtRest DEF IInv, Place, Places
  <2>2. PICK d \in Slots, s \in Slots : d = call[p].dp /\ s = call[p].ip
    BY <2>1
  <2>3. Uses(p, d) /\ Uses(p, s)
    BY <2>2 DEF Uses, Keeps
  <2> QED BY <2>2, <2>3, RefsNow DEF IInv, Table, Sound
<1>3. \A p \in Proc : pc[p] # "user" => call[p].ip \in Slots /\ pc[p] \in Places
  <2> SUFFICES ASSUME NEW p \in Proc, pc[p] # "user" PROVE call[p].ip \in Slots /\ pc[p] \in Places
    OBVIOUS
  <2>1. Waits(p)
    OBVIOUS
  <2>2. pc[p] \in Places
    BY <2>1 DEF Waits, Places, Later
  <2> QED BY <2>1, <2>2, AtRest DEF IInv, Place, Waits
<1>4. ASSUME NEW p \in Proc, pc[p] # "user"
      PROVE  \E q \in H : lock[call[p].ip] = q /\ call[q].dp = call[p].ip
  <2>1. Waits(p) /\ call[p].ip \in Slots
    BY <1>3, <1>4
  <2>2. PICK q \in Proc : q = lock[call[p].ip]
    BY <2>1 DEF Waits, IInv, Types
  <2>3. HasLock(q, call[p].ip)
    BY <2>1, <2>2 DEF IInv, Locked
  <2>4. pc[q] # "invalid"
    <3>1. pc[q] # "user" => Waits(q)
      OBVIOUS
    <3> QED BY <3>1 DEF Waits
  <2> QED BY <2>2, <2>3, <2>4 DEF HasLock
<1>5. H # {}
  BY <1>4
<1>6. R \in SUBSET Nat /\ R # {}
  BY <1>2, <1>5
<1>7. Min(R) \in R /\ \A y \in R : Min(R) <= y
  BY <1>6, Least
<1>8. PICK p \in H : Min(R) = r[it[call[p].dp].inum]
  BY <1>7
<1>9. \A q \in H : r[it[call[p].dp].inum] <= r[it[call[q].dp].inum]
  BY <1>7, <1>8
<1> HIDE DEF R
<1>10. PICK q \in H : lock[call[p].ip] = q /\ call[q].dp = call[p].ip
  BY <1>4, <1>8
<1>11. PICK d \in Slots, s \in Slots : d = call[p].dp /\ s = call[p].ip
  BY <1>2, <1>8
<1>12. Disk(s).type = "DIR"
  BY <1>10, <1>11 DEF IInv, Holding, Held, Making, Removing
<1>13. pc[p] = "remove"
  <2>1. ASSUME pc[p] = "fresh" PROVE FALSE
    <3>1. Making(p) /\ q # p
      BY <2>1, <1>8, <1>10, <1>11 DEF IInv, Holding, Held, Making
    <3>2. Uses(q, s) /\ ~Drops(q, s)
      BY <1>10, <1>11 DEF Uses, Keeps, Drops
    <3> QED BY <3>1, <3>2, <1>10, <1>11 DEF Making
  <2> QED BY <2>1, <1>8
<1>14. Removing(p) /\ call[p].path # <<>>
  <2>1. Place(p) /\ At(p) = pc[p]
    BY <1>8, AtRest DEF IInv, Places
  <2> QED BY <2>1, <1>8, <1>13 DEF IInv, Holding, Held, Place
<1>15. PICK n \in Names : n = Name(p)
  BY <1>8, <1>14, NameIs DEF IInv
<1>16. dino[it[d].inum].ents[n] = it[s].inum /\ it[s].inum \in Inums /\ it[d].inum \in Inums
  BY <1>2, <1>8, <1>11, <1>14, <1>15 DEF Removing, Disk
<1>17. r[it[s].inum] < r[it[d].inum]
  BY <1>1, <1>12, <1>16, Numbers DEF Ranked, Disk
<1>18. r[it[d].inum] <= r[it[s].inum]
  BY <1>9, <1>10, <1>11
<1>19. r[it[s].inum] \in Nat /\ r[it[d].inum] \in Nat
  BY <1>16
<1> QED BY <1>17, <1>18, <1>19

\* Someone can always go on: NoStandstill.
THEOREM NobodyStandsStill == ~MayFill => (Spec => []NoStandstill)
<1>1. IInv => NoStandstill
  BY Going
<1> QED BY <1>1, Inductive, PTL

-----------------------------------------------------------------------------
(* Links are counted exactly, if no directory is removed that is in use. *)

\* A directory that a name leads to, and what is in use of them.
Reach(i) == i = ROOTINO \/ Entries(i) # {}
Reached(p) == LET s == call[p].ip d == call[p].dp IN
    /\ s # 0 /\ pc[p] # "fresh" /\ Disk(s).type = "DIR" => Reach(it[s].inum)
    /\ pc[p] = "fresh" => Reach(it[d].inum)
    /\ pc[p] = "remove" /\ Disk(s).type = "DIR" => \A q \in Proc \ {p} : call[q].ip # s
Attached ==
    /\ Entries(ROOTINO) = {}
    /\ \A i \in Inums : /\ dino[i].nlink = Links(i)
                        /\ ~Reach(i) => dino[i].ents = NoEntries
                        /\ dino[i].type = "DIR" => \A e, f \in Entries(i) : e = f
    /\ \A p \in Proc : Reached(p)

\* The inodes that a system call has.
LEMMA Kept ==
  ASSUME IInv, IInv', NEW p \in Proc, Others(p), Stays, NEW q \in Proc \ {p}
  PROVE  /\ call'[q] = call[q] /\ pc'[q] = pc[q]
         /\ \A s \in {call[q].ip, call[q].dp} : s # 0 =>
               /\ s \in Slots /\ it[s].inum \in Inums /\ it'[s].inum = it[s].inum
               /\ Disk(s).type # "NONE"
<1>1. call'[q] = call[q] /\ pc'[q] = pc[q] /\ fds'[q] = fds[q] /\ todo'[q] = todo[q]
  BY DEF Others
<1>2. ASSUME NEW s \in {call[q].ip, call[q].dp}, s # 0
      PROVE  /\ s \in Slots /\ it[s].inum \in Inums /\ it'[s].inum = it[s].inum
             /\ Disk(s).type # "NONE"
  <2>1. s \in Slots
    BY <1>2 DEF IInv, Types, Call1
  <2>2. Keeps(q, s) /\ Uses(q, s) /\ Uses(q, s)' /\ ~Drops(q, s)
    BY <1>1, <1>2 DEF Uses, Keeps, Drops
  <2>3. it[s].ref > 0 /\ it'[s].ref > 0
    BY <2>1, <2>2, RefsNow, RefsNext DEF IInv
  <2> QED BY <2>1, <2>2, <2>3 DEF Stays, IInv, Table, Sound, Free
<1> QED BY <1>1, <1>2

\* A step that changes no entry.
Tame(p) ==
    /\ Others(p) /\ Stays /\ Reached(p)'
    /\ \A j \in Inums :
          /\ dino'[j].ents = dino[j].ents
          /\ dino'[j].nlink = dino[j].nlink + (Bit(Promises(p, j)') - Bit(Promises(p, j)))
          /\ \/ dino'[j].type = dino[j].type
             \/ Entries(j) = {} /\ (dino'[j].type = "DIR" => dino[j].type = "NONE")
    /\ \A q \in Proc \ {p} : pc[q] = "remove" /\ Disk(call[q].ip).type = "DIR" =>
          call'[p].ip # call[q].ip

\* Such a step keeps the links exact.
LEMMA TameStep ==
  ASSUME IInv, IInv', Attached, NEW p \in Proc, Tame(p)
  PROVE  Attached'
<1>1. Others(p) /\ Stays
  BY DEF Tame
<1>2. \A j \in Inums : dino'[j].ents = dino[j].ents
  BY DEF Tame
<1>3. \A d \in Inums, n \in Names : Leads(d, n)' <=> Leads(d, n)
  <2> SUFFICES ASSUME NEW d \in Inums, NEW n \in Names PROVE Leads(d, n)' <=> Leads(d, n)
    OBVIOUS
  <2>1. CASE dino[d].ents[n] = 0
    BY <2>1, <1>2 DEF Leads
  <2>2. CASE dino[d].ents[n] # 0
    <3>1. dino[d].ents[n] \in Inums
      BY <2>2 DEF IInv, Types, DInode
    <3>2. <<d, n>> \in Entries(dino[d].ents[n])
      BY DEF Entries
    <3>3. dino'[dino[d].ents[n]].type = dino[dino[d].ents[n]].type
      BY <3>1, <3>2 DEF Tame
    <3> QED BY <3>3, <1>2 DEF Leads
  <2> QED BY <2>1, <2>2
<1>4. \A j : Entries(j)' = Entries(j) /\ (Reach(j)' <=> Reach(j))
  <2>1. \A j : Entries(j)' = Entries(j)
    BY <1>2 DEF Entries
  <2> QED BY <2>1 DEF Reach
<1>5. ASSUME NEW j \in Inums
      PROVE  /\ dino'[j].nlink = Links(j)'
             /\ ~Reach(j) => dino'[j].ents = NoEntries
             /\ dino'[j].type = "DIR" => \A e, f \in Entries(j) : e = f
  <2>1. Links(j)' = Links(j) + (Bit(Promises(p, j)') - Bit(Promises(p, j)))
    BY <1>1, <1>2, <1>3, SameTree DEF IInv
  <2>2. dino[j].nlink = Links(j)
    BY DEF Attached
  <2>3. dino'[j].nlink = dino[j].nlink + (Bit(Promises(p, j)') - Bit(Promises(p, j)))
    BY DEF Tame
  <2> QED BY <2>1, <2>2, <2>3, <1>2 DEF Attached, Tame
<1>6. ASSUME NEW q \in Proc \ {p} PROVE Reached(q)'
  <2>1. /\ call'[q] = call[q] /\ pc'[q] = pc[q]
        /\ \A s \in {call[q].ip, call[q].dp} : s # 0 =>
              /\ s \in Slots /\ it[s].inum \in Inums /\ it'[s].inum = it[s].inum
              /\ Disk(s).type # "NONE"
    BY <1>1, Kept
  <2> DEFINE s == call[q].ip
             d == call[q].dp
  <2>2. s # 0 /\ Disk(s)'.type = "DIR" => Disk(s).type = "DIR"
    BY <2>1 DEF Tame, Disk
  <2>3. Reached(q)
    BY DEF Attached
  <2>4. pc[q] \in {"fresh", "remove"} => s # 0 /\ d # 0
    BY AtRest, Numbers DEF IInv, Place, Places
  <2>5. pc[q] = "remove" /\ Disk(s).type = "DIR" => \A r \in Proc \ {q} : call'[r].ip # s
    <3> SUFFICES ASSUME pc[q] = "remove", Disk(s).type = "DIR", NEW r \in Proc \ {q}
                 PROVE  call'[r].ip # s
      OBVIOUS
    <3>1. CASE r = p
      BY <3>1 DEF Tame
    <3>2. CASE r # p
      BY <3>2, <1>1, <2>3 DEF Others, Reached
    <3> QED BY <3>1, <3>2
  <2> QED BY <1>4, <2>1, <2>2, <2>3, <2>4, <2>5 DEF Reached
<1>7. Reached(p)'
  BY DEF Tame
<1>8. \A q \in Proc : Reached(q)'
  BY <1>6, <1>7
<1>9. Entries(ROOTINO)' = {}
  BY <1>4 DEF Attached
<1> QED BY <1>4, <1>5, <1>8, <1>9 DEF Attached

-----------------------------------------------------------------------------
(* Steps that leave what is attached alone. *)

Idle(p) ==
    /\ Others(p) /\ Stays
    /\ \A j \in Inums : /\ dino'[j].ents = dino[j].ents /\ dino'[j].type = dino[j].type
                        /\ dino'[j].nlink = dino[j].nlink
    /\ pc'[p] \notin {"fresh", "remove"}
    /\ call'[p].ip = 0 \/ (call'[p].ip = call[p].ip /\ pc[p] # "fresh")
    /\ call'[p].op = "link2" <=> call[p].op = "link2"
    /\ call[p].op = "link2" => call'[p].dp = call[p].dp

\* What p has taken stays the same inode.
LEMMA OwnStays ==
  ASSUME IInv, IInv', Stays, NEW p \in Proc, NEW s \in {call[p].ip, call[p].dp}, s # 0,
         s \in {call'[p].ip, call'[p].dp}
  PROVE  /\ s \in Slots /\ it[s].inum \in Inums /\ it'[s].inum = it[s].inum
<1>1. s \in Slots
  BY DEF IInv, Types, Call1
<1>2. Uses(p, s) /\ Uses(p, s)'
  BY DEF Uses, Keeps
<1>3. it[s].ref > 0 /\ it'[s].ref > 0
  BY <1>1, <1>2, RefsNow, RefsNext DEF IInv
<1> QED BY <1>1, <1>3 DEF Stays, IInv, Table, Sound

\* A promise is kept while p has the same inode.
LEMMA SamePromise ==
  ASSUME IInv, IInv', Stays, NEW p \in Proc, call'[p].op = "link2" <=> call[p].op = "link2",
         call[p].op = "link2" => call'[p].dp = call[p].dp
  PROVE  \A j \in Inums : Bit(Promises(p, j)') - Bit(Promises(p, j)) = 0
<1> SUFFICES ASSUME NEW j \in Inums PROVE Promises(p, j)' <=> Promises(p, j)
  BY DEF Bit
<1>1. CASE call[p].op = "link2"
  <2>1. call[p].dp # 0
    BY <1>1, Numbers DEF IInv, Placed, Place
  <2>2. it'[call[p].dp].inum = it[call[p].dp].inum
    BY <1>1, <2>1, OwnStays
  <2> QED BY <1>1, <2>2 DEF Promises
<1>2. CASE call[p].op # "link2"
  BY <1>2 DEF Promises
<1> QED BY <1>1, <1>2

\* A step that changes no links, and after which p has no more than before, keeps
\* them exact.
LEMMA IdleStep ==
  ASSUME IInv, IInv', Attached, NEW p \in Proc, Idle(p)
  PROVE  Attached'
<1>1. Others(p) /\ Stays
  BY DEF Idle
<1>2. \A j \in Inums : Bit(Promises(p, j)') - Bit(Promises(p, j)) = 0
  BY <1>1, SamePromise DEF Idle
<1>3. \A j \in Inums : dino[j].nlink \in Nat /\ dino'[j].nlink = dino[j].nlink
  BY DEF Idle, IInv, Types, DInode
<1>4. \A j : Entries(j)' = Entries(j) /\ (Reach(j)' <=> Reach(j))
  <2>1. \A j : Entries(j)' = Entries(j)
    BY DEF Entries, Idle
  <2> QED BY <2>1 DEF Reach
<1>5. Reached(p)'
  <2>1. CASE call'[p].ip = 0
    BY <2>1 DEF Reached, Idle
  <2>2. CASE call'[p].ip # 0 /\ call'[p].ip = call[p].ip /\ pc[p] # "fresh"
    <3>1. /\ it[call[p].ip].inum \in Inums
          /\ it'[call[p].ip].inum = it[call[p].ip].inum
      BY <1>1, <2>2, OwnStays
    <3>2. Disk(call[p].ip)'.type = Disk(call[p].ip).type
      BY <2>2, <3>1 DEF Disk, Idle
    <3> QED BY <1>4, <2>2, <3>1, <3>2 DEF Attached, Reached, Idle
  <2> QED BY <2>1, <2>2 DEF Idle
<1>6. ASSUME NEW q \in Proc \ {p}, pc[q] = "remove", Disk(call[q].ip).type = "DIR"
      PROVE  call'[p].ip # call[q].ip
  <2>1. call[q].ip # 0
    BY <1>6, AtRest, Numbers DEF IInv, Place, Places
  <2>2. call[p].ip # call[q].ip
    BY <1>6, <2>1 DEF Attached, Reached
  <2> QED BY <2>1, <2>2 DEF Idle
<1>7. \A j \in Inums : dino'[j].nlink = dino[j].nlink + (Bit(Promises(p, j)') - Bit(Promises(p, j)))
  BY <1>2, <1>3
<1>8. Tame(p)
  BY <1>1, <1>5, <1>6, <1>7 DEF Tame, Idle
<1> QED BY <1>8, TameStep

\* ilock keeps the inodes.
LEMMA IlockStays ==
  ASSUME IInv, NEW s
  PROVE  \A u \in Slots : Ilock(it, s)[u].inum = it[u].inum
BY DEF Ilock, Read, IInv, Types, Entry

\* ilock leaves the entries to their inodes.
LEMMA IlockStill ==
  ASSUME IInv, NEW s, it' = Ilock(it, s) \/ it' = it
  PROVE  Stays
BY IlockStays DEF Stays

\* A step that leaves the disk alone.
LEMMA SameDisk ==
  ASSUME UNCHANGED dino
  PROVE  \A j \in Inums : /\ dino'[j].ents = dino[j].ents /\ dino'[j].type = dino[j].type
                          /\ dino'[j].nlink = dino[j].nlink
OBVIOUS

\* The process has the rest of what it had.
LEMMA EndsIdle ==
  ASSUME IInv, NEW p \in Proc, NEW ss, Ends(p, ss), fds' \in [Proc -> SUBSET Slots],
         \A q \in Proc \ {p} : fds'[q] = fds[q],
         call[p].op # "link2", Stays, UNCHANGED dino
  PROVE  Idle(p)
<1>1. Others(p)
  BY DEF Others, Ends, Puts, IInv, Types
<1>2. pc'[p] = "put" /\ call'[p] = NoCall
  BY DEF Ends, Puts, IInv, Types
<1> QED BY <1>1, <1>2, NonePut, SameDisk DEF Idle

\* sys_link goes to bad.
LEMMA FailsIdle ==
  ASSUME IInv, NEW p \in Proc, LinkFails(p), fds' = fds,
         call[p].op = "link2", Stays, UNCHANGED dino
  PROVE  Idle(p)
<1>1. Others(p)
  BY DEF Others, LinkFails, Puts, IInv, Types
<1>2. pc'[p] = "put" /\ call'[p] = [call[p] EXCEPT !.ip = 0]
  BY DEF LinkFails, Puts, IInv, Types
<1>3. call'[p].ip = 0 /\ call'[p].op = call[p].op /\ call'[p].dp = call[p].dp
  BY <1>2 DEF IInv, Types, Call1
<1> QED BY <1>1, <1>2, <1>3, SameDisk DEF Idle

\* p goes on with what it has.
LEMMA GoesIdle ==
  ASSUME IInv, NEW p \in Proc, NEW a, a \notin {"fresh", "remove"}, Goes(p, a), call' = call, fds' = fds,
         pc[p] # "fresh", Stays, UNCHANGED dino
  PROVE  Idle(p)
<1>1. Others(p) /\ pc'[p] = a
  BY DEF Others, Goes, IInv, Types
<1> QED BY <1>1, SameDisk DEF Idle

\* The end of sys_open.
LEMMA OpenEndIdle ==
  ASSUME IInv, NEW p \in Proc, NEW s \in Slots, OpenEnd(p, s, Ilock(it, s)), UNCHANGED dino,
         call[p].op # "link2"
  PROVE  Idle(p)
<1>1. Stays
  BY IlockStill DEF OpenEnd
<1>2. CASE Ends(p, <<s>>) /\ UNCHANGED fds
  BY <1>1, <1>2, EndsIdle DEF IInv, Types
<1>3. CASE Opened(p, s) /\ Goes(p, "user")
  <2>1. Others(p) /\ pc'[p] = "user" /\ call'[p] = NoCall
    BY <1>3 DEF Others, Opened, Goes, IInv, Types
  <2> QED BY <1>1, <2>1, NonePut, SameDisk DEF Idle
<1> QED BY <1>2, <1>3 DEF OpenEnd

\* sys_open
LEMMA OpenIdle == ASSUME IInv, NEW p \in Proc, Open(p) PROVE Idle(p)
<1>1. call[p].ip \in Slots /\ call[p].op = "open"
  BY AtRest, Numbers DEF Open, Locks, IInv, Place, Places, Later
<1> QED BY <1>1, OpenEndIdle DEF Open, disk

\* create that finds the inode there.
LEMMA CreateFoundIdle == ASSUME IInv, NEW p \in Proc, CreateFound(p) PROVE Idle(p)
<1>1. call[p].ip \in Slots /\ call[p].op \in {"create", "mkdir"}
  BY AtRest, Numbers DEF CreateFound, Locks, IInv, Place, Places, Later
<1>2. CASE OpenEnd(p, call[p].ip, Ilock(it, call[p].ip))
  BY <1>1, <1>2, OpenEndIdle DEF CreateFound, disk
<1>3. CASE it' = Ilock(it, call[p].ip) /\ Ends(p, <<call[p].ip>>) /\ UNCHANGED fds
  <2>1. Stays
    BY <1>3, IlockStill
  <2> QED BY <1>1, <1>3, <2>1, EndsIdle DEF CreateFound, disk, IInv, Types
<1> QED BY <1>2, <1>3 DEF CreateFound

\* create and sys_unlink that give up.
LEMMA GivesUpIdle == ASSUME IInv, NEW p \in Proc, NEW s, NEW d, GiveUp(p, s, d) PROVE Idle(p)
<1>1. Stays
  BY DEF GiveUp, Same, Stays
<1>2. call[p].op # "link2"
  BY AtRest DEF GiveUp, IInv, Place, Places
<1> QED BY <1>1, <1>2, EndsIdle DEF GiveUp, disk, IInv, Types

\* close
LEMMA CloseIdle == ASSUME IInv, NEW p \in Proc, NEW s \in Slots, Close(p, s) PROVE Idle(p)
<1>1. Others(p) /\ pc'[p] = "put"
  BY DEF Others, Close, Puts, IInv, Types
<1>2. Stays
  BY DEF Close, Stays
<1> QED BY <1>1, <1>2, SameDisk DEF Idle, Close, disk

\* The entry keeps its inode while it has references.
LEMMA DroppedIdle ==
  ASSUME IInv, NEW p \in Proc, pc[p] \in {"put", "drop"}, Dropped(p, Head(todo[p])),
         UNCHANGED <<dino, call, fds>>
  PROVE  Idle(p)
<1> DEFINE s == Head(todo[p])
<1>1. s \in Slots /\ next[p] \in Later /\ pc[p] # "fresh"
  BY AtPut DEF Putting
<1>2. Others(p)
  BY DEF Others, Dropped, IInv, Types
<1>3. pc'[p] \in Later \cup {"put"}
  BY <1>1 DEF Dropped, IInv, Types
<1>4. Stays
  <2> SUFFICES ASSUME NEW u \in Slots, it'[u].ref > 0 PROVE it'[u].inum = it[u].inum
    BY DEF Stays
  <2>1. it[u] \in Entry
    BY DEF IInv, Types
  <2>2. it'[u] = it[u] \/ it'[u] = NoInode \/ it'[u] = [it[u] EXCEPT !.ref = it[u].ref - 1]
    BY DEF Dropped, IInv, Types
  <2> QED BY <2>1, <2>2, Empty DEF Entry
<1> QED BY <1>1, <1>2, <1>3, <1>4, SameDisk DEF Idle, Later

\* iput that makes the entry invalid.
LEMMA InvalidIdle == ASSUME IInv, NEW p \in Proc, IputInvalid(p) PROVE Idle(p)
<1> DEFINE s == Head(todo[p])
<1>2. \A u \in Slots : it'[u].inum = it[u].inum
  <2>1. it' = [it EXCEPT ![s] = [NoInode EXCEPT !.inum = it[s].inum, !.ref = it[s].ref]]
    BY DEF IputInvalid
  <2>2. [NoInode EXCEPT !.inum = it[s].inum, !.ref = it[s].ref].inum = it[s].inum
    BY DEF NoInode
  <2> QED BY <2>1, <2>2 DEF IInv, Types
<1>3. Stays
  BY <1>2 DEF Stays
<1> QED BY <1>3, GoesIdle DEF IputInvalid, disk

\* Nobody removes a directory by an entry that p has locked or finds unlocked.
LEMMA NotRemoved ==
  ASSUME IInv, Attached, NEW s \in Slots, it[s].ref > 0, NEW n \in Names, NEW i \in Inums,
         i = Disk(s).ents[n], dino[i].type = "DIR",
         NEW q \in Proc, lock[s] # q, pc[q] = "remove", it[call[q].ip].inum = i
  PROVE  FALSE
<1>1. call[q].ip \in Slots /\ call[q].dp \in Slots /\ call[q].path # <<>>
  BY AtRest, Numbers DEF IInv, Place, Places
<1>2. PICK u \in Slots : u = call[q].dp
  BY <1>1
<1>3. PICK m \in Names : m = Name(q)
  BY <1>1, NameIs DEF IInv
<1>4. it[u].ref > 0 /\ it[u].inum \in Inums /\ it[s].inum \in Inums
  BY <1>2, RefsNow DEF Uses, Keeps, IInv, Table, Sound
<1>5. dino[it[u].inum].ents[m] = i
  BY <1>2, <1>3 DEF IInv, Holding, Held, Removing, Disk
<1>6. <<it[u].inum, m>> \in Entries(i) /\ <<it[s].inum, n>> \in Entries(i)
  BY <1>4, <1>5 DEF Entries, Disk
<1>7. <<it[u].inum, m>> = <<it[s].inum, n>>
  BY <1>6 DEF Attached
<1>8. u = s
  BY <1>4, <1>7 DEF IInv, Table, Sound
<1>9. lock[u] = q
  BY <1>2 DEF IInv, Locked, HasLock
<1> QED BY <1>8, <1>9

\* p gets one inode more, i, that a name leads to.
Takes(p, t, i) == LET k == Slot(t, i) IN
    /\ Others(p) /\ UNCHANGED dino
    /\ Same(it, t) /\ Sound(t, dino, Freed) /\ i \in Inums /\ ~Full(t, i) /\ it' = Iget(t, i)
    /\ call'[p].ip = k /\ pc'[p] # "fresh" /\ Reach(i)
    /\ call'[p].op = "link2" <=> call[p].op = "link2"
    /\ call[p].op = "link2" => call'[p].dp = call[p].dp
    /\ dino[i].type = "DIR" => \A q \in Proc \ {p} :
          /\ pc[q] = "remove" => it[call[q].ip].inum # i
          /\ pc'[p] = "remove" => call[q].ip \notin Has(t, i)

\* A lookup keeps the links exact.
LEMMA TakesStep ==
  ASSUME IInv, IInv', Attached, NEW p \in Proc, NEW t, NEW i, Takes(p, t, i)
  PROVE  Attached'
<1>1. Same(it, t) /\ Sound(t, dino, Freed) /\ i \in Inums /\ ~Full(t, i) /\ it' = Iget(t, i)
  BY DEF Takes
<1>2. LET k0 == Slot(t, i) u == Iget(t, i) IN
      /\ k0 \in Slots /\ u \in [Slots -> Entry] /\ u[k0].inum = i
      /\ \A s \in Slots \ {k0} : u[s] = t[s]
      /\ \A s \in Slots : u[s].ref = t[s].ref + (IF s = k0 THEN 1 ELSE 0)
      /\ t[k0].ref > 0 => t[k0].inum = i /\ u[k0] = [t[k0] EXCEPT !.ref = t[k0].ref + 1]
      /\ t[k0].ref = 0 => /\ u[k0] = [NoInode EXCEPT !.inum = i, !.ref = 1]
                          /\ \A s \in Slots : t[s].ref > 0 => t[s].inum # i
      /\ Sound(u, dino, Freed)
  BY <1>1, IgetIs
<1>3. PICK k \in Slots : k = Slot(t, i)
  BY <1>2
<1>4. /\ it'[k].inum = i
      /\ t[k].ref > 0 => t[k].inum = i
      /\ \A s \in Slots \ {k} : it'[s] = t[s]
  BY <1>1, <1>2, <1>3
<1>5. \A s \in Slots : t[s].inum = it[s].inum /\ t[s].ref = it[s].ref
  BY <1>1 DEF Same
<1>6. Others(p) /\ Stays
  BY <1>4, <1>5 DEF Stays, Takes
<1>7. \A j \in Inums : Bit(Promises(p, j)') - Bit(Promises(p, j)) = 0
  BY <1>6, SamePromise DEF Takes
<1>8. \A j \in Inums : /\ dino[j].nlink \in Nat /\ dino'[j] = dino[j]
                       /\ dino'[j].nlink = dino[j].nlink
                            + (Bit(Promises(p, j)') - Bit(Promises(p, j)))
  BY <1>7 DEF IInv, Types, DInode, Takes
<1>9. Reach(i)' <=> Reach(i)
  BY DEF Reach, Entries, Takes
<1>10. \A q \in Proc : call[q].ip = k => it[k].ref > 0 /\ it[k].inum = i /\ t[k].ref > 0
  <2> SUFFICES ASSUME NEW q \in Proc, call[q].ip = k PROVE it[k].ref > 0
    BY <1>4, <1>5
  <2> QED BY RefsNow DEF Uses, Keeps, IInv
<1>11. call'[p].ip = k /\ Disk(call[p].ip)' = dino[i]
  BY <1>3, <1>4, <1>8 DEF Takes, Disk
<1>12. Reached(p)'
  <2>1. ASSUME pc'[p] = "remove", dino[i].type = "DIR", NEW q \in Proc \ {p}, call'[q].ip = k
        PROVE  FALSE
    <3>1. call[q].ip = k
      BY <1>6, <2>1 DEF Others
    <3>2. k \notin Has(t, i)
      BY <2>1, <3>1 DEF Takes
    <3> QED BY <1>4, <1>10, <3>1, <3>2 DEF Has
  <2>2. /\ call'[p].ip = k /\ Reach(it[call[p].ip].inum)' /\ pc'[p] # "fresh"
        /\ Disk(call[p].ip)'.type = dino[i].type
    BY <1>4, <1>9, <1>11 DEF Takes
  <2> QED BY <1>11, <2>1, <2>2 DEF Reached, Disk
<1>13. ASSUME NEW q \in Proc \ {p}, pc[q] = "remove", Disk(call[q].ip).type = "DIR"
       PROVE  call'[p].ip # call[q].ip
  <2> SUFFICES ASSUME call[q].ip = k PROVE FALSE
    BY <1>11
  <2>1. it[call[q].ip].inum = i
    BY <1>10
  <2> QED BY <1>13, <2>1 DEF Takes, Disk
<1>14. Tame(p)
  BY <1>6, <1>8, <1>12, <1>13 DEF Tame
<1> QED BY <1>14, TameStep

\* Blocks of a file change.
LEMMA BlocksIdle ==
  ASSUME IInv, NEW p \in Proc, NEW s \in Slots, pc[p] = "user", s \in fds[p],
         lock[s] = Nobody, NEW B \in SUBSET Blocks, Rewrites(s, B)
  PROVE  Idle(p)
<1>1. Uses(p, s)
  BY DEF Uses, Keeps
<1>2. s \notin Freed /\ it[s].inum \in Inums /\ Disk(s) \in DInode
  BY <1>1, Looked, CalmIs DEF Calm, Places, Later
<1>3. it[s].valid /\ Copy(it[s], Disk(s)) /\ it[s] \in Entry
  BY <1>2 DEF IInv, Holding, Held, Table, Sound, Disk, Types
<1>4. /\ it'[s].inum = it[s].inum /\ it'[s].type = it[s].type /\ it'[s].nlink = it[s].nlink
      /\ \A u \in Slots \ {s} : it'[u] = it[u]
  BY <1>3 DEF Rewrites, Entry, IInv, Types
<1>5. dino' = [dino EXCEPT ![it[s].inum] = Stored(Disk(s), it'[s])]
  BY <1>4 DEF Rewrites, Iupdate, Disk
<1>6. /\ Stored(Disk(s), it'[s]).ents = Disk(s).ents
      /\ Stored(Disk(s), it'[s]).type = Disk(s).type /\ Stored(Disk(s), it'[s]).nlink = Disk(s).nlink
  BY <1>2, <1>3, <1>4 DEF Stored, DInode, Copy
<1>7. \A j \in Inums : /\ dino'[j].ents = dino[j].ents /\ dino'[j].type = dino[j].type
                       /\ dino'[j].nlink = dino[j].nlink
  BY <1>2, <1>5, <1>6 DEF IInv, Types, Disk
<1>8. Others(p) /\ Stays /\ pc'[p] = "user" /\ call'[p] = call[p]
  BY <1>4 DEF Rewrites, Others, Stays
<1> QED BY <1>7, <1>8 DEF Idle

\* write, and open with O_TRUNC
LEMMA WriteIdle ==
  ASSUME IInv, NEW p \in Proc, NEW s \in Slots, Write(p, s) \/ Truncate(p, s)
  PROVE  Idle(p)
<1>1. it[s].addrs \subseteq Blocks
  BY DEF IInv, Types, Entry
<1>2. CASE Truncate(p, s)
  <2>1. /\ pc[p] = "user" /\ s \in fds[p] /\ lock[s] = Nobody /\ Rewrites(s, {})
    BY <1>2 DEF Truncate, Locks, Rewrites
  <2> QED BY <2>1, BlocksIdle
<1>3. CASE Write(p, s)
  <2> DEFINE unused == Blocks \ bitmap
             new == IF it[s].addrs # {} \/ unused = {} THEN {} ELSE {Min(unused)}
  <2>1. /\ pc[p] = "user" /\ s \in fds[p] /\ lock[s] = Nobody
        /\ it' = [it EXCEPT ![s].addrs = it[s].addrs \cup new]
        /\ dino' = Iupdate(dino, it', s) /\ UNCHANGED <<lock, pc, call, todo, next, fds>>
    BY <1>3 DEF Write, Locks
  <2>2. unused # {} => Min(unused) \in unused
    BY InodeConstants, Least
  <2>3. it[s].addrs \cup new \in SUBSET Blocks
    BY <1>1, <2>2
  <2> HIDE DEF new
  <2> QED BY <2>1, <2>3, BlocksIdle DEF Rewrites
<1> QED BY <1>2, <1>3

\* Nobody removes the root directory.
LEMMA RootStays ==
  ASSUME IInv, Attached, NEW q \in Proc, pc[q] = "remove"
  PROVE  it[call[q].ip].inum # ROOTINO
<1>1. call[q].dp \in Slots /\ call[q].path # <<>>
  BY AtRest, Numbers DEF IInv, Place, Places
<1>2. it[call[q].dp].ref > 0
  BY <1>1, RefsNow DEF Uses, Keeps, IInv
<1>3. it[call[q].dp].inum \in Inums /\ Name(q) \in Names
  BY <1>1, <1>2, NameIs DEF IInv, Table, Sound
<1>4. <<it[call[q].dp].inum, Name(q)>> \in Entries(it[call[q].ip].inum)
  BY <1>3 DEF IInv, Holding, Held, Removing, Disk, Entries
<1> QED BY <1>4 DEF Attached

\* A system call begins at the root directory.
LEMMA BeginTakes ==
  ASSUME IInv, IInv', Attached, NEW p \in Proc, NEW cc \in Calls, Begin(p, cc)
  PROVE  Takes(p, it, ROOTINO)
<1>1. /\ pc[p] = "user" /\ panicked' = FALSE /\ it' = Iget(it, ROOTINO)
      /\ call' = [call EXCEPT ![p] = [op |-> cc.op, ip |-> Slot(it, ROOTINO), dp |-> 0,
                                      path |-> cc.path, new |-> cc.new]]
      /\ pc' = [pc EXCEPT ![p] = "walk"] /\ UNCHANGED <<disk, lock, todo, next, fds>>
  BY DEF Begin, Goes, IInv, Types
<1>2. ~Full(it, ROOTINO)
  BY <1>1 DEF Begin
<1>3. call[p].op = "none"
  BY <1>1, AtRest, NonePut DEF IInv, Places, Later, Place
<1>4. cc.op # "link2"
  BY InodeConstants
<1>5. /\ Others(p) /\ call'[p].op = cc.op /\ call'[p].ip = Slot(it, ROOTINO) /\ pc'[p] = "walk"
  BY <1>1 DEF Others, IInv, Types
<1>6. \A q \in Proc : pc[q] = "remove" => it[call[q].ip].inum # ROOTINO
  BY RootStays
<1>7. Reach(ROOTINO)
  BY DEF Reach
<1> QED BY <1>1, <1>2, <1>3, <1>4, <1>5, <1>6, <1>7, SameIt, Numbers DEF Takes, disk

\* An entry that p finds in a directory without lock.
LEMMA Found ==
  ASSUME IInv, Attached, NEW p \in Proc, NEW s \in Slots, s = call[p].ip, lock[s] = Nobody,
         NEW n \in Names, Disk(s).ents[n] # 0
  PROVE  LET i == Disk(s).ents[n] IN
         /\ i \in Inums /\ Reach(i)
         /\ dino[i].type = "DIR" => \A q \in Proc : pc[q] = "remove" => it[call[q].ip].inum # i
<1>1. it[s].ref > 0
  BY RefsNow DEF Uses, Keeps, IInv
<1>2. it[s].inum \in Inums
  BY <1>1 DEF IInv, Table, Sound
<1>3. PICK i \in Inums : i = Disk(s).ents[n]
  BY <1>2 DEF Disk, IInv, Types, DInode
<1>4. <<it[s].inum, n>> \in Entries(i)
  BY <1>2, <1>3 DEF Entries, Disk
<1>5. \A q \in Proc : lock[s] # q
  BY InodeConstants
<1>6. ASSUME dino[i].type = "DIR", NEW q \in Proc, pc[q] = "remove"
      PROVE  it[call[q].ip].inum # i
  BY <1>1, <1>3, <1>5, <1>6, NotRemoved
<1> QED BY <1>3, <1>4, <1>6 DEF Reach

\* namex
LEMMA WalkAttached ==
  ASSUME IInv, IInv', Attached, NEW p \in Proc, Walk(p)
  PROVE  Attached'
<1>1. pc[p] = "walk" /\ pc[p] \in Calm \cap Places
  BY DEF Walk, Locks, Calm, Places, Later
<1>2. /\ Place(p) /\ call[p].ip \in Slots /\ call[p].op \in Ops /\ call[p] \in Call1
      /\ call[p].path \in Seq(Names) \ {<<>>}
  BY <1>1, AtRest DEF IInv, Place
<1>3. PICK s \in Slots : s = call[p].ip
  BY <1>2
<1> DEFINE t == Ilock(it, s)
           parent == Parent(call[p].op) /\ Len(call[p].path) = 1
           fails(i) == t[s].type # "DIR" \/ (~parent /\ i = 0)
<1>4. PICK n \in Names : n = Head(call[p].path)
  BY <1>2
<1>5. PICK i : i = dino[t[s].inum].ents[n]
  OBVIOUS
<1>6. /\ lock[s] = Nobody /\ UNCHANGED <<disk, lock, fds>>
      /\ \/ /\ it' = t
            /\ IF call[p].op = "link2" THEN LinkFails(p) ELSE Ends(p, <<s>>)
         \/ it' = t /\ Goes(p, call[p].op) /\ call' = call
         \/ /\ ~fails(i) /\ ~parent /\ panicked' = Full(t, i) /\ it' = Iget(t, i)
            /\ call' = [call EXCEPT ![p].ip = Slot(t, i), ![p].path = Tail(call[p].path)]
            /\ Puts(p, <<s>>, IF Len(call[p].path) = 1 THEN call[p].op ELSE "walk")
  BY <1>3, <1>4, <1>5 DEF Walk, Locks
<1>7. /\ Same(it, t) /\ Sound(t, dino, Freed) /\ t[s].inum = it[s].inum
  BY <1>1, <1>3, <1>6, Looked, CalmIs DEF Uses, Keeps
<1>8. CASE it' = t /\ (IF call[p].op = "link2" THEN LinkFails(p) ELSE Ends(p, <<s>>))
  <2>1. Stays
    BY <1>8, IlockStill
  <2>2. CASE call[p].op = "link2"
    BY <1>6, <1>8, <2>1, <2>2, FailsIdle, IdleStep DEF disk
  <2>3. CASE call[p].op # "link2"
    BY <1>6, <1>8, <2>1, <2>3, EndsIdle, IdleStep DEF disk, IInv, Types
  <2> QED BY <2>2, <2>3
<1>9. CASE it' = t /\ Goes(p, call[p].op) /\ call' = call
  <2>1. Stays
    BY <1>9, IlockStill
  <2>2. call[p].op \notin {"fresh", "remove"} /\ pc[p] # "fresh"
    BY <1>1, <1>2 DEF Ops
  <2> QED BY <1>6, <1>9, <2>1, <2>2, GoesIdle, IdleStep DEF disk
<1>10. CASE /\ ~fails(i) /\ ~parent /\ panicked' = Full(t, i) /\ it' = Iget(t, i)
            /\ call' = [call EXCEPT ![p].ip = Slot(t, i), ![p].path = Tail(call[p].path)]
            /\ Puts(p, <<s>>, IF Len(call[p].path) = 1 THEN call[p].op ELSE "walk")
  <2>1. ~Full(t, i) /\ i = Disk(s).ents[n] /\ i # 0
    BY <1>5, <1>7, <1>10 DEF IInv, Types, Disk
  <2> HIDE DEF t, parent, fails
  <2>2. /\ i \in Inums /\ Reach(i)
        /\ dino[i].type = "DIR" => \A q \in Proc : pc[q] = "remove" => it[call[q].ip].inum # i
    BY <1>3, <1>6, <2>1, Found
  <2>3. /\ pc'[p] = "put" /\ Others(p)
    BY <1>6, <1>10 DEF Others, Puts, IInv, Types
  <2>4. call'[p] = [call[p] EXCEPT !.ip = Slot(t, i), !.path = Tail(call[p].path)]
    BY <1>10 DEF IInv, Types
  <2>5. call'[p].ip = Slot(t, i) /\ call'[p].op = call[p].op /\ call'[p].dp = call[p].dp
    BY <1>2, <2>4 DEF Call1
  <2>6. Takes(p, t, i)
    BY <1>6, <1>7, <1>10, <2>1, <2>2, <2>3, <2>5 DEF Takes, disk
  <2> QED BY <2>6, TakesStep
<1> QED BY <1>6, <1>8, <1>9, <1>10

\* sys_unlink, which finds no user of a directory.
LEMMA UnlinkAttached ==
  ASSUME IInv, IInv', ~RmdirBusy, Attached, NEW p \in Proc, Unlink(p)
  PROVE  Attached'
<1>1. pc[p] = "unlink" /\ pc[p] \in Calm \cap Places
  BY DEF Unlink, Locks, Calm, Places, Later
<1>2. /\ Place(p) /\ call[p].ip \in Slots /\ call[p].op = "unlink" /\ call[p] \in Call1
      /\ call[p].path # <<>>
  BY <1>1, AtRest DEF IInv, Place
<1>3. PICK d \in Slots : d = call[p].ip
  BY <1>2
<1>4. PICK n \in Names : n = Name(p)
  BY <1>2, NameIs DEF IInv
<1> DEFINE t == Ilock(it, d)
<1>5. PICK i : i = dino[t[d].inum].ents[n]
  OBVIOUS
<1>6. /\ lock[d] = Nobody /\ UNCHANGED <<disk, fds>>
      /\ i # 0 /\ (\E q \in Proc \ {p} : call[q].ip \in Has(t, i)) => dino[i].type # "DIR"
      /\ \/ it' = t /\ Ends(p, <<d>>)
         \/ /\ i # 0 /\ panicked' = Full(t, i) /\ it' = Iget(t, i)
            /\ call' = [call EXCEPT ![p].ip = Slot(t, i), ![p].dp = d]
            /\ Goes(p, "remove")
  BY <1>3, <1>4, <1>5 DEF Unlink, Locks
<1>7. /\ Same(it, t) /\ Sound(t, dino, Freed) /\ t[d].inum = it[d].inum
  BY <1>1, <1>3, <1>6, Looked, CalmIs DEF Uses, Keeps
<1>8. CASE it' = t /\ Ends(p, <<d>>)
  <2>1. Stays
    BY <1>8, IlockStill
  <2> QED BY <1>2, <1>6, <1>8, <2>1, EndsIdle, IdleStep DEF disk, IInv, Types
<1>9. CASE /\ i # 0 /\ panicked' = Full(t, i) /\ it' = Iget(t, i)
           /\ call' = [call EXCEPT ![p].ip = Slot(t, i), ![p].dp = d]
           /\ Goes(p, "remove")
  <2>1. ~Full(t, i) /\ i = Disk(d).ents[n]
    BY <1>5, <1>7, <1>9 DEF IInv, Types, Disk
  <2> HIDE DEF t
  <2>2. /\ i \in Inums /\ Reach(i)
        /\ dino[i].type = "DIR" => \A q \in Proc : pc[q] = "remove" => it[call[q].ip].inum # i
    BY <1>3, <1>6, <1>9, <2>1, Found
  <2>3. pc'[p] = "remove" /\ Others(p)
    BY <1>6, <1>9 DEF Others, Goes, IInv, Types
  <2>4. call'[p] = [call[p] EXCEPT !.ip = Slot(t, i), !.dp = d]
    BY <1>9 DEF IInv, Types
  <2>5. call'[p].ip = Slot(t, i) /\ call'[p].op = "unlink"
    BY <1>2, <2>4 DEF Call1
  <2>6. Takes(p, t, i)
    BY <1>2, <1>6, <1>7, <1>9, <2>1, <2>2, <2>3, <2>5 DEF Takes, disk
  <2> QED BY <2>6, TakesStep
<1> QED BY <1>6, <1>8, <1>9

\* create: a new inode has no links.
LEMMA CreateAttached ==
  ASSUME IInv, IInv', Attached, NEW p \in Proc, NEW op \in {"create", "mkdir"}, Create(p, op)
  PROVE  Attached'
<1>1. pc[p] = op /\ pc[p] \in Calm \cap Places
  BY DEF Create, Locks, Calm, Places, Later
<1>2. /\ Place(p) /\ call[p].ip \in Slots /\ call[p].op = op /\ call[p] \in Call1
      /\ call[p].path # <<>>
  BY <1>1, AtRest DEF IInv, Place
<1>3. PICK d \in Slots : d = call[p].ip
  BY <1>2
<1>4. PICK n \in Names : n = Name(p)
  BY <1>2, NameIs DEF IInv
<1> DEFINE t == Ilock(it, d)
           unused == {j \in Inums : dino[j].type = "NONE"}
<1>5. PICK i : i = dino[t[d].inum].ents[n]
  OBVIOUS
<1>0. PICK new : new = Min(unused)
  OBVIOUS
<1>6. /\ lock[d] = Nobody /\ UNCHANGED fds
      /\ \/ /\ i # 0 /\ panicked' = Full(t, i) /\ it' = Iget(t, i)
            /\ call' = [call EXCEPT ![p].ip = Slot(t, i)]
            /\ Puts(p, <<d>>, "found") /\ dino' = dino
         \/ it' = t /\ Ends(p, <<d>>) /\ dino' = dino
         \/ /\ unused # {} /\ panicked' = Full(t, new) /\ it' = Iget(t, new)
            /\ dino' = [dino EXCEPT ![new] = [FreeInode EXCEPT !.type = Type(op)]]
            /\ call' = [call EXCEPT ![p].ip = Slot(t, new), ![p].dp = d]
            /\ Goes(p, "fresh")
  BY <1>0, <1>3, <1>4, <1>5 DEF Create, Locks
<1>7. /\ Same(it, t) /\ Sound(t, dino, Freed) /\ t[d].inum = it[d].inum /\ it[d].ref > 0
      /\ it[d].inum \in Inums
  BY <1>1, <1>3, <1>6, Looked, CalmIs DEF Uses, Keeps
<1>8. CASE it' = t /\ Ends(p, <<d>>) /\ dino' = dino
  <2>1. Stays
    BY <1>8, IlockStill
  <2> QED BY <1>2, <1>6, <1>8, <2>1, EndsIdle, IdleStep DEF IInv, Types
<1>9. CASE /\ i # 0 /\ panicked' = Full(t, i) /\ it' = Iget(t, i)
           /\ call' = [call EXCEPT ![p].ip = Slot(t, i)]
           /\ Puts(p, <<d>>, "found") /\ dino' = dino
  <2>1. ~Full(t, i) /\ i = Disk(d).ents[n]
    BY <1>5, <1>7, <1>9 DEF IInv, Types, Disk
  <2> HIDE DEF t
  <2>2. /\ i \in Inums /\ Reach(i)
        /\ dino[i].type = "DIR" => \A q \in Proc : pc[q] = "remove" => it[call[q].ip].inum # i
    BY <1>3, <1>6, <1>9, <2>1, Found
  <2>3. pc'[p] = "put" /\ Others(p)
    BY <1>6, <1>9 DEF Others, Puts, IInv, Types
  <2>4. call'[p] = [call[p] EXCEPT !.ip = Slot(t, i)]
    BY <1>9 DEF IInv, Types
  <2>5. call'[p].ip = Slot(t, i) /\ call'[p].op = op
    BY <1>2, <2>4 DEF Call1
  <2>6. Takes(p, t, i)
    BY <1>2, <1>7, <1>9, <2>1, <2>2, <2>3, <2>5 DEF Takes
  <2> QED BY <2>6, TakesStep
<1>10. CASE /\ unused # {} /\ panicked' = Full(t, new) /\ it' = Iget(t, new)
            /\ dino' = [dino EXCEPT ![new] = [FreeInode EXCEPT !.type = Type(op)]]
            /\ call' = [call EXCEPT ![p].ip = Slot(t, new), ![p].dp = d]
            /\ Goes(p, "fresh")
  <2>1. ~Full(t, new) /\ new \in Inums /\ dino[new].type = "NONE"
    <3>1. unused \in SUBSET Nat
      BY Numbers
    <3> QED BY <1>0, <1>10, <3>1, Least DEF IInv, Types
  <2> HIDE DEF t, unused
  <2>2. /\ pc'[p] = "fresh" /\ Others(p)
    BY <1>6, <1>10 DEF Others, Goes, IInv, Types
  <2>3. call'[p] = [call[p] EXCEPT !.ip = Slot(t, new), !.dp = d]
    BY <1>10 DEF IInv, Types
  <2>4. LET k0 == Slot(t, new) u == Iget(t, new) IN
        /\ k0 \in Slots /\ u \in [Slots -> Entry] /\ u[k0].inum = new
        /\ \A s \in Slots \ {k0} : u[s] = t[s]
        /\ \A s \in Slots : u[s].ref = t[s].ref + (IF s = k0 THEN 1 ELSE 0)
        /\ t[k0].ref > 0 => t[k0].inum = new /\ u[k0] = [t[k0] EXCEPT !.ref = t[k0].ref + 1]
        /\ t[k0].ref = 0 => /\ u[k0] = [NoInode EXCEPT !.inum = new, !.ref = 1]
                            /\ \A s \in Slots : t[s].ref > 0 => t[s].inum # new
        /\ Sound(u, dino, Freed)
    BY <1>7, <2>1, IgetIs
  <2>5. PICK k \in Slots : k = Slot(t, new)
    BY <2>4
  <2>6. /\ it'[k].inum = new
        /\ t[k].ref > 0 => t[k].inum = new
        /\ \A s \in Slots \ {k} : it'[s] = t[s]
    BY <1>10, <2>4, <2>5
  <2>7. call'[p].ip = k /\ call'[p].op = op /\ call'[p].dp = d
    BY <1>2, <2>3, <2>5 DEF Call1
  <2>8. Stays
    BY <1>7, <2>6 DEF Same, Stays
  <2>9. dino[new] = FreeInode /\ NoEntries = FreeInode.ents /\ FreeInode.nlink = 0
    BY <2>1 DEF IInv, Free, FreeInode
  <2>10. /\ dino'[new] = [FreeInode EXCEPT !.type = Type(op)]
         /\ \A j \in Inums \ {new} : dino'[j] = dino[j]
    BY <1>10, <2>1 DEF IInv, Types
  <2>11. \A j \in Inums : dino'[j].ents = dino[j].ents /\ dino'[j].nlink = dino[j].nlink
    BY <2>9, <2>10 DEF FreeInode
  <2>12. Entries(new) = {}
    <3>1. dino[new].nlink = 0
      BY <2>9
    <3> QED BY <2>1, <3>1, LinkSets DEF IInv, Linked
  <2>13. \A j \in Inums : /\ dino[j].nlink \in Nat
                          /\ dino'[j].nlink = dino[j].nlink
                               + (Bit(Promises(p, j)') - Bit(Promises(p, j)))
    BY <1>2, <2>7, <2>11 DEF Promises, Bit, IInv, Types, DInode
  <2>14. Reached(p)'
    <3>1. Reach(it[d].inum) /\ it'[d].inum = it[d].inum
      <4>1. Disk(d).type = "DIR"
        BY <1>1, <1>2, <1>3, AtRest DEF IInv, Holding, Held, DirPlaces
      <4>2. Reach(it[d].inum)
        BY <1>1, <1>3, <4>1, Numbers DEF Attached, Reached
      <4>3. it'[d].inum = it[d].inum
        BY <1>3, <1>7, <2>7, <2>8, OwnStays, Numbers
      <4> QED BY <4>2, <4>3
    <3>2. Entries(it[d].inum)' = Entries(it[d].inum)
      BY <2>11, <3>1 DEF Entries
    <3> QED BY <2>2, <2>7, <3>1, <3>2 DEF Reached, Reach
  <2>15. ASSUME NEW q \in Proc \ {p}, pc[q] = "remove" PROVE call'[p].ip # call[q].ip
    <3> SUFFICES ASSUME call[q].ip = k PROVE FALSE
      BY <2>7
    <3>1. it[k].ref > 0
      BY RefsNow DEF Uses, Keeps, IInv
    <3>2. it[k].inum = new
      BY <1>7, <2>6, <3>1 DEF Same
    <3>3. Disk(k).type = "NONE" /\ Uses(q, k)
      BY <2>1, <3>2 DEF Disk, Uses, Keeps
    <3>4. Drops(q, k)
      BY <3>3 DEF IInv, Free
    <3> QED BY <2>15, <3>4 DEF Drops
  <2>16. \A j \in Inums : \/ dino'[j].type = dino[j].type
                          \/ Entries(j) = {} /\ (dino'[j].type = "DIR" => dino[j].type = "NONE")
    BY <2>1, <2>10, <2>12
  <2>17. Tame(p)
    BY <2>2, <2>8, <2>11, <2>13, <2>14, <2>15, <2>16 DEF Tame
  <2> QED BY <2>17, TameStep
<1> QED BY <1>6, <1>8, <1>9, <1>10

-----------------------------------------------------------------------------
(* An entry is made or removed. *)

\* The entry n of the directory id, from old to i, of which the other is 0.
Ties(p, id, is, n, i, old) ==
    /\ Others(p) /\ Stays /\ call'[p] = NoCall /\ pc'[p] = "put"
    /\ id \in Inums /\ is \in Inums /\ id # is /\ n \in Names
    /\ dino[id].ents[n] = old /\ dino'[id].ents = [dino[id].ents EXCEPT ![n] = i]
    /\ \A j \in Inums :
          /\ j # id => dino'[j].ents = dino[j].ents
          /\ dino'[j].type = dino[j].type
          /\ dino'[j].nlink = dino[j].nlink + (Bit(i = j) - Bit(old = j))
               + (IF j = id /\ dino[is].type = "DIR" THEN Bit(i # 0) - Bit(old # 0) ELSE 0)
               + (Bit(Promises(p, j)') - Bit(Promises(p, j)))
    /\ \/ /\ i = is /\ old = 0 /\ Reach(id) /\ is # ROOTINO
          /\ dino[is].type = "DIR" => Entries(is) = {}
       \/ /\ i = 0 /\ old = is
          /\ dino[is].type = "DIR" =>
                /\ dino[is].ents = NoEntries
                /\ \A q \in Proc \ {p} : /\ call[q].ip # 0 => it[call[q].ip].inum # is
                                         /\ pc[q] = "fresh" => it[call[q].dp].inum # is

\* An entry that is made or removed keeps the links exact.
LEMMA TiesStep ==
  ASSUME IInv, IInv', Attached, NEW p \in Proc, NEW id, NEW is, NEW n, NEW i, NEW old,
         Ties(p, id, is, n, i, old)
  PROVE  Attached'
<1>1. /\ Others(p) /\ Stays /\ call'[p] = NoCall /\ pc'[p] = "put"
      /\ id \in Inums /\ is \in Inums /\ id # is /\ n \in Names
      /\ dino[id].ents[n] = old /\ dino'[id].ents = [dino[id].ents EXCEPT ![n] = i]
      /\ \A j \in Inums : /\ j # id => dino'[j].ents = dino[j].ents
                          /\ dino'[j].type = dino[j].type
  BY DEF Ties
<1>2. i \in {0, is} /\ old \in {0, is} /\ is # 0
  BY Numbers DEF Ties
<1>3. \A d \in Inums, m \in Names : /\ dino[d] \in DInode /\ dino[d].ents \in [Names -> Inums \cup {0}]
                                    /\ dino'[d].ents[m] = IF d = id /\ m = n THEN i
                                                          ELSE dino[d].ents[m]
  <2>1. \A d \in Inums : dino[d] \in DInode /\ dino[d].ents \in [Names -> Inums \cup {0}]
    BY DEF IInv, Types, DInode
  <2> QED BY <1>1, <2>1
<1>4. \A d \in Inums, m \in Names : <<d, m>> # <<id, n>> =>
         /\ dino'[d].ents[m] = dino[d].ents[m]
         /\ Leads(d, m)' <=> Leads(d, m)
  BY <1>1, <1>3 DEF Leads
<1>5. /\ Leads(id, n) <=> old # 0 /\ dino[is].type = "DIR"
      /\ Leads(id, n)' <=> i # 0 /\ dino[is].type = "DIR"
      /\ dino'[id].ents[n] = i
  BY <1>1, <1>2, <1>3 DEF Leads
<1>6. ASSUME NEW j \in Inums PROVE dino'[j].nlink = Links(j)'
  <2>1. Links(j)' = Links(j)
           + (Bit(dino'[id].ents[n] = j) - Bit(dino[id].ents[n] = j))
           + (IF j = id THEN Bit(Leads(id, n)') - Bit(Leads(id, n)) ELSE 0)
           + (Bit(Promises(p, j)') - Bit(Promises(p, j)))
         /\ Links(j)' \in Nat
    BY <1>1, <1>4, LinksStep DEF IInv
  <2>2. dino[j].nlink = Links(j)
    BY DEF Attached
  <2>3. dino'[j].nlink = dino[j].nlink + (Bit(i = j) - Bit(old = j))
               + (IF j = id /\ dino[is].type = "DIR" THEN Bit(i # 0) - Bit(old # 0) ELSE 0)
               + (Bit(Promises(p, j)') - Bit(Promises(p, j)))
    BY DEF Ties
  <2>4. Bit(dino'[id].ents[n] = j) = Bit(i = j) /\ Bit(dino[id].ents[n] = j) = Bit(old = j)
    BY <1>1, <1>5
  <2>5. (IF j = id THEN Bit(Leads(id, n)') - Bit(Leads(id, n)) ELSE 0)
         = (IF j = id /\ dino[is].type = "DIR" THEN Bit(i # 0) - Bit(old # 0) ELSE 0)
    BY <1>5 DEF Bit
  <2> QED BY <2>1, <2>2, <2>3, <2>4, <2>5
<1>7. \A j, e : e \in Entries(j)' <=> IF e = <<id, n>> THEN i = j ELSE e \in Entries(j)
  <2> SUFFICES ASSUME NEW j, NEW e
               PROVE  e \in Entries(j)' <=> IF e = <<id, n>> THEN i = j ELSE e \in Entries(j)
    OBVIOUS
  <2>1. CASE e \notin Inums \X Names
    BY <1>1, <2>1 DEF Entries
  <2>2. CASE e \in Inums \X Names
    <3>1. PICK d \in Inums, m \in Names : e = <<d, m>>
      BY <2>2
    <3>2. /\ e \in Entries(j) <=> dino[d].ents[m] = j
          /\ e \in Entries(j)' <=> dino'[d].ents[m] = j
      BY <3>1 DEF Entries
    <3> QED BY <1>3, <3>1, <3>2
  <2> QED BY <2>1, <2>2
<1>9. \A j \in Inums : j # is => Entries(j)' = Entries(j) /\ (Reach(j)' <=> Reach(j))
  <2> SUFFICES ASSUME NEW j \in Inums, j # is PROVE Entries(j)' = Entries(j)
    BY DEF Reach
  <2>1. i # j /\ <<id, n>> \notin Entries(j)
    BY <1>1, <1>2, Numbers DEF Entries
  <2> QED BY <1>7, <2>1
<1>10. CASE /\ i = is /\ old = 0 /\ Reach(id) /\ is # ROOTINO
            /\ dino[is].type = "DIR" => Entries(is) = {}
  <2>1. Reach(is)' /\ Reach(id)'
    <3>1. <<id, n>> \in Entries(is)'
      BY <1>7, <1>10
    <3> QED BY <1>1, <1>9, <1>10, <3>1 DEF Reach
  <2>2. ASSUME NEW j \in Inums
        PROVE  /\ ~Reach(j)' => dino'[j].ents = NoEntries
               /\ dino'[j].type = "DIR" => \A e, f \in Entries(j)' : e = f
    <3>1. CASE j = is
      BY <1>1, <1>7, <1>10, <2>1, <3>1
    <3>2. CASE j # is
      BY <1>1, <1>9, <2>1, <3>2 DEF Attached
    <3> QED BY <3>1, <3>2
  <2>3. ASSUME NEW q \in Proc \ {p} PROVE Reached(q)'
    <3>1. /\ call'[q] = call[q] /\ pc'[q] = pc[q]
          /\ \A s \in {call[q].ip, call[q].dp} : s # 0 =>
                /\ s \in Slots /\ it[s].inum \in Inums /\ it'[s].inum = it[s].inum
                /\ Disk(s).type # "NONE"
      BY <1>1, Kept
    <3>2. \A j \in Inums : Reach(j) => Reach(j)'
      BY <1>9, <2>1
    <3>3. Reached(q)
      BY DEF Attached
    <3>4. pc[q] \in {"fresh", "remove"} => call[q].ip # 0 /\ call[q].dp # 0
      BY AtRest, Numbers DEF IInv, Place, Places
    <3>5. call[q].ip # 0 => Disk(call[q].ip)'.type = Disk(call[q].ip).type
      BY <1>1, <3>1 DEF Disk
    <3>6. pc[q] = "remove" /\ Disk(call[q].ip).type = "DIR" =>
             \A r \in Proc \ {q} : call'[r].ip # call[q].ip
      BY <1>1, <3>3, <3>4, NonePut DEF Others, Reached
    <3> QED BY <3>1, <3>2, <3>3, <3>4, <3>5, <3>6 DEF Reached
  <2> QED BY <1>1, <1>6, <1>9, <1>10, <2>2, <2>3, NonePut, Numbers DEF Attached, Reached
<1>11. CASE /\ i = 0 /\ old = is
            /\ dino[is].type = "DIR" =>
                  /\ dino[is].ents = NoEntries
                  /\ \A q \in Proc \ {p} : /\ call[q].ip # 0 => it[call[q].ip].inum # is
                                           /\ pc[q] = "fresh" => it[call[q].dp].inum # is
  <2>1. Entries(is)' \subseteq Entries(is)
    BY <1>2, <1>7, <1>11
  <2>2. ASSUME NEW j \in Inums
        PROVE  /\ ~Reach(j)' => dino'[j].ents = NoEntries
               /\ dino'[j].type = "DIR" => \A e, f \in Entries(j)' : e = f
    <3>1. CASE j = is
      <4>1. dino[is].ents = NoEntries
        BY <1>1, <1>3, <1>11 DEF IInv, Free, FreeInode, DInode, Types0
      <4> QED BY <1>1, <2>1, <3>1, <4>1 DEF Attached
    <3>2. CASE j # is
      <4>1. j = id => Reach(j)
        BY <1>1, <1>2, <1>11 DEF Attached, NoEntries
      <4> QED BY <1>1, <1>9, <3>2, <4>1 DEF Attached
    <3> QED BY <3>1, <3>2
  <2>3. ASSUME NEW q \in Proc \ {p} PROVE Reached(q)'
    <3>1. /\ call'[q] = call[q] /\ pc'[q] = pc[q]
          /\ \A s \in {call[q].ip, call[q].dp} : s # 0 =>
                /\ s \in Slots /\ it[s].inum \in Inums /\ it'[s].inum = it[s].inum
                /\ Disk(s).type # "NONE"
      BY <1>1, Kept
    <3>3. Reached(q)
      BY DEF Attached
    <3>4. pc[q] \in {"fresh", "remove"} => call[q].ip # 0 /\ call[q].dp # 0
      BY AtRest, Numbers DEF IInv, Place, Places
    <3>5. call[q].ip # 0 => Disk(call[q].ip)'.type = Disk(call[q].ip).type
      BY <1>1, <3>1 DEF Disk
    <3>6. pc[q] = "remove" /\ Disk(call[q].ip).type = "DIR" =>
             \A r \in Proc \ {q} : call'[r].ip # call[q].ip
      BY <1>1, <3>3, <3>4, NonePut DEF Others, Reached
    <3>7. call[q].ip # 0 /\ Disk(call[q].ip).type = "DIR" => it[call[q].ip].inum # is
      BY <1>11 DEF Disk
    <3>8. pc[q] = "fresh" => it[call[q].dp].inum # is
      <4>1. pc[q] = "fresh" => Making(q)
        BY DEF IInv, Holding, Held
      <4>2. pc[q] = "fresh" => Disk(call[q].dp).type = "DIR"
        BY <4>1 DEF Making
      <4> QED BY <1>11, <4>2 DEF Disk
    <3> QED BY <1>9, <3>1, <3>3, <3>4, <3>5, <3>6, <3>7, <3>8 DEF Reached
  <2>4. Entries(ROOTINO)' = {}
    BY <1>9, <2>1, Numbers DEF Attached
  <2> QED BY <1>1, <1>6, <2>2, <2>3, <2>4, NonePut DEF Attached, Reached
<1> QED BY <1>10, <1>11 DEF Ties

\* iput: an inode without links is in no directory, and has no entries.
LEMMA IputAttached ==
  ASSUME IInv, IInv', Attached, NEW p \in Proc, Iput(p)
  PROVE  Attached'
<1>0. pc[p] = "put"
  BY DEF Iput
<1>1. PICK s \in Slots : s = Head(todo[p])
  BY <1>0, AtPut DEF Putting
<1>2. it[s].inum \in Inums /\ it[s].ref > 0
  BY <1>0, <1>1, AtPut DEF Putting
<1>3. CASE ~(it[s].ref = 1 /\ it[s].valid /\ it[s].nlink = 0)
  <2>1. Dropped(p, Head(todo[p])) /\ UNCHANGED <<dino, call, fds>>
    BY <1>1, <1>3 DEF Iput, disk
  <2> QED BY <1>0, <2>1, DroppedIdle, IdleStep
<1>4. CASE it[s].ref = 1 /\ it[s].valid /\ it[s].nlink = 0
  <2> DEFINE i == it[s].inum
  <2>1. /\ panicked' = (lock[s] # Nobody \/ ~(it[s].addrs \subseteq bitmap))
        /\ it' = [it EXCEPT ![s].addrs = {}, ![s].type = "NONE"]
        /\ dino' = [dino EXCEPT ![i] = FreeInode]
        /\ pc' = [pc EXCEPT ![p] = "invalid"]
        /\ todo' = todo /\ next' = next /\ call' = call /\ fds' = fds
    BY <1>1, <1>4 DEF Iput, Goes
  <2>2. lock[s] = Nobody
    BY <2>1 DEF IInv, Types
  <2>3. s \notin Freed
    BY <2>2, InodeConstants DEF Freed, IInv, Locked, HasLock
  <2>4. dino[i].nlink = 0
    BY <1>2, <1>4, <2>3 DEF IInv, Table, Sound, Copy
  <2>5. Links(i) = 0
    BY <1>2, <2>4 DEF Attached
  <2>6. Entries(i) = {} /\ i # ROOTINO
    BY <2>5, LinkSets
  <2>7. dino[i].ents = NoEntries
    BY <1>2, <2>6 DEF Attached, Reach
  <2>8. /\ dino'[i] = FreeInode /\ \A j \in Inums \ {i} : dino'[j] = dino[j]
    BY <1>2, <2>1 DEF IInv, Types
  <2>9. \A j \in Inums : /\ dino'[j].ents = dino[j].ents /\ dino'[j].nlink = dino[j].nlink
                         /\ \/ dino'[j].type = dino[j].type
                            \/ Entries(j) = {} /\ dino'[j].type = "NONE"
    BY <2>4, <2>6, <2>7, <2>8 DEF FreeInode
  <2>10. \A u \in Slots : it'[u].inum = it[u].inum
    BY <2>1 DEF IInv, Types, Entry
  <2>11. Stays /\ Others(p) /\ pc'[p] = "invalid" /\ call'[p] = call[p]
    BY <2>1, <2>10 DEF Stays, Others, IInv, Types
  <2>12. \A j \in Inums : Bit(Promises(p, j)') - Bit(Promises(p, j)) = 0
    BY <2>11, SamePromise
  <2>13. \A j \in Inums : dino[j].nlink \in Nat
    BY DEF IInv, Types, DInode
  <2>14. \A j \in Inums : dino'[j].nlink = dino[j].nlink + (Bit(Promises(p, j)') - Bit(Promises(p, j)))
    BY <2>9, <2>12, <2>13
  <2>15. Reached(p)'
    <3> SUFFICES ASSUME call[p].ip # 0, Disk(call[p].ip)'.type = "DIR"
                 PROVE  Reach(it[call[p].ip].inum)'
      BY <2>11 DEF Reached
    <3>1. /\ it[call[p].ip].inum \in Inums
          /\ it'[call[p].ip].inum = it[call[p].ip].inum
      BY <2>11, OwnStays
    <3>2. Disk(call[p].ip).type = "DIR"
      BY <2>9, <2>11, <3>1 DEF Disk
    <3>3. Reach(it[call[p].ip].inum)
      BY <1>0, <3>2 DEF Attached, Reached
    <3>4. Entries(it[call[p].ip].inum)' = Entries(it[call[p].ip].inum)
      BY <2>9, <2>11, <3>1 DEF Entries
    <3> QED BY <2>11, <3>1, <3>3, <3>4 DEF Reach
  <2>16. ASSUME NEW q \in Proc \ {p}, pc[q] = "remove", Disk(call[q].ip).type = "DIR"
         PROVE  call'[p].ip # call[q].ip
    BY <2>11, <2>16 DEF Attached, Reached
  <2>17. Tame(p)
    BY <2>9, <2>11, <2>14, <2>15, <2>16 DEF Tame
  <2> QED BY <2>17, TameStep
<1> QED BY <1>3, <1>4

\* sys_link takes its promise back, ...
LEMMA LinkBadAttached ==
  ASSUME IInv, IInv', Attached, NEW p \in Proc, LinkBad(p)
  PROVE  Attached'
<1>1. pc[p] = "bad" /\ pc[p] \in Calm \cap Places
  BY DEF LinkBad, Locks, Places, Later, Calm
<1>2. call[p].op = "link2" /\ call[p].dp \in Slots /\ call[p].ip = 0
  BY <1>1, AtRest, Numbers DEF IInv, Place
<1>3. PICK s \in Slots : s = call[p].dp
  BY <1>2
<1> DEFINE k == it[s].nlink - 1
           t == WithLinks(it, s, k)
<1>4. /\ lock[s] = Nobody /\ it' = t
      /\ dino' = Iupdate(dino, t, s) /\ Ends(p, <<s>>) /\ fds' = fds
  BY <1>3 DEF LinkBad, Locks
<1>5. s \notin Freed /\ it[s].ref > 0 /\ it[s].inum \in Inums /\ Disk(s) \in DInode
  BY <1>1, <1>3, <1>4, Looked, CalmIs DEF Uses, Keeps
<1>6. PICK is \in Inums : is = it[s].inum
  BY <1>5
<1>7. it[s].valid /\ Copy(it[s], dino[is]) /\ dino[is] \in DInode
  BY <1>2, <1>3, <1>5, <1>6, Numbers DEF IInv, Holding, Held, Table, Sound, Disk
<1>8. /\ it'[s] = [it[s] EXCEPT !.nlink = k] /\ it[s] \in Entry
      /\ \A u \in Slots \ {s} : it'[u] = it[u]
  BY <1>4 DEF WithLinks, IInv, Types
<1>9. it'[s].inum = is /\ it'[s].type = dino[is].type /\ it'[s].nlink = dino[is].nlink - 1
  BY <1>6, <1>7, <1>8 DEF Copy, Entry
<1>10. dino' = [dino EXCEPT ![is] = Stored(dino[is], it'[s])]
  BY <1>4, <1>9 DEF Iupdate
<1>11. /\ dino'[is] = Stored(dino[is], it'[s])
       /\ \A j \in Inums \ {is} : dino'[j] = dino[j]
  BY <1>10 DEF IInv, Types
<1>12. /\ Stored(dino[is], it'[s]).ents = dino[is].ents
       /\ Stored(dino[is], it'[s]).type = dino[is].type
       /\ Stored(dino[is], it'[s]).nlink = dino[is].nlink - 1
  BY <1>7, <1>9 DEF Stored, DInode
<1>13. Stays /\ Others(p) /\ pc'[p] = "put" /\ call'[p] = NoCall
  <2>1. Others(p) /\ pc'[p] = "put" /\ call'[p] = NoCall
    BY <1>4 DEF Ends, Puts, Others, IInv, Types
  <2> QED BY <1>6, <1>8, <1>9, <2>1 DEF Stays
<1>14. \A j \in Inums : ~Promises(p, j)' /\ (Promises(p, j) <=> j = is)
  BY <1>2, <1>3, <1>6, <1>13, NonePut DEF Promises
<1>15. \A j \in Inums : /\ dino[j].nlink \in Nat /\ dino'[j].ents = dino[j].ents
                        /\ dino'[j].type = dino[j].type
                        /\ dino'[j].nlink = dino[j].nlink
                             + (Bit(Promises(p, j)') - Bit(Promises(p, j)))
  <2>1. \A j \in Inums : dino[j].nlink \in Nat
    BY DEF IInv, Types, DInode
  <2> QED BY <1>11, <1>12, <1>14, <2>1 DEF Bit
<1>16. Reached(p)'
  BY <1>13, NonePut DEF Reached
<1>17. ASSUME NEW q \in Proc \ {p}, pc[q] = "remove" PROVE call'[p].ip # call[q].ip
  <2>1. call[q].ip # 0
    BY <1>17, AtRest, Numbers DEF IInv, Place, Places
  <2> QED BY <1>13, <2>1, NonePut
<1>18. Tame(p)
  BY <1>13, <1>15, <1>16, <1>17 DEF Tame
<1> QED BY <1>18, TameStep

\* ... or gives it, ...
LEMMA LinkAttached ==
  ASSUME IInv, IInv', Attached, NEW p \in Proc, Link(p)
  PROVE  Attached'
<1>1. pc[p] = "link" /\ pc[p] \in Calm \cap Places
  BY DEF Link, Locks, Calm, Places, Later
<1>2. /\ call[p].op = "link" /\ call[p].ip \in Slots
  BY <1>1, AtRest, Numbers DEF IInv, Place
<1>3. PICK s \in Slots : s = call[p].ip
  BY <1>2
<1> DEFINE t0 == Ilock(it, s)
           t == WithLinks(t0, s, t0[s].nlink + 1)
<1>4. /\ lock[s] = Nobody /\ UNCHANGED <<bitmap, lock, fds>>
      /\ \/ it' = t0 /\ Ends(p, <<s>>) /\ dino' = dino
         \/ /\ t[s].type # "DIR"
            /\ it' = Iget(t, ROOTINO) /\ dino' = Iupdate(dino, t, s)
            /\ call' = [call EXCEPT ![p] =
                   [op |-> "link2", ip |-> Slot(t, ROOTINO), dp |-> s,
                    path |-> call[p].new, new |-> <<>>]]
            /\ Goes(p, "walk")
            /\ panicked' = (t[s].type = "NONE" \/ Full(t, ROOTINO))
  BY <1>3 DEF Link, Locks
<1>5. /\ s \notin Freed /\ it[s].ref > 0 /\ it[s].inum \in Inums
      /\ Same(it, t0) /\ Sound(t0, dino, Freed) /\ t0 \in [Slots -> Entry]
      /\ t0[s].valid /\ Copy(t0[s], Disk(s)) /\ t0[s].inum = it[s].inum /\ t0[s].ref = it[s].ref
      /\ Disk(s).type # "NONE" /\ t0[s].type = Disk(s).type /\ Disk(s) \in DInode
  BY <1>1, <1>3, <1>4, Looked, CalmIs DEF Uses, Keeps
<1>6. CASE it' = t0 /\ Ends(p, <<s>>) /\ dino' = dino
  <2>1. Stays
    BY <1>6, IlockStill
  <2> QED BY <1>2, <1>4, <1>6, <2>1, EndsIdle, IdleStep DEF IInv, Types
<1>7. CASE /\ t[s].type # "DIR"
           /\ it' = Iget(t, ROOTINO) /\ dino' = Iupdate(dino, t, s)
           /\ call' = [call EXCEPT ![p] =
                  [op |-> "link2", ip |-> Slot(t, ROOTINO), dp |-> s,
                   path |-> call[p].new, new |-> <<>>]]
           /\ Goes(p, "walk")
           /\ panicked' = (t[s].type = "NONE" \/ Full(t, ROOTINO))
  <2>1. PICK is \in Inums : is = it[s].inum
    BY <1>5
  <2>2. t0[s].nlink + 1 \in Nat /\ t0[s].nlink = dino[is].nlink /\ dino[is].nlink \in Nat
    BY <1>5, <2>1 DEF Copy, Disk, DInode
  <2>3. PICK m \in Nat : m = t0[s].nlink + 1
    BY <2>2
  <2>4. Relink(t0, dino, s, m, t, dino')
    <3>1. Relink(t0, dino, s, m, WithLinks(t0, s, m), Iupdate(dino, WithLinks(t0, s, m), s))
      <4> HIDE DEF t0
      <4> QED BY <1>5, Relinked DEF IInv, Types
    <3> QED BY <1>7, <2>3, <3>1
  <2>5. PICK u : u = t
    OBVIOUS
  <2>6. /\ ~Full(u, ROOTINO) /\ it' = Iget(u, ROOTINO)
        /\ call' = [call EXCEPT ![p] =
                  [op |-> "link2", ip |-> Slot(u, ROOTINO), dp |-> s,
                   path |-> call[p].new, new |-> <<>>]]
    BY <1>7, <2>5 DEF IInv, Types
  <2>7. Same(t0, u) /\ Sound(u, dino', Freed)
    BY <2>4, <2>5 DEF Relink
  <2>8. /\ \A j \in Inums \ {is} : dino'[j] = dino[j]
        /\ dino'[is].ents = dino[is].ents /\ dino'[is].nlink = m /\ dino'[is].type = dino[is].type
    BY <1>5, <2>1, <2>4 DEF Relink
  <2> HIDE DEF t, t0
  <2>9. LET k0 == Slot(u, ROOTINO) v == Iget(u, ROOTINO) IN
        /\ k0 \in Slots /\ v \in [Slots -> Entry] /\ v[k0].inum = ROOTINO
        /\ \A x \in Slots \ {k0} : v[x] = u[x]
        /\ \A x \in Slots : v[x].ref = u[x].ref + (IF x = k0 THEN 1 ELSE 0)
        /\ u[k0].ref > 0 => u[k0].inum = ROOTINO /\ v[k0] = [u[k0] EXCEPT !.ref = u[k0].ref + 1]
        /\ u[k0].ref = 0 => /\ v[k0] = [NoInode EXCEPT !.inum = ROOTINO, !.ref = 1]
                            /\ \A x \in Slots : u[x].ref > 0 => u[x].inum # ROOTINO
        /\ Sound(v, dino', Freed)
    BY <2>6, <2>7, IgetIs, Numbers
  <2>10. PICK k \in Slots : k = Slot(u, ROOTINO)
    BY <2>9
  <2>11. /\ it'[k].inum = ROOTINO
         /\ u[k].ref > 0 => u[k].inum = ROOTINO
         /\ \A x \in Slots \ {k} : it'[x] = u[x]
    BY <2>6, <2>9, <2>10
  <2>12. \A x \in Slots : u[x].inum = it[x].inum /\ u[x].ref = it[x].ref
    BY <1>5, <2>7 DEF Same
  <2>13. Stays
    BY <2>11, <2>12 DEF Stays
  <2>14. /\ Others(p) /\ pc'[p] = "walk" /\ call'[p].ip = k /\ call'[p].op = "link2"
         /\ call'[p].dp = s
    BY <1>4, <1>7, <2>6, <2>10 DEF Others, Goes, IInv, Types
  <2>15. it'[s].inum = is
    BY <1>3, <2>1, <2>13, <2>14, OwnStays, Numbers
  <2>16. \A j \in Inums : ~Promises(p, j) /\ (Promises(p, j)' <=> j = is)
    BY <1>2, <2>14, <2>15 DEF Promises
  <2>17. \A j \in Inums : /\ dino[j].nlink \in Nat /\ dino'[j].ents = dino[j].ents
                          /\ dino'[j].type = dino[j].type
                          /\ dino'[j].nlink = dino[j].nlink
                               + (Bit(Promises(p, j)') - Bit(Promises(p, j)))
    <3>1. \A j \in Inums : dino[j].nlink \in Nat
      BY DEF IInv, Types, DInode
    <3> QED BY <2>2, <2>3, <2>8, <2>16, <3>1 DEF Bit
  <2>18. Reached(p)'
    BY <2>11, <2>14 DEF Reached, Reach
  <2>19. ASSUME NEW q \in Proc \ {p}, pc[q] = "remove" PROVE call'[p].ip # call[q].ip
    <3> SUFFICES ASSUME call[q].ip = k PROVE FALSE
      BY <2>14
    <3>1. it[k].ref > 0
      BY RefsNow DEF Uses, Keeps, IInv
    <3>2. it[k].inum = ROOTINO
      BY <2>11, <2>12, <3>1
    <3> QED BY <2>19, <3>2, RootStays
  <2>20. Tame(p)
    BY <2>13, <2>14, <2>17, <2>18, <2>19 DEF Tame
  <2> QED BY <2>20, TameStep
<1> QED BY <1>4, <1>6, <1>7

\* ... or keeps it.
LEMMA LinkNameAttached ==
  ASSUME IInv, IInv', Attached, NEW p \in Proc, LinkName(p)
  PROVE  Attached'
<1>1. pc[p] = "link2" /\ pc[p] \in Calm \cap Places
  BY DEF LinkName, Locks, Calm, Places, Later
<1>2. /\ call[p].ip \in Slots /\ call[p].op = "link2" /\ call[p].dp \in Slots /\ At(p) = "link2"
      /\ call[p].path # <<>>
  BY <1>1, AtRest, Numbers DEF IInv, Place
<1>3. PICK d \in Slots, s \in Slots : d = call[p].ip /\ s = call[p].dp
  BY <1>2
<1>4. PICK n \in Names : n = Name(p)
  BY <1>2, NameIs DEF IInv
<1> DEFINE t == Ilock(it, d)
<1>5. /\ lock[d] = Nobody /\ UNCHANGED fds /\ it' = t
      /\ \/ /\ dino[t[d].inum].ents[n] = 0
            /\ dino' = Enter(dino, t[d].inum, n, it[s].inum)
            /\ Ends(p, <<d, s>>)
         \/ LinkFails(p) /\ dino' = dino
  BY <1>3, <1>4 DEF LinkName, Locks
<1>6. t[d].inum = it[d].inum
  BY IlockStays
<1>7. Stays
  BY <1>5, IlockStill
<1>8. CASE LinkFails(p) /\ dino' = dino
  BY <1>2, <1>5, <1>7, <1>8, FailsIdle, IdleStep
<1>9. CASE /\ dino[t[d].inum].ents[n] = 0
           /\ dino' = Enter(dino, t[d].inum, n, it[s].inum)
           /\ Ends(p, <<d, s>>)
  <2>1. it[s].inum \in Inums /\ it[d].inum \in Inums
    BY <1>3, RefsNow DEF Uses, Keeps, IInv, Table, Sound
  <2>2. PICK is \in Inums, id \in Inums : is = it[s].inum /\ id = it[d].inum
    BY <2>1
  <2>3. dino[id].type = "DIR" /\ dino[is].type = "FILE"
    BY <1>2, <1>3, <2>2 DEF IInv, Holding, Held, Disk, DirPlaces
  <2>4. dino[id].ents[n] = 0 /\ dino' = Enter(dino, id, n, is)
    BY <1>6, <1>9, <2>2
  <2>5. /\ \A j \in Inums \ {id} : dino'[j] = dino[j]
        /\ dino'[id].type = dino[id].type /\ dino'[id].nlink = dino[id].nlink
        /\ dino'[id].ents = [dino[id].ents EXCEPT ![n] = is]
    <3>1. LET f == Enter(dino, id, n, is) IN
          /\ f \in [Inums -> DInode]
          /\ \A j \in Inums \ {id} : f[j] = dino[j]
          /\ f[id].type = dino[id].type /\ f[id].nlink = dino[id].nlink
          /\ f[id].addrs = dino[id].addrs
          /\ f[id].ents = [dino[id].ents EXCEPT ![n] = is]
          /\ \A u, x : Sound(u, dino, x) => Sound(u, f, x)
      <4>1. dino \in [Inums -> DInode] /\ is \in Inums \cup {0}
        BY DEF IInv, Types
      <4> QED BY <4>1, EnterIs
    <3> QED BY <2>4, <3>1
  <2>6. Others(p) /\ call'[p] = NoCall /\ pc'[p] = "put"
    BY <1>5, <1>9 DEF Ends, Puts, Others, IInv, Types
  <2>7. \A j \in Inums : ~Promises(p, j)' /\ (Promises(p, j) <=> j = is)
    BY <1>2, <1>3, <2>2, <2>6, NonePut DEF Promises
  <2>8. PICK old \in {0} : old = 0
    OBVIOUS
  <2>9. \A j \in Inums :
           dino'[j].nlink = dino[j].nlink + (Bit(is = j) - Bit(old = j))
               + (IF j = id /\ dino[is].type = "DIR" THEN Bit(is # 0) - Bit(old # 0) ELSE 0)
               + (Bit(Promises(p, j)') - Bit(Promises(p, j)))
    <3> SUFFICES ASSUME NEW j \in Inums
                 PROVE  dino'[j].nlink = dino[j].nlink + (Bit(is = j) - Bit(old = j))
               + (IF j = id /\ dino[is].type = "DIR" THEN Bit(is # 0) - Bit(old # 0) ELSE 0)
               + (Bit(Promises(p, j)') - Bit(Promises(p, j)))
      OBVIOUS
    <3>1. dino[j].nlink \in Nat /\ dino'[j].nlink = dino[j].nlink
      BY <2>5 DEF IInv, Types, DInode
    <3>2. Bit(old = j) = 0
      BY <2>8, Numbers DEF Bit
    <3>3. Bit(Promises(p, j)') = 0 /\ Bit(Promises(p, j)) = Bit(is = j) /\ Bit(is = j) \in Nat
      BY <2>7 DEF Bit
    <3> QED BY <2>3, <3>1, <3>2, <3>3
  <2>10. Reach(id)
    BY <1>1, <1>3, <2>2, <2>3, Numbers DEF Attached, Reached, Disk
  <2>11. is # ROOTINO /\ id # is
    BY <2>3 DEF IInv, Free
  <2>12. Ties(p, id, is, n, is, old)
    BY <1>7, <2>3, <2>4, <2>5, <2>6, <2>8, <2>9, <2>10, <2>11 DEF Ties
  <2> QED BY <2>12, TiesStep
<1> QED BY <1>5, <1>8, <1>9

\* create and sys_unlink change an entry.
LEMMA EditTies ==
  ASSUME IInv, Attached, NEW p \in Proc, NEW s, NEW d, NEW k, NEW l, NEW n, NEW i, NEW old,
         NEW ss, NEW F, DirEdit(p, s, d, k, l, n, i, old, ss, F),
         \/ i = 0 /\ old # 0 /\ pc[p] = "remove" /\ (Disk(s).type = "DIR" => Disk(s).ents = NoEntries)
         \/ i # 0 /\ old = 0 /\ pc[p] = "fresh" /\ Disk(s).nlink = 0
  PROVE  Ties(p, it[d].inum, it[s].inum, n, i, old)
<1> DEFINE t == Ilock(it, s)
<1>1. /\ s \in Slots /\ d \in Slots /\ s = call[p].ip /\ d = call[p].dp /\ lock[s] = Nobody
      /\ n \in Names /\ i \in {0, it[s].inum} /\ old \in {0, it[s].inum}
      /\ Disk(d).type = "DIR" /\ Disk(d).ents[n] = old
      /\ Relink2(t, s, d, k, l, n, i, it', dino')
      /\ Local(p, "put", ss, "user", NoCall, F)
      /\ k = Disk(s).nlink + (Bit(i # 0) - Bit(old # 0))
      /\ l = Disk(d).nlink + (IF Disk(s).type = "DIR" THEN Bit(i # 0) - Bit(old # 0) ELSE 0)
  BY DEF DirEdit
<1>2. \A u \in Slots : t[u].inum = it[u].inum /\ t[u].ref = it[u].ref
  <2>1. \A u \in Slots : t[u].ref = it[u].ref
    BY DEF Ilock, Read, IInv, Types, Entry
  <2> QED BY <2>1, IlockStays
<1>3. it[s].inum \in Inums /\ it[d].inum \in Inums /\ it[s].ref > 0 /\ it[d].ref > 0
  BY <1>1, RefsNow DEF Uses, Keeps, IInv, Table, Sound
<1>4. PICK is \in Inums, id \in Inums : is = it[s].inum /\ id = it[d].inum
  BY <1>3
<1>5. t[s].inum = is /\ t[d].inum = id
  BY <1>1, <1>2, <1>4
<1> HIDE DEF t
<1>6. /\ Same(t, it') /\ is # id
      /\ \A j \in Inums \ {is, id} : dino'[j] = dino[j]
      /\ dino'[is].nlink = k /\ dino'[is].ents = dino[is].ents
      /\ dino'[id].nlink = l /\ dino'[id].ents = [dino[id].ents EXCEPT ![n] = i]
      /\ \A j \in Inums : dino'[j].type = dino[j].type
  BY <1>1, <1>5 DEF Relink2
<1>7. Stays /\ Others(p) /\ call'[p] = NoCall /\ pc'[p] = "put"
  BY <1>1, <1>2, <1>6 DEF Same, Stays, Local
<1>8. call[p].op # "link2"
  BY AtRest DEF IInv, Place, Places
<1>9. \A j \in Inums : ~Promises(p, j)' /\ ~Promises(p, j)
  BY <1>7, <1>8, NonePut DEF Promises
<1>10. \A j \in Inums :
           dino'[j].nlink = dino[j].nlink + (Bit(i = j) - Bit(old = j))
               + (IF j = id /\ dino[is].type = "DIR" THEN Bit(i # 0) - Bit(old # 0) ELSE 0)
               + (Bit(Promises(p, j)') - Bit(Promises(p, j)))
  <2> SUFFICES ASSUME NEW j \in Inums
               PROVE  dino'[j].nlink = dino[j].nlink + (Bit(i = j) - Bit(old = j))
               + (IF j = id /\ dino[is].type = "DIR" THEN Bit(i # 0) - Bit(old # 0) ELSE 0)
               + (Bit(Promises(p, j)') - Bit(Promises(p, j)))
    OBVIOUS
  <2>1. dino[j].nlink \in Nat
    BY DEF IInv, Types, DInode
  <2>2. Bit(Promises(p, j)') = 0 /\ Bit(Promises(p, j)) = 0
    BY <1>9 DEF Bit
  <2>3. is # 0 /\ id # 0 /\ j # 0
    BY Numbers
  <2>4. CASE j = is
    <3>1. Bit(i = j) = Bit(i # 0) /\ Bit(old = j) = Bit(old # 0)
      BY <1>1, <1>4, <2>3, <2>4 DEF Bit
    <3>2. dino'[j].nlink = dino[j].nlink + (Bit(i # 0) - Bit(old # 0))
      BY <1>1, <1>4, <1>6, <2>4 DEF Disk
    <3>3. Bit(i # 0) \in Nat /\ Bit(old # 0) \in Nat /\ j # id
      BY <1>6, <2>4 DEF Bit
    <3> QED BY <2>1, <2>2, <3>1, <3>2, <3>3
  <2>5. CASE j # is
    <3>1. Bit(i = j) = 0 /\ Bit(old = j) = 0
      BY <1>1, <1>4, <2>3, <2>5 DEF Bit
    <3>2. Bit(i # 0) \in Nat /\ Bit(old # 0) \in Nat
      BY DEF Bit
    <3>3. dino'[j].nlink = dino[j].nlink
               + (IF j = id /\ dino[is].type = "DIR" THEN Bit(i # 0) - Bit(old # 0) ELSE 0)
      <4>1. CASE j = id
        <5>1. Disk(d) = dino[id] /\ Disk(s) = dino[is]
          BY <1>4 DEF Disk
        <5> QED BY <1>1, <1>6, <4>1, <5>1
      <4>2. CASE j # id
        BY <1>6, <2>1, <2>5, <4>2
      <4> QED BY <4>1, <4>2
    <3> QED BY <2>1, <2>2, <3>1, <3>2, <3>3
  <2> QED BY <2>4, <2>5
<1>11. CASE i = 0 /\ old # 0 /\ pc[p] = "remove" /\ (Disk(s).type = "DIR" => Disk(s).ents = NoEntries)
  <2>1. ASSUME dino[is].type = "DIR", NEW q \in Proc \ {p}
        PROVE  /\ call[q].ip # 0 => it[call[q].ip].inum # is
               /\ pc[q] = "fresh" => it[call[q].dp].inum # is
    <3>1. ASSUME call[q].ip # 0, it[call[q].ip].inum = is PROVE FALSE
      <4>1. call[q].ip \in Slots
        BY <3>1 DEF IInv, Types, Call1
      <4>2. it[call[q].ip].ref > 0
        BY <4>1, RefsNow DEF Uses, Keeps, IInv
      <4>3. call[q].ip = s
        BY <1>1, <1>3, <1>4, <3>1, <4>1, <4>2 DEF IInv, Table, Sound
      <4> QED BY <1>1, <1>4, <1>11, <2>1, <4>3, Numbers DEF Attached, Reached, Disk
    <3>2. ASSUME pc[q] = "fresh", it[call[q].dp].inum = is PROVE FALSE
      <4>1. call[q].dp \in Slots
        BY <3>2, AtRest, Numbers DEF IInv, Place, Places
      <4>2. it[call[q].dp].ref > 0
        BY <4>1, RefsNow DEF Uses, Keeps, IInv
      <4>3. call[q].dp = s
        BY <1>1, <1>3, <1>4, <3>2, <4>1, <4>2 DEF IInv, Table, Sound
      <4>4. lock[s] = q
        BY <1>1, <3>2, <4>3 DEF IInv, Locked, HasLock
      <4> QED BY <1>1, <4>4, InodeConstants
    <3> QED BY <3>1, <3>2
  <2>2. old = is
    BY <1>1, <1>4, <1>11
  <2>3. dino[is].type = "DIR" => dino[is].ents = NoEntries
    BY <1>4, <1>11 DEF Disk
  <2>4. dino[id].ents[n] = old
    BY <1>1, <1>4 DEF Disk
  <2>5. Ties(p, id, is, n, i, old)
    BY <1>1, <1>6, <1>7, <1>10, <1>11, <2>1, <2>2, <2>3, <2>4 DEF Ties
  <2> QED BY <1>4, <2>5
<1>12. CASE i # 0 /\ old = 0 /\ pc[p] = "fresh" /\ Disk(s).nlink = 0
  <2>1. Reach(id)
    BY <1>1, <1>4, <1>12 DEF Attached, Reached
  <2>2. Links(is) = 0
    BY <1>4, <1>12 DEF Attached, Disk
  <2>3. is # ROOTINO /\ Entries(is) = {}
    BY <2>2, LinkSets
  <2>4. i = is
    BY <1>1, <1>4, <1>12
  <2>5. dino[id].ents[n] = old
    BY <1>1, <1>4 DEF Disk
  <2>6. Ties(p, id, is, n, i, old)
    BY <1>1, <1>6, <1>7, <1>10, <1>12, <2>1, <2>3, <2>4, <2>5 DEF Ties
  <2> QED BY <1>4, <2>6
<1> QED BY <1>11, <1>12

\* The end of sys_unlink.
LEMMA RemoveAttached ==
  ASSUME IInv, IInv', Attached, NEW p \in Proc, UnlinkRemove(p)
  PROVE  Attached'
<1>1. pc[p] = "remove"
  BY DEF UnlinkRemove, Locks
<1>2. PICK s, d : \/ GiveUp(p, s, d)
                  \/ \E k, l, n, i, old, ss, F :
                        /\ DirEdit(p, s, d, k, l, n, i, old, ss, F) /\ i = 0 /\ old # 0
                        /\ Disk(s).type = "DIR" => Disk(s).ents = NoEntries
  BY RemoveIs
<1>3. CASE GiveUp(p, s, d)
  BY <1>3, GivesUpIdle, IdleStep
<1>4. ASSUME NEW k, NEW l, NEW n, NEW i, NEW old, NEW ss, NEW F,
             DirEdit(p, s, d, k, l, n, i, old, ss, F), i = 0, old # 0,
             Disk(s).type = "DIR" => Disk(s).ents = NoEntries
      PROVE  Attached'
  <2>1. Ties(p, it[d].inum, it[s].inum, n, i, old)
    BY <1>1, <1>4, EditTies
  <2> QED BY <2>1, TiesStep
<1> QED BY <1>2, <1>3, <1>4

\* The rest of create.
LEMMA FreshAttached ==
  ASSUME IInv, IInv', Attached, NEW p \in Proc, CreateFresh(p)
  PROVE  Attached'
<1>1. PICK s, d : \/ GiveUp(p, s, d)
                  \/ \E k, l, n, i, old, ss, F :
                        /\ DirEdit(p, s, d, k, l, n, i, old, ss, F) /\ i # 0 /\ old = 0
                        /\ pc[p] = "fresh" /\ Disk(s).nlink = 0
  BY FreshIs
<1>2. CASE GiveUp(p, s, d)
  BY <1>2, GivesUpIdle, IdleStep
<1>3. ASSUME NEW k, NEW l, NEW n, NEW i, NEW old, NEW ss, NEW F,
             DirEdit(p, s, d, k, l, n, i, old, ss, F), i # 0, old = 0,
             pc[p] = "fresh", Disk(s).nlink = 0
      PROVE  Attached'
  <2>1. Ties(p, it[d].inum, it[s].inum, n, i, old)
    BY <1>3, EditTies
  <2> QED BY <2>1, TiesStep
<1> QED BY <1>1, <1>2, <1>3

-----------------------------------------------------------------------------
(* The invariant of exact links. *)

\* The root directory has its one link.
LEMMA AttachedFirst == Init => Attached
<1> SUFFICES ASSUME Init PROVE Attached
  OBVIOUS
<1>1. \A i \in Inums : dino[i].ents = NoEntries /\ dino[i].nlink = IsRoot(i)
  BY DEF Init, FreeInode, IsRoot
<1>2. \A i \in Inums, n \in Names : dino[i].ents[n] = 0
  BY <1>1 DEF NoEntries
<1>3. \A p \in Proc : call[p] = NoCall /\ pc[p] = "user"
  BY DEF Init
<1>4. \A i \in Inums : Entries(i) = {}
  BY <1>2, Numbers DEF Entries
<1>5. \A i \in Inums : SubDirs(i) = {} /\ Promised(i) = {}
  BY <1>2, <1>3, NonePut DEF SubDirs, Promised
<1>6. \A i \in Inums : Links(i) = IsRoot(i)
  BY <1>4, <1>5, FS_EmptySet DEF Links, IsRoot
<1>7. \A p \in Proc : Reached(p)
  BY <1>3, NonePut DEF Reached
<1> QED BY <1>1, <1>4, <1>6, <1>7, Numbers DEF Attached

\* A step that changes nothing.
LEMMA AttachedStutters == ASSUME Attached, UNCHANGED vars PROVE Attached'
BY DEF vars, disk, Attached, Reached, Reach, Entries, Links, SubDirs, Promised, Disk

\* Every step keeps the links exact.
LEMMA AttachedSteps == ASSUME IInv, IInv', ~RmdirBusy, Attached, Next PROVE Attached'
<1>1. PICK p \in Proc : User(p) \/ Kernel(p)
  BY DEF Next
<1>2. CASE \E c \in Calls : Begin(p, c)
  BY <1>2, BeginTakes, TakesStep
<1>3. CASE \E s \in Slots : Write(p, s) \/ Truncate(p, s) \/ Close(p, s)
  BY <1>3, WriteIdle, CloseIdle, IdleStep
<1>4. CASE Walk(p) \/ Open(p)
  BY <1>4, WalkAttached, OpenIdle, IdleStep
<1>5. CASE Iput(p)
  BY <1>5, IputAttached
<1>6. CASE IputInvalid(p)
  BY <1>6, InvalidIdle, IdleStep
<1>7. CASE IputDrop(p)
  BY <1>7, DroppedIdle, IdleStep DEF IputDrop, disk
<1>8. CASE (\E op \in {"create", "mkdir"} : Create(p, op)) \/ CreateFound(p) \/ CreateFresh(p)
  BY <1>8, CreateAttached, CreateFoundIdle, IdleStep, FreshAttached
<1>9. CASE Unlink(p) \/ UnlinkRemove(p)
  BY <1>9, UnlinkAttached, RemoveAttached
<1>10. CASE Link(p) \/ LinkName(p) \/ LinkBad(p)
  BY <1>10, LinkAttached, LinkNameAttached, LinkBadAttached
<1> QED BY <1>1, <1>2, <1>3, <1>4, <1>5, <1>6, <1>7, <1>8, <1>9, <1>10 DEF User, Kernel

\* Links are counted exactly in every state, if no directory is removed that
\* another path lookup is on.
THEOREM ExactLinks == ~MayFill /\ ~RmdirBusy => (Spec => []Attached)
<1> SUFFICES ASSUME ~MayFill, ~RmdirBusy PROVE Spec => []Attached
  OBVIOUS
<1>1. IInv /\ IInv' /\ Attached /\ [Next]_vars => Attached'
  BY AttachedStutters, AttachedSteps
<1>2. Spec => []IInv
  BY Inductive
<1> QED BY <1>1, <1>2, AttachedFirst, PTL DEF Spec

\* The two invariants say what NothingLost does: a free inode has no link, so it
\* has no name, and an open file is neither free nor about to be freed.
LEMMA Lost == ASSUME IInv, Attached PROVE NothingLost
<1>1. ASSUME NEW i \in Inums
      PROVE  /\ dino[i].nlink = Cardinality(Entries(i)) + Cardinality(SubDirs(i))
                  + Cardinality(Promised(i)) + (IF i = ROOTINO THEN 1 ELSE 0)
             /\ dino[i].type = "NONE" => Entries(i) = {} /\ dino[i].addrs = {}
  <2>1. dino[i].nlink = Links(i)
    BY DEF Attached
  <2>2. ASSUME dino[i].type = "NONE" PROVE Entries(i) = {} /\ dino[i].addrs = {}
    <3>1. dino[i].nlink = 0 /\ dino[i].addrs = {}
      BY <2>2 DEF IInv, Free, FreeInode
    <3>2. Links(i) = 0
      BY <2>1, <3>1
    <3>3. Entries(i) = {}
      BY <3>2, LinkSets
    <3> QED BY <3>1, <3>3
  <2> QED BY <2>1, <2>2 DEF Links, IsRoot
<1>2. ASSUME NEW p \in Proc, NEW s \in fds[p] PROVE it[s].valid /\ it[s].type # "NONE"
  <2>1. s \in Slots
    BY DEF IInv, Types
  <2>2. it[s].valid
    BY DEF IInv, Holding, Held
  <2>3. Uses(p, s)
    BY DEF Uses, Keeps
  <2>4. s \notin Freed
    <3> SUFFICES ASSUME NEW q \in Proc, pc[q] = "invalid", Head(todo[q]) = s PROVE FALSE
      BY DEF Freed
    <3>1. Freeing(q)
      BY DEF IInv, Holding, Held
    <3>2. p # q
      BY <3>1 DEF Freeing, Keeps
    <3>3. pc[p] = "fresh" /\ call[p].ip = s
      BY <2>3, <3>1, <3>2 DEF Freeing
    <3> QED BY <3>3 DEF IInv, Holding, Held, Making
  <2> QED BY <2>1, <2>2, <2>4 DEF IInv, Table, Sound, Copy
<1> QED BY <1>1, <1>2 DEF NothingLost, IInv, Space

\* Nothing is lost and nothing is used after it is freed: NothingLost.
THEOREM NoInodeLost == ~MayFill /\ ~RmdirBusy => (Spec => []NothingLost)
<1>1. IInv /\ Attached => NothingLost
  BY Lost
<1> SUFFICES ASSUME ~MayFill, ~RmdirBusy PROVE Spec => []NothingLost
  OBVIOUS
<1>2. Spec => []IInv
  BY Inductive
<1>3. Spec => []Attached
  BY ExactLinks
<1> QED BY <1>1, <1>2, <1>3, PTL
=============================================================================
