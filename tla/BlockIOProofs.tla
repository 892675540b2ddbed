---------------------------- MODULE BlockIOProofs ----------------------------
(***************************************************************************)
(* Proofs about BlockIO, for any number of processes, buffers, blocks and  *)
(* descriptors, and for ring indices that wrap anywhere.                   *)
(*                                                                         *)
(* CacheCoherent and SleeperHasReason are not inductive.  That a sleeper's *)
(* request is still on its way needs that requests, their descriptors and  *)
(* the waiting holders match one to one (Asked), that a request is at one  *)
(* place only (Placed), and that a ring's entries are the ones between its *)
(* two indices (Rings).  A ring cannot overflow: each request takes more   *)
(* than one descriptor, so there are fewer requests than entries.          *)
(***************************************************************************)
EXTENDS BlockIO, FiniteSetTheorems, FunctionTheorems, TLAPS

\* Who has the lock of its buffer.
Holding == {"alloc", "wait", "held"}

Buffer == [block : Blocks \cup {Nobody}, valid : BOOLEAN, refcnt : Nat,
           disk : BOOLEAN, data : Vals]
Types ==
    /\ buf \in [Bufs -> Buffer]
    /\ lock \in [Bufs -> Proc \cup {Nobody}]
    /\ lru \in [Bufs -> Bufs]
    /\ pinned \subseteq Blocks
    /\ pc \in [Proc -> {"idle", "lock", "drop"} \cup Holding]
    /\ at \in [Proc -> Bufs]
    /\ op \in [Proc -> {"read", "write"}]
    /\ asleep \in [Proc -> BOOLEAN]
    /\ free \subseteq Desc
    /\ req \in [Desc -> Request \cup {Nobody}]
    /\ avail \in [ring : [Desc -> Desc \cup {Nobody}], idx : 0 .. WRAP - 1]
    /\ used \in [ring : [Desc -> Desc \cup {Nobody}], idx : 0 .. WRAP - 1]
    /\ dev \in [idx : 0 .. WRAP - 1, works : SUBSET Desc]
    /\ used_idx \in 0 .. WRAP - 1
    /\ isr \in BOOLEAN /\ intr \in BOOLEAN
    /\ disk \in [Blocks -> Vals]
    /\ panicked \in BOOLEAN

\* Uses and pins are counted, and every buffer is in the list.
Pins(b) == IF buf[b].block \in pinned THEN 1 ELSE 0
Counted ==
    /\ \A b, c \in Bufs : buf[b].block = buf[c].block /\ buf[b].block # Nobody => b = c
    /\ \A b \in Bufs : buf[b].refcnt = Cardinality(Using(b)) + Pins(b)
    /\ \A k \in pinned : \E b \in Bufs : buf[b].block = k
    /\ \A p \in Proc : pc[p] # "idle" => buf[at[p]].block # Nobody
    /\ \A b \in Bufs : \E i \in Bufs : lru[i] = b

\* A lock and the place of its holder agree.
Locked ==
    /\ \A b \in Bufs : lock[b] # Nobody => at[lock[b]] = b /\ pc[lock[b]] \in Holding
    /\ \A p \in Proc : pc[p] \in Holding => lock[at[p]] = p
    /\ \A p \in Proc : op[p] = "write" => pc[p] \in {"alloc", "wait"}

\* A request is made by the process that waits for it, and its descriptors are
\* nobody else's.
Asked ==
    /\ \A h \in Desc : req[h] # Nobody =>
          /\ h \in req[h].chain /\ req[h].chain # {h}
          /\ req[h].chain \cap free = {}
          /\ lock[req[h].buf] # Nobody
          /\ pc[lock[req[h].buf]] = "wait"
          /\ op[lock[req[h].buf]] = req[h].op
          /\ buf[req[h].buf].block = req[h].block
          /\ ~buf[req[h].buf].disk => req[h].ok
    /\ \A g, h \in Desc : g # h /\ req[g] # Nobody /\ req[h] # Nobody =>
          req[g].chain \cap req[h].chain = {} /\ req[g].buf # req[h].buf
    /\ \A p \in Proc : pc[p] = "wait" =>
          \E h \in Desc : req[h] # Nobody /\ req[h].buf = at[p]
    /\ \A b \in Bufs : buf[b].disk => \E h \in Desc : req[h] # Nobody /\ req[h].buf = b

\* A request whose buffer the disk owns is at one place: the available ring, the
\* device or the used ring.
Pending(h) == h \in Desc /\ req[h] # Nobody /\ buf[req[h].buf].disk
Distinct(r) == \A i, j \in Desc : r[i] = r[j] /\ r[i] # Nobody => i = j
Placed ==
    /\ Distinct(avail.ring) /\ Distinct(used.ring)
    /\ \A i \in Desc : avail.ring[i] # Nobody =>
          /\ Pending(avail.ring[i]) /\ ~req[avail.ring[i]].ok
          /\ avail.ring[i] \notin dev.works
    /\ \A h \in dev.works : Pending(h) /\ ~req[h].ok
    /\ \A i \in Desc : used.ring[i] # Nobody =>
          Pending(used.ring[i]) /\ req[used.ring[i]].ok
    /\ \A h \in Desc : Pending(h) =>
          \/ h \in dev.works
          \/ \E i \in Desc : avail.ring[i] = h
          \/ \E i \in Desc : used.ring[i] = h

\* The entries of a ring are those from index lo up to index hi, which count
\* modulo WRAP; there is always room.
Gap(x, y, n) == IF x <= y THEN y - x ELSE y - x + n
Window(r, lo, hi) ==
    /\ Gap(lo, hi, WRAP) < NUM
    /\ \A i \in Desc : r[i] # Nobody <=> Gap(lo % NUM, i, NUM) < Gap(lo, hi, WRAP)
Rings ==
    /\ Window(avail.ring, dev.idx, avail.idx)
    /\ Window(used.ring, used_idx, used.idx)
    /\ used_idx # used.idx => isr \/ intr

Sleepers ==
    \A p \in Proc : asleep[p] =>
        \/ pc[p] = "lock"  /\ lock[at[p]] # Nobody
        \/ pc[p] = "alloc" /\ Cardinality(free) < 3
        \/ pc[p] = "wait"  /\ buf[at[p]].disk

Calm == panicked => MayRunOut

IInv == Types /\ Counted /\ Locked /\ Asked /\ Placed /\ Rings /\ Sleepers /\ Calm

-----------------------------------------------------------------------------
(* Ring indices. *)

\* A number has one remainder.
LEMMA Division ==
  ASSUME NEW n \in Nat \ {0}, NEW q \in Int, NEW r \in 0 .. n - 1,
         NEW s \in Int, NEW t \in 0 .. n - 1, n * q + r = n * s + t
  PROVE  r = t
<1>1. CASE q = s
  BY <1>1
<1>2. CASE q > s
  <2>1. n * q >= n * (s + 1)
    BY <1>2
  <2> QED BY <2>1
<1>3. CASE q < s
  <2>1. n * s >= n * (q + 1)
    BY <1>3
  <2> QED BY <2>1
<1> QED BY <1>1, <1>2, <1>3

\* The remainder of a number that is written as a multiple and a rest.
LEMMA Remainder ==
  ASSUME NEW n \in Nat \ {0}, NEW q \in Int, NEW r \in 0 .. n - 1
  PROVE  (n * q + r) % n = r
<1> DEFINE x == n * q + r
<1>1. x \in Int
  OBVIOUS
<1>2. /\ x = n * (x \div n) + (x % n)
      /\ x % n \in 0 .. n - 1 /\ x \div n \in Int
  BY <1>1
<1> QED BY <1>2, Division

\* Where index i of the ring is g entries further on.
Turn(i, g) == IF i + g < NUM THEN i + g ELSE i + g - NUM

\* Going g entries on in the index goes g entries round the ring.
LEMMA ForwardIndex ==
  ASSUME NEW x \in Nat, NEW g \in 0 .. NUM
  PROVE  (x + g) % NUM = Turn(x % NUM, g)
<1> DEFINE q == x \div NUM  r == x % NUM
<1>1. q \in Int /\ r \in 0 .. NUM - 1 /\ x = NUM * q + r
  BY BlockIOConstants
<1> HIDE DEF q, r
<1>2. CASE r + g < NUM
  <2>1. x + g = NUM * q + (r + g) /\ r + g \in 0 .. NUM - 1
    BY <1>1, <1>2, BlockIOConstants
  <2> QED BY <2>1, <1>1, <1>2, Remainder, BlockIOConstants DEF Turn, r
<1>3. CASE r + g >= NUM
  <2>1. x + g = NUM * (q + 1) + (r + g - NUM) /\ r + g - NUM \in 0 .. NUM - 1
    BY <1>1, <1>3, BlockIOConstants
  <2>2. (NUM * (q + 1) + (r + g - NUM)) % NUM = r + g - NUM
    <3>1. q + 1 \in Int
      BY <1>1
    <3> HIDE DEF Turn
    <3> QED BY <3>1, <2>1, Remainder, BlockIOConstants
  <2>3. (x + g) % NUM = r + g - NUM
    BY <2>1, <2>2
  <2>4. Turn(r, g) = r + g - NUM
    BY <1>1, <1>3, BlockIOConstants DEF Turn
  <2> QED BY <2>3, <2>4 DEF r
<1> QED BY <1>1, <1>2, <1>3, BlockIOConstants

\* The rings fit the indices: WRAP is a multiple of NUM.
LEMMA WrappedIndex ==
  ASSUME NEW x \in Nat
  PROVE  (x + WRAP) % NUM = x % NUM
<1> DEFINE q == x \div NUM  r == x % NUM  w == WRAP \div NUM
<1>1. q \in Int /\ r \in 0 .. NUM - 1 /\ x = NUM * q + r
  BY BlockIOConstants
<1>2. w \in Int /\ WRAP = NUM * w
  BY BlockIOConstants
<1> HIDE DEF q, r, w
<1>3. x + WRAP = NUM * (q + w) + r
  BY <1>1, <1>2, BlockIOConstants
<1>4. (NUM * (q + w) + r) % NUM = r
  <2>1. q + w \in Int
    BY <1>1, <1>2
  <2> QED BY <2>1, <1>1, BlockIOConstants
<1> QED BY <1>3, <1>4 DEF r

Index == 0 .. WRAP - 1
After(x) == (x + 1) % WRAP

\* An index plus one stays an index, and is the next place of the ring.
LEMMA NextIndex ==
  ASSUME NEW x \in Index
  PROVE  /\ x % NUM \in Desc
         /\ After(x) = (IF x = WRAP - 1 THEN 0 ELSE x + 1)
         /\ After(x) \in Index
         /\ After(x) % NUM = Turn(x % NUM, 1)
<1>1. x \in Nat /\ x < WRAP /\ WRAP \in Nat \ {0} /\ NUM \in Nat \ {0}
  BY BlockIOConstants DEF Index
<1>2. x % NUM \in Desc
  BY <1>1 DEF Desc
<1>3. CASE x = WRAP - 1
  <2>1. x + 1 = WRAP * 1 + 0 /\ After(x) = 0
    BY <1>1, <1>3 DEF After
  <2>2. (0 + WRAP) % NUM = 0 % NUM /\ 0 % NUM = 0
    <3> QED BY <1>1, WrappedIndex
  <2>3. (x + 1) % NUM = Turn(x % NUM, 1)
    BY <1>1, ForwardIndex
  <2> QED BY <2>1, <2>2, <2>3, <1>1, <1>2 DEF Index
<1>4. CASE x < WRAP - 1
  <2>1. After(x) = x + 1
    <3>1. WRAP * 0 + (x + 1) = x + 1 /\ x + 1 \in 0 .. WRAP - 1
      BY <1>1, <1>4
    <3> QED BY <3>1, <1>1 DEF After
  <2>2. (x + 1) % NUM = Turn(x % NUM, 1)
    BY <1>1, ForwardIndex
  <2> QED BY <2>1, <2>2, <1>1, <1>2, <1>4 DEF Index
<1> QED BY <1>1, <1>3, <1>4

\* Where a window of fewer than NUM entries ends in the ring.
LEMMA LastIndex ==
  ASSUME NEW lo \in Index, NEW hi \in Index, Gap(lo, hi, WRAP) < NUM
  PROVE  /\ Gap(lo, hi, WRAP) \in Nat
         /\ hi % NUM = Turn(lo % NUM, Gap(lo, hi, WRAP))
<1> DEFINE g == Gap(lo, hi, WRAP)
<1>1. /\ lo \in Nat /\ hi \in Nat /\ lo < WRAP /\ hi < WRAP
      /\ WRAP \in Nat \ {0} /\ NUM \in Nat \ {0}
  BY BlockIOConstants DEF Index
<1>2. g \in 0 .. NUM
  BY <1>1 DEF Gap
<1>3. (lo + g) % NUM = Turn(lo % NUM, g)
  BY <1>1, <1>2, ForwardIndex
<1>4. CASE lo <= hi
  <2>1. lo + g = hi
    BY <1>1, <1>4 DEF Gap
  <2> QED BY <2>1, <1>2, <1>3
<1>5. CASE hi < lo
  <2>1. lo + g = hi + WRAP
    BY <1>1, <1>5 DEF Gap
  <2>2. (hi + WRAP) % NUM = hi % NUM
    BY <1>1, WrappedIndex
  <2> QED BY <2>1, <2>2, <1>2, <1>3
<1> QED BY <1>1, <1>4, <1>5

Ring == [Desc -> Desc \cup {Nobody}]

\* The producer adds an entry ...
LEMMA Pushed ==
  ASSUME NEW r \in Ring, NEW lo \in Index, NEW hi \in Index, NEW h \in Desc,
         Window(r, lo, hi)
  PROVE  /\ hi % NUM \in Desc /\ r[hi % NUM] = Nobody
         /\ (\E i \in Desc : [r EXCEPT ![hi % NUM] = h][i] = Nobody)
               => Window([r EXCEPT ![hi % NUM] = h], lo, After(hi))
<1> DEFINE l == lo % NUM  m == hi % NUM  g == Gap(lo, hi, WRAP)
           s == [r EXCEPT ![m] = h]
<1>1. /\ l \in Desc /\ m \in Desc /\ g \in Nat /\ g < NUM /\ m = Turn(l, g)
      /\ NUM \in Nat \ {0} /\ WRAP \in Nat /\ WRAP >= NUM /\ Nobody \notin Desc
  BY NextIndex, LastIndex, BlockIOConstants DEF Window
<1>2. Gap(lo, After(hi), WRAP) = (IF g + 1 = WRAP THEN 0 ELSE g + 1)
  BY <1>1, NextIndex DEF Gap, Index
<1>3. \A i \in Desc : r[i] # Nobody <=> Gap(l, i, NUM) < g
  BY DEF Window
<1> HIDE DEF l, m, g
<1>4. Gap(l, m, NUM) = g
  BY <1>1 DEF Gap, Turn
<1>5. r[m] = Nobody
  BY <1>1, <1>3, <1>4
<1>6. \A i \in Desc : s[i] # Nobody <=> Gap(l, i, NUM) < g + 1
  <2> TAKE i \in Desc
  <2>1. Gap(l, i, NUM) \in Nat /\ Gap(l, i, NUM) < NUM
    BY <1>1 DEF Gap, Desc
  <2>2. Gap(l, i, NUM) = Gap(l, m, NUM) => i = m
    BY <1>1 DEF Gap, Desc
  <2>3. CASE i = m
    BY <2>3, <1>1, <1>4 DEF Ring
  <2>4. CASE i # m
    BY <2>1, <2>2, <1>1, <1>3, <1>4 DEF Ring
  <2> QED BY <2>3, <2>4
<1>7. ASSUME NEW i \in Desc, s[i] = Nobody PROVE Window(s, lo, After(hi))
  <2>1. Gap(l, i, NUM) \in Nat /\ Gap(l, i, NUM) < NUM
    BY <1>1 DEF Gap, Desc
  <2>2. g + 1 < NUM
    BY <2>1, <1>1, <1>6, <1>7
  <2>3. Gap(lo, After(hi), WRAP) = g + 1
    BY <2>2, <1>1, <1>2
  <2> QED BY <2>2, <2>3, <1>6 DEF Window, l
<1> QED BY <1>1, <1>5, <1>7 DEF m

\* ... and the consumer takes one.
LEMMA Popped ==
  ASSUME NEW r \in Ring, NEW lo \in Index, NEW hi \in Index, lo # hi,
         Window(r, lo, hi)
  PROVE  /\ lo % NUM \in Desc /\ r[lo % NUM] \in Desc
         /\ Window([r EXCEPT ![lo % NUM] = Nobody], After(lo), hi)
<1> DEFINE l == lo % NUM  g == Gap(lo, hi, WRAP)  k == After(lo) % NUM
           s == [r EXCEPT ![l] = Nobody]
<1>1. /\ l \in Desc /\ g \in Nat /\ g < NUM /\ k = Turn(l, 1)
      /\ NUM \in Nat \ {0} /\ WRAP \in Nat /\ WRAP >= NUM /\ Nobody \notin Desc
  BY NextIndex, LastIndex, BlockIOConstants DEF Window
<1>2. Gap(After(lo), hi, WRAP) = g - 1 /\ g > 0
  BY <1>1, NextIndex DEF Gap, Index
<1>3. \A i \in Desc : r[i] # Nobody <=> Gap(l, i, NUM) < g
  BY DEF Window
<1> HIDE DEF l, k, g
<1>4. Gap(l, l, NUM) = 0
  BY <1>1 DEF Gap, Desc
<1>5. r[l] \in Desc
  BY <1>1, <1>2, <1>3, <1>4 DEF Ring
<1>6. \A i \in Desc : s[i] # Nobody <=> Gap(k, i, NUM) < g - 1
  <2> TAKE i \in Desc
  <2>1. CASE i = l
    <3>1. Gap(k, i, NUM) = NUM - 1
      BY <2>1, <1>1 DEF Gap, Desc, Turn
    <3> QED BY <3>1, <2>1, <1>1 DEF Ring
  <2>2. CASE i # l
    <3>1. Gap(k, i, NUM) = Gap(l, i, NUM) - 1 /\ Gap(l, i, NUM) \in Nat
      BY <2>2, <1>1 DEF Gap, Desc, Turn
    <3> QED BY <3>1, <2>2, <1>1, <1>3
  <2> QED BY <2>1, <2>2
<1> QED BY <1>1, <1>2, <1>5, <1>6 DEF Window, l, k

\* Equal indices mean an empty ring.
LEMMA NoEntries ==
  ASSUME NEW r \in Ring, NEW lo \in Index, Window(r, lo, lo), NEW i \in Desc
  PROVE  r[i] = Nobody
<1>1. lo % NUM \in Desc
  BY NextIndex
<1>2. Gap(lo % NUM, i, NUM) >= 0 /\ Gap(lo, lo, WRAP) = 0
  BY BlockIOConstants DEF Gap, Desc, Index
<1>3. Gap(lo % NUM, i, NUM) \in Int
  BY <1>1, BlockIOConstants DEF Gap, Desc
<1> QED BY <1>2, <1>3 DEF Window

-----------------------------------------------------------------------------
(* What the operators of the model return. *)

\* Users are counted by a natural number.
LEMMA FiniteUsers ==
  ASSUME NEW S \in SUBSET Proc
  PROVE  IsFiniteSet(S) /\ Cardinality(S) \in Nat
BY FS_Subset, FS_CardinalityType, BlockIOConstants

\* A non-empty set of numbers has a least one.
LEMMA Smallest ==
  ASSUME NEW T \in SUBSET Nat, T # {}
  PROVE  \E x \in T : \A y \in T : x <= y
<1>1. \E x \in T : \A y \in T : ~(<<y, x>> \in OpToRel(<, Nat))
  BY NatLessThanWellFounded, WFMin
<1>2. PICK x \in T : \A y \in T : ~(<<y, x>> \in OpToRel(<, Nat))
  BY <1>1
<1>3. ASSUME NEW y \in T PROVE x <= y
  <2>1. ~(y < x)
    BY <1>2 DEF OpToRel
  <2> QED BY <2>1
<1> QED BY <1>3

\* A non-empty set of places in the list has a last one.
LEMMA Largest ==
  ASSUME NEW T \in SUBSET Bufs, T # {}
  PROVE  \E i \in T : \A j \in T : j <= i
<1> DEFINE S == {n \in Nat : \E i \in T : n = NBUF - i}
<1>1. S # {}
  <2>1. PICK i \in T : TRUE
    OBVIOUS
  <2>2. NBUF - i \in Nat
    BY BlockIOConstants DEF Bufs
  <2> QED BY <2>2
<1>2. PICK x \in S : \A y \in S : x <= y
  BY <1>1, Smallest
<1>3. PICK i \in T : x = NBUF - i
  OBVIOUS
<1>4. ASSUME NEW j \in T PROVE j <= i
  <2>1. NBUF - j \in S
    BY BlockIOConstants DEF Bufs
  <2>2. x <= NBUF - j
    BY <2>1, <1>2
  <2>3. i \in Int /\ j \in Int
    BY DEF Bufs
  <2> QED BY <2>2, <2>3, <1>3, BlockIOConstants
<1> QED BY <1>4

\* bget recycles a buffer that nobody uses, if there is one.
LEMMA RecycledIsUnused ==
  ASSUME Types, Unused # {}
  PROVE  Recyclable \in Bufs /\ buf[Recyclable].refcnt = 0
<1>1. Unused \in SUBSET Bufs
  BY DEF Unused
<1>2. \E i \in Unused : \A j \in Unused : j <= i
  BY <1>1, Largest
<1> DEFINE i == CHOOSE i \in Unused : \A j \in Unused : j <= i
<1>3. i \in Unused
  BY <1>2
<1> QED BY <1>3 DEF Recyclable, Unused, Types

\* brelse loses no buffer from the list.
LEMMA AtHeadIsList ==
  ASSUME Types, Counted, NEW b \in Bufs
  PROVE  /\ AtHead(b) \in [Bufs -> Bufs]
         /\ \A c \in Bufs : \E i \in Bufs : AtHead(b)[i] = c
<1> DEFINE place == CHOOSE i \in Bufs : lru[i] = b
<1>1. place \in Bufs /\ lru[place] = b
  BY DEF Counted
<1>2. lru \in [Bufs -> Bufs] /\ NBUF \in Nat
  BY BlockIOConstants DEF Types
<1>3. AtHead(b) = [i \in Bufs |-> IF i = 1 THEN b
                                ELSE IF i <= place THEN lru[i - 1] ELSE lru[i]]
  BY DEF AtHead
<1> HIDE DEF place
<1>4. AtHead(b) \in [Bufs -> Bufs]
  <2>1. ASSUME NEW i \in Bufs, i # 1 PROVE i - 1 \in Bufs
    BY <2>1, <1>2 DEF Bufs
  <2> QED BY <2>1, <1>2, <1>3
<1>5. ASSUME NEW c \in Bufs PROVE \E i \in Bufs : AtHead(b)[i] = c
  <2>1. CASE c = b
    <3>1. 1 \in Bufs
      BY <1>2 DEF Bufs
    <3> QED BY <3>1, <2>1, <1>3
  <2>2. CASE c # b
    <3>1. PICK j \in Bufs : lru[j] = c
      BY DEF Counted
    <3>2. CASE j < place
      <4>1. j + 1 \in Bufs /\ j + 1 # 1 /\ j + 1 <= place /\ (j + 1) - 1 = j
        BY <3>2, <1>1, <1>2 DEF Bufs
      <4> QED BY <4>1, <3>1, <1>3
    <3>3. CASE j > place
      <4>1. j # 1 /\ ~(j <= place)
        BY <3>3, <1>1 DEF Bufs
      <4> QED BY <4>1, <3>1, <1>3
    <3> QED BY <3>1, <3>2, <3>3, <2>2, <1>1 DEF Bufs
  <2> QED BY <2>1, <2>2
<1> QED BY <1>4, <1>5

\* alloc3_desc takes free descriptors, and more than one.
LEMMA DescriptorsTaken ==
  ASSUME NEW F \in SUBSET Desc, ~(Cardinality(F) < 3)
  PROVE  /\ Lowest(3, F) \subseteq F
         /\ First(Lowest(3, F)) \in Lowest(3, F)
         /\ Lowest(3, F) # {First(Lowest(3, F))}
<1> DEFINE D == Lowest(3, F)
<1>1. F \in SUBSET Nat /\ IsFiniteSet(F) /\ Cardinality(F) \in Nat
  <2>1. IsFiniteSet(Desc) /\ Desc \in SUBSET Nat
    BY FS_Interval, BlockIOConstants DEF Desc
  <2> QED BY <2>1, FS_Subset, FS_CardinalityType
<1>2. F # {}
  BY FS_EmptySet
<1>3. PICK m \in F : \A y \in F : m <= y
  BY <1>1, <1>2, Smallest
<1>4. F \ {m} # {}
  BY <1>1, FS_RemoveElement, FS_EmptySet
<1>5. PICK n \in F \ {m} : \A y \in F \ {m} : n <= y
  <2>1. F \ {m} \in SUBSET Nat
    BY <1>1
  <2> QED BY <2>1, <1>4, Smallest
<1>6. {e \in F : e < m} = {}
  <2>1. ASSUME NEW e \in F PROVE ~(e < m)
    BY <1>1, <1>3
  <2> QED BY <2>1
<1>7. {e \in F : e < n} = {m}
  <2>1. ASSUME NEW e \in F, e < n PROVE e = m
    BY <2>1, <1>1, <1>5
  <2>2. m < n
    BY <1>1, <1>3
  <2> QED BY <2>1, <2>2
<1>8. m \in D /\ n \in D /\ m # n
  BY <1>6, <1>7, FS_EmptySet, FS_Singleton DEF Lowest
<1>9. D \subseteq F
  BY DEF Lowest
<1>10. \E d \in D : \A e \in D : d <= e
  BY <1>8, <1>9, <1>1, Smallest
<1>11. First(D) \in D
  BY <1>10 DEF First
<1> QED BY <1>8, <1>9, <1>11

\* A ring always has room for one more, since a request has several descriptors
\* and takes one entry.
LEMMA RingHasRoom ==
  ASSUME NEW r \in Ring, Distinct(r), NEW q \in [Desc -> Request \cup {Nobody}],
         \A i \in Desc : r[i] # Nobody => q[r[i]] # Nobody,
         \A h \in Desc : q[h] # Nobody => h \in q[h].chain /\ q[h].chain # {h},
         \A g, h \in Desc : g # h /\ q[g] # Nobody /\ q[h] # Nobody =>
             q[g].chain \cap q[h].chain = {}
  PROVE  \E i \in Desc : r[i] = Nobody
<1> SUFFICES ASSUME \A i \in Desc : r[i] # Nobody PROVE FALSE
  OBVIOUS
<1>1. r \in Injection(Desc, Desc)
  BY Fun_IsInj DEF Ring, Distinct
<1>2. IsFiniteSet(Desc)
  BY FS_Interval, BlockIOConstants DEF Desc
<1>3. r \in Surjection(Desc, Desc)
  BY <1>1, <1>2, FS_Injection
<1>4. \A e \in Desc : \E j \in Desc : r[j] = e
  BY <1>3, Fun_SurjectionProperties
<1>5. \A e \in Desc : q[e] # Nobody
  BY <1>4
<1>6. 0 \in Desc
  BY BlockIOConstants DEF Desc
<1>7. PICK e \in q[0].chain : e # 0
  BY <1>5, <1>6
<1>8. e \in Desc
  BY <1>5, <1>6 DEF Request
<1> QED BY <1>5, <1>6, <1>7, <1>8

-----------------------------------------------------------------------------
(* Every action keeps the invariant. *)

\* A step that starts and ends no use leaves the users as they were.
LEMMA SameUsers ==
  ASSUME at' = at, \A q \in Proc : pc'[q] = "idle" <=> pc[q] = "idle"
  PROVE  \A c \in Bufs : Using(c)' = Using(c)
BY DEF Using

\* A step that touches no block, count, pin or use keeps Counted.
LEMMA SameCounts ==
  ASSUME Types, Counted, UNCHANGED <<lru, pinned>>,
         \A c \in Bufs : buf'[c].block = buf[c].block /\ buf'[c].refcnt = buf[c].refcnt,
         at' = at, \A q \in Proc : pc'[q] = "idle" <=> pc[q] = "idle"
  PROVE  Counted'
<1>1. \A c \in Bufs : Using(c)' = Using(c)
  BY SameUsers
<1>2. \A c \in Bufs : Pins(c)' = Pins(c)
  BY DEF Pins
<1>3. \A q \in Proc : pc'[q] # "idle" => buf'[at'[q]].block # Nobody
  BY DEF Counted, Types
<1> QED BY <1>1, <1>2, <1>3 DEF Counted

\* The fields of a request that is made.
LEMMA RequestFields ==
  ASSUME Types, NEW h \in Desc, req[h] # Nobody
  PROVE  /\ req[h] \in Request /\ req[h].buf \in Bufs /\ req[h].block \in Blocks
         /\ req[h].op \in {"read", "write"} /\ req[h].chain \in SUBSET Desc
         /\ req[h].ok \in BOOLEAN
BY DEF Types, Request

\* A step that leaves the waiting processes and their buffers alone keeps Asked.
LEMMA SameRequests ==
  ASSUME Types, Asked, UNCHANGED <<req, free>>,
         \A c \in Bufs : buf'[c].disk = buf[c].disk,
         \A c \in Bufs : lock[c] # Nobody /\ pc[lock[c]] = "wait" =>
             lock'[c] = lock[c] /\ buf'[c].block = buf[c].block,
         \A q \in Proc : pc[q] = "wait" =>
             pc'[q] = "wait" /\ op'[q] = op[q] /\ at'[q] = at[q],
         \A q \in Proc : pc'[q] = "wait" => pc[q] = "wait"
  PROVE  Asked'
<1>1. ASSUME NEW h \in Desc, req[h] # Nobody
      PROVE  /\ lock'[req[h].buf] = lock[req[h].buf]
             /\ lock[req[h].buf] # Nobody /\ pc'[lock[req[h].buf]] = "wait"
             /\ op'[lock[req[h].buf]] = req[h].op
             /\ buf'[req[h].buf].block = req[h].block
             /\ buf'[req[h].buf].disk = buf[req[h].buf].disk
  <2>1. /\ req[h].buf \in Bufs /\ lock[req[h].buf] # Nobody
        /\ pc[lock[req[h].buf]] = "wait" /\ op[lock[req[h].buf]] = req[h].op
        /\ buf[req[h].buf].block = req[h].block
    BY <1>1, RequestFields DEF Asked
  <2>2. lock[req[h].buf] \in Proc
    BY <2>1 DEF Types
  <2> QED BY <2>1, <2>2
<1> QED BY <1>1 DEF Asked

\* A step that moves no request and gives no buffer back keeps Placed.
LEMMA SamePlaces ==
  ASSUME Types, Placed, UNCHANGED <<req, avail, used, dev>>,
         \A c \in Bufs : buf'[c].disk = buf[c].disk
  PROVE  Placed'
<1>1. ASSUME NEW h PROVE Pending(h)' <=> Pending(h)
  BY RequestFields DEF Pending
<1> QED BY <1>1 DEF Placed

\* A panic changes nothing else, and comes only from bget out of buffers.
LEMMA PanicStep ==
  ASSUME IInv, Panic, MayRunOut
  PROVE  IInv'
<1>1. UNCHANGED <<buf, lock, lru, pinned, pc, at, op, asleep, free, req, avail, used,
                  dev, used_idx, isr, intr, disk>> /\ panicked' = TRUE
  BY DEF Panic, cache, ctl, ring
<1>2. Types'
  BY <1>1 DEF IInv, Types
<1>3. Counted'
  BY <1>1, SameCounts DEF IInv
<1>4. Locked' /\ Asked'
  BY <1>1 DEF IInv, Locked, Asked
<1>5. Placed' /\ Rings'
  BY <1>1 DEF IInv, Placed, Pending, Rings
<1>6. Sleepers' /\ Calm'
  BY <1>1 DEF IInv, Sleepers, Calm
<1> QED BY <1>2, <1>3, <1>4, <1>5, <1>6 DEF IInv

\* bget, with a hit, a recycled buffer, or none.
LEMMA BgetStep ==
  ASSUME IInv, NEW p \in Proc, NEW k \in Blocks, Bget(p, k)
  PROVE  IInv'
<1> DEFINE hit == Cached(k) # {}
<1>0. Types /\ Counted /\ Locked /\ Asked /\ Placed /\ Rings /\ Sleepers /\ Calm
  BY DEF IInv
<1>1. CASE ~hit /\ Unused = {}
  BY <1>1, PanicStep DEF Bget
<1>2. CASE hit \/ Unused # {}
  <2>0. PICK b \in Bufs : b = IF hit THEN CHOOSE c \in Cached(k) : TRUE ELSE Recyclable
    BY <1>0, <1>2, RecycledIsUnused DEF Cached
  <2>1. /\ pc[p] = "idle" /\ ~panicked
        /\ hit => buf[b].block = k
        /\ ~hit => buf[b].refcnt = 0 /\ \A c \in Bufs : buf[c].block # k
    BY <1>0, <1>2, <2>0, RecycledIsUnused DEF Bget, Cached
  <2>2. buf' = IF hit THEN [buf EXCEPT ![b].refcnt = @ + 1]
               ELSE [buf EXCEPT ![b].block = k, ![b].valid = FALSE, ![b].refcnt = 1]
    BY <1>2, <2>0 DEF Bget
  <2>3. /\ at' = [at EXCEPT ![p] = b]
        /\ pc' = [pc EXCEPT ![p] = "lock"]
        /\ UNCHANGED <<lock, lru, pinned, op, asleep, free, req, avail, used, dev,
                       used_idx, isr, intr, disk, panicked>>
    BY <1>2, <2>0 DEF Bget, ring
  <2> HIDE DEF hit
  <2>4. ~hit => Using(b) = {} /\ lock[b] = Nobody /\ Pins(b) = 0
    <3>1. Using(b) \in SUBSET Proc
      BY DEF Using
    <3>2. IsFiniteSet(Using(b)) /\ Cardinality(Using(b)) \in Nat
      BY <3>1, FiniteUsers
    <3>3. Pins(b) \in {0, 1} /\ buf[b].refcnt = Cardinality(Using(b)) + Pins(b)
      BY <1>0 DEF Counted, Pins
    <3>4. ~hit => Cardinality(Using(b)) = 0 /\ Pins(b) = 0
      BY <3>2, <3>3, <2>1
    <3>5. ~hit => Using(b) = {}
      BY <3>2, <3>4, FS_EmptySet
    <3>6. lock[b] # Nobody => lock[b] \in Using(b)
      BY <1>0 DEF Locked, Types, Using, Holding
    <3> QED BY <3>4, <3>5, <3>6
  <2>5. /\ p \notin Using(b) /\ Using(b)' = Using(b) \cup {p}
        /\ \A c \in Bufs : c # b => Using(c)' = Using(c)
    BY <1>0, <2>1, <2>3 DEF Types, Using
  <2>6. /\ Cardinality(Using(b)) \in Nat
        /\ Cardinality(Using(b)') = Cardinality(Using(b)) + 1
    <3>1. Using(b) \in SUBSET Proc
      BY DEF Using
    <3> QED BY <3>1, <2>5, FiniteUsers, FS_AddElement
  <2>8. /\ \A c \in Bufs : buf'[c].disk = buf[c].disk
        /\ \A c \in Bufs : c # b => buf'[c] = buf[c]
        /\ buf'[b].block = k
        /\ hit => buf'[b].refcnt = buf[b].refcnt + 1
        /\ ~hit => buf'[b].refcnt = 1
        /\ buf' \in [Bufs -> Buffer]
    <3>1. buf \in [Bufs -> Buffer] /\ buf[b] \in Buffer
      BY <1>0 DEF Types
    <3>2. CASE hit
      <4>1. buf' = [buf EXCEPT ![b].refcnt = @ + 1]
        BY <3>2, <2>2
      <4> QED BY <4>1, <3>1, <3>2, <2>1 DEF Buffer
    <3>3. CASE ~hit
      <4>1. buf' = [buf EXCEPT ![b].block = k, ![b].valid = FALSE, ![b].refcnt = 1]
        BY <3>3, <2>2
      <4> QED BY <4>1, <3>1, <3>3 DEF Buffer
    <3> QED BY <3>2, <3>3
  <2>7. Types'
    BY <1>0, <2>3, <2>8 DEF Types
  <2>9. Counted'
    <3>1. \A c, d \in Bufs :
             buf'[c].block = buf'[d].block /\ buf'[c].block # Nobody => c = d
      <4>1. CASE hit
        <5>1. \A c \in Bufs : buf'[c].block = buf[c].block
          BY <4>1, <2>1, <2>8
        <5> QED BY <5>1, <1>0 DEF Counted
      <4>2. CASE ~hit
        BY <1>0, <2>1, <2>8 DEF Counted
      <4> QED BY <4>1, <4>2
    <3>2. ASSUME NEW c \in Bufs
          PROVE  buf'[c].refcnt = Cardinality(Using(c)') + Pins(c)'
      <4>1. CASE c # b
        BY <4>1, <1>0, <2>3, <2>5, <2>8 DEF Counted, Pins
      <4>2. CASE c = b /\ hit
        <5>1. Pins(c)' = Pins(b) /\ Pins(b) \in {0, 1}
          BY <4>2, <2>1, <2>3, <2>8 DEF Pins
        <5>2. buf[b].refcnt = Cardinality(Using(b)) + Pins(b)
          BY <1>0 DEF Counted
        <5> QED BY <5>1, <5>2, <4>2, <2>6, <2>8
      <4>3. CASE c = b /\ ~hit
        <5>1. k \notin pinned
          BY <4>3, <1>0, <2>1 DEF Counted
        <5>2. Pins(c)' = 0
          BY <5>1, <4>3, <2>3, <2>8 DEF Pins
        <5>3. Cardinality(Using(b)) = 0
          BY <4>3, <2>4, FS_EmptySet
        <5> QED BY <5>2, <5>3, <4>3, <2>6, <2>8
      <4> QED BY <4>1, <4>2, <4>3
    <3>3. \A j \in pinned : \E c \in Bufs : buf'[c].block = j
      <4>1. ~hit => buf[b].block \notin pinned
        BY <2>4 DEF Pins
      <4> QED BY <4>1, <1>0, <2>1, <2>8 DEF Counted
    <3>4. \A q \in Proc : pc'[q] # "idle" => buf'[at'[q]].block # Nobody
      <4>1. k # Nobody
        BY BlockIOConstants
      <4> QED BY <4>1, <1>0, <2>1, <2>3, <2>8 DEF Counted, Types
    <3> QED BY <3>1, <3>2, <3>3, <3>4, <1>0, <2>3 DEF Counted
  <2>10. Locked'
    BY <1>0, <2>1, <2>3 DEF Locked, Holding
  <2>11. Asked'
    <3>1. \A c \in Bufs : lock[c] # Nobody => buf'[c].block = buf[c].block
      BY <2>1, <2>4, <2>8
    <3> QED BY <3>1, <1>0, <2>1, <2>3, <2>8, SameRequests
  <2>12. Placed'
    BY <1>0, <2>3, <2>8, SamePlaces
  <2>13. Rings' /\ Calm'
    BY <1>0, <2>3 DEF Rings, Calm
  <2>14. Sleepers'
    BY <1>0, <2>1, <2>3, <2>8 DEF Sleepers, Types
  <2> QED BY <2>7, <2>9, <2>10, <2>11, <2>12, <2>13, <2>14 DEF IInv
<1> QED BY <1>1, <1>2

\* acquiresleep, which takes the lock or sleeps.
LEMMA AcquireSleepStep ==
  ASSUME IInv, NEW p \in Proc, AcquireSleep(p)
  PROVE  IInv'
<1> DEFINE b == at[p]
<1>0. Types /\ Counted /\ Locked /\ Asked /\ Placed /\ Rings /\ Sleepers /\ Calm
  BY DEF IInv
<1>1. b \in Bufs /\ pc[p] = "lock" /\ UNCHANGED <<buf, lru, pinned, at, op, free, req,
          avail, used, dev, used_idx, isr, intr, disk, panicked>>
  BY <1>0 DEF AcquireSleep, Types, ring
<1>2. /\ lock' \in [Bufs -> Proc \cup {Nobody}]
      /\ pc' \in [Proc -> {"idle", "lock", "drop"} \cup Holding]
      /\ asleep' \in [Proc -> BOOLEAN]
      /\ \A q \in Proc : q # p => pc'[q] = pc[q] /\ asleep'[q] = asleep[q]
      /\ \A c \in Bufs : c # b => lock'[c] = lock[c]
      /\ \/ lock[b] # Nobody /\ lock'[b] = lock[b] /\ pc'[p] = "lock"
         \/ /\ lock[b] = Nobody /\ lock'[b] = p /\ pc'[p] \in {"held", "alloc"}
            /\ asleep'[p] = asleep[p] /\ ~asleep[p]
  <2>1. CASE lock[b] # Nobody
    BY <2>1, <1>0, <1>1 DEF AcquireSleep, Types
  <2>2. CASE lock[b] = Nobody
    <3>1. /\ lock' = [lock EXCEPT ![b] = p] /\ asleep' = asleep /\ ~asleep[p]
          /\ pc' = [pc EXCEPT ![p] = IF buf[b].valid THEN "held" ELSE "alloc"]
      BY <2>2 DEF AcquireSleep
    <3> QED BY <3>1, <2>2, <1>0 DEF Types, Holding
  <2> QED BY <2>1, <2>2
<1> HIDE DEF b
<1>3. Types'
  BY <1>0, <1>1, <1>2 DEF Types
<1>4. Counted'
  <2>1. \A q \in Proc : pc'[q] = "idle" <=> pc[q] = "idle"
    BY <1>1, <1>2
  <2> QED BY <2>1, <1>0, <1>1, SameCounts
<1>5. Locked'
  BY <1>0, <1>1, <1>2, BlockIOConstants DEF Locked, Types, b
<1>6. Asked'
  BY <1>0, <1>1, <1>2, SameRequests
<1>7. Placed' /\ Rings' /\ Calm'
  BY <1>0, <1>1 DEF Placed, Pending, Rings, Calm
<1>8. Sleepers'
  BY <1>0, <1>1, <1>2 DEF Sleepers, Types, b
<1> QED BY <1>3, <1>4, <1>5, <1>6, <1>7, <1>8 DEF IInv

\* The holder changes the data.
LEMMA ModifyStep ==
  ASSUME IInv, NEW p \in Proc, NEW v \in Vals, Modify(p, v)
  PROVE  IInv'
<1>0. Types /\ Counted /\ Locked /\ Asked /\ Placed /\ Rings /\ Sleepers /\ Calm
  BY DEF IInv
<1>1. UNCHANGED <<lock, lru, pinned, pc, at, op, asleep, free, req, avail, used,
                  dev, used_idx, isr, intr, disk, panicked>>
  BY DEF Modify, ctl, ring
<1>3. /\ buf' \in [Bufs -> Buffer]
      /\ \A c \in Bufs : /\ buf'[c].block = buf[c].block
                         /\ buf'[c].refcnt = buf[c].refcnt
                         /\ buf'[c].disk = buf[c].disk
  BY <1>0 DEF Types, Modify, Buffer
<1>2. Types'
  BY <1>0, <1>1, <1>3 DEF Types
<1>4. Counted'
  BY <1>0, <1>1, <1>3, SameCounts
<1>5. Locked' /\ Rings' /\ Calm'
  BY <1>0, <1>1 DEF Locked, Rings, Calm
<1>6. Asked' /\ Placed'
  BY <1>0, <1>1, <1>3, SameRequests, SamePlaces
<1>7. Sleepers'
  BY <1>0, <1>1, <1>3 DEF Sleepers, Types
<1> QED BY <1>2, <1>4, <1>5, <1>6, <1>7 DEF IInv

\* bwrite by the holder never panics.
LEMMA BwriteStep ==
  ASSUME IInv, NEW p \in Proc, Bwrite(p)
  PROVE  IInv'
<1>0. Types /\ Counted /\ Locked /\ Asked /\ Placed /\ Rings /\ Sleepers /\ Calm
  BY DEF IInv
<1>1. /\ pc[p] = "held" /\ lock[at[p]] = p
      /\ pc' = [pc EXCEPT ![p] = "alloc"] /\ op' = [op EXCEPT ![p] = "write"]
      /\ UNCHANGED <<buf, lock, lru, pinned, at, asleep, free, req, avail, used,
                     dev, used_idx, isr, intr, disk, panicked>>
  BY <1>0 DEF Bwrite, Locked, Holding, cache, ring
<1>2. Types'
  BY <1>0, <1>1 DEF Types, Holding
<1>3. Counted'
  BY <1>0, <1>1, SameCounts
<1>4. Locked' /\ Rings' /\ Calm' /\ Placed'
  BY <1>0, <1>1 DEF Locked, Rings, Calm, Placed, Pending, Types, Holding
<1>5. Asked'
  BY <1>0, <1>1, SameRequests
<1>6. Sleepers'
  BY <1>0, <1>1 DEF Sleepers
<1> QED BY <1>2, <1>3, <1>4, <1>5, <1>6 DEF IInv

\* bpin and bunpin.
LEMMA BpinStep ==
  ASSUME IInv, NEW p \in Proc, Bpin(p) \/ Bunpin(p)
  PROVE  IInv'
<1>0. Types /\ Counted /\ Locked /\ Asked /\ Placed /\ Rings /\ Sleepers /\ Calm
  BY DEF IInv
<1>1. PICK b \in Bufs : b = at[p]
  BY <1>0 DEF Types
<1>2. PICK k : k = buf[b].block
  OBVIOUS
<1>3. /\ pc[p] = "held" /\ p \in Using(b) /\ k \in Blocks
      /\ UNCHANGED <<lock, lru, pc, at, op, asleep, free, req, avail, used,
                     dev, used_idx, isr, intr, disk, panicked>>
  BY <1>0, <1>1, <1>2 DEF Bpin, Bunpin, Using, ctl, ring, Counted, Types,
     Buffer
<1>4. Cardinality(Using(b)) \in Nat \ {0} /\ IsFiniteSet(Using(b))
  <2>1. Using(b) \in SUBSET Proc
    BY DEF Using
  <2> QED BY <2>1, <1>3, FiniteUsers, FS_EmptySet
<1>5. buf[b].refcnt = Cardinality(Using(b)) + Pins(b)
  BY <1>0 DEF Counted
<1>6. \/ /\ k \notin pinned /\ pinned' = pinned \cup {k}
         /\ buf' = [buf EXCEPT ![b].refcnt = @ + 1]
      \/ /\ k \in pinned /\ pinned' = pinned \ {k}
         /\ buf' = [buf EXCEPT ![b].refcnt = @ - 1]
  BY <1>1, <1>2 DEF Bpin, Bunpin
<1>7. /\ buf' \in [Bufs -> Buffer] /\ pinned' \subseteq Blocks
      /\ \A c \in Bufs : /\ buf'[c].block = buf[c].block
                         /\ buf'[c].disk = buf[c].disk
      /\ \A c \in Bufs : c # b => buf'[c].refcnt = buf[c].refcnt
      /\ buf'[b].refcnt = Cardinality(Using(b)) + Pins(b)'
  <2>1. buf \in [Bufs -> Buffer] /\ pinned \subseteq Blocks
    BY <1>0 DEF Types
  <2>2. Pins(b) \in {0, 1} /\ (Pins(b) = 1 <=> k \in pinned)
    BY <1>2 DEF Pins
  <2>3. CASE k \notin pinned
    <3>1. pinned' = pinned \cup {k} /\ buf' = [buf EXCEPT ![b].refcnt = @ + 1]
      BY <2>3, <1>6
    <3>2. /\ buf' \in [Bufs -> Buffer] /\ buf'[b].block = k
          /\ buf'[b].refcnt = Cardinality(Using(b)) + 1
      BY <3>1, <2>1, <2>2, <2>3, <1>2, <1>4, <1>5 DEF Buffer
    <3>3. Pins(b)' = 1
      BY <3>1, <3>2 DEF Pins
    <3> QED BY <3>1, <3>2, <3>3, <2>1, <1>3
  <2>4. CASE k \in pinned
    <3>1. pinned' = pinned \ {k} /\ buf' = [buf EXCEPT ![b].refcnt = @ - 1]
      BY <2>4, <1>6
    <3>2. /\ buf' \in [Bufs -> Buffer] /\ buf'[b].block = k
          /\ buf'[b].refcnt = Cardinality(Using(b)) + 0
      BY <3>1, <2>1, <2>2, <2>4, <1>2, <1>4, <1>5 DEF Buffer
    <3>3. Pins(b)' = 0
      BY <3>1, <3>2 DEF Pins
    <3> QED BY <3>1, <3>2, <3>3, <2>1
  <2> QED BY <2>3, <2>4
<1>8. Types'
  BY <1>0, <1>3, <1>7 DEF Types
<1>9. Counted'
  <2>1. \A c \in Bufs : Using(c)' = Using(c)
    BY <1>3, SameUsers
  <2>2. ASSUME NEW c \in Bufs
        PROVE  buf'[c].refcnt = Cardinality(Using(c)') + Pins(c)'
    <3>1. CASE c = b
      BY <3>1, <2>1, <1>7
    <3>2. CASE c # b
      <4>1. buf[c].block # k
        BY <3>2, <1>0, <1>2, <1>3, BlockIOConstants DEF Counted
      <4>2. Pins(c)' = Pins(c)
        BY <4>1, <1>6, <1>7 DEF Pins
      <4> QED BY <4>2, <2>1, <1>0, <1>7 DEF Counted
    <3> QED BY <3>1, <3>2
  <2>3. \A j \in pinned' : \E c \in Bufs : buf'[c].block = j
    BY <1>0, <1>2, <1>6, <1>7 DEF Counted
  <2>4. \A q \in Proc : pc'[q] # "idle" => buf'[at'[q]].block # Nobody
    BY <1>0, <1>3, <1>7 DEF Counted, Types
  <2>5. \A c, d \in Bufs :
           buf'[c].block = buf'[d].block /\ buf'[c].block # Nobody => c = d
    BY <1>0, <1>7 DEF Counted
  <2>6. \A c \in Bufs : \E i \in Bufs : lru'[i] = c
    BY <1>0, <1>3 DEF Counted
  <2> QED BY <2>2, <2>3, <2>4, <2>5, <2>6 DEF Counted
<1>10. Locked' /\ Rings' /\ Calm'
  BY <1>0, <1>3 DEF Locked, Rings, Calm
<1>11. Asked' /\ Placed'
  BY <1>0, <1>3, <1>7, SameRequests, SamePlaces
<1>12. Sleepers'
  BY <1>0, <1>3, <1>7 DEF Sleepers, Types
<1> QED BY <1>8, <1>9, <1>10, <1>11, <1>12 DEF IInv

\* releasesleep by the holder never panics, and wakes who sleeps on the lock.
LEMMA ReleaseSleepStep ==
  ASSUME IInv, NEW p \in Proc, ReleaseSleep(p)
  PROVE  IInv'
<1>0. Types /\ Counted /\ Locked /\ Asked /\ Placed /\ Rings /\ Sleepers /\ Calm
  BY DEF IInv
<1>1. PICK b \in Bufs : b = at[p]
  BY <1>0 DEF Types
<1>2. /\ pc[p] = "held" /\ lock[b] = p
      /\ lock' = [lock EXCEPT ![b] = Nobody]
      /\ pc' = [pc EXCEPT ![p] = "drop"]
      /\ asleep' = Woken("lock", b)
      /\ UNCHANGED <<buf, lru, pinned, at, op, free, req, avail, used, dev,
                     used_idx, isr, intr, disk, panicked>>
  BY <1>0, <1>1 DEF ReleaseSleep, Locked, Holding, ring
<1>3. Types'
  BY <1>0, <1>2 DEF Types, Woken
<1>4. Counted'
  BY <1>0, <1>2, SameCounts
<1>5. Locked'
  BY <1>0, <1>2 DEF Locked, Types, Holding
<1>6. Asked' /\ Placed'
  BY <1>0, <1>2, SameRequests, SamePlaces
<1>7. Rings' /\ Calm'
  BY <1>0, <1>2 DEF Rings, Calm
<1>8. Sleepers'
  BY <1>0, <1>2 DEF Sleepers, Types, Woken
<1> QED BY <1>3, <1>4, <1>5, <1>6, <1>7, <1>8 DEF IInv

\* The end of brelse.
LEMMA BrelseStep ==
  ASSUME IInv, NEW p \in Proc, Brelse(p)
  PROVE  IInv'
<1>0. Types /\ Counted /\ Locked /\ Asked /\ Placed /\ Rings /\ Sleepers /\ Calm
  BY DEF IInv
<1>1. PICK b \in Bufs : b = at[p]
  BY <1>0 DEF Types
<1>2. /\ pc[p] = "drop"
      /\ buf' = [buf EXCEPT ![b].refcnt = @ - 1]
      /\ lru' = IF buf[b].refcnt = 1 THEN AtHead(b) ELSE lru
      /\ pc' = [pc EXCEPT ![p] = "idle"]
      /\ at' = [at EXCEPT ![p] = 1]
      /\ UNCHANGED <<lock, pinned, op, asleep, free, req, avail, used, dev,
                     used_idx, isr, intr, disk, panicked>>
  BY <1>1 DEF Brelse, ring
<1>3. /\ Cardinality(Using(b)) \in Nat \ {0}
      /\ Cardinality(Using(b)') = Cardinality(Using(b)) - 1
      /\ \A c \in Bufs : c # b => Using(c)' = Using(c)
  <2>1. p \in Using(b) /\ Using(b)' = Using(b) \ {p} /\ Using(b) \in SUBSET Proc
    BY <1>0, <1>1, <1>2 DEF Using, Types
  <2>2. \A c \in Bufs : c # b => Using(c)' = Using(c)
    BY <1>0, <1>1, <1>2 DEF Using, Types
  <2>3. IsFiniteSet(Using(b)) /\ Cardinality(Using(b)) \in Nat
    BY <2>1, FiniteUsers
  <2>4. Cardinality(Using(b)) # 0
    BY <2>1, <2>3, FS_EmptySet
  <2>5. Cardinality(Using(b) \ {p}) = Cardinality(Using(b)) - 1
    BY <2>1, <2>3, FS_RemoveElement
  <2> QED BY <2>1, <2>2, <2>3, <2>4, <2>5
<1>4. buf[b].refcnt = Cardinality(Using(b)) + Pins(b) /\ Pins(b) \in {0, 1}
  BY <1>0 DEF Counted, Pins
<1>5. /\ buf' \in [Bufs -> Buffer]
      /\ \A c \in Bufs : /\ buf'[c].block = buf[c].block
                         /\ buf'[c].disk = buf[c].disk
      /\ \A c \in Bufs : c # b => buf'[c].refcnt = buf[c].refcnt
      /\ buf'[b].refcnt = buf[b].refcnt - 1
  <2>1. buf \in [Bufs -> Buffer]
    BY <1>0 DEF Types
  <2> QED BY <2>1, <1>2, <1>3, <1>4 DEF Buffer
<1>6. /\ lru' \in [Bufs -> Bufs]
      /\ \A c \in Bufs : \E i \in Bufs : lru'[i] = c
  <2>1. CASE buf[b].refcnt = 1
    BY <2>1, <1>0, <1>2, AtHeadIsList
  <2>2. CASE buf[b].refcnt # 1
    BY <2>2, <1>0, <1>2 DEF Types, Counted
  <2> QED BY <2>1, <2>2
<1>7. Types'
  <2>1. 1 \in Bufs
    BY BlockIOConstants DEF Bufs
  <2> QED BY <2>1, <1>0, <1>2, <1>5, <1>6 DEF Types
<1>8. Counted'
  <2>1. \A c \in Bufs : Pins(c)' = Pins(c)
    BY <1>2 DEF Pins
  <2>2. ASSUME NEW c \in Bufs
        PROVE  buf'[c].refcnt = Cardinality(Using(c)') + Pins(c)'
    <3>1. CASE c = b
      BY <3>1, <2>1, <1>3, <1>4, <1>5
    <3>2. CASE c # b
      BY <3>2, <2>1, <1>0, <1>3, <1>5 DEF Counted
    <3> QED BY <3>1, <3>2
  <2>3. \A q \in Proc : pc'[q] # "idle" => buf'[at'[q]].block # Nobody
    BY <1>0, <1>2 DEF Counted, Types
  <2>4. \A c, d \in Bufs :
           buf'[c].block = buf'[d].block /\ buf'[c].block # Nobody => c = d
    BY <1>0, <1>5 DEF Counted
  <2>5. \A j \in pinned' : \E c \in Bufs : buf'[c].block = j
    BY <1>0, <1>2 DEF Counted
  <2> QED BY <2>2, <2>3, <2>4, <2>5, <1>6 DEF Counted
<1>9. Locked'
  BY <1>0, <1>2 DEF Locked, Holding
<1>10. Asked' /\ Placed'
  BY <1>0, <1>2, SameRequests, SamePlaces
<1>11. Rings' /\ Calm'
  BY <1>0, <1>2 DEF Rings, Calm
<1>12. Sleepers'
  BY <1>0, <1>2 DEF Sleepers
<1> QED BY <1>7, <1>8, <1>9, <1>10, <1>11, <1>12 DEF IInv

\* virtio_disk_rw up to the sleep: no descriptors, or a request put in the
\* available ring.
LEMMA SubmitStep ==
  ASSUME IInv, NEW p \in Proc, Submit(p)
  PROVE  IInv'
<1>0. Types /\ Counted /\ Locked /\ Asked /\ Placed /\ Rings /\ Sleepers /\ Calm
  BY DEF IInv
<1>1. PICK b \in Bufs : b = at[p]
  BY <1>0 DEF Types
<1>2. /\ pc[p] = "alloc" /\ lock[b] = p /\ buf[b].block \in Blocks
      /\ UNCHANGED <<lock, lru, pinned, at, op, used, dev, used_idx, isr, intr,
                     disk, panicked>>
  BY <1>0, <1>1 DEF Submit, Locked, Holding, Counted, Types, Buffer
<1>3. CASE Cardinality(free) < 3
  <2>1. /\ asleep' = [IF free = {} THEN asleep ELSE Woken("alloc", b)
                        EXCEPT ![p] = TRUE]
        /\ UNCHANGED <<buf, pc, free, req, avail>>
    BY <1>1, <1>3 DEF Submit
  <2>2. /\ asleep' \in [Proc -> BOOLEAN] /\ asleep'[p]
        /\ \A q \in Proc : asleep'[q] => asleep[q] \/ q = p
    BY <2>1, <1>0 DEF Types, Woken
  <2>3. Types'
    BY <2>1, <2>2, <1>0, <1>2 DEF Types
  <2>4. Counted'
    BY <2>1, <1>0, <1>2, SameCounts
  <2>5. Locked' /\ Rings' /\ Calm'
    BY <2>1, <1>0, <1>2 DEF Locked, Rings, Calm
  <2>6. Asked' /\ Placed'
    BY <2>1, <1>0, <1>2, SameRequests, SamePlaces
  <2>7. Sleepers'
    BY <2>1, <2>2, <1>0, <1>2, <1>3 DEF Sleepers
  <2> QED BY <2>3, <2>4, <2>5, <2>6, <2>7 DEF IInv
<1>4. CASE ~(Cardinality(free) < 3)
  <2>0. PICK D : D = Lowest(3, free)
    OBVIOUS
  <2>1. PICK h : h = First(D)
    OBVIOUS
  <2>2. D \in SUBSET Desc /\ D \subseteq free /\ h \in D /\ D # {h} /\ h \in Desc
    BY <2>0, <2>1, <1>0, <1>4, DescriptorsTaken DEF Types
  <2>3. PICK r : r = [op |-> op[p], buf |-> b, block |-> buf[b].block, chain |-> D,
                      ok |-> FALSE]
    OBVIOUS
  <2>4. /\ free' = free \ D
        /\ req' = [req EXCEPT ![h] = r]
        /\ buf' = [buf EXCEPT ![b].disk = TRUE]
        /\ avail' = [ring |-> [avail.ring EXCEPT ![avail.idx % NUM] = h],
                     idx  |-> After(avail.idx)]
        /\ pc' = [pc EXCEPT ![p] = "wait"]
        /\ asleep' = [asleep EXCEPT ![p] = TRUE]
    BY <2>0, <2>1, <2>3, <1>1, <1>4 DEF Submit, After
  <2>5. /\ r \in Request /\ r # Nobody /\ r.op = op[p] /\ r.buf = b
        /\ r.block = buf[b].block /\ r.chain = D /\ ~r.ok
    <3>1. op[p] \in {"read", "write"}
      BY <1>0 DEF Types
    <3>2. r \in Request
      BY <3>1, <2>2, <2>3, <1>2 DEF Request
    <3> QED BY <3>2, <2>3, BlockIOConstants
  <2>6. req[h] = Nobody /\ \A g \in Desc : req[g] # Nobody => req[g].chain \cap D = {}
    BY <2>2, <1>0 DEF Asked
  <2>7. \A g \in Desc : req[g] # Nobody => req[g].buf # b
    BY <1>0, <1>2 DEF Asked
  <2>8. /\ req' \in [Desc -> Request \cup {Nobody}] /\ req'[h] = r
        /\ \A g \in Desc : g # h => req'[g] = req[g]
    BY <2>2, <2>4, <2>5, <1>0 DEF Types
  <2>9. /\ buf' \in [Bufs -> Buffer] /\ buf'[b].disk
        /\ \A c \in Bufs : buf'[c].block = buf[c].block /\ buf'[c].refcnt = buf[c].refcnt
        /\ \A c \in Bufs : c # b => buf'[c].disk = buf[c].disk
    <3>1. buf \in [Bufs -> Buffer]
      BY <1>0 DEF Types
    <3> QED BY <3>1, <2>4 DEF Buffer
  <2>10. /\ pc' \in [Proc -> {"idle", "lock", "drop"} \cup Holding] /\ pc'[p] = "wait"
         /\ \A q \in Proc : q # p => pc'[q] = pc[q] /\ asleep'[q] = asleep[q]
         /\ asleep' \in [Proc -> BOOLEAN]
    BY <2>4, <1>0 DEF Types, Holding
  <2>11. Asked'
    <3>1. ASSUME NEW g \in Desc, req'[g] # Nobody
          PROVE  /\ g \in req'[g].chain /\ req'[g].chain # {g}
                 /\ req'[g].chain \cap free' = {}
                 /\ lock'[req'[g].buf] # Nobody
                 /\ pc'[lock'[req'[g].buf]] = "wait"
                 /\ op'[lock'[req'[g].buf]] = req'[g].op
                 /\ buf'[req'[g].buf].block = req'[g].block
                 /\ ~buf'[req'[g].buf].disk => req'[g].ok
      <4>1. CASE g = h
        BY <4>1, <2>2, <2>4, <2>5, <2>8, <2>9, <2>10, <1>2, BlockIOConstants
      <4>2. CASE g # h
        <5>1. /\ req'[g] = req[g] /\ req[g].buf \in Bufs /\ req[g].buf # b
              /\ lock[req[g].buf] \in Proc /\ lock[req[g].buf] # p
          BY <4>2, <3>1, <2>8, <1>0, <1>2, RequestFields DEF Asked, Types
        <5> QED BY <5>1, <3>1, <2>4, <1>0, <1>2 DEF Asked
      <4> QED BY <4>1, <4>2
    <3>2. \A f, g \in Desc : f # g /\ req'[f] # Nobody /\ req'[g] # Nobody =>
             req'[f].chain \cap req'[g].chain = {} /\ req'[f].buf # req'[g].buf
      BY <2>5, <2>6, <2>7, <2>8, <1>0 DEF Asked
    <3>3. \A q \in Proc : pc'[q] = "wait" =>
             \E g \in Desc : req'[g] # Nobody /\ req'[g].buf = at'[q]
      BY <2>2, <2>5, <2>8, <2>10, <1>0, <1>1, <1>2 DEF Asked
    <3>4. \A c \in Bufs : buf'[c].disk =>
             \E g \in Desc : req'[g] # Nobody /\ req'[g].buf = c
      BY <2>2, <2>5, <2>8, <2>9, <1>0 DEF Asked
    <3> QED BY <3>1, <3>2, <3>3, <3>4 DEF Asked
  <2>12. PICK s : s = avail.ring
    OBVIOUS
  <2>13. /\ s \in Ring /\ avail.idx \in Index /\ dev.idx \in Index
         /\ Window(s, dev.idx, avail.idx) /\ Distinct(s)
    BY <2>12, <1>0 DEF Types, Ring, Index, Rings, Placed
  <2>14. PICK t : t = [s EXCEPT ![avail.idx % NUM] = h]
    OBVIOUS
  <2>15. PICK n \in Desc : n = avail.idx % NUM
    BY <2>13, NextIndex
  <2>16. s[n] = Nobody /\ t = [s EXCEPT ![n] = h] /\ t \in Ring
    BY <2>2, <2>13, <2>14, <2>15, Pushed DEF Ring
  <2>17. \A g \in Desc : Pending(g) => g # h /\ Pending(g)'
    BY <2>6, <2>8, <2>9, <1>0, RequestFields DEF Pending
  <2>18. Pending(h)' /\ ~req'[h].ok /\ \A g \in Desc : Pending(g)' => Pending(g) \/ g = h
    BY <2>2, <2>5, <2>7, <2>8, <2>9, <1>0, RequestFields DEF Pending
  <2>19. \A i \in Desc : s[i] # Nobody => s[i] \in Desc /\ s[i] # h
    BY <2>6, <2>12, <1>0 DEF Placed, Pending
  <2>20. Distinct(t)
    BY <2>13, <2>16, <2>19 DEF Distinct
  <2>21. avail' \in [ring : Ring, idx : Index] /\ avail'.ring = t /\ avail'.idx = After(avail.idx)
    BY <2>4, <2>12, <2>13, <2>14, <2>16, NextIndex
  <2>22. Placed'
    <3>1. ASSUME NEW i \in Desc, t[i] # Nobody
          PROVE  Pending(t[i])' /\ ~req'[t[i]].ok /\ t[i] \notin dev.works
      <4>1. CASE i = n
        <5>1. t[i] = h
          BY <4>1, <2>16 DEF Ring
        <5>2. h \notin dev.works
          BY <2>6, <1>0 DEF Placed, Pending
        <5> QED BY <5>1, <5>2, <2>18
      <4>2. CASE i # n
        <5>1. t[i] = s[i]
          BY <4>2, <2>16
        <5> QED BY <5>1, <3>1, <2>8, <2>12, <2>17, <2>19, <1>0 DEF Placed
      <4> QED BY <4>1, <4>2
    <3>2. \A g \in dev.works : Pending(g)' /\ ~req'[g].ok
      <4>1. dev.works \subseteq Desc
        BY <1>0 DEF Types
      <4> QED BY <4>1, <2>8, <2>17, <1>0 DEF Placed
    <3>3. \A i \in Desc : used.ring[i] # Nobody =>
             Pending(used.ring[i])' /\ req'[used.ring[i]].ok
      <4>1. \A i \in Desc : used.ring[i] # Nobody => used.ring[i] \in Desc
        BY <1>0 DEF Placed, Pending
      <4> QED BY <4>1, <2>8, <2>17, <1>0, <1>2 DEF Placed
    <3>4. ASSUME NEW g \in Desc, Pending(g)'
          PROVE  \/ g \in dev.works
                 \/ \E i \in Desc : t[i] = g
                 \/ \E i \in Desc : used.ring[i] = g
      <4>1. \A i \in Desc : t[i] = IF i = n THEN h ELSE s[i]
        BY <2>16 DEF Ring
      <4>2. CASE g = h
        BY <4>1, <4>2
      <4>3. CASE g # h
        <5>1. Pending(g)
          BY <4>3, <3>4, <2>18
        <5>2. \A i \in Desc : s[i] = g => t[i] = g
          BY <2>16, BlockIOConstants
        <5> QED BY <5>1, <5>2, <2>12, <1>0 DEF Placed
      <4> QED BY <4>2, <4>3
    <3> QED BY <3>1, <3>2, <3>3, <3>4, <2>20, <2>21, <1>0, <1>2 DEF Placed
  <2>23. Rings'
    <3>1. \E i \in Desc : t[i] = Nobody
      <4>1. PICK q : q = req'
        OBVIOUS
      <4>2. \A i \in Desc : t[i] # Nobody => q[t[i]] # Nobody
        BY <4>1, <2>21, <2>22 DEF Placed, Pending
      <4>3. \A g \in Desc : q[g] # Nobody => g \in q[g].chain /\ q[g].chain # {g}
        BY <4>1, <2>11 DEF Asked
      <4>4. \A f, g \in Desc : f # g /\ q[f] # Nobody /\ q[g] # Nobody =>
               q[f].chain \cap q[g].chain = {}
        BY <4>1, <2>11 DEF Asked
      <4>5. q \in [Desc -> Request \cup {Nobody}]
        BY <4>1, <2>8
      <4> QED BY <4>2, <4>3, <4>4, <4>5, <2>16, <2>20, RingHasRoom
    <3>2. Window(t, dev.idx, After(avail.idx))
      BY <3>1, <2>2, <2>13, <2>14, Pushed
    <3> QED BY <3>2, <2>21, <1>0, <1>2 DEF Rings
  <2>24. Types'
    BY <2>4, <2>8, <2>9, <2>10, <2>21, <1>0, <1>2 DEF Types, Ring, Index
  <2>25. Counted'
    BY <2>9, <2>10, <1>0, <1>2, SameCounts
  <2>26. Locked' /\ Calm'
    BY <2>10, <1>0, <1>2 DEF Locked, Calm, Types
  <2>27. Sleepers'
    BY <2>4, <1>0, <1>1, <1>2, <1>4 DEF Sleepers, Types
  <2> QED BY <2>11, <2>22, <2>23, <2>24, <2>25, <2>26, <2>27 DEF IInv
<1> QED BY <1>3, <1>4

\* virtio_disk_rw after the answer: the chain is given back and who waits for
\* descriptors is woken.
LEMMA FinishStep ==
  ASSUME IInv, NEW p \in Proc, Finish(p)
  PROVE  IInv'
<1>0. Types /\ Counted /\ Locked /\ Asked /\ Placed /\ Rings /\ Sleepers /\ Calm
  BY DEF IInv
<1>1. PICK b \in Bufs : b = at[p]
  BY <1>0 DEF Types
<1>2. /\ pc[p] = "wait" /\ lock[b] = p
      /\ UNCHANGED <<lock, lru, pinned, at, avail, used, dev, used_idx, isr, intr, disk>>
  BY <1>0, <1>1 DEF Finish, Locked, Holding
<1>3. CASE buf[b].disk
  <2>1. /\ asleep' = [asleep EXCEPT ![p] = TRUE]
        /\ UNCHANGED <<buf, pc, op, free, req, panicked>>
    BY <1>1, <1>3 DEF Finish
  <2>2. Types'
    BY <2>1, <1>0, <1>2 DEF Types
  <2>3. Counted'
    BY <2>1, <1>0, <1>2, SameCounts
  <2>4. Locked' /\ Rings' /\ Calm'
    BY <2>1, <1>0, <1>2 DEF Locked, Rings, Calm
  <2>5. Asked' /\ Placed'
    BY <2>1, <1>0, <1>2, SameRequests, SamePlaces
  <2>6. Sleepers'
    BY <2>1, <1>0, <1>1, <1>2, <1>3 DEF Sleepers
  <2> QED BY <2>2, <2>3, <2>4, <2>5, <2>6 DEF IInv
<1>4. CASE ~buf[b].disk
  <2>1. \E g \in Desc : req[g] # Nobody /\ req[g].buf = b
    BY <1>0, <1>1, <1>2 DEF Asked
  <2>2. PICK h : h = CHOOSE g \in Desc : req[g] # Nobody /\ req[g].buf = b
    OBVIOUS
  <2>3. /\ h \in Desc /\ req[h] # Nobody /\ req[h].buf = b
        /\ req[h].chain \in SUBSET Desc /\ req[h].chain \cap free = {}
    <3>1. h \in Desc /\ req[h] # Nobody /\ req[h].buf = b
      BY <2>1, <2>2
    <3> QED BY <3>1, <1>0, RequestFields DEF Asked
  <2>4. /\ free' = free \cup req[h].chain
        /\ req' = [req EXCEPT ![h] = Nobody]
        /\ buf' = [buf EXCEPT ![b].valid = TRUE]
        /\ pc' = [pc EXCEPT ![p] = "held"]
        /\ op' = [op EXCEPT ![p] = "read"]
        /\ asleep' = Woken("alloc", b)
        /\ panicked' = FALSE
    BY <2>2, <2>3, <1>1, <1>4 DEF Finish
  <2>5. /\ req' \in [Desc -> Request \cup {Nobody}] /\ req'[h] = Nobody
        /\ \A g \in Desc : g # h => req'[g] = req[g]
    BY <2>3, <2>4, <1>0 DEF Types
  <2>6. /\ buf' \in [Bufs -> Buffer]
        /\ \A c \in Bufs : /\ buf'[c].block = buf[c].block
                           /\ buf'[c].refcnt = buf[c].refcnt
                           /\ buf'[c].disk = buf[c].disk
    <3>1. buf \in [Bufs -> Buffer]
      BY <1>0 DEF Types
    <3> QED BY <3>1, <2>4 DEF Buffer
  <2>7. /\ pc' \in [Proc -> {"idle", "lock", "drop"} \cup Holding] /\ pc'[p] = "held"
        /\ op' \in [Proc -> {"read", "write"}] /\ op'[p] = "read"
        /\ \A q \in Proc : q # p => pc'[q] = pc[q] /\ op'[q] = op[q]
        /\ asleep' \in [Proc -> BOOLEAN]
        /\ \A q \in Proc : asleep'[q] => asleep[q] /\ pc[q] # "alloc"
    BY <2>4, <1>0 DEF Types, Holding, Woken
  <2>8. Types'
    BY <2>3, <2>4, <2>5, <2>6, <2>7, <1>0, <1>2 DEF Types
  <2>9. Counted'
    BY <2>6, <2>7, <1>0, <1>2, SameCounts
  <2>10. Locked' /\ Calm'
    BY <2>4, <1>0, <1>2 DEF Locked, Calm, Types, Holding
  <2>11. Asked'
    <3>1. ASSUME NEW g \in Desc, req'[g] # Nobody
          PROVE  /\ g \in req'[g].chain /\ req'[g].chain # {g}
                 /\ req'[g].chain \cap free' = {}
                 /\ lock'[req'[g].buf] # Nobody
                 /\ pc'[lock'[req'[g].buf]] = "wait"
                 /\ op'[lock'[req'[g].buf]] = req'[g].op
                 /\ buf'[req'[g].buf].block = req'[g].block
                 /\ ~buf'[req'[g].buf].disk => req'[g].ok
      <4>1. g # h /\ req'[g] = req[g] /\ req[g] # Nobody /\ req[g].buf \in Bufs
        BY <3>1, <2>5, <1>0, RequestFields
      <4>2. req[g].buf # b /\ req[g].chain \cap req[h].chain = {}
        BY <4>1, <2>3, <1>0 DEF Asked
      <4>3. lock[req[g].buf] \in Proc /\ lock[req[g].buf] # p
        BY <4>1, <4>2, <1>0, <1>1 DEF Asked, Locked, Types
      <4> QED BY <4>1, <4>2, <4>3, <2>4, <1>0, <1>2 DEF Asked
    <3>2. \A f, g \in Desc : f # g /\ req'[f] # Nobody /\ req'[g] # Nobody =>
             req'[f].chain \cap req'[g].chain = {} /\ req'[f].buf # req'[g].buf
      BY <2>5, <1>0 DEF Asked
    <3>3. ASSUME NEW q \in Proc, pc'[q] = "wait"
          PROVE  \E g \in Desc : req'[g] # Nobody /\ req'[g].buf = at'[q]
      <4>1. q # p /\ pc[q] = "wait"
        BY <3>3, <2>7
      <4>2. at[q] # b
        BY <4>1, <1>0, <1>2 DEF Locked, Holding
      <4> QED BY <4>1, <4>2, <2>3, <2>5, <1>0, <1>2 DEF Asked
    <3>4. \A c \in Bufs : buf'[c].disk =>
             \E g \in Desc : req'[g] # Nobody /\ req'[g].buf = c
      BY <2>3, <2>5, <2>6, <1>0, <1>4 DEF Asked
    <3> QED BY <3>1, <3>2, <3>3, <3>4 DEF Asked
  <2>12. ASSUME NEW g PROVE (Pending(g)' <=> Pending(g)) /\ (Pending(g) => req'[g] = req[g])
    BY <2>3, <2>5, <2>6, <1>0, <1>4, RequestFields DEF Pending
  <2>13. Placed'
    BY <2>12, <1>0, <1>2 DEF Placed
  <2>14. Rings'
    BY <1>0, <1>2 DEF Rings
  <2>15. Sleepers'
    BY <2>6, <2>7, <1>0, <1>1, <1>2, <1>4 DEF Sleepers, Types
  <2> QED BY <2>8, <2>9, <2>10, <2>11, <2>13, <2>14, <2>15 DEF IInv
<1> QED BY <1>3, <1>4

\* The handler's first and last steps: the handler leaves only when no answer is
\* left.
LEMMA IntrStep ==
  ASSUME IInv, IntrBegin \/ IntrEnd
  PROVE  IInv'
<1>0. Types /\ Counted /\ Locked /\ Asked /\ Placed /\ Rings /\ Sleepers /\ Calm
  BY DEF IInv
<1>1. UNCHANGED <<buf, lock, lru, pinned, pc, at, op, asleep, free, req, avail, used,
                  dev, used_idx, disk, panicked>>
  BY DEF IntrBegin, IntrEnd, cache, ctl
<1>2. isr' \in BOOLEAN /\ intr' \in BOOLEAN /\ (used_idx # used.idx => intr')
  BY <1>0 DEF IntrBegin, IntrEnd, Types
<1>3. Types'
  BY <1>0, <1>1, <1>2 DEF Types
<1>4. Counted'
  BY <1>0, <1>1, SameCounts
<1>5. Locked' /\ Calm'
  BY <1>0, <1>1 DEF Locked, Calm
<1>6. Asked' /\ Placed'
  BY <1>0, <1>1, SameRequests, SamePlaces
<1>7. Rings'
  BY <1>0, <1>1, <1>2 DEF Rings
<1>8. Sleepers'
  BY <1>0, <1>1 DEF Sleepers
<1> QED BY <1>3, <1>4, <1>5, <1>6, <1>7, <1>8 DEF IInv

\* The handler takes one entry of the used ring.
LEMMA IntrEntryStep ==
  ASSUME IInv, IntrEntry
  PROVE  IInv'
<1>0. Types /\ Counted /\ Locked /\ Asked /\ Placed /\ Rings /\ Sleepers /\ Calm
  BY DEF IInv
<1>1. PICK s : s = used.ring
  OBVIOUS
<1>2. /\ s \in Ring /\ used_idx \in Index /\ used.idx \in Index
      /\ Window(s, used_idx, used.idx) /\ Distinct(s) /\ used_idx # used.idx
      /\ intr /\ ~panicked
  BY <1>0, <1>1 DEF Types, Ring, Index, Rings, Placed, IntrEntry
<1>3. PICK n \in Desc : n = used_idx % NUM
  BY <1>2, NextIndex
<1>4. PICK h \in Desc : h = s[n]
  BY <1>2, <1>3, Popped
<1>5. Pending(h) /\ req[h].ok /\ h # Nobody
  BY <1>0, <1>1, <1>4, BlockIOConstants DEF Placed
<1>6. PICK b \in Bufs : b = req[h].buf
  BY <1>0, <1>5, RequestFields DEF Pending
<1>7. /\ buf' = [buf EXCEPT ![b].disk = FALSE]
      /\ asleep' = Woken("wait", b)
      /\ used_idx' = After(used_idx)
      /\ used' = [used EXCEPT !.ring[n] = Nobody]
      /\ UNCHANGED <<lock, lru, pinned, pc, at, op, free, req, avail, dev, isr, intr,
                     disk, panicked>>
  BY <1>1, <1>3, <1>4, <1>5, <1>6 DEF IntrEntry, Pending, After
<1>8. PICK t : t = [s EXCEPT ![n] = Nobody]
  OBVIOUS
<1>9. /\ t \in Ring /\ Window(t, After(used_idx), used.idx)
      /\ used' \in [ring : Ring, idx : Index] /\ used'.ring = t /\ used'.idx = used.idx
      /\ \A i \in Desc : t[i] = IF i = n THEN Nobody ELSE s[i]
  <2>1. t \in Ring /\ \A i \in Desc : t[i] = IF i = n THEN Nobody ELSE s[i]
    BY <1>2, <1>8 DEF Ring
  <2>2. Window(t, After(used_idx), used.idx)
    BY <1>2, <1>3, <1>8, Popped
  <2>3. used \in [ring : Ring, idx : Index]
    BY <1>0 DEF Types, Ring, Index
  <2>4. used' \in [ring : Ring, idx : Index] /\ used'.ring = t /\ used'.idx = used.idx
    BY <2>1, <2>3, <1>1, <1>7, <1>8
  <2> QED BY <2>1, <2>2, <2>4
<1>10. /\ buf' \in [Bufs -> Buffer] /\ ~buf'[b].disk
       /\ \A c \in Bufs : buf'[c].block = buf[c].block /\ buf'[c].refcnt = buf[c].refcnt
       /\ \A c \in Bufs : c # b => buf'[c].disk = buf[c].disk
  <2>1. buf \in [Bufs -> Buffer]
    BY <1>0 DEF Types
  <2> QED BY <2>1, <1>7 DEF Buffer
<1>11. Types'
  BY <1>0, <1>7, <1>9, <1>10, NextIndex DEF Types, Index, Woken
<1>12. Counted'
  BY <1>0, <1>7, SameCounts
<1>13. Locked' /\ Calm'
  BY <1>0, <1>7 DEF Locked, Calm
<1>14. Asked'
  <2>1. ASSUME NEW g \in Desc, req[g] # Nobody
        PROVE  /\ buf'[req[g].buf].block = req[g].block
               /\ ~buf'[req[g].buf].disk => req[g].ok
    <3>1. req[g].buf \in Bufs /\ (g # h => req[g].buf # b)
      BY <2>1, <1>0, <1>5, <1>6, RequestFields DEF Asked, Pending
    <3> QED BY <3>1, <2>1, <1>0, <1>5, <1>10 DEF Asked
  <2> QED BY <2>1, <1>0, <1>7 DEF Asked
<1>15. ASSUME NEW g PROVE Pending(g)' <=> Pending(g) /\ g # h
  <2>1. Pending(g) /\ g # h => req[g].buf # b
    BY <1>0, <1>5, <1>6 DEF Asked, Pending
  <2>2. Pending(g)' => Pending(g) /\ g # h
    BY <1>6, <1>7, <1>10 DEF Pending
  <2>3. Pending(g) /\ g # h => Pending(g)'
    BY <2>1, <1>7 DEF Pending
  <2> QED BY <2>2, <2>3
<1>16. Placed'
  <2>1. Distinct(t)
    BY <1>2, <1>9 DEF Distinct
  <2>2. \A i \in Desc : avail.ring[i] # h
    BY <1>0, <1>5 DEF Placed
  <2>3. h \notin dev.works
    BY <1>0, <1>5 DEF Placed
  <2>4. \A i \in Desc : t[i] # Nobody => t[i] = s[i] /\ t[i] # h
    BY <1>2, <1>4, <1>9 DEF Distinct
  <2>5. \A i \in Desc : t[i] # Nobody => Pending(t[i])' /\ req'[t[i]].ok
    BY <2>4, <1>0, <1>1, <1>7, <1>15 DEF Placed
  <2>6. ASSUME NEW g \in Desc, Pending(g)'
        PROVE  \/ g \in dev.works
               \/ \E i \in Desc : avail.ring[i] = g
               \/ \E i \in Desc : t[i] = g
    <3>1. Pending(g) /\ g # h
      BY <2>6, <1>15
    <3>2. \A i \in Desc : s[i] = g => t[i] = g
      BY <3>1, <1>4, <1>9
    <3> QED BY <3>1, <3>2, <1>0, <1>1 DEF Placed
  <2>7. \A i \in Desc : avail'.ring[i] # Nobody =>
           /\ Pending(avail.ring[i])' /\ ~req'[avail'.ring[i]].ok
           /\ avail'.ring[i] \notin dev'.works
    BY <2>2, <1>0, <1>7, <1>15 DEF Placed
  <2>8. \A g \in dev'.works : Pending(g)' /\ ~req'[g].ok
    BY <2>3, <1>0, <1>7, <1>15 DEF Placed
  <2>9. Distinct(avail'.ring)
    BY <1>0, <1>7 DEF Placed
  <2>10. dev' = dev /\ avail' = avail /\ used'.ring = t
    BY <1>7, <1>9
  <2> QED BY <2>1, <2>5, <2>6, <2>7, <2>8, <2>9, <2>10 DEF Placed
<1>17. Rings'
  BY <1>0, <1>2, <1>7, <1>9 DEF Rings
<1>18. Sleepers'
  BY <1>0, <1>7, <1>10 DEF Sleepers, Types, Woken
<1> QED BY <1>11, <1>12, <1>13, <1>14, <1>16, <1>17, <1>18 DEF IInv

\* The device takes one entry of the available ring.
LEMMA DeviceTakeStep ==
  ASSUME IInv, DeviceTake
  PROVE  IInv'
<1>0. Types /\ Counted /\ Locked /\ Asked /\ Placed /\ Rings /\ Sleepers /\ Calm
  BY DEF IInv
<1>1. PICK s : s = avail.ring
  OBVIOUS
<1>2. /\ s \in Ring /\ dev.idx \in Index /\ avail.idx \in Index
      /\ Window(s, dev.idx, avail.idx) /\ Distinct(s) /\ dev.idx # avail.idx
      /\ dev.works \subseteq Desc
  BY <1>0, <1>1 DEF Types, Ring, Index, Rings, Placed, DeviceTake
<1>3. PICK n \in Desc : n = dev.idx % NUM
  BY <1>2, NextIndex
<1>4. PICK h \in Desc : h = s[n]
  BY <1>2, <1>3, Popped
<1>5. Pending(h) /\ ~req[h].ok /\ h # Nobody
  BY <1>0, <1>1, <1>4, BlockIOConstants DEF Placed
<1>6. /\ dev' = [idx |-> After(dev.idx), works |-> dev.works \cup {h}]
      /\ avail' = [avail EXCEPT !.ring[n] = Nobody]
      /\ UNCHANGED <<buf, lock, lru, pinned, pc, at, op, asleep, free, req, used,
                     used_idx, isr, intr, disk, panicked>>
  BY <1>1, <1>3, <1>4 DEF DeviceTake, cache, ctl, After
<1>7. PICK t : t = [s EXCEPT ![n] = Nobody]
  OBVIOUS
<1>8. /\ t \in Ring /\ Window(t, After(dev.idx), avail.idx)
      /\ avail' \in [ring : Ring, idx : Index] /\ avail'.ring = t /\ avail'.idx = avail.idx
      /\ \A i \in Desc : t[i] = IF i = n THEN Nobody ELSE s[i]
  <2>1. t \in Ring /\ \A i \in Desc : t[i] = IF i = n THEN Nobody ELSE s[i]
    BY <1>2, <1>7 DEF Ring
  <2>2. Window(t, After(dev.idx), avail.idx)
    BY <1>2, <1>3, <1>7, Popped
  <2>3. avail \in [ring : Ring, idx : Index]
    BY <1>0 DEF Types, Ring, Index
  <2>4. avail' \in [ring : Ring, idx : Index] /\ avail'.ring = t /\ avail'.idx = avail.idx
    BY <2>1, <2>3, <1>1, <1>6, <1>7
  <2> QED BY <2>1, <2>2, <2>4
<1>9. /\ dev' \in [idx : Index, works : SUBSET Desc]
      /\ dev'.idx = After(dev.idx) /\ dev'.works = dev.works \cup {h}
  BY <1>2, <1>6, NextIndex
<1>10. Types'
  BY <1>0, <1>6, <1>9 DEF Types, Index
<1>11. Counted'
  BY <1>0, <1>6, SameCounts
<1>12. Locked' /\ Calm'
  BY <1>0, <1>6 DEF Locked, Calm
<1>13. Asked'
  BY <1>0, <1>6, SameRequests
<1>14. ASSUME NEW g PROVE Pending(g)' <=> Pending(g)
  BY <1>6 DEF Pending
<1>15. Placed'
  <2>1. Distinct(t) /\ Distinct(used'.ring)
    BY <1>0, <1>2, <1>6, <1>8 DEF Distinct, Placed
  <2>2. \A i \in Desc : t[i] # Nobody => t[i] = s[i] /\ t[i] # h
    BY <1>2, <1>4, <1>8 DEF Distinct
  <2>3. \A i \in Desc : t[i] # Nobody =>
           Pending(t[i])' /\ ~req'[t[i]].ok /\ t[i] \notin dev'.works
    BY <2>2, <1>0, <1>1, <1>6, <1>14 DEF Placed
  <2>4. \A g \in dev'.works : Pending(g)' /\ ~req'[g].ok
    BY <1>0, <1>5, <1>6, <1>14 DEF Placed
  <2>5. \A i \in Desc : used'.ring[i] # Nobody =>
           Pending(used.ring[i])' /\ req'[used'.ring[i]].ok
    BY <1>0, <1>6, <1>14 DEF Placed
  <2>6. ASSUME NEW g \in Desc, Pending(g)'
        PROVE  \/ g \in dev'.works
               \/ \E i \in Desc : t[i] = g
               \/ \E i \in Desc : used'.ring[i] = g
    <3>1. Pending(g)
      BY <2>6, <1>14
    <3>2. \A i \in Desc : s[i] = g => t[i] = g \/ g = h
      BY <1>4, <1>8
    <3> QED BY <3>1, <3>2, <1>0, <1>1, <1>6 DEF Placed
  <2> QED BY <2>1, <2>3, <2>4, <2>5, <2>6, <1>8 DEF Placed
<1>16. Rings'
  BY <1>0, <1>6, <1>8 DEF Rings
<1>17. Sleepers'
  BY <1>0, <1>6 DEF Sleepers
<1> QED BY <1>10, <1>11, <1>12, <1>13, <1>15, <1>16, <1>17 DEF IInv

\* The device answers, in any order.
LEMMA DeviceAnswerStep ==
  ASSUME IInv, NEW h \in Desc, DeviceAnswer(h)
  PROVE  IInv'
<1>0. Types /\ Counted /\ Locked /\ Asked /\ Placed /\ Rings /\ Sleepers /\ Calm
  BY DEF IInv
<1>1. PICK s : s = used.ring
  OBVIOUS
<1>2. /\ s \in Ring /\ used_idx \in Index /\ used.idx \in Index
      /\ Window(s, used_idx, used.idx) /\ Distinct(s)
      /\ h \in dev.works /\ dev.works \subseteq Desc
  BY <1>0, <1>1 DEF Types, Ring, Index, Rings, Placed, DeviceAnswer
<1>3. PICK n \in Desc : n = used.idx % NUM
  BY <1>2, NextIndex
<1>4. Pending(h) /\ ~req[h].ok
  BY <1>0, <1>2 DEF Placed
<1>5. /\ req' = [req EXCEPT ![h].ok = TRUE]
      /\ used' = [ring |-> [s EXCEPT ![n] = h], idx |-> After(used.idx)]
      /\ dev' = [dev EXCEPT !.works = @ \ {h}]
      /\ isr' = TRUE
      /\ UNCHANGED <<lock, lru, pinned, pc, at, op, asleep, free, avail, used_idx,
                     intr, panicked>>
  BY <1>1, <1>3 DEF DeviceAnswer, After, ctl
<1>6. PICK b \in Bufs : b = req[h].buf
  BY <1>0, <1>4, RequestFields DEF Pending
<1>7. /\ buf' \in [Bufs -> Buffer] /\ disk' \in [Blocks -> Vals]
      /\ \A c \in Bufs : /\ buf'[c].block = buf[c].block
                         /\ buf'[c].refcnt = buf[c].refcnt
                         /\ buf'[c].disk = buf[c].disk
  <2>1. buf \in [Bufs -> Buffer] /\ disk \in [Blocks -> Vals] /\ req[h].block \in Blocks
    BY <1>0, <1>4, RequestFields DEF Types, Pending
  <2>2. CASE req[h].op = "write"
    <3>1. buf' = buf /\ disk' = [disk EXCEPT ![req[h].block] = buf[b].data]
      BY <2>2, <1>6 DEF DeviceAnswer
    <3> QED BY <3>1, <2>1 DEF Buffer
  <2>3. CASE req[h].op # "write"
    <3>1. disk' = disk /\ buf' = [buf EXCEPT ![b].data = disk[req[h].block]]
      BY <2>3, <1>6 DEF DeviceAnswer
    <3> QED BY <3>1, <2>1 DEF Buffer
  <2> QED BY <2>2, <2>3
<1>8. /\ req' \in [Desc -> Request \cup {Nobody}]
      /\ \A g \in Desc : g # h => req'[g] = req[g]
      /\ req'[h] # Nobody /\ req'[h].ok
      /\ req'[h].buf = req[h].buf /\ req'[h].op = req[h].op
      /\ req'[h].block = req[h].block /\ req'[h].chain = req[h].chain
  <2>1. req \in [Desc -> Request \cup {Nobody}] /\ req[h] \in Request
    BY <1>0, <1>4 DEF Types, Pending
  <2>2. PICK r : r = [req[h] EXCEPT !.ok = TRUE]
    OBVIOUS
  <2>3. /\ r \in Request /\ r.ok /\ r.buf = req[h].buf /\ r.op = req[h].op
        /\ r.block = req[h].block /\ r.chain = req[h].chain
    BY <2>1, <2>2 DEF Request
  <2>4. req' = [req EXCEPT ![h] = r]
    BY <2>2, <1>5
  <2> QED BY <2>1, <2>3, <2>4, BlockIOConstants
<1>9. PICK t : t = [s EXCEPT ![n] = h]
  OBVIOUS
<1>10. /\ t \in Ring /\ s[n] = Nobody
       /\ \A i \in Desc : t[i] = IF i = n THEN h ELSE s[i]
       /\ used' \in [ring : Ring, idx : Index] /\ used'.ring = t
       /\ used'.idx = After(used.idx)
  <2>1. t \in Ring /\ \A i \in Desc : t[i] = IF i = n THEN h ELSE s[i]
    BY <1>2, <1>9 DEF Ring
  <2>2. s[n] = Nobody
    BY <1>2, <1>3, Pushed
  <2> QED BY <2>1, <2>2, <1>2, <1>5, <1>9, NextIndex
<1>11. /\ dev' \in [idx : Index, works : SUBSET Desc]
       /\ dev'.idx = dev.idx /\ dev'.works = dev.works \ {h}
  <2>1. dev \in [idx : Index, works : SUBSET Desc]
    BY <1>0 DEF Types, Index
  <2> QED BY <2>1, <1>5
<1>12. Types'
  BY <1>0, <1>5, <1>7, <1>8, <1>10, <1>11 DEF Types, Ring, Index
<1>13. Counted'
  BY <1>0, <1>5, <1>7, SameCounts
<1>14. Locked' /\ Calm'
  BY <1>0, <1>5 DEF Locked, Calm
<1>15. ASSUME NEW g \in Desc
       PROVE  /\ req'[g] # Nobody <=> req[g] # Nobody
              /\ req[g] # Nobody =>
                   /\ req[g].buf \in Bufs
                   /\ req'[g].buf = req[g].buf /\ req'[g].op = req[g].op
                   /\ req'[g].block = req[g].block /\ req'[g].chain = req[g].chain
                   /\ req[g].ok => req'[g].ok
  BY <1>0, <1>4, <1>8, RequestFields DEF Pending
<1>16. Asked'
  <2>1. ASSUME NEW g \in Desc, req'[g] # Nobody
        PROVE  /\ g \in req'[g].chain /\ req'[g].chain # {g}
               /\ req'[g].chain \cap free' = {}
               /\ lock'[req'[g].buf] # Nobody
               /\ pc'[lock'[req'[g].buf]] = "wait"
               /\ op'[lock'[req'[g].buf]] = req'[g].op
               /\ buf'[req'[g].buf].block = req'[g].block
               /\ ~buf'[req'[g].buf].disk => req'[g].ok
    BY <2>1, <1>0, <1>5, <1>7, <1>15 DEF Asked
  <2>2. \A f, g \in Desc : f # g /\ req'[f] # Nobody /\ req'[g] # Nobody =>
           req'[f].chain \cap req'[g].chain = {} /\ req'[f].buf # req'[g].buf
    BY <1>0, <1>15 DEF Asked
  <2>3. \A q \in Proc : pc'[q] = "wait" =>
           \E g \in Desc : req'[g] # Nobody /\ req'[g].buf = at'[q]
    BY <1>0, <1>5, <1>15 DEF Asked
  <2>4. \A c \in Bufs : buf'[c].disk =>
           \E g \in Desc : req'[g] # Nobody /\ req'[g].buf = c
    BY <1>0, <1>7, <1>15 DEF Asked
  <2> QED BY <2>1, <2>2, <2>3, <2>4 DEF Asked
<1>17. ASSUME NEW g PROVE Pending(g)' <=> Pending(g)
  BY <1>7, <1>15 DEF Pending
<1>18. Placed'
  <2>1. \A i \in Desc : s[i] # h
    BY <1>0, <1>1, <1>4, BlockIOConstants DEF Placed
  <2>2. Distinct(t) /\ Distinct(avail'.ring)
    BY <2>1, <1>0, <1>2, <1>5, <1>10 DEF Distinct, Placed
  <2>3. ASSUME NEW i \in Desc, avail.ring[i] # Nobody
        PROVE  /\ Pending(avail.ring[i]) /\ ~req'[avail.ring[i]].ok
               /\ avail.ring[i] \notin dev'.works
    <3>1. /\ Pending(avail.ring[i]) /\ ~req[avail.ring[i]].ok
          /\ avail.ring[i] \notin dev.works /\ avail.ring[i] \in Desc
      BY <2>3, <1>0 DEF Placed, Pending
    <3> QED BY <3>1, <1>2, <1>8, <1>11
  <2>4. \A g \in dev'.works : Pending(g)' /\ ~req'[g].ok
    BY <1>0, <1>8, <1>11, <1>17 DEF Placed
  <2>5. ASSUME NEW i \in Desc, t[i] # Nobody
        PROVE  Pending(t[i]) /\ req'[t[i]].ok
    <3>1. CASE i = n
      BY <3>1, <1>4, <1>8, <1>10
    <3>2. CASE i # n
      <4>1. t[i] = s[i] /\ Pending(s[i]) /\ req[s[i]].ok /\ s[i] \in Desc
        BY <3>2, <2>5, <1>0, <1>1, <1>10 DEF Placed, Pending
      <4> QED BY <4>1, <1>8
    <3> QED BY <3>1, <3>2
  <2>6. ASSUME NEW g \in Desc, Pending(g)'
        PROVE  \/ g \in dev'.works
               \/ \E i \in Desc : avail'.ring[i] = g
               \/ \E i \in Desc : t[i] = g
    <3>1. Pending(g)
      BY <2>6, <1>17
    <3>2. \A i \in Desc : s[i] = g => t[i] = g
      BY <1>10, BlockIOConstants
    <3>3. t[n] = h
      BY <1>10
    <3> QED BY <3>1, <3>2, <3>3, <1>0, <1>1, <1>5 DEF Placed
  <2>7. \A i \in Desc : avail'.ring[i] # Nobody =>
           /\ Pending(avail.ring[i])' /\ ~req'[avail'.ring[i]].ok
           /\ avail'.ring[i] \notin dev'.works
    BY <2>3, <1>5, <1>17
  <2>8. \A i \in Desc : t[i] # Nobody => Pending(t[i])' /\ req'[t[i]].ok
    BY <2>5, <1>17
  <2> QED BY <2>2, <2>4, <2>6, <2>7, <2>8, <1>10 DEF Placed
<1>19. Rings'
  <2>1. PICK q : q = req'
    OBVIOUS
  <2>2. \A i \in Desc : t[i] # Nobody => q[t[i]] # Nobody
    BY <2>1, <1>10, <1>18 DEF Placed, Pending
  <2>3. \A g \in Desc : q[g] # Nobody => g \in q[g].chain /\ q[g].chain # {g}
    BY <2>1, <1>16 DEF Asked
  <2>4. \A f, g \in Desc : f # g /\ q[f] # Nobody /\ q[g] # Nobody =>
           q[f].chain \cap q[g].chain = {}
    BY <2>1, <1>16 DEF Asked
  <2>5. q \in [Desc -> Request \cup {Nobody}] /\ Distinct(t)
    BY <2>1, <1>8, <1>10, <1>18 DEF Placed
  <2>6. \E i \in Desc : t[i] = Nobody
    BY <2>2, <2>3, <2>4, <2>5, <1>10, RingHasRoom
  <2>7. Window(t, used_idx, After(used.idx))
    BY <2>6, <1>2, <1>3, <1>9, Pushed
  <2> QED BY <2>7, <1>0, <1>5, <1>10, <1>11 DEF Rings
<1>20. Sleepers'
  BY <1>0, <1>5, <1>7 DEF Sleepers, Types
<1> QED BY <1>12, <1>13, <1>14, <1>16, <1>18, <1>19, <1>20 DEF IInv

-----------------------------------------------------------------------------
(* The theorems. *)

\* The invariant holds once binit and virtio_disk_init are done.
LEMMA StartsSound ==
  Init => IInv
<1> SUFFICES ASSUME Init PROVE IInv
  OBVIOUS
<1>1. 1 \in Bufs /\ 0 \in Index /\ (CHOOSE v \in Vals : TRUE) \in Vals
      /\ \A i \in Bufs : NBUF + 1 - i \in Bufs /\ NBUF + 1 - (NBUF + 1 - i) = i
  BY BlockIOConstants DEF Bufs, Index
<1>2. Types
  BY <1>1 DEF Init, Types, Buffer, Index
<1>3. Counted
  <2>1. \A b \in Bufs : Using(b) = {} /\ Pins(b) = 0
    BY DEF Init, Using, Pins
  <2>2. \A b \in Bufs : buf[b].refcnt = 0 /\ buf[b].block = Nobody
    BY DEF Init
  <2>3. \A b \in Bufs : \E i \in Bufs : lru[i] = b
    BY <1>1 DEF Init
  <2>4. \A b \in Bufs : buf[b].refcnt = Cardinality(Using(b)) + Pins(b)
    BY <2>1, <2>2, FS_EmptySet
  <2>5. pinned = {} /\ \A p \in Proc : pc[p] = "idle"
    BY DEF Init
  <2> QED BY <2>2, <2>3, <2>4, <2>5 DEF Counted
<1>4. Locked /\ Asked
  BY DEF Init, Locked, Asked, Holding
<1>5. Placed
  BY DEF Init, Placed, Distinct, Pending
<1>6. Rings
  <2>1. \A i \in Desc : Gap(0 % NUM, i, NUM) \in Nat
    <3> QED BY BlockIOConstants DEF Gap, Desc
  <2>2. Gap(0, 0, WRAP) = 0
    BY DEF Gap
  <2>3. ASSUME NEW r, r = [i \in Desc |-> Nobody] PROVE Window(r, 0, 0)
    BY <2>1, <2>2, <2>3, BlockIOConstants DEF Window
  <2> QED BY <2>3 DEF Init, Rings
<1>7. Sleepers /\ Calm
  BY DEF Init, Sleepers, Calm
<1> QED BY <1>2, <1>3, <1>4, <1>5, <1>6, <1>7 DEF IInv

\* Every step keeps the invariant.
LEMMA StepsSound ==
  IInv /\ [Next]_vars => IInv'
<1> SUFFICES ASSUME IInv, [Next]_vars PROVE IInv'
  OBVIOUS
<1>1. CASE UNCHANGED vars
  <2>1. UNCHANGED <<buf, lock, lru, pinned, pc, at, op, asleep, free, req, avail, used,
                    dev, used_idx, isr, intr, disk, panicked>>
    BY <1>1 DEF vars, cache, ctl, ring
  <2>2. Types' /\ Locked' /\ Calm'
    BY <2>1 DEF IInv, Types, Locked, Calm
  <2>3. Counted' /\ Asked' /\ Placed'
    BY <2>1, SameCounts, SameRequests, SamePlaces DEF IInv
  <2>4. Rings' /\ Sleepers'
    BY <2>1 DEF IInv, Rings, Sleepers
  <2> QED BY <2>2, <2>3, <2>4 DEF IInv
<1>2. ASSUME NEW p \in Proc, User(p) PROVE IInv'
  BY <1>2, BgetStep, ModifyStep, BwriteStep, BpinStep DEF User
<1>3. ASSUME NEW p \in Proc, Kernel(p) PROVE IInv'
  BY <1>3, AcquireSleepStep, ReleaseSleepStep, BrelseStep, SubmitStep,
     FinishStep DEF Kernel
<1>4. CASE Device
  BY <1>4, DeviceTakeStep, DeviceAnswerStep DEF Device
<1>5. CASE Interrupt
  BY <1>5, IntrStep, IntrEntryStep DEF Interrupt
<1> QED BY <1>1, <1>2, <1>3, <1>4, <1>5 DEF Next

\* The inductive invariant holds in every behaviour of the cache, the driver and
\* the device.
THEOREM BlockIOInvariant == Spec => []IInv
<1> QED BY StartsSound, StepsSound, PTL DEF Spec

\* The invariant says what CacheCoherent says.
LEMMA CoherentState ==
  ASSUME ~MayRunOut, IInv
  PROVE  CacheCoherent
<1>0. Types /\ Counted /\ Locked /\ Asked /\ Calm
  BY DEF IInv
<1>1. ~panicked
  BY <1>0 DEF Calm
<1>2. ASSUME NEW k \in Blocks PROVE Cardinality(Cached(k)) <= 1
  <2>1. \A b, c \in Cached(k) : b = c
    BY <1>0, BlockIOConstants DEF Cached, Counted
  <2>2. CASE Cached(k) = {}
    BY <2>2, FS_EmptySet
  <2>3. CASE Cached(k) # {}
    <3>1. PICK b : Cached(k) = {b}
      BY <2>1, <2>3
    <3>2. Cardinality(Cached(k)) = 1
      BY <3>1, FS_Singleton
    <3> QED BY <3>2
  <2> QED BY <2>2, <2>3
<1>3. ToSet(lru) = Bufs
  BY <1>0 DEF ToSet, Types, Counted
<1>4. \A b \in Bufs : /\ buf[b].refcnt = Cardinality(Using(b))
                               + (IF buf[b].block \in pinned THEN 1 ELSE 0)
                      /\ lock[b] # Nobody => lock[b] \in Using(b)
  <2>1. \A b \in Bufs : lock[b] # Nobody => lock[b] \in Using(b)
    BY <1>0 DEF Locked, Using, Types, Holding
  <2> QED BY <2>1, <1>0 DEF Counted, Pins
<1>5. ASSUME NEW b \in Bufs, buf[b].disk PROVE lock[b] # Nobody /\ pc[lock[b]] = "wait"
  BY <1>0, <1>5 DEF Asked
<1>6. \A p \in Proc : pc[p] \in {"alloc", "wait", "held"} => lock[at[p]] = p
  BY <1>0 DEF Locked, Holding
<1> QED BY <1>1, <1>2, <1>3, <1>4, <1>5, <1>6 DEF CacheCoherent

\* The cache and its locks agree, for programs that leave a buffer to bget: one
\* buffer for a block, uses and pins counted, the lock with a user, the disk at
\* work only for the holder, and no panic.
THEOREM CacheIsCoherent ==
  ASSUME ~MayRunOut
  PROVE  Spec => []CacheCoherent
<1> QED BY BlockIOInvariant, CoherentState, PTL

\* The invariant says what SleeperHasReason says.
LEMMA ReasonedState ==
  ASSUME IInv
  PROVE  SleeperHasReason
<1>0. Types /\ Asked /\ Placed /\ Rings /\ Sleepers
  BY DEF IInv
<1>1. ASSUME NEW p \in Proc, asleep[p], pc[p] = "wait", buf[at[p]].disk
      PROVE  \E h \in Desc : req[h] # Nobody /\ req[h].buf = at[p] /\ InFlight(h)
  <2>1. PICK h \in Desc : req[h] # Nobody /\ req[h].buf = at[p]
    BY <1>0, <1>1 DEF Asked
  <2>2. \/ h \in dev.works
        \/ \E i \in Desc : avail.ring[i] = h
        \/ \E i \in Desc : used.ring[i] = h
    BY <2>1, <1>0, <1>1 DEF Placed, Pending
  <2>3. ASSUME NEW i \in Desc, used.ring[i] = h PROVE isr \/ intr
    <3>1. used.ring \in Ring /\ used_idx \in Index /\ h # Nobody
      BY <1>0, BlockIOConstants DEF Types, Ring, Index
    <3>2. used_idx = used.idx => used.ring[i] = Nobody
      BY <3>1, <1>0, NoEntries DEF Rings
    <3> QED BY <3>1, <3>2, <2>3, <1>0 DEF Rings
  <2> QED BY <2>1, <2>2, <2>3 DEF InFlight
<1> QED BY <1>0, <1>1 DEF SleeperHasReason, Sleepers

\* Nobody sleeps for what is already there or never comes: no ring entry is
\* overwritten or skipped, and no answer is left without an interrupt.
THEOREM NobodySleepsInVain == Spec => []SleeperHasReason
<1> QED BY BlockIOInvariant, ReasonedState, PTL

-----------------------------------------------------------------------------
(***************************************************************************)
(* BlockIO implements BlockStore: whatever is cached, recycled or pinned,  *)
(* every block has one content, which only its owner changes.              *)
(***************************************************************************)

\* A process that has what bread returns, bwrite included.
Owns(p) == pc[p] = "held" \/ op[p] = "write"

\* What is newer than the disk is pinned or owned, so bget never recycles it; a
\* holder reads the disk exactly when the buffer has nothing yet; and an answered
\* request has left the same data on both sides.
DirtyIsKept == \A b \in Bufs :
    Dirty(b) => buf[b].block \in pinned \/ (lock[b] # Nobody /\ Owns(lock[b]))
HolderReads == \A p \in Proc : pc[p] \in Holding => (buf[at[p]].valid <=> Owns(p))
PinIsValid  == \A b \in Bufs : buf[b].block \in pinned => buf[b].valid
Answered    == \A h \in Desc :
    req[h] # Nobody /\ req[h].ok => buf[req[h].buf].data = disk[req[h].block]
HasBlock    == \A b \in Bufs : buf[b].valid => buf[b].block # Nobody
Data == DirtyIsKept /\ HolderReads /\ PinIsValid /\ Answered /\ HasBlock

-----------------------------------------------------------------------------
(* Content and owner, before and after a step. *)

Filled(b, k) == buf[b].block = k /\ buf[b].valid

\* A block's content is in its filled buffer, or on the disk.
LEMMA ContentIs ==
  ASSUME IInv, NEW k \in Blocks
  PROVE  /\ \A b \in Bufs : Filled(b, k) => Content(k) = buf[b].data
         /\ (\A b \in Bufs : ~Filled(b, k)) => Content(k) = disk[k]
<1>1. ASSUME NEW b \in Bufs, Filled(b, k) PROVE Content(k) = buf[b].data
  <2>1. \A c \in Bufs : Filled(c, k) => c = b
    BY <1>1, BlockIOConstants DEF IInv, Counted, Filled
  <2>2. b \in Cached(k) /\ buf[b].valid
    BY <1>1 DEF Filled, Cached
  <2>3. (CHOOSE c \in Cached(k) : buf[c].valid) = b
    BY <2>1, <2>2 DEF Filled, Cached
  <2> QED BY <2>2, <2>3 DEF Content
<1>2. ASSUME \A b \in Bufs : ~Filled(b, k) PROVE Content(k) = disk[k]
  BY <1>2 DEF Content, Cached, Filled
<1> QED BY <1>1, <1>2

\* The same of the state after a step.
LEMMA ContentAfter ==
  ASSUME IInv', NEW k \in Blocks
  PROVE  /\ \A b \in Bufs : Filled(b, k)' => Content(k)' = buf'[b].data
         /\ (\A b \in Bufs : ~Filled(b, k)') => Content(k)' = disk'[k]
<1>1. ASSUME NEW b \in Bufs, Filled(b, k)' PROVE Content(k)' = buf'[b].data
  <2>1. \A c \in Bufs : Filled(c, k)' => c = b
    BY <1>1, BlockIOConstants DEF IInv, Counted, Filled
  <2>2. b \in Cached(k)' /\ buf'[b].valid
    BY <1>1 DEF Filled, Cached
  <2>3. (CHOOSE c \in Cached(k)' : buf'[c].valid) = b
    BY <2>1, <2>2 DEF Filled, Cached
  <2> QED BY <2>2, <2>3 DEF Content
<1>2. ASSUME \A b \in Bufs : ~Filled(b, k)' PROVE Content(k)' = disk'[k]
  BY <1>2 DEF Content, Cached, Filled
<1> QED BY <1>1, <1>2

\* A block has at most one owner.
LEMMA OwnerIs ==
  ASSUME IInv, NEW k \in Blocks
  PROVE  /\ \A p \in Proc : Holds(p, k) => Owner(k) = p
         /\ (\A p \in Proc : ~Holds(p, k)) => Owner(k) = Nobody
<1>1. ASSUME NEW p \in Proc, NEW q \in Proc, Holds(p, k), Holds(q, k) PROVE p = q
  <2>1. at[p] \in Bufs /\ at[q] \in Bufs
    BY DEF IInv, Types
  <2>2. at[p] = at[q]
    BY <2>1, <1>1, BlockIOConstants DEF IInv, Counted, Holds
  <2> QED BY <2>2, <1>1 DEF IInv, Locked, Holds, Holding
<1>2. ASSUME NEW p \in Proc, Holds(p, k) PROVE Owner(k) = p
  BY <1>2, <1>1 DEF Owner
<1> QED BY <1>2 DEF Owner

\* The same of the state after a step.
LEMMA OwnerAfter ==
  ASSUME IInv', NEW k \in Blocks
  PROVE  /\ \A p \in Proc : Holds(p, k)' => Owner(k)' = p
         /\ (\A p \in Proc : ~Holds(p, k)') => Owner(k)' = Nobody
<1>1. ASSUME NEW p \in Proc, NEW q \in Proc, Holds(p, k)', Holds(q, k)' PROVE p = q
  <2>1. at'[p] \in Bufs /\ at'[q] \in Bufs
    BY DEF IInv, Types
  <2>2. at'[p] = at'[q]
    BY <2>1, <1>1, BlockIOConstants DEF IInv, Counted, Holds
  <2> QED BY <2>2, <1>1 DEF IInv, Locked, Holds, Holding
<1>2. ASSUME NEW p \in Proc, Holds(p, k)' PROVE Owner(k)' = p
  BY <1>2, <1>1 DEF Owner
<1> QED BY <1>2 DEF Owner

\* A block whose filled buffer and disk copy are left alone keeps its content.
LEMMA SameContent ==
  ASSUME IInv, IInv', NEW k \in Blocks, disk'[k] = disk[k],
         \A b \in Bufs : /\ Filled(b, k)' <=> Filled(b, k)
                         /\ Filled(b, k) => buf'[b].data = buf[b].data
  PROVE  Content(k)' = Content(k)
<1>1. CASE \E b \in Bufs : Filled(b, k)
  BY <1>1, ContentIs, ContentAfter
<1>2. CASE \A b \in Bufs : ~Filled(b, k)
  BY <1>2, ContentIs, ContentAfter
<1> QED BY <1>1, <1>2

\* A block whose holders are left alone keeps its owner.
LEMMA SameOwner ==
  ASSUME IInv, IInv', NEW k \in Blocks,
         \A p \in Proc : Holds(p, k)' <=> Holds(p, k)
  PROVE  Owner(k)' = Owner(k)
<1>1. CASE \E p \in Proc : Holds(p, k)
  BY <1>1, OwnerIs, OwnerAfter
<1>2. CASE \A p \in Proc : ~Holds(p, k)
  BY <1>2, OwnerIs, OwnerAfter
<1> QED BY <1>1, <1>2

-----------------------------------------------------------------------------
(* Steps of the store, told by the content and the owner of each block. *)

contents == [k \in Blocks |-> Content(k)]
owners   == [k \in Blocks |-> Owner(k)]
StoreStep == Store!Next \/ UNCHANGED <<contents, owners>>

\* A step that changes no content and no owner is a stutter of the store.
LEMMA NoStep ==
  ASSUME \A j \in Blocks : Content(j)' = Content(j),
         \A j \in Blocks : Owner(j)' = Owner(j)
  PROVE  StoreStep
<1>1. contents' = contents /\ owners' = owners
  BY DEF contents, owners
<1> QED BY <1>1 DEF StoreStep

\* A process gets a block nobody has.
LEMMA TakeStep ==
  ASSUME NEW p \in Proc, NEW k \in Blocks, Owner(k) = Nobody, Owner(k)' = p,
         \A j \in Blocks \ {k} : Owner(j)' = Owner(j),
         \A j \in Blocks : Content(j)' = Content(j)
  PROVE  StoreStep
<1>1. contents' = contents
  BY DEF contents
<1>2. owners[k] = Nobody /\ owners' = [owners EXCEPT ![k] = p]
  BY DEF owners
<1>3. Store!Take(p, k)
  BY <1>1, <1>2 DEF Store!Take, contents, owners
<1> QED BY <1>3 DEF StoreStep, Store!Next

\* The owner gives its block up.
LEMMA GiveStep ==
  ASSUME NEW p \in Proc, NEW k \in Blocks, Owner(k) = p, Owner(k)' = Nobody,
         \A j \in Blocks \ {k} : Owner(j)' = Owner(j),
         \A j \in Blocks : Content(j)' = Content(j)
  PROVE  StoreStep
<1>1. contents' = contents
  BY DEF contents
<1>2. owners[k] = p /\ owners' = [owners EXCEPT ![k] = Nobody]
  BY DEF owners
<1>3. Store!Give(p, k)
  BY <1>1, <1>2 DEF Store!Give, contents, owners
<1> QED BY <1>3 DEF StoreStep, Store!Next

\* The owner changes its block.
LEMMA ChangeStep ==
  ASSUME NEW p \in Proc, NEW k \in Blocks, NEW v \in Vals, Owner(k) = p,
         Content(k)' = v,
         \A j \in Blocks \ {k} : Content(j)' = Content(j),
         \A j \in Blocks : Owner(j)' = Owner(j)
  PROVE  StoreStep
<1>1. owners' = owners
  BY DEF owners
<1>2. owners[k] = p /\ contents' = [contents EXCEPT ![k] = v]
  BY DEF owners, contents
<1>3. Store!Change(p, k, v)
  BY <1>1, <1>2 DEF Store!Change, contents, owners
<1> QED BY <1>3 DEF StoreStep, Store!Next

-----------------------------------------------------------------------------
(* The steps of BlockIO. *)

\* The fields that the store is told by.
SameBuffers == \A b \in Bufs : /\ buf'[b].block = buf[b].block
                               /\ buf'[b].valid = buf[b].valid
                               /\ buf'[b].data  = buf[b].data

\* Contents survive a step that leaves blocks, valid bits and data alone.
LEMMA SameContents ==
  ASSUME IInv, IInv', SameBuffers, disk' = disk
  PROVE  \A j \in Blocks : Content(j)' = Content(j)
<1>1. ASSUME NEW j \in Blocks PROVE Content(j)' = Content(j)
  <2>1. \A b \in Bufs : /\ Filled(b, j)' <=> Filled(b, j)
                        /\ Filled(b, j) => buf'[b].data = buf[b].data
    BY DEF Filled, SameBuffers
  <2> QED BY <2>1, SameContent
<1> QED BY <1>1

\* Owners survive a step in which no process moves.
LEMMA SameOwners ==
  ASSUME IInv, IInv', SameBuffers, UNCHANGED <<pc, at, op>>
  PROVE  \A j \in Blocks : Owner(j)' = Owner(j)
<1>1. ASSUME NEW j \in Blocks PROVE Owner(j)' = Owner(j)
  <2>1. \A p \in Proc : at[p] \in Bufs
    BY DEF IInv, Types
  <2>2. \A p \in Proc : Holds(p, j)' <=> Holds(p, j)
    BY <2>1 DEF Holds, SameBuffers
  <2> QED BY <2>2, SameOwner
<1> QED BY <1>1

\* A step of the driver that touches neither buffers nor processes.
LEMMA Unseen ==
  ASSUME IInv, IInv', Data, UNCHANGED <<buf, lock, pinned, pc, at, op, req, disk>>
  PROVE  Data' /\ StoreStep
<1>1. Data'
  BY DEF Data, DirtyIsKept, HolderReads, PinIsValid, Answered, HasBlock, Dirty, Owns
<1>2. SameBuffers
  BY DEF SameBuffers
<1> QED BY <1>1, <1>2, SameContents, SameOwners, NoStep

\* A panic is no step of the store.
LEMMA PanicStore ==
  ASSUME IInv, IInv', Data, Panic
  PROVE  Data' /\ StoreStep
<1> QED BY Unseen DEF Panic, cache, ctl, ring

\* bget recycles only what the disk has too.
LEMMA BgetStore ==
  ASSUME IInv, IInv', Data, NEW p \in Proc, NEW k \in Blocks, Bget(p, k)
  PROVE  Data' /\ StoreStep
<1>0. Types /\ Counted /\ Locked /\ Asked /\ Types' /\ Counted' /\ Locked'
  BY DEF IInv
<1>1. CASE Panic
  BY <1>1, PanicStore
<1>2. CASE ~Panic
  <2> DEFINE hit == Cached(k) # {}
             b   == IF hit THEN CHOOSE c \in Cached(k) : TRUE ELSE Recyclable
  <2>1. /\ ~panicked /\ pc[p] = "idle" /\ (hit \/ Unused # {})
        /\ UNCHANGED <<lock, pinned, op, req, disk>>
    BY <1>2 DEF Bget, ring
  <2>b. buf' = IF hit THEN [buf EXCEPT ![b].refcnt = @ + 1]
               ELSE [buf EXCEPT ![b].block = k, ![b].valid = FALSE, ![b].refcnt = 1]
    BY <1>2 DEF Bget
  <2>a. at' = [at EXCEPT ![p] = b] /\ pc' = [pc EXCEPT ![p] = "lock"]
    BY <1>2 DEF Bget
  <2>2. b \in Bufs
    BY <2>1, <1>0, RecycledIsUnused DEF Cached
  <2> HIDE DEF b
  <2>3. PICK c \in Bufs : c = b
    BY <2>2
  <2>4. buf \in [Bufs -> Buffer] /\ pc \in [Proc -> {"idle", "lock", "drop"} \cup Holding]
        /\ at \in [Proc -> Bufs] /\ op \in [Proc -> {"read", "write"}]
    BY <1>0 DEF Types
  <2>5. op[p] = "read"
    BY <1>0, <2>1, <2>4 DEF Locked
  <2>6. \A q \in Proc \ {p} : at'[q] = at[q] /\ pc'[q] = pc[q]
    BY <2>a, <2>4
  <2>7. pc'[p] = "lock" /\ at'[p] = c
    BY <2>a, <2>3, <2>4
  <2>8. CASE hit
    <3>1. SameBuffers
      BY <2>b, <2>2, <2>4, <2>8 DEF SameBuffers, Buffer
    <3>2. \A j \in Blocks : Content(j)' = Content(j)
      BY <3>1, <2>1, SameContents
    <3>3. ASSUME NEW j \in Blocks PROVE Owner(j)' = Owner(j)
      <4>1. \A q \in Proc : Holds(q, j)' <=> Holds(q, j)
        BY <2>1, <2>4, <2>5, <2>6, <2>7, <3>1 DEF Holds, SameBuffers
      <4> QED BY <4>1, SameOwner
    <3>4. Data'
      <4>1. HolderReads'
        BY <2>1, <2>4, <2>6, <2>7, <3>1 DEF Data, HolderReads, Owns, SameBuffers, Holding
      <4>2. PinIsValid' /\ HasBlock'
        BY <2>1, <3>1 DEF Data, PinIsValid, HasBlock, SameBuffers
      <4>3. Answered'
        BY <2>1, <3>1, <1>0 DEF Data, Answered, SameBuffers, Types, Request
      <4>4. DirtyIsKept'
        <5>1. \A a \in Bufs : Dirty(a)' <=> Dirty(a)
          BY <2>1, <3>1 DEF SameBuffers, Dirty
        <5>2. \A a \in Bufs : lock[a] # Nobody => pc'[lock[a]] = pc[lock[a]]
          BY <1>0, <2>1, <2>6 DEF Locked, Types, Holding
        <5> QED BY <5>1, <5>2, <2>1, <3>1 DEF Data, DirtyIsKept, Owns, SameBuffers
      <4> QED BY <4>1, <4>2, <4>3, <4>4 DEF Data
    <3> QED BY <3>2, <3>3, <3>4, NoStep
  <2>9. CASE ~hit
    <3>1. buf[c].refcnt = 0
      BY <2>1, <2>3, <2>9, <1>0, RecycledIsUnused DEF b
    <3>2. buf[c].block \notin pinned /\ \A q \in Proc : pc[q] # "idle" => at[q] # c
      <4>1. Using(c) = {} /\ Pins(c) = 0
        <5>1. IsFiniteSet(Using(c)) /\ Cardinality(Using(c)) \in Nat
          BY FiniteUsers DEF Using
        <5>2. Pins(c) \in {0, 1}
          BY DEF Pins
        <5>3. buf[c].refcnt = Cardinality(Using(c)) + Pins(c)
          BY <1>0 DEF Counted
        <5>4. Cardinality(Using(c)) = 0 /\ Pins(c) = 0
          BY <5>1, <5>2, <5>3, <3>1
        <5> QED BY <5>1, <5>4, FS_EmptySet
      <4> QED BY <4>1 DEF Using, Pins
    <3>3. lock[c] = Nobody
      BY <3>2, <1>0, BlockIOConstants DEF Locked, Types, Holding
    <3>4. ~Dirty(c)
      BY <3>2, <3>3 DEF Data, DirtyIsKept
    <3>5. \A a \in Bufs \ {c} : buf'[a] = buf[a]
      BY <2>b, <2>3, <2>4, <2>9
    <3>6. buf'[c].block = k /\ buf'[c].valid = FALSE
      BY <2>b, <2>3, <2>4, <2>9 DEF Buffer
    <3>7. \A a \in Bufs : buf[a].block # k
      BY <2>9 DEF Cached
    <3>8. k \notin pinned
      BY <3>7, <1>0 DEF Counted
    <3>9. ASSUME NEW j \in Blocks PROVE Content(j)' = Content(j)
      <4>1. CASE Filled(c, j)
        <5>1. Content(j) = buf[c].data
          BY <4>1, ContentIs
        <5>2. buf[c].data = disk[j]
          BY <4>1, <3>4 DEF Filled, Dirty
        <5>3. \A a \in Bufs : ~Filled(a, j)'
          <6>1. \A a \in Bufs \ {c} : ~Filled(a, j)
            BY <4>1, <1>0, BlockIOConstants DEF Counted, Filled
          <6> QED BY <6>1, <3>5, <3>6 DEF Filled
        <5> QED BY <5>1, <5>2, <5>3, <2>1, ContentAfter
      <4>2. CASE ~Filled(c, j)
        <5>1. \A a \in Bufs : /\ Filled(a, j)' <=> Filled(a, j)
                              /\ Filled(a, j) => buf'[a].data = buf[a].data
          BY <4>2, <3>5, <3>6 DEF Filled
        <5> QED BY <5>1, <2>1, SameContent
      <4> QED BY <4>1, <4>2
    <3>10. ASSUME NEW j \in Blocks PROVE Owner(j)' = Owner(j)
      <4>1. ASSUME NEW q \in Proc PROVE Holds(q, j)' <=> Holds(q, j)
        <5>1. CASE q = p
          BY <5>1, <2>1, <2>5, <2>7 DEF Holds
        <5>2. CASE q # p /\ pc[q] = "idle"
          BY <5>2, <2>6, <2>1 DEF Holds
        <5>3. CASE q # p /\ pc[q] # "idle"
          <6>1. buf'[at[q]] = buf[at[q]]
            BY <5>3, <3>2, <3>5, <2>4
          <6> QED BY <6>1, <5>3, <2>6, <2>1 DEF Holds
        <5> QED BY <5>1, <5>2, <5>3
      <4> QED BY <4>1, SameOwner
    <3>11. Data'
      <4>1. HolderReads'
        <5>1. ASSUME NEW q \in Proc, pc'[q] \in Holding
              PROVE  buf'[at'[q]] = buf[at[q]] /\ q # p
          <6>1. q # p
            BY <5>1, <2>7 DEF Holding
          <6>2. at[q] # c
            BY <6>1, <5>1, <2>6, <3>2 DEF Holding
          <6> QED BY <6>1, <6>2, <3>5, <2>6, <2>4
        <5> QED BY <5>1, <2>1, <2>6 DEF Data, HolderReads, Owns
      <4>2. PinIsValid' /\ HasBlock'
        BY <2>1, <3>5, <3>6, <3>8 DEF Data, PinIsValid, HasBlock
      <4>3. Answered'
        <5>1. \A h \in Desc : req[h] # Nobody => req[h].buf \in Bufs /\ req[h].buf # c
          BY <3>3, <1>0 DEF Asked, Types, Request
        <5> QED BY <5>1, <2>1, <3>5 DEF Data, Answered
      <4>4. DirtyIsKept'
        <5>1. \A a \in Bufs : Dirty(a)' => a # c /\ Dirty(a)
          BY <2>1, <3>5, <3>6 DEF Dirty
        <5>2. \A a \in Bufs : lock[a] # Nobody => pc'[lock[a]] = pc[lock[a]]
          BY <1>0, <2>1, <2>6 DEF Locked, Types, Holding
        <5> QED BY <5>1, <5>2, <2>1, <3>5 DEF Data, DirtyIsKept, Owns
      <4> QED BY <4>1, <4>2, <4>3, <4>4 DEF Data
    <3> QED BY <3>9, <3>10, <3>11, NoStep
  <2> QED BY <2>8, <2>9
<1> QED BY <1>1, <1>2

\* acquiresleep of a valid buffer gives its block to the process.
LEMMA AcquireSleepStore ==
  ASSUME IInv, IInv', Data, NEW p \in Proc, AcquireSleep(p)
  PROVE  Data' /\ StoreStep
<1>0. Types /\ Counted /\ Locked /\ Asked /\ Types' /\ Counted' /\ Locked'
  BY DEF IInv
<1>1. pc[p] = "lock" /\ UNCHANGED <<buf, pinned, at, op, req, disk>>
  BY DEF AcquireSleep, ring
<1>2. CASE lock[at[p]] # Nobody
  <2>1. UNCHANGED <<lock, pc>>
    BY <1>2 DEF AcquireSleep
  <2> QED BY <2>1, <1>1, Unseen
<1>3. CASE lock[at[p]] = Nobody
  <2>1. PICK b \in Bufs, k \in Blocks : b = at[p] /\ k = buf[b].block
    <3>1. at[p] \in Bufs /\ buf \in [Bufs -> Buffer]
      BY <1>0 DEF Types
    <3>2. buf[at[p]].block # Nobody
      BY <1>0, <1>1 DEF Counted
    <3> QED BY <3>1, <3>2 DEF Buffer
  <2>2. /\ lock' = [lock EXCEPT ![b] = p]
        /\ pc' = [pc EXCEPT ![p] = IF buf[b].valid THEN "held" ELSE "alloc"]
    BY <1>3, <2>1 DEF AcquireSleep
  <2>3. op[p] = "read"
    BY <1>0, <1>1 DEF Locked, Types
  <2>4. /\ pc'[p] = IF buf[b].valid THEN "held" ELSE "alloc"
        /\ \A q \in Proc \ {p} : pc'[q] = pc[q]
    BY <2>2, <1>0 DEF Types
  <2>5. /\ lock'[b] = p
        /\ \A a \in Bufs \ {b} : lock'[a] = lock[a]
    BY <2>2, <1>0 DEF Types
  <2>6. SameBuffers
    BY <1>1 DEF SameBuffers
  <2>7. \A j \in Blocks : Content(j)' = Content(j)
    BY <2>6, <1>1, SameContents
  <2>8. Data'
    <3>1. HolderReads'
      BY <1>1, <2>1, <2>3, <2>4 DEF Data, HolderReads, Owns
    <3>2. PinIsValid' /\ HasBlock' /\ Answered'
      BY <1>1 DEF Data, PinIsValid, HasBlock, Answered
    <3>3. DirtyIsKept'
      <4>1. \A a \in Bufs : Dirty(a)' <=> Dirty(a)
        BY <1>1 DEF Dirty
      <4>2. Dirty(b) => buf[b].block \in pinned
        BY <1>3, <2>1 DEF Data, DirtyIsKept
      <4>3. \A a \in Bufs \ {b} : lock[a] # Nobody => lock[a] # p /\ lock[a] \in Proc
        BY <1>0, <2>1 DEF Locked, Types
      <4> QED BY <4>1, <4>2, <4>3, <1>1, <2>4, <2>5 DEF Data, DirtyIsKept, Owns
    <3> QED BY <3>1, <3>2, <3>3 DEF Data
  <2>9. ~Holds(p, k) /\ \A j \in Blocks : Holds(p, j)' => pc'[p] = "held" /\ j = k
    BY <1>1, <2>1, <2>3, <2>4 DEF Holds
  <2>10. \A q \in Proc \ {p}, j \in Blocks : Holds(q, j)' <=> Holds(q, j)
    BY <1>1, <2>4 DEF Holds
  <2>11. \A j \in Blocks : j # k \/ ~buf[b].valid => Owner(j)' = Owner(j)
    <3>1. ASSUME NEW j \in Blocks, j # k \/ ~buf[b].valid
          PROVE  \A q \in Proc : Holds(q, j)' <=> Holds(q, j)
      BY <3>1, <1>1, <2>1, <2>3, <2>4, <2>10 DEF Holds
    <3> QED BY <3>1, SameOwner
  <2>12. CASE ~buf[b].valid
    BY <2>12, <2>7, <2>8, <2>11, NoStep
  <2>13. CASE buf[b].valid
    <3>1. ASSUME NEW q \in Proc PROVE ~Holds(q, k)
      <4>1. CASE q = p
        BY <4>1, <2>9
      <4>2. CASE q # p /\ at[q] = b
        BY <4>2, <1>0, <1>3, <2>1, BlockIOConstants DEF Holds, Locked, Holding
      <4>3. CASE at[q] # b
        <5>1. at[q] \in Bufs
          BY <1>0 DEF Types
        <5>2. k # Nobody
          BY BlockIOConstants
        <5>3. \A a \in Bufs : buf[a].block = k => a = b
          BY <5>2, <1>0, <2>1 DEF Counted
        <5> QED BY <5>1, <5>3, <4>3 DEF Holds
      <4> QED BY <4>1, <4>2, <4>3
    <3>2. Owner(k) = Nobody
      BY <3>1, OwnerIs
    <3>3. Holds(p, k)'
      BY <1>1, <2>1, <2>4, <2>13 DEF Holds
    <3>4. Owner(k)' = p
      BY <3>3, OwnerAfter
    <3> QED BY <3>2, <3>4, <2>7, <2>8, <2>11, TakeStep
  <2> QED BY <2>12, <2>13
<1> QED BY <1>2, <1>3

\* The holder changes its own block only.
LEMMA ModifyStore ==
  ASSUME IInv, IInv', Data, NEW p \in Proc, NEW v \in Vals, Modify(p, v)
  PROVE  Data' /\ StoreStep
<1>0. Types /\ Counted /\ Locked /\ Asked /\ Types'
  BY DEF IInv
<1>1. pc[p] = "held" /\ UNCHANGED <<lock, pinned, pc, at, op, req, disk>>
  BY DEF Modify, ctl, ring
<1>2. PICK b \in Bufs, k \in Blocks : b = at[p] /\ k = buf[b].block
  BY <1>0, <1>1 DEF Types, Counted, Buffer
<1>3. buf \in [Bufs -> Buffer]
  BY <1>0 DEF Types
<1>4. /\ \A a \in Bufs \ {b} : buf'[a] = buf[a]
      /\ buf'[b].data = v /\ buf'[b].block = k /\ buf'[b].valid = buf[b].valid
  BY <1>2, <1>3 DEF Modify, Buffer
<1>5. lock[b] = p /\ Owns(p)
  BY <1>0, <1>1, <1>2 DEF Locked, Holding, Owns
<1>6. buf[b].valid
  BY <1>5, <1>1, <1>2 DEF Data, HolderReads, Holding
<1>7. Data'
  <2>1. HolderReads'
    BY <1>0, <1>1, <1>4 DEF Data, HolderReads, Owns, Types
  <2>2. PinIsValid' /\ HasBlock'
    BY <1>1, <1>2, <1>4 DEF Data, PinIsValid, HasBlock
  <2>3. Answered'
    <3>1. \A h \in Desc : req[h] # Nobody => req[h].buf \in Bufs /\ req[h].buf # b
      BY <1>0, <1>1, <1>5 DEF Asked, Types, Request
    <3> QED BY <3>1, <1>1, <1>4 DEF Data, Answered
  <2>4. DirtyIsKept'
    <3>1. \A a \in Bufs : Dirty(a)' => a = b \/ Dirty(a)
      BY <1>1, <1>4 DEF Dirty
    <3>2. p # Nobody
      BY BlockIOConstants
    <3> QED BY <3>1, <3>2, <1>1, <1>4, <1>5 DEF Data, DirtyIsKept, Owns
  <2> QED BY <2>1, <2>2, <2>3, <2>4 DEF Data
<1>8. ASSUME NEW j \in Blocks PROVE Owner(j)' = Owner(j)
  <2>1. \A q \in Proc : Holds(q, j)' <=> Holds(q, j)
    BY <1>0, <1>1, <1>2, <1>4 DEF Holds, Types
  <2> QED BY <2>1, SameOwner
<1>9. ASSUME NEW j \in Blocks \ {k} PROVE Content(j)' = Content(j)
  <2>1. \A a \in Bufs : /\ Filled(a, j)' <=> Filled(a, j)
                        /\ Filled(a, j) => buf'[a].data = buf[a].data
    BY <1>2, <1>4 DEF Filled
  <2> QED BY <2>1, <1>1, SameContent
<1>10. Content(k)' = v
  BY <1>4, <1>6, ContentAfter DEF Filled
<1>11. Owner(k) = p
  BY <1>1, <1>2, OwnerIs DEF Holds
<1> QED BY <1>7, <1>8, <1>9, <1>10, <1>11, ChangeStep

\* bwrite keeps the block owned.
LEMMA BwriteStore ==
  ASSUME IInv, IInv', Data, NEW p \in Proc, Bwrite(p)
  PROVE  Data' /\ StoreStep
<1>0. Types /\ Counted /\ Locked /\ Asked /\ Types'
  BY DEF IInv
<1>1. CASE Panic
  BY <1>1, PanicStore
<1>2. CASE ~Panic
  <2>1. pc[p] = "held" /\ UNCHANGED <<buf, lock, pinned, at, req, disk>>
    BY <1>2 DEF Bwrite, cache, ring
  <2>2. pc' = [pc EXCEPT ![p] = "alloc"] /\ op' = [op EXCEPT ![p] = "write"]
    BY <1>2 DEF Bwrite
  <2>3. /\ pc'[p] = "alloc" /\ op'[p] = "write"
        /\ \A q \in Proc \ {p} : pc'[q] = pc[q] /\ op'[q] = op[q]
    BY <2>2, <1>0 DEF Types
  <2>4. Data'
    <3>1. \A q \in Proc : (Owns(q)' <=> Owns(q)) /\ (pc'[q] \in Holding <=> pc[q] \in Holding)
      BY <2>1, <2>3 DEF Owns, Holding
    <3>2. HolderReads' /\ PinIsValid' /\ HasBlock' /\ Answered'
      BY <3>1, <2>1 DEF Data, HolderReads, PinIsValid, HasBlock, Answered
    <3>3. DirtyIsKept'
      <4>1. \A a \in Bufs : Dirty(a)' <=> Dirty(a)
        BY <2>1 DEF Dirty
      <4>2. \A a \in Bufs : lock[a] # Nobody => lock[a] \in Proc
        BY <1>0 DEF Types
      <4> QED BY <4>1, <4>2, <2>1, <2>3 DEF Data, DirtyIsKept, Owns
    <3> QED BY <3>2, <3>3 DEF Data
  <2>5. ASSUME NEW j \in Blocks PROVE Owner(j)' = Owner(j)
    <3>1. \A q \in Proc : Holds(q, j)' <=> Holds(q, j)
      BY <2>1, <2>3 DEF Holds
    <3> QED BY <3>1, SameOwner
  <2>6. SameBuffers
    BY <2>1 DEF SameBuffers
  <2> QED BY <2>1, <2>4, <2>5, <2>6, SameContents, NoStep
<1> QED BY <1>1, <1>2

\* Only what is on the disk is unpinned.
LEMMA PinStore ==
  ASSUME IInv, IInv', Data, NEW p \in Proc, Bpin(p) \/ Bunpin(p)
  PROVE  Data' /\ StoreStep
<1>0. Types /\ Counted /\ Locked /\ Asked /\ Types'
  BY DEF IInv
<1>1. pc[p] = "held" /\ UNCHANGED <<lock, pc, at, op, req, disk>>
  BY DEF Bpin, Bunpin, ctl, ring
<1>2. PICK b \in Bufs : b = at[p]
  BY <1>0 DEF Types
<1>3. SameBuffers
  <2>1. buf \in [Bufs -> Buffer]
    BY <1>0 DEF Types
  <2>2. buf' = [buf EXCEPT ![b] = [buf[b] EXCEPT !.refcnt = buf'[b].refcnt]]
    BY <2>1, <1>2 DEF Bpin, Bunpin, Buffer
  <2> QED BY <2>1, <2>2 DEF SameBuffers, Buffer
<1>4. Data'
  <2>1. lock[b] = p /\ Owns(p) /\ p # Nobody
    BY <1>0, <1>1, <1>2, BlockIOConstants DEF Locked, Holding, Owns
  <2>2. buf[b].valid
    BY <1>1, <1>2, <2>1 DEF Data, HolderReads, Holding
  <2>3. HolderReads' /\ HasBlock'
    <3>1. \A q \in Proc : at[q] \in Bufs
      BY <1>0 DEF Types
    <3> QED BY <3>1, <1>1, <1>3 DEF Data, HolderReads, HasBlock, SameBuffers, Owns
  <2>4. Answered'
    <3>1. \A h \in Desc : req[h] # Nobody => req[h].buf \in Bufs
      BY <1>0 DEF Types, Request
    <3> QED BY <3>1, <1>1, <1>3 DEF Data, Answered, SameBuffers
  <2>5. \A a \in Bufs : buf'[a].block \in pinned' => buf[a].block \in pinned \/ a = b
    <3>1. pinned' \subseteq pinned \cup {buf[b].block}
      BY <1>2 DEF Bpin, Bunpin
    <3>2. buf[b].block # Nobody
      BY <1>0, <1>1, <1>2 DEF Counted
    <3> QED BY <3>1, <3>2, <1>0, <1>3 DEF SameBuffers, Counted
  <2>6. PinIsValid'
    BY <2>2, <2>5, <1>3 DEF Data, PinIsValid, SameBuffers
  <2>7. DirtyIsKept'
    <3>1. \A a \in Bufs : Dirty(a)' <=> Dirty(a)
      BY <1>1, <1>3 DEF Dirty, SameBuffers
    <3>2. \A a \in Bufs \ {b} : buf[a].block \in pinned => buf'[a].block \in pinned'
      <4>1. pinned \ {buf[b].block} \subseteq pinned'
        BY <1>2 DEF Bpin, Bunpin
      <4>2. \A a \in Bufs \ {b} : buf[a].block # buf[b].block \/ buf[b].block = Nobody
        BY <1>0 DEF Counted
      <4>3. buf[b].block # Nobody
        BY <1>0, <1>1, <1>2 DEF Counted
      <4> QED BY <4>1, <4>2, <4>3, <1>3 DEF SameBuffers
    <3> QED BY <3>1, <3>2, <2>1, <1>1, <1>3 DEF Data, DirtyIsKept, Owns, SameBuffers
  <2> QED BY <2>3, <2>4, <2>6, <2>7 DEF Data
<1> QED BY <1>1, <1>3, <1>4, SameContents, SameOwners, NoStep

\* releasesleep gives the block up; what is newer than the disk is pinned.
LEMMA ReleaseSleepStore ==
  ASSUME IInv, IInv', Data, NEW p \in Proc, ReleaseSleep(p)
  PROVE  Data' /\ StoreStep
<1>0. Types /\ Counted /\ Locked /\ Asked /\ Types'
  BY DEF IInv
<1>1. CASE Panic
  BY <1>1, PanicStore
<1>2. CASE ~Panic
  <2>1. pc[p] = "held" /\ UNCHANGED <<buf, pinned, at, op, req, disk>>
    BY <1>2 DEF ReleaseSleep, ring
  <2>2. PICK b \in Bufs, k \in Blocks : b = at[p] /\ k = buf[b].block
    <3>1. at[p] \in Bufs /\ buf \in [Bufs -> Buffer]
      BY <1>0 DEF Types
    <3>2. buf[at[p]].block # Nobody
      BY <1>0, <2>1 DEF Counted
    <3> QED BY <3>1, <3>2 DEF Buffer
  <2>3. /\ lock' = [lock EXCEPT ![b] = Nobody] /\ pc' = [pc EXCEPT ![p] = "drop"]
        /\ Dirty(b) => buf[b].block \in pinned
    BY <1>2, <2>2 DEF ReleaseSleep
  <2>4. /\ pc'[p] = "drop" /\ \A q \in Proc \ {p} : pc'[q] = pc[q]
        /\ \A a \in Bufs \ {b} : lock'[a] = lock[a]
    BY <2>3, <1>0 DEF Types
  <2>5. op[p] = "read"
    BY <1>0, <2>1 DEF Locked, Types
  <2>6. Data'
    <3>1. HolderReads'
      BY <2>1, <2>4 DEF Data, HolderReads, Owns, Holding
    <3>2. PinIsValid' /\ HasBlock' /\ Answered'
      BY <2>1 DEF Data, PinIsValid, HasBlock, Answered
    <3>3. DirtyIsKept'
      <4>1. \A a \in Bufs : Dirty(a)' <=> Dirty(a)
        BY <2>1 DEF Dirty
      <4>2. \A a \in Bufs \ {b} : lock[a] # Nobody => lock[a] # p /\ lock[a] \in Proc
        BY <1>0, <2>2 DEF Locked, Types
      <4> QED BY <4>1, <4>2, <2>1, <2>3, <2>4 DEF Data, DirtyIsKept, Owns
    <3> QED BY <3>1, <3>2, <3>3 DEF Data
  <2>7. \A q \in Proc \ {p}, j \in Blocks : Holds(q, j)' <=> Holds(q, j)
    BY <2>1, <2>4 DEF Holds
  <2>8. \A j \in Blocks : ~Holds(p, j)' /\ (Holds(p, j) <=> j = k)
    BY <2>1, <2>2, <2>4, <2>5 DEF Holds
  <2>9. ASSUME NEW j \in Blocks \ {k} PROVE Owner(j)' = Owner(j)
    BY <2>7, <2>8, SameOwner
  <2>10. Owner(k) = p
    BY <2>8, OwnerIs
  <2>11. Owner(k)' = Nobody
    <3>1. ASSUME NEW q \in Proc, q # p PROVE ~Holds(q, k)
      BY <3>1, <2>10, OwnerIs
    <3> QED BY <3>1, <2>7, <2>8, OwnerAfter
  <2>12. SameBuffers
    BY <2>1 DEF SameBuffers
  <2> QED BY <2>1, <2>6, <2>9, <2>10, <2>11, <2>12, SameContents, GiveStep
<1> QED BY <1>1, <1>2

\* The end of brelse moves a buffer in the list only.
LEMMA BrelseStore ==
  ASSUME IInv, IInv', Data, NEW p \in Proc, Brelse(p)
  PROVE  Data' /\ StoreStep
<1>0. Types /\ Counted /\ Locked /\ Asked /\ Types'
  BY DEF IInv
<1>1. pc[p] = "drop" /\ UNCHANGED <<lock, pinned, op, req, disk>>
  BY DEF Brelse, ring
<1>2. PICK b \in Bufs : b = at[p]
  BY <1>0 DEF Types
<1>3. SameBuffers
  <2>1. buf \in [Bufs -> Buffer]
    BY <1>0 DEF Types
  <2>2. buf' = [buf EXCEPT ![b] = [buf[b] EXCEPT !.refcnt = buf'[b].refcnt]]
    BY <2>1, <1>2 DEF Brelse, Buffer
  <2> QED BY <2>1, <2>2 DEF SameBuffers, Buffer
<1>4. /\ pc'[p] = "idle"
      /\ \A q \in Proc \ {p} : pc'[q] = pc[q] /\ at'[q] = at[q]
  BY <1>0 DEF Brelse, Types
<1>5. op[p] = "read"
  BY <1>0, <1>1 DEF Locked, Types
<1>6. Data'
  <2>1. \A q \in Proc : at[q] \in Bufs
    BY <1>0 DEF Types
  <2>2. HolderReads'
    BY <2>1, <1>1, <1>3, <1>4 DEF Data, HolderReads, SameBuffers, Owns, Holding
  <2>3. HasBlock' /\ PinIsValid'
    BY <1>1, <1>3 DEF Data, HasBlock, PinIsValid, SameBuffers
  <2>4. Answered'
    <3>1. \A h \in Desc : req[h] # Nobody => req[h].buf \in Bufs
      BY <1>0 DEF Types, Request
    <3> QED BY <3>1, <1>1, <1>3 DEF Data, Answered, SameBuffers
  <2>5. DirtyIsKept'
    <3>1. \A a \in Bufs : Dirty(a)' <=> Dirty(a)
      BY <1>1, <1>3 DEF Dirty, SameBuffers
    <3>2. \A a \in Bufs : lock[a] # Nobody => lock[a] # p /\ lock[a] \in Proc
      BY <1>0, <1>1 DEF Locked, Types, Holding
    <3> QED BY <3>1, <3>2, <1>1, <1>3, <1>4 DEF Data, DirtyIsKept, Owns, SameBuffers
  <2> QED BY <2>2, <2>3, <2>4, <2>5 DEF Data
<1>7. ASSUME NEW j \in Blocks PROVE Owner(j)' = Owner(j)
  <2>1. \A q \in Proc : at[q] \in Bufs
    BY <1>0 DEF Types
  <2>2. \A q \in Proc : Holds(q, j)' <=> Holds(q, j)
    BY <2>1, <1>1, <1>3, <1>4, <1>5 DEF Holds, SameBuffers
  <2> QED BY <2>2, SameOwner
<1> QED BY <1>1, <1>3, <1>6, <1>7, SameContents, NoStep

\* A request put in the ring changes no block.
LEMMA SubmitStore ==
  ASSUME IInv, IInv', Data, NEW p \in Proc, Submit(p)
  PROVE  Data' /\ StoreStep
<1>0. Types /\ Counted /\ Locked /\ Asked /\ Types' /\ Asked'
  BY DEF IInv
<1>1. pc[p] = "alloc" /\ UNCHANGED <<lock, pinned, at, op, disk>>
  BY DEF Submit
<1>2. CASE Cardinality(free) < 3
  <2>1. UNCHANGED <<buf, pc, req>>
    BY <1>2 DEF Submit
  <2> QED BY <2>1, <1>1, Unseen
<1>3. CASE ~(Cardinality(free) < 3)
  <2>1. PICK b \in Bufs : b = at[p]
    BY <1>0 DEF Types
  <2>2. /\ buf' = [buf EXCEPT ![b].disk = TRUE]
        /\ pc' = [pc EXCEPT ![p] = "wait"]
    BY <1>3, <2>1 DEF Submit
  <2>3. SameBuffers
    <3>1. buf \in [Bufs -> Buffer]
      BY <1>0 DEF Types
    <3> QED BY <3>1, <2>2 DEF SameBuffers, Buffer
  <2>4. pc'[p] = "wait" /\ \A q \in Proc \ {p} : pc'[q] = pc[q]
    BY <2>2, <1>0 DEF Types
  <2>5. \A q \in Proc : (Owns(q)' <=> Owns(q)) /\ (pc'[q] \in Holding <=> pc[q] \in Holding)
    BY <1>1, <2>4 DEF Owns, Holding
  <2>6. \A q \in Proc : at[q] \in Bufs
    BY <1>0 DEF Types
  <2>7. Data'
    <3>1. HolderReads'
      BY <1>1, <2>3, <2>5, <2>6 DEF Data, HolderReads, SameBuffers
    <3>2. PinIsValid' /\ HasBlock'
      BY <1>1, <2>3 DEF Data, PinIsValid, HasBlock, SameBuffers
    <3>3. Answered'
      <4>1. \A h \in Desc : req'[h] # Nobody /\ req'[h].ok => req'[h] = req[h]
        <5>1. req \in [Desc -> Request \cup {Nobody}]
          BY <1>0 DEF Types
        <5>2. PICK g, r : r.ok = FALSE /\ req' = [req EXCEPT ![g] = r]
          BY <1>3 DEF Submit
        <5> QED BY <5>1, <5>2
      <4>2. \A h \in Desc : req[h] # Nobody => req[h].buf \in Bufs
        BY <1>0 DEF Types, Request
      <4> QED BY <4>1, <4>2, <1>1, <2>3 DEF Data, Answered, SameBuffers
    <3>4. DirtyIsKept'
      <4>1. \A a \in Bufs : Dirty(a)' <=> Dirty(a)
        BY <1>1, <2>3 DEF Dirty, SameBuffers
      <4>2. \A a \in Bufs : lock[a] # Nobody => lock[a] \in Proc
        BY <1>0 DEF Types
      <4> QED BY <4>1, <4>2, <1>1, <2>3, <2>4 DEF Data, DirtyIsKept, Owns, SameBuffers
    <3> QED BY <3>1, <3>2, <3>3, <3>4 DEF Data
  <2>8. ASSUME NEW j \in Blocks PROVE Owner(j)' = Owner(j)
    <3>1. \A q \in Proc : Holds(q, j)' <=> Holds(q, j)
      BY <1>1, <2>3, <2>4, <2>6 DEF Holds, SameBuffers
    <3> QED BY <3>1, SameOwner
  <2> QED BY <1>1, <2>3, <2>7, <2>8, SameContents, NoStep
<1> QED BY <1>2, <1>3

\* The end of a read fills the buffer with what the disk has, and the reader gets
\* the block; the end of a write changes nothing.
LEMMA FinishStore ==
  ASSUME IInv, IInv', Data, NEW p \in Proc, Finish(p)
  PROVE  Data' /\ StoreStep
<1>0. Types /\ Counted /\ Locked /\ Asked /\ Types'
  BY DEF IInv
<1>1. pc[p] = "wait" /\ UNCHANGED <<lock, pinned, at, disk>>
  BY DEF Finish
<1>2. CASE buf[at[p]].disk
  <2>1. UNCHANGED <<buf, pc, op, req>>
    BY <1>2 DEF Finish
  <2> QED BY <2>1, <1>1, Unseen
<1>3. CASE ~buf[at[p]].disk
  <2>1. PICK b \in Bufs, k \in Blocks : b = at[p] /\ k = buf[b].block
    <3>1. at[p] \in Bufs /\ buf \in [Bufs -> Buffer]
      BY <1>0 DEF Types
    <3>2. buf[at[p]].block # Nobody
      BY <1>0, <1>1 DEF Counted
    <3> QED BY <3>1, <3>2 DEF Buffer
  <2>2. PICK h \in Desc : /\ req[h] # Nobody /\ req[h].buf = b
                         /\ req' = [req EXCEPT ![h] = Nobody]
    <3> DEFINE g == CHOOSE g \in Desc : req[g] # Nobody /\ req[g].buf = b
    <3>1. g \in Desc /\ req[g] # Nobody /\ req[g].buf = b
      BY <1>0, <1>1, <2>1 DEF Asked
    <3>2. req' = [req EXCEPT ![g] = Nobody]
      BY <1>3, <2>1 DEF Finish
    <3> QED BY <3>1, <3>2
  <2>3. /\ buf' = [buf EXCEPT ![b].valid = TRUE]
        /\ pc' = [pc EXCEPT ![p] = "held"] /\ op' = [op EXCEPT ![p] = "read"]
    BY <1>3, <2>1 DEF Finish
  <2>4. /\ \A a \in Bufs \ {b} : buf'[a] = buf[a]
        /\ buf'[b].valid /\ buf'[b].block = k /\ buf'[b].data = buf[b].data
    <3>1. buf \in [Bufs -> Buffer]
      BY <1>0 DEF Types
    <3> QED BY <3>1, <2>1, <2>3 DEF Buffer
  <2>5. /\ pc'[p] = "held" /\ op'[p] = "read"
        /\ \A q \in Proc \ {p} : pc'[q] = pc[q] /\ op'[q] = op[q]
    BY <2>3, <1>0 DEF Types
  <2>6. /\ req'[h] = Nobody
        /\ \A g \in Desc \ {h} : req'[g] = req[g]
    BY <2>2, <1>0 DEF Types
  <2>7. buf[b].data = disk[k]
    <3>1. req[h].ok /\ req[h].block = k
      BY <1>0, <1>3, <2>1, <2>2 DEF Asked
    <3> QED BY <3>1, <2>2 DEF Data, Answered
  <2>8. lock[b] = p
    BY <1>0, <1>1, <2>1 DEF Locked, Holding
  <2>9. \A q \in Proc : at[q] \in Bufs
    BY <1>0 DEF Types
  <2>10. \A q \in Proc \ {p} : pc[q] \in Holding => at[q] # b
    BY <1>0, <2>8 DEF Locked
  <2>11. Data'
    <3>1. HolderReads'
      BY <1>1, <2>1, <2>4, <2>5, <2>9, <2>10 DEF Data, HolderReads, Owns
    <3>2. PinIsValid'
      BY <1>1, <2>4 DEF Data, PinIsValid
    <3>3. HasBlock'
      <4>1. k # Nobody
        BY BlockIOConstants
      <4> QED BY <4>1, <2>4 DEF Data, HasBlock
    <3>4. Answered'
      <4>1. \A g \in Desc \ {h} : req[g] # Nobody => req[g].buf \in Bufs \ {b}
        BY <1>0, <2>2 DEF Asked, Types, Request
      <4> QED BY <4>1, <1>1, <2>4, <2>6 DEF Data, Answered
    <3>5. DirtyIsKept'
      <4>1. \A a \in Bufs : Dirty(a)' => a # b /\ Dirty(a)
        BY <1>1, <2>4, <2>7 DEF Dirty
      <4>2. \A a \in Bufs \ {b} : lock[a] # Nobody => lock[a] # p /\ lock[a] \in Proc
        BY <1>0, <2>1 DEF Locked, Types
      <4> QED BY <4>1, <4>2, <1>1, <2>4, <2>5 DEF Data, DirtyIsKept, Owns
    <3> QED BY <3>1, <3>2, <3>3, <3>4, <3>5 DEF Data
  <2>12. ASSUME NEW j \in Blocks PROVE Content(j)' = Content(j)
    <3>1. CASE buf[b].valid \/ j # k
      <4>1. \A a \in Bufs : /\ Filled(a, j)' <=> Filled(a, j)
                            /\ Filled(a, j) => buf'[a].data = buf[a].data
        BY <3>1, <2>1, <2>4 DEF Filled
      <4> QED BY <4>1, <1>1, SameContent
    <3>2. CASE ~buf[b].valid /\ j = k
      <4>1. Filled(b, j)'
        BY <3>2, <2>4 DEF Filled
      <4>2. Content(j)' = disk[k]
        BY <4>1, <2>4, <2>7, ContentAfter
      <4>3. \A a \in Bufs : ~Filled(a, j)
        <5>1. k # Nobody
          BY BlockIOConstants
        <5>2. \A a \in Bufs : buf[a].block = k => a = b
          BY <5>1, <1>0, <2>1 DEF Counted
        <5> QED BY <5>2, <3>2 DEF Filled
      <4> QED BY <4>2, <4>3, <3>2, ContentIs
    <3> QED BY <3>1, <3>2
  <2>13. \A q \in Proc \ {p}, j \in Blocks : Holds(q, j)' <=> Holds(q, j)
    <3>1. ASSUME NEW q \in Proc \ {p}, NEW j \in Blocks PROVE buf'[at[q]].block = buf[at[q]].block
      BY <2>1, <2>4, <2>9
    <3> QED BY <3>1, <1>1, <2>5 DEF Holds
  <2>14. \A j \in Blocks : /\ Holds(p, j)' <=> j = k
                           /\ Holds(p, j) <=> j = k /\ op[p] = "write"
    BY <1>1, <2>1, <2>4, <2>5 DEF Holds
  <2>15. \A j \in Blocks : j # k \/ op[p] = "write" => Owner(j)' = Owner(j)
    BY <2>13, <2>14, SameOwner
  <2>16. CASE op[p] = "write"
    BY <2>16, <2>11, <2>12, <2>15, NoStep
  <2>17. CASE op[p] # "write"
    <3>1. ASSUME NEW q \in Proc PROVE ~Holds(q, k)
      <4>1. CASE q = p
        BY <4>1, <2>14, <2>17
      <4>2. CASE q # p
        <5>1. Holds(q, k) => pc[q] \in Holding /\ buf[at[q]].block = k
          BY DEF Holds, Holding
        <5>2. k # Nobody
          BY BlockIOConstants
        <5>3. \A a \in Bufs : buf[a].block = k => a = b
          BY <5>2, <1>0, <2>1 DEF Counted
        <5> QED BY <5>1, <5>3, <4>2, <2>9, <2>10
      <4> QED BY <4>1, <4>2
    <3>2. Owner(k) = Nobody
      BY <3>1, OwnerIs
    <3>3. Owner(k)' = p
      BY <2>14, OwnerAfter
    <3> QED BY <3>2, <3>3, <2>11, <2>12, <2>15, TakeStep
  <2> QED BY <2>16, <2>17
<1> QED BY <1>2, <1>3

\* The handler gives a buffer back with the data it has.
LEMMA IntrEntryStore ==
  ASSUME IInv, IInv', Data, IntrEntry
  PROVE  Data' /\ StoreStep
<1>0. Types /\ Asked
  BY DEF IInv
<1>1. CASE Panic
  BY <1>1, PanicStore
<1>2. CASE ~Panic
  <2>1. UNCHANGED <<lock, pinned, pc, at, op, req, disk>>
    BY <1>2 DEF IntrEntry
  <2>2. PICK b : buf' = [buf EXCEPT ![b].disk = FALSE]
    BY <1>2 DEF IntrEntry
  <2>3. SameBuffers
    <3>1. buf \in [Bufs -> Buffer]
      BY <1>0 DEF Types
    <3> QED BY <3>1, <2>2 DEF SameBuffers, Buffer
  <2>4. Data'
    <3>1. HolderReads'
      <4>1. \A q \in Proc : at[q] \in Bufs
        BY <1>0 DEF Types
      <4> QED BY <4>1, <2>1, <2>3 DEF Data, HolderReads, SameBuffers, Owns
    <3>2. PinIsValid' /\ HasBlock'
      BY <2>1, <2>3 DEF Data, PinIsValid, HasBlock, SameBuffers
    <3>3. Answered'
      <4>1. \A h \in Desc : req[h] # Nobody => req[h].buf \in Bufs
        BY <1>0 DEF Types, Request
      <4> QED BY <4>1, <2>1, <2>3 DEF Data, Answered, SameBuffers
    <3>4. DirtyIsKept'
      BY <2>1, <2>3 DEF Data, DirtyIsKept, Dirty, Owns, SameBuffers
    <3> QED BY <3>1, <3>2, <3>3, <3>4 DEF Data
  <2> QED BY <2>1, <2>3, <2>4, SameContents, SameOwners, NoStep
<1> QED BY <1>1, <1>2

\* The device copies between a buffer and the disk: a read into a buffer not
\* valid yet, a write of what is newer.
LEMMA DeviceAnswerStore ==
  ASSUME IInv, IInv', Data, NEW h \in Desc, DeviceAnswer(h)
  PROVE  Data' /\ StoreStep
<1>0. Types /\ Counted /\ Locked /\ Asked
  BY DEF IInv
<1>1. req[h] # Nobody /\ UNCHANGED <<lock, pinned, pc, at, op>>
  BY DEF DeviceAnswer, ctl
<1>2. PICK b \in Bufs, k \in Blocks :
        b = req[h].buf /\ k = req[h].block /\ buf[b].block = k
  BY <1>0, <1>1 DEF Asked, Types, Request
<1>3. PICK p \in Proc : p = lock[b] /\ pc[p] = "wait" /\ op[p] = req[h].op /\ at[p] = b
  BY <1>0, <1>1, <1>2 DEF Asked, Locked, Types
<1>4. buf[b].valid <=> req[h].op = "write"
  BY <1>3 DEF Data, HolderReads, Owns, Holding
<1>5. /\ \A a \in Bufs \ {b} : buf'[a] = buf[a]
      /\ buf'[b].valid = buf[b].valid /\ buf'[b].block = k
      /\ req[h].op = "write" => buf' = buf
      /\ req[h].op # "write" => disk' = disk
      /\ \A j \in Blocks \ {k} : disk'[j] = disk[j]
      /\ buf'[b].data = disk'[k]
  <2>1. buf \in [Bufs -> Buffer] /\ disk \in [Blocks -> Vals]
    BY <1>0 DEF Types
  <2>2. CASE req[h].op = "write"
    <3>1. disk' = [disk EXCEPT ![k] = buf[b].data] /\ buf' = buf
      BY <2>2, <1>2 DEF DeviceAnswer
    <3> QED BY <3>1, <2>1, <2>2, <1>2
  <2>3. CASE req[h].op # "write"
    <3>1. buf' = [buf EXCEPT ![b].data = disk[k]] /\ disk' = disk
      BY <2>3, <1>2 DEF DeviceAnswer
    <3> QED BY <3>1, <2>1, <2>3, <1>2 DEF Buffer
  <2> QED BY <2>2, <2>3
<1>6. \A g \in Desc : /\ g # h => req'[g] = req[g]
                      /\ req'[h].buf = b /\ req'[h].block = k
  <2>1. req \in [Desc -> Request \cup {Nobody}] /\ req[h] \in Request
    BY <1>0, <1>1 DEF Types
  <2>2. req' = [req EXCEPT ![h].ok = TRUE]
    BY DEF DeviceAnswer
  <2> QED BY <2>1, <2>2, <1>2 DEF Request
<1>7. \A a \in Bufs \ {b} : buf[a].block # k
  <2>1. k # Nobody
    BY BlockIOConstants
  <2> QED BY <2>1, <1>0, <1>2 DEF Counted
<1>8. \A q \in Proc : at[q] \in Bufs
  BY <1>0 DEF Types
<1>9. Data'
  <2>1. HolderReads'
    BY <1>1, <1>5, <1>8 DEF Data, HolderReads, Owns
  <2>2. PinIsValid' /\ HasBlock'
    BY <1>1, <1>2, <1>5 DEF Data, PinIsValid, HasBlock
  <2>3. Answered'
    <3>1. \A g \in Desc \ {h} : req[g] # Nobody =>
             req[g].buf \in Bufs \ {b} /\ req[g].block = buf[req[g].buf].block
      BY <1>0, <1>1, <1>2 DEF Asked, Types, Request
    <3>2. \A g \in Desc \ {h} : req[g] # Nobody => req[g].block \in Blocks \ {k}
      BY <3>1, <1>0, <1>7 DEF Types, Request
    <3> QED BY <3>1, <3>2, <1>5, <1>6 DEF Data, Answered
  <2>4. DirtyIsKept'
    <3>1. ASSUME NEW a \in Bufs, Dirty(a)' PROVE a # b /\ Dirty(a)
      <4>1. a # b
        BY <3>1, <1>5 DEF Dirty
      <4>2. buf[a].valid /\ buf[a].block # Nobody /\ buf'[a] = buf[a]
        BY <4>1, <3>1, <1>5 DEF Data, HasBlock, Dirty
      <4>3. buf[a].block \in Blocks \ {k}
        BY <4>1, <4>2, <1>0, <1>7 DEF Types, Buffer
      <4> QED BY <4>1, <4>2, <4>3, <3>1, <1>5 DEF Dirty
    <3> QED BY <3>1, <1>1, <1>5 DEF Data, DirtyIsKept, Owns
  <2> QED BY <2>1, <2>2, <2>3, <2>4 DEF Data
<1>10. ASSUME NEW j \in Blocks PROVE Owner(j)' = Owner(j)
  <2>1. \A q \in Proc : buf'[at[q]].block = buf[at[q]].block
    BY <1>2, <1>5, <1>8
  <2>2. \A q \in Proc : Holds(q, j)' <=> Holds(q, j)
    BY <2>1, <1>1 DEF Holds
  <2> QED BY <2>2, SameOwner
<1>11. ASSUME NEW j \in Blocks PROVE Content(j)' = Content(j)
  <2>1. CASE j # k \/ req[h].op # "write"
    <3>1. disk'[j] = disk[j]
      BY <2>1, <1>5
    <3>2. \A a \in Bufs : /\ Filled(a, j)' <=> Filled(a, j)
                          /\ Filled(a, j) => buf'[a].data = buf[a].data
      BY <2>1, <1>2, <1>4, <1>5 DEF Filled
    <3> QED BY <3>1, <3>2, SameContent
  <2>2. CASE j = k /\ req[h].op = "write"
    <3>1. Filled(b, j) /\ Filled(b, j)' /\ buf'[b].data = buf[b].data
      BY <2>2, <1>2, <1>4, <1>5 DEF Filled
    <3> QED BY <3>1, ContentIs, ContentAfter
  <2> QED BY <2>1, <2>2
<1> QED BY <1>9, <1>10, <1>11, NoStep

\* The driver's other steps change no block.
LEMMA DriverStore ==
  ASSUME IInv, IInv', Data, IntrBegin \/ IntrEnd \/ DeviceTake
  PROVE  Data' /\ StoreStep
<1> QED BY Unseen DEF IntrBegin, IntrEnd, DeviceTake, cache, ctl

\* Every step keeps Data and is a step or a stutter of the store.
LEMMA StepsStore ==
  ASSUME IInv, IInv', Data, [Next]_vars
  PROVE  Data' /\ StoreStep
<1>1. CASE \E p \in Proc : User(p) \/ Kernel(p)
  <2>1. PICK p \in Proc : User(p) \/ Kernel(p)
    BY <1>1
  <2>2. CASE \E k \in Blocks : Bget(p, k)
    BY <2>2, BgetStore
  <2>3. CASE \E v \in Vals : Modify(p, v)
    BY <2>3, ModifyStore
  <2>4. CASE Bwrite(p) \/ Bpin(p) \/ Bunpin(p)
    BY <2>4, BwriteStore, PinStore
  <2>5. CASE Kernel(p)
    BY <2>5, AcquireSleepStore, ReleaseSleepStore, BrelseStore, SubmitStore, FinishStore
       DEF Kernel
  <2> QED BY <2>1, <2>2, <2>3, <2>4, <2>5 DEF User
<1>2. CASE Device \/ Interrupt
  BY <1>2, DeviceAnswerStore, DriverStore, IntrEntryStore DEF Device, Interrupt
<1>3. CASE UNCHANGED vars
  BY <1>3, Unseen DEF vars, cache, ctl, ring
<1> QED BY <1>1, <1>2, <1>3 DEF Next

\* Nothing newer than the disk is ever in a buffer that bget may recycle, a buffer
\* counts as read exactly while its holder has it, and the data of an answered
\* request is the same on both sides (bio.c:98, virtio_disk.c:279).
THEOREM DataInvariant == Spec => [](IInv /\ Data)
<1>1. Init => Data
  BY DEF Init, Data, DirtyIsKept, HolderReads, PinIsValid, Answered, HasBlock, Dirty,
         Holding
<1>2. IInv /\ IInv' /\ Data /\ [Next]_vars => Data'
  BY StepsStore
<1> QED BY <1>1, <1>2, BlockIOInvariant, PTL DEF Spec

\* The cache on top of the driver is a store of blocks: bread and the end of the
\* lock hand a block over, only its owner changes it, and recycling, write-back,
\* pins, answers in any order and interrupts are invisible.
THEOREM BlocksAreStored == Spec => StoresBlocks
<1>1. ASSUME Init PROVE Store!Init
  <2>1. IInv
    BY <1>1, StartsSound
  <2>2. ASSUME NEW k \in Blocks PROVE Content(k) \in Vals /\ Owner(k) = Nobody
    <3>1. \A b \in Bufs : ~Filled(b, k)
      BY <1>1 DEF Init, Filled
    <3>2. \A p \in Proc : ~Holds(p, k)
      BY <1>1 DEF Init, Holds
    <3> QED BY <3>1, <3>2, <2>1, ContentIs, OwnerIs DEF IInv, Types
  <2> QED BY <2>2 DEF Store!Init
<1>2. IInv /\ IInv' /\ Data /\ [Next]_vars => [Store!Next]_<<contents, owners>>
  BY StepsStore DEF StoreStep
<1>3. Init => Store!Init
  BY <1>1
<1>4. Spec => Store!Spec
  BY <1>2, <1>3, DataInvariant, PTL DEF Spec, Store!Spec, contents, owners
<1> QED BY <1>4 DEF StoresBlocks
=============================================================================
