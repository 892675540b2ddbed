--------------------------- MODULE ULThreadProofs ---------------------------
(***************************************************************************)
(* Proofs about ULThread, for a table of any size, any set of algorithms   *)
(* and priorities, and any number of rounds, when threads do not create    *)
(* threads.                                                                *)
(*                                                                         *)
(* thread_count is both the number of threads and the next id, so that ids *)
(* could repeat.  They do not, because main creates threads only when all  *)
(* the earlier ones are gone: under Ids the ids in the table are below     *)
(* thread_count as long as main runs.                                      *)
(***************************************************************************)
EXTENDS ULThread, FiniteSetTheorems, WellFoundedInduction, TLAPS

\* A free slot has the values of ulthread_init, and is later than every thread.
Table ==
    /\ \A i \in Slot : state[i] = "FREE" => tid[i] = -1 /\ time[i] = Never
    /\ \A i \in Runnable : tid[i] \in 1 .. MAXULTHREADS /\ time[i] <= now

Ids ==
    /\ \A i, j \in Runnable : tid[i] = tid[j] => i = j
    /\ pc = "main" => \A i \in Runnable : tid[i] < thread_count

\* Who is on the processor, and what the pointers of the library say of it.
Switched ==
    /\ running # None => running = current_thread /\ running \in Runnable /\ pc = "sched"
    /\ running = None /\ current_thread # None => last_yielded_thread = current_thread
    /\ current_thread = None => last_yielded_thread = None
    /\ pc = "sched" => round < Rounds
    /\ pc = "main" /\ round = 0 => current_thread = None
    /\ running = None /\ pc = "sched" /\ last_yielded_thread \in Runnable =>
           last_yielded_thread \in yielded

\* FCFS, before main schedules for the second time: slots are taken in order.
InOrder ==
    /\ \A i \in Runnable : older[i] = {j \in Runnable : j < i}
    /\ \A i, j \in Runnable : j < i => time[j] <= time[i]
    /\ \A j \in Runnable : current_thread \in Runnable => current_thread <= j
    /\ pc = "main" => /\ current_thread = None
                      /\ \A i \in Runnable : 1 .. i - 1 \subseteq Runnable

IInv ==
    /\ TypeOK
    /\ thread_count = 1 + Cardinality(Runnable)
    /\ gone \cap Runnable = {}
    /\ Table /\ Ids /\ Switched
    /\ schedalgo = "FCFS" /\ round = 0 => InOrder

-----------------------------------------------------------------------------
(* Numbers and the scan. *)

\* A non-empty set of numbers has a least one.
LEMMA Least ==
  ASSUME NEW T \in SUBSET Nat, T # {}
  PROVE  \E x \in T : \A y \in T : x <= y
<1>1. PICK x \in T : \A y \in T : ~(<<y, x>> \in OpToRel(<, Nat))
  BY NatLessThanWellFounded, WFMin
<1>2. ASSUME NEW y \in T PROVE x <= y
  <2>1. ~(y < x) /\ x \in Nat /\ y \in Nat
    BY <1>1 DEF OpToRel
  <2> QED BY <2>1
<1> QED BY <1>2

\* The candidates up to slot n.
Scanned(f, n) ==
    f = [i \in 0 .. n |-> IF i = 0 THEN FirstCandidate ELSE Better(f[i - 1], i)]

\* The loop over the table has a result.
LEMMA ScanIs == Scanned(scan, MAXULTHREADS)
<1> DEFINE T == {n \in Nat : ~\E f : Scanned(f, n)}
<1>1. T = {}
  <2> SUFFICES ASSUME T # {} PROVE FALSE
    OBVIOUS
  <2>1. PICK n \in T : \A m \in T : n <= m
    BY Least
  <2>2. CASE n = 0
    <3>1. Scanned([i \in 0 .. 0 |-> FirstCandidate], 0)
      BY DEF Scanned
    <3> QED BY <3>1, <2>2
  <2>3. CASE n # 0
    <3>1. n - 1 \in Nat /\ n - 1 \notin T /\ n \in Nat
      BY <2>1, <2>3
    <3>2. PICK f : Scanned(f, n - 1)
      BY <3>1
    <3> DEFINE g == [i \in 0 .. n |-> IF i < n THEN f[i] ELSE Better(f[n - 1], n)]
    <3>3. ASSUME NEW i \in 0 .. n
          PROVE  g[i] = IF i = 0 THEN FirstCandidate ELSE Better(g[i - 1], i)
      <4>1. CASE i < n
        <5>1. i \in 0 .. n - 1 /\ (i # 0 => i - 1 \in 0 .. n /\ i - 1 < n)
          BY <4>1
        <5>2. f[i] = IF i = 0 THEN FirstCandidate ELSE Better(f[i - 1], i)
          BY <5>1, <3>2 DEF Scanned
        <5> QED BY <5>2, <4>1
      <4> QED BY <4>1, <3>1
    <3>4. Scanned(g, n)
      BY <3>3 DEF Scanned
    <3> QED BY <3>4
  <2> QED BY <2>2, <2>3
<1>2. \E f : Scanned(f, MAXULTHREADS)
  BY <1>1, ULThreadConstants
<1>3. scan = CHOOSE f : f = [i \in 0 .. MAXULTHREADS |->
                 IF i = 0 THEN FirstCandidate ELSE Better(f[i - 1], i)]
  BY DEF scan
<1> QED BY <1>2, <1>3 DEF Scanned

\* A set of slots with what holds of the first candidate, and stays true of the
\* candidate with every slot, has the pick.
LEMMA ScanInduction ==
  ASSUME NEW I, NEW U \in SUBSET (Nat \X I), <<0, FirstCandidate>> \in U,
         \A i \in Slot : \A c \in I : <<i - 1, c>> \in U => <<i, Better(c, i)>> \in U
  PROVE  <<MAXULTHREADS, Pick>> \in U
<1> DEFINE T == {n \in 0 .. MAXULTHREADS : <<n, scan[n]>> \notin U}
<1>1. T = {}
  <2> SUFFICES ASSUME T # {} PROVE FALSE
    OBVIOUS
  <2>0. T \in SUBSET Nat
    OBVIOUS
  <2>1. PICK n \in T : \A m \in T : n <= m
    BY <2>0, Least
  <2>2. n # 0
    <3>1. scan[0] = FirstCandidate
      BY ScanIs, ULThreadConstants DEF Scanned
    <3> QED BY <3>1
  <2>3. n \in Slot /\ n - 1 \in 0 .. MAXULTHREADS /\ n - 1 \notin T
    BY <2>1, <2>2, ULThreadConstants DEF Slot
  <2>5. scan[n] = Better(scan[n - 1], n)
    BY ScanIs, <2>2, <2>1 DEF Scanned
  <2> QED BY <2>3, <2>5
<1> QED BY <1>1, ULThreadConstants DEF Pick

\* The table has slots.
LEMMA Slots ==
  /\ Slot \subseteq Nat /\ None \notin Slot /\ IsFiniteSet(Slot)
  /\ Cardinality(Slot) = MAXULTHREADS
  /\ \A i \in Slot : i >= 1
<1>1. IsFiniteSet(Slot) /\ Cardinality(Slot) = MAXULTHREADS
  BY FS_Interval, ULThreadConstants DEF Slot
<1> QED BY <1>1 DEF Slot, None

\* The threads can be counted, and are one more or one less when a slot is taken
\* or freed.
LEMMA Counted ==
  ASSUME NEW S \in SUBSET Slot
  PROVE  /\ IsFiniteSet(S) /\ Cardinality(S) \in 0 .. MAXULTHREADS
         /\ Cardinality(S) = 0 <=> S = {}
         /\ \A i \in Slot \ S : Cardinality(S \cup {i}) = Cardinality(S) + 1
         /\ \A i \in S : Cardinality(S \ {i}) = Cardinality(S) - 1
<1>1. IsFiniteSet(S) /\ Cardinality(S) <= MAXULTHREADS
  BY Slots, FS_Subset
<1>2. Cardinality(S) \in Nat
  BY <1>1, FS_CardinalityType
<1> QED BY <1>1, <1>2, FS_EmptySet, FS_AddElement, FS_RemoveElement

-----------------------------------------------------------------------------
(* What the scheduler picks. *)

\* There is a first candidate.
LEMMA FirstIs ==
  ASSUME IInv, Runnable # {}
  PROVE  /\ FirstCandidate \in Slot
         /\ current_thread # None => FirstCandidate = current_thread
         /\ current_thread = None => /\ FirstCandidate \in Runnable
                                     /\ \A j \in Runnable : FirstCandidate <= j
<1>1. Runnable \in SUBSET Nat
  BY Slots DEF Runnable
<1>2. \E i \in Runnable : \A j \in Runnable : i <= j
  BY <1>1, Least
<1> QED BY <1>2, Slots DEF FirstCandidate, IInv, TypeOK, Runnable

\* FCFS and round robin pick a thread with the oldest time stamp.
LEMMA PicksOldest ==
  ASSUME IInv, Runnable # {}, schedalgo # "PRIORITY"
  PROVE  Pick \in Runnable /\ \A i \in Runnable : time[Pick] <= time[i]
<1> DEFINE U == {x \in Nat \X Slot : \A i \in Runnable : i <= x[1] => time[x[2]] <= time[i]}
<1>1. /\ \A i \in Slot : i \in Nat /\ i >= 1 /\ i <= MAXULTHREADS /\ time[i] \in 0 .. Never
      /\ Runnable \subseteq Slot /\ MAXULTHREADS \in Nat /\ Never \in Nat
  BY ULThreadConstants DEF IInv, TypeOK, Runnable, Slot, Never
<1>2. <<0, FirstCandidate>> \in U
  BY <1>1, FirstIs
<1>3. ASSUME NEW i \in Slot, NEW c \in Slot, <<i - 1, c>> \in U
      PROVE  <<i, Better(c, i)>> \in U
  <2>1. \A j \in Runnable : j <= i - 1 => time[c] <= time[j]
    BY <1>3
  <2>3. CASE i \in Runnable /\ time[i] < time[c]
    <3>1. Better(c, i) = i
      BY <2>3 DEF Better, Earlier
    <3>2. \A j \in Runnable : j <= i => time[i] <= time[j]
      BY <2>1, <2>3, <1>1
    <3> QED BY <3>1, <3>2, <1>1
  <2>4. CASE ~(i \in Runnable /\ time[i] < time[c])
    <3>1. Better(c, i) = c
      BY <2>4 DEF Better, Earlier
    <3>2. \A j \in Runnable : j <= i => time[c] <= time[j]
      BY <2>1, <2>4, <1>1
    <3> QED BY <3>1, <3>2, <1>1
  <2> QED BY <2>3, <2>4
<1>4. <<MAXULTHREADS, Pick>> \in U
  BY <1>2, <1>3, ScanInduction
<1>5. Pick \in Slot /\ \A i \in Runnable : time[Pick] <= time[i]
  BY <1>4, <1>1
<1>6. Pick \in Runnable
  <2>1. PICK i \in Runnable : TRUE
    OBVIOUS
  <2>2. time[i] <= now /\ now < Never
    BY ULThreadConstants DEF IInv, Table, TypeOK, Never
  <2>3. time[Pick] # Never
    BY <2>2, <1>5, <1>1 DEF IInv, TypeOK
  <2> QED BY <2>3, <1>5 DEF IInv, Table, TypeOK, Runnable
<1> QED BY <1>5, <1>6

\* PRIORITY picks a most urgent thread other than the last one, if there is one.
LEMMA PicksUrgent ==
  ASSUME IInv, running = None, Runnable # {}, schedalgo = "PRIORITY",
         NEW others, others = Runnable \ {last_yielded_thread}
  PROVE  /\ Pick \in Runnable
         /\ others # {} => Pick \in others /\ \A i \in others : priority[i] <= priority[Pick]
<1> DEFINE last == IF last_yielded_thread = None THEN JunkTid ELSE tid[last_yielded_thread]
           Best(n, c) == \/ /\ c \in others
                            /\ \A i \in others : i <= n => priority[i] <= priority[c]
                         \/ c = last_yielded_thread /\ \A i \in others : n < i
           U == {x \in Nat \X Slot : Best(x[1], x[2])}
<1>0. \A i \in Slot : priority[i] \in Int
  <2> SUFFICES ASSUME NEW i \in Slot PROVE priority[i] \in Int
    OBVIOUS
  <2>1. priority[i] \in Priorities \/ priority[i] = -1
    BY DEF IInv, TypeOK
  <2>2. \A x \in Priorities : x \in Int
    BY ULThreadConstants
  <2> QED BY <2>1, <2>2
<1>1. /\ \A i \in Slot : i \in Nat /\ i >= 1 /\ i <= MAXULTHREADS /\ priority[i] \in Int
      /\ Runnable \subseteq Slot /\ others \subseteq Slot /\ MAXULTHREADS \in Nat
  BY <1>0, ULThreadConstants DEF Runnable, Slot
<1>2. /\ last_yielded_thread \in Slot \cup {None} /\ tid[last_yielded_thread] = tid[last_yielded_thread]
      /\ current_thread = last_yielded_thread
  BY DEF IInv, TypeOK, Switched
<1>3. \A i \in Runnable : tid[i] = last <=> i = last_yielded_thread
  <2>1. CASE last_yielded_thread = None
    BY <2>1, <1>1, Slots DEF IInv, Table, JunkTid
  <2>2. CASE last_yielded_thread \in Runnable
    BY <2>2, <1>1, Slots DEF IInv, Ids
  <2>3. CASE last_yielded_thread \in Slot \ Runnable
    <3>1. tid[last_yielded_thread] = -1
      BY <2>3 DEF IInv, Table, TypeOK, Runnable
    <3> QED BY <3>1, <2>3, Slots DEF IInv, Table
  <2> QED BY <2>1, <2>2, <2>3, <1>2
<1>5. <<0, FirstCandidate>> \in U
  BY <1>1, <1>2, FirstIs
<1>6. ASSUME NEW i \in Slot, NEW c \in Slot, <<i - 1, c>> \in U
      PROVE  <<i, Better(c, i)>> \in U
  <2>1. Best(i - 1, c)
    BY <1>6
  <2>3. Better(c, i) = IF i \in Runnable /\ tid[i] # last
                          /\ (tid[c] = last \/ priority[i] >= priority[c]) THEN i ELSE c
    BY DEF Better, MoreUrgent
  <2>4. i \in Runnable /\ tid[i] # last <=> i \in others
    BY <1>3
  <2>5. tid[c] = last <=> c = last_yielded_thread
    BY <2>1, <1>3, Slots
  <2>6. CASE i \in others /\ (c = last_yielded_thread \/ priority[i] >= priority[c])
    <3>1. Better(c, i) = i
      BY <2>3, <2>4, <2>5, <2>6
    <3>2. \A j \in others : j <= i => priority[j] <= priority[i]
      BY <2>1, <2>6, <1>1
    <3> QED BY <3>1, <3>2, <2>6, <1>1
  <2>7. CASE ~(i \in others /\ (c = last_yielded_thread \/ priority[i] >= priority[c]))
    <3>1. Better(c, i) = c
      BY <2>3, <2>4, <2>5, <2>7
    <3>2. Best(i, c)
      BY <2>1, <2>7, <1>1
    <3> QED BY <3>1, <3>2, <1>1
  <2> QED BY <2>6, <2>7
<1>7. <<MAXULTHREADS, Pick>> \in U
  BY <1>5, <1>6, ScanInduction
<1>8. Best(MAXULTHREADS, Pick) /\ Pick \in Slot
  BY <1>7
<1>9. CASE others = {}
  BY <1>8, <1>9
<1>10. CASE others # {}
  <2>1. \A i \in others : i <= MAXULTHREADS /\ ~(MAXULTHREADS < i)
    BY <1>1
  <2> QED BY <2>1, <1>8
<1> QED BY <1>9, <1>10

\* Before main schedules for the second time, FCFS picks the first slot.
LEMMA PicksFirst ==
  ASSUME IInv, Runnable # {}, schedalgo = "FCFS", round = 0
  PROVE  Pick \in Runnable /\ \A j \in Runnable : Pick <= j
<1> DEFINE U == {x \in Nat \X Slot :
                    \/ x[2] \in Runnable /\ \A j \in Runnable : x[2] <= j
                    \/ x[2] \notin Runnable /\ \A j \in Runnable : x[1] < j}
<1>1. /\ \A i \in Slot : i \in Nat /\ i >= 1 /\ i <= MAXULTHREADS /\ time[i] \in 0 .. Never
      /\ Runnable \subseteq Slot /\ Never \in Nat
  BY ULThreadConstants DEF IInv, TypeOK, Runnable, Slot, Never
<1>2. /\ \A i, j \in Runnable : j < i => time[j] <= time[i]
      /\ \A j \in Runnable : current_thread \in Runnable => current_thread <= j
  BY DEF IInv, InOrder
<1>3. \A i \in Runnable : time[i] < Never
  BY <1>1, ULThreadConstants DEF IInv, Table, TypeOK, Never
<1>4. <<0, FirstCandidate>> \in U
  BY <1>1, <1>2, FirstIs
<1>5. ASSUME NEW i \in Slot, NEW c \in Slot, <<i - 1, c>> \in U
      PROVE  <<i, Better(c, i)>> \in U
  <2>1. Better(c, i) = IF i \in Runnable /\ time[i] < time[c] THEN i ELSE c
    BY DEF Better, Earlier
  <2>2. CASE c \in Runnable /\ \A j \in Runnable : c <= j
    <3>1. ~(i \in Runnable /\ time[i] < time[c])
      BY <2>2, <1>1, <1>2
    <3> QED BY <3>1, <2>1, <2>2, <1>1
  <2>3. CASE c \notin Runnable /\ \A j \in Runnable : i - 1 < j
    <3>1. time[c] = Never
      BY <2>3 DEF IInv, Table, TypeOK, Runnable
    <3>2. CASE i \in Runnable
      <4>1. Better(c, i) = i /\ \A j \in Runnable : i <= j
        BY <3>1, <3>2, <2>1, <2>3, <1>1, <1>3
      <4> QED BY <4>1, <1>1
    <3>3. CASE i \notin Runnable
      <4>1. Better(c, i) = c /\ \A j \in Runnable : i < j
        BY <3>3, <2>1, <2>3, <1>1
      <4> QED BY <4>1, <2>3, <1>1
    <3> QED BY <3>2, <3>3
  <2> QED BY <1>5, <2>2, <2>3
<1>6. <<MAXULTHREADS, Pick>> \in U
  BY <1>4, <1>5, ScanInduction
<1>7. \A j \in Runnable : ~(MAXULTHREADS < j)
  BY <1>1, ULThreadConstants
<1> QED BY <1>6, <1>7

\* The scan picks a runnable thread when there is one.
LEMMA PickIs ==
  ASSUME IInv, running = None, Runnable # {}
  PROVE  Pick \in Runnable
BY PicksOldest, PicksUrgent

-----------------------------------------------------------------------------
(* The invariant holds. *)

\* ulthread_init
LEMMA InitIInv == Init => IInv
<1> SUFFICES ASSUME Init PROVE IInv
  OBVIOUS
<1>1. Runnable = {}
  BY DEF Init, Runnable
<1>2. TypeOK
  BY ULThreadConstants DEF Init, TypeOK, Never
<1>3. Table /\ Ids /\ Switched /\ InOrder
  BY <1>1 DEF Init, Table, Ids, Switched, InOrder
<1> QED BY <1>1, <1>2, <1>3, Counted DEF IInv, Init

\* A thread is created by main, with an id that no thread has.
LEMMA CreateIInv ==
  ASSUME IInv, ~ThreadsCreate, NEW prio \in Priorities, ulthread_create(prio)
  PROVE  IInv'
<1>1. PICK i \in Slot :
        /\ running = None /\ pc = "main" /\ round < Rounds
        /\ state[i] = "FREE" /\ \A j \in 1 .. i - 1 : state[j] # "FREE"
        /\ tid' = [tid EXCEPT ![i] = thread_count]
        /\ priority' = [priority EXCEPT ![i] = prio]
        /\ state' = [state EXCEPT ![i] = "RUNNABLE"]
        /\ time' = [time EXCEPT ![i] = now]
        /\ thread_count' = thread_count + 1
        /\ older' = [older EXCEPT ![i] = Runnable]
        /\ gone' = gone \ {i} /\ yielded' = yielded \ {i}
        /\ UNCHANGED <<main, current_thread, last_yielded_thread, now, running>>
  BY DEF ulthread_create, MayCreate
<1>2. UNCHANGED <<schedalgo, pc, round, current_thread, last_yielded_thread, now, running>>
  BY <1>1 DEF main
<1>3. i \notin Runnable /\ Runnable' = Runnable \cup {i} /\ Runnable' \subseteq Slot
  BY <1>1 DEF Runnable, IInv, TypeOK
<1>4. /\ Cardinality(Runnable') = Cardinality(Runnable) + 1
      /\ Cardinality(Runnable') \in 0 .. MAXULTHREADS
      /\ Cardinality(Runnable) \in 0 .. MAXULTHREADS
  <2> QED BY <1>3, Counted
<1>5. thread_count' = 1 + Cardinality(Runnable') /\ thread_count \in 1 .. MAXULTHREADS
  BY <1>4, <1>1 DEF IInv
<1>6. TypeOK'
  <2>1. tid' \in [Slot -> -1 .. MAXULTHREADS] /\ thread_count' \in 1 .. MAXULTHREADS + 1
    BY <1>1, <1>5, ULThreadConstants DEF IInv, TypeOK
  <2>2. now \in 0 .. Never
    BY ULThreadConstants DEF IInv, TypeOK, Never
  <2>3. older' \in [Slot -> SUBSET Slot]
    BY <1>1, <1>3 DEF IInv, TypeOK
  <2> QED BY <1>1, <1>2, <2>1, <2>2, <2>3 DEF IInv, TypeOK
<1>7. gone' \cap Runnable' = {}
  BY <1>1, <1>3 DEF IInv
<1>8. Table'
  <2> QED BY <1>1, <1>3, <1>5 DEF IInv, TypeOK, Table
<1>9. Ids'
  <2>1. \A j \in Runnable : tid[j] < thread_count /\ j \in Slot /\ j # i /\ tid[j] \in Int
    BY <1>1 DEF IInv, Ids, Runnable, TypeOK
  <2>2. \A j \in Runnable : tid'[j] = tid[j]
    BY <2>1, <1>1
  <2>3. tid'[i] = thread_count /\ thread_count \in Int
    BY <1>1 DEF IInv, TypeOK
  <2>4. \A j \in Runnable' : tid'[j] < thread_count'
    BY <2>1, <2>3, <1>3, <1>1
  <2>5. \A j \in Runnable : tid'[j] # tid'[i]
    BY <2>1, <2>2, <2>3
  <2> QED BY <2>2, <2>4, <2>5, <1>3 DEF IInv, Ids
<1>10. Switched'
  BY <1>1, <1>2, <1>3 DEF IInv, Switched
<1>11. ASSUME schedalgo' = "FCFS", round' = 0 PROVE InOrder'
  <2>1. InOrder /\ current_thread = None
    BY <1>11, <1>1, <1>2 DEF IInv, InOrder
  <2>2. \A j \in Runnable : j < i
    <3> SUFFICES ASSUME NEW j \in Runnable, ~(j < i) PROVE FALSE
      OBVIOUS
    <3>1. i \in 1 .. j - 1
      BY <1>3, Slots
    <3> QED BY <3>1, <2>1, <1>1, <1>3 DEF InOrder
  <2>3. \A j \in Runnable : j \in Nat /\ time[j] <= now /\ time'[j] = time[j] /\ older'[j] = older[j]
    BY <1>1, Slots DEF IInv, Runnable, Table
  <2>4. i \in Nat /\ older'[i] = Runnable /\ time'[i] = now
    BY <1>1, Slots DEF IInv, TypeOK
  <2>5. \A j \in Runnable' : older'[j] = {k \in Runnable' : k < j}
    <3>1. \A j \in Runnable : older'[j] = {k \in Runnable' : k < j}
      BY <2>1, <2>2, <2>3, <2>4, <1>3 DEF InOrder
    <3>2. older'[i] = {k \in Runnable' : k < i}
      BY <2>2, <2>3, <2>4, <1>3
    <3> QED BY <3>1, <3>2, <1>3
  <2>6. \A j, k \in Runnable' : k < j => time'[k] <= time'[j]
    <3>1. \A k \in Runnable' : ~(i < k)
      BY <2>2, <2>3, <2>4, <1>3
    <3>2. \A j, k \in Runnable : k < j => time'[k] <= time'[j]
      BY <2>1, <2>3 DEF InOrder
    <3>3. \A k \in Runnable : time'[k] <= time'[i]
      BY <2>3, <2>4
    <3> QED BY <3>1, <3>2, <3>3, <1>3
  <2>7. \A j \in Runnable' : 1 .. j - 1 \subseteq Runnable'
    <3>1. 1 .. i - 1 \subseteq Runnable
      <4>1. \A j \in 1 .. i - 1 : j \in Slot
        BY ULThreadConstants DEF Slot
      <4> QED BY <4>1, <1>1 DEF Runnable, IInv, TypeOK
    <3> QED BY <3>1, <2>1, <1>3, <1>1 DEF InOrder
  <2>8. current_thread' \notin Runnable'
    BY <2>1, <1>2, <1>3, Slots
  <2> QED BY <2>1, <2>5, <2>6, <2>7, <2>8, <1>2 DEF InOrder
<1> QED BY <1>5, <1>6, <1>7, <1>8, <1>9, <1>10, <1>11 DEF IInv

\* A thread is switched to.
LEMMA ScheduleIInv ==
  ASSUME IInv, ulthread_schedule
  PROVE  IInv' /\ running' = Pick /\ running = None /\ Runnable # {} /\ Runnable' = Runnable
<1> USE DEF ulthread_schedule
<1>1. /\ UNCHANGED <<tid, priority, state, time, schedalgo, round, thread_count,
                     last_yielded_thread, now, older, gone, yielded>>
      /\ Runnable' = Runnable /\ running = None
  BY DEF table, Runnable
<1>2. Runnable # {}
  <2> QED BY Counted DEF IInv
<1>3. Pick \in Runnable /\ Pick \in Slot /\ current_thread' = Pick /\ running' = Pick
  BY <1>2, PickIs DEF Runnable
<1>4. TypeOK'
  BY <1>1, <1>3 DEF IInv, TypeOK
<1>5. Table' /\ Ids' /\ round < Rounds
  BY <1>1 DEF IInv, Table, Ids, Switched
<1>6. Switched'
  BY <1>1, <1>3, <1>5, Slots DEF Switched
<1>7. ASSUME schedalgo' = "FCFS", round' = 0 PROVE InOrder'
  <2>1. InOrder /\ round = 0 /\ schedalgo = "FCFS"
    BY <1>7 DEF IInv
  <2> QED BY <2>1, <1>1, PicksFirst DEF InOrder
<1> QED BY <1>1, <1>3, <1>4, <1>5, <1>6, <1>7 DEF IInv

\* ulthread_schedule returns, and main may create threads again.
LEMMA ReturnsIInv ==
  ASSUME IInv, ScheduleReturns
  PROVE  IInv'
<1> USE DEF ScheduleReturns
<1>1. /\ UNCHANGED <<tid, priority, state, time, schedalgo, thread_count, current_thread,
                     last_yielded_thread, now, running, older, gone, yielded>>
      /\ Runnable' = Runnable /\ pc' = "main" /\ round' = round + 1
  BY DEF table, Runnable
<1>2. Runnable = {}
  <2>1. Runnable \subseteq Slot
    BY DEF Runnable
  <2> QED BY <2>1, Counted DEF IInv
<1>3. round \in Nat /\ round' \in 0 .. Rounds /\ round' # 0
  BY ULThreadConstants DEF IInv, TypeOK, Switched
<1>4. TypeOK'
  BY <1>1, <1>3 DEF IInv, TypeOK
<1>5. Table' /\ Ids' /\ Switched'
  BY <1>1, <1>2, <1>3 DEF IInv, Table, Ids, Switched
<1> QED BY <1>1, <1>3, <1>4, <1>5 DEF IInv

\* The thread on the processor yields.
LEMMA YieldIInv ==
  ASSUME IInv, ulthread_yield
  PROVE  IInv'
<1> USE DEF ulthread_yield
<1>1. /\ UNCHANGED <<tid, priority, state, schedalgo, pc, round, thread_count, current_thread,
                     now, older, gone>>
      /\ Runnable' = Runnable /\ running' = None /\ last_yielded_thread' = current_thread
      /\ yielded' = yielded \cup {current_thread}
  BY DEF main, Runnable
<1>2. current_thread \in Slot /\ current_thread \in Runnable
  BY DEF IInv, Switched, Runnable
<1>3. now \in Nat /\ now \in 0 .. Never /\ now <= now
  BY ULThreadConstants DEF IInv, TypeOK, Never
<1>4. time' \in [Slot -> 0 .. Never]
  BY <1>3 DEF Stamp, IInv, TypeOK
<1>5. TypeOK'
  BY <1>1, <1>2, <1>4 DEF IInv, TypeOK
<1>6. Table'
  BY <1>2 DEF Stamp, IInv, Table, TypeOK, Runnable
<1>7. Ids' /\ Switched'
  BY <1>1 DEF IInv, Ids, Switched
<1>8. ASSUME schedalgo' = "FCFS", round' = 0 PROVE InOrder'
  BY <1>8, <1>1 DEF Stamp, IInv, InOrder
<1> QED BY <1>1, <1>5, <1>6, <1>7, <1>8 DEF IInv

\* The thread on the processor ends: the slot with its id is its own.
LEMMA DestroyIInv ==
  ASSUME IInv, ulthread_destroy
  PROVE  IInv'
<1> DEFINE i == current_thread
<1>1. i \in Slot /\ i \in Runnable /\ pc = "sched"
  BY DEF ulthread_destroy, IInv, Switched, Runnable
<1>2. Victims = {i}
  <2>1. \A j \in Slot \ Runnable : tid[j] = -1
    BY DEF IInv, Table, TypeOK, Runnable
  <2>2. \A j \in Slot : tid[j] = tid[i] => j = i
    BY <2>1, <1>1 DEF IInv, Table, Ids
  <2> QED BY <2>2, <1>1 DEF Victims
<1>3. i = CHOOSE k \in Victims : \A j \in Victims : k <= j
  BY <1>2
<1>4. /\ tid' = [tid EXCEPT ![i] = -1]
      /\ priority' = [priority EXCEPT ![i] = -1]
      /\ state' = [state EXCEPT ![i] = "FREE"]
      /\ time' = [time EXCEPT ![i] = Never]
      /\ older' = [j \in Slot |-> older[j] \ {i}]
      /\ yielded' = yielded \ {i}
      /\ thread_count' = thread_count - 1 /\ running' = None
      /\ last_yielded_thread' = i /\ gone' = gone \cup {i}
      /\ UNCHANGED <<schedalgo, pc, round, current_thread, now>>
  BY <1>3 DEF ulthread_destroy, CountAfterDestroy, main
<1>5. Runnable' = Runnable \ {i} /\ Runnable \subseteq Slot
  BY <1>4 DEF Runnable, IInv, TypeOK
<1>6. /\ Cardinality(Runnable') = Cardinality(Runnable) - 1
      /\ Cardinality(Runnable') \in 0 .. MAXULTHREADS
  BY <1>1, <1>5, Counted
<1>7. thread_count' = 1 + Cardinality(Runnable') /\ thread_count' \in 1 .. MAXULTHREADS + 1
  <2>1. thread_count = 1 + Cardinality(Runnable) /\ Cardinality(Runnable) \in 0 .. MAXULTHREADS
    BY <1>5, Counted DEF IInv
  <2> QED BY <2>1, <1>4, <1>6, ULThreadConstants
<1>8. TypeOK'
  <2>1. Never \in 0 .. Never /\ -1 \in -1 .. MAXULTHREADS
    BY ULThreadConstants DEF Never
  <2>2. /\ tid' \in [Slot -> -1 .. MAXULTHREADS] /\ time' \in [Slot -> 0 .. Never]
        /\ older' \in [Slot -> SUBSET Slot] /\ gone' \subseteq Slot
    BY <2>1, <1>1, <1>4 DEF IInv, TypeOK
  <2> QED BY <2>2, <1>4, <1>7 DEF IInv, TypeOK
<1>9. Table'
  BY <1>4 DEF IInv, Table, TypeOK, Runnable
<1>10. Ids' /\ Switched' /\ gone' \cap Runnable' = {}
  BY <1>1, <1>4 DEF IInv, Ids, Switched, TypeOK, Runnable
<1>11. ASSUME schedalgo' = "FCFS", round' = 0 PROVE InOrder'
  <2>1. InOrder
    BY <1>11, <1>4 DEF IInv
  <2> QED BY <2>1, <1>1, <1>4, <1>5 DEF InOrder
<1> QED BY <1>7, <1>8, <1>9, <1>10, <1>11 DEF IInv

\* The clock ticks: the times stay in their order, and now is not before them.
LEMMA TickIInv ==
  ASSUME IInv, Tick
  PROVE  IInv' /\ running' = running
<1> DEFINE used == {time[i] : i \in Runnable}
           rank(t) == Cardinality({u \in used : u < t})
<1> HIDE DEF used
<1>1. /\ UNCHANGED <<tid, priority, state, schedalgo, pc, round, thread_count,
                     current_thread, last_yielded_thread, running, older, gone, yielded>>
      /\ now' = Cardinality(used)
      /\ time' = [i \in Slot |-> IF i \in Runnable THEN rank(time[i]) ELSE Never]
      /\ Runnable' = Runnable
  BY DEF Tick, main, Runnable, used
<1>2. IsFiniteSet(used) /\ Cardinality(used) \in 0 .. MAXULTHREADS
  <2>1. Runnable \subseteq Slot
    BY DEF Runnable
  <2>2. IsFiniteSet(Runnable) /\ Cardinality(Runnable) \in 0 .. MAXULTHREADS
    BY <2>1, Counted
  <2>3. IsFiniteSet(used) /\ Cardinality(used) <= Cardinality(Runnable)
    <3>1. [i \in Runnable |-> time[i]] \in Surjection(Runnable, used)
      BY DEF Surjection, used
    <3> QED BY <3>1, <2>2, FS_Surjection
  <2>4. Cardinality(used) \in Nat
    BY <2>3, FS_CardinalityType
  <2> QED BY <2>2, <2>3, <2>4, ULThreadConstants
<1>3. ASSUME NEW t PROVE rank(t) \in 0 .. Cardinality(used)
  <2>2. IsFiniteSet({u \in used : u < t}) /\ rank(t) <= Cardinality(used)
    BY <1>2, FS_Subset
  <2> QED BY <2>2, FS_CardinalityType
<1>4. \A i \in Runnable : i \in Slot /\ time[i] \in Int
  BY DEF Runnable, IInv, TypeOK
<1>5. ASSUME NEW i \in Runnable, NEW j \in Runnable, time[i] <= time[j]
      PROVE  rank(time[i]) <= rank(time[j])
  <2>1. \A u \in used : u \in Int
    BY <1>4 DEF used
  <2>2. {u \in used : u < time[i]} \subseteq {u \in used : u < time[j]}
    BY <2>1, <1>4, <1>5
  <2>3. IsFiniteSet({u \in used : u < time[j]})
    BY <1>2, FS_Subset
  <2> QED BY <2>2, <2>3, FS_Subset
<1>6. \A i \in Runnable : time'[i] = rank(time[i])
  BY <1>1, <1>4
<1> HIDE DEF rank
<1>7. TypeOK'
  <2>1. \A i \in Slot : time'[i] \in 0 .. Never
    BY <1>1, <1>2, <1>3, ULThreadConstants DEF Never
  <2>2. time' \in [Slot -> 0 .. Never] /\ now' \in 0 .. MAXULTHREADS
    BY <2>1, <1>1, <1>2
  <2> QED BY <2>2, <1>1 DEF IInv, TypeOK
<1>8. Table'
  <2>1. \A i \in Runnable : time'[i] <= now'
    BY <1>1, <1>3, <1>6
  <2> QED BY <2>1, <1>1 DEF IInv, Table
<1>9. Ids' /\ Switched'
  BY <1>1 DEF IInv, Ids, Switched
<1>10. ASSUME schedalgo' = "FCFS", round' = 0 PROVE InOrder'
  <2>1. InOrder
    BY <1>10, <1>1 DEF IInv
  <2>2. \A i, j \in Runnable : j < i => time'[j] <= time'[i]
    BY <2>1, <1>5, <1>6 DEF InOrder
  <2> QED BY <2>1, <2>2, <1>1 DEF InOrder
<1> QED BY <1>1, <1>7, <1>8, <1>9, <1>10 DEF IInv

\* Every step keeps the invariant.
LEMMA NextIInv ==
  ASSUME IInv, ~ThreadsCreate, [Next]_vars
  PROVE  IInv'
<1>1. CASE UNCHANGED vars
  <2>1. UNCHANGED <<tid, priority, state, time, schedalgo, pc, round, thread_count,
                    current_thread, last_yielded_thread, now, running, older, gone, yielded>>
    BY <1>1 DEF vars, table, main
  <2>2. Runnable' = Runnable
    BY <2>1 DEF Runnable
  <2> QED BY <2>1, <2>2 DEF IInv, TypeOK, Table, Ids, Switched, InOrder
<1>2. CASE Next
  BY <1>2, CreateIInv, ScheduleIInv, ReturnsIInv, YieldIInv, DestroyIInv, TickIInv DEF Next
<1> QED BY <1>1, <1>2

\* The invariant that all three theorems follow from.
LEMMA Inductive == ~ThreadsCreate => (Spec => []IInv)
<1> SUFFICES ASSUME ~ThreadsCreate PROVE Spec => []IInv
  OBVIOUS
<1>1. IInv /\ [Next]_vars => IInv'
  BY NextIInv
<1> QED BY <1>1, InitIInv, PTL DEF Spec

\* When threads leave ulthread_create to main, the scheduler never switches to a
\* thread that has called ulthread_destroy nor to a free slot, and thread_count
\* is what its loop takes it for.
THEOREM RunsTheLiving == ~ThreadsCreate => (Spec => []NeverRunsDestroyed)
<1>1. IInv => NeverRunsDestroyed
  BY DEF IInv, Switched, NeverRunsDestroyed
<1> QED BY <1>1, Inductive, PTL

\* The processor changes hands in ulthread_schedule only.
LEMMA Switches ==
  ASSUME IInv, ~ThreadsCreate, [Next]_vars, running = None, running' # None
  PROVE  ulthread_schedule
BY TickIInv DEF Next, vars, ulthread_create, ScheduleReturns, ulthread_yield, ulthread_destroy

\* ulthread_schedule obeys its algorithm, among threads of any number: the
\* oldest time stamp under FCFS and round robin; under PRIORITY a most urgent
\* thread other than the one that yielded last, except at the first switch of a
\* second or later batch of threads.
THEOREM ObeysAlgorithm == ~ThreadsCreate => (Spec => FollowsAlgorithm)
<1> DEFINE A == running = None /\ running' # None =>
          LET others == Runnable \ ({last_yielded_thread} \cap yielded)
          IN  \/ /\ schedalgo # "PRIORITY"
                 /\ \A i \in Runnable : time[running'] <= time[i]
              \/ /\ schedalgo = "PRIORITY"
                 /\ running' \in others
                 /\ \A i \in others : priority[i] <= priority[running']
              \/ schedalgo = "PRIORITY" /\ others = {}
              \/ schedalgo = "PRIORITY" /\ pc = "main" /\ round > 0
<1>1. ASSUME ~ThreadsCreate, IInv, [Next]_vars PROVE A
  <2> SUFFICES ASSUME running = None, running' # None,
                      schedalgo = "PRIORITY" => ~(pc = "main" /\ round > 0)
               PROVE  A
    OBVIOUS
  <2>1. running' = Pick /\ Runnable # {}
    BY <1>1, Switches, ScheduleIInv
  <2>2. CASE schedalgo # "PRIORITY"
    BY <2>1, <2>2, <1>1, PicksOldest
  <2>3. CASE schedalgo = "PRIORITY"
    <3>1. pc = "sched" \/ last_yielded_thread = None
      BY <2>3, <1>1, ULThreadConstants DEF IInv, TypeOK, Switched
    <3>2. last_yielded_thread \in Runnable => last_yielded_thread \in yielded
      BY <3>1, <1>1, Slots DEF IInv, Switched, Runnable
    <3>3. Runnable \ ({last_yielded_thread} \cap yielded) = Runnable \ {last_yielded_thread}
      BY <3>2
    <3> QED BY <2>1, <2>3, <3>3, <1>1, PicksUrgent
  <2> QED BY <2>2, <2>3
<1>2. ~ThreadsCreate /\ IInv /\ [Next]_vars => [A]_vars
  BY <1>1
<1> SUFFICES ASSUME ~ThreadsCreate PROVE Spec => FollowsAlgorithm
  OBVIOUS
<1>3. IInv /\ [Next]_vars => [A]_vars
  BY <1>2
<1> QED BY <1>3, Inductive, PTL DEF Spec, FollowsAlgorithm

\* FCFS runs the thread that was created first, in the first call of the
\* scheduler, also among threads of the same clock tick.
THEOREM FirstCome == ~ThreadsCreate => (Spec => FirstComeFirstServed)
<1> DEFINE A == /\ running = None /\ running' # None
                /\ schedalgo = "FCFS" /\ round = 0
                => older[running'] = {}
<1>1. ASSUME ~ThreadsCreate, IInv, [Next]_vars PROVE A
  <2> SUFFICES ASSUME running = None, running' # None, schedalgo = "FCFS", round = 0
               PROVE  older[running'] = {}
    OBVIOUS
  <2>1. running' = Pick /\ Runnable # {}
    BY <1>1, Switches, ScheduleIInv
  <2>2. Pick \in Runnable /\ \A j \in Runnable : Pick <= j
    BY <2>1, <1>1, PicksFirst
  <2>3. older[Pick] = {j \in Runnable : j < Pick}
    BY <2>2, <1>1 DEF IInv, InOrder
  <2>4. \A j \in Runnable : j \in Int
    BY Slots DEF Runnable
  <2>5. {j \in Runnable : j < Pick} = {}
    BY <2>2, <2>4
  <2> QED BY <2>1, <2>3, <2>5
<1> SUFFICES ASSUME ~ThreadsCreate PROVE Spec => FirstComeFirstServed
  OBVIOUS
<1>3. IInv /\ [Next]_vars => [A]_vars
  BY <1>1
<1> QED BY <1>3, Inductive, PTL DEF Spec, FirstComeFirstServed
=============================================================================
