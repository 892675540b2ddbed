---------------------------- MODULE PrivateMemory ----------------------------
(***************************************************************************)
(* What fork() promises, with or without copy on write: every process has  *)
(* a memory of its own.  A child starts with the values of its parent, and *)
(* from then on a store of one process is seen by that process only.       *)
(***************************************************************************)
CONSTANTS Slots, Pages, Vals, Image, NoMem

VARIABLE mem      \* the memory of each process, NoMem where there is none

Init == \E p \in Slots : mem = [q \in Slots |-> IF q = p THEN Image ELSE NoMem]

Fork(p, q) == /\ mem[p] # NoMem
              /\ mem[q] = NoMem
              /\ mem' = [mem EXCEPT ![q] = mem[p]]

Store(p, a, v) == /\ mem[p] # NoMem
                  /\ mem' = [mem EXCEPT ![p][a] = v]

Exec(p) == /\ mem[p] # NoMem
           /\ mem' = [mem EXCEPT ![p] = Image]

Exit(p) == mem' = [mem EXCEPT ![p] = NoMem]

Next == \E p \in Slots :
           \/ \E q \in Slots : Fork(p, q)
           \/ \E a \in Pages, v \in Vals : Store(p, a, v)
           \/ Exec(p)
           \/ Exit(p)

Spec == Init /\ [][Next]_mem
==============================================================================
