----------------------------- MODULE AtomicDisk -----------------------------
(***************************************************************************)
(* What the log of kernel/log.c promises to the file system: a disk whose  *)
(* contents only ever change by whole groups of system calls.              *)
(*                                                                         *)
(* "durable" is what a reboot at this instant would bring back, "current"  *)
(* is what the running system calls read.  A group of operations becomes   *)
(* durable in one step, and only at an instant at which no operation is in *)
(* progress, so that no crash can expose half of an operation.             *)
(***************************************************************************)
CONSTANTS
    Proc,       \* the processes that make file-system calls
    Block,      \* the disk blocks outside the log
    Val         \* the contents of a block

VARIABLES
    durable,    \* the blocks as recovery would leave them
    current,    \* the blocks as the running operations see them
    active      \* the processes inside a begin_op / end_op bracket

vars == <<durable, current, active>>

TypeOK ==
    /\ durable \in [Block -> Val]
    /\ current \in [Block -> Val]
    /\ active \subseteq Proc

Init ==
    /\ durable \in [Block -> Val]
    /\ current = durable
    /\ active = {}

Begin(p) ==
    /\ p \notin active
    /\ active' = active \cup {p}
    /\ UNCHANGED <<durable, current>>

Write(p, b, v) ==
    /\ p \in active
    /\ current' = [current EXCEPT ![b] = v]
    /\ UNCHANGED <<durable, active>>

End(p) ==
    /\ p \in active
    /\ active' = active \ {p}
    /\ UNCHANGED <<durable, current>>

\* Everything the finished operations wrote becomes durable at once.
Commit ==
    /\ active = {}
    /\ durable' = current
    /\ UNCHANGED <<current, active>>

\* The machine stops: the running operations and all they wrote are gone.
Crash ==
    /\ current' = durable
    /\ active' = {}
    /\ UNCHANGED durable

Next ==
    \/ \E p \in Proc : Begin(p) \/ End(p)
    \/ \E p \in Proc, b \in Block, v \in Val : Write(p, b, v)
    \/ Commit
    \/ Crash

Spec == Init /\ [][Next]_vars
=============================================================================
