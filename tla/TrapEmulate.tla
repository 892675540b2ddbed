----------------------------- MODULE TrapEmulate -----------------------------
(***************************************************************************)
(* The virtual machine monitor of assignment 4: kernel/trap-and-emulate.c, *)
(* with what exec, usertrap and freeproc do for processes named vm-.       *)
(*                                                                         *)
(* A guest runs unprivileged.  Its privileged instructions trap, and the   *)
(* kernel carries them out on one global vm_state.  usertrap keeps         *)
(* interrupts off all the while, so a trap is one step.  mstatus and       *)
(* sstatus are their MPP and SPP fields, and pmpcfg0 is the set of entries *)
(* that allow everything.                                                  *)
(*                                                                         *)
(* The addresses of a guest are cut into pieces of whole pages: 1 is its   *)
(* program, 2 is not mapped, the next RAM are guest memory, and after them *)
(* nothing is mapped that a guest may lose.  An address is counted in half *)
(* pieces, so that an odd one is not the start of a page; a pmpaddr is 0   *)
(* for unset, or one more than the address that it is shifted to.  A page  *)
(* table is named by the process whose frames it maps and by its holes.    *)
(***************************************************************************)
EXTENDS Naturals, FiniteSets

CONSTANTS
    Procs,      \* processes named vm-, each lives once
    RAM,        \* number of pieces of guest memory
    Addrs,      \* addresses of guest instructions, multiples of 4
    AtOnce,     \* guests that run at the same time
    PmpAddrs,   \* values of a pmpaddr
    Killable,   \* may a guest be killed by kill() once it has trapped?
    Careful,    \* does a guest that uses the PMP make no privileged mistake?
    UnknownReads,   \* may a guest read a CSR that vm_state does not have?
    EarlyFaults,    \* may a guest fault before it has trapped?
    LowMemory       \* may page tables find no memory?  mret never gives one back

NoTable == [of |-> "nobody", holes |-> {}]

ASSUME EmulateConstants ==
    /\ RAM \in Nat \ {0} /\ AtOnce \in Nat
    /\ Addrs \subseteq Nat /\ 0 \in Addrs
    /\ "nobody" \notin Procs /\ IsFiniteSet(Procs)
    /\ PmpAddrs \subseteq Nat /\ 0 \in PmpAddrs

Entries == {0, 1}                         \* pmpaddr[], four of them
Addr(i) == IF i = 0 THEN "pmpaddr0" ELSE "pmpaddr1"
Regs    == {"sstatus", "stvec", "sepc", "mstatus", "mtvec", "mepc",
            "pmpcfg0", "pmpaddr0", "pmpaddr1"}

Unknown == "unknown"                      \* any CSR that is not in vm_state
CSRs    == Regs \cup {Unknown}

\* The mode that a register is given in trap_and_emulate_init, and one above all
\* modes for a CSR that get_vm_reg does not find.
RegMode(r) == CASE r \in {"sstatus", "stvec", "sepc"}   -> 1
                [] r \in {"mstatus", "mtvec", "mepc"}   -> 2
                [] r = Unknown                          -> 3
                [] OTHER                                -> 0
RegValues(r) == CASE r = "sstatus" -> 0 .. 1
                  [] r = "mstatus" -> 0 .. 3
                  [] r = "pmpcfg0" -> SUBSET Entries
                  [] r \in {"pmpaddr0", "pmpaddr1"} -> PmpAddrs
                  [] OTHER         -> Addrs
Pmp == {"pmpcfg0", "pmpaddr0", "pmpaddr1"}

VARIABLES
    reg,          \* vm_state's registers
    mode,         \* vm_state.current_mode: 0 user, 1 supervisor, 2 machine
    configured,   \* vm_state.pmp_configuration
    old,          \* vm_state.old_ptable
    state,        \* state[p]: new, running, zombie, gone
    table,        \* p->pagetable
    epc,          \* p->trapframe->epc, where the guest goes on
    panicked

vm   == <<reg, mode, configured, old>>
vars == <<reg, mode, configured, old, state, table, epc, panicked>>

Full(p) == [of |-> p, holes |-> {}]
Base    == 4                              \* 0x80000000, where piece 3 starts
Mem     == {1} \cup 3 .. RAM + 2          \* the pieces that are mapped

TypeOK ==
    /\ DOMAIN reg = Regs /\ \A r \in Regs : reg[r] \in RegValues(r)
    /\ mode \in 0 .. 2 /\ configured \in BOOLEAN /\ panicked \in BOOLEAN
    /\ state \in [Procs -> {"new", "running", "zombie", "gone"}]
    /\ \A p \in Procs : table[p].holes \subseteq Mem

Reset == [r \in Regs |-> IF r = "pmpcfg0" THEN {} ELSE 0]

\* trap_and_emulate_init, called at boot and whenever a guest is given up.
Init ==
    /\ reg = Reset /\ mode = 2 /\ configured = FALSE /\ old = NoTable
    /\ state = [p \in Procs |-> "new"]
    /\ table = [p \in Procs |-> NoTable]
    /\ epc = [p \in Procs |-> 0]
    /\ panicked = FALSE

\* Mutant: the reset forgets the kept page table.
InitialiseKeepsOld ==
    reg' = Reset /\ mode' = 2 /\ configured' = FALSE /\ old' = old

Initialise == reg' = Reset /\ mode' = 2 /\ configured' = FALSE /\ old' = NoTable

Panic == panicked' = TRUE /\ UNCHANGED <<vm, state, table, epc>>

\* setkilled, trap_and_emulate_init, and then exit in usertrap.
GiveUp(p) == /\ Initialise
             /\ state' = [state EXCEPT ![p] = "zombie"]
             /\ UNCHANGED <<epc, panicked>>

-----------------------------------------------------------------------------
(* The life of a guest. *)

\* exec of a vm- program maps all of guest memory.
Start(p) ==
    /\ ~panicked /\ state[p] = "new"
    /\ Cardinality({q \in Procs : state[q] = "running"}) < AtOnce
    /\ state' = [state EXCEPT ![p] = "running"]
    /\ table' = [table EXCEPT ![p] = Full(p)]
    /\ UNCHANGED <<vm, epc, panicked>>

\* The exit of a guest that kill() has marked: at its next trap, after the
\* instruction if that is emulated (which is a step of its own).  vm_state stays.
Kill(p) ==
    /\ ~panicked /\ state[p] = "running"
    /\ Killable \/ old = NoTable
    /\ state' = [state EXCEPT ![p] = "zombie"]
    /\ UNCHANGED <<vm, table, epc, panicked>>

\* freeproc unmaps guest memory; a piece that is not mapped is a panic.
Reap(p) ==
    /\ ~panicked /\ state[p] = "zombie"
    /\ IF table[p] = NoTable \/ table[p].holes # {} THEN Panic
       ELSE /\ state' = [state EXCEPT ![p] = "gone"]
            /\ table' = [table EXCEPT ![p] = NoTable]
            /\ UNCHANGED <<vm, epc, panicked>>

\* Any other exception, as an access to a hole: usertrap switches to the kept
\* copy of the page table, NULL before the first trap, and gives the guest up.
Fault(p) ==
    /\ ~panicked /\ state[p] = "running"
    /\ EarlyFaults \/ old # NoTable
    /\ table' = [table EXCEPT ![p] = old]
    /\ GiveUp(p)

-----------------------------------------------------------------------------
(* Privileged instructions. *)

\* trap_and_emulate first keeps a copy of the page table, once.
Copied(p) == IF old = NoTable THEN table[p] ELSE old

\* Mistakes are left to guests that have not touched the PMP.
Mistake == ~Careful \/ ~configured

Ecall(p, at) ==
    /\ \/ /\ mode = 0
          /\ reg' = [reg EXCEPT !["sepc"] = at]
          /\ mode' = 1
          /\ epc' = [epc EXCEPT ![p] = reg["stvec"]]
          /\ old' = Copied(p)
          /\ UNCHANGED <<configured, state, table, panicked>>
       \/ /\ mode = 1
          /\ reg' = [reg EXCEPT !["mepc"] = at]
          /\ mode' = 2
          /\ epc' = [epc EXCEPT ![p] = reg["mtvec"]]
          /\ old' = Copied(p)
          /\ table' = [table EXCEPT ![p] = Copied(p)]
          /\ UNCHANGED <<configured, state, panicked>>
       \/ /\ mode = 2
          /\ GiveUp(p)
          /\ UNCHANGED table

\* Mutant: sret in the wrong mode gives the guest up on the restricted table.
SretKeepsTable(p) ==
    IF mode = 1
    THEN /\ mode' = IF reg["sstatus"] < 1 THEN 0 ELSE mode
         /\ epc' = [epc EXCEPT ![p] = reg["sepc"]]
         /\ old' = Copied(p)
         /\ UNCHANGED <<reg, configured, state, table, panicked>>
    ELSE GiveUp(p) /\ UNCHANGED table

Sret(p) ==
    /\ IF mode = 1
       THEN /\ mode' = IF reg["sstatus"] < 1 THEN 0 ELSE mode
            /\ epc' = [epc EXCEPT ![p] = reg["sepc"]]
            /\ old' = Copied(p)
            /\ UNCHANGED <<reg, configured, state, table, panicked>>
       ELSE /\ table' = [table EXCEPT ![p] = Copied(p)]
            /\ GiveUp(p)

\* Entry i lies between the end of the one before it, or 0x80000000, and its own
\* end, and takes away every page that starts there.
From(i)   == IF i = 0 THEN Base ELSE reg[Addr(i - 1)] - 1
To(i)     == reg[Addr(i)] - 1
Covers(i) == {k \in 1 .. RAM + 3 : From(i) <= 2 * (k - 1) /\ 2 * (k - 1) < To(i)}

\* The loop stops at the first unset entry.
Used       == {i \in Entries : \A j \in 0 .. i : reg[Addr(j)] # 0}
Restricts  == {i \in Used : i \notin reg["pmpcfg0"]}
Restricted == UNION {Covers(i) : i \in Restricts}

\* What uvmunmap asks for, or it panics: entries that take something away start at
\* a page, and every page is there and not taken away before.
Unmappable == /\ \A i \in Restricts : From(i) < To(i) => From(i) % 2 = 0
              /\ Restricted \subseteq Mem
              /\ \A i, j \in Restricts : i # j => Covers(i) \cap Covers(j) = {}

\* mret, and the view through the PMP that replaces the page table, if there is
\* memory for it.
Mret(p, short) ==
    /\ Careful /\ configured => mode = 2 /\ reg["mstatus"] < 2 /\ Unmappable
    /\ IF mode < 2
       THEN GiveUp(p) /\ UNCHANGED table
       ELSE IF configured /\ (short \/ table[p].holes # {} \/ ~Unmappable)
       THEN Panic
       ELSE /\ mode' = IF reg["mstatus"] < 2 THEN reg["mstatus"] ELSE mode
            /\ epc' = [epc EXCEPT ![p] = reg["mepc"]]
            /\ old' = Copied(p)
            /\ table' = [table EXCEPT ![p] =
                  IF configured THEN [@ EXCEPT !.holes = Restricted] ELSE @]
            /\ UNCHANGED <<reg, configured, state, panicked>>

\* Mutant: csrw takes the mode of a register for the lowest that may not write it.
CsrwOffByOne(p, at, r, v) ==
    /\ Careful /\ r \in Pmp => mode = 2
    /\ IF RegMode(r) <= mode + 1
       THEN /\ reg' = [reg EXCEPT ![r] = v]
            /\ configured' = (configured \/ r \in Pmp)
            /\ epc' = [epc EXCEPT ![p] = at + 4]
            /\ old' = Copied(p)
            /\ UNCHANGED <<mode, state, table, panicked>>
       ELSE GiveUp(p) /\ UNCHANGED table

\* csrw of a CSR; above the mode of the guest, or unknown, it is given up.
Csrw(p, at, r, v) ==
    /\ Mistake \/ RegMode(r) <= mode
    /\ Careful /\ r \in Pmp => mode = 2
    /\ IF RegMode(r) <= mode
       THEN /\ reg' = [reg EXCEPT ![r] = v]
            /\ configured' = (configured \/ r \in Pmp)
            /\ epc' = [epc EXCEPT ![p] = at + 4]
            /\ old' = Copied(p)
            /\ UNCHANGED <<mode, state, table, panicked>>
       ELSE GiveUp(p) /\ UNCHANGED table

\* csrr of a CSR; the value goes to the guest only.  The NULL that get_vm_reg
\* returns for one that is unknown is followed.
Csrr(p, at, r) ==
    /\ Mistake \/ RegMode(r) <= mode
    /\ r = Unknown => UnknownReads
    /\ IF r = Unknown THEN Panic
       ELSE IF RegMode(r) <= mode
       THEN /\ epc' = [epc EXCEPT ![p] = at + 4]
            /\ old' = Copied(p)
            /\ UNCHANGED <<reg, mode, configured, state, table, panicked>>
       ELSE GiveUp(p) /\ UNCHANGED table

\* Any other instruction is left undone, and traps again.
Ignore(p) == /\ old' = Copied(p)
             /\ UNCHANGED <<reg, mode, configured, state, table, epc, panicked>>

\* trap_and_emulate; the copy of a table that has a hole is a panic, and so is
\* one that finds no memory.
TrapAndEmulate(p) ==
    /\ ~panicked /\ state[p] = "running"
    /\ \E short \in IF LowMemory THEN BOOLEAN ELSE {FALSE} :
          IF old = NoTable /\ (short \/ table[p].holes # {}) THEN Panic
          ELSE \/ Sret(p)
               \/ Mret(p, short)
               \/ Ignore(p)
               \/ \E at \in Addrs : Ecall(p, at)
               \/ \E at \in Addrs, r \in CSRs : Csrr(p, at, r)
               \/ \E at \in Addrs, r \in CSRs : \E v \in RegValues(r) : Csrw(p, at, r, v)

Next == \E p \in Procs :
            Start(p) \/ Kill(p) \/ Reap(p) \/ Fault(p) \/ TrapAndEmulate(p)

Spec == Init /\ [][Next]_vars

-----------------------------------------------------------------------------
(* Properties, for guests that run one after another, are not killed from    *)
(* outside once they have trapped, make no privileged mistake after they have *)
(* touched the PMP, do not fault before they have trapped, and read no CSR    *)
(* that the monitor does not know, while there is memory for page tables.     *)

\* No such guest stops the host: whatever way it ends, the page table it ends on
\* has all the pieces that freeproc unmaps, every copy finds all of its source, and
\* every view is cut at pages that are there.
HostSurvives == TypeOK /\ ~panicked

\* A guest runs on its own memory, whoever ran before it: on all of it in
\* machine mode, and below that on what the PMP registers leave, once it has
\* written them (mret installs the view, ecall to machine mode removes it).
MemoryView ==
    \A p \in Procs : state[p] = "running" =>
        table[p] = [of |-> p,
                    holes |-> IF mode < 2 /\ configured THEN Restricted ELSE {}]

\* Privilege is kept: a guest becomes more privileged one mode at a time, at an
\* address that software of that mode has chosen, and the registers of a mode
\* change below it only when a trap saves where it came from.
PrivilegeKept ==
    [][\/ \E p \in Procs : state[p] = "running" /\ state'[p] = "zombie"
       \/ /\ mode' > mode =>
                /\ mode' = mode + 1
                /\ \E p \in Procs : epc'[p] = reg[IF mode = 0 THEN "stvec" ELSE "mtvec"]
          /\ \A r \in Regs : reg'[r] # reg[r] =>
                \/ RegMode(r) <= mode
                \/ mode' > mode /\ r = IF mode = 0 THEN "sepc" ELSE "mepc"]_vars
=============================================================================
