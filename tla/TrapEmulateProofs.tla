-------------------------- MODULE TrapEmulateProofs --------------------------
(***************************************************************************)
(* Proofs about TrapEmulate, for any number of guests and any size of      *)
(* guest memory.  That privilege is kept holds for every guest.  What is   *)
(* said of memory and of the host holds under the conditions in which the  *)
(* code keeps it: guests run one at a time, are not killed once they have  *)
(* trapped, make no privileged mistake once they have used the PMP, do not *)
(* fault before they have trapped and read no CSR that vm_state does not   *)
(* have, and page tables find memory.                                      *)
(***************************************************************************)
EXTENDS TrapEmulate, FiniteSetTheorems, TLAPS

USE EmulateConstants

OneAtATime ==
    /\ AtOnce <= 1 /\ ~Killable /\ Careful
    /\ ~UnknownReads /\ ~EarlyFaults /\ ~LowMemory

\* What is needed of the data: page tables map what there is.
Tables == [of : Procs \cup {"nobody"}, holes : SUBSET Mem]
Shape ==
    /\ TypeOK
    /\ table \in [Procs -> Tables] /\ old \in Tables
    /\ DOMAIN epc = Procs

OneGuest ==
    \A p, q \in Procs : state[p] = "running" /\ state[q] = "running" => p = q

\* The kept table is the whole table of the guest that runs; until it is kept
\* vm_state is as trap_and_emulate_init left it.
Kept ==
    /\ \A p \in Procs : state[p] = "running" => old \in {NoTable, Full(p)}
    /\ (\A p \in Procs : state[p] # "running") => old = NoTable
    /\ old = NoTable => mode = 2 /\ ~configured

\* A guest that has ended has all its memory mapped.
Whole == \A p \in Procs : state[p] = "zombie" => table[p] = Full(p)

\* Below machine mode the PMP has been found to fit guest memory.
Fits == mode < 2 /\ configured => Restricted \subseteq Mem

GInv == /\ Shape /\ ~panicked
        /\ OneGuest /\ Kept /\ Whole /\ Fits /\ MemoryView

-----------------------------------------------------------------------------
(* Types, for all guests *)

RegsOK == DOMAIN reg = Regs /\ \A r \in Regs : reg[r] \in RegValues(r)

\* A write of a register leaves every register a value that it can have.
LEMMA WriteReg ==
    ASSUME RegsOK, NEW r \in Regs, NEW v \in RegValues(r),
           reg' = [reg EXCEPT ![r] = v]
    PROVE  /\ RegsOK'
           /\ reg'[r] = v /\ \A q \in Regs \ {r} : reg'[q] = reg[q]
BY DEF RegsOK

\* The values of trap_and_emulate_init are values of the registers.
LEMMA ResetRegs ==
    ASSUME reg' = Reset
    PROVE  RegsOK'
<1>1. ASSUME NEW r \in Regs
      PROVE  Reset[r] \in RegValues(r)
  BY DEF Reset, RegValues
<1>2. DOMAIN Reset = Regs
  BY DEF Reset
<1> QED  BY <1>1, <1>2 DEF RegsOK

\* A CSR that a guest may write in its mode is one of vm_state's: get_vm_reg does
\* not find the others.
LEMMA KnownBelow ==
    ASSUME mode \in 0 .. 2, NEW r \in CSRs, RegMode(r) <= mode
    PROVE  r \in Regs
<1>1. RegMode(Unknown) = 3
  BY DEF RegMode, Unknown
<1> QED  BY <1>1 DEF CSRs

\* Nothing a guest does takes the registers, the mode or a page table out of
\* the values that the kernel handles (trap_and_emulate, usertrap, freeproc).
LEMMA ShapeStep ==
    ASSUME Shape, NEW p \in Procs,
           Start(p) \/ Kill(p) \/ Reap(p) \/ Fault(p) \/ TrapAndEmulate(p)
    PROVE  Shape'
<1>0. /\ RegsOK /\ mode \in 0 .. 2
      /\ configured \in BOOLEAN /\ panicked \in BOOLEAN
      /\ state \in [Procs -> {"new", "running", "zombie", "gone"}]
      /\ table \in [Procs -> Tables] /\ old \in Tables /\ DOMAIN epc = Procs
  BY DEF Shape, TypeOK, RegsOK
<1>1. ASSUME RegsOK', mode' \in 0 .. 2,
             configured' \in BOOLEAN, panicked' \in BOOLEAN,
             state' \in [Procs -> {"new", "running", "zombie", "gone"}],
             table' \in [Procs -> Tables], old' \in Tables, DOMAIN epc' = Procs
      PROVE  Shape'
  BY <1>1 DEF Shape, TypeOK, RegsOK, Tables
<1>2. /\ Full(p) \in Tables /\ NoTable \in Tables
      /\ Copied(p) \in Tables
  BY <1>0 DEF Full, NoTable, Tables, Copied
<1>3. CASE Panic
  BY <1>0, <1>1, <1>3 DEF Panic, vm, RegsOK
<1>4. CASE Start(p)
  BY <1>0, <1>1, <1>2, <1>4 DEF Start, vm, RegsOK
<1>5. CASE Kill(p)
  BY <1>0, <1>1, <1>5 DEF Kill, vm, RegsOK
<1>6. CASE Reap(p) /\ ~Panic
  BY <1>0, <1>1, <1>2, <1>6 DEF Reap, vm, RegsOK
<1>7. ASSUME GiveUp(p), table' \in [Procs -> Tables]
      PROVE  Shape'
  <2>1. RegsOK'
    BY <1>7, ResetRegs DEF GiveUp, Initialise
  <2>2. configured' \in BOOLEAN
    BY <1>7 DEF GiveUp, Initialise
  <2> QED  BY <1>0, <1>1, <1>2, <1>7, <2>1, <2>2 DEF GiveUp, Initialise
<1>8. CASE Fault(p)
  BY <1>0, <1>7, <1>8 DEF Fault
<1>9. CASE Sret(p)
  <2>1. CASE mode = 1
    BY <1>0, <1>1, <1>2, <1>9, <2>1 DEF Sret, RegsOK
  <2>2. CASE mode # 1
    BY <1>0, <1>2, <1>7, <1>9, <2>2 DEF Sret
  <2> QED  BY <2>1, <2>2
<1>10. ASSUME NEW short \in BOOLEAN, Mret(p, short)
       PROVE  Shape'
  <2>1. CASE mode < 2
    BY <1>0, <1>7, <1>10, <2>1 DEF Mret
  <2>2. CASE ~(mode < 2) /\ ~Panic
    <3>1. configured => Restricted \in SUBSET Mem
      BY <1>10, <2>2 DEF Mret, Unmappable
    <3>2. table' \in [Procs -> Tables]
      BY <1>0, <1>10, <2>2, <3>1 DEF Mret, Tables
    <3>3. mode' \in 0 .. 2
      <4>1. reg["mstatus"] \in 0 .. 3
        BY <1>0 DEF RegsOK, RegValues, Regs
      <4> QED  BY <1>0, <1>10, <2>2, <4>1 DEF Mret
    <3> QED  BY <1>0, <1>1, <1>2, <1>10, <2>2, <3>2, <3>3 DEF Mret, RegsOK
  <2> QED  BY <1>3, <2>1, <2>2
<1>11. ASSUME NEW at \in Addrs, Ecall(p, at)
       PROVE  Shape'
  <2>0. /\ "sepc" \in Regs /\ at \in RegValues("sepc")
        /\ "mepc" \in Regs /\ at \in RegValues("mepc")
    BY DEF Regs, RegValues
  <2>1. CASE mode = 0
    BY <1>0, <1>1, <1>2, <1>11, <2>0, <2>1, WriteReg DEF Ecall
  <2>2. CASE mode = 1
    BY <1>0, <1>1, <1>2, <1>11, <2>0, <2>2, WriteReg DEF Ecall
  <2>3. CASE mode = 2
    BY <1>0, <1>7, <1>11, <2>3 DEF Ecall
  <2> QED  BY <1>0, <2>1, <2>2, <2>3
<1>12. ASSUME NEW at \in Addrs, NEW r \in CSRs, Csrr(p, at, r)
       PROVE  Shape'
  <2>1. CASE RegMode(r) <= mode /\ r # Unknown
    BY <1>0, <1>1, <1>2, <1>12, <2>1 DEF Csrr, RegsOK
  <2>2. CASE ~(RegMode(r) <= mode) /\ r # Unknown
    BY <1>0, <1>7, <1>12, <2>2 DEF Csrr
  <2>3. CASE r = Unknown
    BY <1>3, <1>12, <2>3 DEF Csrr
  <2> QED  BY <2>1, <2>2, <2>3
<1>13. ASSUME NEW at \in Addrs, NEW r \in CSRs, NEW v \in RegValues(r),
              Csrw(p, at, r, v)
       PROVE  Shape'
  <2>1. CASE RegMode(r) <= mode
    <3>0. r \in Regs
      BY <1>0, <2>1, KnownBelow
    <3>1. RegsOK'
      BY <1>0, <1>13, <2>1, <3>0, WriteReg DEF Csrw
    <3> QED  BY <1>0, <1>1, <1>2, <1>13, <2>1, <3>1 DEF Csrw
  <2>2. CASE ~(RegMode(r) <= mode)
    BY <1>0, <1>7, <1>13, <2>2 DEF Csrw
  <2> QED  BY <2>1, <2>2
<1>14. CASE Ignore(p)
  BY <1>0, <1>1, <1>2, <1>14 DEF Ignore, RegsOK
<1> QED
  BY <1>3, <1>4, <1>5, <1>6, <1>8, <1>9, <1>10, <1>11, <1>12, <1>13, <1>14 DEF
     TrapAndEmulate

\* Types are kept, for every guest and any number of them.
THEOREM Types == Spec => []Shape
<1>1. Init => Shape
  <2> SUFFICES ASSUME Init PROVE Shape
    OBVIOUS
  <2>1. DOMAIN reg = Regs /\ \A r \in Regs : reg[r] \in RegValues(r)
    BY DEF Init, Reset, RegValues
  <2>2. table \in [Procs -> Tables] /\ old \in Tables
    BY DEF Init, NoTable, Tables
  <2>3. configured \in BOOLEAN /\ panicked \in BOOLEAN
    BY DEF Init
  <2>4. \A p \in Procs : table[p].holes \subseteq Mem
    BY <2>2 DEF Tables
  <2> QED  BY <2>1, <2>2, <2>3, <2>4 DEF Init, Shape, TypeOK
<1>2. Shape /\ [Next]_vars => Shape'
  <2>1. CASE UNCHANGED vars
    BY <2>1 DEF vars, Shape, TypeOK
  <2> QED  BY <2>1, ShapeStep DEF Next
<1> QED  BY <1>1, <1>2, PTL DEF Spec

-----------------------------------------------------------------------------
(* Privilege *)

\* A guest becomes more privileged one mode at a time and only at an address
\* that software of that mode has chosen, and no register of a mode is written
\* below it but by the trap that saves where it came from (csrw, ecall, sret,
\* mret).  It holds for all guests, careful or not.
THEOREM PrivilegeIsKept == Spec => PrivilegeKept
<1> DEFINE Kept1 ==
      \/ \E p \in Procs : state[p] = "running" /\ state'[p] = "zombie"
      \/ /\ mode' > mode =>
              /\ mode' = mode + 1
              /\ \E p \in Procs :
                     epc'[p] = reg[IF mode = 0 THEN "stvec" ELSE "mtvec"]
         /\ \A r \in Regs : reg'[r] # reg[r] =>
              \/ RegMode(r) <= mode
              \/ mode' > mode /\ r = IF mode = 0 THEN "sepc" ELSE "mepc"
<1>1. ASSUME Shape, Next
      PROVE  Kept1
  <2>0. /\ mode \in 0 .. 2 /\ DOMAIN reg = Regs
        /\ DOMAIN epc = Procs /\ DOMAIN state = Procs
        /\ reg["sstatus"] \in 0 .. 1 /\ reg["mstatus"] \in 0 .. 3
    BY <1>1 DEF Shape, TypeOK, RegValues, Regs
  <2>1. PICK p \in Procs :
            Start(p) \/ Kill(p) \/ Reap(p) \/ Fault(p) \/ TrapAndEmulate(p)
    BY <1>1 DEF Next
  <2>3. CASE UNCHANGED vm
    BY <2>0, <2>3 DEF vm
  <2>4. CASE state[p] = "running" /\ GiveUp(p)
    BY <2>0, <2>4 DEF GiveUp
  <2>5. CASE Start(p) \/ Kill(p) \/ Reap(p)
    BY <2>3, <2>5 DEF Start, Kill, Reap, Panic
  <2>6. CASE Fault(p)
    BY <2>4, <2>6 DEF Fault
  <2>7. CASE TrapAndEmulate(p)
    <3>0. state[p] = "running"
      BY <2>7 DEF TrapAndEmulate
    <3>1. CASE Sret(p)
      BY <2>4, <3>0, <3>1 DEF Sret
    <3>2. ASSUME NEW short \in BOOLEAN, Mret(p, short)
          PROVE  Kept1
      BY <2>0, <2>3, <2>4, <3>0, <3>2 DEF Mret, Panic
    <3>3. ASSUME NEW at \in Addrs, Ecall(p, at)
          PROVE  Kept1
      <4>1. CASE mode = 0
        <5>1. \A r \in Regs : reg'[r] # reg[r] => r = "sepc"
          BY <2>0, <3>3, <4>1 DEF Ecall
        <5>2. mode' = 1 /\ epc'[p] = reg["stvec"]
          BY <2>0, <3>3, <4>1 DEF Ecall
        <5> QED  BY <4>1, <5>1, <5>2
      <4>2. CASE mode = 1
        <5>1. \A r \in Regs : reg'[r] # reg[r] => r = "mepc"
          BY <2>0, <3>3, <4>2 DEF Ecall
        <5>2. mode' = 2 /\ epc'[p] = reg["mtvec"]
          BY <2>0, <3>3, <4>2 DEF Ecall
        <5> QED  BY <4>2, <5>1, <5>2
      <4>3. CASE mode = 2
        BY <2>4, <3>0, <3>3, <4>3 DEF Ecall
      <4> QED  BY <2>0, <4>1, <4>2, <4>3
    <3>4. ASSUME NEW at \in Addrs, NEW r \in CSRs, Csrr(p, at, r)
          PROVE  Kept1
      BY <2>0, <2>3, <2>4, <3>0, <3>4 DEF Csrr, Panic
    <3>5. ASSUME NEW at \in Addrs, NEW r \in CSRs, NEW v \in RegValues(r),
                 Csrw(p, at, r, v)
          PROVE  Kept1
      <4>1. CASE RegMode(r) <= mode
        BY <2>0, <3>5, <4>1 DEF Csrw
      <4>2. CASE ~(RegMode(r) <= mode)
        BY <2>4, <3>0, <3>5, <4>2 DEF Csrw
      <4> QED  BY <4>1, <4>2
    <3>6. CASE Ignore(p)
      BY <2>0, <3>6 DEF Ignore
    <3> QED  BY <2>3, <2>7, <3>1, <3>2, <3>3, <3>4, <3>5, <3>6 DEF
                TrapAndEmulate, Panic
  <2> QED  BY <2>1, <2>5, <2>6, <2>7
<1>2. Shape /\ [Next]_vars => [Kept1]_vars
  BY <1>1
<1> QED  BY Types, <1>2, PTL DEF Spec, PrivilegeKept

-----------------------------------------------------------------------------
(* Memory and the host, one guest at a time *)

\* The view through the PMP depends on the PMP registers only.
LEMMA ViewOfPmp ==
    ASSUME \A r \in Pmp : reg'[r] = reg[r]
    PROVE  Restricted' = Restricted
<1>1. Used' = Used
  BY DEF Used, Addr, Pmp
<1>2. \A i \in Entries : Covers(i)' = Covers(i)
  BY DEF Covers, From, To, Addr, Pmp
<1>3. Restricts' = Restricts
  BY <1>1 DEF Restricts, Pmp
<1> QED  BY <1>2, <1>3 DEF Restricted, Restricts, Used

\* A page table of a guest is not the missing one.
LEMMA FullIsTable ==
    ASSUME NEW p \in Procs
    PROVE  Full(p) # NoTable /\ Full(p).holes = {}
BY DEF Full, NoTable

\* exec starts a guest when none runs, on all of its memory.
LEMMA StartKeeps ==
    ASSUME OneAtATime, GInv, Shape', NEW p \in Procs, Start(p)
    PROVE  GInv'
<1>1. \A q \in Procs : state[q] # "running"
  <2> DEFINE Running == {q \in Procs : state[q] = "running"}
  <2>1. IsFiniteSet(Running)
    BY FS_Subset
  <2>2. Cardinality(Running) = 0
    <3>1. Cardinality(Running) \in Nat
      BY <2>1, FS_CardinalityType
    <3>2. Cardinality(Running) < AtOnce
      BY DEF Start
    <3> QED  BY <3>1, <3>2 DEF OneAtATime
  <2>3. Running = {}
    BY <2>1, <2>2, FS_EmptySet
  <2> QED  BY <2>3
<1>3. /\ \A q \in Procs \ {p} : state'[q] = state[q] /\ table'[q] = table[q]
      /\ state'[p] = "running" /\ table'[p] = Full(p)
  BY DEF Start, Shape, TypeOK
<1>4. UNCHANGED <<reg, mode, configured, old, panicked>>
  BY DEF Start, vm
<1> QED
  BY <1>1, <1>3, <1>4 DEF GInv, OneGuest, Kept, Whole, Fits, MemoryView, Full

\* Whoever is given up on its whole table leaves vm_state as it was at boot.
LEMMA GiveUpKeeps ==
    ASSUME GInv, Shape', NEW p \in Procs, state[p] = "running", GiveUp(p),
           table'[p] = Full(p), \A q \in Procs \ {p} : table'[q] = table[q]
    PROVE  GInv'
<1>1. \A q \in Procs : /\ state'[q] # "running"
                       /\ state'[q] = "zombie" => q = p \/ state[q] = "zombie"
  BY DEF GiveUp, GInv, Shape, TypeOK, OneGuest
<1>2. old' = NoTable /\ mode' = 2 /\ ~configured' /\ ~panicked'
  BY DEF GiveUp, Initialise, GInv
<1> QED
  BY <1>1, <1>2 DEF GInv, OneGuest, Kept, Whole, Fits, MemoryView

\* A guest that goes on has its whole table kept.
LEMMA GoesOn ==
    ASSUME GInv, Shape', NEW p \in Procs, state[p] = "running",
           old' = Full(p), UNCHANGED <<state, panicked>>,
           \A q \in Procs \ {p} : table'[q] = table[q],
           table'[p] = [of |-> p,
                        holes |-> IF mode' < 2 /\ configured' THEN Restricted'
                                 ELSE {}],
           Fits'
    PROVE  GInv'
<1>1. \A q \in Procs : state[q] = "running" => q = p
  BY DEF GInv, OneGuest
<1> QED
  BY <1>1, FullIsTable DEF GInv, OneGuest, Kept, Whole, MemoryView

\* trap_and_emulate keeps memory and host whole, whatever the instruction.
LEMMA TrapKeeps ==
    ASSUME OneAtATime, GInv, Shape', NEW p \in Procs, TrapAndEmulate(p)
    PROVE  GInv'
<1>0. /\ state[p] = "running" /\ Shape /\ mode \in 0 .. 2 /\ Fits
      /\ table[p] = [of |-> p,
                     holes |-> IF mode < 2 /\ configured THEN Restricted
                              ELSE {}]
      /\ DOMAIN table = Procs /\ DOMAIN reg = Regs
  BY DEF GInv, Shape, TypeOK, MemoryView, TrapAndEmulate
<1>1. ~(mode < 2 /\ configured) => table[p] = Full(p)
  BY <1>0 DEF Full
<1>2. Copied(p) = Full(p)
  BY <1>0, <1>1 DEF Copied, GInv, Kept
<1>3. ~(old = NoTable /\ table[p].holes # {})
  BY <1>1, FullIsTable DEF GInv, Kept
<1>4. ASSUME GiveUp(p), \/ table' = [table EXCEPT ![p] = Copied(p)]
                        \/ UNCHANGED table /\ ~(mode < 2 /\ configured)
      PROVE  GInv'
  BY <1>0, <1>1, <1>2, <1>4, GiveUpKeeps
<1>5. CASE Sret(p)
  <2>1. CASE mode = 1
    <3>1. Restricted' = Restricted
      BY <1>5, <2>1, ViewOfPmp DEF Sret
    <3> QED  BY <1>0, <1>2, <1>5, <2>1, <3>1, GoesOn DEF Sret, Fits
  <2>2. CASE mode # 1
    BY <1>4, <1>5, <2>2 DEF Sret
  <2> QED  BY <2>1, <2>2
<1>6. CASE Mret(p, FALSE)
  <2>1. CASE mode < 2
    BY <1>4, <1>6, <2>1 DEF Mret, OneAtATime
  <2>2. CASE ~(mode < 2)
    <3>0. /\ table[p] = Full(p)
          /\ configured => Unmappable /\ reg["mstatus"] < 2
      BY <1>1, <1>6 DEF Mret, OneAtATime
    <3>1. ~(configured /\ (table[p].holes # {} \/ ~Unmappable))
      BY <3>0, FullIsTable
    <3>2. Restricted' = Restricted
      BY <1>6, <2>2, <3>1, ViewOfPmp DEF Mret
    <3>3. UNCHANGED <<configured, state, panicked>> /\ old' = Full(p)
      BY <1>2, <1>6, <2>2, <3>1 DEF Mret
    <3>4. CASE configured
      <4>1. mode' < 2 /\ Restricted \subseteq Mem
        BY <1>6, <2>2, <3>0, <3>1, <3>4 DEF Mret, Unmappable
      <4>2. table' = [table EXCEPT ![p] = [of |-> p, holes |-> Restricted]]
        BY <1>6, <2>2, <3>0, <3>4 DEF Mret, Full
      <4> QED  BY <1>0, <3>2, <3>3, <3>4, <4>1, <4>2, GoesOn DEF Fits
    <3>5. CASE ~configured
      <4>1. /\ table'[p] = [of |-> p, holes |-> {}]
            /\ \A q \in Procs \ {p} : table'[q] = table[q]
        BY <1>0, <1>6, <3>5 DEF Mret
      <4> QED  BY <1>0, <3>3, <3>5, <4>1, GoesOn DEF Fits
    <3> QED  BY <3>4, <3>5
  <2> QED  BY <2>1, <2>2
<1>7. ASSUME NEW at \in Addrs, Ecall(p, at)
      PROVE  GInv'
  <2>1. CASE mode = 0
    <3>1. Restricted' = Restricted
      BY <1>0, <1>7, <2>1, ViewOfPmp DEF Ecall, Pmp, Regs
    <3>2. /\ UNCHANGED <<configured, state, table, panicked>>
          /\ mode' = 1 /\ old' = Full(p)
      BY <1>2, <1>7, <2>1 DEF Ecall
    <3> QED  BY <1>0, <2>1, <3>1, <3>2, GoesOn DEF Fits
  <2>2. CASE mode = 1
    <3>1. /\ UNCHANGED <<configured, state, panicked>>
          /\ mode' = 2 /\ old' = Full(p)
      BY <1>2, <1>7, <2>2 DEF Ecall
    <3>2. table' = [table EXCEPT ![p] = Full(p)]
      BY <1>2, <1>7, <2>2 DEF Ecall
    <3> QED  BY <1>0, <3>1, <3>2, GoesOn DEF Fits, Full
  <2>3. CASE mode = 2
    BY <1>4, <1>7, <2>3 DEF Ecall
  <2> QED  BY <1>0, <2>1, <2>2, <2>3
<1>8. ASSUME NEW at \in Addrs, NEW r \in CSRs, Csrr(p, at, r)
      PROVE  GInv'
  <2>0. r # Unknown
    BY <1>8 DEF Csrr, OneAtATime
  <2>1. CASE RegMode(r) <= mode
    <3>1. Restricted' = Restricted
      BY <1>8, <2>0, <2>1, ViewOfPmp DEF Csrr
    <3>2. /\ UNCHANGED <<mode, configured, state, table, panicked>>
          /\ old' = Full(p)
      BY <1>2, <1>8, <2>0, <2>1 DEF Csrr
    <3> QED  BY <1>0, <3>1, <3>2, GoesOn DEF Fits
  <2>2. CASE ~(RegMode(r) <= mode)
    BY <1>4, <1>8, <2>0, <2>2 DEF Csrr, Mistake, OneAtATime
  <2> QED  BY <2>1, <2>2
<1>9. ASSUME NEW at \in Addrs, NEW r \in CSRs, NEW v \in RegValues(r),
             Csrw(p, at, r, v)
      PROVE  GInv'
  <2>1. CASE RegMode(r) <= mode
    <3>1. UNCHANGED <<mode, state, table, panicked>> /\ old' = Full(p)
      BY <1>2, <1>9, <2>1 DEF Csrw
    <3>2. CASE r \in Pmp
      <4>1. mode = 2
        BY <1>9, <3>2 DEF Csrw, OneAtATime
      <4> QED  BY <1>0, <3>1, <4>1, GoesOn DEF Fits
    <3>3. CASE r \notin Pmp
      <4>1. Restricted' = Restricted
        BY <1>0, <1>9, <2>1, <3>3, ViewOfPmp DEF Csrw, Pmp, Regs
      <4>2. configured' = configured
        BY <1>0, <1>9, <2>1, <3>3 DEF Csrw, Shape, TypeOK
      <4> QED  BY <1>0, <3>1, <4>1, <4>2, GoesOn DEF Fits
    <3> QED  BY <3>2, <3>3
  <2>2. CASE ~(RegMode(r) <= mode)
    BY <1>4, <1>9, <2>2 DEF Csrw, Mistake, OneAtATime
  <2> QED  BY <2>1, <2>2
<1>10. CASE Ignore(p)
  <2>1. Restricted' = Restricted
    BY <1>10, ViewOfPmp DEF Ignore
  <2>2. /\ UNCHANGED <<mode, configured, state, table, panicked>>
        /\ old' = Full(p)
    BY <1>2, <1>10 DEF Ignore
  <2> QED  BY <1>0, <2>1, <2>2, GoesOn DEF Fits
<1> QED
  BY <1>3, <1>5, <1>6, <1>7, <1>8, <1>9, <1>10 DEF TrapAndEmulate, OneAtATime

\* The invariant holds for guests that run one at a time.
LEMMA GuestInvariant ==
    ASSUME OneAtATime
    PROVE  Spec => []GInv
<1>1. Init => ~panicked /\ OneGuest /\ Kept /\ Whole /\ Fits /\ MemoryView
  BY DEF Init, OneGuest, Kept, Whole, Fits, MemoryView
<1>2. ASSUME GInv, Shape', [Next]_vars
      PROVE  GInv'
  <2>1. CASE UNCHANGED vars
    <3>1. Restricted' = Restricted
      BY <2>1, ViewOfPmp DEF vars
    <3> QED  BY <1>2, <2>1, <3>1 DEF vars, GInv, OneGuest, Kept, Whole, Fits,
                MemoryView
  <2>2. ASSUME NEW p \in Procs, Kill(p)
        PROVE  GInv'
    <3>1. old = NoTable /\ mode = 2 /\ ~configured /\ state[p] = "running"
      BY <1>2, <2>2 DEF Kill, OneAtATime, GInv, Kept
    <3>2. table[p] = Full(p)
      BY <1>2, <3>1 DEF GInv, MemoryView, Full
    <3>3. \A q \in Procs :
            /\ state'[q] # "running"
            /\ state'[q] = "zombie" => q = p \/ state[q] = "zombie"
      BY <1>2, <2>2 DEF Kill, GInv, Shape, TypeOK, OneGuest
    <3>4. UNCHANGED <<reg, mode, configured, old, table, panicked>>
      BY <2>2 DEF Kill, vm
    <3> QED  BY <1>2, <3>1, <3>2, <3>3, <3>4 DEF GInv, OneGuest, Kept, Whole,
                Fits, MemoryView
  <2>3. ASSUME NEW p \in Procs, Reap(p)
        PROVE  GInv'
    <3>1. table[p] # NoTable /\ table[p].holes = {}
      BY <1>2, <2>3, FullIsTable DEF Reap, GInv, Whole
    <3>2. UNCHANGED <<reg, mode, configured, old, panicked>>
      BY <2>3, <3>1 DEF Reap, vm
    <3>3. \A q \in Procs :
            /\ q # p => state'[q] = state[q] /\ table'[q] = table[q]
            /\ q = p => state[q] = "zombie" /\ state'[q] = "gone"
      BY <1>2, <2>3, <3>1 DEF Reap, Shape, TypeOK
    <3>4. Restricted' = Restricted
      BY <3>2, ViewOfPmp
    <3> QED  BY <1>2, <3>2, <3>3, <3>4 DEF GInv, OneGuest, Kept, Whole, Fits,
                MemoryView
  <2>4. ASSUME NEW p \in Procs, Fault(p)
        PROVE  GInv'
    <3>1. state[p] = "running" /\ old = Full(p) /\ GiveUp(p)
      BY <1>2, <2>4 DEF Fault, OneAtATime, GInv, Kept
    <3>2. table' = [table EXCEPT ![p] = Full(p)] /\ DOMAIN table = Procs
      BY <1>2, <2>4, <3>1 DEF Fault, Shape
    <3> QED  BY <1>2, <3>1, <3>2, GiveUpKeeps
  <2> QED  BY <1>2, <2>1, <2>2, <2>3, <2>4, StartKeeps, TrapKeeps DEF Next
<1>3. Shape /\ ~panicked /\ OneGuest /\ Kept /\ Whole /\ Fits /\ MemoryView
      => GInv
  BY DEF GInv
<1> QED  BY Types, <1>1, <1>2, <1>3, PTL DEF Spec

\* While OneAtATime holds no guest stops the host: no copy of a page table, no
\* view through the PMP and no freeproc meets a missing page or one cut in two,
\* whatever it writes to pmpaddr and however it ends.  Without any one of the
\* conditions it can be stopped.
THEOREM HostIsSafe ==
    ASSUME OneAtATime
    PROVE  Spec => []HostSurvives
<1>1. GInv => HostSurvives
  BY DEF GInv, Shape, HostSurvives
<1> QED  BY GuestInvariant, <1>1, PTL

\* While OneAtATime holds a guest sees its own memory and, below machine mode, the
\* part that its PMP registers leave, whoever ran before it (mret, ecall,
\* trap_and_emulate_init).
THEOREM GuestsSeeTheirMemory ==
    ASSUME OneAtATime
    PROVE  Spec => []MemoryView
<1>1. GInv => MemoryView
  BY DEF GInv
<1> QED  BY GuestInvariant, <1>1, PTL
=============================================================================
