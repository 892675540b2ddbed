----------------------------- MODULE LogProofs -----------------------------
(***************************************************************************)
(* Proofs about Log, for any number of processes and blocks and for logs   *)
(* of any size.  The inductive invariant has four parts: the types, the    *)
(* control state (who is inside which bracket), the header and its pins,   *)
(* and the accounting of log space.                                        *)
(***************************************************************************)
EXTENDS Log, FiniteSetTheorems, SequenceTheorems, TLAPS

CommitPhases == {"commit", "wlog", "whead", "install", "clear", "done"}

(* Control: log.committing says that exactly one process is in commit(). *)
Control ==
    /\ committing <=> phase \in CommitPhases
    /\ committing => outstanding = 0 /\ \E p \in Proc : pc[p] = "commit"
    /\ \A p \in Proc : pc[p] = "commit" => committing
    /\ \A p, q \in Proc : pc[p] = "commit" /\ pc[q] = "commit" => p = q
    /\ Booting => \A p \in Proc : pc[p] = "idle"
    /\ outstanding = Cardinality(Active)

Distinct(s) == \A i, j \in DOMAIN s : s[i] = s[j] => i = j

(* Header: no block twice, every entry has a slot, and it is empty whenever *)
(* commit() or recovery has set log.lh.n to 0 and nothing was logged since. *)
Header ==
    /\ Distinct(lh) /\ Distinct(hdr)
    /\ Len(lh) <= NLOG - 1 /\ Len(hdr) <= NLOG - 1
    /\ phase \in {"boot", "rclear", "clear", "done"} => lh = <<>>
    /\ phase = "run" /\ outstanding = 0 => lh = <<>>

(* A credit is a block that an open operation has reserved and not logged. *)
Credits ==
    {c \in Active \X (1 .. MAXOPBLOCKS) : c[2] > Cardinality(wrote[c[1]])}

(* Space: the header and the open credits fit in the log.  The last clause  *)
(* is what lets the last open operation write: either an operation that     *)
(* ended has left a credit unused, or all that is logged is its own.        *)
Space ==
    /\ \A p \in Active : /\ Cardinality(wrote[p]) <= OPBLOCKS
                         /\ wrote[p] \subseteq Contents(lh)
    /\ \A p \in Proc \ Active : wrote[p] = {}
    /\ Active # {} => Len(lh) + Cardinality(Credits) <= LOGSIZE

LastOne ==
    \A p \in Active : Active = {p} =>
        \/ Len(lh) + Cardinality(Credits) < LOGSIZE
        \/ Contents(lh) = wrote[p]

IInv == TypeOK /\ Control /\ Header /\ PinnedOnce /\ Space

-----------------------------------------------------------------------------
(* Types *)

\* bread returns block contents.
LEMMA BreadType == ASSUME TypeOK, NEW b \in Block PROVE bread(b) \in Val
BY DEF TypeOK, bread

\* install_trans only touches blocks of the header, whose pins are there.
LEMMA InstallType ==
    ASSUME TypeOK, Header, PinnedOnce, NEW r \in BOOLEAN, InstallBlock(r),
           r \/ phase = "install", panicked' = panicked
    PROVE  TypeOK'
<1>1. tail \in 1 .. Len(lh) /\ lh[tail] \in Block
  BY DEF TypeOK, InstallBlock
<1>2. slot[tail] \in Val
  BY LogConstants, NotCachedAssumption, FiniteAssumption, <1>1 DEF TypeOK, Header, Slots
<1>3. ~r => pin[lh[tail]] = 1
  BY <1>1 DEF PinnedOnce, Uninstalled, TypeOK
<1>4. pin' \in [Block -> Nat]
  BY <1>1, <1>3 DEF TypeOK, InstallBlock
<1> QED
  BY <1>1, <1>2, <1>4 DEF TypeOK, InstallBlock

\* Types are preserved by every step.
LEMMA TypeStep ==
    ASSUME TypeOK, Control, Header, PinnedOnce, [Next]_vars
    PROVE  TypeOK'
<1> USE DEF TypeOK
<1>1. CASE UNCHANGED vars
  BY <1>1 DEF vars, memory, storage
<1>2. CASE Crash
  <2>1. PICK v \in Val : Torn(v)
    BY <1>2 DEF Crash
  <2>2. disk' \in [Block -> Val] /\ slot' \in [Slots -> Val] /\ hdr' \in Seq(Block)
    <3>1. CASE UNCHANGED storage
      BY <3>1 DEF storage
    <3>2. CASE slot' = [slot EXCEPT ![tail] = v] /\ UNCHANGED <<disk, hdr>>
      BY <3>2
    <3>3. CASE disk' = [disk EXCEPT ![lh[tail]] = v] /\ UNCHANGED <<slot, hdr>>
      BY <3>3
    <3> QED
      BY <2>1, <3>1, <3>2, <3>3 DEF Torn
  <2>3. lh' \in Seq(Block) /\ tail' \in Nat \ {0} /\ phase' \in Phases
    BY <1>2 DEF Crash, Phases
  <2>4. /\ pc' \in [Proc -> {"idle", "begin", "asleep", "active", "commit"}]
        /\ wrote' \in [Proc -> SUBSET Block]
        /\ outstanding' \in Nat /\ committing' \in BOOLEAN
        /\ panicked' \in BOOLEAN
        /\ cache' \in [Block -> Val \cup {NotCached}]
        /\ pin' \in [Block -> Nat]
    BY <1>2 DEF Crash
  <2> QED
    BY <2>2, <2>3, <2>4 DEF Slots
<1>3. CASE \E p \in Proc : Panic(p)
  BY <1>3 DEF Panic, memory, storage
<1>4. CASE Running
  <2> USE DEF storage, Phases
  <2>0. panicked' \in BOOLEAN
    BY <1>4 DEF Running
  <2>1. CASE \E p \in Proc : Call(p)
    BY <2>1, <2>0 DEF Call
  <2>2. CASE \E p \in Proc : BeginOp(p)
    <3>1. PICK p \in Proc : BeginOp(p)
      BY <2>2
    <3>2. pc' \in [Proc -> {"idle", "begin", "asleep", "active", "commit"}]
      BY <3>1 DEF BeginOp
    <3>3. outstanding' \in Nat
      BY <3>1 DEF BeginOp
    <3> QED
      BY <3>1, <3>2, <3>3, <2>0 DEF BeginOp
  <2>3. CASE \E p \in Proc : EndOp(p)
    <3>1. PICK p \in Proc : EndOp(p)
      BY <2>3
    <3>2. outstanding - 1 \in Nat
      <4>1. Active \subseteq Proc /\ p \in Active
        BY <3>1 DEF EndOp, Active
      <4>2. IsFiniteSet(Active) /\ Cardinality(Active) # 0
        BY LogConstants, NotCachedAssumption, FiniteAssumption, <4>1, FS_Subset, FS_EmptySet
      <4> QED
        BY <4>2 DEF Control
    <3> QED
      BY <3>1, <3>2, <2>0 DEF EndOp, Wakeup
  <2>4. CASE \E p \in Proc : EndCommit(p)
    BY <2>4, <2>0 DEF EndCommit, Wakeup
  <2>5. CASE \E p \in Proc, b \in Block, v \in Val : LogWrite(p, b, v)
    <3>1. PICK p \in Proc, b \in Block, v \in Val : LogWrite(p, b, v)
      BY <2>5
    <3>2. lh' \in Seq(Block) /\ pin' \in [Block -> Nat]
      BY <3>1 DEF LogWrite, Absorb, Pinned
    <3> QED
      BY <3>1, <3>2, <2>0 DEF LogWrite
  <2>6. CASE \E b \in Block : Evict(b)
    BY <2>6, <2>0 DEF Evict
  <2>7. CASE Commit
    BY <2>7, <2>0 DEF Commit
  <2>8. CASE WriteLog
    <3>0. lh[tail] \in Block
      BY <2>8 DEF WriteLog
    <3>1. bread(lh[tail]) \in Val
      BY <3>0, BreadType
    <3>2. slot' \in [Slots -> Val]
      <4> DEFINE v == bread(lh[tail])
      <4>1. slot' = [slot EXCEPT ![tail] = v]
        BY <2>8 DEF WriteLog
      <4> HIDE DEF v
      <4> QED
        BY <3>1, <4>1 DEF v
    <3>3. tail' \in Nat \ {0}
      BY <2>8 DEF WriteLog
    <3> QED
      BY <3>2, <3>3, <2>8, <2>0 DEF WriteLog
  <2>9. CASE WriteLogDone
    BY <2>9, <2>0 DEF WriteLogDone
  <2>10. CASE WriteHead
    BY <2>10, <2>0 DEF WriteHead
  <2>11. CASE InstallTrans \/ RecoverInstall
    BY <2>11, <1>4, InstallType DEF InstallTrans, RecoverInstall, Running
  <2>12. CASE InstallDone
    BY <2>12, <2>0 DEF InstallDone
  <2>13. CASE ClearHead
    BY <2>13, <2>0 DEF ClearHead
  <2>14. CASE ReadHead
    BY <2>14, <2>0 DEF ReadHead
  <2>15. CASE RecoverInstalled
    BY <2>15, <2>0 DEF RecoverInstalled
  <2>16. CASE RecoverClear
    BY <2>16, <2>0 DEF RecoverClear
  <2> QED
    BY <1>4, <2>1, <2>2, <2>3, <2>4, <2>5, <2>6, <2>7, <2>8, <2>9, <2>10,
       <2>11, <2>12, <2>13, <2>14, <2>15, <2>16 DEF Running, Kernel
<1> QED
  BY <1>1, <1>2, <1>3, <1>4 DEF Next

-----------------------------------------------------------------------------
(* Control *)

\* The open operations are finitely many.
LEMMA ActiveFinite == IsFiniteSet(Active) /\ Cardinality(Active) \in Nat
BY LogConstants, NotCachedAssumption, FiniteAssumption, FS_Subset, FS_CardinalityType DEF Active

\* begin_op opens an operation, and wakeup opens and closes none.
LEMMA ActiveAfter ==
    ASSUME TypeOK, NEW p \in Proc
    PROVE  /\ EndOp(p) => p \in Active /\ Active' = Active \ {p}
           /\ EndCommit(p) => Active' = Active
           /\ Call(p) => Active' = Active
           /\ BeginOp(p) /\ ~MustWait => p \notin Active /\ Active' = Active \cup {p}
           /\ BeginOp(p) /\ MustWait => Active' = Active
<1> USE DEF TypeOK, Active
<1>1. EndOp(p) => p \in Active /\ Active' = Active \ {p}
  BY DEF EndOp, Wakeup
<1>2. EndCommit(p) => Active' = Active
  BY DEF EndCommit, Wakeup
<1>3. Call(p) => Active' = Active
  BY DEF Call
<1>4. BeginOp(p) /\ ~MustWait => p \notin Active /\ Active' = Active \cup {p}
  BY DEF BeginOp
<1>5. BeginOp(p) /\ MustWait => Active' = Active
  BY DEF BeginOp
<1> QED
  BY <1>1, <1>2, <1>3, <1>4, <1>5

\* The steps of commit() and of recovery, log_write and bget move no process.
LEMMA KernelFrame ==
    ASSUME TypeOK, Kernel \/ (\E b \in Block : Evict(b))
              \/ (\E p \in Proc, b \in Block, v \in Val : LogWrite(p, b, v))
    PROVE  /\ pc' = pc /\ outstanding' = outstanding /\ committing' = committing
           /\ Active' = Active
           /\ phase' \in CommitPhases <=> phase \in CommitPhases
           /\ Booting' => Booting
<1> USE DEF CommitPhases, Booting
<1>1. pc' = pc /\ outstanding' = outstanding /\ committing' = committing
  BY DEF Kernel, Commit, WriteLog, WriteLogDone, WriteHead, InstallTrans,
     InstallBlock, InstallDone, ClearHead, ReadHead, RecoverInstall,
     RecoverInstalled, RecoverClear, Evict, LogWrite
<1>2. Active' = Active
  BY <1>1 DEF Active
<1>3. CASE Commit \/ WriteLog \/ WriteLogDone \/ WriteHead
  BY <1>1, <1>2, <1>3 DEF Commit, WriteLog, WriteLogDone, WriteHead
<1>4. CASE InstallTrans \/ InstallDone \/ ClearHead
  BY <1>1, <1>2, <1>4 DEF InstallTrans, InstallBlock, InstallDone, ClearHead
<1>5. CASE ReadHead \/ RecoverInstall \/ RecoverInstalled \/ RecoverClear
  BY <1>1, <1>2, <1>5
     DEF ReadHead, RecoverInstall, InstallBlock, RecoverInstalled, RecoverClear
<1>6. CASE (\E b \in Block : Evict(b))
              \/ (\E p \in Proc, b \in Block, v \in Val : LogWrite(p, b, v))
  BY <1>1, <1>2, <1>6 DEF Evict, LogWrite
<1> QED
  BY <1>3, <1>4, <1>5, <1>6 DEF Kernel

\* Every step keeps one committer at most, and none beside an open operation.
LEMMA ControlStep ==
    ASSUME TypeOK, TypeOK', Control, [Next]_vars
    PROVE  Control'
<1>1. CASE UNCHANGED vars
  BY <1>1 DEF vars, memory, storage, Control, Active, Booting
<1>2. CASE Crash
  <2>1. Active' = {}
    BY <1>2 DEF Crash, Active
  <2>2. Cardinality(Active') = 0
    BY <2>1, FS_EmptySet
  <2> QED
    BY <1>2, <2>2 DEF Crash, Control, CommitPhases
<1>3. CASE \E p \in Proc : Panic(p)
  BY <1>3 DEF Panic, memory, Control, Active, Booting
<1>4. CASE Kernel \/ (\E b \in Block : Evict(b))
              \/ (\E p \in Proc, b \in Block, v \in Val : LogWrite(p, b, v))
  BY <1>4, KernelFrame DEF Control
<1>5. ASSUME NEW p \in Proc, Call(p) PROVE Control'
  <2>1. Active' = Active /\ ~Booting
    BY <1>5, ActiveAfter DEF Call, Booting
  <2> QED
    BY <1>5, <2>1 DEF Call, Control, TypeOK, Booting
<1>6. ASSUME NEW p \in Proc, BeginOp(p) PROVE Control'
  <2>0. ~Booting /\ pc[p] = "begin"
    BY <1>6 DEF BeginOp, Control
  <2>1. CASE MustWait
    <3>1. Active' = Active
      BY <1>6, <2>1, ActiveAfter
    <3>2. /\ phase' = phase /\ committing' = committing
          /\ outstanding' = outstanding
          /\ pc' = [pc EXCEPT ![p] = "asleep"]
      BY <1>6, <2>1 DEF BeginOp
    <3> QED
      BY <2>0, <3>1, <3>2 DEF Control, TypeOK, Booting
  <2>2. CASE ~MustWait
    <3>1. p \notin Active /\ Active' = Active \cup {p}
      BY <1>6, <2>2, ActiveAfter
    <3>2. outstanding' = Cardinality(Active')
      BY <1>6, <2>2, <3>1, ActiveFinite, FS_AddElement DEF BeginOp, Control
    <3>3. ~committing /\ phase' = phase /\ committing' = committing
      BY <1>6, <2>2 DEF BeginOp, MustWait
    <3>4. pc' = [pc EXCEPT ![p] = "active"]
      BY <1>6, <2>2 DEF BeginOp
    <3> QED
      BY <2>0, <3>2, <3>3, <3>4 DEF Control, TypeOK, Booting
  <2> QED
    BY <2>1, <2>2
<1>7. ASSUME NEW p \in Proc, EndOp(p) PROVE Control'
  <2>1. p \in Active /\ Active' = Active \ {p}
    BY <1>7, ActiveAfter
  <2>2. outstanding' = Cardinality(Active')
    BY <1>7, <2>1, ActiveFinite, FS_RemoveElement DEF EndOp, Control
  <2>3. ~Booting /\ ~committing /\ phase \notin CommitPhases
    BY <1>7 DEF EndOp, Control
  <2>4. CASE outstanding = 1
    BY <1>7, <2>2, <2>3, <2>4
       DEF EndOp, Control, TypeOK, Booting, CommitPhases
  <2>5. CASE outstanding # 1
    <3>1. phase' = phase /\ committing' = committing
      BY <1>7, <2>5 DEF EndOp
    <3>2. \A q \in Proc : pc'[q] = "commit" <=> pc[q] = "commit"
      BY <1>7, <2>5 DEF EndOp, Wakeup, TypeOK
    <3> QED
      BY <2>2, <2>3, <3>1, <3>2 DEF Control, Booting
  <2> QED
    BY <2>4, <2>5
<1>8. ASSUME NEW p \in Proc, EndCommit(p) PROVE Control'
  <2>1. Active' = Active
    BY <1>8, ActiveAfter
  <2> QED
    BY <1>8, <2>1
       DEF EndCommit, Wakeup, Control, TypeOK, Booting, CommitPhases
<1> QED
  BY <1>1, <1>2, <1>3, <1>4, <1>5, <1>6, <1>7, <1>8 DEF Next, Running

-----------------------------------------------------------------------------
(* The header and its pins *)

\* Absorption keeps the header free of repetitions and adds b to its blocks.
LEMMA AbsorbLemma ==
    ASSUME NEW s \in Seq(Block), NEW b \in Block, Distinct(s)
    PROVE  /\ Absorb(s, b) \in Seq(Block)
           /\ Distinct(Absorb(s, b))
           /\ Contents(Absorb(s, b)) = Contents(s) \cup {b}
           /\ Len(Absorb(s, b)) = IF b \in Contents(s) THEN Len(s) ELSE Len(s) + 1
<1>1. CASE b \in Contents(s)
  BY <1>1 DEF Absorb, Contents
<1>2. CASE b \notin Contents(s)
  <2>1. Absorb(s, b) = Append(s, b)
    BY <1>2 DEF Absorb
  <2>2. /\ DOMAIN Append(s, b) = 1 .. Len(s) + 1
        /\ Append(s, b)[Len(s) + 1] = b
        /\ \A i \in 1 .. Len(s) : Append(s, b)[i] = s[i]
    OBVIOUS
  <2>3. Distinct(Append(s, b))
    BY <1>2, <2>2 DEF Distinct, Contents
  <2>4. Contents(Append(s, b)) = Contents(s) \cup {b}
    BY <2>2 DEF Contents
  <2> QED
    BY <1>2, <2>1, <2>3, <2>4
<1> QED
  BY <1>1, <1>2

\* log_write only runs between begin_op and commit().
LEMMA WriteInRun ==
    ASSUME TypeOK, Control, NEW p \in Proc, pc[p] = "active"
    PROVE  phase = "run" /\ outstanding >= 1 /\ p \in Active /\ ~committing
<1>1. p \in Active
  BY DEF Active
<1>2. outstanding # 0
  BY <1>1, ActiveFinite, FS_EmptySet DEF Control
<1> QED
  BY <1>1, <1>2 DEF Control, TypeOK, Phases, CommitPhases, Booting

\* Every step keeps the header within the log and free of repetitions.
LEMMA HeaderStep ==
    ASSUME TypeOK, TypeOK', Control, Header, [Next]_vars
    PROVE  Header'
<1>1. CASE UNCHANGED vars
  BY <1>1 DEF vars, memory, storage, Header
<1>2. CASE Crash
  <2>1. hdr' = hdr
    BY <1>2 DEF Crash, Torn, storage
  <2>2. lh' = <<>>
    BY <1>2 DEF Crash
  <2>3. Distinct(lh') /\ Len(lh') = 0
    BY <2>2 DEF Distinct
  <2> QED
    BY LogConstants, NotCachedAssumption, FiniteAssumption, <2>1, <2>2, <2>3 DEF Header, TypeOK
<1>3. CASE \E p \in Proc : Panic(p)
  BY <1>3 DEF Panic, memory, storage, Header
<1>4. ASSUME NEW p \in Proc, NEW b \in Block, NEW v \in Val, LogWrite(p, b, v)
      PROVE  Header'
  <2>1. phase = "run" /\ outstanding >= 1
    BY <1>4, WriteInRun DEF LogWrite
  <2>2. /\ lh' = Absorb(lh, b) /\ hdr' = hdr /\ phase' = phase
        /\ outstanding' = outstanding /\ Len(lh) < NLOG - 1
    BY LogConstants, NotCachedAssumption, FiniteAssumption, <1>4 DEF LogWrite, LogFull, storage, TypeOK
  <2>3. Distinct(lh') /\ Len(lh') <= NLOG - 1
    BY LogConstants, NotCachedAssumption, FiniteAssumption, <2>2, AbsorbLemma DEF Header, TypeOK
  <2> QED
    BY <2>1, <2>2, <2>3 DEF Header, TypeOK
<1>5. ASSUME NEW b \in Block, Evict(b) PROVE Header'
  BY <1>5 DEF Evict, storage, Header
<1>6. ASSUME NEW p \in Proc, Call(p) PROVE Header'
  BY <1>6 DEF Call, storage, Header
<1>7. ASSUME NEW p \in Proc, BeginOp(p) PROVE Header'
  <2>1. /\ lh' = lh /\ hdr' = hdr /\ phase' = phase
        /\ outstanding' = outstanding \/ outstanding' = outstanding + 1
    BY <1>7 DEF BeginOp, storage
  <2> QED
    BY <2>1 DEF Header, TypeOK
<1>8. ASSUME NEW p \in Proc, EndOp(p) PROVE Header'
  <2>1. phase = "run" /\ outstanding >= 1
    BY <1>8, WriteInRun DEF EndOp
  <2>2. /\ lh' = lh /\ hdr' = hdr /\ outstanding' = outstanding - 1
        /\ outstanding = 1 => phase' = "commit"
        /\ outstanding # 1 => phase' = phase
    BY <1>8 DEF EndOp, storage
  <2> QED
    BY <2>1, <2>2 DEF Header, TypeOK
<1>9. ASSUME NEW p \in Proc, EndCommit(p) PROVE Header'
  BY <1>9 DEF EndCommit, storage, Header
<1>10. CASE Commit
  BY <1>10 DEF Commit, storage, Header, TypeOK
<1>11. CASE WriteLog
  BY <1>11 DEF WriteLog, Header
<1>12. CASE WriteLogDone
  BY <1>12 DEF WriteLogDone, storage, Header
<1>13. CASE WriteHead
  BY <1>13 DEF WriteHead, Header
<1>14. CASE InstallTrans
  BY <1>14 DEF InstallTrans, InstallBlock, Header
<1>15. CASE InstallDone \/ RecoverInstalled
  <2>1. lh' = <<>> /\ hdr' = hdr
    BY <1>15 DEF InstallDone, RecoverInstalled, storage
  <2>2. Distinct(lh') /\ Len(lh') = 0
    BY <2>1 DEF Distinct
  <2> QED
    BY LogConstants, NotCachedAssumption, FiniteAssumption, <2>1, <2>2 DEF Header, TypeOK
<1>16. CASE ClearHead
  BY <1>16 DEF ClearHead, Header
<1>17. CASE ReadHead
  BY <1>17 DEF ReadHead, storage, Header
<1>18. CASE RecoverInstall
  BY <1>18 DEF RecoverInstall, InstallBlock, Header
<1>19. CASE RecoverClear
  BY <1>19 DEF RecoverClear, Header
<1> QED
  BY <1>1, <1>2, <1>3, <1>4, <1>5, <1>6, <1>7, <1>8, <1>9, <1>10, <1>11, <1>12,
     <1>13, <1>14, <1>15, <1>16, <1>17, <1>18, <1>19 DEF Next, Running, Kernel

\* A step that changes neither the pins nor what is left keeps the match.
LEMMA PinFrame ==
    ASSUME PinnedOnce, pin' = pin, Uninstalled' = Uninstalled
    PROVE  PinnedOnce'
BY DEF PinnedOnce

\* An installed block loses its pin and is no longer left to install.
LEMMA PinInstall ==
    ASSUME TypeOK, TypeOK', Header, PinnedOnce, InstallTrans
    PROVE  PinnedOnce'
<1> DEFINE b == lh[tail]
<1>1. /\ phase = "install" /\ phase' = phase /\ lh' = lh /\ tail' = tail + 1
      /\ tail \in 1 .. Len(lh) /\ pin' = [pin EXCEPT ![b] = @ - 1]
      /\ b \in Block
  BY DEF InstallTrans, InstallBlock, TypeOK
<1>2. Uninstalled = {lh[i] : i \in tail .. Len(lh)}
  BY <1>1 DEF Uninstalled
<1>3. Uninstalled' = {lh[i] : i \in tail + 1 .. Len(lh)}
  <2>1. phase' = "install"
    BY <1>1
  <2> QED
    BY <1>1, <2>1 DEF Uninstalled
<1>4. \A i \in tail + 1 .. Len(lh) : lh[i] # b
  BY <1>1 DEF Header, Distinct, TypeOK
<1>5. \A c \in Block : c # b => (c \in Uninstalled' <=> c \in Uninstalled)
  BY <1>1, <1>2, <1>3 DEF TypeOK
<1>6. b \in Uninstalled /\ b \notin Uninstalled'
  BY <1>1, <1>2, <1>3, <1>4 DEF TypeOK
<1>7. \A c \in Block : c # b => pin'[c] = pin[c]
  BY <1>1 DEF TypeOK
<1>8. pin[b] = 1 /\ pin'[b] = 0
  BY <1>1, <1>6 DEF PinnedOnce, TypeOK
<1> HIDE DEF b
<1> QED
  BY <1>5, <1>6, <1>7, <1>8 DEF PinnedOnce

\* Every step keeps one pin on each block that is left to install.
LEMMA PinStep ==
    ASSUME TypeOK, TypeOK', Control, Header, Header', PinnedOnce, [Next]_vars
    PROVE  PinnedOnce'
<1>1. CASE UNCHANGED vars
  BY <1>1, PinFrame DEF vars, memory, Uninstalled
<1>2. CASE Crash
  <2>1. lh' = <<>> /\ phase' = "boot" /\ pin' = [b \in Block |-> 0]
    BY <1>2 DEF Crash
  <2>2. Uninstalled' = {}
    BY <2>1 DEF Uninstalled
  <2> QED
    BY <2>1, <2>2 DEF PinnedOnce
<1>3. CASE \E p \in Proc : Panic(p)
  BY <1>3, PinFrame DEF Panic, memory, Uninstalled
<1>4. ASSUME NEW p \in Proc, NEW b \in Block, NEW v \in Val, LogWrite(p, b, v)
      PROVE  PinnedOnce'
  <2>1. phase = "run" /\ phase' = "run"
    BY <1>4, WriteInRun DEF LogWrite
  <2>2. Uninstalled = Contents(lh) /\ Uninstalled' = Contents(lh')
    <3>1. DOMAIN lh = 1 .. Len(lh) /\ DOMAIN lh' = 1 .. Len(lh')
      BY DEF TypeOK
    <3>2. Uninstalled = {lh[i] : i \in 1 .. Len(lh)}
      BY <2>1 DEF Uninstalled
    <3>3. Uninstalled' = {lh'[i] : i \in 1 .. Len(lh')}
      BY <2>1 DEF Uninstalled
    <3> QED
      BY <3>1, <3>2, <3>3 DEF Contents
  <2>3. Contents(lh') = Contents(lh) \cup {b}
    BY <1>4, AbsorbLemma DEF LogWrite, Header, TypeOK
  <2>4. CASE b \in Contents(lh)
    BY <1>4, <2>2, <2>3, <2>4, PinFrame DEF LogWrite, Pinned
  <2>5. CASE b \notin Contents(lh)
    <3>1. pin' = [pin EXCEPT ![b] = @ + 1]
      BY <1>4, <2>5 DEF LogWrite, Pinned
    <3> QED
      BY <2>2, <2>3, <2>5, <3>1 DEF PinnedOnce, TypeOK
  <2> QED
    BY <2>4, <2>5
<1>5. ASSUME NEW b \in Block, Evict(b) PROVE PinnedOnce'
  BY <1>5, PinFrame DEF Evict, Uninstalled
<1>6. ASSUME NEW p \in Proc, Call(p) \/ BeginOp(p) PROVE PinnedOnce'
  BY <1>6, PinFrame DEF Call, BeginOp, Uninstalled
<1>7. ASSUME NEW p \in Proc, EndOp(p) PROVE PinnedOnce'
  <2>1. phase = "run" /\ phase' \in {"run", "commit"}
    BY <1>7, WriteInRun DEF EndOp
  <2>2. pin' = pin /\ lh' = lh
    BY <1>7 DEF EndOp
  <2> QED
    BY <2>1, <2>2, PinFrame DEF Uninstalled
<1>8. ASSUME NEW p \in Proc, EndCommit(p) PROVE PinnedOnce'
  BY <1>8, PinFrame DEF EndCommit, Uninstalled
<1>9. CASE Commit
  BY <1>9, PinFrame DEF Commit, Uninstalled
<1>10. CASE WriteLog \/ WriteLogDone
  BY <1>10, PinFrame DEF WriteLog, WriteLogDone, Uninstalled
<1>11. CASE WriteHead
  BY <1>11, PinFrame DEF WriteHead, Uninstalled
<1>12. CASE InstallTrans
  BY <1>12, PinInstall
<1>13. CASE InstallDone
  <2>1. Uninstalled = {} /\ Uninstalled' = {}
    BY <1>13 DEF InstallDone, Uninstalled, TypeOK
  <2> QED
    BY <1>13, <2>1, PinFrame DEF InstallDone
<1>14. CASE ClearHead \/ RecoverClear
  BY <1>14, PinFrame DEF ClearHead, RecoverClear, Uninstalled
<1>15. CASE ReadHead
  <2>1. Uninstalled = {} /\ Uninstalled' = {}
    BY <1>15 DEF ReadHead, Uninstalled, Header, TypeOK
  <2> QED
    BY <1>15, <2>1, PinFrame DEF ReadHead
<1>16. CASE RecoverInstall
  BY <1>16, PinFrame DEF RecoverInstall, InstallBlock, Uninstalled
<1>17. CASE RecoverInstalled
  <2>1. Uninstalled = {} /\ Uninstalled' = {}
    BY <1>17 DEF RecoverInstalled, Uninstalled, TypeOK
  <2> QED
    BY <1>17, <2>1, PinFrame DEF RecoverInstalled
<1> QED
  BY <1>1, <1>2, <1>3, <1>4, <1>5, <1>6, <1>7, <1>8, <1>9, <1>10, <1>11, <1>12,
     <1>13, <1>14, <1>15, <1>16, <1>17 DEF Next, Running, Kernel

-----------------------------------------------------------------------------
(* Log space *)

\* The credits are finitely many.
LEMMA CreditsFinite ==
    IsFiniteSet(Credits) /\ Cardinality(Credits) \in Nat
<1>0. IsFiniteSet(1 .. MAXOPBLOCKS)
  <2>1. 1 \in Int /\ MAXOPBLOCKS \in Int
    BY LogConstants, NotCachedAssumption, FiniteAssumption
  <2> QED
    BY <2>1, FS_Interval
<1>1. IsFiniteSet(Active \X (1 .. MAXOPBLOCKS))
  BY <1>0, ActiveFinite, FS_Product
<1> QED
  BY <1>1, FS_Subset, FS_CardinalityType DEF Credits

\* The blocks of an operation are finitely many.
LEMMA WroteFinite ==
    ASSUME TypeOK, NEW p \in Proc
    PROVE  IsFiniteSet(wrote[p]) /\ Cardinality(wrote[p]) \in Nat
BY LogConstants, NotCachedAssumption, FiniteAssumption, FS_Subset, FS_CardinalityType DEF TypeOK

\* A new operation gets its reservation: begin_op made sure that it fits.
LEMMA SpaceBegin ==
    ASSUME TypeOK, Control, Space, NEW p \in Proc, BeginOp(p), ~MustWait
    PROVE  Space'
<1> DEFINE reserved == (outstanding + 1) * MAXOPBLOCKS
<1>0. reserved \in Nat
  BY LogConstants, NotCachedAssumption, FiniteAssumption DEF TypeOK
<1>1. /\ Active' = Active \cup {p} /\ lh' = lh /\ wrote' = wrote
      /\ Len(lh) + reserved <= LOGSIZE
  <2>1. ~(Len(lh) + reserved > LOGSIZE)
    BY DEF MustWait, NoSpace
  <2>2. Len(lh) \in Nat
    BY DEF TypeOK
  <2> HIDE DEF reserved
  <2> QED
    BY LogConstants, NotCachedAssumption, FiniteAssumption, <1>0, <2>1, <2>2, ActiveAfter DEF BeginOp
<1>2. p \notin Active
  BY ActiveAfter
<1>3. Cardinality(Active') = outstanding + 1 /\ IsFiniteSet(Active')
  BY <1>1, <1>2, ActiveFinite, FS_AddElement DEF Control
<1>4. IsFiniteSet(1 .. MAXOPBLOCKS) /\ Cardinality(1 .. MAXOPBLOCKS) = MAXOPBLOCKS
  <2>1. 1 \in Int /\ MAXOPBLOCKS \in Int /\ MAXOPBLOCKS - 1 + 1 = MAXOPBLOCKS
    BY LogConstants, NotCachedAssumption, FiniteAssumption
  <2>2. ~(1 > MAXOPBLOCKS)
    BY LogConstants, NotCachedAssumption, FiniteAssumption
  <2> QED
    BY <2>1, <2>2, FS_Interval
<1>5. /\ IsFiniteSet(Active' \X (1 .. MAXOPBLOCKS))
      /\ Cardinality(Active' \X (1 .. MAXOPBLOCKS)) = reserved
  BY <1>3, <1>4, FS_Product
<1>6. Credits' \subseteq Active' \X (1 .. MAXOPBLOCKS)
  BY DEF Credits
<1>7. Cardinality(Credits') <= reserved
  BY <1>5, <1>6, FS_Subset
<1>8. Cardinality(Credits') \in Nat
  BY <1>5, <1>6, FS_Subset, FS_CardinalityType
<1>9. Len(lh') + Cardinality(Credits') <= LOGSIZE
  <2>1. Len(lh) \in Nat /\ Len(lh') = Len(lh)
    BY <1>1 DEF TypeOK
  <2> HIDE DEF reserved
  <2> QED
    BY LogConstants, NotCachedAssumption, FiniteAssumption, <1>0, <1>1, <1>7, <1>8, <2>1
<1>10. wrote[p] = {} /\ Cardinality(wrote[p]) = 0
  BY <1>2, FS_EmptySet DEF Space
<1>11. \A q \in Active' : /\ Cardinality(wrote'[q]) <= OPBLOCKS
                          /\ wrote'[q] \subseteq Contents(lh')
  <2>1. 0 <= OPBLOCKS
    BY LogConstants, NotCachedAssumption, FiniteAssumption
  <2>2. CASE wrote' = wrote /\ lh' = lh
    BY <1>1, <1>10, <2>1, <2>2, Zenon DEF Space
  <2> QED
    BY <1>1, <2>2
<1> HIDE DEF reserved
<1> QED
  BY <1>1, <1>9, <1>11 DEF Space

\* A log_write trades one credit for at most one entry of the header.
LEMMA WriteCredits ==
    ASSUME TypeOK, Header, Space, NEW p \in Proc, NEW b \in Block, NEW v \in Val,
           LogWrite(p, b, v)
    PROVE  /\ Active' = Active /\ p \in Active
           /\ wrote' = [wrote EXCEPT ![p] = @ \cup {b}]
           /\ Contents(lh') = Contents(lh) \cup {b}
           /\ Len(lh') \in Nat /\ Cardinality(Credits') \in Nat
           /\ Len(lh') + Cardinality(Credits') <= Len(lh) + Cardinality(Credits)
<1>1. Active' = Active /\ p \in Active
  BY DEF LogWrite, Active
<1>2. wrote' = [wrote EXCEPT ![p] = @ \cup {b}] /\ lh' = Absorb(lh, b)
  BY DEF LogWrite
<1>3. /\ Contents(lh') = Contents(lh) \cup {b}
      /\ Len(lh) \in Nat
      /\ Len(lh') = IF b \in Contents(lh) THEN Len(lh) ELSE Len(lh) + 1
  <2>1. lh \in Seq(Block) /\ Distinct(lh)
    BY DEF TypeOK, Header
  <2>2. /\ Contents(Absorb(lh, b)) = Contents(lh) \cup {b}
        /\ Len(Absorb(lh, b)) = IF b \in Contents(lh) THEN Len(lh) ELSE Len(lh) + 1
    BY <2>1, AbsorbLemma
  <2> QED
    BY <1>2, <2>1, <2>2
<1>4. CASE b \in wrote[p]
  <2>1. wrote' = wrote
    BY <1>2, <1>4 DEF TypeOK
  <2>2. b \in Contents(lh)
    BY <1>1, <1>4 DEF Space
  <2>3. Credits' = Credits
    BY <1>1, <2>1 DEF Credits
  <2> QED
    BY <1>1, <1>2, <1>3, <2>2, <2>3, CreditsFinite
<1>5. CASE b \notin wrote[p]
  <2> DEFINE k == Cardinality(wrote[p])
  <2>1. k \in Nat /\ Cardinality(wrote'[p]) = k + 1
    BY <1>2, <1>5, WroteFinite, FS_AddElement DEF TypeOK
  <2>2. k + 1 \in 1 .. MAXOPBLOCKS
    <3>1. Cardinality(wrote'[p]) <= OPBLOCKS
      BY <1>2 DEF LogWrite, TypeOK
    <3> HIDE DEF k
    <3> QED
      BY LogConstants, NotCachedAssumption, FiniteAssumption, <2>1, <3>1
  <2>3. \A q \in Proc : q # p => wrote'[q] = wrote[q]
    BY <1>2 DEF TypeOK
  <2>4. <<p, k + 1>> \in Credits
    BY <1>1, <2>1, <2>2 DEF Credits
  <2>5. ASSUME NEW q \in Active, NEW i \in 1 .. MAXOPBLOCKS
        PROVE  i > Cardinality(wrote'[q]) <=>
                  i > Cardinality(wrote[q]) /\ <<q, i>> # <<p, k + 1>>
    <3>1. CASE q = p
      <4> HIDE DEF k
      <4>1. i > k + 1 <=> i > k /\ i # k + 1
        BY <2>1
      <4> QED
        BY <2>1, <3>1, <4>1 DEF k
    <3>2. CASE q # p
      BY <2>3, <3>2 DEF Active
    <3> QED
      BY <3>1, <3>2
  <2>6. Credits' = Credits \ {<<p, k + 1>>}
    <3> HIDE DEF k
    <3>1. Credits' =
            {c \in Active \X (1 .. MAXOPBLOCKS) : c[2] > Cardinality(wrote'[c[1]])}
      BY <1>1 DEF Credits
    <3>2. \A c \in Active \X (1 .. MAXOPBLOCKS) :
             c[2] > Cardinality(wrote'[c[1]]) <=>
               c[2] > Cardinality(wrote[c[1]]) /\ c # <<p, k + 1>>
      <4> TAKE c \in Active \X (1 .. MAXOPBLOCKS)
      <4>1. c = <<c[1], c[2]>> /\ c[1] \in Active /\ c[2] \in 1 .. MAXOPBLOCKS
        OBVIOUS
      <4> QED
        BY <4>1, <2>5, Zenon
    <3> QED
      BY <3>1, <3>2, Zenon DEF Credits
  <2>7. Cardinality(Credits') = Cardinality(Credits) - 1
    <3> DEFINE x == <<p, k + 1>>
    <3>1. x \in Credits /\ Credits' = Credits \ {x}
      BY <2>4, <2>6
    <3> HIDE DEF x
    <3> QED
      BY <3>1, CreditsFinite, FS_RemoveElement
  <2>8. Cardinality(Credits') \in Nat
    BY <2>6, CreditsFinite, FS_RemoveElement, FS_CardinalityType
  <2> HIDE DEF k
  <2> QED
    BY <1>1, <1>2, <1>3, <2>7, <2>8, CreditsFinite
<1> QED
  BY <1>4, <1>5

\* So log_write keeps within the space.
LEMMA SpaceWrite ==
    ASSUME TypeOK, Header, Space, NEW p \in Proc, NEW b \in Block, NEW v \in Val,
           LogWrite(p, b, v)
    PROVE  Space' /\ (LastOne => LastOne')
<1>1. /\ Active' = Active /\ p \in Active
      /\ wrote' = [wrote EXCEPT ![p] = @ \cup {b}]
      /\ Contents(lh') = Contents(lh) \cup {b}
  BY WriteCredits
<1>2. /\ Len(lh') \in Nat /\ Cardinality(Credits') \in Nat
      /\ Len(lh') + Cardinality(Credits') <= Len(lh) + Cardinality(Credits)
  BY WriteCredits
<1>3. Len(lh) \in Nat /\ Cardinality(Credits) \in Nat
  BY CreditsFinite DEF TypeOK
<1>4. \A q \in Active' : Cardinality(wrote'[q]) <= OPBLOCKS
  <2> TAKE q \in Active'
  <2>1. CASE q = p
    BY <1>1, <2>1 DEF LogWrite, TypeOK
  <2>2. CASE q # p
    <3>1. wrote'[q] = wrote[q] /\ q \in Active
      BY <1>1, <2>2 DEF TypeOK, Active
    <3> QED
      BY <3>1 DEF Space
  <2> QED
    BY <2>1, <2>2
<1>5. \A q \in Active' : wrote'[q] \subseteq Contents(lh')
  BY <1>1 DEF Space, TypeOK, Active
<1>6. \A q \in Proc \ Active' : wrote'[q] = {}
  BY <1>1 DEF Space, TypeOK
<1>7. Len(lh') + Cardinality(Credits') <= LOGSIZE
  <2>1. Len(lh) + Cardinality(Credits) <= LOGSIZE
    BY <1>1 DEF Space
  <2> QED
    BY LogConstants, NotCachedAssumption, FiniteAssumption, <1>2, <1>3, <2>1
<1>8. Space'
  BY <1>4, <1>5, <1>6, <1>7, Zenon DEF Space
<1>9. ASSUME LastOne, NEW q \in Active', Active' = {q}
      PROVE  \/ Len(lh') + Cardinality(Credits') < LOGSIZE
             \/ Contents(lh') = wrote'[q]
  <2>1. q = p /\ q \in Active /\ Active = {q}
    BY <1>1, <1>9
  <2>2. CASE Len(lh) + Cardinality(Credits) < LOGSIZE
    BY LogConstants, NotCachedAssumption, FiniteAssumption, <1>2, <1>3, <2>2
  <2>3. CASE Contents(lh) = wrote[q]
    BY <1>1, <2>1, <2>3 DEF TypeOK
  <2> QED
    BY <1>9, <2>1, <2>2, <2>3 DEF LastOne
<1> QED
  BY <1>8, <1>9, Zenon DEF LastOne

\* Roomy: what the constants must satisfy for log_write never to panic.  An
\* operation that used its whole reservation could find the header full.
Roomy == OPBLOCKS < MAXOPBLOCKS /\ MAXOPBLOCKS < LOGSIZE /\ LOGSIZE <= NLOG

\* An operation that logs less than its reservation always has a credit left.
LEMMA SpareCredit ==
    ASSUME TypeOK, Space, Roomy, NEW p \in Active
    PROVE  <<p, MAXOPBLOCKS>> \in Credits
<1>1. p \in Proc /\ Cardinality(wrote[p]) <= OPBLOCKS
  BY DEF Space, Active
<1>2. Cardinality(wrote[p]) \in Nat
  BY <1>1, WroteFinite
<1>3. MAXOPBLOCKS > Cardinality(wrote[p]) /\ MAXOPBLOCKS \in 1 .. MAXOPBLOCKS
  BY LogConstants, NotCachedAssumption, FiniteAssumption, <1>1, <1>2 DEF Roomy
<1> QED
  BY <1>3 DEF Credits

\* end_op gives credits back, and of the ended operation one was unused.
LEMMA SpaceEnd ==
    ASSUME TypeOK, Control, Header, Space, NEW p \in Proc, EndOp(p)
    PROVE  Space' /\ (Roomy => LastOne')
<1>1. p \in Active /\ Active' = Active \ {p}
  BY ActiveAfter
<1>2. lh' = lh /\ wrote' = [wrote EXCEPT ![p] = {}]
  BY DEF EndOp
<1>3. \A q \in Proc : wrote'[q] = IF q = p THEN {} ELSE wrote[q]
  BY <1>2 DEF TypeOK
<1>4. Credits' \subseteq Credits /\ \A c \in Credits' : c[1] # p
  BY <1>1, <1>3 DEF Credits, Active
<1>5. Cardinality(Credits') \in Nat /\ Cardinality(Credits') <= Cardinality(Credits)
  BY <1>4, CreditsFinite, FS_Subset, FS_CardinalityType
<1>6. /\ Len(lh) \in Nat /\ Cardinality(Credits) \in Nat
      /\ Len(lh) + Cardinality(Credits) <= LOGSIZE
  BY <1>1, CreditsFinite DEF Space, TypeOK
<1>7. Len(lh') + Cardinality(Credits') <= LOGSIZE
  BY LogConstants, NotCachedAssumption, FiniteAssumption, <1>2, <1>5, <1>6
<1>8. \A q \in Active' : /\ Cardinality(wrote'[q]) <= OPBLOCKS
                         /\ wrote'[q] \subseteq Contents(lh')
  BY <1>1, <1>2, <1>3, Zenon DEF Space, Active
<1>9. \A q \in Proc \ Active' : wrote'[q] = {}
  BY <1>1, <1>3 DEF Space
<1>10. Space'
  BY <1>7, <1>8, <1>9, Zenon DEF Space
<1>11. ASSUME Roomy PROVE Len(lh') + Cardinality(Credits') < LOGSIZE
  <2> DEFINE x == <<p, MAXOPBLOCKS>>
  <2>1. x \in Credits
    BY <1>1, <1>11, SpareCredit
  <2>2. Credits' \subseteq Credits \ {x}
    BY <1>4
  <2> HIDE DEF x
  <2>3. /\ IsFiniteSet(Credits \ {x})
        /\ Cardinality(Credits \ {x}) = Cardinality(Credits) - 1
    BY <2>1, CreditsFinite, FS_RemoveElement
  <2>4. Cardinality(Credits') <= Cardinality(Credits) - 1
    BY <2>2, <2>3, FS_Subset
  <2> QED
    BY LogConstants, NotCachedAssumption, FiniteAssumption, <1>2, <1>5, <1>6, <2>4
<1> QED
  BY <1>10, <1>11 DEF LastOne

\* A first operation finds the header empty.
LEMMA LastOneBegin ==
    ASSUME TypeOK, Control, Header, Space, NEW p \in Proc, BeginOp(p), ~MustWait
    PROVE  LastOne'
<1>1. p \notin Active /\ Active' = Active \cup {p}
  BY ActiveAfter
<1>2. wrote[p] = {} /\ wrote' = wrote /\ lh' = lh
  BY <1>1 DEF BeginOp, Space
<1>3. SUFFICES ASSUME NEW q \in Active', Active' = {q}
               PROVE  Contents(lh') = wrote'[q]
  BY DEF LastOne
<1>4. q = p /\ Active = {}
  BY <1>1, <1>3
<1>5. outstanding = 0
  BY <1>4, FS_EmptySet DEF Control
<1>6. ~Booting /\ ~committing
  BY DEF BeginOp, MustWait, Control
<1>7. phase = "run"
  BY <1>6 DEF Control, CommitPhases, Booting, TypeOK, Phases
<1>8. lh = <<>>
  BY <1>5, <1>7 DEF Header
<1> QED
  BY <1>2, <1>4, <1>8 DEF Contents

\* Steps that open, close and log nothing, or run when nothing is open.
LEMMA SpaceFrame ==
    ASSUME Space, Active' = Active, wrote' = wrote, lh' = lh \/ Active = {}
    PROVE  Space' /\ (LastOne => LastOne')
<1>1. CASE lh' = lh
  <2>1. Credits' = Credits
    BY DEF Credits
  <2> QED
    BY <1>1, <2>1 DEF Space, LastOne
<1>2. CASE Active = {}
  BY <1>2 DEF Space, LastOne
<1> QED
  BY <1>1, <1>2

\* commit() and recovery run when no operation is open.
LEMMA KernelAlone ==
    ASSUME TypeOK, Control, Kernel
    PROVE  Active = {} /\ wrote' = wrote
<1>1. wrote' = wrote /\ (phase \in CommitPhases \/ Booting)
  BY DEF Kernel, Commit, WriteLog, WriteLogDone, WriteHead, InstallTrans,
     InstallBlock, InstallDone, ClearHead, ReadHead, RecoverInstall,
     RecoverInstalled, RecoverClear, CommitPhases, Booting
<1>2. CASE phase \in CommitPhases
  BY <1>1, <1>2, ActiveFinite, FS_EmptySet DEF Control
<1>3. CASE Booting
  BY <1>1, <1>3 DEF Control, Active
<1> QED
  BY <1>1, <1>2, <1>3

\* Every step keeps the header and the open reservations within the log.
LEMMA SpaceStep ==
    ASSUME TypeOK, Control, Header, Space, [Next]_vars
    PROVE  Space' /\ (Roomy /\ LastOne => LastOne')
<1>1. CASE UNCHANGED vars
  BY <1>1, SpaceFrame DEF vars, memory, Active
<1>2. CASE Crash
  BY <1>2 DEF Crash, Space, LastOne, Active
<1>3. CASE \E p \in Proc : Panic(p)
  BY <1>3, SpaceFrame DEF Panic, memory, Active
<1>4. CASE Kernel
  BY <1>4, KernelFrame, KernelAlone, SpaceFrame
<1>5. ASSUME NEW p \in Proc, NEW b \in Block, NEW v \in Val, LogWrite(p, b, v)
      PROVE  Space' /\ (LastOne => LastOne')
  BY <1>5, SpaceWrite
<1>6. ASSUME NEW b \in Block, Evict(b) PROVE Space' /\ (LastOne => LastOne')
  BY <1>6, SpaceFrame DEF Evict, Active
<1>7. ASSUME NEW p \in Proc, Call(p) PROVE Space' /\ (LastOne => LastOne')
  BY <1>7, ActiveAfter, SpaceFrame DEF Call
<1>8. ASSUME NEW p \in Proc, BeginOp(p) PROVE Space' /\ (LastOne => LastOne')
  <2>1. CASE MustWait
    BY <1>8, <2>1, ActiveAfter, SpaceFrame DEF BeginOp
  <2>2. CASE ~MustWait
    BY <1>8, <2>2, SpaceBegin, LastOneBegin
  <2> QED
    BY <2>1, <2>2
<1>9. ASSUME NEW p \in Proc, EndOp(p) PROVE Space' /\ (Roomy => LastOne')
  BY <1>9, SpaceEnd
<1>10. ASSUME NEW p \in Proc, EndCommit(p) PROVE Space' /\ (LastOne => LastOne')
  BY <1>10, ActiveAfter, SpaceFrame DEF EndCommit
<1> QED
  BY <1>1, <1>2, <1>3, <1>4, <1>5, <1>6, <1>7, <1>8, <1>9, <1>10 DEF Next, Running

-----------------------------------------------------------------------------
(* Sleepers *)

\* begin_op only sleeps when someone is there to wake it: with no operation
\* open and no commit under way the header is empty and a reservation fits.
LEMMA SleeperStep ==
    ASSUME IInv, SleeperHasWaker, [Next]_vars
    PROVE  SleeperHasWaker'
<1> USE DEF IInv, SleeperHasWaker
<1>1. CASE UNCHANGED vars \/ \E p \in Proc : Panic(p)
  BY <1>1 DEF vars, memory, Panic
<1>2. CASE Crash
  BY <1>2 DEF Crash
<1>3. CASE Kernel \/ (\E b \in Block : Evict(b))
              \/ (\E p \in Proc, b \in Block, v \in Val : LogWrite(p, b, v))
  BY <1>3, KernelFrame
<1>4. ASSUME NEW p \in Proc, Call(p) PROVE SleeperHasWaker'
  BY <1>4 DEF Call, TypeOK
<1>5. ASSUME NEW p \in Proc, BeginOp(p) PROVE SleeperHasWaker'
  <2>1. CASE MustWait
    <3>1. outstanding > 0 \/ committing
      <4>1. SUFFICES ASSUME outstanding = 0, ~committing PROVE FALSE
        BY DEF TypeOK
      <4>2. phase = "run"
        BY <1>5, <4>1
           DEF BeginOp, Control, CommitPhases, Booting, TypeOK, Phases
      <4>3. Len(lh) = 0
        BY <4>1, <4>2 DEF Header
      <4>4. 0 + (0 + 1) * MAXOPBLOCKS <= LOGSIZE
        BY LogConstants, NotCachedAssumption, FiniteAssumption
      <4> QED
        BY LogConstants, NotCachedAssumption, FiniteAssumption, <2>1, <4>1, <4>3, <4>4 DEF MustWait, NoSpace
    <3> QED
      BY <1>5, <2>1, <3>1 DEF BeginOp, TypeOK
  <2>2. CASE ~MustWait
    BY <1>5, <2>2 DEF BeginOp, TypeOK
  <2> QED
    BY <2>1, <2>2
<1>6. ASSUME NEW p \in Proc, EndOp(p) PROVE SleeperHasWaker'
  <2>1. outstanding >= 1
    BY <1>6, WriteInRun DEF EndOp
  <2>2. CASE outstanding = 1
    BY <1>6, <2>2 DEF EndOp
  <2>3. CASE outstanding # 1
    <3>1. outstanding' > 0
      BY <1>6, <2>1, <2>3 DEF EndOp, TypeOK
    <3> QED
      BY <3>1
  <2> QED
    BY <2>2, <2>3
<1>7. ASSUME NEW p \in Proc, EndCommit(p) PROVE SleeperHasWaker'
  <2>1. \A q \in Proc : pc'[q] # "asleep"
    BY <1>7 DEF EndCommit, Wakeup, TypeOK
  <2> QED
    BY <2>1
<1> QED
  BY <1>1, <1>2, <1>3, <1>4, <1>5, <1>6, <1>7 DEF Next, Running

-----------------------------------------------------------------------------
(* Panics *)

\* A header without repetitions is as long as it has blocks.
LEMMA DistinctLen ==
    ASSUME NEW s \in Seq(Block), Distinct(s)
    PROVE  Len(s) = Cardinality(Contents(s))
<1> DEFINE f == [i \in 1 .. Len(s) |-> s[i]]
<1>1. f \in Bijection(1 .. Len(s), Contents(s))
  BY DEF Bijection, Injection, Surjection, Contents, Distinct, IsInjective
<1>2. ExistsBijection(1 .. Len(s), Contents(s)) /\ Len(s) \in Nat
  BY <1>1 DEF ExistsBijection
<1> QED
  BY <1>2, FS_CountingElements

\* An open operation that keeps to OPBLOCKS finds room in the header.
LEMMA WriteFits ==
    ASSUME IInv, LastOne, Roomy, NEW p \in Active
    PROVE  ~LogFull
<1> USE DEF IInv
<1>1. Len(lh) \in Nat /\ Cardinality(Credits) \in Nat /\ IsFiniteSet(Credits)
  BY CreditsFinite DEF TypeOK
<1>2. Len(lh) + Cardinality(Credits) <= LOGSIZE
  BY DEF Space
<1>3. <<p, MAXOPBLOCKS>> \in Credits
  BY SpareCredit
<1>4. CASE Active = {p}
  <2>1. CASE Len(lh) + Cardinality(Credits) < LOGSIZE
    <3>1. Cardinality(Credits) # 0
      BY <1>1, <1>3, FS_EmptySet
    <3>2. Len(lh) < LOGSIZE - 1
      BY LogConstants, NotCachedAssumption, FiniteAssumption, <1>1, <2>1, <3>1
    <3> QED
      BY LogConstants, NotCachedAssumption, FiniteAssumption, <1>1, <3>2 DEF LogFull, Roomy
  <2>2. CASE Contents(lh) = wrote[p]
    <3>1. Len(lh) = Cardinality(wrote[p])
      BY <2>2, DistinctLen DEF Header, TypeOK
    <3>2. Cardinality(wrote[p]) <= OPBLOCKS
      BY DEF Space
    <3> QED
      BY LogConstants, NotCachedAssumption, FiniteAssumption, <1>1, <3>1, <3>2 DEF LogFull, Roomy
  <2> QED
    BY <1>4, <2>1, <2>2 DEF LastOne
<1>5. CASE Active # {p}
  <2>1. PICK q \in Active : q # p
    BY <1>5
  <2> DEFINE x == <<p, MAXOPBLOCKS>>
             y == <<q, MAXOPBLOCKS>>
  <2>2. x \in Credits /\ y \in Credits /\ x # y
    BY <1>3, <2>1, SpareCredit
  <2> HIDE DEF x, y
  <2>3. /\ IsFiniteSet(Credits \ {x}) /\ y \in Credits \ {x}
        /\ Cardinality(Credits \ {x}) = Cardinality(Credits) - 1
    BY <1>1, <2>2, FS_RemoveElement
  <2>4. Cardinality(Credits \ {x}) # 0
    BY <2>3, FS_EmptySet
  <2>5. Cardinality(Credits) >= 2
    BY <1>1, <2>3, <2>4, FS_CardinalityType
  <2>6. Len(lh) < LOGSIZE - 1
    BY LogConstants, NotCachedAssumption, FiniteAssumption, <1>1, <1>2, <2>5
  <2> QED
    BY LogConstants, NotCachedAssumption, FiniteAssumption, <1>1, <2>6 DEF LogFull, Roomy
<1> QED
  BY <1>4, <1>5

\* With room enough, no step is a panic.
LEMMA NoPanicStep ==
    ASSUME IInv, LastOne, Roomy, NoPanic, [Next]_vars
    PROVE  NoPanic'
<1>1. ASSUME NEW p \in Proc PROVE ~Panic(p)
  <2>1. ~EndOpPanics(p)
    BY WriteInRun DEF EndOpPanics, IInv
  <2>2. ASSUME NEW b \in Block, LogWritePanics(p, b) PROVE FALSE
    <3>1. p \in Active /\ outstanding >= 1
      BY <2>2, WriteInRun DEF LogWritePanics, IInv
    <3>2. ~LogFull
      BY <3>1, WriteFits
    <3> QED
      BY <2>2, <3>1, <3>2 DEF LogWritePanics, IInv, TypeOK
  <2> QED
    BY <2>1, <2>2 DEF Panic
<1> QED
  BY <1>1 DEF Next, Running, Crash, NoPanic, vars

-----------------------------------------------------------------------------
(* The theorems *)

\* The initial states satisfy the inductive invariant.
LEMMA InitIInv == Init => IInv /\ LastOne /\ NoPanic /\ SleeperHasWaker
<1> SUFFICES ASSUME Init PROVE IInv /\ LastOne /\ NoPanic /\ SleeperHasWaker
  OBVIOUS
<1>1. TypeOK
  <2>1. slot \in [Slots -> Val]
    BY DEF Init
  <2>2. lh \in Seq(Block) /\ hdr \in Seq(Block) /\ tail \in Nat \ {0}
    BY DEF Init
  <2>3. pin \in [Block -> Nat] /\ cache \in [Block -> Val \cup {NotCached}]
    BY DEF Init
  <2> QED
    BY <2>1, <2>2, <2>3 DEF Init, TypeOK, Phases
<1>2. Active = {}
  BY DEF Init, Active
<1>3. Control
  BY <1>2, FS_EmptySet DEF Init, Control, CommitPhases
<1>4. Header
  <2>1. lh = <<>> /\ hdr = <<>>
    BY DEF Init
  <2> QED
    BY LogConstants, NotCachedAssumption, FiniteAssumption, <2>1 DEF Header, Distinct
<1>5. PinnedOnce
  BY DEF Init, PinnedOnce, Uninstalled
<1>6. Space /\ LastOne
  BY <1>2 DEF Init, Space, LastOne
<1>7. NoPanic /\ SleeperHasWaker
  BY DEF Init, NoPanic, SleeperHasWaker
<1> QED
  BY <1>1, <1>3, <1>4, <1>5, <1>6, <1>7 DEF IInv

\* Every step preserves it.
LEMMA StepIInv == IInv /\ [Next]_vars => IInv' /\ (Roomy /\ LastOne => LastOne')
BY TypeStep, ControlStep, HeaderStep, PinStep, SpaceStep DEF IInv

\* The inductive invariant holds in every reachable state, whatever the number
\* of processes, blocks and crashes and however large the log.
THEOREM LogInvariant == Spec => []IInv
BY InitIInv, StepIInv, PTL DEF Spec

\* commit() never runs beside an open operation, whatever the interleaving of
\* begin_op, log_write and end_op and wherever the machine crashed before.
THEOREM CommitIsExclusive == Spec => []CommitExcludesOps
<1>1. IInv => CommitExcludesOps
  <2> SUFFICES ASSUME IInv PROVE CommitExcludesOps
    OBVIOUS
  <2>1. committing => Active = {}
    BY ActiveFinite, FS_EmptySet DEF IInv, Control
  <2> QED
    BY <2>1 DEF IInv, Control, CommitExcludesOps
<1> QED
  BY <1>1, LogInvariant, PTL

\* The buffers of logged blocks stay pinned until they are installed, each once;
\* no count of pins or of outstanding operations goes below zero, and no slot
\* outside the log is used.
THEOREM PinsAreKept == Spec => []PinsMatchHeader
<1>1. IInv => PinsMatchHeader
  BY DEF IInv, PinsMatchHeader
<1> QED
  BY <1>1, LogInvariant, PTL

\* A process asleep in begin_op always has someone left to wake it.
THEOREM SleepersHaveWakers == Spec => []SleeperHasWaker
<1>1. IInv /\ SleeperHasWaker /\ [Next]_vars => SleeperHasWaker'
  BY SleeperStep
<1> QED
  BY <1>1, InitIInv, LogInvariant, PTL DEF Spec

\* The reservation of begin_op suffices: if operations log fewer blocks than
\* the MAXOPBLOCKS reserved for each, no log_write and no end_op ever panics.
THEOREM LogNeverPanics == ASSUME Roomy PROVE Spec => []NoPanic
<1>1. IInv /\ LastOne /\ NoPanic /\ [Next]_vars
        => IInv' /\ LastOne' /\ NoPanic'
  BY StepIInv, NoPanicStep
<1> QED
  BY <1>1, InitIInv, PTL DEF Spec

-----------------------------------------------------------------------------
(***************************************************************************)
(* The log implements the atomic disk: a proof, for any number of          *)
(* processes and blocks, that every step of Log is a step of AtomicDisk    *)
(* or none, power failures in the middle of any write included.            *)
(***************************************************************************)

\* The on-disk header is empty until commit() writes it, and names what is
\* being installed from then on.
Headed ==
    /\ phase \in {"run", "commit", "wlog", "whead", "done"} => hdr = <<>>
    /\ phase \in {"install", "rinstall"} => lh = hdr

\* What install_trans has passed is at home, all of it before the header goes.
AtHome(i) == \/ phase \in {"install", "rinstall"} /\ i < tail
             \/ phase \in {"clear", "rclear"}
Installed == \A i \in DOMAIN hdr : AtHome(i) => disk[hdr[i]] = slot[i]

\* What write_log has passed is in the log, as the buffers have it.
InLog(i) == \/ phase = "wlog" /\ i < tail
            \/ phase = "whead"
            \/ phase = "install" /\ i >= tail
Logged == \A i \in DOMAIN lh : InLog(i) => slot[i] = cache[lh[i]]

\* Buffers differ from the disk only for blocks that are yet to be installed,
\* and these are in the cache.
Buffers ==
    \A b \in Block : /\ b \in Uninstalled => cache[b] # NotCached
                     /\ b \notin Uninstalled => cache[b] \in {NotCached, disk[b]}

Data == Headed /\ Installed /\ Logged /\ Buffers

-----------------------------------------------------------------------------
(* What recovery would leave, and what is yet to be installed *)

\* A block of a header has one place in it, the one that Recovered chooses.
LEMMA PlaceInHeader ==
    ASSUME NEW h \in Seq(Block), Distinct(h), NEW k \in DOMAIN h
    PROVE  k = CHOOSE i \in DOMAIN h :
                  /\ h[i] = h[k]
                  /\ \A j \in DOMAIN h : h[j] = h[k] => j <= i
<1> QED  BY DEF Distinct

\* Recovery takes the blocks of the header from the log, others from home.
LEMMA RecoveredAt ==
    ASSUME TypeOK, Header
    PROVE  /\ \A k \in DOMAIN hdr : hdr[k] \in Block /\ Recovered[hdr[k]] = slot[k]
           /\ \A b \in Block \ Contents(hdr) : Recovered[b] = disk[b]
<1>1. ASSUME NEW k \in DOMAIN hdr
      PROVE  hdr[k] \in Block /\ Recovered[hdr[k]] = slot[k]
  <2>1. hdr[k] \in Block /\ hdr[k] \in Contents(hdr)
    BY DEF TypeOK, Contents
  <2> QED  BY <2>1, PlaceInHeader DEF TypeOK, Header, Recovered
<1> QED  BY <1>1 DEF Recovered

\* The same after a step.
LEMMA RecoveredAfter ==
    ASSUME TypeOK', Header'
    PROVE  /\ \A k \in DOMAIN hdr' : hdr'[k] \in Block /\ Recovered'[hdr'[k]] = slot'[k]
           /\ \A b \in Block \ Contents(hdr)' : Recovered'[b] = disk'[b]
<1>1. ASSUME NEW k \in DOMAIN hdr'
      PROVE  hdr'[k] \in Block /\ Recovered'[hdr'[k]] = slot'[k]
  <2>1. hdr'[k] \in Block /\ hdr'[k] \in Contents(hdr')
    BY DEF TypeOK, Contents
  <2> QED  BY <2>1, PlaceInHeader DEF TypeOK, Header, Recovered
<1> QED  BY <1>1 DEF Recovered

\* The blocks that are yet to be installed, phase by phase.
LEMMA UninstalledIs ==
    ASSUME TypeOK
    PROVE  /\ phase = "install" =>
                  Uninstalled = {lh[i] : i \in {j \in DOMAIN lh : j >= tail}}
           /\ phase = "rinstall" => Uninstalled = {}
           /\ phase \notin {"install", "rinstall"} => Uninstalled = Contents(lh)
<1> USE DEF TypeOK, Uninstalled
<1>1. ASSUME phase = "install"
      PROVE  Uninstalled = {lh[i] : i \in {j \in DOMAIN lh : j >= tail}}
  BY <1>1
<1>2. ASSUME phase = "rinstall"
      PROVE  Uninstalled = {}
  BY <1>2
<1>3. ASSUME phase \notin {"install", "rinstall"}
      PROVE  Uninstalled = Contents(lh)
  <2>1. Uninstalled = {lh[i] : i \in 1 .. Len(lh)}
    BY <1>3
  <2>2. DOMAIN lh = 1 .. Len(lh)
    OBVIOUS
  <2> QED  BY <2>1, <2>2 DEF Contents
<1> QED  BY <1>1, <1>2, <1>3

\* The same after a step.
LEMMA UninstalledAfter ==
    ASSUME TypeOK'
    PROVE  /\ phase' = "install" =>
                  Uninstalled' = {lh'[i] : i \in {j \in DOMAIN lh' : j >= tail'}}
           /\ phase' = "rinstall" => Uninstalled' = {}
           /\ phase' \notin {"install", "rinstall"} => Uninstalled' = Contents(lh)'
<1> USE DEF TypeOK, Uninstalled
<1>1. ASSUME phase' = "install"
      PROVE  Uninstalled' = {lh'[i] : i \in {j \in DOMAIN lh' : j >= tail'}}
  BY <1>1
<1>2. ASSUME phase' = "rinstall"
      PROVE  Uninstalled' = {}
  BY <1>2
<1>3. ASSUME phase' \notin {"install", "rinstall"}
      PROVE  Uninstalled' = Contents(lh)'
  <2>1. Uninstalled' = {lh'[i] : i \in 1 .. Len(lh')}
    BY <1>3
  <2>2. DOMAIN lh' = 1 .. Len(lh')
    OBVIOUS
  <2> QED  BY <2>1, <2>2 DEF Contents
<1> QED  BY <1>1, <1>2, <1>3

-----------------------------------------------------------------------------
(* The data invariant *)

\* A machine that comes up has clean buffers and nothing installed.
LEMMA DataStart == Init => Data
BY UninstalledIs, InitIInv DEF Init, Data, Headed, Installed, Logged, Buffers,
   Contents, IInv

\* install_trans brings one block home and leaves the others alone.
LEMMA DataInstall ==
    ASSUME IInv, TypeOK', Data, phase \in {"install", "rinstall"}, NEW r \in BOOLEAN,
           InstallBlock(r)
    PROVE  Data'
<1>0. TypeOK /\ Header /\ Headed /\ Installed /\ Logged /\ Buffers
  BY DEF IInv, Data
<1> DEFINE b == lh[tail]
<1>1. tail \in 1 .. Len(lh) /\ b \in Block /\ lh = hdr /\ tail \in DOMAIN lh
  BY <1>0 DEF TypeOK, InstallBlock, Headed
<1>2. Headed'
  BY <1>0 DEF Headed, InstallBlock
<1>3. /\ \A i \in DOMAIN lh : i # tail => lh[i] # b
      /\ lh' = lh /\ hdr' = hdr /\ slot' = slot /\ phase' = phase /\ tail' = tail + 1
  BY <1>0, <1>1 DEF Header, Distinct, InstallBlock
<1>4. /\ cache'[b] = slot[tail] /\ disk'[b] = slot[tail]
      /\ \A c \in Block \ {b} : cache'[c] = cache[c] /\ disk'[c] = disk[c]
  BY DEF TypeOK, InstallBlock
<1>5. \A i \in DOMAIN lh : i \in Nat /\ lh[i] \in Block
  BY <1>0 DEF TypeOK
<1>6. Installed'
  <2> SUFFICES ASSUME NEW i \in DOMAIN lh, i < tail + 1
               PROVE  disk'[lh[i]] = slot[i]
    BY <1>1, <1>3 DEF Installed, AtHome
  <2>1. CASE i = tail
    BY <1>4, <2>1
  <2>2. CASE i # tail
    <3> QED  BY <1>0, <1>1, <1>3, <1>4, <1>5 DEF Installed, AtHome
  <2> QED  BY <2>1, <2>2
<1>7. Logged'
  <2> SUFFICES ASSUME NEW i \in DOMAIN lh, phase = "install", i >= tail + 1
               PROVE  slot[i] = cache'[lh[i]]
    BY <1>3 DEF Logged, InLog
  <2>1. i >= tail /\ i # tail
    BY <1>1
  <2> QED  BY <1>0, <1>3, <1>4, <1>5, <2>1 DEF Logged, InLog
<1>8. Buffers'
  <2>1. CASE phase = "rinstall"
    <3>1. Uninstalled = {} /\ Uninstalled' = {}
      BY <1>0, <1>3, <2>1, UninstalledIs, UninstalledAfter
    <3> QED  BY <1>0, <1>4, <3>1 DEF Buffers
  <2>2. CASE phase = "install"
    <3>1. Uninstalled = {lh[i] : i \in {j \in DOMAIN lh : j >= tail}}
      BY <1>0, <2>2, UninstalledIs
    <3>2. Uninstalled' = {lh[i] : i \in {j \in DOMAIN lh : j >= tail + 1}}
      BY <1>3, <2>2, UninstalledAfter
    <3>3. Uninstalled' = Uninstalled \ {b}
      <4>1. \A j \in DOMAIN lh : j >= tail + 1 <=> (j >= tail /\ j # tail)
        BY <1>1
      <4> QED  BY <1>3, <3>1, <3>2, <4>1
    <3> QED  BY <1>0, <1>4, <3>3 DEF Buffers
  <2> QED  BY <2>1, <2>2
<1> QED  BY <1>2, <1>6, <1>7, <1>8 DEF Data

\* log_write dirties a buffer whose block is in the header from then on.
LEMMA DataWrite ==
    ASSUME IInv, TypeOK', Data, NEW p \in Proc, NEW b \in Block, NEW v \in Val,
           LogWrite(p, b, v)
    PROVE  Data'
<1>0. TypeOK /\ Control /\ Header /\ Headed /\ Buffers
  BY DEF IInv, Data
<1>1. phase = "run" /\ phase' = "run" /\ UNCHANGED storage
  BY <1>0, WriteInRun DEF LogWrite
<1>2. hdr = <<>> /\ hdr' = <<>>
  BY <1>0, <1>1 DEF Headed, storage
<1>3. Uninstalled = Contents(lh) /\ Uninstalled' = Contents(lh) \cup {b}
  <2>1. Contents(lh)' = Contents(lh) \cup {b}
    BY <1>0, AbsorbLemma DEF LogWrite, TypeOK, Header
  <2> QED  BY <1>0, <1>1, <2>1, UninstalledIs, UninstalledAfter
<1>4. cache'[b] = v /\ \A c \in Block \ {b} : cache'[c] = cache[c]
  BY DEF LogWrite, TypeOK
<1>5. Buffers'
  BY <1>0, <1>1, <1>3, <1>4, NotCachedAssumption DEF Buffers, storage
<1> QED  BY <1>1, <1>2, <1>5 DEF Data, Headed, Installed, Logged, InLog

\* commit() copies the buffers into the log, then writes the header.
LEMMA DataCommit ==
    ASSUME IInv, IInv', Data, Commit \/ WriteLog \/ WriteLogDone \/ WriteHead
    PROVE  Data'
<1>0. TypeOK /\ Header /\ Headed /\ Installed /\ Logged /\ Buffers /\ TypeOK' /\ Header'
  BY DEF IInv, Data
<1>1. \A i \in DOMAIN lh : i \in Nat \ {0} /\ i <= Len(lh) /\ lh[i] \in Block
  BY <1>0 DEF TypeOK
<1>2. CASE Commit
  <2>1. phase = "commit" /\ phase' \in {"wlog", "done"} /\ tail' = 1
        /\ UNCHANGED <<lh, cache, disk, slot, hdr>>
    BY <1>2 DEF Commit, storage
  <2>2. Uninstalled' = Uninstalled
    BY <1>0, <2>1, UninstalledIs, UninstalledAfter
  <2> QED  BY <2>1, <2>2 DEF Data, Headed, Installed, Logged, InLog, Buffers
<1>3. CASE WriteLog
  <2>1. /\ phase = "wlog" /\ phase' = "wlog" /\ tail \in DOMAIN lh /\ tail' = tail + 1
        /\ UNCHANGED <<lh, cache, disk, hdr>>
    BY <1>0, <1>3 DEF WriteLog, TypeOK
  <2>2. Uninstalled' = Uninstalled /\ lh[tail] \in Uninstalled
    BY <1>0, <2>1, UninstalledIs, UninstalledAfter DEF Contents
  <2>3. cache[lh[tail]] # NotCached
    BY <1>0, <1>1, <2>1, <2>2 DEF Buffers
  <2>4. slot'[tail] = cache[lh[tail]] /\ \A i \in Slots \ {tail} : slot'[i] = slot[i]
    BY <1>0, <1>3, <2>3 DEF WriteLog, bread, TypeOK
  <2>5. Logged'
    <3> SUFFICES ASSUME NEW i \in DOMAIN lh, i < tail + 1
                 PROVE  slot'[i] = cache[lh[i]]
      BY <2>1 DEF Logged, InLog
    <3>1. CASE i = tail
      BY <2>4, <3>1
    <3>2. CASE i # tail
      <4>1. i < tail
        BY <1>0, <3>2 DEF TypeOK
      <4>2. i \in 1 .. Len(lh) /\ Len(lh) \in Nat /\ Len(lh) <= NLOG - 1
        BY <1>0 DEF TypeOK, Header
      <4>3. i \in Slots
        BY <4>2, LogConstants DEF Slots
      <4> QED  BY <1>0, <2>1, <2>4, <4>1, <4>3 DEF Logged, InLog
    <3> QED  BY <3>1, <3>2
  <2>6. Headed' /\ Installed' /\ Buffers'
    BY <1>0, <2>1, <2>2 DEF Headed, Installed, Buffers
  <2> QED  BY <2>5, <2>6 DEF Data
<1>4. CASE WriteLogDone
  <2>1. /\ phase = "wlog" /\ phase' = "whead" /\ tail > Len(lh)
        /\ UNCHANGED <<lh, cache, disk, slot, hdr>>
    BY <1>4 DEF WriteLogDone, storage
  <2>2. Uninstalled' = Uninstalled
    BY <1>0, <2>1, UninstalledIs, UninstalledAfter
  <2>3. \A i \in DOMAIN lh : i < tail
    BY <1>0, <2>1 DEF TypeOK
  <2> QED  BY <2>1, <2>2, <2>3 DEF Data, Headed, Installed, Logged, InLog,
              Buffers
<1>5. CASE WriteHead
  <2>1. /\ phase = "whead" /\ phase' = "install" /\ tail' = 1 /\ hdr' = lh
        /\ UNCHANGED <<lh, cache, disk, slot>>
    BY <1>5 DEF WriteHead
  <2>2. Uninstalled' = Uninstalled
    <3>1. Uninstalled' = {lh[i] : i \in {j \in DOMAIN lh : j >= 1}}
      BY <1>0, <2>1, UninstalledAfter
    <3>2. Uninstalled = {lh[i] : i \in DOMAIN lh}
      BY <1>0, <2>1, UninstalledIs DEF Contents
    <3>3. {j \in DOMAIN lh : j >= 1} = DOMAIN lh
      BY <1>1
    <3> QED  BY <3>1, <3>2, <3>3
  <2>3. \A i \in DOMAIN lh : ~(i < 1)
    BY <1>1
  <2> QED  BY <2>1, <2>2, <2>3 DEF Data, Headed, Installed, AtHome, Logged,
              InLog, Buffers
<1> QED  BY <1>2, <1>3, <1>4, <1>5

\* The end of a commit or of a recovery: the header goes when all is at home.
LEMMA DataClear ==
    ASSUME IInv, IInv', Data,
           InstallDone \/ ClearHead \/ ReadHead \/ RecoverInstalled \/ RecoverClear
    PROVE  Data'
<1>0. TypeOK /\ Header /\ Headed /\ Installed /\ Logged /\ Buffers /\ TypeOK' /\ Header'
  BY DEF IInv, Data
<1>2. CASE InstallDone \/ RecoverInstalled
  <2>1. /\ phase \in {"install", "rinstall"} /\ phase' \in {"clear", "rclear"}
        /\ lh' = <<>> /\ tail > Len(lh) /\ UNCHANGED <<cache, disk, slot, hdr>>
    BY <1>2 DEF InstallDone, RecoverInstalled, storage
  <2>2. \A i \in DOMAIN lh : i < tail /\ ~(i >= tail)
    BY <1>0, <2>1 DEF TypeOK
  <2>3. Uninstalled = {}
    BY <1>0, <2>1, <2>2, UninstalledIs
  <2>4. Uninstalled' = {}
    BY <1>0, <2>1, UninstalledAfter DEF Contents
  <2> QED  BY <2>1, <2>2, <2>3, <2>4 DEF Data, Headed, Installed, AtHome,
              Logged, Buffers
<1>3. CASE ClearHead \/ RecoverClear
  <2>1. /\ phase \in {"clear", "rclear"} /\ phase' \in {"done", "run"}
        /\ hdr' = lh /\ lh = <<>> /\ UNCHANGED <<lh, cache, disk, slot>>
    BY <1>0, <1>3 DEF ClearHead, RecoverClear, Header
  <2>3. Uninstalled = Contents(lh)
    BY <1>0, <2>1, UninstalledIs
  <2>4. Uninstalled' = Contents(lh)'
    BY <1>0, <2>1, UninstalledAfter
  <2>2. Uninstalled' = Uninstalled
    BY <2>1, <2>3, <2>4
  <2> QED  BY <2>1, <2>2 DEF Data, Headed, Installed, Logged, Buffers
<1>4. CASE ReadHead
  <2>1. /\ phase = "boot" /\ phase' = "rinstall" /\ lh = <<>> /\ lh' = hdr /\ tail' = 1
        /\ UNCHANGED <<cache, disk, slot, hdr>>
    BY <1>0, <1>4 DEF ReadHead, Header, storage
  <2>2. Uninstalled = {}
    BY <1>0, <2>1, UninstalledIs DEF Contents
  <2>4. Uninstalled' = {}
    BY <1>0, <2>1, UninstalledAfter
  <2> QED  BY <2>1, <2>2, <2>4 DEF Data, Headed, Installed, AtHome, Logged,
              InLog, Buffers
<1> QED  BY <1>2, <1>3, <1>4

\* Nothing that the log relies on is in the memory that a power failure takes.
LEMMA DataCrash ==
    ASSUME IInv, TypeOK', Data, Crash
    PROVE  Data'
<1>1. /\ phase' = "boot" /\ lh' = <<>> /\ \A b \in Block : cache'[b] = NotCached
  BY DEF Crash
<1>2. Uninstalled' = {}
  BY <1>1, UninstalledAfter DEF Contents
<1> QED  BY <1>1, <1>2 DEF Data, Headed, Installed, AtHome, Logged, Buffers

\* Steps of processes that touch no data, and bget, which drops clean buffers.
LEMMA DataOther ==
    ASSUME IInv, TypeOK', Data,
           \/ UNCHANGED <<lh, phase, tail, cache, storage>>
           \/ \E p \in Proc : EndOp(p) \/ EndCommit(p)
           \/ \E b \in Block : Evict(b)
    PROVE  Data'
<1>0. TypeOK /\ Control /\ PinnedOnce /\ Headed /\ Installed /\ Logged /\ Buffers
  BY DEF IInv, Data
<1>1. CASE UNCHANGED <<lh, phase, tail, cache, storage>>
  <2>1. Uninstalled' = Uninstalled
    BY <1>1 DEF Uninstalled
  <2> QED  BY <1>1, <2>1 DEF Data, Headed, Installed, AtHome, Logged, InLog,
              Buffers, storage
<1>2. CASE \E p \in Proc : EndOp(p) \/ EndCommit(p)
  <2>1. /\ UNCHANGED <<lh, tail, cache, disk, slot, hdr>>
        /\ \/ phase' = phase
           \/ phase = "run" /\ phase' = "commit"
           \/ phase = "done" /\ phase' = "run"
    BY <1>0, <1>2, WriteInRun DEF EndOp, EndCommit, storage
  <2>2. Uninstalled' = Uninstalled
    BY <1>0, <2>1, UninstalledIs, UninstalledAfter
  <2> QED  BY <2>1, <2>2 DEF Data, Headed, Installed, AtHome, Logged, InLog,
              Buffers
<1>3. CASE \E b \in Block : Evict(b)
  <2>1. PICK b \in Block : Evict(b)
    BY <1>3
  <2>2. b \notin Uninstalled
    BY <1>0, <2>1 DEF Evict, PinnedOnce
  <2>3. Uninstalled' = Uninstalled
    BY <2>1 DEF Evict, Uninstalled
  <2>4. ASSUME NEW i \in DOMAIN lh, InLog(i)
        PROVE  lh[i] \in Uninstalled
    <3>1. CASE phase = "install"
      BY <1>0, <2>4, <3>1, UninstalledIs DEF InLog
    <3>2. CASE phase # "install"
      <4>1. phase \in {"wlog", "whead"}
        BY <2>4, <3>2 DEF InLog
      <4>2. Uninstalled = Contents(lh)
        BY <1>0, <4>1, UninstalledIs
      <4> QED  BY <4>2 DEF Contents
    <3> QED  BY <3>1, <3>2
  <2>5. \A i \in DOMAIN lh : InLog(i) => lh[i] # b
    BY <2>2, <2>4
  <2>6. Logged'
    BY <1>0, <2>1, <2>5 DEF Logged, InLog, Evict, storage
  <2>7. Headed' /\ Installed' /\ Buffers'
    BY <1>0, <2>1, <2>2, <2>3 DEF Headed, Installed, AtHome, Buffers, Evict,
       storage
  <2> QED  BY <2>6, <2>7 DEF Data
<1> QED  BY <1>1, <1>2, <1>3

\* Every step keeps the data of the log, the cache and the disk together.
LEMMA DataStep ==
    ASSUME IInv, IInv', Data, [Next]_vars
    PROVE  Data'
<1>0. TypeOK' /\ BOOLEAN = {TRUE, FALSE}
  BY DEF IInv
<1>1. CASE UNCHANGED vars \/ \E p \in Proc : Panic(p)
  BY <1>0, <1>1, DataOther DEF vars, memory, Panic
<1>2. CASE Crash
  BY <1>0, <1>2, DataCrash
<1>3. CASE Running
  <2>1. CASE InstallTrans
    BY <1>0, <2>1, DataInstall DEF InstallTrans
  <2>2. CASE RecoverInstall
    BY <1>0, <2>2, DataInstall DEF RecoverInstall
  <2>3. CASE Kernel /\ ~InstallTrans /\ ~RecoverInstall
    BY <2>3, DataCommit, DataClear DEF Kernel
  <2>4. ASSUME NEW p \in Proc, Call(p) \/ BeginOp(p) \/ EndOp(p) \/ EndCommit(p)
        PROVE  Data'
    BY <1>0, <2>4, DataOther DEF Call, BeginOp
  <2>5. ASSUME NEW b \in Block, Evict(b)
        PROVE  Data'
    BY <1>0, <2>5, DataOther
  <2> QED  BY <1>0, <1>3, <2>1, <2>2, <2>3, <2>4, <2>5, DataWrite DEF Running
<1> QED  BY <1>1, <1>2, <1>3 DEF Next

\* The log, the buffers and the disk agree at every step, whatever the order
\* of commit, eviction, recovery and power failure.
THEOREM DataInvariant == Spec => [](IInv /\ Data)
<1>1. IInv /\ IInv' /\ Data /\ [Next]_vars => Data'
  BY DataStep
<1> QED  BY LogInvariant, DataStart, <1>1, PTL DEF Spec

\* When every call that began has returned from end_op, the log is empty and
\* the disk alone has everything the calls have written (end_op, commit).
THEOREM QuietMeansDurable == Spec => []QuietIsDurable
<1>1. ASSUME IInv, Data, outstanding = 0, ~committing, ~Booting
      PROVE  lh = <<>> /\ Recovered = Current
  <2>0. TypeOK /\ Control /\ Header /\ Headed /\ Buffers
    BY <1>1 DEF IInv, Data
  <2>1. phase = "run"
    BY <1>1, <2>0 DEF TypeOK, Phases, Control, CommitPhases, Booting
  <2>2. lh = <<>> /\ hdr = <<>>
    BY <1>1, <2>0, <2>1 DEF Header, Headed
  <2>3. Uninstalled = {}
    BY <2>0, <2>2, UninstalledIs DEF Contents
  <2>4. \A b \in Block : bread(b) = disk[b]
    BY <2>0, <2>3 DEF Buffers, bread
  <2>5. \A b \in Block : Recovered[b] = disk[b]
    BY <2>0, <2>2, RecoveredAt DEF Contents
  <2> QED  BY <2>2, <2>4, <2>5 DEF Recovered, Current
<1>2. IInv /\ Data => QuietIsDurable
  BY <1>1 DEF QuietIsDurable
<1> QED  BY DataInvariant, <1>2, PTL

-----------------------------------------------------------------------------
(* The refinement *)

\* A step that leaves header, log and home locations alone leaves what
\* recovery would bring back alone.
LEMMA SameRecovered ==
    ASSUME UNCHANGED <<disk, slot, hdr>>
    PROVE  Recovered' = Recovered
BY DEF Recovered

\* Writes to a block that is in the header do not show in what is recovered.
LEMMA HiddenWrite ==
    ASSUME TypeOK, Header, TypeOK', Header', UNCHANGED hdr,
           \A k \in DOMAIN hdr : slot'[k] = slot[k],
           \A b \in Block \ Contents(hdr) : disk'[b] = disk[b]
    PROVE  Recovered' = Recovered
<1>1. ASSUME NEW b \in Block
      PROVE  Recovered'[b] = Recovered[b]
  <2>1. CASE b \in Contents(hdr)
    <3>1. PICK k \in DOMAIN hdr : hdr[k] = b
      BY <2>1 DEF Contents
    <3> QED  BY <3>1, RecoveredAt, RecoveredAfter
  <2>2. CASE b \notin Contents(hdr)
    <3>1. b \notin Contents(hdr)'
      BY <2>2
    <3> QED  BY <3>1, RecoveredAt, RecoveredAfter
  <2> QED  BY <2>1, <2>2
<1> QED  BY <1>1 DEF Recovered

\* Before and after recovery the running system and the disk agree, so the
\* first read after boot sees what recovery brought back.
LEMMA SameCurrent ==
    ASSUME Booting' <=> Booting, Recovered' = Recovered,
           ~Booting => \A b \in Block : bread(b)' = bread(b)
    PROVE  Current' = Current
BY DEF Current

\* write_head makes a whole group durable, in one step, with nobody writing.
LEMMA CommitImplements ==
    ASSUME IInv, IInv', Data, WriteHead
    PROVE  AD!Commit
<1>0. TypeOK /\ Control /\ Header /\ Headed /\ Logged /\ Buffers /\ TypeOK' /\ Header'
  BY DEF IInv, Data
<1>1. /\ phase = "whead" /\ phase' = "install" /\ hdr' = lh
      /\ UNCHANGED <<pc, lh, cache, disk, slot>>
  BY DEF WriteHead
<1>2. Active = {} /\ Active' = Active
  BY <1>0, <1>1, ActiveFinite, FS_EmptySet DEF Control, CommitPhases, Active
<1>3. Current' = Current /\ Current = [b \in Block |-> bread(b)]
  BY <1>1 DEF Current, Booting, bread
<1>4. Uninstalled = Contents(lh)
  BY <1>0, <1>1, UninstalledIs
<1>5. ASSUME NEW b \in Block
      PROVE  Recovered'[b] = bread(b)
  <2>1. CASE b \in Contents(lh)
    <3>1. PICK k \in DOMAIN lh : lh[k] = b
      BY <2>1 DEF Contents
    <3>2. Recovered'[b] = slot[k]
      BY <1>0, <1>1, <3>1, RecoveredAfter
    <3>3. slot[k] = cache[b] /\ cache[b] # NotCached
      BY <1>0, <1>1, <1>4, <2>1, <3>1 DEF Logged, InLog, Buffers
    <3> QED  BY <3>2, <3>3 DEF bread
  <2>2. CASE b \notin Contents(lh)
    <3>1. Recovered'[b] = disk[b]
      BY <1>0, <1>1, <2>2, RecoveredAfter
    <3> QED  BY <1>0, <1>4, <2>2, <3>1 DEF Buffers, bread
  <2> QED  BY <2>1, <2>2
<1>6. Recovered' = Current
  BY <1>3, <1>5 DEF Recovered
<1> QED  BY <1>2, <1>3, <1>6 DEF AD!Commit

\* Erasing the header changes nothing: all its blocks are at home.
LEMMA ClearImplements ==
    ASSUME IInv, IInv', Data, ClearHead \/ RecoverClear
    PROVE  UNCHANGED AD!vars
<1>0. TypeOK /\ Header /\ Installed /\ Buffers /\ TypeOK' /\ Header'
  BY DEF IInv, Data
<1>1. /\ phase \in {"clear", "rclear"} /\ lh = <<>> /\ hdr' = <<>>
      /\ UNCHANGED <<pc, cache, disk, slot>>
      /\ phase = "clear" => phase' = "done"
      /\ phase = "rclear" => phase' = "run"
  BY <1>0 DEF ClearHead, RecoverClear, Header
<1>2. \A b \in Block : Recovered'[b] = disk[b]
  BY <1>0, <1>1, RecoveredAfter DEF Contents
<1>3. ASSUME NEW b \in Block
      PROVE  Recovered[b] = disk[b]
  <2>1. CASE b \in Contents(hdr)
    <3>1. PICK k \in DOMAIN hdr : hdr[k] = b
      BY <2>1 DEF Contents
    <3> QED  BY <1>0, <1>1, <3>1, RecoveredAt DEF Installed, AtHome
  <2>2. CASE b \notin Contents(hdr)
    BY <1>0, <2>2, RecoveredAt
  <2> QED  BY <2>1, <2>2
<1>4. Recovered' = Recovered
  BY <1>2, <1>3 DEF Recovered
<1>5. \A b \in Block : bread(b) = disk[b] /\ bread(b)' = disk[b]
  <2>1. Uninstalled = {}
    BY <1>0, <1>1, UninstalledIs DEF Contents
  <2> QED  BY <1>0, <1>1, <2>1 DEF Buffers, bread
<1>6. Current' = Current
  <2>1. CASE phase = "clear"
    BY <1>1, <1>5, <2>1 DEF Current, Booting
  <2>2. CASE phase = "rclear"
    BY <1>1, <1>3, <1>5, <2>2 DEF Current, Booting, Recovered
  <2> QED  BY <1>1, <2>1, <2>2
<1>7. Active' = Active
  BY <1>1 DEF Active
<1> QED  BY <1>4, <1>6, <1>7 DEF AD!vars

\* Installing a block changes nothing: readers have it from its buffer, and
\* recovery would bring it back from the log.
LEMMA InstallImplements ==
    ASSUME IInv, IInv', Data, InstallTrans \/ RecoverInstall
    PROVE  UNCHANGED AD!vars
<1>0. TypeOK /\ Header /\ Headed /\ Logged /\ Buffers /\ TypeOK' /\ Header'
  BY DEF IInv, Data
<1> DEFINE b == lh[tail]
<1>1. /\ tail \in DOMAIN lh /\ b \in Block /\ lh = hdr
      /\ UNCHANGED <<pc, phase, slot, hdr>>
  BY <1>0 DEF InstallTrans, RecoverInstall, InstallBlock, TypeOK, Headed
<1>2. /\ cache'[b] = slot[tail] /\ disk'[b] = slot[tail]
      /\ \A c \in Block \ {b} : cache'[c] = cache[c] /\ disk'[c] = disk[c]
  BY <1>0 DEF InstallTrans, RecoverInstall, InstallBlock, TypeOK
<1>3. Recovered' = Recovered
  <2>1. b \in Contents(hdr)
    BY <1>1 DEF Contents
  <2> QED  BY <1>0, <1>1, <1>2, <2>1, HiddenWrite
<1>4. ASSUME phase = "install", NEW c \in Block
      PROVE  bread(c)' = bread(c)
  <2>1. CASE c = b
    <3>1. tail \in Nat /\ InLog(tail)
      BY <1>0, <1>4 DEF InLog, TypeOK
    <3>2. cache[b] = slot[tail]
      BY <1>0, <1>1, <3>1 DEF Logged
    <3>3. slot[tail] # NotCached
      BY <1>0, <1>1, NotCachedAssumption, LogConstants DEF TypeOK, Header,
         Slots
    <3> QED  BY <1>2, <3>2, <3>3 DEF bread
  <2>2. CASE c # b
    BY <1>2, <2>2 DEF bread
  <2> QED  BY <2>1, <2>2
<1>5. Current' = Current
  BY <1>1, <1>3, <1>4, SameCurrent DEF Booting, InstallTrans, RecoverInstall
<1>6. Active' = Active
  BY <1>1 DEF Active
<1> QED  BY <1>3, <1>5, <1>6 DEF AD!vars

\* A power failure, in the middle of a write or not, loses what is not durable
\* and nothing else.
LEMMA CrashImplements ==
    ASSUME IInv, IInv', Data, Crash
    PROVE  AD!Crash
<1>0. TypeOK /\ Header /\ Headed /\ TypeOK' /\ Header'
  BY DEF IInv, Data
<1>1. Active' = {}
  BY DEF Crash, Active
<1>2. Recovered' = Recovered
  <2>1. PICK v \in Val : Torn(v)
    BY DEF Crash
  <2>2. CASE UNCHANGED storage
    BY <2>2, SameRecovered DEF storage
  <2>3. CASE /\ phase = "wlog" /\ slot' = [slot EXCEPT ![tail] = v]
             /\ UNCHANGED <<disk, hdr>>
    BY <1>0, <2>3, HiddenWrite DEF Headed
  <2>4. CASE /\ phase \in {"install", "rinstall"} /\ tail <= Len(lh)
             /\ disk' = [disk EXCEPT ![lh[tail]] = v] /\ UNCHANGED <<slot, hdr>>
    <3>1. lh[tail] \in Contents(hdr)
      BY <1>0, <2>4 DEF Headed, TypeOK, Contents
    <3> QED  BY <1>0, <2>4, <3>1, HiddenWrite DEF TypeOK
  <2> QED  BY <2>1, <2>2, <2>3, <2>4 DEF Torn
<1>3. Current' = Recovered'
  BY DEF Crash, Current, Booting
<1> QED  BY <1>1, <1>2, <1>3 DEF AD!Crash

\* Begin, write and end of an operation are what they seem.
LEMMA OperationImplements ==
    ASSUME IInv, IInv', Data, NEW p \in Proc,
           \/ Call(p) \/ BeginOp(p) \/ EndOp(p) \/ EndCommit(p)
           \/ \E b \in Block, v \in Val : LogWrite(p, b, v)
    PROVE  AD!Next \/ UNCHANGED AD!vars
<1>0. TypeOK /\ Control /\ Header /\ TypeOK' /\ Header' /\ Buffers
  BY DEF IInv, Data
<1>1. Recovered' = Recovered
  BY SameRecovered DEF Call, BeginOp, EndOp, EndCommit, LogWrite, storage
<1>2. ASSUME \/ Call(p) \/ BeginOp(p) \/ EndOp(p) \/ EndCommit(p)
      PROVE  Current' = Current
  <2>1. UNCHANGED <<cache, disk>>
    BY <1>2 DEF Call, BeginOp, EndOp, EndCommit, storage
  <2>2. Booting' <=> Booting
    BY <1>0, <1>2, WriteInRun DEF Call, BeginOp, EndOp, EndCommit, Booting
  <2> QED  BY <1>1, <2>1, <2>2, SameCurrent DEF bread
<1>3. CASE Call(p) \/ EndCommit(p) \/ (BeginOp(p) /\ MustWait)
  BY <1>0, <1>1, <1>2, <1>3, ActiveAfter DEF AD!vars
<1>4. CASE BeginOp(p) /\ ~MustWait
  BY <1>0, <1>1, <1>2, <1>4, ActiveAfter DEF AD!Next, AD!Begin
<1>5. CASE EndOp(p)
  BY <1>0, <1>1, <1>2, <1>5, ActiveAfter DEF AD!Next, AD!End
<1>6. ASSUME NEW b \in Block, NEW v \in Val, LogWrite(p, b, v)
      PROVE  AD!Next
  <2>1. phase = "run" /\ phase' = "run" /\ p \in Active
    BY <1>0, <1>6, WriteInRun DEF LogWrite
  <2>2. Active' = Active
    BY <1>6 DEF LogWrite, Active
  <2>3. Current' = [Current EXCEPT ![b] = v]
    <3>1. Current = [c \in Block |-> bread(c)] /\ Current' = [c \in Block |-> bread(c)']
      BY <2>1 DEF Current, Booting
    <3>2. bread(b)' = v
      BY <1>0, <1>6, NotCachedAssumption DEF LogWrite, bread, TypeOK
    <3>3. \A c \in Block \ {b} : bread(c)' = bread(c)
      BY <1>6 DEF LogWrite, bread, storage
    <3> QED  BY <3>1, <3>2, <3>3
  <2> QED  BY <1>1, <2>1, <2>2, <2>3 DEF AD!Next, AD!Write
<1> QED  BY <1>3, <1>4, <1>5, <1>6

\* Every step of the log is a step of the atomic disk, or none.
LEMMA StepImplements ==
    ASSUME IInv, IInv', Data, [Next]_vars
    PROVE  AD!Next \/ UNCHANGED AD!vars
<1>1. ASSUME UNCHANGED <<pc, disk, slot, hdr>>, Booting' <=> Booting,
             ~Booting => \A b \in Block : bread(b)' = bread(b)
      PROVE  UNCHANGED AD!vars
  BY <1>1, SameRecovered, SameCurrent DEF Active, AD!vars
<1>2. CASE UNCHANGED vars \/ \E p \in Proc : Panic(p)
  BY <1>1, <1>2 DEF vars, memory, storage, Panic, Booting, bread
<1>3. CASE Crash
  BY <1>3, CrashImplements DEF AD!Next
<1>4. CASE Kernel
  <2>1. CASE Commit
    BY <1>1, <2>1 DEF Commit, storage, Booting, bread
  <2>2. CASE WriteLog
    <3>1. hdr = <<>> /\ phase = "wlog"
      BY <2>2 DEF WriteLog, Data, Headed
    <3>2. Recovered' = Recovered
      BY <2>2, <3>1, HiddenWrite DEF WriteLog, IInv
    <3>3. Current' = Current
      BY <2>2, <3>2, SameCurrent DEF WriteLog, Booting, bread
    <3> QED  BY <2>2, <3>2, <3>3 DEF WriteLog, Active, AD!vars
  <2>3. CASE WriteLogDone \/ InstallDone
    BY <1>1, <2>3 DEF WriteLogDone, InstallDone, storage, Booting, bread
  <2>4. CASE WriteHead
    BY <2>4, CommitImplements DEF AD!Next
  <2>5. CASE InstallTrans \/ RecoverInstall
    BY <2>5, InstallImplements
  <2>6. CASE ClearHead \/ RecoverClear
    BY <2>6, ClearImplements
  <2>7. CASE ReadHead \/ RecoverInstalled
    BY <1>1, <2>7 DEF ReadHead, RecoverInstalled, storage, Booting
  <2> QED  BY <1>4, <2>1, <2>2, <2>3, <2>4, <2>5, <2>6, <2>7 DEF Kernel
<1>5. ASSUME NEW b \in Block, Evict(b)
      PROVE  UNCHANGED AD!vars
  <2>1. cache[b] = disk[b] /\ cache[b] # NotCached
    <3>1. b \notin Uninstalled
      BY <1>5 DEF Evict, IInv, PinnedOnce
    <3> QED  BY <1>5, <3>1 DEF Evict, Data, Buffers
  <2>2. \A c \in Block : bread(c)' = bread(c)
    BY <1>5, <2>1 DEF Evict, bread, storage
  <2> QED  BY <1>1, <1>5, <2>2 DEF Evict, storage, Booting
<1> QED
  BY <1>2, <1>3, <1>4, <1>5, OperationImplements DEF Next, Running

\* Crash atomicity: the log of log.c implements the atomic disk.  Whatever
\* instant the power fails at, the disk comes back with whole groups of
\* operations, and never with half of one.
THEOREM LogIsAtomic == Spec => AtomicOperations
<1>1. Init => AD!Init
  <2> SUFFICES ASSUME Init
               PROVE  AD!Init
    OBVIOUS
  <2>1. hdr = <<>> /\ disk \in [Block -> Val] /\ phase = "boot"
    BY DEF Init
  <2>2. Recovered = disk
    BY <2>1 DEF Recovered, Contents
  <2>3. Active = {} /\ Current = Recovered
    BY DEF Init, Active, Current, Booting
  <2> QED  BY <2>1, <2>2, <2>3 DEF AD!Init
<1>2. IInv /\ IInv' /\ Data /\ [Next]_vars => [AD!Next]_(AD!vars)
  BY StepImplements
<1> QED  BY <1>1, <1>2, DataInvariant, PTL DEF Spec, AtomicOperations, AD!Spec
=============================================================================
