---------------------------- MODULE PipeProofs ----------------------------
(***************************************************************************)
(* Proofs about Pipe, for any number of processes, files and pipes, any    *)
(* PIPESIZE, and counters that wrap at any multiple of it.                 *)
(***************************************************************************)
EXTENDS Pipe, FiniteSetTheorems, TLAPS

Cells == 0 .. PIPESIZE - 1
Index == 0 .. WRAP - 1
File  == [ref : Nat, type : {"NONE", "PIPE"}, pipe : Pipes \cup {0}, writable : BOOLEAN]
Page  == [data : [Cells -> Bytes \cup {Empty}], nread : Index, nwrite : Index,
          readopen : BOOLEAN, writeopen : BOOLEAN]
IOCall    == [pipe : Pipes, n : Nat, byte : Bytes \cup {Empty}]
CloseCall == [n : {0}, pipe : Pipes, writable : BOOLEAN]

Types ==
    /\ ofile \in [Proc -> [Files -> Nat]]
    /\ file \in [Files -> File]
    /\ pipe \in [Pipes -> Page \cup {NoPage}]
    /\ pc \in [Proc -> {"unused", "user", "alloc", "close", "exit", "read", "write"}]
    /\ arg \in [Proc -> IOCall \cup CloseCall \cup {NoCall}]
    /\ todo \in [Proc -> Seq(Files)]
    /\ asleep \in [Proc -> BOOLEAN]
    /\ killed \in [Proc -> BOOLEAN]
    /\ panicked = FALSE

\* What a process has in its system call, which depends on the call.
NoRepeat(s) == \A j, k \in DOMAIN s : s[j] = s[k] => j = k
Call1(p) ==
    /\ arg[p] \in IOCall <=> pc[p] \in {"read", "write"}
    /\ arg[p] \in CloseCall => pc[p] \in {"close", "exit"}
    /\ pc[p] = "write" => arg[p].byte \in Bytes
    /\ todo[p] # <<>> => pc[p] \in {"alloc", "close"}
    /\ pc[p] = "alloc" => Len(todo[p]) \in 1 .. 2
    /\ NoRepeat(todo[p])
    /\ pc[p] = "unused" => (~killed[p] /\ \A f \in Files : ofile[p][f] = 0)
InCalls == \A p \in Proc : Call1(p)

\* References are counted.  A file that is not for a pipe yet is in one call only,
\* the one that makes it; descriptors are for pipes.
Counted(f) ==
    /\ IsFiniteSet(Fds(f)) /\ IsFiniteSet(InCall(f))
    /\ file[f].ref = Cardinality(Fds(f)) + Cardinality(InCall(f))
Sound(f) ==
    /\ file[f].ref = 0 => file[f] = Unused
    /\ file[f].type = "NONE" => file[f].ref <= 1
    /\ file[f].type = "PIPE" => file[f].pipe \in Pipes
    /\ \A p \in Proc : ofile[p][f] > 0 => file[f].type = "PIPE"
    /\ \A p \in Proc : pc[p] = "alloc" /\ p \in InCall(f) => file[f].type = "NONE"
Referenced == \A f \in Files : Counted(f) /\ Sound(f)

\* An open end has one file, or one process that closes it; who reads or writes
\* has a descriptor for its end.
Open(i, w) == pipe[i] # NoPage /\ (IF w THEN pipe[i].writeopen ELSE pipe[i].readopen)
Ended(i, w) ==
    /\ \A f, g \in Ends(i, w) : f = g
    /\ \A p, q \in Closing(i, w) : p = q
    /\ Ends(i, w) = {} \/ Closing(i, w) = {}
    /\ Open(i, w) <=> Ends(i, w) # {} \/ Closing(i, w) # {}
HasEnd(p) == pc[p] \in {"read", "write"} =>
    \E f \in Files : /\ ofile[p][f] > 0 /\ file[f].pipe = arg[p].pipe
                     /\ file[f].writable = (pc[p] = "write")
Opened ==
    /\ \A i \in Pipes, w \in BOOLEAN : Ended(i, w)
    /\ \A i \in Pipes : pipe[i] # NoPage => Open(i, TRUE) \/ Open(i, FALSE)
    /\ \A p \in Proc : HasEnd(p)

IInv == Types /\ InCalls /\ Referenced /\ Opened

\* What is between the counters is what was written; there is never too much.
Cnt(r)     == (r.nwrite - r.nread + WRAP) % WRAP
Cell(r, x) == (r.nread + x) % PIPESIZE
Holds(r)   == Cnt(r) <= PIPESIZE /\ \A x \in 0 .. Cnt(r) - 1 : r.data[Cell(r, x)] \in Bytes
Stored     == \A i \in Pipes : pipe[i] # NoPage => Holds(pipe[i])

-----------------------------------------------------------------------------
(* Records and references. *)

\* Calls of different kinds are different.
LEMMA CallKinds ==
  /\ NoCall \notin IOCall /\ NoCall \notin CloseCall
  /\ \A a \in IOCall : a \notin CloseCall
<1>1. \A a \in IOCall : DOMAIN a = {"pipe", "n", "byte"}
  BY DEF IOCall
<1>2. \A a \in CloseCall : DOMAIN a = {"n", "pipe", "writable"}
  BY DEF CloseCall
<1>3. DOMAIN NoCall = {"n"}
  BY DEF NoCall
<1> QED BY <1>1, <1>2, <1>3

\* A page is a page.
LEMMA PageKind == NoPage \notin Page
<1>1. \A r \in Page : DOMAIN r = {"data", "nread", "nwrite", "readopen", "writeopen"}
  BY DEF Page
<1>2. DOMAIN NoPage = {"data"}
  BY DEF NoPage
<1> QED BY <1>1, <1>2

\* The descriptors for f, one by one.
LEMMA FdsAre ==
  ASSUME NEW f, NEW e
  PROVE  e \in Fds(f) <=> \E p \in Proc : \E k \in 1 .. ofile[p][f] : e = <<p, k>>
BY DEF Fds

\* They stay when the tables do.
LEMMA SameFds ==
  ASSUME NEW f, \A p \in Proc : ofile'[p][f] = ofile[p][f]
  PROVE  Fds(f)' = Fds(f)
BY DEF Fds

\* So do the calls that have f.
LEMMA SameInCall ==
  ASSUME NEW f, \A p \in Proc : todo'[p] = todo[p]
  PROVE  InCall(f)' = InCall(f)
BY DEF InCall

\* One more descriptor of p.
LEMMA FdsAdded ==
  ASSUME NEW f \in Files, NEW p \in Proc, ofile \in [Proc -> [Files -> Nat]],
         ofile'[p][f] = ofile[p][f] + 1,
         \A q \in Proc \ {p} : ofile'[q][f] = ofile[q][f]
  PROVE  \E e : e \notin Fds(f) /\ Fds(f)' = Fds(f) \cup {e}
<1> DEFINE n == ofile[p][f]
           e == <<p, n + 1>>
<1>1. n \in Nat
  OBVIOUS
<1>2. e \notin Fds(f)
  <2> SUFFICES ASSUME NEW q \in Proc, NEW k \in 1 .. ofile[q][f], e = <<q, k>>
               PROVE  FALSE
    BY FdsAre
  <2> QED BY <1>1
<1>3. ASSUME NEW d PROVE d \in Fds(f)' <=> d \in Fds(f) \cup {e}
  <2>1. d \in Fds(f)' <=> \E q \in Proc : \E k \in 1 .. ofile'[q][f] : d = <<q, k>>
    BY DEF Fds
  <2>2. d \in Fds(f) <=> \E q \in Proc : \E k \in 1 .. ofile[q][f] : d = <<q, k>>
    BY FdsAre
  <2>3. 1 .. n + 1 = (1 .. n) \cup {n + 1}
    BY <1>1
  <2>4. ASSUME d \in Fds(f)' PROVE d \in Fds(f) \cup {e}
    <3>1. PICK q \in Proc : \E k \in 1 .. ofile'[q][f] : d = <<q, k>>
      BY <2>1, <2>4
    <3> QED BY <3>1, <2>2, <2>3
  <2>5. ASSUME d \in Fds(f) PROVE d \in Fds(f)'
    <3>1. PICK q \in Proc : \E k \in 1 .. ofile[q][f] : d = <<q, k>>
      BY <2>2, <2>5
    <3> QED BY <3>1, <2>1, <2>3
  <2>6. e \in Fds(f)'
    <3>1. n + 1 \in 1 .. ofile'[p][f]
      BY <1>1
    <3> QED BY <3>1 DEF Fds
  <2> QED BY <2>4, <2>5, <2>6
<1> QED BY <1>2, <1>3

\* One descriptor of p less.
LEMMA FdsDropped ==
  ASSUME NEW f \in Files, NEW p \in Proc, ofile \in [Proc -> [Files -> Nat]],
         ofile[p][f] > 0, ofile'[p][f] = ofile[p][f] - 1,
         \A q \in Proc \ {p} : ofile'[q][f] = ofile[q][f]
  PROVE  \E e : /\ e \in Fds(f) /\ Fds(f)' = Fds(f) \ {e}
                /\ \A q \in Proc \ {p} : ofile[q][f] > 0 => <<q, 1>> \in Fds(f)'
<1> DEFINE n == ofile[p][f]
           e == <<p, n>>
<1>1. n \in Nat \ {0}
  OBVIOUS
<1>2. e \in Fds(f)
  <2>1. n \in 1 .. ofile[p][f]
    BY <1>1
  <2> QED BY <2>1, FdsAre
<1>3. ASSUME NEW d PROVE d \in Fds(f)' <=> d \in Fds(f) \ {e}
  <2>1. d \in Fds(f)' <=> \E q \in Proc : \E k \in 1 .. ofile'[q][f] : d = <<q, k>>
    BY DEF Fds
  <2>2. d \in Fds(f) <=> \E q \in Proc : \E k \in 1 .. ofile[q][f] : d = <<q, k>>
    BY FdsAre
  <2>3. 1 .. n - 1 = (1 .. n) \ {n}
    BY <1>1
  <2>4. ASSUME d \in Fds(f)' PROVE d \in Fds(f) \ {e}
    <3>1. PICK q \in Proc : \E k \in 1 .. ofile'[q][f] : d = <<q, k>>
      BY <2>1, <2>4
    <3> QED BY <3>1, <2>2, <2>3
  <2>5. ASSUME d \in Fds(f) \ {e} PROVE d \in Fds(f)'
    <3>1. PICK q \in Proc : \E k \in 1 .. ofile[q][f] : d = <<q, k>>
      BY <2>2, <2>5
    <3>2. PICK k \in 1 .. ofile[q][f] : d = <<q, k>>
      BY <3>1
    <3>3. q = p => k # n
      BY <3>2, <2>5
    <3> QED BY <3>2, <3>3, <2>1, <2>3
  <2> QED BY <2>4, <2>5
<1>4. \A q \in Proc \ {p} : ofile[q][f] > 0 => <<q, 1>> \in Fds(f)'
  BY DEF Fds
<1> QED BY <1>2, <1>3, <1>4

-----------------------------------------------------------------------------
(* What a step leaves alone. *)

IsClosing(p) == pc[p] \in {"close", "exit"} /\ arg[p] # NoCall

\* A file whose references, descriptors and calls stay is counted still.
LEMMA SameCounted ==
  ASSUME NEW f \in Files, Counted(f), file'[f].ref = file[f].ref,
         Fds(f)' = Fds(f), InCall(f)' = InCall(f)
  PROVE  Counted(f)'
BY DEF Counted

\* A process that a step leaves alone is still in the same call.
LEMMA SameCall ==
  ASSUME NEW p \in Proc, Call1(p), pc'[p] = pc[p], arg'[p] = arg[p], todo'[p] = todo[p],
         pc[p] = "unused" => killed'[p] = killed[p] /\ ofile'[p] = ofile[p]
  PROVE  Call1(p)'
BY DEF Call1

\* It still has the end that it reads or writes.
LEMMA SameEnd ==
  ASSUME NEW p \in Proc, HasEnd(p), pc'[p] = pc[p], arg'[p] = arg[p],
         \A f \in Files : ofile[p][f] > 0 =>
            /\ ofile'[p][f] > 0 /\ file'[f].pipe = file[f].pipe
            /\ file'[f].writable = file[f].writable
  PROVE  HasEnd(p)'
BY DEF HasEnd

\* The ends of a pipe, in a step that opens and closes none.
LEMMA SameEnded ==
  ASSUME NEW i \in Pipes, NEW w \in BOOLEAN, Ended(i, w), Open(i, w)' <=> Open(i, w),
         Ends(i, w)' = Ends(i, w), Closing(i, w)' = Closing(i, w)
  PROVE  Ended(i, w)'
BY DEF Ended

\* Files that stay for their ends keep the sets of ends.
LEMMA SameEnds ==
  ASSUME NEW i, NEW w,
         \A f \in Files : /\ file'[f].type = file[f].type
                          /\ file'[f].pipe = file[f].pipe
                          /\ file'[f].writable = file[f].writable
  PROVE  Ends(i, w)' = Ends(i, w)
BY DEF Ends

\* Processes that go on closing keep the sets of closers.
LEMMA SameClosing ==
  ASSUME NEW i, NEW w,
         \A p \in Proc : IsClosing(p)' <=> IsClosing(p),
         \A p \in Proc : IsClosing(p) => arg'[p] = arg[p]
  PROVE  Closing(i, w)' = Closing(i, w)
BY DEF Closing, IsClosing

\* A step that keeps the pages there are, with the ends that are open.
SamePages == \A i \in Pipes : (pipe'[i] = NoPage <=> pipe[i] = NoPage)
                              /\ (pipe[i] # NoPage =>
                                    /\ pipe'[i].readopen = pipe[i].readopen
                                    /\ pipe'[i].writeopen = pipe[i].writeopen)

\* Pages that stay keep their open ends.
LEMMA SameOpen ==
  ASSUME SamePages, NEW i \in Pipes, NEW w \in BOOLEAN
  PROVE  Open(i, w)' <=> Open(i, w)
BY DEF SamePages, Open

\* Ends stay as they were in a step that only moves descriptors and bytes.
LEMMA SameOpened ==
  ASSUME Opened, SamePages,
         \A f \in Files : /\ file'[f].type = file[f].type
                          /\ file'[f].pipe = file[f].pipe
                          /\ file'[f].writable = file[f].writable,
         \A p \in Proc : IsClosing(p)' <=> IsClosing(p),
         \A p \in Proc : IsClosing(p) => arg'[p] = arg[p],
         \A p \in Proc : HasEnd(p)'
  PROVE  Opened'
<1>1. ASSUME NEW i \in Pipes, NEW w \in BOOLEAN PROVE Ended(i, w)'
  <2>1. Ends(i, w)' = Ends(i, w)
    BY SameEnds
  <2>2. Closing(i, w)' = Closing(i, w)
    BY SameClosing
  <2> QED BY <2>1, <2>2, SameOpen, SameEnded DEF Opened
<1>2. ASSUME NEW i \in Pipes, pipe'[i] # NoPage PROVE Open(i, TRUE)' \/ Open(i, FALSE)'
  BY <1>2, SameOpen DEF Opened, SamePages
<1> QED BY <1>1, <1>2 DEF Opened

\* A step of p that leaves files and what is to be closed alone.
LEMMA CallStep ==
  ASSUME IInv, Types', SamePages, UNCHANGED <<ofile, file, todo>>, NEW p \in Proc,
         pc'[p] = "alloc" => pc[p] = "alloc",
         Call1(p)', HasEnd(p)', IsClosing(p)' <=> IsClosing(p),
         IsClosing(p) => arg'[p] = arg[p],
         \A q \in Proc \ {p} : pc'[q] = pc[q] /\ arg'[q] = arg[q] /\ killed'[q] = killed[q]
  PROVE  IInv'
<1>0. Types /\ InCalls /\ Referenced /\ Opened
  BY DEF IInv
<1>1. InCalls'
  BY <1>0, SameCall DEF InCalls
<1>2. Referenced'
  <2>1. ASSUME NEW f \in Files PROVE Counted(f)' /\ Sound(f)'
    <3>1. Fds(f)' = Fds(f) /\ InCall(f)' = InCall(f)
      BY SameFds, SameInCall
    <3>2. Counted(f)'
      BY <3>1, <1>0, SameCounted DEF Referenced
    <3>3. Sound(f)'
      BY <3>1, <1>0 DEF Referenced, Sound
    <3> QED BY <3>2, <3>3
  <2> QED BY <2>1 DEF Referenced
<1>3. \A q \in Proc \ {p} : HasEnd(q)'
  BY <1>0, SameEnd DEF Opened
<1>4. \A q \in Proc \ {p} : (IsClosing(q)' <=> IsClosing(q)) /\ arg'[q] = arg[q]
  BY DEF IsClosing
<1>5. Opened'
  BY <1>0, <1>3, <1>4, SameOpened
<1> QED BY <1>1, <1>2, <1>5 DEF IInv

\* exit begins.
LEMMA ExitStep ==
  ASSUME IInv, NEW p \in Proc, Exit(p)
  PROVE  IInv'
<1>0. Types /\ InCalls
  BY DEF IInv
<1>1. /\ pc[p] = "user" /\ pc' = [pc EXCEPT ![p] = "exit"]
      /\ UNCHANGED <<ofile, file, pipe, arg, todo, asleep, killed, panicked>>
  BY DEF Exit, Runs, At
<1>2. pc'[p] = "exit" /\ \A q \in Proc \ {p} : pc'[q] = pc[q]
  BY <1>0, <1>1 DEF Types
<1>3. Types'
  BY <1>0, <1>1 DEF Types
<1>4. arg[p] = NoCall
  BY <1>0, <1>1 DEF InCalls, Call1, Types
<1>5. Call1(p)'
  BY <1>0, <1>1, <1>2, <1>4, CallKinds DEF InCalls, Call1
<1>6. HasEnd(p)' /\ ~IsClosing(p) /\ ~IsClosing(p)'
  BY <1>1, <1>2, <1>4 DEF HasEnd, IsClosing
<1>7. SamePages
  BY <1>1 DEF SamePages
<1> QED BY <1>1, <1>2, <1>3, <1>5, <1>6, <1>7, CallStep

\* kill, which wakes.
LEMMA KillStep ==
  ASSUME IInv, NEW p \in Proc, Kill(p)
  PROVE  IInv'
<1>0. Types /\ InCalls /\ Opened
  BY DEF IInv
<1>1. /\ pc[p] # "unused" /\ killed' = [killed EXCEPT ![p] = TRUE]
      /\ asleep' = [asleep EXCEPT ![p] = FALSE]
      /\ UNCHANGED <<ofile, file, pipe, pc, arg, todo, panicked>>
  BY DEF Kill
<1>2. \A q \in Proc \ {p} : killed'[q] = killed[q]
  BY <1>0, <1>1 DEF Types
<1>3. Types'
  BY <1>0, <1>1 DEF Types
<1>4. Call1(p)'
  BY <1>0, <1>1, SameCall DEF InCalls
<1>5. HasEnd(p)' /\ (IsClosing(p)' <=> IsClosing(p))
  BY <1>0, <1>1 DEF Opened, HasEnd, IsClosing
<1>6. SamePages
  BY <1>1 DEF SamePages
<1> QED BY <1>1, <1>2, <1>3, <1>4, <1>5, <1>6, CallStep

\* A close has been done, or an exit.
LEMMA ClosedStep ==
  ASSUME IInv, NEW p \in Proc, Closed(p)
  PROVE  IInv'
<1>0. Types /\ InCalls
  BY DEF IInv
<1>1. /\ arg[p] = NoCall /\ UNCHANGED <<ofile, file, pipe, arg, todo, asleep, panicked>>
      /\ killed' = [killed EXCEPT ![p] = killed[p] /\ pc[p] # "exit"]
  BY DEF Closed
<1>2. /\ pc[p] \in {"close", "exit"} /\ todo[p] = <<>>
      /\ pc[p] = "exit" => \A f \in Files : ofile[p][f] = 0
      /\ pc' = [pc EXCEPT ![p] = IF pc[p] = "exit" THEN "unused" ELSE "user"]
  BY <1>0 DEF Closed, At, InCalls, Call1
<1>3. /\ pc'[p] = IF pc[p] = "exit" THEN "unused" ELSE "user"
      /\ killed'[p] = (killed[p] /\ pc[p] # "exit")
      /\ \A q \in Proc \ {p} : pc'[q] = pc[q] /\ killed'[q] = killed[q]
  BY <1>0, <1>1, <1>2 DEF Types
<1>4. Types'
  <2>1. killed' \in [Proc -> BOOLEAN]
    BY <1>0, <1>1 DEF Types
  <2> QED BY <2>1, <1>0, <1>1, <1>2 DEF Types
<1>5. Call1(p)'
  <2>1. pc[p] = "exit" => ~killed'[p]
    BY <1>3
  <2>2. pc'[p] = "unused" => ~killed'[p] /\ \A f \in Files : ofile'[p][f] = 0
    BY <2>1, <1>1, <1>2, <1>3
  <2>3. pc'[p] \in {"unused", "user"}
    BY <1>3
  <2>4. NoRepeat(todo'[p])
    BY <1>0, <1>1 DEF InCalls, Call1
  <2> QED BY <2>2, <2>3, <2>4, <1>1, <1>2, CallKinds DEF Call1
<1>6. HasEnd(p)' /\ ~IsClosing(p) /\ ~IsClosing(p)'
  BY <1>1, <1>3 DEF HasEnd, IsClosing
<1>7. SamePages
  BY <1>1 DEF SamePages
<1> QED BY <1>1, <1>2, <1>3, <1>4, <1>5, <1>6, <1>7, CallStep

\* read and write begin with a descriptor of the process.
LEMMA CallBegins ==
  ASSUME IInv, NEW p \in Proc, NEW f \in Files, NEW n \in Sizes, NEW v \in Bytes,
         Call(p, f, n, v)
  PROVE  IInv'
<1>0. Types /\ InCalls /\ Referenced
  BY DEF IInv
<1> DEFINE c == [pipe |-> file[f].pipe, n |-> n,
                 byte |-> IF file[f].writable THEN v ELSE Empty]
<1>1. /\ pc[p] = "user" /\ ofile[p][f] > 0
      /\ pc' = [pc EXCEPT ![p] = IF file[f].writable THEN "write" ELSE "read"]
      /\ arg' = [arg EXCEPT ![p] = c]
      /\ UNCHANGED <<ofile, file, pipe, todo, asleep, killed, panicked>>
  BY DEF Call, Runs, At
<1>2. /\ pc'[p] = (IF file[f].writable THEN "write" ELSE "read") /\ arg'[p] = c
      /\ \A q \in Proc \ {p} : pc'[q] = pc[q] /\ arg'[q] = arg[q]
  BY <1>0, <1>1 DEF Types
<1>3. file[f].pipe \in Pipes /\ n \in Nat /\ file[f].writable \in BOOLEAN
  BY <1>0, <1>1, PipeConstants DEF Referenced, Sound, Types, File
<1>4. c \in IOCall /\ (file[f].writable => c.byte \in Bytes)
  BY <1>3 DEF IOCall
<1>5. Types'
  BY <1>0, <1>1, <1>4 DEF Types
<1>6. arg[p] = NoCall /\ todo[p] = <<>>
  BY <1>0, <1>1 DEF InCalls, Call1, Types
<1>7. Call1(p)'
  BY <1>0, <1>1, <1>2, <1>3, <1>4, <1>6, CallKinds DEF InCalls, Call1
<1>8. ~IsClosing(p) /\ ~IsClosing(p)'
  BY <1>1, <1>2 DEF IsClosing
<1>9. HasEnd(p)'
  BY <1>1, <1>2, <1>3 DEF HasEnd
<1>10. SamePages
  BY <1>1 DEF SamePages
<1> QED BY <1>1, <1>2, <1>5, <1>7, <1>8, <1>9, <1>10, CallStep

-----------------------------------------------------------------------------
(* Reading and writing. *)

\* A counter stays within its width.
LEMMA Modulo ==
  ASSUME NEW x \in Int
  PROVE  x % WRAP \in Index
BY PipeConstants DEF Index

\* Who reads or writes has an open end of a pipe.
LEMMA InUse ==
  ASSUME IInv, NEW p \in Proc, pc[p] \in {"read", "write"}
  PROVE  /\ arg[p] \in IOCall /\ arg[p].pipe \in Pipes /\ arg[p].n \in Nat
         /\ pipe[arg[p].pipe] \in Page /\ pipe[arg[p].pipe] # NoPage
         /\ Open(arg[p].pipe, pc[p] = "write")
         /\ Ends(arg[p].pipe, pc[p] = "write") # {}
<1>0. Types /\ InCalls /\ Referenced /\ Opened
  BY DEF IInv
<1>1. arg[p] \in IOCall
  BY <1>0 DEF InCalls, Call1
<1>2. PICK i \in Pipes : i = arg[p].pipe
  BY <1>1 DEF IOCall
<1>3. PICK w \in BOOLEAN : w = (pc[p] = "write")
  OBVIOUS
<1>4. PICK f \in Files : ofile[p][f] > 0 /\ file[f].pipe = i /\ file[f].writable = w
  BY <1>0, <1>2, <1>3 DEF Opened, HasEnd
<1>5. file[f].type = "PIPE"
  BY <1>0, <1>4 DEF Referenced, Sound
<1>6. f \in Ends(i, w)
  BY <1>4, <1>5 DEF Ends
<1>7. Open(i, w)
  BY <1>0, <1>6 DEF Opened, Ended
<1>8. pipe[i] # NoPage /\ pipe[i] \in Page
  BY <1>0, <1>7 DEF Open, Types
<1> QED BY <1>1, <1>2, <1>3, <1>6, <1>7, <1>8 DEF IOCall

\* Bytes in and out leave a page a page, and its ends alone.
LEMMA FilledPage ==
  ASSUME NEW r \in Page, NEW k \in Int, NEW v \in Bytes
  PROVE  /\ Filled(r, k, v) \in Page
         /\ Filled(r, k, v).readopen = r.readopen
         /\ Filled(r, k, v).writeopen = r.writeopen
         /\ Filled(r, k, v).nread = r.nread
         /\ Filled(r, k, v).nwrite = (r.nwrite + k) % WRAP
         /\ Filled(r, k, v).data = Put(r.data, r.nwrite, k, v)
<1>1. (r.nwrite + k) % WRAP \in Index
  BY Modulo DEF Page, Index
<1>2. Put(r.data, r.nwrite, k, v) \in [Cells -> Bytes \cup {Empty}]
  BY DEF Put, Page, Cells
<1> QED BY <1>1, <1>2 DEF Filled, Page

\* The same for bytes that are read.
LEMMA DrainedPage ==
  ASSUME NEW r \in Page, NEW k \in Int
  PROVE  /\ Drained(r, k) \in Page
         /\ Drained(r, k).readopen = r.readopen
         /\ Drained(r, k).writeopen = r.writeopen
         /\ Drained(r, k).nread = (r.nread + k) % WRAP
         /\ Drained(r, k).nwrite = r.nwrite
         /\ Drained(r, k).data = Put(r.data, r.nread, k, Empty)
<1>1. (r.nread + k) % WRAP \in Index
  BY Modulo DEF Page, Index
<1>2. Put(r.data, r.nread, k, Empty) \in [Cells -> Bytes \cup {Empty}]
  BY DEF Put, Page, Cells
<1> QED BY <1>1, <1>2 DEF Drained, Page

\* A call that moves bytes and returns, or goes on with what is left.
LEMMA MoveStep ==
  ASSUME IInv, NEW p \in Proc, pc[p] \in {"read", "write"},
         NEW r \in Page, r.readopen = pipe[arg[p].pipe].readopen,
         r.writeopen = pipe[arg[p].pipe].writeopen,
         pipe' = [pipe EXCEPT ![arg[p].pipe] = r] \/ UNCHANGED pipe,
         asleep' \in [Proc -> BOOLEAN], UNCHANGED <<ofile, file, todo, killed, panicked>>,
         \/ Return(p)
         \/ UNCHANGED <<pc, arg>>
         \/ UNCHANGED pc /\ \E m \in Nat : arg' = [arg EXCEPT ![p].n = m]
  PROVE  IInv'
<1>0. Types /\ InCalls /\ Opened
  BY DEF IInv
<1>1. /\ arg[p] \in IOCall /\ arg[p].pipe \in Pipes
      /\ pipe[arg[p].pipe] \in Page /\ pipe[arg[p].pipe] # NoPage
  BY InUse
<1>2. SamePages /\ pipe' \in [Pipes -> Page \cup {NoPage}]
  <2>1. CASE UNCHANGED pipe
    BY <2>1, <1>0 DEF SamePages, Types
  <2>2. CASE pipe' = [pipe EXCEPT ![arg[p].pipe] = r]
    <3>1. /\ pipe'[arg[p].pipe] = r
          /\ \A i \in Pipes : i # arg[p].pipe => pipe'[i] = pipe[i]
      BY <2>2, <1>0, <1>1 DEF Types
    <3>2. pipe' \in [Pipes -> Page \cup {NoPage}]
      BY <2>2, <1>0, <1>1 DEF Types
    <3>3. SamePages
      BY <3>1, <1>1, PageKind DEF SamePages
    <3> QED BY <3>2, <3>3
  <2> QED BY <2>1, <2>2
<1>3. CASE Return(p)
  <2>1. pc' = [pc EXCEPT ![p] = "user"] /\ arg' = [arg EXCEPT ![p] = NoCall]
    BY <1>3 DEF Return, At
  <2>2. /\ pc'[p] = "user" /\ arg'[p] = NoCall
        /\ \A q \in Proc \ {p} : pc'[q] = pc[q] /\ arg'[q] = arg[q]
    BY <2>1, <1>0 DEF Types
  <2>3. Types'
    BY <2>1, <1>0, <1>2 DEF Types
  <2>4. Call1(p)'
    BY <2>2, <1>0, CallKinds DEF InCalls, Call1
  <2>5. HasEnd(p)' /\ ~IsClosing(p) /\ ~IsClosing(p)'
    BY <2>2 DEF HasEnd, IsClosing
  <2> QED BY <2>2, <2>3, <2>4, <2>5, <1>2, CallStep
<1>4. CASE UNCHANGED pc /\ \E m \in Nat : arg' = [arg EXCEPT ![p].n = m]
  <2>1. PICK m \in Nat : arg' = [arg EXCEPT ![p].n = m]
    BY <1>4
  <2>2. /\ arg'[p] = [arg[p] EXCEPT !.n = m]
        /\ \A q \in Proc \ {p} : arg'[q] = arg[q]
    BY <2>1, <1>0 DEF Types
  <2>3. arg'[p] \in IOCall /\ arg'[p].pipe = arg[p].pipe /\ arg'[p].byte = arg[p].byte
    BY <2>2, <1>1 DEF IOCall
  <2>4. Types'
    <3>1. arg' \in [Proc -> IOCall \cup CloseCall \cup {NoCall}]
      BY <2>1, <2>2, <2>3, <1>0 DEF Types
    <3> QED BY <3>1, <1>0, <1>2, <1>4 DEF Types
  <2>5. Call1(p)'
    BY <2>3, <1>0, <1>4, CallKinds DEF InCalls, Call1
  <2>6. HasEnd(p)'
    BY <2>3, <1>0, <1>4 DEF Opened, HasEnd
  <2>7. ~IsClosing(p) /\ ~IsClosing(p)'
    BY <1>4 DEF IsClosing
  <2> QED BY <2>2, <2>4, <2>5, <2>6, <2>7, <1>2, <1>4, CallStep
<1>5. CASE UNCHANGED <<pc, arg>>
  <2>1. Types'
    BY <1>0, <1>2, <1>5 DEF Types
  <2>2. Call1(p)'
    BY <1>0, <1>5, SameCall DEF InCalls
  <2>3. HasEnd(p)' /\ (IsClosing(p)' <=> IsClosing(p))
    BY <1>0, <1>5 DEF Opened, HasEnd, IsClosing
  <2> QED BY <2>1, <2>2, <2>3, <1>2, <1>5, CallStep
<1> QED BY <1>3, <1>4, <1>5

\* wakeup keeps the type.
LEMMA WokenIs ==
  ASSUME NEW c, NEW i, Types
  PROVE  /\ Woken(c, i) \in [Proc -> BOOLEAN]
         /\ \A p \in Proc : Woken(c, i)[p] <=> asleep[p] /\ ~(pc[p] = c /\ arg[p].pipe = i)
BY DEF Woken, Types

\* The number of bytes is a number.
LEMMA CountIs ==
  ASSUME NEW i \in Pipes, pipe[i] \in Page
  PROVE  Count(i) \in 0 .. WRAP - 1
<1>1. pipe[i].nwrite - pipe[i].nread + WRAP \in Int
  BY PipeConstants DEF Page, Index
<1> QED BY <1>1, Modulo DEF Count, Index

\* What pipewrite does, case by case.
Writes(p, i, room) ==
    \/ /\ ~pipe[i].readopen \/ killed[p]
       /\ Return(p) /\ UNCHANGED <<pipe, asleep>>
    \/ /\ pipe[i].readopen /\ ~killed[p] /\ arg[p].n > room
       /\ pipe' = [pipe EXCEPT ![i] = Filled(pipe[i], room, arg[p].byte)]
       /\ arg' = [arg EXCEPT ![p].n = arg[p].n - room]
       /\ asleep' = [Woken("read", i) EXCEPT ![p] = TRUE]
       /\ UNCHANGED pc
    \/ \E k \in Nat :
       /\ pipe[i].readopen /\ ~killed[p] /\ k <= arg[p].n /\ k <= room
       /\ pipe' = [pipe EXCEPT ![i] = Filled(pipe[i], k, arg[p].byte)]
       /\ asleep' = Woken("read", i)
       /\ Return(p)
\* The same of piperead.
Reads(p, i) ==
    \/ /\ Count(i) = 0 /\ pipe[i].writeopen /\ killed[p]
       /\ Return(p) /\ UNCHANGED <<pipe, asleep>>
    \/ /\ Count(i) = 0 /\ pipe[i].writeopen /\ ~killed[p]
       /\ asleep' = [asleep EXCEPT ![p] = TRUE] /\ UNCHANGED <<pipe, pc, arg>>
    \/ \E k \in Nat :
       /\ k <= Count(i) /\ (k = 0 => Count(i) = 0)
       /\ ~(Count(i) = 0 /\ pipe[i].writeopen)
       /\ pipe' = [pipe EXCEPT ![i] = Drained(pipe[i], k)]
       /\ asleep' = Woken("write", i)
       /\ Return(p)

\* The smaller of two numbers.
LEMMA Smaller ==
  ASSUME NEW x \in Int, NEW y \in Int, NEW k \in 0 .. Min({x, y})
  PROVE  k \in Nat /\ k <= x /\ k <= y
<1>1. \E m \in {x, y} : \A z \in {x, y} : m <= z
  OBVIOUS
<1>2. Min({x, y}) \in {x, y} /\ Min({x, y}) <= x /\ Min({x, y}) <= y
  BY <1>1 DEF Min
<1> QED BY <1>2

\* pipewrite does one of those things (pipe.c:76-103).
LEMMA PipeWriteDoes ==
  ASSUME IInv, NEW p \in Proc, PipeWrite(p)
  PROVE  /\ pc[p] = "write" /\ ~asleep[p] /\ UNCHANGED <<ofile, file, todo, killed, panicked>>
         /\ Writes(p, arg[p].pipe, PIPESIZE - Count(arg[p].pipe))
<1>1. pc[p] = "write" /\ ~asleep[p] /\ UNCHANGED <<ofile, file, todo, killed, panicked>>
  BY DEF PipeWrite, Runs
<1>2. PICK i \in Pipes : i = arg[p].pipe
  BY <1>1, InUse
<1>3. arg[p].n \in Int /\ PIPESIZE - Count(i) \in Int
  BY <1>1, <1>2, InUse, CountIs, PipeConstants
<1>4. PICK room \in Int : room = PIPESIZE - Count(i)
  BY <1>3
<1>5. \/ (~pipe[i].readopen \/ killed[p]) /\ Return(p) /\ UNCHANGED <<pipe, asleep>>
      \/ /\ pipe[i].readopen /\ ~killed[p]
         /\ \/ /\ arg[p].n > room
               /\ pipe' = [pipe EXCEPT ![i] = Filled(pipe[i], room, arg[p].byte)]
               /\ arg' = [arg EXCEPT ![p].n = @ - room]
               /\ asleep' = [Woken("read", i) EXCEPT ![p] = TRUE]
               /\ UNCHANGED pc
            \/ \E k \in 0 .. Min({arg[p].n, room}) :
               /\ pipe' = [pipe EXCEPT ![i] = Filled(pipe[i], k, arg[p].byte)]
               /\ asleep' = Woken("read", i)
               /\ Return(p)
  BY <1>2, <1>4 DEF PipeWrite
<1>6. \A k \in 0 .. Min({arg[p].n, room}) : k \in Nat /\ k <= arg[p].n /\ k <= room
  BY <1>3, Smaller
<1>7. [arg EXCEPT ![p].n = @ - room] = [arg EXCEPT ![p].n = arg[p].n - room]
  OBVIOUS
<1>8. Writes(p, i, room)
  BY <1>5, <1>6, <1>7 DEF Writes
<1> QED BY <1>1, <1>2, <1>4, <1>8

\* piperead does one of those things (pipe.c:105-130).
LEMMA PipeReadDoes ==
  ASSUME IInv, NEW p \in Proc, PipeRead(p)
  PROVE  /\ pc[p] = "read" /\ ~asleep[p] /\ UNCHANGED <<ofile, file, todo, killed, panicked>>
         /\ Reads(p, arg[p].pipe)
<1>1. pc[p] = "read" /\ ~asleep[p] /\ UNCHANGED <<ofile, file, todo, killed, panicked>>
  BY DEF PipeRead, Runs
<1>2. PICK i \in Pipes : i = arg[p].pipe
  BY <1>1, InUse
<1>3. arg[p].n \in Int /\ Count(i) \in Int
  BY <1>1, <1>2, InUse, CountIs
<1>4. \A k \in 0 .. Min({arg[p].n, Count(i)}) : k \in Nat /\ k <= Count(i)
  BY <1>3, Smaller
<1>5. Reads(p, i)
  BY <1>2, <1>4 DEF PipeRead, Reads
<1> QED BY <1>1, <1>2, <1>5

\* pipewrite keeps the invariant: it moves bytes and no references.
LEMMA PipeWriteStep ==
  ASSUME IInv, NEW p \in Proc, PipeWrite(p)
  PROVE  IInv'
<1>0. Types /\ InCalls
  BY DEF IInv
<1>1. PICK i \in Pipes, room \in Int : i = arg[p].pipe /\ room = PIPESIZE - Count(i)
  BY PipeWriteDoes, InUse, CountIs, PipeConstants
<1>2. /\ pc[p] = "write" /\ UNCHANGED <<ofile, file, todo, killed, panicked>>
      /\ Writes(p, i, room)
  BY <1>1, PipeWriteDoes
<1>3. pipe[i] \in Page /\ arg[p].byte \in Bytes /\ arg[p].n \in Nat
  BY <1>0, <1>1, <1>2, InUse DEF InCalls, Call1
<1>4. CASE Return(p) /\ UNCHANGED <<pipe, asleep>>
  BY <1>0, <1>1, <1>2, <1>3, <1>4, MoveStep DEF Types
<1>5. CASE /\ arg[p].n > room
           /\ pipe' = [pipe EXCEPT ![i] = Filled(pipe[i], room, arg[p].byte)]
           /\ arg' = [arg EXCEPT ![p].n = arg[p].n - room]
           /\ asleep' = [Woken("read", i) EXCEPT ![p] = TRUE]
           /\ UNCHANGED pc
  <2>1. arg[p].n - room \in Nat
    BY <1>3, <1>5
  <2>2. asleep' \in [Proc -> BOOLEAN]
    BY <1>0, <1>5, WokenIs
  <2>3. PICK r \in Page : /\ r = Filled(pipe[i], room, arg[p].byte)
                          /\ r.readopen = pipe[i].readopen /\ r.writeopen = pipe[i].writeopen
    BY <1>1, <1>3, FilledPage
  <2> QED BY <2>1, <2>2, <2>3, <1>1, <1>2, <1>5, MoveStep
<1>6. ASSUME NEW k \in Nat, asleep' = Woken("read", i), Return(p),
             pipe' = [pipe EXCEPT ![i] = Filled(pipe[i], k, arg[p].byte)]
      PROVE  IInv'
  <2>1. asleep' \in [Proc -> BOOLEAN]
    BY <1>0, <1>6, WokenIs
  <2>2. PICK r \in Page : /\ r = Filled(pipe[i], k, arg[p].byte)
                          /\ r.readopen = pipe[i].readopen /\ r.writeopen = pipe[i].writeopen
    <3>1. k \in Int
      OBVIOUS
    <3> QED BY <3>1, <1>3, FilledPage
  <2> QED BY <2>1, <2>2, <1>1, <1>2, <1>6, MoveStep
<1> QED BY <1>2, <1>4, <1>5, <1>6 DEF Writes

\* piperead keeps it, too.
LEMMA PipeReadStep ==
  ASSUME IInv, NEW p \in Proc, PipeRead(p)
  PROVE  IInv'
<1>0. Types
  BY DEF IInv
<1>1. PICK i \in Pipes : i = arg[p].pipe
  BY PipeReadDoes, InUse
<1>2. pc[p] = "read" /\ UNCHANGED <<ofile, file, todo, killed, panicked>> /\ Reads(p, i)
  BY <1>1, PipeReadDoes
<1>3. pipe[i] \in Page
  BY <1>1, <1>2, InUse
<1>4. CASE Return(p) /\ UNCHANGED <<pipe, asleep>>
  BY <1>0, <1>1, <1>2, <1>3, <1>4, MoveStep DEF Types
<1>5. CASE asleep' = [asleep EXCEPT ![p] = TRUE] /\ UNCHANGED <<pipe, pc, arg>>
  <2>1. asleep' \in [Proc -> BOOLEAN]
    BY <1>0, <1>5 DEF Types
  <2> QED BY <2>1, <1>1, <1>2, <1>3, <1>5, MoveStep
<1>6. ASSUME NEW k \in Nat, asleep' = Woken("write", i), Return(p),
             pipe' = [pipe EXCEPT ![i] = Drained(pipe[i], k)]
      PROVE  IInv'
  <2>1. asleep' \in [Proc -> BOOLEAN]
    BY <1>0, <1>6, WokenIs
  <2>2. PICK r \in Page : /\ r = Drained(pipe[i], k)
                          /\ r.readopen = pipe[i].readopen /\ r.writeopen = pipe[i].writeopen
    BY <1>3, DrainedPage
  <2> QED BY <2>1, <2>2, <1>1, <1>2, <1>6, MoveStep
<1> QED BY <1>2, <1>4, <1>5, <1>6 DEF Reads

-----------------------------------------------------------------------------
(* Making, sharing and closing files. *)

\* References are a sum of two numbers; without references nobody has the file.
LEMMA Cards ==
  ASSUME NEW f \in Files, Counted(f)
  PROVE  /\ Cardinality(Fds(f)) \in Nat /\ Cardinality(InCall(f)) \in Nat
         /\ file[f].ref = 0 => Fds(f) = {} /\ InCall(f) = {}
<1>1. Cardinality(Fds(f)) \in Nat /\ Cardinality(InCall(f)) \in Nat
  BY FS_CardinalityType DEF Counted
<1>2. ASSUME file[f].ref = 0 PROVE Cardinality(Fds(f)) = 0 /\ Cardinality(InCall(f)) = 0
  BY <1>1, <1>2 DEF Counted
<1> QED BY <1>1, <1>2, FS_EmptySet DEF Counted

\* The only reference, in a call ...
LEMMA OnlyInCall ==
  ASSUME NEW f \in Files, Counted(f), file[f].ref <= 1, NEW p \in InCall(f)
  PROVE  file[f].ref = 1 /\ Fds(f) = {} /\ InCall(f) = {p}
<1>1. Cardinality(InCall(f)) # 0
  BY FS_EmptySet DEF Counted
<1>2. file[f].ref = 1 /\ Cardinality(InCall(f)) = 1 /\ Cardinality(Fds(f)) = 0
  BY <1>1, Cards DEF Counted
<1>3. PICK x : InCall(f) = {x}
  BY <1>2, FS_Singleton DEF Counted
<1> QED BY <1>2, <1>3, FS_EmptySet DEF Counted

\* ... or a descriptor.
LEMMA OnlyFd ==
  ASSUME NEW f \in Files, Counted(f), file[f].ref <= 1, NEW e \in Fds(f)
  PROVE  file[f].ref = 1 /\ Fds(f) = {e} /\ InCall(f) = {}
<1>1. Cardinality(Fds(f)) # 0
  BY FS_EmptySet DEF Counted
<1>2. file[f].ref = 1 /\ Cardinality(InCall(f)) = 0 /\ Cardinality(Fds(f)) = 1
  BY <1>1, Cards DEF Counted
<1>3. PICK x : Fds(f) = {x}
  BY <1>2, FS_Singleton DEF Counted
<1> QED BY <1>2, <1>3, FS_EmptySet DEF Counted

\* A descriptor is counted.
LEMMA HasFd ==
  ASSUME Types, NEW p \in Proc, NEW f \in Files, ofile[p][f] > 0
  PROVE  <<p, 1>> \in Fds(f)
<1>1. 1 \in 1 .. ofile[p][f]
  BY DEF Types
<1> QED BY <1>1, FdsAre

\* Who has a file has a reference: filedup and fileclose do not panic.
LEMMA RefAtLeast ==
  ASSUME NEW f \in Files, Counted(f), Fds(f) # {} \/ InCall(f) # {}
  PROVE  file[f].ref >= 1
<1>1. Cardinality(Fds(f)) # 0 \/ Cardinality(InCall(f)) # 0
  BY FS_EmptySet DEF Counted
<1> QED BY <1>1, Cards DEF Counted

\* Sequences of files, as sets.
LEMMA Appended ==
  ASSUME NEW s \in Seq(Files), NEW e \in Files
  PROVE  /\ Append(s, e) \in Seq(Files) /\ ToSet(Append(s, e)) = ToSet(s) \cup {e}
         /\ Len(Append(s, e)) = Len(s) + 1
<1>1. /\ Append(s, e) \in Seq(Files) /\ Len(Append(s, e)) = Len(s) + 1
      /\ DOMAIN Append(s, e) = 1 .. Len(s) + 1 /\ DOMAIN s = 1 .. Len(s) /\ Len(s) \in Nat
      /\ \A j \in 1 .. Len(s) : Append(s, e)[j] = s[j]
      /\ Append(s, e)[Len(s) + 1] = e
  OBVIOUS
<1>2. ASSUME NEW x \in ToSet(Append(s, e)) PROVE x \in ToSet(s) \cup {e}
  <2>1. PICK j \in 1 .. Len(s) + 1 : x = Append(s, e)[j]
    BY <1>1 DEF ToSet
  <2> QED BY <2>1, <1>1 DEF ToSet
<1>3. ASSUME NEW x \in ToSet(s) \cup {e} PROVE x \in ToSet(Append(s, e))
  <2>1. CASE x = e
    BY <2>1, <1>1 DEF ToSet
  <2>2. CASE x \in ToSet(s)
    <3>1. PICK j \in 1 .. Len(s) : x = s[j]
      BY <2>2, <1>1 DEF ToSet
    <3> QED BY <3>1, <1>1 DEF ToSet
  <2> QED BY <2>1, <2>2
<1> QED BY <1>1, <1>2, <1>3

\* fileclose takes the first of them, which is not among the others.
LEMMA Popped ==
  ASSUME NEW s \in Seq(Files), s # <<>>, NoRepeat(s)
  PROVE  /\ Tail(s) \in Seq(Files) /\ NoRepeat(Tail(s)) /\ Head(s) \in ToSet(s)
         /\ ToSet(Tail(s)) = ToSet(s) \ {Head(s)}
<1>1. /\ Tail(s) \in Seq(Files) /\ Len(Tail(s)) = Len(s) - 1
      /\ Len(s) \in Nat \ {0} /\ DOMAIN s = 1 .. Len(s) /\ DOMAIN Tail(s) = 1 .. Len(s) - 1
      /\ Head(s) = s[1]
      /\ \A j \in 1 .. Len(s) - 1 : Tail(s)[j] = s[j + 1]
  OBVIOUS
<1>2. NoRepeat(Tail(s))
  <2>1. ASSUME NEW j \in 1 .. Len(s) - 1, NEW k \in 1 .. Len(s) - 1, Tail(s)[j] = Tail(s)[k]
        PROVE  j = k
    <3>1. j + 1 \in DOMAIN s /\ k + 1 \in DOMAIN s /\ s[j + 1] = s[k + 1]
      BY <2>1, <1>1
    <3> QED BY <3>1 DEF NoRepeat
  <2> QED BY <2>1, <1>1 DEF NoRepeat
<1>3. ASSUME NEW x \in ToSet(Tail(s)) PROVE x \in ToSet(s) \ {Head(s)}
  <2>1. PICK j \in 1 .. Len(s) - 1 : x = s[j + 1]
    BY <1>1 DEF ToSet
  <2>2. j + 1 \in DOMAIN s /\ 1 \in DOMAIN s /\ j + 1 # 1
    BY <1>1
  <2> QED BY <2>1, <2>2, <1>1 DEF ToSet, NoRepeat
<1>4. ASSUME NEW x \in ToSet(s) \ {Head(s)} PROVE x \in ToSet(Tail(s))
  <2>1. PICK j \in 1 .. Len(s) : x = s[j]
    BY <1>1 DEF ToSet
  <2>2. j - 1 \in 1 .. Len(s) - 1 /\ Tail(s)[j - 1] = s[j]
    <3>1. j # 1
      BY <2>1, <1>1, <1>4
    <3>2. j - 1 \in 1 .. Len(s) - 1
      BY <3>1, <1>1
    <3> QED BY <3>2, <1>1
  <2> QED BY <2>1, <2>2, <1>1 DEF ToSet
<1>5. Head(s) \in ToSet(s)
  BY <1>1 DEF ToSet
<1> QED BY <1>1, <1>2, <1>3, <1>4, <1>5

\* What keeps Opened, put in terms of ends.
LEMMA EndsSame ==
  ASSUME Opened, SamePages, \A p \in Proc : HasEnd(p)',
         \A i \in Pipes, w \in BOOLEAN :
            Ends(i, w)' = Ends(i, w) /\ Closing(i, w)' = Closing(i, w)
  PROVE  Opened'
<1>1. ASSUME NEW i \in Pipes, NEW w \in BOOLEAN PROVE Ended(i, w)'
  BY SameOpen, SameEnded DEF Opened
<1>2. ASSUME NEW i \in Pipes, pipe'[i] # NoPage PROVE Open(i, TRUE)' \/ Open(i, FALSE)'
  BY <1>2, SameOpen DEF Opened, SamePages
<1> QED BY <1>1, <1>2 DEF Opened

\* The first of some entries is one of them.
LEMMA Least ==
  ASSUME NEW T \in SUBSET Nat, T # {}
  PROVE  Min(T) \in T
<1>1. PICK x \in T : \A y \in T : <<y, x>> \notin OpToRel(<, Nat)
  BY WFMin, NatLessThanWellFounded
<1>2. ASSUME NEW y \in T PROVE x <= y
  <2>1. ~(y < x)
    BY <1>1 DEF OpToRel
  <2> QED BY <2>1
<1> QED BY <1>2 DEF Min

\* filealloc finds an entry without references.
LEMMA Allocated ==
  ASSUME FileAlloc # 0
  PROVE  FileAlloc \in Files /\ file[FileAlloc].ref = 0
<1> DEFINE T == {f \in Files : file[f].ref = 0}
<1>1. T # {} /\ FileAlloc = Min(T)
  BY DEF FileAlloc
<1>2. T \in SUBSET Nat
  BY DEF Files
<1>3. Min(T) \in T
  BY <1>1, <1>2, Least
<1> QED BY <1>1, <1>3

\* sys_pipe takes an entry that nobody has, or gives up (file.c:28-44).
LEMMA TakeFileStep ==
  ASSUME IInv, NEW p \in Proc, TakeFile(p),
         pc[p] = "user" \/ (pc[p] = "alloc" /\ Len(todo[p]) = 1)
  PROVE  IInv'
<1>0. Types /\ InCalls /\ Referenced /\ Opened
  BY DEF IInv
<1>1. arg[p] = NoCall /\ (pc[p] = "user" => todo[p] = <<>>) /\ todo[p] \in Seq(Files)
      /\ NoRepeat(todo[p])
  BY <1>0 DEF InCalls, Call1, Types
<1>2. UNCHANGED <<ofile, pipe, arg, asleep, killed, panicked>>
  BY DEF TakeFile
<1>3. CASE FileAlloc = 0
  <2>1. pc' = [pc EXCEPT ![p] = "close"] /\ UNCHANGED <<file, todo>>
    BY <1>3 DEF TakeFile, At
  <2>2. pc'[p] = "close" /\ \A q \in Proc \ {p} : pc'[q] = pc[q]
    BY <2>1, <1>0 DEF Types
  <2>3. Types'
    BY <2>1, <1>0, <1>2 DEF Types
  <2>4. Call1(p)'
    BY <2>1, <2>2, <1>0, <1>1, <1>2, CallKinds DEF InCalls, Call1
  <2>5. HasEnd(p)' /\ ~IsClosing(p) /\ ~IsClosing(p)'
    BY <2>2, <1>1, <1>2 DEF HasEnd, IsClosing
  <2>6. SamePages
    BY <1>2 DEF SamePages
  <2> QED BY <2>1, <2>2, <2>3, <2>4, <2>5, <2>6, <1>2, CallStep
<1>4. CASE FileAlloc # 0
  <2>1. PICK e \in Files : e = FileAlloc /\ file[e].ref = 0
    BY <1>4, Allocated
  <2>2. /\ file' = [file EXCEPT ![e].ref = 1]
        /\ todo' = [todo EXCEPT ![p] = Append(todo[p], e)]
        /\ pc' = [pc EXCEPT ![p] = "alloc"]
    BY <2>1, <1>4 DEF TakeFile, At
  <2>3. /\ pc'[p] = "alloc" /\ todo'[p] = Append(todo[p], e)
        /\ \A q \in Proc \ {p} : pc'[q] = pc[q] /\ todo'[q] = todo[q]
    BY <2>2, <1>0 DEF Types
  <2>4. /\ file[e] = Unused /\ file'[e] = [Unused EXCEPT !.ref = 1]
        /\ \A f \in Files \ {e} : file'[f] = file[f]
    BY <2>1, <2>2, <1>0 DEF Types, Referenced, Sound
  <2>5. file'[e].ref = 1 /\ file'[e].type = "NONE" /\ file'[e].pipe = 0
        /\ file'[e].writable = FALSE /\ file'[e] \in File
    <3>1. file'[e] = [ref |-> 1, type |-> "NONE", pipe |-> 0, writable |-> FALSE]
      BY <2>4 DEF Unused
    <3> QED BY <3>1 DEF File
  <2>6. Fds(e) = {} /\ InCall(e) = {}
    BY <2>1, <1>0, Cards DEF Referenced
  <2>7. ToSet(todo'[p]) = ToSet(todo[p]) \cup {e} /\ todo'[p] \in Seq(Files)
        /\ Len(todo'[p]) = Len(todo[p]) + 1
    BY <2>3, <1>1, Appended
  <2>8. e \notin ToSet(todo[p])
    BY <2>6 DEF InCall
  <2>9. Types'
    <3>1. file' \in [Files -> File]
      BY <2>2, <2>4, <2>5, <1>0 DEF Types
    <3>2. todo' \in [Proc -> Seq(Files)]
      BY <2>2, <2>3, <2>7, <1>0 DEF Types
    <3> QED BY <3>1, <3>2, <2>2, <1>0, <1>2 DEF Types
  <2>10. NoRepeat(todo'[p])
    <3>1. \A j \in DOMAIN todo[p] : todo[p][j] # e
      BY <2>8 DEF ToSet
    <3> QED BY <3>1, <2>3, <1>1 DEF NoRepeat
  <2>11. Call1(p)'
    <3>1. Len(todo[p]) \in 0 .. 1
      BY <1>1
    <3>2. PICK l \in 0 .. 1 : Len(todo'[p]) = l + 1
      BY <3>1, <2>7
    <3>3. Len(todo'[p]) \in 1 .. 2
      BY <3>2
    <3> QED BY <3>3, <2>3, <2>10, <1>1, <1>2, CallKinds DEF Call1
  <2>12. InCalls'
    BY <2>3, <2>11, <1>0, <1>2, SameCall DEF InCalls
  <2>13. ASSUME NEW f \in Files PROVE Counted(f)' /\ Sound(f)'
    <3>1. Fds(f)' = Fds(f)
      BY <1>2, SameFds
    <3>2. InCall(f)' = IF f = e THEN {p} ELSE InCall(f)
      <4>1. \A q \in Proc : q \in InCall(f)' <=> f \in ToSet(todo'[q])
        BY DEF InCall
      <4>2. \A q \in Proc : q \in InCall(f) <=> f \in ToSet(todo[q])
        BY DEF InCall
      <4>3. \A q \in Proc : f \in ToSet(todo'[q]) <=>
                  f \in ToSet(todo[q]) \/ (q = p /\ f = e)
        BY <2>3, <2>7
      <4>4. InCall(f) \subseteq Proc /\ InCall(f)' \subseteq Proc
        BY DEF InCall
      <4> QED BY <4>1, <4>2, <4>3, <4>4, <2>6
    <3>3. CASE f = e
      <4>1. Counted(f)'
        <5>1. IsFiniteSet({p}) /\ Cardinality({p}) = 1
          BY FS_Singleton
        <5>2. IsFiniteSet(Fds(f)') /\ Cardinality(Fds(f)') = 0
          BY <3>1, <3>3, <2>6, FS_EmptySet
        <5>3. IsFiniteSet(InCall(f)') /\ Cardinality(InCall(f)') = 1
          BY <5>1, <3>2, <3>3
        <5>4. file'[f].ref = 1
          BY <3>3, <2>5
        <5> QED BY <5>2, <5>3, <5>4 DEF Counted
      <4>2. \A q \in Proc : ~(ofile'[q][f] > 0)
        BY <3>3, <2>6, <1>0, <1>2, HasFd
      <4> QED BY <4>1, <4>2, <3>3, <2>5 DEF Sound
    <3>4. CASE f # e
      <4>1. file'[f] = file[f] /\ InCall(f)' = InCall(f)
        BY <3>2, <3>4, <2>4
      <4>2. Counted(f)'
        BY <4>1, <3>1, <1>0, SameCounted DEF Referenced
      <4>3. p \in InCall(f) => pc[p] = "alloc"
        BY <1>1 DEF InCall, ToSet
      <4> QED BY <4>1, <4>2, <4>3, <2>3, <1>0, <1>2 DEF Referenced, Sound
    <3> QED BY <3>3, <3>4
  <2>14. \A f \in Files : /\ file'[f].type = file[f].type
                          /\ file'[f].pipe = file[f].pipe
                          /\ file'[f].writable = file[f].writable
    BY <2>4, <2>5 DEF Unused
  <2>15. \A q \in Proc : HasEnd(q)'
    <3>1. HasEnd(p)'
      BY <2>3 DEF HasEnd
    <3>2. \A q \in Proc \ {p} : HasEnd(q)'
      BY <2>3, <2>14, <1>0, <1>2, SameEnd DEF Opened
    <3> QED BY <3>1, <3>2
  <2>16. \A q \in Proc : (IsClosing(q)' <=> IsClosing(q)) /\ arg'[q] = arg[q]
    BY <2>3, <1>1, <1>2 DEF IsClosing
  <2>17. SamePages
    BY <1>2 DEF SamePages
  <2>18. Opened'
    BY <2>14, <2>15, <2>16, <2>17, <1>0, SameOpened
  <2> QED BY <2>9, <2>12, <2>13, <2>18 DEF IInv, Referenced
<1> QED BY <1>3, <1>4

\* dup: one descriptor and one reference more.
LEMMA SysDupStep ==
  ASSUME IInv, NEW p \in Proc, NEW f \in Files, SysDup(p, f)
  PROVE  IInv'
<1>0. Types /\ InCalls /\ Referenced /\ Opened
  BY DEF IInv
<1>1. /\ pc[p] = "user" /\ ofile[p][f] > 0
      /\ panicked' = (file[f].ref < 1)
      /\ ofile' = [ofile EXCEPT ![p][f] = @ + 1]
      /\ file' = [file EXCEPT ![f].ref = @ + 1]
      /\ UNCHANGED <<pipe, pc, arg, todo, asleep, killed>>
  BY DEF SysDup, Runs
<1>2. /\ ofile'[p][f] = ofile[p][f] + 1 /\ ofile' \in [Proc -> [Files -> Nat]]
      /\ \A q \in Proc, g \in Files : q # p \/ g # f => ofile'[q][g] = ofile[q][g]
      /\ \A q \in Proc \ {p} : ofile'[q] = ofile[q]
  BY <1>0, <1>1 DEF Types
<1>3. /\ file'[f] = [file[f] EXCEPT !.ref = file[f].ref + 1]
      /\ \A g \in Files \ {f} : file'[g] = file[g]
  BY <1>0, <1>1 DEF Types
<1>4. file[f] \in File /\ file'[f] \in File /\ file'[f].ref = file[f].ref + 1
      /\ file'[f].type = file[f].type /\ file'[f].pipe = file[f].pipe
      /\ file'[f].writable = file[f].writable
  <2>1. file[f] \in File
    BY <1>0 DEF Types
  <2>2. file'[f] = [ref |-> file[f].ref + 1, type |-> file[f].type, pipe |-> file[f].pipe,
                    writable |-> file[f].writable]
    BY <2>1, <1>3 DEF File
  <2> QED BY <2>1, <2>2 DEF File
<1>5. file[f].type = "PIPE" /\ file[f].ref >= 1
  BY <1>0, <1>1, HasFd, RefAtLeast DEF Referenced, Sound
<1>6. Types'
  <2>1. panicked' = FALSE
    <3>1. file[f].ref \in Nat
      BY <1>4 DEF File
    <3>2. ~(file[f].ref < 1)
      BY <3>1, <1>5
    <3>3. (file[f].ref < 1) = FALSE
      BY <3>2
    <3> QED BY <3>3, <1>1
  <2>2. file' \in [Files -> File]
    BY <1>0, <1>1, <1>3, <1>4 DEF Types
  <2> QED BY <2>1, <2>2, <1>0, <1>1, <1>2 DEF Types
<1>7. InCalls'
  BY <1>0, <1>1, <1>2, SameCall DEF InCalls
<1>8. ASSUME NEW g \in Files PROVE Counted(g)' /\ Sound(g)'
  <2>1. InCall(g)' = InCall(g)
    BY <1>1, SameInCall
  <2>2. CASE g = f
    <3>1. PICK e : e \notin Fds(f) /\ Fds(f)' = Fds(f) \cup {e}
      BY <1>0, <1>2, FdsAdded DEF Types
    <3>2. IsFiniteSet(Fds(f)') /\ Cardinality(Fds(f)') = Cardinality(Fds(f)) + 1
      BY <3>1, <1>0, FS_AddElement DEF Referenced, Counted
    <3>3. Counted(f)'
      BY <3>2, <2>1, <2>2, <1>0, <1>4, Cards DEF Referenced, Counted
    <3>4. Sound(f)'
      BY <2>1, <2>2, <1>0, <1>1, <1>4, <1>5 DEF Referenced, Sound, File
    <3> QED BY <3>3, <3>4, <2>2
  <2>3. CASE g # f
    <3>1. Fds(g)' = Fds(g)
      BY <2>3, <1>2, SameFds
    <3>2. Counted(g)'
      BY <3>1, <2>1, <2>3, <1>0, <1>3, SameCounted DEF Referenced
    <3> QED BY <3>2, <2>1, <2>3, <1>0, <1>1, <1>2, <1>3 DEF Referenced, Sound
  <2> QED BY <2>2, <2>3
<1>9. \A q \in Proc : HasEnd(q)'
  <2>1. HasEnd(p)'
    BY <1>1 DEF HasEnd
  <2> QED BY <2>1, <1>0, <1>1, <1>2, <1>3, <1>4, SameEnd DEF Opened
<1>10. Opened'
  <2>1. SamePages
    BY <1>1 DEF SamePages
  <2>2. \A q \in Proc : (IsClosing(q)' <=> IsClosing(q)) /\ arg'[q] = arg[q]
    BY <1>1 DEF IsClosing
  <2> QED BY <2>1, <2>2, <1>0, <1>3, <1>4, <1>9, SameOpened
<1> QED BY <1>6, <1>7, <1>8, <1>10 DEF IInv, Referenced

\* close: a reference goes from the descriptor to the call.
LEMMA SysCloseStep ==
  ASSUME IInv, NEW p \in Proc, NEW f \in Files, SysClose(p, f)
  PROVE  IInv'
<1>0. Types /\ InCalls /\ Referenced /\ Opened
  BY DEF IInv
<1>1. /\ pc[p] = "user" /\ ofile[p][f] > 0
      /\ ofile' = [ofile EXCEPT ![p][f] = @ - 1]
      /\ todo' = [todo EXCEPT ![p] = <<f>>]
      /\ pc' = [pc EXCEPT ![p] = "close"]
      /\ UNCHANGED <<file, pipe, arg, asleep, killed, panicked>>
  BY DEF SysClose, Runs, At
<1>2. /\ ofile'[p][f] = ofile[p][f] - 1 /\ ofile' \in [Proc -> [Files -> Nat]]
      /\ \A q \in Proc, g \in Files : q # p \/ g # f => ofile'[q][g] = ofile[q][g]
      /\ \A q \in Proc \ {p} : ofile'[q] = ofile[q]
  BY <1>0, <1>1 DEF Types
<1>3. /\ todo'[p] = <<f>> /\ pc'[p] = "close"
      /\ \A q \in Proc \ {p} : todo'[q] = todo[q] /\ pc'[q] = pc[q]
  BY <1>0, <1>1 DEF Types
<1>4. arg[p] = NoCall /\ todo[p] = <<>>
  BY <1>0, <1>1 DEF InCalls, Call1, Types
<1>5. Types'
  <2>1. <<f>> \in Seq(Files)
    OBVIOUS
  <2> QED BY <2>1, <1>0, <1>1, <1>2 DEF Types
<1>6. ToSet(todo[p]) = {} /\ ToSet(todo'[p]) = {f} /\ NoRepeat(todo'[p])
  BY <1>3, <1>4 DEF ToSet, NoRepeat
<1>7. InCalls'
  <2>1. Call1(p)'
    BY <1>1, <1>3, <1>4, <1>6, CallKinds DEF Call1
  <2> QED BY <2>1, <1>0, <1>1, <1>2, <1>3, SameCall DEF InCalls
<1>8. ASSUME NEW g \in Files PROVE Counted(g)' /\ Sound(g)'
  <2>1. InCall(g)' = (IF g = f THEN InCall(g) \cup {p} ELSE InCall(g)) /\ p \notin InCall(g)
    BY <1>3, <1>6 DEF InCall
  <2>2. CASE g = f
    <3>1. PICK e : e \in Fds(f) /\ Fds(f)' = Fds(f) \ {e}
      BY <1>0, <1>1, <1>2, FdsDropped DEF Types
    <3>2. IsFiniteSet(Fds(f)') /\ Cardinality(Fds(f)') = Cardinality(Fds(f)) - 1
      BY <3>1, <1>0, FS_RemoveElement DEF Referenced, Counted
    <3>3. IsFiniteSet(InCall(f)') /\ Cardinality(InCall(f)') = Cardinality(InCall(f)) + 1
      BY <2>1, <2>2, <1>0, FS_AddElement DEF Referenced, Counted
    <3>4. Counted(f)'
      BY <3>2, <3>3, <1>0, <1>1, Cards DEF Referenced, Counted
    <3>5. file[f].type = "PIPE"
      BY <1>0, <1>1 DEF Referenced, Sound
    <3>6. Sound(f)'
      <4>1. \A q \in Proc : pc'[q] = "alloc" /\ q \in InCall(f)' =>
                pc[q] = "alloc" /\ q \in InCall(f)
        BY <2>1, <2>2, <1>3
      <4> QED BY <4>1, <3>5, <1>0, <1>1 DEF Referenced, Sound
    <3> QED BY <3>4, <3>6, <2>2
  <2>3. CASE g # f
    <3>1. Fds(g)' = Fds(g)
      BY <2>3, <1>2, SameFds
    <3>2. Counted(g)'
      BY <3>1, <2>1, <2>3, <1>0, <1>1, SameCounted DEF Referenced
    <3> QED BY <3>2, <2>1, <2>3, <1>0, <1>1, <1>2, <1>3 DEF Referenced, Sound
  <2> QED BY <2>2, <2>3
<1>9. \A q \in Proc : HasEnd(q)'
  <2>1. HasEnd(p)'
    BY <1>3 DEF HasEnd
  <2>2. \A q \in Proc \ {p} : HasEnd(q)'
    BY <1>0, <1>1, <1>2, <1>3, SameEnd DEF Opened
  <2> QED BY <2>1, <2>2
<1>10. Opened'
  <2>1. SamePages
    BY <1>1 DEF SamePages
  <2>2. \A q \in Proc : (IsClosing(q)' <=> IsClosing(q)) /\ arg'[q] = arg[q]
    BY <1>1, <1>3, <1>4 DEF IsClosing
  <2> QED BY <2>1, <2>2, <1>0, <1>1, <1>9, SameOpened
<1> QED BY <1>5, <1>7, <1>8, <1>10 DEF IInv, Referenced

\* A table that takes n descriptors for f.
LEMMA FdsCopied ==
  ASSUME NEW f \in Files, NEW q \in Proc, NEW n \in Nat, ofile[q][f] = 0,
         ofile'[q][f] = n, \A p \in Proc \ {q} : ofile'[p][f] = ofile[p][f],
         IsFiniteSet(Fds(f))
  PROVE  /\ IsFiniteSet(Fds(f)') /\ Cardinality(Fds(f)') = Cardinality(Fds(f)) + n
         /\ n > 0 => Fds(f)' # {}
<1> DEFINE T == {q} \X (1 .. n)
<1>1. ASSUME NEW d PROVE d \in Fds(f)' <=> d \in Fds(f) \cup T
  <2>1. d \in Fds(f)' <=> \E p \in Proc : \E k \in 1 .. ofile'[p][f] : d = <<p, k>>
    BY DEF Fds
  <2>2. d \in Fds(f) <=> \E p \in Proc : \E k \in 1 .. ofile[p][f] : d = <<p, k>>
    BY FdsAre
  <2>3. d \in T <=> \E k \in 1 .. n : d = <<q, k>>
    OBVIOUS
  <2>4. ASSUME d \in Fds(f)' PROVE d \in Fds(f) \cup T
    <3>1. PICK p \in Proc : \E k \in 1 .. ofile'[p][f] : d = <<p, k>>
      BY <2>1, <2>4
    <3> QED BY <3>1, <2>2, <2>3
  <2>5. ASSUME d \in Fds(f) PROVE d \in Fds(f)'
    <3>1. PICK p \in Proc : \E k \in 1 .. ofile[p][f] : d = <<p, k>>
      BY <2>2, <2>5
    <3>2. p # q
      BY <3>1
    <3> QED BY <3>1, <3>2, <2>1
  <2>6. ASSUME d \in T PROVE d \in Fds(f)'
    BY <2>1, <2>3, <2>6
  <2> QED BY <2>4, <2>5, <2>6
<1>2. Fds(f)' = Fds(f) \cup T
  BY <1>1
<1>3. Fds(f) \cap T = {}
  <2> SUFFICES ASSUME NEW d \in Fds(f), d \in T PROVE FALSE
    OBVIOUS
  <2>1. PICK p \in Proc : \E k \in 1 .. ofile[p][f] : d = <<p, k>>
    BY FdsAre
  <2> QED BY <2>1
<1>4. IsFiniteSet({q}) /\ Cardinality({q}) = 1
  BY FS_Singleton
<1>5. IsFiniteSet(1 .. n) /\ Cardinality(1 .. n) = n
  BY FS_Interval
<1>6. IsFiniteSet(T) /\ Cardinality(T) = n
  <2>1. IsFiniteSet(T) /\ Cardinality(T) = Cardinality({q}) * Cardinality(1 .. n)
    BY <1>4, <1>5, FS_Product
  <2>2. Cardinality({q}) * Cardinality(1 .. n) = 1 * n
    BY <1>4, <1>5
  <2> QED BY <2>1, <2>2
<1>7. Cardinality(Fds(f)) \in Nat /\ Cardinality({}) = 0
  BY FS_CardinalityType, FS_EmptySet
<1> HIDE DEF T
<1>8. /\ IsFiniteSet(Fds(f) \cup T)
      /\ Cardinality(Fds(f) \cup T)
           = Cardinality(Fds(f)) + Cardinality(T) - Cardinality(Fds(f) \cap T)
  BY <1>6, FS_Union
<1>9. Cardinality(Fds(f) \cup T) = Cardinality(Fds(f)) + n
  <2>1. Cardinality(Fds(f) \cap T) = 0
    BY <1>3, <1>7
  <2> QED BY <2>1, <1>6, <1>7, <1>8
<1>10. n > 0 => <<q, 1>> \in T
  BY DEF T
<1> QED BY <1>2, <1>8, <1>9, <1>10

\* fork: a reference more for every descriptor of the parent.
LEMMA ForkStep ==
  ASSUME IInv, NEW p \in Proc, NEW q \in Proc, Fork(p, q)
  PROVE  IInv'
<1>0. Types /\ InCalls /\ Referenced /\ Opened
  BY DEF IInv
<1>1. /\ pc[p] = "user" /\ pc[q] = "unused"
      /\ panicked' = (\E f \in Files : ofile[p][f] > 0 /\ file[f].ref < 1)
      /\ file' = [f \in Files |-> [file[f] EXCEPT !.ref = file[f].ref + ofile[p][f]]]
      /\ ofile' = [ofile EXCEPT ![q] = ofile[p]]
      /\ pc' = [pc EXCEPT ![q] = "user"]
      /\ UNCHANGED <<pipe, arg, todo, asleep, killed>>
  BY DEF Fork, Runs, At
<1>2. /\ ofile' \in [Proc -> [Files -> Nat]] /\ ofile'[q] = ofile[p]
      /\ \A r \in Proc \ {q} : ofile'[r] = ofile[r]
  BY <1>0, <1>1 DEF Types
<1>3. pc'[q] = "user" /\ \A r \in Proc \ {q} : pc'[r] = pc[r]
  BY <1>0, <1>1 DEF Types
<1>4. ASSUME NEW f \in Files
      PROVE  /\ file[f] \in File /\ file'[f] \in File
             /\ file'[f].ref = file[f].ref + ofile[p][f]
             /\ file'[f].type = file[f].type /\ file'[f].pipe = file[f].pipe
             /\ file'[f].writable = file[f].writable
  <2>1. file[f] \in File /\ ofile[p][f] \in Nat
    BY <1>0 DEF Types
  <2>2. file'[f] = [file[f] EXCEPT !.ref = file[f].ref + ofile[p][f]]
    BY <1>1
  <2>3. file'[f] = [ref |-> file[f].ref + ofile[p][f], type |-> file[f].type,
                    pipe |-> file[f].pipe, writable |-> file[f].writable]
    BY <2>1, <2>2 DEF File
  <2> QED BY <2>1, <2>3 DEF File
<1>5. ASSUME NEW f \in Files, ofile[p][f] > 0
      PROVE  file[f].type = "PIPE" /\ file[f].ref >= 1
  BY <1>0, <1>5, HasFd, RefAtLeast DEF Referenced, Sound
<1>6. Types'
  <2>1. panicked' = FALSE
    <3>1. ASSUME NEW f \in Files, ofile[p][f] > 0 PROVE ~(file[f].ref < 1)
      <4>1. file[f].ref \in Nat
        BY <1>4 DEF File
      <4> QED BY <4>1, <3>1, <1>5
    <3>2. (\E f \in Files : ofile[p][f] > 0 /\ file[f].ref < 1) = FALSE
      BY <3>1
    <3> QED BY <3>2, <1>1
  <2>2. file' \in [Files -> File]
    BY <1>1, <1>4
  <2> QED BY <2>1, <2>2, <1>0, <1>1, <1>2 DEF Types
<1>7. todo[q] = <<>> /\ arg[q] = NoCall /\ \A f \in Files : ofile[q][f] = 0
  BY <1>0, <1>1 DEF InCalls, Call1, Types
<1>8. InCalls'
  <2>1. Call1(q)'
    BY <1>0, <1>1, <1>3, <1>7, CallKinds DEF InCalls, Call1
  <2> QED BY <2>1, <1>0, <1>1, <1>2, <1>3, SameCall DEF InCalls
<1>9. ASSUME NEW f \in Files PROVE Counted(f)' /\ Sound(f)'
  <2>1. InCall(f)' = InCall(f)
    BY <1>1, SameInCall
  <2>2. PICK n \in Nat : n = ofile[p][f]
    BY <1>0 DEF Types
  <2>3. IsFiniteSet(Fds(f)') /\ Cardinality(Fds(f)') = Cardinality(Fds(f)) + n
    BY <2>2, <1>0, <1>2, <1>7, FdsCopied DEF Referenced, Counted
  <2>4. Counted(f)'
    BY <2>1, <2>2, <2>3, <1>0, <1>4, Cards DEF Referenced, Counted
  <2>5. \A r \in Proc : ofile'[r][f] > 0 => file[f].type = "PIPE"
    BY <1>0, <1>2 DEF Referenced, Sound
  <2>6. \A r \in Proc : pc'[r] = "alloc" /\ r \in InCall(f)' => file[f].type = "NONE"
    BY <2>1, <1>0, <1>3 DEF Referenced, Sound
  <2>7. CASE n = 0
    <3>1. file'[f] = file[f]
      <4>1. file'[f].ref = file[f].ref
        <5>1. file'[f].ref = file[f].ref + n /\ file[f].ref \in Nat
          BY <2>2, <1>4 DEF File
        <5> QED BY <5>1, <2>7
      <4> QED BY <4>1, <1>4 DEF File
    <3> QED BY <3>1, <2>4, <2>5, <2>6, <1>0 DEF Referenced, Sound
  <2>8. CASE n > 0
    <3>1. file'[f].ref # 0 /\ file'[f].type = "PIPE" /\ file'[f].pipe \in Pipes
      BY <2>2, <2>8, <1>0, <1>4, <1>5 DEF Referenced, Sound, File
    <3> QED BY <3>1, <2>4, <2>5, <2>6, <1>4 DEF Sound
  <2> QED BY <2>7, <2>8
<1>10. \A r \in Proc : HasEnd(r)'
  <2>1. HasEnd(q)'
    BY <1>3 DEF HasEnd
  <2>2. ASSUME NEW r \in Proc \ {q} PROVE HasEnd(r)'
    BY <1>0, <1>1, <1>2, <1>3, <1>4, SameEnd DEF Opened
  <2> QED BY <2>1, <2>2
<1>11. Opened'
  <2>1. SamePages
    BY <1>1 DEF SamePages
  <2>2. \A r \in Proc : (IsClosing(r)' <=> IsClosing(r)) /\ arg'[r] = arg[r]
    BY <1>1, <1>3 DEF IsClosing
  <2> QED BY <2>1, <2>2, <1>0, <1>4, <1>10, SameOpened
<1> QED BY <1>6, <1>8, <1>9, <1>11 DEF IInv, Referenced

\* fileclose: one reference less.  The last one frees the entry, and leaves
\* the end of its pipe to the process.
LEMMA FileCloseStep ==
  ASSUME IInv, NEW p \in Proc, NEW f \in Files, FileClose(p, f)
  PROVE  IInv'
<1>0. Types /\ InCalls /\ Referenced /\ Opened
  BY DEF IInv
<1> DEFINE last == file[f].ref = 1
           left == [file[f] EXCEPT !.ref = file[f].ref - 1]
           c == [n |-> 0, pipe |-> file[f].pipe, writable |-> file[f].writable]
           ByCall == /\ pc[p] = "close" /\ todo[p] # <<>> /\ f = Head(todo[p])
                     /\ todo' = [todo EXCEPT ![p] = Tail(todo[p])] /\ UNCHANGED ofile
           ByExit == /\ pc[p] = "exit" /\ ofile[p][f] > 0
                     /\ ofile' = [ofile EXCEPT ![p][f] = ofile[p][f] - 1] /\ UNCHANGED todo
<1>1. /\ arg[p] = NoCall /\ (ByCall \/ ByExit)
      /\ panicked' = (file[f].ref < 1)
      /\ file' = [file EXCEPT ![f] = IF last THEN Unused ELSE left]
      /\ arg' = IF last /\ file[f].type = "PIPE" THEN [arg EXCEPT ![p] = c] ELSE arg
      /\ UNCHANGED <<pipe, pc, asleep, killed>>
  BY DEF FileClose
<1>2. /\ file[f] \in File /\ file[f].ref \in Nat /\ Counted(f) /\ Sound(f)
      /\ file[f].writable \in BOOLEAN
  BY <1>0 DEF Types, Referenced, File
<1>3. pc[p] \in {"close", "exit"}
  BY <1>1
\* What the two ways of closing have in common.
<1>4. /\ ofile' \in [Proc -> [Files -> Nat]] /\ todo' \in [Proc -> Seq(Files)]
      /\ \A q \in Proc \ {p} : ofile'[q] = ofile[q] /\ todo'[q] = todo[q]
      /\ todo'[p] # <<>> => pc[p] = "close"
      /\ NoRepeat(todo'[p])
      /\ \A g \in Files \ {f} : Fds(g)' = Fds(g) /\ InCall(g)' = InCall(g)
      /\ \A q \in Proc : ofile'[q][f] > 0 => ofile[q][f] > 0
      /\ InCall(f)' \subseteq InCall(f)
      /\ IsFiniteSet(Fds(f)') /\ IsFiniteSet(InCall(f)')
      /\ file[f].ref - 1 = Cardinality(Fds(f)') + Cardinality(InCall(f)')
      /\ file[f].ref >= 1
      /\ last => \A q \in Proc \ {p} : ~(ofile[q][f] > 0)
  <2>0. Call1(p) /\ todo[p] \in Seq(Files) /\ NoRepeat(todo[p]) /\ IsFiniteSet(Fds(f))
        /\ IsFiniteSet(InCall(f)) /\ file[f].ref = Cardinality(Fds(f)) + Cardinality(InCall(f))
        /\ Cardinality(Fds(f)) \in Nat /\ Cardinality(InCall(f)) \in Nat
    BY <1>0, <1>2, Cards DEF InCalls, Types, Call1, Counted
  <2>1. CASE ByCall
    <3>1. /\ Tail(todo[p]) \in Seq(Files) /\ NoRepeat(Tail(todo[p])) /\ f \in ToSet(todo[p])
          /\ ToSet(Tail(todo[p])) = ToSet(todo[p]) \ {f}
      BY <2>0, <2>1, Popped
    <3>2. /\ todo'[p] = Tail(todo[p]) /\ todo' \in [Proc -> Seq(Files)]
          /\ \A q \in Proc \ {p} : todo'[q] = todo[q]
      BY <2>1, <3>1, <1>0 DEF Types
    <3>3. ASSUME NEW g \in Files
          PROVE  InCall(g)' = IF g = f THEN InCall(g) \ {p} ELSE InCall(g)
      <4>1. \A q \in Proc : q \in InCall(g)' <=> g \in ToSet(todo'[q])
        BY DEF InCall
      <4>2. \A q \in Proc : q \in InCall(g) <=> g \in ToSet(todo[q])
        BY DEF InCall
      <4>3. \A q \in Proc : g \in ToSet(todo'[q]) <=>
                  g \in ToSet(todo[q]) /\ ~(q = p /\ g = f)
        BY <3>1, <3>2
      <4>4. InCall(g) \subseteq Proc /\ InCall(g)' \subseteq Proc
        BY DEF InCall
      <4> QED BY <4>1, <4>2, <4>3, <4>4
    <3>4. p \in InCall(f)
      BY <3>1 DEF InCall
    <3>5. IsFiniteSet(InCall(f)') /\ Cardinality(InCall(f)') = Cardinality(InCall(f)) - 1
      BY <3>3, <3>4, <2>0, FS_RemoveElement
    <3>6. \A g \in Files : Fds(g)' = Fds(g)
      BY <2>1, SameFds
    <3>7. last => Fds(f) = {}
      BY <3>4, <1>2, OnlyInCall
    <3>8. last => \A q \in Proc \ {p} : ~(ofile[q][f] > 0)
      BY <3>7, <1>0, HasFd
    <3>9. file[f].ref >= 1
      BY <3>4, <1>2, RefAtLeast
    <3>10. file[f].ref - 1 = Cardinality(Fds(f)') + Cardinality(InCall(f)')
      BY <3>5, <3>6, <2>0
    <3>11. ofile' \in [Proc -> [Files -> Nat]] /\ IsFiniteSet(Fds(f)')
      BY <3>6, <2>0, <2>1, <1>0 DEF Types
    <3> QED BY <3>1, <3>2, <3>3, <3>5, <3>6, <3>8, <3>9, <3>10, <3>11, <2>1
  <2>2. CASE ByExit
    <3>1. /\ ofile'[p][f] = ofile[p][f] - 1 /\ ofile' \in [Proc -> [Files -> Nat]]
          /\ \A q \in Proc, g \in Files : q # p \/ g # f => ofile'[q][g] = ofile[q][g]
          /\ \A q \in Proc \ {p} : ofile'[q] = ofile[q]
      BY <2>2, <1>0 DEF Types
    <3>2. PICK e : e \in Fds(f) /\ Fds(f)' = Fds(f) \ {e}
      BY <3>1, <2>2, <1>0, FdsDropped DEF Types
    <3>3. IsFiniteSet(Fds(f)') /\ Cardinality(Fds(f)') = Cardinality(Fds(f)) - 1
      BY <3>2, <2>0, FS_RemoveElement
    <3>4. \A g \in Files : InCall(g)' = InCall(g)
      BY <2>2, SameInCall
    <3>5. \A g \in Files \ {f} : Fds(g)' = Fds(g)
      BY <3>1, SameFds
    <3>6. <<p, 1>> \in Fds(f)
      BY <2>2, <1>0, HasFd
    <3>7. ASSUME last, NEW q \in Proc \ {p} PROVE ~(ofile[q][f] > 0)
      <4>1. Fds(f) = {<<p, 1>>}
        BY <3>6, <3>7, <1>2, OnlyFd
      <4>2. <<q, 1>> \notin Fds(f)
        BY <4>1
      <4> QED BY <4>2, <1>0, HasFd
    <3>8. file[f].ref >= 1
      BY <3>2, <1>2, RefAtLeast
    <3>9. file[f].ref - 1 = Cardinality(Fds(f)') + Cardinality(InCall(f)')
      BY <3>3, <3>4, <2>0
    <3>10. \A q \in Proc : ofile'[q][f] > 0 => ofile[q][f] > 0
      BY <3>1, <2>2
    <3>11. todo[p] = <<>> /\ todo' \in [Proc -> Seq(Files)] /\ IsFiniteSet(InCall(f)')
      BY <3>4, <2>0, <2>2, <1>0 DEF Call1, Types
    <3> QED BY <3>1, <3>3, <3>4, <3>5, <3>7, <3>8, <3>9, <3>10, <3>11, <2>0, <2>2
  <2> QED BY <2>1, <2>2, <1>1
<1> HIDE DEF ByCall, ByExit
<1>5. /\ file'[f] = (IF last THEN Unused ELSE left)
      /\ \A g \in Files \ {f} : file'[g] = file[g]
  BY <1>0, <1>1 DEF Types
<1>6. ~last => /\ left \in File /\ left.ref = file[f].ref - 1 /\ left.type = file[f].type
               /\ left.pipe = file[f].pipe /\ left.writable = file[f].writable
  <2>1. left = [ref |-> file[f].ref - 1, type |-> file[f].type, pipe |-> file[f].pipe,
                writable |-> file[f].writable]
    BY <1>2 DEF File
  <2>2. file[f].ref - 1 \in Nat
    BY <1>2, <1>4
  <2> QED BY <2>1, <2>2, <1>2 DEF File
<1>7. Unused \in File /\ Unused.ref = 0 /\ Unused.type = "NONE"
  BY DEF Unused, File
<1> HIDE DEF left
<1>8. arg' \in [Proc -> IOCall \cup CloseCall \cup {NoCall}]
      /\ arg'[p] = (IF last /\ file[f].type = "PIPE" THEN c ELSE NoCall)
      /\ (last /\ file[f].type = "PIPE" => c \in CloseCall /\ file[f].pipe \in Pipes)
      /\ \A q \in Proc \ {p} : arg'[q] = arg[q]
  <2>1. CASE last /\ file[f].type = "PIPE"
    <3>1. file[f].pipe \in Pipes
      BY <2>1, <1>2 DEF Sound
    <3>2. c \in CloseCall
      BY <3>1, <1>2 DEF CloseCall
    <3>3. arg' = [arg EXCEPT ![p] = c]
      BY <2>1, <1>1
    <3> HIDE DEF c
    <3> QED BY <2>1, <3>1, <3>2, <3>3, <1>0 DEF Types
  <2>2. CASE ~(last /\ file[f].type = "PIPE")
    <3>1. arg' = arg
      BY <2>2, <1>1
    <3> QED BY <3>1, <2>2, <1>0, <1>1 DEF Types
  <2> QED BY <2>1, <2>2
<1>9. Types'
  <2>1. panicked' = FALSE
    <3>1. ~(file[f].ref < 1)
      BY <1>2, <1>4
    <3>2. (file[f].ref < 1) = FALSE
      BY <3>1
    <3> QED BY <3>2, <1>1
  <2>2. file' \in [Files -> File]
    <3>1. file'[f] \in File
      BY <1>5, <1>6, <1>7
    <3> QED BY <3>1, <1>0, <1>1 DEF Types
  <2>3. UNCHANGED <<pipe, pc, asleep, killed>>
    BY <1>1
  <2> QED BY <2>1, <2>2, <2>3, <1>0, <1>4, <1>8 DEF Types
<1>10. InCalls'
  <2>0. pc' = pc /\ killed' = killed
    BY <1>1
  <2>1. Call1(p)'
    <3>1. arg'[p] \in CloseCall \cup {NoCall}
      BY <1>8
    <3> HIDE DEF c
    <3> QED BY <3>1, <2>0, <1>3, <1>4, CallKinds DEF Call1
  <2>2. ASSUME NEW q \in Proc \ {p} PROVE Call1(q)'
    <3>1. Call1(q) /\ arg'[q] = arg[q] /\ ofile'[q] = ofile[q] /\ todo'[q] = todo[q]
      BY <1>0, <1>4, <1>8 DEF InCalls
    <3> QED BY <3>1, <2>0, SameCall
  <2> QED BY <2>1, <2>2 DEF InCalls
<1>11. ASSUME NEW g \in Files PROVE Counted(g)' /\ Sound(g)'
  <2>1. CASE g # f
    <3>1. file'[g] = file[g] /\ Fds(g)' = Fds(g) /\ InCall(g)' = InCall(g)
      BY <2>1, <1>4, <1>5
    <3>2. Counted(g)'
      BY <3>1, <1>0, SameCounted DEF Referenced
    <3>3. \A q \in Proc : ofile'[q][g] > 0 => ofile[q][g] > 0
      <4>1. ASSUME NEW q \in Proc, ofile'[q][g] > 0 PROVE ofile[q][g] > 0
        <5>1. <<q, 1>> \in Fds(g)
          <6>1. 1 \in 1 .. ofile'[q][g]
            BY <4>1, <1>4
          <6>2. <<q, 1>> \in Fds(g)'
            BY <6>1 DEF Fds
          <6> QED BY <6>2, <3>1
        <5>2. PICK r \in Proc : \E k \in 1 .. ofile[r][g] : <<q, 1>> = <<r, k>>
          BY <5>1, FdsAre
        <5>3. 1 \in 1 .. ofile[q][g]
          BY <5>2
        <5>4. ofile[q][g] \in Nat
          BY <1>0 DEF Types
        <5> QED BY <5>3, <5>4
      <4> QED BY <4>1
    <3>4. pc' = pc /\ Sound(g)
      BY <1>0, <1>1 DEF Referenced
    <3> QED BY <3>1, <3>2, <3>3, <3>4 DEF Sound
  <2>2. CASE g = f
    <3>1. CASE last
      <4>1. file'[f] = Unused
        BY <3>1, <1>5
      <4>2. Counted(f)'
        BY <4>1, <3>1, <1>4, <1>7 DEF Counted
      <4>3. Cardinality(Fds(f)') \in Nat /\ Cardinality(InCall(f)') \in Nat
        BY <1>4, FS_CardinalityType
      <4>4. Fds(f)' = {}
        <5>1. Cardinality(Fds(f)') = 0
          BY <4>3, <3>1, <1>4
        <5> QED BY <5>1, <1>4, FS_EmptySet
      <4>5. \A q \in Proc : ~(ofile'[q][f] > 0)
        <5>1. ASSUME NEW q \in Proc, ofile'[q][f] > 0 PROVE FALSE
          <6>1. 1 \in 1 .. ofile'[q][f]
            BY <5>1, <1>4
          <6>2. <<q, 1>> \in Fds(f)'
            BY <6>1 DEF Fds
          <6> QED BY <6>2, <4>4
        <5> QED BY <5>1
      <4>6. Sound(f)'
        BY <4>1, <4>5, <1>7 DEF Sound
      <4> QED BY <4>2, <4>6, <2>2
    <3>2. CASE ~last
      <4>1. /\ file'[f].ref = file[f].ref - 1 /\ file'[f].type = file[f].type
            /\ file'[f].pipe = file[f].pipe
        BY <3>2, <1>5, <1>6
      <4>2. Counted(f)'
        BY <4>1, <1>4 DEF Counted
      <4>3. file[f].ref - 1 # 0 /\ file[f].type = "PIPE"
        <5>1. file[f].ref > 1
          BY <3>2, <1>2, <1>4
        <5> QED BY <5>1, <1>2 DEF Sound, File
      <4>4. pc' = pc
        BY <1>1
      <4>5. Sound(f)'
        <5>1. \A q \in Proc : ~(pc'[q] = "alloc" /\ q \in InCall(f)')
          BY <4>3, <4>4, <1>2, <1>4 DEF Sound
        <5>2. file'[f].ref # 0 /\ file'[f].type = "PIPE" /\ file'[f].pipe \in Pipes
          BY <4>1, <4>3, <1>2 DEF Sound
        <5> QED BY <5>1, <5>2 DEF Sound
      <4> QED BY <4>2, <4>5, <2>2
    <3> QED BY <3>1, <3>2
  <2> QED BY <2>1, <2>2
<1>12. ASSUME NEW q \in Proc PROVE HasEnd(q)'
  <2>0. pc' = pc
    BY <1>1
  <2>1. CASE q = p
    BY <2>0, <2>1, <1>3 DEF HasEnd
  <2>2. CASE q # p
    <3>1. ASSUME NEW g \in Files, ofile[q][g] > 0
          PROVE  /\ ofile'[q][g] > 0 /\ file'[g].pipe = file[g].pipe
                 /\ file'[g].writable = file[g].writable
      <4>1. ofile'[q] = ofile[q]
        BY <2>2, <1>4
      <4>2. g = f => ~last
        BY <3>1, <2>2, <1>4
      <4> QED BY <4>1, <4>2, <3>1, <1>5, <1>6
    <3>2. HasEnd(q) /\ arg'[q] = arg[q]
      BY <2>2, <1>0, <1>8 DEF Opened
    <3> QED BY <3>1, <3>2, <2>0, SameEnd
  <2> QED BY <2>1, <2>2
<1>13. SamePages
  BY <1>1 DEF SamePages
<1>14. Opened'
  <2>0. pc' = pc
    BY <1>1
  <2>1. CASE ~(last /\ file[f].type = "PIPE")
    <3>1. ASSUME NEW i \in Pipes, NEW w \in BOOLEAN PROVE Ends(i, w)' = Ends(i, w)
      <4>1. \A g \in Files : file'[g].type = "PIPE" => file'[g].type = file[g].type
                  /\ file'[g].pipe = file[g].pipe /\ file'[g].writable = file[g].writable
        BY <1>5, <1>6, <1>7
      <4>2. \A g \in Files : file[g].type = "PIPE" => file'[g].type = file[g].type
                  /\ file'[g].pipe = file[g].pipe /\ file'[g].writable = file[g].writable
        BY <2>1, <1>5, <1>6
      <4> QED BY <4>1, <4>2 DEF Ends
    <3>2. arg' = arg
      BY <2>1, <1>1
    <3>3. ASSUME NEW i \in Pipes, NEW w \in BOOLEAN PROVE Closing(i, w)' = Closing(i, w)
      BY <3>2, <2>0 DEF Closing
    <3> QED BY <3>1, <3>3, <1>0, <1>12, <1>13, EndsSame
  <2>2. CASE last /\ file[f].type = "PIPE"
    <3>1. PICK i \in Pipes, w \in BOOLEAN : i = file[f].pipe /\ w = file[f].writable
      BY <2>2, <1>2, <1>8
    <3>2. f \in Ends(i, w)
      BY <3>1, <2>2 DEF Ends
    <3>3. Ends(i, w) = {f} /\ Closing(i, w) = {} /\ Open(i, w)
      BY <3>2, <1>0 DEF Opened, Ended
    <3>4. ASSUME NEW j \in Pipes, NEW v \in BOOLEAN PROVE Ends(j, v)' = Ends(j, v) \ {f}
      <4>1. file'[f].type # "PIPE"
        BY <2>2, <1>5, <1>7
      <4> QED BY <4>1, <1>5 DEF Ends
    <3>5. arg'[p] # NoCall /\ arg'[p].pipe = i /\ arg'[p].writable = w
      <4>1. arg'[p] = c
        BY <2>2, <1>8
      <4>2. c.pipe = file[f].pipe /\ c.writable = file[f].writable
        OBVIOUS
      <4>3. c # NoCall
        BY <2>2, <1>8, CallKinds
      <4> QED BY <4>1, <4>2, <4>3, <3>1
    <3>6. ASSUME NEW j \in Pipes, NEW v \in BOOLEAN
          PROVE  Closing(j, v)' = IF j = i /\ v = w THEN {p} ELSE Closing(j, v)
      <4>1. \A q \in Proc \ {p} : q \in Closing(j, v)' <=> q \in Closing(j, v)
        BY <2>0, <1>8 DEF Closing
      <4>2. p \notin Closing(j, v)
        BY <1>1 DEF Closing
      <4>3. p \in Closing(j, v)' <=> j = i /\ v = w
        BY <3>5, <2>0, <1>3 DEF Closing
      <4>4. Closing(j, v) \subseteq Proc /\ Closing(j, v)' \subseteq Proc
        BY DEF Closing
      <4>5. j = i /\ v = w => Closing(j, v) = {}
        BY <3>3
      <4> QED BY <4>1, <4>2, <4>3, <4>4, <4>5
    <3>7. ASSUME NEW j \in Pipes, NEW v \in BOOLEAN PROVE Ended(j, v)'
      <4>0. Ended(j, v) /\ (Open(j, v)' <=> Open(j, v))
        BY <1>0, <1>13, SameOpen DEF Opened
      <4>1. CASE j = i /\ v = w
        <5>1. Ends(j, v)' = {} /\ Closing(j, v)' = {p} /\ Open(j, v)'
          BY <4>0, <4>1, <3>3, <3>4, <3>6
        <5> QED BY <5>1 DEF Ended
      <4>2. CASE ~(j = i /\ v = w)
        <5>1. f \notin Ends(j, v)
          BY <4>2, <3>1 DEF Ends
        <5>2. Ends(j, v)' = Ends(j, v) /\ Closing(j, v)' = Closing(j, v)
          BY <5>1, <4>2, <3>4, <3>6
        <5> QED BY <5>2, <4>0, SameEnded
      <4> QED BY <4>1, <4>2
    <3>8. ASSUME NEW j \in Pipes, pipe'[j] # NoPage PROVE Open(j, TRUE)' \/ Open(j, FALSE)'
      BY <3>8, <1>0, <1>13, SameOpen DEF Opened, SamePages
    <3> QED BY <3>7, <3>8, <1>12 DEF Opened
  <2> QED BY <2>1, <2>2
<1> QED BY <1>9, <1>10, <1>11, <1>14 DEF IInv, Referenced

\* pipeclose: the end is closed, and the page is gone with the last one.
LEMMA PipeCloseStep ==
  ASSUME IInv, NEW p \in Proc, PipeClose(p)
  PROVE  IInv'
<1>0. Types /\ InCalls /\ Referenced /\ Opened
  BY DEF IInv
<1>1. pc[p] \in {"close", "exit"} /\ arg[p] # NoCall
      /\ UNCHANGED <<ofile, file, pc, todo, killed, panicked>>
      /\ arg' = [arg EXCEPT ![p] = NoCall]
  BY DEF PipeClose
<1>2. arg[p] \in CloseCall
  BY <1>0, <1>1 DEF InCalls, Call1, Types
<1>3. PICK i \in Pipes, w \in BOOLEAN : i = arg[p].pipe /\ w = arg[p].writable
  BY <1>2 DEF CloseCall
<1>4. p \in Closing(i, w)
  BY <1>1, <1>3 DEF Closing
<1>5. Closing(i, w) = {p} /\ Ends(i, w) = {} /\ Open(i, w)
  BY <1>4, <1>0 DEF Opened, Ended
<1>6. pipe[i] \in Page /\ pipe[i] # NoPage /\ pipe[i].readopen \in BOOLEAN
      /\ pipe[i].writeopen \in BOOLEAN
  BY <1>5, <1>0 DEF Open, Types, Page
<1> DEFINE left == [pipe[i] EXCEPT !.readopen = pipe[i].readopen /\ w,
                                   !.writeopen = pipe[i].writeopen /\ ~w]
<1>7. /\ asleep' = Woken(IF w THEN "read" ELSE "write", i)
      /\ pipe' = [pipe EXCEPT ![i] =
             IF left.readopen \/ left.writeopen THEN left ELSE NoPage]
  BY <1>3 DEF PipeClose
<1>8. left \in Page /\ (left.readopen <=> pipe[i].readopen /\ w)
      /\ (left.writeopen <=> pipe[i].writeopen /\ ~w)
  BY <1>6 DEF Page
<1>9. /\ pipe'[i] = (IF left.readopen \/ left.writeopen THEN left ELSE NoPage)
      /\ \A j \in Pipes \ {i} : pipe'[j] = pipe[j]
  BY <1>7, <1>0 DEF Types
<1> HIDE DEF left
<1>10. /\ arg'[p] = NoCall /\ \A q \in Proc \ {p} : arg'[q] = arg[q]
       /\ arg' \in [Proc -> IOCall \cup CloseCall \cup {NoCall}]
  BY <1>1, <1>0 DEF Types
<1>11. Types'
  <2>1. pipe' \in [Pipes -> Page \cup {NoPage}]
    BY <1>7, <1>8, <1>0 DEF Types
  <2>2. asleep' \in [Proc -> BOOLEAN]
    BY <1>7, <1>0, WokenIs
  <2>3. UNCHANGED <<ofile, file, pc, todo, killed, panicked>>
    BY <1>1
  <2> QED BY <2>1, <2>2, <2>3, <1>10, <1>0 DEF Types
<1>12. InCalls'
  <2>0. UNCHANGED <<ofile, pc, todo, killed>>
    BY <1>1
  <2>1. Call1(p)'
    BY <2>0, <1>0, <1>1, <1>10, CallKinds DEF InCalls, Call1
  <2> QED BY <2>0, <2>1, <1>0, <1>10, SameCall DEF InCalls
<1>13. Referenced'
  <2>0. UNCHANGED <<ofile, file, pc, todo>>
    BY <1>1
  <2>1. ASSUME NEW f \in Files PROVE Counted(f)' /\ Sound(f)'
    <3>1. Fds(f)' = Fds(f) /\ InCall(f)' = InCall(f)
      BY <2>0, SameFds, SameInCall
    <3>2. Counted(f)'
      BY <3>1, <2>0, <1>0, SameCounted DEF Referenced
    <3>3. Sound(f)'
      BY <3>1, <2>0, <1>0 DEF Referenced, Sound
    <3> QED BY <3>2, <3>3
  <2> QED BY <2>1 DEF Referenced
<1>14. ASSUME NEW q \in Proc PROVE HasEnd(q)'
  <2>0. UNCHANGED <<ofile, file, pc>>
    BY <1>1
  <2>1. CASE q = p
    BY <2>0, <2>1, <1>1 DEF HasEnd
  <2>2. CASE q # p
    BY <2>0, <2>2, <1>0, <1>10, SameEnd DEF Opened
  <2> QED BY <2>1, <2>2
<1>15. /\ ~Open(i, w)' /\ (Open(i, ~w)' <=> Open(i, ~w))
       /\ pipe'[i] # NoPage => Open(i, ~w)'
  <2>1. left # NoPage
    BY <1>8, PageKind
  <2>2. CASE w = TRUE
    BY <2>1, <2>2, <1>6, <1>8, <1>9 DEF Open
  <2>3. CASE w = FALSE
    BY <2>1, <2>3, <1>6, <1>8, <1>9 DEF Open
  <2> QED BY <2>2, <2>3
<1>16. ASSUME NEW j \in Pipes, NEW v \in BOOLEAN
       PROVE  /\ Ends(j, v)' = Ends(j, v)
              /\ Closing(j, v)' = Closing(j, v) \ {p}
  <2>0. UNCHANGED <<file, pc>>
    BY <1>1
  <2>1. Ends(j, v)' = Ends(j, v)
    BY <2>0 DEF Ends
  <2>2. p \notin Closing(j, v)'
    BY <1>10 DEF Closing
  <2>3. \A q \in Proc \ {p} : q \in Closing(j, v)' <=> q \in Closing(j, v)
    BY <2>0, <1>10 DEF Closing
  <2>4. Closing(j, v) \subseteq Proc /\ Closing(j, v)' \subseteq Proc
    BY DEF Closing
  <2> QED BY <2>1, <2>2, <2>3, <2>4
<1>17. ASSUME NEW j \in Pipes, NEW v \in BOOLEAN PROVE Ended(j, v)'
  <2>0. Ended(j, v)
    BY <1>0 DEF Opened
  <2>1. CASE j = i /\ v = w
    <3>1. Ends(j, v)' = {} /\ Closing(j, v)' = {} /\ ~Open(j, v)'
      BY <2>1, <1>5, <1>15, <1>16
    <3> QED BY <3>1 DEF Ended
  <2>2. CASE ~(j = i /\ v = w)
    <3>1. Closing(j, v)' = Closing(j, v)
      <4>1. p \notin Closing(j, v)
        BY <2>2, <1>3 DEF Closing
      <4> QED BY <4>1, <1>16
    <3>2. Open(j, v)' <=> Open(j, v)
      <4>1. CASE j = i
        <5>1. v = ~w
          BY <4>1, <2>2
        <5> QED BY <5>1, <4>1, <1>15
      <4>2. CASE j # i
        BY <4>2, <1>9 DEF Open
      <4> QED BY <4>1, <4>2
    <3> QED BY <3>1, <3>2, <2>0, <1>16, SameEnded
  <2> QED BY <2>1, <2>2
<1>18. ASSUME NEW j \in Pipes, pipe'[j] # NoPage PROVE Open(j, TRUE)' \/ Open(j, FALSE)'
  <2>1. CASE j = i
    <3>1. Open(i, ~w)'
      BY <2>1, <1>15, <1>18
    <3>2. w = TRUE \/ w = FALSE
      OBVIOUS
    <3>3. (~TRUE) = FALSE /\ (~FALSE) = TRUE
      OBVIOUS
    <3> QED BY <3>1, <3>2, <3>3, <2>1
  <2>2. CASE j # i
    <3>1. pipe'[j] = pipe[j]
      BY <2>2, <1>9
    <3> QED BY <3>1, <1>0, <1>18 DEF Opened, Open
  <2> QED BY <2>1, <2>2
<1>19. Opened'
  BY <1>14, <1>17, <1>18 DEF Opened
<1> QED BY <1>11, <1>12, <1>13, <1>19 DEF IInv

NewPage == [data |-> [j \in Cells |-> Empty], nread |-> 0, nwrite |-> 0,
            readopen |-> TRUE, writeopen |-> TRUE]

End(i, w) == [ref |-> 1, type |-> "PIPE", pipe |-> i, writable |-> w]

\* What sys_pipe does with two files and a page.
Makes(p, i, r, w) ==
    /\ r # w /\ ToSet(todo[p]) = {r, w}
    /\ pipe[i] = NoPage /\ pipe' = [pipe EXCEPT ![i] = NewPage]
    /\ file' = [file EXCEPT ![r] = End(i, FALSE), ![w] = End(i, TRUE)]
    /\ \/ /\ ofile' = [ofile EXCEPT ![p][r] = 1, ![p][w] = 1]
          /\ todo' = [todo EXCEPT ![p] = <<>>]
          /\ pc' = [pc EXCEPT ![p] = "user"]
       \/ pc' = [pc EXCEPT ![p] = "close"] /\ UNCHANGED <<ofile, todo>>

\* PipeInit does one of those things, or there is no page.
LEMMA PipeInitDoes ==
  ASSUME IInv, NEW p \in Proc, PipeInit(p)
  PROVE  /\ pc[p] = "alloc" /\ Len(todo[p]) = 2
         /\ UNCHANGED <<arg, asleep, killed, panicked>>
         /\ \/ pc' = [pc EXCEPT ![p] = "close"] /\ UNCHANGED <<pipe, file, ofile, todo>>
            \/ \E i \in Pipes, r \in Files, w \in Files : Makes(p, i, r, w)
<1>0. Types /\ InCalls
  BY DEF IInv
<1>1. /\ pc[p] = "alloc" /\ Len(todo[p]) = 2 /\ UNCHANGED <<arg, asleep, killed, panicked>>
  BY DEF PipeInit, Runs
<1> DEFINE T == {i \in Pipes : pipe[i] = NoPage}
<1>2. CASE T = {}
  BY <1>1, <1>2 DEF PipeInit, At
<1>3. CASE T # {}
  <2>1. T \in SUBSET Nat
    BY DEF Pipes
  <2>2. Min(T) \in T
    BY <2>1, <1>3, Least
  <2>3. PICK i \in Pipes : i = Min(T) /\ pipe[i] = NoPage
    BY <2>2
  <2>4. todo[p] \in Seq(Files) /\ NoRepeat(todo[p])
    BY <1>0 DEF Types, InCalls, Call1
  <2>5. DOMAIN todo[p] = 1 .. 2 /\ todo[p][1] \in Files /\ todo[p][2] \in Files
    BY <2>4, <1>1
  <2>6. PICK r \in Files, w \in Files : r = todo[p][1] /\ w = todo[p][2]
    BY <2>5
  <2>7. r # w
    <3>1. 1 \in DOMAIN todo[p] /\ 2 \in DOMAIN todo[p] /\ 1 # 2
      BY <2>5
    <3> QED BY <3>1, <2>4, <2>6 DEF NoRepeat
  <2>8. r \in ToSet(todo[p]) /\ w \in ToSet(todo[p])
    BY <2>5, <2>6 DEF ToSet
  <2>9. ASSUME NEW g \in ToSet(todo[p]) PROVE g = r \/ g = w
    <3>1. PICK k \in 1 .. 2 : g = todo[p][k]
      BY <2>5 DEF ToSet
    <3>2. k = 1 \/ k = 2
      OBVIOUS
    <3> QED BY <3>1, <3>2, <2>6
  <2>10. /\ pipe' = [pipe EXCEPT ![i] = NewPage]
         /\ file' = [file EXCEPT
                ![r] = End(i, FALSE), ![w] = End(i, TRUE)]
         /\ \/ /\ ofile' = [ofile EXCEPT ![p][r] = 1, ![p][w] = 1]
               /\ todo' = [todo EXCEPT ![p] = <<>>]
               /\ pc' = [pc EXCEPT ![p] = "user"]
            \/ pc' = [pc EXCEPT ![p] = "close"] /\ UNCHANGED <<ofile, todo>>
    BY <2>3, <2>6, <1>3 DEF PipeInit, At, NewPage, Cells, End
  <2>11. ToSet(todo[p]) = {r, w}
    BY <2>8, <2>9
  <2>12. Makes(p, i, r, w)
    BY <2>3, <2>7, <2>10, <2>11 DEF Makes
  <2> QED BY <2>12, <1>1
<1> QED BY <1>2, <1>3

\* A page for a new pipe.
LEMMA NewPageIs ==
  NewPage \in Page /\ NewPage # NoPage /\ NewPage.readopen /\ NewPage.writeopen
<1>1. 0 \in Index
  BY PipeConstants DEF Index
<1>2. [j \in Cells |-> Empty] \in [Cells -> Bytes \cup {Empty}]
  OBVIOUS
<1>3. NewPage \in Page
  BY <1>1, <1>2 DEF NewPage, Page
<1> QED BY <1>3, PageKind DEF NewPage

\* sys_pipe opens both ends of a new page with the two files it has taken,
\* whether or not the process gets descriptors for them (pipe.c:31-56).
LEMMA PipeInitStep ==
  ASSUME IInv, NEW p \in Proc, PipeInit(p)
  PROVE  IInv'
<1>0. Types /\ InCalls /\ Referenced /\ Opened
  BY DEF IInv
<1>1. /\ pc[p] = "alloc" /\ Len(todo[p]) = 2 /\ UNCHANGED <<arg, asleep, killed, panicked>>
      /\ \/ pc' = [pc EXCEPT ![p] = "close"] /\ UNCHANGED <<pipe, file, ofile, todo>>
         \/ \E i \in Pipes, r \in Files, w \in Files : Makes(p, i, r, w)
  BY PipeInitDoes
<1>2. arg[p] = NoCall /\ Call1(p)
  BY <1>0, <1>1 DEF InCalls, Call1, Types
<1>3. CASE pc' = [pc EXCEPT ![p] = "close"] /\ UNCHANGED <<pipe, file, ofile, todo>>
  <2>1. pc'[p] = "close" /\ \A q \in Proc \ {p} : pc'[q] = pc[q]
    BY <1>3, <1>0 DEF Types
  <2>2. Types'
    BY <1>3, <1>0, <1>1 DEF Types
  <2>3. Call1(p)'
    BY <2>1, <1>1, <1>2, <1>3, CallKinds DEF Call1
  <2>4. HasEnd(p)' /\ ~IsClosing(p) /\ ~IsClosing(p)'
    BY <2>1, <1>1, <1>2 DEF HasEnd, IsClosing
  <2>5. SamePages
    BY <1>3 DEF SamePages
  <2> QED BY <2>1, <2>2, <2>3, <2>4, <2>5, <1>1, <1>3, CallStep
<1>4. ASSUME NEW i \in Pipes, NEW r \in Files, NEW w \in Files, Makes(p, i, r, w)
      PROVE  IInv'
  <2>1. /\ r # w /\ ToSet(todo[p]) = {r, w}
        /\ pipe[i] = NoPage /\ pipe' = [pipe EXCEPT ![i] = NewPage]
        /\ file' = [file EXCEPT ![r] = End(i, FALSE), ![w] = End(i, TRUE)]
    BY <1>4 DEF Makes
  <2> DEFINE Done == /\ ofile' = [ofile EXCEPT ![p][r] = 1, ![p][w] = 1]
                     /\ todo' = [todo EXCEPT ![p] = <<>>]
                     /\ pc' = [pc EXCEPT ![p] = "user"]
             Undone == pc' = [pc EXCEPT ![p] = "close"] /\ UNCHANGED <<ofile, todo>>
  <2>2. Done \/ Undone
    BY <1>4 DEF Makes
  <2>3. /\ pipe'[i] = NewPage /\ pipe' \in [Pipes -> Page \cup {NoPage}]
        /\ \A j \in Pipes \ {i} : pipe'[j] = pipe[j]
    BY <2>1, <1>0, NewPageIs DEF Types
  <2>4. ASSUME NEW v \in BOOLEAN
        PROVE  /\ End(i, v) \in File /\ End(i, v).ref = 1 /\ End(i, v).type = "PIPE"
               /\ End(i, v).pipe = i /\ End(i, v).writable = v
    BY DEF End, File
  <2>5. /\ file'[r] = End(i, FALSE) /\ file'[w] = End(i, TRUE)
        /\ \A g \in Files \ {r, w} : file'[g] = file[g]
    BY <2>1, <1>0 DEF Types
  <2>6. file' \in [Files -> File]
    <3>1. End(i, FALSE) \in File /\ End(i, TRUE) \in File
      BY <2>4
    <3> QED BY <3>1, <2>1, <1>0 DEF Types
  <2>7. ASSUME NEW g \in {r, w}
        PROVE  /\ file[g].type = "NONE" /\ file[g].ref = 1
               /\ Fds(g) = {} /\ InCall(g) = {p} /\ \A q \in Proc : ofile[q][g] = 0
    <3>0. g \in Files
      OBVIOUS
    <3>1. p \in InCall(g)
      BY <2>1 DEF InCall
    <3>2. Counted(g) /\ Sound(g)
      BY <3>0, <1>0 DEF Referenced
    <3>3. file[g].type = "NONE" /\ file[g].ref <= 1
      BY <3>1, <3>2, <1>1 DEF Sound
    <3>4. file[g].ref = 1 /\ Fds(g) = {} /\ InCall(g) = {p}
      BY <3>0, <3>1, <3>2, <3>3, OnlyInCall
    <3>5. ASSUME NEW q \in Proc PROVE ofile[q][g] = 0
      <4>1. ofile[q][g] \in Nat
        BY <3>0, <1>0 DEF Types
      <4>2. ~(ofile[q][g] > 0)
        BY <3>0, <3>4, <1>0, HasFd
      <4> QED BY <4>1, <4>2
    <3> QED BY <3>3, <3>4, <3>5
\* The state of p, if all went well and if not.
  <2>8. /\ ofile' \in [Proc -> [Files -> Nat]] /\ todo' \in [Proc -> Seq(Files)]
        /\ pc' \in [Proc -> {"unused", "user", "alloc", "close", "exit", "read", "write"}]
        /\ \A q \in Proc \ {p} : ofile'[q] = ofile[q] /\ todo'[q] = todo[q] /\ pc'[q] = pc[q]
        /\ \A q \in Proc, g \in Files \ {r, w} : ofile'[q][g] = ofile[q][g]
        /\ pc'[p] \in {"user", "close"} /\ NoRepeat(todo'[p])
        /\ todo'[p] # <<>> => pc'[p] = "close"
    <3>1. CASE Done
      <4>1. ofile' \in [Proc -> [Files -> Nat]]
            /\ (\A q \in Proc \ {p} : ofile'[q] = ofile[q])
            /\ (\A q \in Proc, g \in Files \ {r, w} : ofile'[q][g] = ofile[q][g])
        BY <3>1, <1>0 DEF Types
      <4>2. todo' \in [Proc -> Seq(Files)] /\ todo'[p] = <<>>
            /\ (\A q \in Proc \ {p} : todo'[q] = todo[q])
        BY <3>1, <1>0 DEF Types
      <4>3. /\ pc' \in [Proc -> {"unused", "user", "alloc", "close", "exit", "read", "write"}]
            /\ pc'[p] = "user" /\ \A q \in Proc \ {p} : pc'[q] = pc[q]
        BY <3>1, <1>0 DEF Types
      <4>4. NoRepeat(<<>>)
        BY DEF NoRepeat
      <4> QED BY <4>1, <4>2, <4>3, <4>4
    <3>2. CASE Undone
      <4>1. /\ pc' \in [Proc -> {"unused", "user", "alloc", "close", "exit", "read", "write"}]
            /\ pc'[p] = "close" /\ \A q \in Proc \ {p} : pc'[q] = pc[q]
        BY <3>2, <1>0 DEF Types
      <4>2. UNCHANGED <<ofile, todo>> /\ NoRepeat(todo[p])
        BY <3>2, <1>2 DEF Call1
      <4> QED BY <4>1, <4>2, <1>0 DEF Types
    <3> QED BY <3>1, <3>2, <2>2
  <2>9. Types'
    BY <2>3, <2>6, <2>8, <1>0, <1>1 DEF Types
  <2>10. InCalls'
    <3>1. Call1(p)'
      BY <2>8, <1>1, <1>2, CallKinds DEF Call1
    <3> QED BY <3>1, <2>8, <1>0, <1>1, SameCall DEF InCalls
  <2>11. ASSUME NEW g \in Files PROVE Counted(g)' /\ Sound(g)'
    <3>1. CASE g \notin {r, w}
      <4>1. file'[g] = file[g] /\ Fds(g)' = Fds(g)
        BY <3>1, <2>5, <2>8, SameFds
      <4>2. InCall(g)' = InCall(g)
        <5>1. g \notin ToSet(todo[p])
          BY <3>1, <2>1
        <5>2. g \notin ToSet(todo'[p])
          <6>1. CASE Done
            <7>1. todo'[p] = <<>>
              BY <6>1, <1>0 DEF Types
            <7> QED BY <7>1 DEF ToSet
          <6>2. CASE Undone
            BY <6>2, <5>1
          <6> QED BY <6>1, <6>2, <2>2
        <5> QED BY <5>1, <5>2, <2>8 DEF InCall
      <4>3. Counted(g)'
        BY <4>1, <4>2, <1>0, SameCounted DEF Referenced
      <4>4. Sound(g)'
        <5>1. \A q \in Proc : ofile'[q][g] = ofile[q][g]
          BY <3>1, <2>8
        <5>2. \A q \in Proc : pc'[q] = "alloc" => pc[q] = "alloc"
          BY <2>8
        <5> QED BY <5>1, <5>2, <4>1, <4>2, <1>0 DEF Referenced, Sound
      <4> QED BY <4>3, <4>4
    <3>2. CASE g \in {r, w}
      <4>1. file'[g].ref = 1 /\ file'[g].type = "PIPE" /\ file'[g].pipe = i
        BY <3>2, <2>4, <2>5
      <4>2. InCall(g)' \subseteq {p}
        BY <3>2, <2>7, <2>8 DEF InCall
      <4>3. Sound(g)'
        BY <4>1, <4>2, <2>8 DEF Sound
      <4>4. CASE Done
        <5>1. ofile'[p][g] = 1
          BY <4>4, <3>2, <2>1, <1>0 DEF Types
        <5>2. \E e : e \notin Fds(g) /\ Fds(g)' = Fds(g) \cup {e}
          <6>1. ofile'[p][g] = ofile[p][g] + 1
            BY <5>1, <3>2, <2>7
          <6>2. \A q \in Proc \ {p} : ofile'[q][g] = ofile[q][g]
            BY <2>8
          <6> QED BY <6>1, <6>2, <1>0, FdsAdded DEF Types
        <5>3. PICK e : Fds(g)' = {e}
          BY <5>2, <3>2, <2>7
        <5>4. IsFiniteSet(Fds(g)') /\ Cardinality(Fds(g)') = 1
          BY <5>3, FS_Singleton
        <5>5. InCall(g)' = {}
          <6>1. todo'[p] = <<>>
            BY <4>4, <1>0 DEF Types
          <6>2. g \notin ToSet(todo'[p])
            BY <6>1 DEF ToSet
          <6> QED BY <6>2, <4>2 DEF InCall
        <5>6. IsFiniteSet(InCall(g)') /\ Cardinality(InCall(g)') = 0
          BY <5>5, FS_EmptySet
        <5>7. Counted(g)'
          BY <5>4, <5>6, <4>1 DEF Counted
        <5> QED BY <5>7, <4>3
      <4>5. CASE Undone
        <5>1. Fds(g)' = Fds(g) /\ InCall(g)' = InCall(g)
          BY <4>5, SameFds, SameInCall
        <5>2. file'[g].ref = file[g].ref
          BY <4>1, <3>2, <2>7
        <5>3. Counted(g)'
          BY <5>1, <5>2, <1>0, SameCounted DEF Referenced
        <5> QED BY <5>3, <4>3
      <4> QED BY <4>4, <4>5, <2>2
    <3> QED BY <3>1, <3>2
  <2> HIDE DEF Done, Undone
  <2>12. ASSUME NEW q \in Proc PROVE HasEnd(q)'
    <3>1. CASE q = p
      BY <3>1, <2>8 DEF HasEnd
    <3>2. CASE q # p
      <4>1. ASSUME NEW g \in Files, ofile[q][g] > 0 PROVE file'[g] = file[g]
        <5>1. g \notin {r, w}
          BY <4>1, <2>7
        <5> QED BY <5>1, <2>5
      <4>2. HasEnd(q) /\ ofile'[q] = ofile[q] /\ pc'[q] = pc[q] /\ arg'[q] = arg[q]
        BY <3>2, <2>8, <1>0, <1>1 DEF Opened
      <4> QED BY <4>1, <4>2, SameEnd
    <3> QED BY <3>1, <3>2
  <2>13. ASSUME NEW j \in Pipes, NEW v \in BOOLEAN PROVE Closing(j, v)' = Closing(j, v)
    BY <2>8, <1>1, <1>2 DEF Closing
  <2>14. ASSUME NEW j \in Pipes, NEW v \in BOOLEAN PROVE Ended(j, v)'
    <3>0. Ended(j, v)
      BY <1>0 DEF Opened
    <3>1. CASE j = i
      <4>1. ~Open(i, v)
        BY <2>1 DEF Open
      <4>2. Ends(i, v) = {} /\ Closing(i, v) = {}
        BY <4>1, <3>0, <3>1 DEF Ended
      <4>3. Open(i, v)'
        BY <2>3, NewPageIs DEF Open
      <4>4. \A g \in Files : g \in Ends(i, v)' <=> g = IF v THEN w ELSE r
        <5>1. \A g \in Files \ {r, w} : g \notin Ends(i, v)'
          BY <4>2, <2>5 DEF Ends
        <5>2. r \in Ends(i, v)' <=> v = FALSE
          BY <2>4, <2>5 DEF Ends
        <5>3. w \in Ends(i, v)' <=> v = TRUE
          BY <2>4, <2>5 DEF Ends
        <5> QED BY <5>1, <5>2, <5>3, <2>1
      <4>5. Ends(i, v)' = {IF v THEN w ELSE r}
        <5>1. Ends(i, v)' \subseteq Files
          BY DEF Ends
        <5> QED BY <5>1, <4>4
      <4>6. Closing(i, v)' = {}
        BY <4>2, <2>13
      <4> QED BY <4>3, <4>5, <4>6, <3>1 DEF Ended
    <3>2. CASE j # i
      <4>1. Ends(j, v)' = Ends(j, v)
        <5>1. \A g \in {r, w} : g \notin Ends(j, v)' /\ g \notin Ends(j, v)
          <6>1. \A g \in {r, w} : file[g].type # "PIPE"
            BY <2>7
          <6>2. \A g \in {r, w} : file'[g].pipe = i
            BY <2>4, <2>5
          <6> QED BY <6>1, <6>2, <3>2 DEF Ends
        <5>2. \A g \in Files \ {r, w} : g \in Ends(j, v)' <=> g \in Ends(j, v)
          BY <2>5 DEF Ends
        <5>3. Ends(j, v) \subseteq Files /\ Ends(j, v)' \subseteq Files
          BY DEF Ends
        <5> QED BY <5>1, <5>2, <5>3
      <4>2. Open(j, v)' <=> Open(j, v)
        BY <3>2, <2>3 DEF Open
      <4> QED BY <4>1, <4>2, <3>0, <2>13, SameEnded
    <3> QED BY <3>1, <3>2
  <2>15. ASSUME NEW j \in Pipes, pipe'[j] # NoPage PROVE Open(j, TRUE)' \/ Open(j, FALSE)'
    <3>1. CASE j = i
      BY <3>1, <2>3, NewPageIs DEF Open
    <3>2. CASE j # i
      <4>1. pipe'[j] = pipe[j]
        BY <3>2, <2>3
      <4> QED BY <4>1, <2>15, <1>0 DEF Opened, Open
    <3> QED BY <3>1, <3>2
  <2>16. Opened'
    BY <2>12, <2>14, <2>15 DEF Opened
  <2> QED BY <2>9, <2>10, <2>11, <2>16 DEF IInv, Referenced
<1> QED BY <1>1, <1>3, <1>4

\* The invariant holds at the start.
LEMMA Initially == Init => IInv
<1> SUFFICES ASSUME Init PROVE IInv
  OBVIOUS
<1>1. Types
  BY DEF Init, Types, Unused, File, NoCall, NoPage
<1>2. \A p \in Proc : todo[p] = <<>> /\ arg[p] = NoCall /\ pc[p] \in {"user", "unused"}
                      /\ ~killed[p] /\ \A f \in Files : ofile[p][f] = 0
  BY DEF Init
<1>3. InCalls
  <2>1. NoRepeat(<<>>)
    BY DEF NoRepeat
  <2> QED BY <2>1, <1>2, CallKinds DEF InCalls, Call1
<1>4. ASSUME NEW f \in Files PROVE Counted(f) /\ Sound(f)
  <2>1. Fds(f) = {}
    <3> SUFFICES ASSUME NEW e \in Fds(f) PROVE FALSE
      OBVIOUS
    <3>1. PICK p \in Proc : \E k \in 1 .. ofile[p][f] : e = <<p, k>>
      BY FdsAre
    <3> QED BY <3>1, <1>2
  <2>2. InCall(f) = {}
    BY <1>2 DEF InCall, ToSet
  <2>3. file[f] = Unused
    BY DEF Init
  <2>4. Cardinality({}) = 0 /\ IsFiniteSet({})
    BY FS_EmptySet
  <2>5. Counted(f)
    BY <2>1, <2>2, <2>3, <2>4 DEF Counted, Unused
  <2> QED BY <2>2, <2>3, <2>5, <1>2 DEF Sound, Unused
<1>5. Opened
  <2>1. ASSUME NEW i \in Pipes PROVE pipe[i] = NoPage
    BY DEF Init
  <2>2. ASSUME NEW i \in Pipes, NEW w \in BOOLEAN PROVE Ends(i, w) = {} /\ Closing(i, w) = {}
    BY <1>2 DEF Init, Ends, Closing, Unused
  <2> QED BY <2>1, <2>2, <1>2 DEF Opened, Ended, Open, HasEnd
<1> QED BY <1>1, <1>3, <1>4, <1>5 DEF IInv, Referenced

\* It holds after a step that changes nothing.
LEMMA Stutter ==
  ASSUME IInv, UNCHANGED vars
  PROVE  IInv'
<1>0. Types /\ InCalls /\ Referenced /\ Opened
  BY DEF IInv
<1>1. UNCHANGED <<ofile, file, pipe, pc, arg, todo, asleep, killed, panicked>>
  BY DEF vars
<1>2. Types'
  BY <1>0, <1>1 DEF Types
<1>3. InCalls'
  BY <1>0, <1>1, SameCall DEF InCalls
<1>4. Referenced'
  BY <1>0, <1>1 DEF Referenced, Counted, Sound, Fds, InCall
<1>5. Opened'
  BY <1>0, <1>1 DEF Opened, Ended, Open, HasEnd, Ends, Closing
<1> QED BY <1>2, <1>3, <1>4, <1>5 DEF IInv

\* Every step keeps it.
LEMMA Inductive == IInv /\ [Next]_vars => IInv'
<1> SUFFICES ASSUME IInv, [Next]_vars PROVE IInv'
  OBVIOUS
<1>1. CASE UNCHANGED vars
  BY <1>1, Stutter
<1>2. ASSUME NEW p \in Proc, User(p) \/ Kernel(p) \/ Exit(p) \/ Kill(p) PROVE IInv'
  <2>1. CASE SysPipe(p) \/ PipeFile(p)
    BY <2>1, TakeFileStep DEF SysPipe, PipeFile, Runs
  <2>2. CASE \E f \in Files : SysDup(p, f) \/ SysClose(p, f)
    BY <2>2, SysDupStep, SysCloseStep
  <2>3. CASE \E q \in Proc : Fork(p, q)
    BY <2>3, ForkStep
  <2>4. CASE \E f \in Files, n \in Sizes, v \in Bytes : Call(p, f, n, v)
    BY <2>4, CallBegins
  <2>5. CASE PipeInit(p)
    BY <2>5, PipeInitStep
  <2>6. CASE \E f \in Files : FileClose(p, f)
    BY <2>6, FileCloseStep
  <2>7. CASE PipeClose(p) \/ Closed(p)
    BY <2>7, PipeCloseStep, ClosedStep
  <2>8. CASE PipeWrite(p) \/ PipeRead(p)
    BY <2>8, PipeWriteStep, PipeReadStep
  <2>9. CASE Exit(p) \/ Kill(p)
    BY <2>9, ExitStep, KillStep
  <2> QED BY <1>2, <2>1, <2>2, <2>3, <2>4, <2>5, <2>6, <2>7, <2>8, <2>9 DEF User, Kernel
<1> QED BY <1>1, <1>2 DEF Next

\* References are counted, an open end has exactly one file or one process that
\* closes it, and who reads or writes has the end, in every reachable state of
\* the file table and the pipes (file.c, pipe.c).
THEOREM PipeInvariant == Spec => []IInv
BY Initially, Inductive, PTL DEF Spec

\* The ends of a pipe, counted.
LEMMA OneEnd ==
  ASSUME NEW i \in Pipes, NEW w \in BOOLEAN, Ended(i, w)
  PROVE  Cardinality(Ends(i, w) \cup Closing(i, w)) = IF Open(i, w) THEN 1 ELSE 0
<1>1. CASE Open(i, w)
  <2>1. \E x : Ends(i, w) \cup Closing(i, w) = {x}
    <3>1. CASE Ends(i, w) # {}
      <4>1. PICK f \in Ends(i, w) : TRUE
        BY <3>1
      <4>2. Ends(i, w) \cup Closing(i, w) = {f}
        BY <4>1 DEF Ended
      <4> QED BY <4>2
    <3>2. CASE Closing(i, w) # {}
      <4>1. PICK p \in Closing(i, w) : TRUE
        BY <3>2
      <4>2. Ends(i, w) \cup Closing(i, w) = {p}
        BY <4>1 DEF Ended
      <4> QED BY <4>2
    <3> QED BY <3>1, <3>2, <1>1 DEF Ended
  <2> QED BY <2>1, <1>1, FS_Singleton
<1>2. CASE ~Open(i, w)
  <2>1. Ends(i, w) \cup Closing(i, w) = {}
    BY <1>2 DEF Ended
  <2> QED BY <2>1, <1>2, FS_EmptySet
<1> QED BY <1>1, <1>2

\* The invariant, counted.
LEMMA InvariantCounts == IInv => NothingDangles
<1> SUFFICES ASSUME IInv PROVE NothingDangles
  OBVIOUS
<1>0. Types /\ InCalls /\ Referenced /\ Opened
  BY DEF IInv
<1>1. ~panicked
  BY <1>0 DEF Types
<1>2. \A f \in Files : file[f].ref = Cardinality(Fds(f)) + Cardinality(InCall(f))
  BY <1>0 DEF Referenced, Counted
<1>3. ASSUME NEW i \in Pipes
      PROVE  /\ Cardinality(Ends(i, TRUE) \cup Closing(i, TRUE))
                = (IF pipe[i] # NoPage /\ pipe[i].writeopen THEN 1 ELSE 0)
             /\ Cardinality(Ends(i, FALSE) \cup Closing(i, FALSE))
                = (IF pipe[i] # NoPage /\ pipe[i].readopen THEN 1 ELSE 0)
  <2>1. Ended(i, TRUE) /\ Ended(i, FALSE)
    BY <1>0 DEF Opened
  <2>2. /\ Open(i, TRUE) <=> pipe[i] # NoPage /\ pipe[i].writeopen
        /\ Open(i, FALSE) <=> pipe[i] # NoPage /\ pipe[i].readopen
    BY DEF Open
  <2> QED BY <2>1, <2>2, OneEnd
<1>4. \A p \in Proc : pc[p] \in {"read", "write"} => Ends(arg[p].pipe, pc[p] = "write") # {}
  BY InUse
<1> QED BY <1>1, <1>2, <1>3, <1>4 DEF NothingDangles

\* Nobody has a file or a pipe that is gone and none is left over: file.ref is
\* the number of descriptors and calls that have the file, and a pipe's page
\* lives exactly as long as one of its ends (file.c:58-83, pipe.c:58-74).
THEOREM NothingEverDangles == Spec => []NothingDangles
BY PipeInvariant, InvariantCounts, PTL

-----------------------------------------------------------------------------
(* The counters, and the cells that they are for. *)

\* A number has one remainder.
LEMMA Division ==
  ASSUME NEW n \in Nat \ {0}, NEW q \in Int, NEW r \in 0 .. n - 1,
         NEW s \in Int, NEW t \in 0 .. n - 1, n * q + r = n * s + t
  PROVE  r = t
<1>1. CASE q = s
  BY <1>1
<1>2. CASE q > s
  <2>1. n * q >= n * (s + 1)
    BY <1>2
  <2> QED BY <2>1
<1>3. CASE q < s
  <2>1. n * s >= n * (q + 1)
    BY <1>3
  <2> QED BY <2>1
<1> QED BY <1>1, <1>2, <1>3

\* The remainder of a number that is written as a multiple and a rest.
LEMMA Remainder ==
  ASSUME NEW n \in Nat \ {0}, NEW q \in Int, NEW r \in 0 .. n - 1
  PROVE  (n * q + r) % n = r
<1> DEFINE x == n * q + r
<1>1. x \in Int
  OBVIOUS
<1>2. /\ x = n * (x \div n) + (x % n)
      /\ x % n \in 0 .. n - 1 /\ x \div n \in Int
  BY <1>1
<1> QED BY <1>2, Division

\* A counter that has passed WRAP starts again.
LEMMA Wrapped ==
  ASSUME NEW x \in 0 .. 2 * WRAP - 1
  PROVE  (x < WRAP => x % WRAP = x) /\ (x >= WRAP => x % WRAP = x - WRAP)
<1>0. WRAP \in Nat \ {0}
  BY PipeConstants
<1>1. CASE x < WRAP
  <2>1. x \in 0 .. WRAP - 1 /\ WRAP * 0 + x = x
    BY <1>0, <1>1
  <2>2. (WRAP * 0 + x) % WRAP = x
    BY <2>1, <1>0, Remainder
  <2> QED BY <2>1, <2>2, <1>0, <1>1
<1>2. CASE x >= WRAP
  <2>1. x - WRAP \in 0 .. WRAP - 1 /\ WRAP * 1 + (x - WRAP) = x
    BY <1>0, <1>2
  <2>2. (WRAP * 1 + (x - WRAP)) % WRAP = x - WRAP
    BY <2>1, <1>0, Remainder
  <2> QED BY <2>1, <2>2, <1>0, <1>2
<1> QED BY <1>0, <1>1, <1>2

\* WRAP in pipes.
LEMMA Rounds ==
  /\ WRAP \div PIPESIZE \in Int /\ WRAP = PIPESIZE * (WRAP \div PIPESIZE)
  /\ PIPESIZE \in Nat \ {0} /\ WRAP \in Nat /\ WRAP > PIPESIZE
<1>1. /\ WRAP = PIPESIZE * (WRAP \div PIPESIZE) + (WRAP % PIPESIZE)
      /\ WRAP \div PIPESIZE \in Int
  BY PipeConstants
<1> QED BY <1>1, PipeConstants

\* The number of bytes in a pipe, without the modulus.
LEMMA CntIs ==
  ASSUME NEW r \in Page
  PROVE  /\ Cnt(r) = IF r.nread <= r.nwrite THEN r.nwrite - r.nread
                     ELSE r.nwrite - r.nread + WRAP
         /\ Cnt(r) \in 0 .. WRAP - 1
<1>1. r.nread \in 0 .. WRAP - 1 /\ r.nwrite \in 0 .. WRAP - 1 /\ WRAP \in Nat
  BY PipeConstants DEF Page, Index
<1>2. PICK x \in 0 .. 2 * WRAP - 1 : x = r.nwrite - r.nread + WRAP
  BY <1>1
<1>3. (x < WRAP => x % WRAP = x) /\ (x >= WRAP => x % WRAP = x - WRAP)
  BY Wrapped
<1>4. Cnt(r) = x % WRAP
  BY <1>2 DEF Cnt
<1> QED BY <1>1, <1>2, <1>3, <1>4

\* The cell of x is d cells after that of y.
LEMMA Offset ==
  ASSUME NEW x \in Int, NEW y \in Int, NEW m \in Int, NEW d \in 0 .. PIPESIZE - 1,
         x - y = PIPESIZE * m + d
  PROVE  ((x % PIPESIZE) - y + WRAP) % PIPESIZE = d /\ x % PIPESIZE \in Cells
<1> DEFINE q == x \div PIPESIZE
           s == x % PIPESIZE
           u == WRAP \div PIPESIZE
<1>1. x = PIPESIZE * q + s /\ q \in Int /\ s \in 0 .. PIPESIZE - 1
  BY PipeConstants
<1>2. u \in Int /\ WRAP = PIPESIZE * u /\ PIPESIZE \in Nat \ {0}
  BY Rounds
<1> HIDE DEF q, s, u
<1>3. s - y + WRAP = PIPESIZE * (m - q + u) + d
  BY <1>1, <1>2
<1>4. PICK k \in Int : k = m - q + u
  BY <1>1, <1>2
<1>5. (PIPESIZE * k + d) % PIPESIZE = d
  BY <1>2, Remainder
<1> QED BY <1>1, <1>3, <1>4, <1>5 DEF s, Cells

\* Numbers that are rounds apart have the same cell.
LEMMA SameCell ==
  ASSUME NEW x \in Int, NEW y \in Int, NEW m \in Int, x = y + PIPESIZE * m
  PROVE  x % PIPESIZE = y % PIPESIZE
<1> DEFINE q == y \div PIPESIZE
           s == y % PIPESIZE
<1>0. PIPESIZE \in Nat \ {0}
  BY PipeConstants
<1>1. y = PIPESIZE * q + s /\ q \in Int /\ s \in 0 .. PIPESIZE - 1
  BY PipeConstants
<1> HIDE DEF q, s
<1>2. x = PIPESIZE * (q + m) + s
  BY <1>0, <1>1
<1>3. PICK k \in Int : k = q + m
  BY <1>1
<1>4. (PIPESIZE * k + s) % PIPESIZE = s
  BY <1>0, <1>1, Remainder
<1> QED BY <1>2, <1>3, <1>4 DEF s

\* Bytes that are put in come after those that are there.
LEMMA FilledIs ==
  ASSUME NEW r \in Page, NEW k \in Nat, NEW v \in Bytes, Cnt(r) + k <= PIPESIZE
  PROVE  /\ Cnt(Filled(r, k, v)) = Cnt(r) + k
         /\ \A x \in 0 .. Cnt(r) - 1 :
               Filled(r, k, v).data[Cell(Filled(r, k, v), x)] = r.data[Cell(r, x)]
         /\ \A x \in Cnt(r) .. Cnt(r) + k - 1 :
               Filled(r, k, v).data[Cell(Filled(r, k, v), x)] = v
<1> DEFINE s == Filled(r, k, v)
<1>1. /\ s \in Page /\ s.nread = r.nread /\ s.nwrite = (r.nwrite + k) % WRAP
      /\ s.data = Put(r.data, r.nwrite, k, v)
  <2>1. k \in Int
    OBVIOUS
  <2> QED BY <2>1, FilledPage
<1> HIDE DEF s
<1>2. PICK a \in 0 .. WRAP - 1, b \in 0 .. WRAP - 1 : a = r.nread /\ b = r.nwrite
  BY DEF Page, Index
<1>3. PICK n \in 0 .. PIPESIZE :
        n = Cnt(r) /\ n + k <= PIPESIZE /\ n = IF a <= b THEN b - a ELSE b - a + WRAP
  <2>1. Cnt(r) \in 0 .. PIPESIZE
    BY CntIs, Rounds
  <2> QED BY <2>1, <1>2, CntIs
<1>4. Cnt(s) = n + k
  <2>1. b + k \in 0 .. 2 * WRAP - 1
    BY <1>3, Rounds
  <2>2. /\ b + k < WRAP => s.nwrite = b + k
        /\ b + k >= WRAP => s.nwrite = b + k - WRAP
    <3>1. PICK y \in 0 .. 2 * WRAP - 1 : y = b + k
      BY <2>1
    <3>2. s.nwrite = y % WRAP
      BY <3>1, <1>1, <1>2
    <3>3. (y < WRAP => y % WRAP = y) /\ (y >= WRAP => y % WRAP = y - WRAP)
      BY Wrapped
    <3>4. WRAP \in Nat
      BY Rounds
    <3> QED BY <3>1, <3>2, <3>3, <3>4
  <2>3. Cnt(s) = IF a <= s.nwrite THEN s.nwrite - a ELSE s.nwrite - a + WRAP
    BY <1>1, <1>2, CntIs
  <2> QED BY <2>2, <2>3, <1>3, Rounds
<1>5. PICK u \in Int : WRAP = PIPESIZE * u
  BY Rounds
<1>6. ASSUME NEW x \in 0 .. n - 1 PROVE s.data[Cell(s, x)] = r.data[Cell(r, x)]
  <2>1. PICK d \in 0 .. PIPESIZE - 1 : d = PIPESIZE + x - n
    <3>1. PIPESIZE \in Nat
      BY Rounds
    <3>2. PIPESIZE + x - n \in 0 .. PIPESIZE - 1
      BY <3>1
    <3> QED BY <3>2
  <2>2. PICK m \in Int : a + x - b = PIPESIZE * m + d
    <3>1. CASE a <= b
      <4>1. a + x - b = PIPESIZE * (-1) + d
        BY <3>1, <2>1, <1>3, Rounds
      <4>2. -1 \in Int
        OBVIOUS
      <4> QED BY <4>1, <4>2
    <3>2. CASE ~(a <= b)
      <4>1. a + x - b = PIPESIZE * (u - 1) + d
        BY <3>2, <2>1, <1>3, <1>5, Rounds
      <4>2. u - 1 \in Int
        OBVIOUS
      <4> QED BY <4>1, <4>2
    <3> QED BY <3>1, <3>2
  <2>3. PICK c \in Cells : c = (a + x) % PIPESIZE /\ (c - b + WRAP) % PIPESIZE = d
    BY <2>2, Offset
  <2>4. ~(d < k)
    BY <2>1, <1>3, Rounds
  <2>5. Put(r.data, b, k, v)[c] = r.data[c]
    BY <2>3, <2>4 DEF Put, Cells
  <2>6. Cell(s, x) = c /\ Cell(r, x) = c
    BY <2>3, <1>1, <1>2 DEF Cell
  <2> QED BY <2>5, <2>6, <1>1, <1>2
<1>7. ASSUME NEW x \in n .. n + k - 1 PROVE s.data[Cell(s, x)] = v
  <2>1. PICK d \in 0 .. PIPESIZE - 1 : d = x - n
    <3>1. PIPESIZE \in Nat /\ n + k <= PIPESIZE
      BY <1>3, Rounds
    <3>2. x - n \in 0 .. PIPESIZE - 1
      BY <3>1
    <3> QED BY <3>2
  <2>2. PICK m \in Int : a + x - b = PIPESIZE * m + d
    <3>1. CASE a <= b
      <4>1. a + x - b = PIPESIZE * 0 + d
        BY <3>1, <2>1, <1>3, Rounds
      <4> QED BY <4>1
    <3>2. CASE ~(a <= b)
      <4>1. a + x - b = PIPESIZE * u + d
        BY <3>2, <2>1, <1>3, <1>5, Rounds
      <4> QED BY <4>1
    <3> QED BY <3>1, <3>2
  <2>3. PICK c \in Cells : c = (a + x) % PIPESIZE /\ (c - b + WRAP) % PIPESIZE = d
    BY <2>2, Offset
  <2>4. d < k
    BY <2>1, <1>3
  <2>5. Put(r.data, b, k, v)[c] = v
    BY <2>3, <2>4 DEF Put, Cells
  <2>6. Cell(s, x) = c
    BY <2>3, <1>1, <1>2 DEF Cell
  <2> QED BY <2>5, <2>6, <1>1, <1>2
<1> QED BY <1>3, <1>4, <1>6, <1>7 DEF s

\* Bytes that are taken out are the first ones.
LEMMA DrainedIs ==
  ASSUME NEW r \in Page, NEW k \in Nat, k <= Cnt(r), Cnt(r) <= PIPESIZE
  PROVE  /\ Cnt(Drained(r, k)) = Cnt(r) - k
         /\ \A x \in 0 .. Cnt(r) - k - 1 :
               Drained(r, k).data[Cell(Drained(r, k), x)] = r.data[Cell(r, x + k)]
<1> DEFINE s == Drained(r, k)
<1>1. /\ s \in Page /\ s.nwrite = r.nwrite /\ s.nread = (r.nread + k) % WRAP
      /\ s.data = Put(r.data, r.nread, k, Empty)
  <2>1. k \in Int
    OBVIOUS
  <2> QED BY <2>1, DrainedPage
<1> HIDE DEF s
<1>2. PICK a \in 0 .. WRAP - 1, b \in 0 .. WRAP - 1 : a = r.nread /\ b = r.nwrite
  BY DEF Page, Index
<1>3. PICK n \in 0 .. PIPESIZE :
        n = Cnt(r) /\ k <= n /\ n = IF a <= b THEN b - a ELSE b - a + WRAP
  <2>1. Cnt(r) \in 0 .. PIPESIZE
    BY CntIs, Rounds
  <2> QED BY <2>1, <1>2, CntIs
<1>4. PICK e \in 0 .. WRAP - 1 : e = s.nread /\ e = IF a + k < WRAP THEN a + k ELSE a + k - WRAP
  <2>1. a + k \in 0 .. 2 * WRAP - 1
    BY <1>3, Rounds
  <2>2. /\ a + k < WRAP => s.nread = a + k
        /\ a + k >= WRAP => s.nread = a + k - WRAP
    <3>1. PICK y \in 0 .. 2 * WRAP - 1 : y = a + k
      BY <2>1
    <3>2. s.nread = y % WRAP
      BY <3>1, <1>1, <1>2
    <3>3. (y < WRAP => y % WRAP = y) /\ (y >= WRAP => y % WRAP = y - WRAP)
      BY Wrapped
    <3>4. WRAP \in Nat
      BY Rounds
    <3> QED BY <3>1, <3>2, <3>3, <3>4
  <2>3. (IF a + k < WRAP THEN a + k ELSE a + k - WRAP) \in 0 .. WRAP - 1
    BY <2>1, Rounds
  <2> QED BY <2>1, <2>2, <2>3, Rounds
<1>5. Cnt(s) = n - k
  <2>1. Cnt(s) = IF e <= b THEN b - e ELSE b - e + WRAP
    BY <1>1, <1>2, <1>4, CntIs
  <2> QED BY <2>1, <1>3, <1>4, Rounds
<1>6. PICK u \in Int : WRAP = PIPESIZE * u
  BY Rounds
<1>7. ASSUME NEW x \in 0 .. n - k - 1 PROVE s.data[Cell(s, x)] = r.data[Cell(r, x + k)]
  <2>1. PICK d \in 0 .. PIPESIZE - 1 : d = x + k
    BY <1>3, Rounds
  <2>2. (a + d) - a = PIPESIZE * 0 + d
    BY Rounds
  <2>3. PICK c \in Cells : c = (a + d) % PIPESIZE /\ (c - a + WRAP) % PIPESIZE = d
    BY <2>2, Offset
  <2>4. ~(d < k)
    BY <2>1
  <2>5. Put(r.data, a, k, Empty)[c] = r.data[c]
    BY <2>3, <2>4 DEF Put, Cells
  <2>6. Cell(r, x + k) = c
    BY <2>1, <2>3, <1>2 DEF Cell
  <2>7. Cell(s, x) = c
    <3>1. PICK m \in Int : e + x = a + d + PIPESIZE * m
      <4>1. CASE a + k < WRAP
        <5>1. e + x = a + d + PIPESIZE * 0
          BY <4>1, <2>1, <1>4, Rounds
        <5> QED BY <5>1
      <4>2. CASE ~(a + k < WRAP)
        <5>1. e + x = a + d + PIPESIZE * (-u)
          BY <4>2, <2>1, <1>4, <1>6, Rounds
        <5>2. -u \in Int
          OBVIOUS
        <5> QED BY <5>1, <5>2
      <4> QED BY <4>1, <4>2
    <3>2. (e + x) % PIPESIZE = (a + d) % PIPESIZE
      BY <3>1, SameCell
    <3> QED BY <3>2, <2>3, <1>4 DEF Cell
  <2> QED BY <2>5, <2>6, <2>7, <1>1, <1>2
<1> QED BY <1>3, <1>5, <1>7 DEF s

\* So a pipe that holds bytes still does.
LEMMA FilledHolds ==
  ASSUME NEW r \in Page, NEW k \in Nat, NEW v \in Bytes, Cnt(r) + k <= PIPESIZE, Holds(r)
  PROVE  Holds(Filled(r, k, v))
<1>1. PICK n \in Nat : n = Cnt(r)
  BY CntIs, Rounds
<1>2. Cnt(Filled(r, k, v)) = n + k
  BY <1>1, FilledIs
<1>3. ASSUME NEW x \in 0 .. n + k - 1
      PROVE  Filled(r, k, v).data[Cell(Filled(r, k, v), x)] \in Bytes
  <2>1. CASE x < n
    <3>1. x \in 0 .. n - 1
      BY <2>1
    <3> QED BY <3>1, <1>1, FilledIs DEF Holds
  <2>2. CASE x >= n
    <3>1. x \in n .. n + k - 1
      BY <2>2
    <3> QED BY <3>1, <1>1, FilledIs
  <2> QED BY <2>1, <2>2
<1> QED BY <1>1, <1>2, <1>3 DEF Holds

\* The same for bytes that are read.
LEMMA DrainedHolds ==
  ASSUME NEW r \in Page, NEW k \in Nat, k <= Cnt(r), Holds(r)
  PROVE  Holds(Drained(r, k))
<1>1. PICK n \in Nat : n = Cnt(r) /\ n <= PIPESIZE
  BY CntIs, Rounds DEF Holds
<1>2. Cnt(Drained(r, k)) = n - k
  BY <1>1, DrainedIs
<1>3. ASSUME NEW x \in 0 .. n - k - 1
      PROVE  Drained(r, k).data[Cell(Drained(r, k), x)] \in Bytes
  <2>1. x + k \in 0 .. n - 1
    BY <1>1
  <2>2. r.data[Cell(r, x + k)] \in Bytes
    BY <2>1, <1>1 DEF Holds
  <2> QED BY <2>2, <1>1, DrainedIs
<1>4. n - k <= PIPESIZE
  BY <1>1, Rounds
<1> QED BY <1>2, <1>3, <1>4 DEF Holds

-----------------------------------------------------------------------------
(* Sleeping. *)

Reason(p) == asleep[p] =>
    /\ ~killed[p]
    /\ \/ pc[p] = "read"  /\ Count(arg[p].pipe) = 0 /\ pipe[arg[p].pipe].writeopen
       \/ pc[p] = "write" /\ Count(arg[p].pipe) = PIPESIZE
                          /\ pipe[arg[p].pipe].readopen

SInv == IInv /\ Stored /\ \A p \in Proc : Reason(p)

\* Count in terms of the page.
LEMMA CountCnt ==
  ASSUME NEW i
  PROVE  Count(i) = Cnt(pipe[i]) /\ Count(i)' = Cnt(pipe'[i])
BY DEF Count, Cnt

\* Somebody who sleeps on, on the same page.
LEMMA SameReason ==
  ASSUME NEW p \in Proc, Reason(p), asleep'[p] => asleep[p],
         asleep[p] => /\ killed'[p] = killed[p] /\ pc'[p] = pc[p] /\ arg'[p] = arg[p]
                      /\ pipe'[arg[p].pipe] = pipe[arg[p].pipe]
  PROVE  Reason(p)'
<1> SUFFICES ASSUME asleep'[p] PROVE Reason(p)'
  BY DEF Reason
<1>1. /\ asleep[p] /\ killed'[p] = killed[p] /\ pc'[p] = pc[p] /\ arg'[p] = arg[p]
      /\ pipe'[arg[p].pipe] = pipe[arg[p].pipe]
  OBVIOUS
<1>2. Count(arg[p].pipe)' = Count(arg[p].pipe)
  BY <1>1 DEF Count
<1> QED BY <1>1, <1>2 DEF Reason

\* A step that leaves the pages and everybody's sleep alone, of a process that
\* is not asleep.
LEMMA AwakeStep ==
  ASSUME SInv, UNCHANGED <<pipe, asleep>>, NEW p \in Proc, pc[p] \notin {"read", "write"} ,
         \A q \in Proc \ {p} : pc'[q] = pc[q] /\ arg'[q] = arg[q] /\ killed'[q] = killed[q]
  PROVE  Stored' /\ \A q \in Proc : Reason(q)'
<1>1. Stored'
  BY DEF SInv, Stored
<1>2. ~asleep[p]
  BY DEF SInv, Reason
<1>3. Reason(p)'
  BY <1>2 DEF Reason
<1>4. ASSUME NEW q \in Proc \ {p} PROVE Reason(q)'
  BY SameReason DEF SInv
<1> QED BY <1>1, <1>3, <1>4

\* Steps of the file table.
LEMMA FilesSleep ==
  ASSUME SInv, NEW p \in Proc,
         \/ SysPipe(p) \/ PipeFile(p) \/ Exit(p) \/ Closed(p)
         \/ \E f \in Files : SysDup(p, f) \/ SysClose(p, f) \/ FileClose(p, f)
         \/ \E f \in Files, n \in Sizes, v \in Bytes : Call(p, f, n, v)
  PROVE  Stored' /\ \A q \in Proc : Reason(q)'
<1>0. Types
  BY DEF SInv, IInv
<1>1. UNCHANGED <<pipe, asleep>> /\ pc[p] \notin {"read", "write"}
  BY DEF SysPipe, PipeFile, TakeFile, Exit, Closed, SysDup, SysClose, FileClose, Call, Runs
<1>2. \A q \in Proc \ {p} : pc'[q] = pc[q]
  BY <1>0 DEF Types, SysPipe, PipeFile, TakeFile, Exit, Closed, SysDup, SysClose, FileClose,
              Call, At
<1>3. \A q \in Proc \ {p} : arg'[q] = arg[q]
  BY <1>0 DEF Types, SysPipe, PipeFile, TakeFile, Exit, Closed, SysDup, SysClose, FileClose,
              Call
<1>4. \A q \in Proc \ {p} : killed'[q] = killed[q]
  BY <1>0 DEF Types, SysPipe, PipeFile, TakeFile, Exit, Closed, SysDup, SysClose, FileClose,
              Call
<1> QED BY <1>1, <1>2, <1>3, <1>4, AwakeStep

\* fork wakes nobody and lets nobody sleep.
LEMMA ForkSleep ==
  ASSUME SInv, NEW p \in Proc, NEW q \in Proc, Fork(p, q)
  PROVE  Stored' /\ \A r \in Proc : Reason(r)'
<1>0. Types
  BY DEF SInv, IInv
<1>1. UNCHANGED <<pipe, asleep, arg, killed>> /\ pc[q] = "unused"
  BY DEF Fork
<1>2. \A r \in Proc \ {q} : pc'[r] = pc[r]
  BY <1>0 DEF Types, Fork, At
<1> QED BY <1>1, <1>2, AwakeStep

\* kill wakes its victim, so that no killed process sleeps (proc.c:679-701).
LEMMA KillSleep ==
  ASSUME SInv, NEW p \in Proc, Kill(p)
  PROVE  Stored' /\ \A q \in Proc : Reason(q)'
<1>0. Types /\ Stored
  BY DEF SInv, IInv
<1>1. /\ UNCHANGED <<pipe, pc, arg>> /\ killed' = [killed EXCEPT ![p] = TRUE]
      /\ asleep' = [asleep EXCEPT ![p] = FALSE]
  BY DEF Kill
<1>2. /\ ~asleep'[p]
      /\ \A q \in Proc \ {p} : asleep'[q] = asleep[q] /\ killed'[q] = killed[q]
  BY <1>0, <1>1 DEF Types
<1>3. Reason(p)'
  BY <1>2 DEF Reason
<1>4. ASSUME NEW q \in Proc \ {p} PROVE Reason(q)'
  BY <1>1, <1>2, SameReason DEF SInv
<1>5. Stored'
  BY <1>0, <1>1 DEF Stored
<1> QED BY <1>3, <1>4, <1>5

\* A page where nobody sleeps yet.
LEMMA PipeInitSleep ==
  ASSUME SInv, NEW p \in Proc, PipeInit(p)
  PROVE  Stored' /\ \A q \in Proc : Reason(q)'
<1>0. IInv /\ Types /\ Stored /\ \A q \in Proc : Reason(q)
  BY DEF SInv, IInv
<1>1. /\ pc[p] = "alloc" /\ UNCHANGED <<arg, asleep, killed, panicked>>
      /\ \/ pc' = [pc EXCEPT ![p] = "close"] /\ UNCHANGED <<pipe, file, ofile, todo>>
         \/ \E i \in Pipes, r \in Files, w \in Files : Makes(p, i, r, w)
  BY <1>0, PipeInitDoes
<1>2. \A q \in Proc \ {p} : pc'[q] = pc[q]
  BY <1>0, <1>1 DEF Types, Makes
<1>3. CASE UNCHANGED pipe
  BY <1>1, <1>2, <1>3, AwakeStep
<1>4. ASSUME NEW i \in Pipes, NEW r \in Files, NEW w \in Files, Makes(p, i, r, w)
      PROVE  Stored' /\ \A q \in Proc : Reason(q)'
  <2>1. pipe[i] = NoPage /\ pipe'[i] = NewPage /\ \A j \in Pipes \ {i} : pipe'[j] = pipe[j]
    BY <1>0, <1>4 DEF Makes, Types
  <2>2. Holds(NewPage)
    <3>1. NewPage.nread = 0 /\ NewPage.nwrite = 0
      BY DEF NewPage
    <3>2. Cnt(NewPage) = 0
      BY <3>1, CntIs, NewPageIs, Rounds
    <3> QED BY <3>2, Rounds DEF Holds
  <2>3. Stored'
    BY <2>1, <2>2, <1>0 DEF Stored
  <2>4. ~asleep[p]
    BY <1>0, <1>1 DEF Reason
  <2>5. Reason(p)'
    BY <2>4, <1>1 DEF Reason
  <2>6. ASSUME NEW q \in Proc \ {p} PROVE Reason(q)'
    <3>1. asleep[q] => pipe'[arg[q].pipe] = pipe[arg[q].pipe]
      <4> SUFFICES ASSUME asleep[q] PROVE pipe'[arg[q].pipe] = pipe[arg[q].pipe]
        OBVIOUS
      <4>1. pc[q] \in {"read", "write"}
        BY <1>0 DEF Reason
      <4>2. arg[q].pipe \in Pipes /\ pipe[arg[q].pipe] # NoPage
        BY <4>1, <1>0, InUse
      <4> QED BY <4>2, <2>1
    <3> QED BY <3>1, <1>0, <1>1, <1>2, SameReason
  <2> QED BY <2>3, <2>5, <2>6
<1> QED BY <1>1, <1>3, <1>4

\* pipeclose wakes those that the end was for; the others' page stays.
LEMMA PipeCloseSleep ==
  ASSUME SInv, NEW p \in Proc, PipeClose(p)
  PROVE  Stored' /\ \A q \in Proc : Reason(q)'
<1>0. IInv /\ Types /\ InCalls /\ Opened /\ Stored /\ \A q \in Proc : Reason(q)
  BY DEF SInv, IInv
<1>1. pc[p] \in {"close", "exit"} /\ arg[p] # NoCall /\ UNCHANGED <<pc, killed>>
      /\ arg' = [arg EXCEPT ![p] = NoCall]
  BY DEF PipeClose
<1>2. arg[p] \in CloseCall
  BY <1>0, <1>1 DEF InCalls, Call1, Types
<1>3. PICK i \in Pipes, w \in BOOLEAN : i = arg[p].pipe /\ w = arg[p].writable
  BY <1>2 DEF CloseCall
<1>4. p \in Closing(i, w)
  BY <1>1, <1>3 DEF Closing
<1>5. pipe[i] # NoPage /\ pipe[i] \in Page
  BY <1>4, <1>0 DEF Opened, Ended, Open, Types
<1> DEFINE left == [pipe[i] EXCEPT !.readopen = pipe[i].readopen /\ w,
                                   !.writeopen = pipe[i].writeopen /\ ~w]
<1>6. /\ asleep' = Woken(IF w THEN "read" ELSE "write", i)
      /\ pipe' = [pipe EXCEPT ![i] =
             IF left.readopen \/ left.writeopen THEN left ELSE NoPage]
  BY <1>3 DEF PipeClose
<1>7. /\ left.readopen <=> pipe[i].readopen /\ w
      /\ left.writeopen <=> pipe[i].writeopen /\ ~w
      /\ left.nread = pipe[i].nread /\ left.nwrite = pipe[i].nwrite
      /\ left.data = pipe[i].data
  BY <1>5 DEF Page
<1>8. /\ pipe'[i] = (IF left.readopen \/ left.writeopen THEN left ELSE NoPage)
      /\ \A j \in Pipes \ {i} : pipe'[j] = pipe[j]
  BY <1>6, <1>0 DEF Types
<1> HIDE DEF left
<1>9. Stored'
  <2>1. Holds(left)
    <3>1. Cnt(left) = Cnt(pipe[i]) /\ \A x : Cell(left, x) = Cell(pipe[i], x)
      BY <1>7 DEF Cnt, Cell
    <3>2. Holds(pipe[i])
      BY <1>0, <1>5 DEF Stored
    <3> QED BY <3>1, <3>2, <1>7 DEF Holds
  <2> QED BY <2>1, <1>0, <1>8 DEF Stored
<1>10. \A q \in Proc \ {p} : arg'[q] = arg[q]
  BY <1>0, <1>1 DEF Types
<1>11. \A q \in Proc : asleep'[q] <=>
          asleep[q] /\ ~(pc[q] = (IF w THEN "read" ELSE "write") /\ arg[q].pipe = i)
  BY <1>0, <1>6, WokenIs
<1>12. ASSUME NEW q \in Proc PROVE Reason(q)'
  <2>1. SUFFICES ASSUME asleep'[q] PROVE Reason(q)'
    BY DEF Reason
  <2>2. asleep[q] /\ ~(pc[q] = (IF w THEN "read" ELSE "write") /\ arg[q].pipe = i)
    BY <2>1, <1>11
  <2>3. pc[q] \in {"read", "write"} /\ q # p
    BY <2>2, <1>0, <1>1 DEF Reason
  <2>4. arg'[q] = arg[q] /\ pc'[q] = pc[q] /\ killed'[q] = killed[q] /\ arg[q].pipe \in Pipes
    BY <2>3, <1>0, <1>1, <1>10, InUse
  <2>5. CASE arg[q].pipe # i
    <3>1. pipe'[arg[q].pipe] = pipe[arg[q].pipe]
      BY <2>4, <2>5, <1>8
    <3> QED BY <3>1, <2>2, <2>4, <1>0, SameReason
  <2>6. CASE arg[q].pipe = i /\ w
    <3>1. pc[q] = "write" /\ Count(i) = PIPESIZE /\ pipe[i].readopen /\ ~killed[q]
      BY <2>2, <2>3, <2>6, <1>0 DEF Reason
    <3>2. pipe'[i] = left /\ left.readopen
      BY <3>1, <2>6, <1>7, <1>8
    <3>3. Count(i)' = Count(i)
      BY <3>2, <1>7 DEF Count
    <3>4. Count(arg[q].pipe)' = PIPESIZE /\ pipe'[arg'[q].pipe].readopen
      BY <3>1, <3>2, <3>3, <2>4, <2>6 DEF Count
    <3> QED BY <3>1, <3>4, <2>4 DEF Reason
  <2>7. CASE arg[q].pipe = i /\ ~w
    <3>1. pc[q] = "read" /\ Count(i) = 0 /\ pipe[i].writeopen /\ ~killed[q]
      BY <2>2, <2>3, <2>7, <1>0 DEF Reason
    <3>2. pipe'[i] = left /\ left.writeopen
      BY <3>1, <2>7, <1>7, <1>8
    <3>3. Count(i)' = Count(i)
      BY <3>2, <1>7 DEF Count
    <3>4. Count(arg[q].pipe)' = 0 /\ pipe'[arg'[q].pipe].writeopen
      BY <3>1, <3>2, <3>3, <2>4, <2>7 DEF Count
    <3> QED BY <3>1, <3>4, <2>4 DEF Reason
  <2> QED BY <2>5, <2>6, <2>7
<1> QED BY <1>9, <1>12

\* One page changes, and holds what it should.
LEMMA StoredStep ==
  ASSUME Types, Stored, NEW i \in Pipes, NEW r, Holds(r),
         pipe' = [pipe EXCEPT ![i] = r]
  PROVE  Stored' /\ pipe'[i] = r /\ \A j \in Pipes \ {i} : pipe'[j] = pipe[j]
<1>1. pipe'[i] = r /\ \A j \in Pipes \ {i} : pipe'[j] = pipe[j]
  BY DEF Types
<1> QED BY <1>1 DEF Stored

\* A call that only returns.
LEMMA ReturnSleep ==
  ASSUME SInv, NEW p \in Proc, ~asleep[p], Return(p), UNCHANGED <<pipe, asleep, killed>>
  PROVE  Stored' /\ \A q \in Proc : Reason(q)'
<1>0. Types /\ Stored /\ \A q \in Proc : Reason(q)
  BY DEF SInv, IInv
<1>1. \A q \in Proc \ {p} : pc'[q] = pc[q] /\ arg'[q] = arg[q]
  BY <1>0 DEF Return, At, Types
<1>2. Reason(p)'
  BY DEF Reason
<1>3. ASSUME NEW q \in Proc \ {p} PROVE Reason(q)'
  BY <1>0, <1>1, SameReason
<1>4. Stored'
  BY <1>0 DEF Stored
<1> QED BY <1>2, <1>3, <1>4

\* Another process, that sleeps in the same pipe and is not woken.
LEMMA OthersSleep ==
  ASSUME SInv, NEW p \in Proc, NEW i \in Pipes, NEW c, UNCHANGED killed,
         \A q \in Proc \ {p} : pc'[q] = pc[q] /\ arg'[q] = arg[q],
         \A q \in Proc \ {p} : asleep'[q] <=> asleep[q] /\ ~(pc[q] = c /\ arg[q].pipe = i),
         \A j \in Pipes \ {i} : pipe'[j] = pipe[j],
         \A q \in Proc \ {p} : asleep[q] /\ arg[q].pipe = i /\ pc[q] # c =>
              /\ Cnt(pipe'[i]) = Cnt(pipe[i]) /\ pipe'[i].readopen = pipe[i].readopen
              /\ pipe'[i].writeopen = pipe[i].writeopen
  PROVE  \A q \in Proc \ {p} : Reason(q)'
<1>0. IInv /\ \A q \in Proc : Reason(q)
  BY DEF SInv
<1> SUFFICES ASSUME NEW q \in Proc \ {p}, asleep'[q] PROVE Reason(q)'
  BY DEF Reason
<1>1. asleep[q] /\ ~(pc[q] = c /\ arg[q].pipe = i) /\ pc'[q] = pc[q] /\ arg'[q] = arg[q]
      /\ killed'[q] = killed[q]
  OBVIOUS
<1>2. pc[q] \in {"read", "write"}
  BY <1>0, <1>1 DEF Reason
<1>3. arg[q].pipe \in Pipes
  BY <1>0, <1>2, InUse
<1>4. CASE arg[q].pipe # i
  <2>1. pipe'[arg[q].pipe] = pipe[arg[q].pipe]
    BY <1>3, <1>4
  <2> QED BY <2>1, <1>0, <1>1, SameReason
<1>5. CASE arg[q].pipe = i
  <2>1. /\ Cnt(pipe'[i]) = Cnt(pipe[i]) /\ pipe'[i].readopen = pipe[i].readopen
        /\ pipe'[i].writeopen = pipe[i].writeopen
    BY <1>1, <1>5
  <2>2. Count(arg[q].pipe)' = Cnt(pipe'[i]) /\ Count(arg[q].pipe) = Cnt(pipe[i])
    BY <1>1, <1>5 DEF Count, Cnt
  <2> QED BY <2>1, <2>2, <1>0, <1>1, <1>5 DEF Reason
<1> QED BY <1>4, <1>5

\* pipewrite sleeps on a full pipe only, and wakes the readers when it puts bytes
\* in (pipe.c:76-103).
LEMMA PipeWriteSleep ==
  ASSUME SInv, NEW p \in Proc, PipeWrite(p)
  PROVE  Stored' /\ \A q \in Proc : Reason(q)'
<1>0. IInv /\ Types /\ InCalls /\ Stored /\ \A q \in Proc : Reason(q)
  BY DEF SInv, IInv
<1>1. /\ pc[p] = "write" /\ ~asleep[p] /\ UNCHANGED killed
      /\ Writes(p, arg[p].pipe, PIPESIZE - Count(arg[p].pipe))
  BY <1>0, PipeWriteDoes
<1>2. PICK i \in Pipes : i = arg[p].pipe /\ pipe[i] \in Page /\ pipe[i] # NoPage
  BY <1>0, <1>1, InUse
<1>3. arg[p].byte \in Bytes /\ arg[p].n \in Nat
  BY <1>0, <1>1, InUse DEF InCalls, Call1
<1>4. PICK n \in Nat : n = Cnt(pipe[i]) /\ n = Count(i) /\ n <= PIPESIZE /\ Holds(pipe[i])
  BY <1>0, <1>2, CntIs, CountCnt, Rounds DEF Stored, Holds
<1>5. PICK room \in Nat : room = PIPESIZE - n /\ n + room = PIPESIZE
  BY <1>4, Rounds
<1>6. Writes(p, i, room)
  BY <1>1, <1>2, <1>4, <1>5
<1>7. ASSUME NEW k \in Nat, k <= room,
             pipe' = [pipe EXCEPT ![i] = Filled(pipe[i], k, arg[p].byte)]
      PROVE  /\ Stored' /\ Cnt(pipe'[i]) = n + k /\ pipe'[i].readopen = pipe[i].readopen
             /\ pipe'[i].writeopen = pipe[i].writeopen
             /\ \A j \in Pipes \ {i} : pipe'[j] = pipe[j]
  <2>0. n + k <= PIPESIZE /\ k \in Int
    BY <1>5, <1>7, Rounds
  <2>1. Holds(Filled(pipe[i], k, arg[p].byte))
    BY <2>0, <1>2, <1>3, <1>4, FilledHolds
  <2>2. Cnt(Filled(pipe[i], k, arg[p].byte)) = n + k
    <3>1. PICK r \in Page, v \in Bytes : r = pipe[i] /\ v = arg[p].byte
      BY <1>2, <1>3
    <3>2. Cnt(r) + k <= PIPESIZE
      BY <3>1, <2>0, <1>4
    <3>3. Cnt(Filled(r, k, v)) = Cnt(r) + k
      BY <3>2, FilledIs
    <3> QED BY <3>1, <3>3, <1>4
  <2>3. /\ Filled(pipe[i], k, arg[p].byte).readopen = pipe[i].readopen
        /\ Filled(pipe[i], k, arg[p].byte).writeopen = pipe[i].writeopen
    BY <2>0, <1>2, <1>3, FilledPage
  <2>4. /\ Stored' /\ pipe'[i] = Filled(pipe[i], k, arg[p].byte)
        /\ \A j \in Pipes \ {i} : pipe'[j] = pipe[j]
    BY <2>1, <1>0, <1>7, StoredStep
  <2> QED BY <2>2, <2>3, <2>4
\* Writers who sleep are there because the pipe is full: there is no room.
<1>8. \A q \in Proc \ {p} : asleep[q] /\ arg[q].pipe = i /\ pc[q] # "read" => room = 0
  <2> SUFFICES ASSUME NEW q \in Proc \ {p}, asleep[q], arg[q].pipe = i, pc[q] # "read"
               PROVE  room = 0
    OBVIOUS
  <2>1. Count(arg[q].pipe) = PIPESIZE
    BY <1>0 DEF Reason
  <2> QED BY <2>1, <1>4, <1>5, Rounds
<1>9. CASE Return(p) /\ UNCHANGED <<pipe, asleep>>
  BY <1>1, <1>9, ReturnSleep
<1>10. CASE /\ pipe[i].readopen /\ ~killed[p]
            /\ pipe' = [pipe EXCEPT ![i] = Filled(pipe[i], room, arg[p].byte)]
            /\ arg' = [arg EXCEPT ![p].n = arg[p].n - room]
            /\ asleep' = [Woken("read", i) EXCEPT ![p] = TRUE]
            /\ UNCHANGED pc
  <2>1. /\ Stored' /\ Cnt(pipe'[i]) = n + room /\ pipe'[i].readopen = pipe[i].readopen
        /\ pipe'[i].writeopen = pipe[i].writeopen
        /\ \A j \in Pipes \ {i} : pipe'[j] = pipe[j]
    <3>1. room <= room
      OBVIOUS
    <3> QED BY <3>1, <1>7, <1>10
  <2>2. arg'[p] = [arg[p] EXCEPT !.n = arg[p].n - room]
        /\ \A q \in Proc \ {p} : arg'[q] = arg[q]
    BY <1>0, <1>10 DEF Types
  <2>3. arg'[p].pipe = i
    BY <2>2, <1>0, <1>1, <1>2, InUse DEF IOCall
  <2>4. \A q \in Proc \ {p} : asleep'[q] <=> asleep[q] /\ ~(pc[q] = "read" /\ arg[q].pipe = i)
    BY <1>0, <1>10, WokenIs
  <2>5. \A q \in Proc \ {p} : asleep[q] /\ arg[q].pipe = i /\ pc[q] # "read" =>
              /\ Cnt(pipe'[i]) = Cnt(pipe[i]) /\ pipe'[i].readopen = pipe[i].readopen
              /\ pipe'[i].writeopen = pipe[i].writeopen
    BY <2>1, <1>4, <1>8
  <2>6. \A q \in Proc \ {p} : Reason(q)'
    <3>1. \A q \in Proc \ {p} : pc'[q] = pc[q] /\ arg'[q] = arg[q]
      BY <2>2, <1>10
    <3>2. UNCHANGED killed /\ \A j \in Pipes \ {i} : pipe'[j] = pipe[j]
      BY <2>1, <1>1
    <3> QED BY <3>1, <3>2, <2>4, <2>5, OthersSleep, SMTT(30)
  <2>7. Reason(p)'
    <3>1. Count(arg[p].pipe)' = PIPESIZE
      BY <2>1, <2>3, <1>5 DEF Count, Cnt
    <3>2. pipe'[arg'[p].pipe].readopen /\ ~killed'[p] /\ pc'[p] = "write"
      BY <2>1, <2>3, <1>1, <1>10
    <3> QED BY <3>1, <3>2 DEF Reason
  <2> QED BY <2>1, <2>6, <2>7
<1>11. ASSUME NEW k \in Nat, k <= room, asleep' = Woken("read", i), Return(p),
              pipe' = [pipe EXCEPT ![i] = Filled(pipe[i], k, arg[p].byte)]
       PROVE  Stored' /\ \A q \in Proc : Reason(q)'
  <2>1. /\ Stored' /\ Cnt(pipe'[i]) = n + k /\ pipe'[i].readopen = pipe[i].readopen
        /\ pipe'[i].writeopen = pipe[i].writeopen
        /\ \A j \in Pipes \ {i} : pipe'[j] = pipe[j]
    BY <1>7, <1>11
  <2>2. \A q \in Proc \ {p} : pc'[q] = pc[q] /\ arg'[q] = arg[q]
    BY <1>0, <1>11 DEF Return, At, Types
  <2>3. \A q \in Proc : asleep'[q] <=> asleep[q] /\ ~(pc[q] = "read" /\ arg[q].pipe = i)
    BY <1>0, <1>11, WokenIs
  <2>4. \A q \in Proc \ {p} : asleep[q] /\ arg[q].pipe = i /\ pc[q] # "read" =>
              /\ Cnt(pipe'[i]) = Cnt(pipe[i]) /\ pipe'[i].readopen = pipe[i].readopen
              /\ pipe'[i].writeopen = pipe[i].writeopen
    <3>1. room = 0 => k = 0
      BY <1>11
    <3> QED BY <3>1, <2>1, <1>4, <1>8
  <2>5. \A q \in Proc \ {p} : Reason(q)'
    <3>1. UNCHANGED killed /\ \A j \in Pipes \ {i} : pipe'[j] = pipe[j]
      BY <2>1, <1>1
    <3>2. \A q \in Proc \ {p} : asleep'[q] <=> asleep[q] /\ ~(pc[q] = "read" /\ arg[q].pipe = i)
      BY <2>3
    <3> QED BY <3>1, <3>2, <2>2, <2>4, OthersSleep
  <2>6. Reason(p)'
    BY <2>3, <1>1 DEF Reason
  <2> QED BY <2>1, <2>5, <2>6
<1> QED BY <1>6, <1>9, <1>10, <1>11 DEF Writes

\* piperead sleeps on an empty pipe that can still be written, and wakes the
\* writers when it takes bytes out (pipe.c:105-130).
LEMMA PipeReadSleep ==
  ASSUME SInv, NEW p \in Proc, PipeRead(p)
  PROVE  Stored' /\ \A q \in Proc : Reason(q)'
<1>0. IInv /\ Types /\ Stored /\ \A q \in Proc : Reason(q)
  BY DEF SInv, IInv
<1>1. pc[p] = "read" /\ ~asleep[p] /\ UNCHANGED killed /\ Reads(p, arg[p].pipe)
  BY <1>0, PipeReadDoes
<1>2. PICK i \in Pipes : i = arg[p].pipe /\ pipe[i] \in Page /\ pipe[i] # NoPage
  BY <1>0, <1>1, InUse
<1>3. Cnt(pipe[i]) = Count(i) /\ Holds(pipe[i])
  BY <1>0, <1>2, CountCnt DEF Stored
<1>4. CASE Return(p) /\ UNCHANGED <<pipe, asleep>>
  BY <1>1, <1>4, ReturnSleep
<1>5. CASE /\ Count(i) = 0 /\ pipe[i].writeopen /\ ~killed[p]
           /\ asleep' = [asleep EXCEPT ![p] = TRUE] /\ UNCHANGED <<pipe, pc, arg>>
  <2>1. \A q \in Proc \ {p} : asleep'[q] = asleep[q]
    BY <1>0, <1>5 DEF Types
  <2>2. \A q \in Proc \ {p} : Reason(q)'
    BY <2>1, <1>0, <1>1, <1>5, SameReason
  <2>3. Count(arg[p].pipe)' = Count(i)
    BY <1>2, <1>5 DEF Count
  <2>4. Reason(p)'
    BY <2>3, <1>1, <1>2, <1>5 DEF Reason
  <2>5. Stored'
    BY <1>0, <1>5 DEF Stored
  <2> QED BY <2>2, <2>4, <2>5
<1>6. ASSUME NEW k \in Nat, k <= Count(i), ~(Count(i) = 0 /\ pipe[i].writeopen),
             asleep' = Woken("write", i), Return(p),
             pipe' = [pipe EXCEPT ![i] = Drained(pipe[i], k)]
      PROVE  Stored' /\ \A q \in Proc : Reason(q)'
  <2>1. Holds(Drained(pipe[i], k))
    BY <1>2, <1>3, <1>6, DrainedHolds
  <2>2. Stored' /\ \A j \in Pipes \ {i} : pipe'[j] = pipe[j]
    BY <2>1, <1>0, <1>6, StoredStep
  <2>3. \A q \in Proc \ {p} : pc'[q] = pc[q] /\ arg'[q] = arg[q]
    BY <1>0, <1>6 DEF Return, At, Types
  <2>4. \A q \in Proc : asleep'[q] <=> asleep[q] /\ ~(pc[q] = "write" /\ arg[q].pipe = i)
    BY <1>0, <1>6, WokenIs
  <2>5. \A q \in Proc \ {p} : ~(asleep[q] /\ arg[q].pipe = i /\ pc[q] # "write")
    BY <1>0, <1>6 DEF Reason
  <2>6. \A q \in Proc \ {p} : Reason(q)'
    BY <2>2, <2>3, <2>4, <2>5, <1>1, OthersSleep
  <2>7. Reason(p)'
    BY <2>4, <1>1 DEF Reason
  <2> QED BY <2>2, <2>6, <2>7
<1>7. Reads(p, i)
  BY <1>1, <1>2
<1> QED BY <1>4, <1>5, <1>6, <1>7 DEF Reads

\* Nobody sleeps at the start.
LEMMA SleepInitially == Init => SInv
<1> SUFFICES ASSUME Init PROVE SInv
  OBVIOUS
<1>1. IInv
  BY Initially
<1>2. \A i \in Pipes : pipe[i] = NoPage
  BY DEF Init
<1>3. \A p \in Proc : ~asleep[p]
  BY DEF Init
<1> QED BY <1>1, <1>2, <1>3 DEF SInv, Stored, Reason

\* Every step keeps the bytes in their cells and the sleepers' reasons.
LEMMA SleepInductive == SInv /\ [Next]_vars => SInv'
<1> SUFFICES ASSUME SInv, [Next]_vars PROVE SInv'
  OBVIOUS
<1>0. IInv /\ IInv' /\ Stored /\ \A p \in Proc : Reason(p)
  BY Inductive DEF SInv
<1>1. CASE UNCHANGED vars
  <2>1. UNCHANGED <<pipe, asleep, killed, pc, arg>>
    BY <1>1 DEF vars
  <2>2. Stored'
    BY <2>1, <1>0 DEF Stored
  <2>3. \A p \in Proc : Reason(p)'
    BY <2>1, <1>0, SameReason
  <2> QED BY <2>2, <2>3, <1>0 DEF SInv
<1>2. ASSUME NEW p \in Proc, User(p) \/ Kernel(p) \/ Exit(p) \/ Kill(p)
      PROVE  Stored' /\ \A q \in Proc : Reason(q)'
  <2>1. CASE \/ SysPipe(p) \/ PipeFile(p) \/ Exit(p) \/ Closed(p)
             \/ \E f \in Files : SysDup(p, f) \/ SysClose(p, f) \/ FileClose(p, f)
             \/ \E f \in Files, n \in Sizes, v \in Bytes : Call(p, f, n, v)
    BY <2>1, FilesSleep
  <2>2. CASE \E q \in Proc : Fork(p, q)
    BY <2>2, ForkSleep
  <2>3. CASE PipeInit(p) \/ PipeClose(p) \/ Kill(p)
    BY <2>3, PipeInitSleep, PipeCloseSleep, KillSleep
  <2>4. CASE PipeWrite(p) \/ PipeRead(p)
    BY <2>4, PipeWriteSleep, PipeReadSleep
  <2> QED BY <1>2, <2>1, <2>2, <2>3, <2>4 DEF User, Kernel
<1>3. [Next]_vars => SInv'
  BY <1>0, <1>1, <1>2 DEF Next, SInv
<1> QED BY <1>3

\* The cells between nread and nwrite hold written bytes, never more than
\* PIPESIZE, and sleepers have a reason, in every reachable state
\* (pipe.c:76-130).
THEOREM PipeSleepInvariant == Spec => []SInv
BY SleepInitially, SleepInductive, PTL DEF Spec

\* No wakeup is lost: who sleeps in piperead has an empty pipe that can be
\* written, who sleeps in pipewrite a full one that can be read, and neither is
\* killed (pipe.c:58-130, proc.c:679-701).
THEOREM SleepersHaveReason == Spec => []SleeperHasReason
<1>1. SInv => SleeperHasReason
  BY DEF SInv, Reason, SleeperHasReason
<1> QED BY <1>1, PipeSleepInvariant, PTL

-----------------------------------------------------------------------------
(* A pipe is a queue. *)

\* The bytes of a page, in the order in which they are read.
Line(r) == [j \in 1 .. Cnt(r) |-> r.data[Cell(r, j - 1)]]

\* They are as many as the counters say.
LEMMA LineIs ==
  ASSUME NEW r \in Page, Holds(r)
  PROVE  Line(r) \in Seq(Bytes) /\ Len(Line(r)) = Cnt(r) /\ Cnt(r) \in Nat
         /\ Cnt(r) <= PIPESIZE
         /\ \A j \in 1 .. Cnt(r) : Line(r)[j] = r.data[Cell(r, j - 1)]
<1>1. PICK n \in Nat : n = Cnt(r) /\ n <= PIPESIZE
  BY CntIs, Rounds DEF Holds
<1>2. ASSUME NEW j \in 1 .. n PROVE r.data[Cell(r, j - 1)] \in Bytes
  <2>1. j - 1 \in 0 .. n - 1
    BY <1>1
  <2> QED BY <2>1, <1>1 DEF Holds
<1>3. Line(r) \in [1 .. n -> Bytes]
  BY <1>1, <1>2 DEF Line
<1>4. Line(r) \in Seq(Bytes) /\ Len(Line(r)) = n
  BY <1>3
<1> QED BY <1>1, <1>4 DEF Line

\* The queue of the refinement is the line of bytes.
LEMMA QueueIs ==
  ASSUME NEW i \in Pipes, pipe[i] \in Page, pipe[i] # NoPage
  PROVE  Queue(i) = Line(pipe[i])
<1>1. Count(i) = Cnt(pipe[i]) /\ Cnt(pipe[i]) \in Int /\ pipe[i].nread \in Int
  BY CountCnt, CntIs, Rounds DEF Page, Index
<1>2. \A j \in 1 .. Cnt(pipe[i]) : pipe[i].nread + j - 1 = pipe[i].nread + (j - 1)
  BY <1>1
<1> QED BY <1>1, <1>2 DEF Queue, Line, Cell

\* A sequence that another one begins with.
LEMMA PrefixIf ==
  ASSUME NEW S, NEW s \in Seq(S), NEW t \in Seq(S), Len(s) <= Len(t),
         \A j \in 1 .. Len(s) : s[j] = t[j]
  PROVE  One!IsPrefix(s, t)
<1>1. SubSeq(s, 1, Len(s)) = SubSeq(t, 1, Len(s))
  OBVIOUS
<1> QED BY <1>1 DEF One!IsPrefix

\* A sequence that another one ends with.
LEMMA SuffixIf ==
  ASSUME NEW S, NEW s \in Seq(S), NEW t \in Seq(S), Len(s) <= Len(t),
         \A j \in 1 .. Len(s) : s[j] = t[Len(t) - Len(s) + j]
  PROVE  One!IsSuffix(s, t)
<1> DEFINE m == Len(s)
           n == Len(t)
           a == [j \in 1 .. m |-> s[m - j + 1]]
           b == [j \in 1 .. n |-> t[n - j + 1]]
<1>0. m \in Nat /\ n \in Nat /\ m <= n
  OBVIOUS
<1>1. a \in [1 .. m -> S] /\ b \in [1 .. n -> S]
  <2>1. \A j \in 1 .. m : m - j + 1 \in 1 .. m
    BY <1>0
  <2>2. \A j \in 1 .. n : n - j + 1 \in 1 .. n
    BY <1>0
  <2>3. \A j \in 1 .. m : s[m - j + 1] \in S
    BY <2>1
  <2>4. \A j \in 1 .. n : t[n - j + 1] \in S
    BY <2>2
  <2> QED BY <2>3, <2>4
<1>2. a = One!Reverse(s) /\ b = One!Reverse(t)
  BY DEF One!Reverse
<1>3. ASSUME NEW j \in 1 .. m PROVE a[j] = b[j]
  <2>1. m - j + 1 \in 1 .. m /\ n - m + (m - j + 1) = n - j + 1 /\ j \in 1 .. n
    BY <1>0
  <2>2. s[m - j + 1] = t[n - j + 1]
    BY <2>1
  <2> QED BY <2>1, <2>2
<1>4. a \in Seq(S) /\ b \in Seq(S) /\ Len(a) = m /\ Len(b) = n
  BY <1>0, <1>1
<1>5. One!IsPrefix(a, b)
  <2> HIDE DEF a, b
  <2> QED BY <1>0, <1>3, <1>4, PrefixIf
<1> QED BY <1>2, <1>5 DEF One!IsSuffix

\* What a write adds, and what a read takes.
LEMMA LinePut ==
  ASSUME NEW r \in Page, NEW k \in Nat, NEW v \in Bytes, Cnt(r) + k <= PIPESIZE, Holds(r)
  PROVE  /\ One!IsPrefix(Line(r), Line(Filled(r, k, v)))
         /\ Len(Line(Filled(r, k, v))) <= PIPESIZE
         /\ One!ToSet(Line(Filled(r, k, v))) \subseteq Bytes
<1>1. PICK s \in Page : s = Filled(r, k, v)
  <2>1. k \in Int
    OBVIOUS
  <2> QED BY <2>1, FilledPage
<1>2. Holds(s)
  BY <1>1, FilledHolds
<1>3. PICK n \in Nat : n = Cnt(r)
  BY LineIs
<1>4. Cnt(s) = n + k
  BY <1>1, <1>3, FilledIs
<1>5. Line(r) \in Seq(Bytes) /\ Line(s) \in Seq(Bytes) /\ Len(Line(r)) = n
      /\ Len(Line(s)) = n + k /\ Len(Line(s)) <= PIPESIZE
  BY <1>2, <1>3, <1>4, LineIs
<1>6. ASSUME NEW j \in 1 .. n PROVE Line(r)[j] = Line(s)[j]
  <2>1. j - 1 \in 0 .. n - 1 /\ j \in 1 .. n + k
    BY <1>3
  <2>2. s.data[Cell(s, j - 1)] = r.data[Cell(r, j - 1)]
    BY <2>1, <1>1, <1>3, FilledIs
  <2>3. Line(r)[j] = r.data[Cell(r, j - 1)]
    BY <1>3, LineIs
  <2>4. Line(s)[j] = s.data[Cell(s, j - 1)]
    BY <2>1, <1>2, <1>4, LineIs
  <2> QED BY <2>2, <2>3, <2>4
<1>7. One!IsPrefix(Line(r), Line(s))
  BY <1>3, <1>5, <1>6, PrefixIf
<1>8. One!ToSet(Line(s)) \subseteq Bytes
  BY <1>5 DEF One!ToSet
<1> QED BY <1>1, <1>5, <1>7, <1>8

\* A read takes from the front.
LEMMA LineGet ==
  ASSUME NEW r \in Page, NEW k \in Nat, k <= Cnt(r), Holds(r)
  PROVE  One!IsSuffix(Line(Drained(r, k)), Line(r))
<1>1. PICK s \in Page : s = Drained(r, k)
  <2>1. k \in Int
    OBVIOUS
  <2> QED BY <2>1, DrainedPage
<1>2. Holds(s)
  BY <1>1, DrainedHolds
<1>3. PICK n \in Nat : n = Cnt(r) /\ k <= n
  BY LineIs
<1>4. Cnt(s) = n - k /\ Cnt(r) <= PIPESIZE
  BY <1>1, <1>3, DrainedIs DEF Holds
<1>5. Line(r) \in Seq(Bytes) /\ Line(s) \in Seq(Bytes) /\ Len(Line(r)) = n
      /\ Len(Line(s)) = n - k
  BY <1>2, <1>3, <1>4, LineIs
<1>6. ASSUME NEW j \in 1 .. n - k PROVE Line(s)[j] = Line(r)[n - (n - k) + j]
  <2>1. j - 1 \in 0 .. n - k - 1 /\ n - (n - k) + j = j + k /\ j + k \in 1 .. n
        /\ (j - 1) + k = (j + k) - 1
    BY <1>3
  <2>2. s.data[Cell(s, j - 1)] = r.data[Cell(r, (j - 1) + k)]
    BY <2>1, <1>1, <1>3, <1>4, DrainedIs
  <2>3. Line(r)[j + k] = r.data[Cell(r, (j + k) - 1)]
    BY <2>1, <1>3, LineIs
  <2>4. Line(s)[j] = s.data[Cell(s, j - 1)]
    BY <1>2, <1>4, LineIs
  <2> QED BY <2>1, <2>2, <2>3, <2>4
<1>7. n - k <= n
  BY <1>3
<1>8. One!IsSuffix(Line(s), Line(r))
  BY <1>5, <1>6, <1>7, SuffixIf
<1> QED BY <1>1, <1>8

readable == pipe[1] # NoPage /\ pipe[1].readopen
writable == pipe[1] # NoPage /\ pipe[1].writeopen
QueueStep == [One!Next]_<<Queue(1), readable, writable>>

\* There is a pipe.
LEMMA FirstPipe == 1 \in Pipes
BY PipeConstants DEF Pipes

\* A step that leaves the pipe alone is a stutter of the queue.
LEMMA OtherPipe ==
  ASSUME pipe'[1] = pipe[1]
  PROVE  QueueStep
<1>1. Queue(1)' = Queue(1)
  BY DEF Queue, Count
<1>2. readable' = readable /\ writable' = writable
  BY DEF readable, writable
<1> QED BY <1>1, <1>2 DEF QueueStep

\* What is in an open pipe.
LEMMA QueueNext ==
  ASSUME Types, Stored, pipe[1] # NoPage
  PROVE  pipe[1] \in Page /\ Holds(pipe[1]) /\ Queue(1) = Line(pipe[1])
<1>1. pipe[1] \in Page /\ Holds(pipe[1])
  BY FirstPipe DEF Types, Stored
<1> QED BY <1>1, FirstPipe, QueueIs

\* A new page is an empty queue with both ends open (pipe.c:36-39).
LEMMA PipeInitQueue ==
  ASSUME SInv, NEW p \in Proc, PipeInit(p)
  PROVE  QueueStep
<1>0. IInv /\ Types
  BY DEF SInv, IInv
<1>1. \/ UNCHANGED pipe
      \/ \E i \in Pipes, r \in Files, w \in Files : Makes(p, i, r, w)
  BY <1>0, PipeInitDoes
<1>2. CASE UNCHANGED pipe
  BY <1>2, OtherPipe
<1>3. ASSUME NEW i \in Pipes, NEW r \in Files, NEW w \in Files, Makes(p, i, r, w)
      PROVE  QueueStep
  <2>1. pipe[i] = NoPage /\ pipe'[i] = NewPage /\ \A j \in Pipes \ {i} : pipe'[j] = pipe[j]
    BY <1>0, <1>3 DEF Makes, Types
  <2>2. CASE i # 1
    BY <2>1, <2>2, FirstPipe, OtherPipe
  <2>3. CASE i = 1
    <3>1. ~readable /\ ~writable /\ readable' /\ writable'
      BY <2>1, <2>3, NewPageIs DEF readable, writable
    <3>2. Count(1)' = 0
      <4>1. NewPage.nread = 0 /\ NewPage.nwrite = 0
        BY DEF NewPage
      <4>2. Cnt(NewPage) = 0
        BY <4>1, CntIs, NewPageIs, Rounds
      <4> QED BY <4>2, <2>1, <2>3 DEF Count, Cnt
    <3>3. Queue(1)' = <<>>
      BY <3>2, <2>1, <2>3, NewPageIs DEF Queue
    <3>4. One!Open
      BY <3>1, <3>3 DEF One!Open, readable, writable
    <3> QED BY <3>4 DEF QueueStep, One!Next
  <2> QED BY <2>2, <2>3
<1> QED BY <1>1, <1>2, <1>3

\* pipeclose closes an end; the bytes stay for the other one (pipe.c:58-74).
LEMMA PipeCloseQueue ==
  ASSUME SInv, NEW p \in Proc, PipeClose(p)
  PROVE  QueueStep
<1>0. IInv /\ Types /\ InCalls /\ Opened
  BY DEF SInv, IInv
<1>1. arg[p] \in CloseCall /\ pc[p] \in {"close", "exit"} /\ arg[p] # NoCall
  BY <1>0 DEF InCalls, Call1, Types, PipeClose
<1>2. PICK i \in Pipes, w \in BOOLEAN : i = arg[p].pipe /\ w = arg[p].writable
  BY <1>1 DEF CloseCall
<1>3. p \in Closing(i, w)
  BY <1>1, <1>2 DEF Closing
<1>4. Open(i, w)
  BY <1>3, <1>0 DEF Opened, Ended
<1>5. pipe[i] # NoPage /\ pipe[i] \in Page
  BY <1>4, <1>0 DEF Open, Types
<1> DEFINE left == [pipe[i] EXCEPT !.readopen = pipe[i].readopen /\ w,
                                   !.writeopen = pipe[i].writeopen /\ ~w]
<1>6. pipe' = [pipe EXCEPT ![i] =
             IF left.readopen \/ left.writeopen THEN left ELSE NoPage]
  BY <1>2 DEF PipeClose
<1>7. /\ left.readopen <=> pipe[i].readopen /\ w
      /\ left.writeopen <=> pipe[i].writeopen /\ ~w
      /\ left.nread = pipe[i].nread /\ left.nwrite = pipe[i].nwrite
      /\ left.data = pipe[i].data /\ left \in Page
  BY <1>5 DEF Page
<1>8. /\ pipe'[i] = (IF left.readopen \/ left.writeopen THEN left ELSE NoPage)
      /\ \A j \in Pipes \ {i} : pipe'[j] = pipe[j]
  BY <1>6, <1>0 DEF Types
<1> HIDE DEF left
<1>9. CASE i # 1
  BY <1>8, <1>9, FirstPipe, OtherPipe
<1>10. CASE i = 1
  <2>1. left # NoPage
    BY <1>7, PageKind
  <2>2. pipe'[1] = left => Queue(1)' = Queue(1)
    <3> SUFFICES ASSUME pipe'[1] = left PROVE Queue(1)' = Queue(1)
      OBVIOUS
    <3>1. Count(1)' = Count(1)
      BY <1>7, <1>10 DEF Count
    <3> QED BY <3>1, <2>1, <1>5, <1>7, <1>10 DEF Queue
  <2>3. pipe'[1] = NoPage => Queue(1)' = <<>>
    BY DEF Queue
  <2>4. CASE w
    <3>1. writable /\ ~writable' /\ readable' = readable
      BY <2>1, <2>4, <1>4, <1>5, <1>7, <1>8, <1>10 DEF readable, writable, Open
    <3>2. readable => pipe'[1] = left
      BY <2>4, <1>7, <1>8, <1>10 DEF readable
    <3>3. ~readable => pipe'[1] = NoPage
      BY <2>4, <1>5, <1>7, <1>8, <1>10 DEF readable
    <3>4. Queue(1)' = IF readable THEN Queue(1) ELSE <<>>
      BY <3>2, <3>3, <2>2, <2>3
    <3>5. One!CloseWrite
      BY <3>1, <3>4 DEF One!CloseWrite, readable, writable
    <3> QED BY <3>5 DEF QueueStep, One!Next
  <2>5. CASE ~w
    <3>1. readable /\ ~readable' /\ writable' = writable
      BY <2>1, <2>5, <1>4, <1>5, <1>7, <1>8, <1>10 DEF readable, writable, Open
    <3>2. writable => pipe'[1] = left
      BY <2>5, <1>7, <1>8, <1>10 DEF writable
    <3>3. ~writable => pipe'[1] = NoPage
      BY <2>5, <1>5, <1>7, <1>8, <1>10 DEF writable
    <3>4. Queue(1)' = IF writable THEN Queue(1) ELSE <<>>
      BY <3>2, <3>3, <2>2, <2>3
    <3>5. One!CloseRead
      BY <3>1, <3>4 DEF One!CloseRead, readable, writable
    <3> QED BY <3>5 DEF QueueStep, One!Next
  <2> QED BY <2>4, <2>5
<1> QED BY <1>9, <1>10

\* pipewrite appends, and only while the read end is open.
LEMMA PipeWriteQueue ==
  ASSUME SInv, NEW p \in Proc, PipeWrite(p)
  PROVE  QueueStep
<1>0. IInv /\ Types /\ InCalls /\ Stored
  BY DEF SInv, IInv
<1>1. pc[p] = "write" /\ Writes(p, arg[p].pipe, PIPESIZE - Count(arg[p].pipe))
  BY <1>0, PipeWriteDoes
<1>2. PICK i \in Pipes : i = arg[p].pipe /\ pipe[i] \in Page /\ pipe[i] # NoPage
                         /\ Open(i, TRUE)
  <2>1. (pc[p] = "write") = TRUE
    BY <1>1
  <2> QED BY <2>1, <1>0, <1>1, InUse
<1>3. PICK v \in Bytes : v = arg[p].byte
  BY <1>0, <1>1 DEF InCalls, Call1
<1>4. PICK n \in Nat : n = Cnt(pipe[i]) /\ n = Count(i) /\ n <= PIPESIZE /\ Holds(pipe[i])
  BY <1>0, <1>2, CntIs, CountCnt, Rounds DEF Stored, Holds
<1>5. PICK room \in Nat : room = PIPESIZE - n /\ n + room = PIPESIZE
  BY <1>4, Rounds
<1>6. \/ UNCHANGED pipe
      \/ /\ pipe[i].readopen
         /\ \E k \in Nat : k <= room /\ pipe' = [pipe EXCEPT ![i] = Filled(pipe[i], k, v)]
  <2>1. Writes(p, i, room) /\ room <= room
    BY <1>1, <1>2, <1>4, <1>5
  <2> QED BY <2>1, <1>3 DEF Writes
<1>7. CASE UNCHANGED pipe
  BY <1>7, OtherPipe
<1>8. ASSUME pipe[i].readopen, NEW k \in Nat, k <= room,
             pipe' = [pipe EXCEPT ![i] = Filled(pipe[i], k, v)]
      PROVE  QueueStep
  <2>1. pipe'[i] = Filled(pipe[i], k, v) /\ \A j \in Pipes \ {i} : pipe'[j] = pipe[j]
    BY <1>0, <1>8 DEF Types
  <2>2. CASE i # 1
    BY <2>1, <2>2, FirstPipe, OtherPipe
  <2>3. CASE i = 1
    <3>1. PICK r \in Page : r = pipe[1] /\ Holds(r) /\ r # NoPage /\ Queue(1) = Line(r)
                            /\ Cnt(r) + k <= PIPESIZE
      <4>1. n + k <= PIPESIZE
        BY <1>5, <1>8, Rounds
      <4> QED BY <4>1, <2>3, <1>0, <1>2, <1>4, QueueNext
    <3>2. PICK s \in Page : s = Filled(r, k, v) /\ s = pipe'[1]
                            /\ s.readopen = r.readopen /\ s.writeopen = r.writeopen
      <4>1. k \in Int
        OBVIOUS
      <4> QED BY <4>1, <3>1, <2>1, <2>3, FilledPage
    <3>4. s # NoPage
      BY PageKind
    <3>5. Queue(1)' = Line(s)
      <4>1. Count(1)' = Cnt(s) /\ Cnt(s) \in Int /\ s.nread \in Int
        BY <3>2, CountCnt, CntIs, Rounds DEF Page, Index
      <4>2. \A j \in 1 .. Cnt(s) : s.nread + j - 1 = s.nread + (j - 1)
        BY <4>1
      <4> QED BY <4>1, <4>2, <3>2, <3>4 DEF Queue, Line, Cell
    <3>6. /\ One!IsPrefix(Line(r), Line(s)) /\ Len(Line(s)) <= PIPESIZE
          /\ One!ToSet(Line(s)) \subseteq Bytes
      BY <3>1, <3>2, LinePut
    <3>7. readable /\ writable /\ readable' = readable /\ writable' = writable
      BY <3>1, <3>2, <3>4, <2>3, <1>2, <1>8 DEF readable, writable, Open
    <3>8. One!Put
      BY <3>1, <3>5, <3>6, <3>7 DEF One!Put, readable, writable
    <3> QED BY <3>8 DEF QueueStep, One!Next
  <2> QED BY <2>2, <2>3
<1> QED BY <1>6, <1>7, <1>8

\* piperead takes bytes from the front.
LEMMA PipeReadQueue ==
  ASSUME SInv, NEW p \in Proc, PipeRead(p)
  PROVE  QueueStep
<1>0. IInv /\ Types /\ Stored
  BY DEF SInv, IInv
<1>1. pc[p] = "read" /\ Reads(p, arg[p].pipe)
  BY <1>0, PipeReadDoes
<1>2. PICK i \in Pipes : i = arg[p].pipe /\ pipe[i] \in Page /\ pipe[i] # NoPage
                         /\ Open(i, FALSE)
  <2>1. (pc[p] = "write") = FALSE
    BY <1>1
  <2> QED BY <2>1, <1>0, <1>1, InUse
<1>3. \/ UNCHANGED pipe
      \/ \E k \in Nat : k <= Count(i) /\ pipe' = [pipe EXCEPT ![i] = Drained(pipe[i], k)]
  BY <1>1, <1>2 DEF Reads
<1>4. CASE UNCHANGED pipe
  BY <1>4, OtherPipe
<1>5. ASSUME NEW k \in Nat, k <= Count(i), pipe' = [pipe EXCEPT ![i] = Drained(pipe[i], k)]
      PROVE  QueueStep
  <2>1. pipe'[i] = Drained(pipe[i], k) /\ \A j \in Pipes \ {i} : pipe'[j] = pipe[j]
    BY <1>0, <1>5 DEF Types
  <2>2. CASE i # 1
    BY <2>1, <2>2, FirstPipe, OtherPipe
  <2>3. CASE i = 1
    <3>1. PICK r \in Page : r = pipe[1] /\ Holds(r) /\ r # NoPage /\ Queue(1) = Line(r)
                            /\ k <= Cnt(r)
      BY <2>3, <1>0, <1>2, <1>5, QueueNext, CountCnt
    <3>2. PICK s \in Page : s = Drained(r, k) /\ s = pipe'[1]
                            /\ s.readopen = r.readopen /\ s.writeopen = r.writeopen
      <4>1. k \in Int
        OBVIOUS
      <4> QED BY <4>1, <3>1, <2>1, <2>3, DrainedPage
    <3>3. s # NoPage
      BY PageKind
    <3>4. Queue(1)' = Line(s)
      <4>1. Count(1)' = Cnt(s) /\ Cnt(s) \in Int /\ s.nread \in Int
        BY <3>2, CountCnt, CntIs, Rounds DEF Page, Index
      <4>2. \A j \in 1 .. Cnt(s) : s.nread + j - 1 = s.nread + (j - 1)
        BY <4>1
      <4> QED BY <4>1, <4>2, <3>2, <3>3 DEF Queue, Line, Cell
    <3>5. One!IsSuffix(Line(s), Line(r))
      BY <3>1, <3>2, LineGet
    <3>6. readable /\ readable' = readable /\ writable' = writable
      BY <3>1, <3>2, <3>3, <2>3, <1>2 DEF readable, writable, Open
    <3>7. One!Get
      BY <3>1, <3>4, <3>5, <3>6 DEF One!Get, readable, writable
    <3> QED BY <3>7 DEF QueueStep, One!Next
  <2> QED BY <2>2, <2>3
<1> QED BY <1>3, <1>4, <1>5

\* Every step is one of the queue's, or invisible in it.
LEMMA StepsQueue == SInv /\ [Next]_vars => QueueStep
<1> SUFFICES ASSUME SInv, [Next]_vars PROVE QueueStep
  OBVIOUS
<1>1. CASE UNCHANGED vars
  BY <1>1, OtherPipe DEF vars
<1>2. ASSUME NEW p \in Proc, User(p) \/ Kernel(p) \/ Exit(p) \/ Kill(p) PROVE QueueStep
  <2>1. CASE User(p) \/ Exit(p) \/ Kill(p) \/ PipeFile(p) \/ Closed(p)
             \/ \E f \in Files : FileClose(p, f)
    <3>1. UNCHANGED pipe
      BY <2>1 DEF User, SysPipe, PipeFile, TakeFile, SysDup, SysClose, Fork, Call, Exit, Kill,
                  Closed, FileClose
    <3> QED BY <3>1, OtherPipe
  <2>2. CASE PipeInit(p) \/ PipeClose(p) \/ PipeWrite(p) \/ PipeRead(p)
    BY <2>2, PipeInitQueue, PipeCloseQueue, PipeWriteQueue, PipeReadQueue
  <2> QED BY <1>2, <2>1, <2>2 DEF Kernel
<1> QED BY <1>1, <1>2 DEF Next

\* A pipe is a bounded queue of bytes: whoever shares, closes and kills, and
\* wherever nread and nwrite wrap, bytes are read in the order in which they were
\* written, each once, and none that was not written (pipe.c).
THEOREM PipesAreQueues == Spec => PipeIsQueue
<1>1. Init => One!Init
  <2> SUFFICES ASSUME Init PROVE One!Init
    OBVIOUS
  <2>1. pipe[1] = NoPage
    BY FirstPipe DEF Init
  <2> QED BY <2>1 DEF One!Init, Queue
<1>2. SInv /\ [Next]_vars => [One!Next]_<<Queue(1), readable, writable>>
  BY StepsQueue DEF QueueStep
<1>3. Spec => One!Spec
  BY <1>1, <1>2, PipeSleepInvariant, PTL DEF Spec, One!Spec, readable, writable
<1> QED BY <1>3 DEF PipeIsQueue
==========
