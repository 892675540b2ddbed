------------------------------ MODULE ByteQueue ------------------------------
(***************************************************************************)
(* What a pipe promises: a bounded queue of bytes between a read end and a *)
(* write end, which is empty when it is opened and forgotten with its last *)
(* end.                                                                    *)
(***************************************************************************)
EXTENDS Naturals, Sequences, SequencesExt

CONSTANTS Bytes, PIPESIZE

VARIABLES queue, readopen, writeopen

Init == queue = <<>> /\ ~readopen /\ ~writeopen

Open == /\ ~readopen /\ ~writeopen
        /\ readopen' /\ writeopen' /\ queue' = <<>>

\* Nothing is taken from a writer once the read end is closed.
Put == /\ readopen /\ writeopen
       /\ Len(queue') <= PIPESIZE
       /\ IsPrefix(queue, queue') /\ ToSet(queue') \subseteq Bytes
       /\ UNCHANGED <<readopen, writeopen>>

\* What was written is read after the write end is closed, too.
Get == /\ readopen
       /\ IsSuffix(queue', queue)
       /\ UNCHANGED <<readopen, writeopen>>

CloseRead  == /\ readopen /\ ~readopen'
              /\ queue' = IF writeopen THEN queue ELSE <<>>
              /\ UNCHANGED writeopen

CloseWrite == /\ writeopen /\ ~writeopen'
              /\ queue' = IF readopen THEN queue ELSE <<>>
              /\ UNCHANGED readopen

Next == Open \/ Put \/ Get \/ CloseRead \/ CloseWrite

Spec == Init /\ [][Next]_<<queue, readopen, writeopen>>
=============================================================================
