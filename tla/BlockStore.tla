----------------------------- MODULE BlockStore -----------------------------
(***************************************************************************)
(* What bread, bwrite and brelse promise: every block has one content,     *)
(* which only the process that has the block can see or change.            *)
(***************************************************************************)
CONSTANTS Proc, Blocks, Vals, Nobody

VARIABLES content, owner

Init == content \in [Blocks -> Vals] /\ owner = [k \in Blocks |-> Nobody]

Take(p, k) == /\ owner[k] = Nobody
              /\ owner' = [owner EXCEPT ![k] = p]
              /\ UNCHANGED content

Change(p, k, v) == /\ owner[k] = p
                   /\ content' = [content EXCEPT ![k] = v]
                   /\ UNCHANGED owner

Give(p, k) == /\ owner[k] = p
              /\ owner' = [owner EXCEPT ![k] = Nobody]
              /\ UNCHANGED content

Next == \E p \in Proc, k \in Blocks :
           Take(p, k) \/ Give(p, k) \/ \E v \in Vals : Change(p, k, v)

Spec == Init /\ [][Next]_<<content, owner>>
=============================================================================
