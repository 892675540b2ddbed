------------------------------- MODULE MCInode -------------------------------
(* An instance of Inode for TLC. *)
EXTENDS Inode, TLC

Interchangeable == Permutations(Proc)

\* A directory, a file in it that gets a second name beside it, and a path
\* that takes the file for a directory.
Call(op, path) == [op |-> op, path |-> path, new |-> <<>>]
FewCalls ==
    {Call("mkdir", <<"a">>), Call("unlink", <<"a">>),
     Call("create", <<"a", "b">>), Call("open", <<"a", "b">>),
     Call("unlink", <<"a", "b">>), Call("unlink", <<"b">>), Call("open", <<"b", "a">>),
     [op |-> "link", path |-> <<"a", "b">>, new |-> <<"b">>]}
=============================================================================
