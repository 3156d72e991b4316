--------------------------- MODULE MCHscpSession ---------------------------
(***************************************************************************)
(* HscpSession on a small tree: a directory that holds a file, an empty    *)
(* directory and an empty file, and then two files of one size.            *)
(***************************************************************************)
EXTENDS HscpSession

MCWalk == <<
    [kind |-> "dir",  size |-> 0, skip |-> 7],
    [kind |-> "file", size |-> 2, skip |-> 3],
    [kind |-> "dir",  size |-> 0, skip |-> 5],
    [kind |-> "end",  size |-> 0, skip |-> 5],
    [kind |-> "file", size |-> 0, skip |-> 6],
    [kind |-> "end",  size |-> 0, skip |-> 7],
    [kind |-> "file", size |-> 1, skip |-> 8],
    [kind |-> "file", size |-> 1, skip |-> 9] >>

=============================================================================
