------------------------------- MODULE MCFat -------------------------------
(* Model-checking instance of Fat: small volumes.                           *)
EXTENDS Fat, TLC

A == <<"a">>
B == <<"b">>
D == <<"d">>
AB == <<"a", "b">>
Long == <<"a", "b", "c">>
Dotted == <<"a", ".", "b">>

\* Paths that make every kind of lookup.
ManyPaths ==
    {<<A>>, <<AB>>, <<Long>>, <<Dotted>>, <<D, B>>, <<D, <<>>>>, <<A, <<>>>>, <<B, A>>, <<A, B>>}

File(name, first, size) ==
    [name |-> SetFileName(name), dir |-> FALSE, first |-> first, size |-> size]
Directory(name, first) ==
    [name |-> SetFileName(name), dir |-> TRUE, first |-> first, size |-> 0]
Link(name, first) == [name |-> name, dir |-> TRUE, first |-> first, size |-> 0]
Unused(mark, first) == [name |-> mark, dir |-> FALSE, first |-> first, size |-> 0]

\* What a free cluster held before it was freed.
Garbage == File(B, 2, 1)

\* A volume: the table from a partial one, the entries of the directories.
Image(links, entries) ==
    [fat |-> [c \in Clusters |-> IF c \in DOMAIN links THEN links[c] ELSE 0],
     ent |-> [s \in Slots |-> IF s \in DOMAIN entries THEN entries[s] ELSE Garbage]]

\* A full root with a file of two clusters and a full directory; a root with an empty
\* file; one with two deleted files, one of which once had clusters; one with a deleted
\* file before another.
SmallImages ==
    {Image(2 :> kEndOfClusterchain @@ 3 :> 4 @@ 4 :> kEndOfClusterchain @@ 5 :> kEndOfClusterchain,
           <<2, 0>> :> File(A, 3, 3) @@ <<2, 1>> :> Directory(D, 5)
           @@ <<5, 0>> :> Link(<<".", " ", " ">>, 5) @@ <<5, 1>> :> Link(<<".", ".", " ">>, 0)),
     Image(2 :> kEndOfClusterchain,
           <<2, 0>> :> File(A, 0, 0) @@ <<2, 1>> :> Unused(EndMark, 0)),
     Image(2 :> kEndOfClusterchain,
           <<2, 0>> :> Unused(Deleted, 0) @@ <<2, 1>> :> Unused(Deleted, 3)),
     Image(2 :> kEndOfClusterchain,
           <<2, 0>> :> Unused(Deleted, 0) @@ <<2, 1>> :> File(AB, 0, 0))}

\* What follows an overlap is not explored: no property speaks of it.
NotRaced == ~raced

\* Bound on the bytes that two tasks read and write together.
MaxBytes == 5
Bytes(t) == fd[t].rd_off + fd[t].wr_off + call[t].len
FewBytes == \A t \in Task : \A u \in Task \ {t} : Bytes(t) + Bytes(u) <= MaxBytes

TaskSymmetry == Permutations(Task)
=============================================================================
