-------------------------- MODULE MCMemoryManager --------------------------
(* Model-checking instance of MemoryManager: three small memory maps.       *)
EXTENDS MemoryManager, TLC

Region(start, pages, available) ==
    [start |-> start, pages |-> pages, available |-> available]

\* Memory in one piece, with a hole, and with unavailable regions inside and
\* at the end.
SmallMaps ==
    {<<Region(0, 3, TRUE)>>,
     <<Region(0, 1, TRUE), Region(2, 1, TRUE)>>,
     <<Region(0, 1, TRUE), Region(1, 1, FALSE), Region(2, 1, TRUE),
       Region(3, 1, FALSE)>>}

\* The clients are interchangeable.
ClientSymmetry == Permutations(Client)
=============================================================================
