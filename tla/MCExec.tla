------------------------------- MODULE MCExec -------------------------------
(* Model-checking instance of Exec: three levels of four entries, so 64 pages *)
(* of which the upper 32 are for programs, and pages of two bytes.            *)
EXTENDS Exec, TLC

Seg(page, offset, memsz) == [vaddr |-> page * kPageBytes + offset, memsz |-> memsz]
Elf(segs, args) == [elf |-> TRUE, exec |-> TRUE, segs |-> segs, args |-> args]

\* In order: two segments that share a page, the first crossing into another
\* page map; a segment whose last byte lies in a page that is not mapped; one
\* that crosses into another top-level entry, with a last argument that is too
\* long; one in the entry of the stack; too many arguments, and too long ones;
\* linked too low; no program for this loader; no ELF file.
SmallPrograms ==
    {Elf(<<Seg(35, 0, 3), Seg(36, 1, 1)>>, <<1>>),
     Elf(<<Seg(32, 1, 2)>>, <<1>>),
     Elf(<<Seg(47, 0, 4)>>, <<1, 4>>),
     Elf(<<Seg(48, 0, 1)>>, <<1>>),
     Elf(<<Seg(32, 0, 1)>>, <<0, 0, 0>>),
     Elf(<<Seg(32, 0, 1)>>, <<2, 0>>),
     Elf(<<Seg(8, 0, 1)>>, <<1>>),
     [Elf(<<Seg(32, 0, 1)>>, <<1>>) EXCEPT !.exec = FALSE],
     [Elf(<<>>, <<1>>) EXCEPT !.elf = FALSE]}

\* The tasks are interchangeable.
TaskSymmetry == Permutations(Task)
=============================================================================
