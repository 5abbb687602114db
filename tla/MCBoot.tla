------------------------------- MODULE MCBoot -------------------------------
(* Model-checking instance of Boot: nine frames of two bytes.                *)
EXTENDS Boot

Seg(vaddr, memsz) == [vaddr |-> vaddr, memsz |-> memsz]

\* One segment; two that are not in order; one that does not begin with a page.
SmallKernels == {<<Seg(4, 3)>>, <<Seg(7, 2), Seg(4, 2)>>, <<Seg(5, 2)>>}
=============================================================================
