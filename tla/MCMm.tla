-------------------------------- MODULE MCMm --------------------------------
EXTENDS Mm

\* One page of code, the stack behind it, as in exec.c and syscall.c; a stack of
\* two pages, so that the second lies under another page table.
CodeThenStack == << <<0, 0>>, <<1, 2>> >>
=============================================================================
