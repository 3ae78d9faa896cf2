------------------------------ MODULE MCBoot ------------------------------
(* An instance of KernelBoot: 8 pages under a table, memory from 3 to 64    *)
(* pages of 4 units.  Page 0 is low memory, the kernel image is pages 1-2,  *)
(* the frame bitmap lies behind it.                                        *)
EXTENDS KernelBoot

Span(b, n, u) == [base |-> b, length |-> n, usable |-> u]
E820Map(spans) == [method |-> "E820", spans |-> spans]

\* Too little memory for the frame bitmap (12), the tables (24 and 28, in 24 the
\* window runs past the end), the stack (40), the pool (56) and the others (100);
\* enough for a running kernel (146, which ends inside a page, and 200, where
\* the pools are doubled); and so much that the window runs into the pool (256).
Sizes == {12, 24, 28, 40, 56, 100, 146, 200, 256}
Memory ==
  {[method |-> "E801", kib |-> n] : n \in Sizes}
    \cup {[method |-> "CMOS", kib |-> 4],
          E820Map({}),
          \* a reserved span inside frame 10, a page that no span describes
          E820Map({Span(0, 40, TRUE), Span(41, 3, FALSE), Span(44, 60, TRUE),
                   Span(112, 40, TRUE), Span(152, 40, FALSE)})}

\* A reserved span of two frames among those the window wants.
Hole ==
  {E820Map({Span(0, 40, TRUE), Span(40, 8, FALSE), Span(48, 104, TRUE)})}

\* Memory that ends in the middle of a table's span.
Uneven == {[method |-> "E801", kib |-> 146]}
=============================================================================
