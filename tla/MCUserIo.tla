------------------------------ MODULE MCUserIo ------------------------------
(* An instance of UserIo: pages of 4 bytes, six of them user, two kernel.   *)
EXTENDS UserIo

NoPages == [p \in 0 .. 7 |-> IF p < 6 THEN "none" ELSE "kernel"]
Memory(nuls) == [a \in Addr |-> IF a \in nuls THEN 0 ELSE a]

\* The path is at 10 and crosses a page; behind its NUL are mapped pages, an
\* absent page, or it is cut off by one.
MCALLOWED == <<10, 11, 0>>
Program == [perm |-> [NoPages EXCEPT ![2] = "rw", ![3] = "rw"], mem |-> Memory({12, 15})]
MCImages ==
  {Program,
   [perm |-> [NoPages EXCEPT ![0] = "kernel", ![2] = "ro", ![3] = "rw", ![5] = "rw"],
    mem |-> Memory({1, 15, 23})],
   [perm |-> [NoPages EXCEPT ![0] = "rw", ![2] = "rw", ![4] = "ro"],
    mem |-> Memory({3, 12, 17})]}

Disk(bs, base, span) ==
  [kind |-> "blkdev", block_size |-> bs, base |-> base, span |-> span, writes |-> TRUE]

\* Disks, one that reaches beyond the largest offset, two with block sizes that
\* are refused, and one whose driver cannot write.
MCTargets ==
  {[kind |-> "console"], Disk(2, 1, 3), Disk(4, 0, 2), Disk(8, 0, 2), Disk(4, MAX_OFFSET, 3),
   Disk(3, 0, 4), Disk(0, 0, 4), [Disk(2, 1, 3) EXCEPT !.writes = FALSE]}

MCStatuses == {<<40, 41>>}
=============================================================================
