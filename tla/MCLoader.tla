------------------------------ MODULE MCLoader ------------------------------
(* An instance of BootLoader: 4 bytes to a sector, a sector to a cluster,   *)
(* tracks of 5 sectors.  Sector 0 is stage1, 1-2 stage2, 3-6 and 7-10 the   *)
(* FATs, 11-12 the root directory; cluster 2 is sector 13.                  *)
EXTENDS BootLoader

\* A FAT of ten entries, of which next gives some; the others are free.
Fat(next) == [n \in 0 .. 11 |-> IF n \in DOMAIN next THEN next[n] ELSE 0]

\* The links of a file of size n in a chain of clusters that ends with eoc.
Links(chain, n, eoc) ==
  LET last == (n + BYTES_PER_SECTOR - 1) \div BYTES_PER_SECTOR
  IN [c \in {chain[i] : i \in 1 .. last} |->
        LET i == CHOOSE i \in 1 .. last : chain[i] = c
        IN IF i = last THEN eoc ELSE chain[i + 1]]

\* The bytes of a file of size n in a chain of clusters.
Bytes(chain, n) ==
  [k \in 1 .. n |-> <<dataStart + chain[(k - 1) \div BYTES_PER_SECTOR + 1] - 2,
                      (k - 1) % BYTES_PER_SECTOR>>]

E(name, kind, cluster, size) == [name |-> name, kind |-> kind, cluster |-> cluster, size |-> size]
EndEntry == E("", "end", 0, 0)
Root(es) == [k \in 1 .. 8 |-> IF k <= Len(es) THEN es[k] ELSE EndEntry]

\* KERNEL.BIN is in clusters 3, 6, 2 and KPARAMS.DAT in 5, 7, 8, as far as they
\* reach; an empty file has no cluster.
Kernel == <<3, 6, 2>>
Params == <<5, 7, 8>>
Files(k, n) == Root(<<E("kernel", "label", 0, 0), E("kernel", "deleted", 9, 3),
                      E("kparams", "dir", 8, 0), E("other", "lfn", 0, 0),
                      E("kernel", "file", 3, k), E("kparams", "file", IF n = 0 THEN 0 ELSE 5, n)>>)

\* A disk with a kernel of k bytes and parameters of n.
Disk(k, n) ==
  [magic |-> TRUE, root |-> Files(k, n),
   fat |-> Fat(Links(Kernel, k, 4095) @@ Links(Params, n, 4088)),
   built |-> Bytes(Kernel, k), params |-> Bytes(Params, n), intact |-> TRUE]
Damaged(d) == [d EXCEPT !.intact = FALSE]
Rewired(c, v) == [Damaged(Disk(9, 7)) EXCEPT !.fat[c] = v]
WithRoot(es) == [Damaged(Disk(9, 7)) EXCEPT !.root = Root(es)]

\* Parameters of no byte, a part of a cluster, all of one, the maximum, more,
\* and a size with a high word; a kernel whose last cluster is full.
Good == {Disk(9, n) : n \in {0, 3, 4, 5, 7, 9}} \cup {Disk(8, 7)}
NoParams == [Disk(9, 0) EXCEPT !.root =
               Root(<<E("kernel", "file", 3, 9), EndEntry, E("kparams", "file", 5, 7)>>)]
Bad ==
  {[Damaged(Disk(9, 7)) EXCEPT !.magic = FALSE],
   WithRoot(<<E("other", "file", 2, 3), EndEntry, E("kernel", "file", 3, 9)>>),
   WithRoot(<<E("kernel", "file", 3, 0)>>)}
    \cup {Rewired(c, v) : c \in {2, 3, 5, 6, 7},
                          v \in {0, 1, 2, 3, 5, 6, 7, 4080, 4086, 4087, 4088, 4095}}

\* A machine with 40 MiB that enables A20 in the ways of a20.
Span(b, n, u) == [base |-> b, length |-> n, usable |-> u]
NoE801 == [fails |-> TRUE, ax |-> 0, bx |-> 0, cx |-> 0, dx |-> 0]
E801(ax, bx, cx, dx) == [fails |-> FALSE, ax |-> ax, bx |-> bx, cx |-> cx, dx |-> dx]
Bios(a20) ==
  [gate |-> FALSE, a20 |-> a20, hangs |-> FALSE, total |-> 640, e801 |-> NoE801, ah88 |-> -1,
   e820 |-> <<Span(0, 10, TRUE), Span(10, 6, FALSE), Span(16, 624, TRUE), Span(960, 64, FALSE)>>,
   cmos |-> [ext |-> 624, alt |-> 624]]
Old(b) == [b EXCEPT !.e820 = <<>>]

Machines ==
  {Bios({"bios"}), [Bios({}) EXCEPT !.gate = TRUE], Old(Bios({"fast"})),
   [Old(Bios({"fast"})) EXCEPT !.e801 = E801(240, 384, 240, 384)],
   [Old(Bios({"fast"})) EXCEPT !.e801 = E801(0, 0, 240, 384)],
   [Old(Bios({"fast"})) EXCEPT !.ah88 = 624],
   [Old(Bios({"fast"})) EXCEPT !.cmos = [ext |-> 0, alt |-> 624]],
   [Old(Bios({"fast"})) EXCEPT !.cmos = [ext |-> 304, alt |-> 304], !.total = 320],
   [Old(Bios({"fast"})) EXCEPT !.cmos = [ext |-> 1008, alt |-> 0], !.total = 1024]}
    \cup {[Bios(a) EXCEPT !.hangs = TRUE] : a \in SUBSET {"kbdController", "kbdBlind"}}

Everything ==
  {[disk |-> d, bios |-> Bios({"bios"})] : d \in Bad}
    \cup {[disk |-> d, bios |-> b] : d \in Good \cup {NoParams}, b \in Machines}
FullParams == {[disk |-> Disk(9, 7), bios |-> Bios({"bios"})]}
EmptyParams == {[disk |-> Disk(9, 0), bios |-> Bios({"bios"})]}
CxDx == {[disk |-> NoParams, bios |-> b] : b \in Machines}
=============================================================================
