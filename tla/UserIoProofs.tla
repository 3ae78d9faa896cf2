---------------------------- MODULE UserIoProofs ----------------------------
(***************************************************************************)
(* What system calls do with a process's memory, for every layout of the   *)
(* address space, every size of the copy buffer, every image and every     *)
(* target.                                                                 *)
(***************************************************************************)
EXTENDS UserIo, ListLemmas

-----------------------------------------------------------------------------
(* Addresses, pages and blocks.                                             *)

\* The sizes of an address space.
LEMMA Sizes ==
  /\ ADDR \in Nat \ {0} /\ PAGE \in Nat \ {0} /\ KBASE \in Nat \ {0} /\ KBASE < ADDR
  /\ COPYIN_BUF_SIZE \in Nat \ {0} /\ EXEC_PATH_MAX \in Nat \ {0} /\ SIZEOF_INT \in Nat \ {0}
  /\ SIZEOF_INT < ADDR
  BY UserIoAssumption, Zenon

\* A sum of two addresses that is not less than the first has not wrapped.
LEMMA PlusLemma ==
  ASSUME NEW a \in Addr, NEW n \in Addr
  PROVE  /\ Plus(a, n) \in Addr
         /\ a + n < ADDR => Plus(a, n) = a + n
         /\ Plus(a, n) >= a => Plus(a, n) = a + n
<1>1. ADDR \in Nat \ {0} /\ a \in 0 .. ADDR - 1 /\ n \in 0 .. ADDR - 1
  BY Sizes, Zenon DEF Addr
<1>2. CASE a + n < ADDR
  <2>1. (a + n) % ADDR = a + n
    BY <1>1, <1>2
  <2> QED BY <2>1, <1>1, <1>2 DEF Plus, Addr
<1>3. CASE ~(a + n < ADDR)
  <2>1. (a + n) % ADDR = a + n - ADDR
    BY <1>1, <1>3
  <2> QED BY <2>1, <1>1, <1>3 DEF Plus, Addr
<1> QED BY <1>2, <1>3, Zenon

\* The pages of a range are those of its bytes.
LEMMA PagesLemma ==
  ASSUME NEW a \in Nat, NEW n \in Nat \ {0}
  PROVE  /\ \A k \in 0 .. n - 1 : PageOf(a + k) \in PageOf(a) .. PageOf(a + n - 1)
         /\ \A p \in PageOf(a) .. PageOf(a + n - 1) : \E k \in 0 .. n - 1 : p = PageOf(a + k)
<1>1. PAGE \in Nat \ {0}
  BY Sizes, Zenon
<1>2. ASSUME NEW k \in 0 .. n - 1
      PROVE  PageOf(a + k) \in PageOf(a) .. PageOf(a + n - 1)
  BY <1>1 DEF PageOf
<1>3. ASSUME NEW p \in PageOf(a) .. PageOf(a + n - 1)
      PROVE  \E k \in 0 .. n - 1 : p = PageOf(a + k)
  <2>1. CASE p = PageOf(a)
    BY <2>1
  <2>2. CASE p # PageOf(a)
    <3>1. p \in Nat /\ a \div PAGE < p /\ p <= (a + n - 1) \div PAGE
      BY <1>1, <2>2 DEF PageOf
    <3>2. a < p * PAGE /\ p * PAGE <= a + n - 1 /\ p * PAGE \in Nat
      BY <3>1, <1>1
    <3>3. p * PAGE - a \in 0 .. n - 1 /\ a + (p * PAGE - a) = p * PAGE
      BY <3>2
    <3>4. (p * PAGE) \div PAGE = p
      BY <3>1, <1>1
    <3> QED BY <3>3, <3>4, Zenon DEF PageOf
  <2> QED BY <2>1, <2>2, Zenon
<1> QED BY <1>2, <1>3, Zenon

\* A block-aligned offset into a device is as far into the disk.
LEMMA BlockLemma ==
  ASSUME NEW bs \in Nat \ {0}, NEW base \in Nat, NEW off \in Nat, off % bs = 0
  PROVE  /\ (base + off \div bs) * bs = base * bs + off
         /\ off \div bs \in Nat
<1>1. off = bs * (off \div bs) /\ off \div bs \in Nat
  OBVIOUS
<1> DEFINE q == off \div bs
<1> HIDE DEF q
<1>2. (base + q) * bs = base * bs + bs * q
  BY <1>1 DEF q
<1> QED BY <1>1, <1>2, Zenon DEF q

\* A number within the modulus is its own remainder.
LEMMA WithinModulus ==
  ASSUME NEW m \in Nat, NEW x \in Nat, x < m
  PROVE  x % m = x
  OBVIOUS

\* The bytes of count blocks from lba on are in those blocks.
LEMMA InBlocks ==
  ASSUME NEW bs \in Nat \ {0}, NEW lba \in Nat, NEW count \in Nat, NEW k \in Nat, k < count * bs
  PROVE  (lba * bs + k) \div bs \in lba .. lba + count - 1
<1>1. (lba * bs + k) \div bs = lba + k \div bs
  OBVIOUS
<1>2. k \div bs \in Nat /\ k \div bs < count
  OBVIOUS
<1> QED BY <1>1, <1>2

-----------------------------------------------------------------------------
(* copyin and copyout.                                                      *)

\* A range passes the checks of copyin and copyout just when it lies in the user
\* half, and its pages are then those of its bytes.
LEMMA RangeLemma ==
  ASSUME NEW a \in Addr, NEW n \in Addr \ {0}
  PROVE  /\ range_check(a, n) <=> a + n <= KBASE
         /\ a + n <= KBASE =>
              /\ \A k \in 0 .. n - 1 : a + k \in UserAddr /\ PageOf(a + k) \in pages(a, n)
              /\ \A p \in pages(a, n) : \E k \in 0 .. n - 1 : p = PageOf(a + k)
<1>1. /\ ADDR \in Nat /\ KBASE \in Nat /\ KBASE < ADDR /\ a \in Nat /\ n \in Nat \ {0}
      /\ a < ADDR /\ n < ADDR /\ n - 1 \in Addr
  BY Sizes DEF Addr
<1>2. range_check(a, n) <=> a + n <= KBASE
  <2>1. range_check(a, n) <=> Plus(a, n - 1) >= a /\ a < KBASE /\ Plus(a, n - 1) < KBASE
    BY <1>1, Zenon DEF range_check, is_user_vaddr
  <2>2. /\ a + (n - 1) < ADDR => Plus(a, n - 1) = a + (n - 1)
        /\ Plus(a, n - 1) >= a => Plus(a, n - 1) = a + (n - 1)
    BY <1>1, PlusLemma, Zenon
  <2> QED BY <2>1, <2>2, <1>1
<1>3. ASSUME a + n <= KBASE
      PROVE  /\ \A k \in 0 .. n - 1 : a + k \in UserAddr
             /\ pages(a, n) = PageOf(a) .. PageOf(a + n - 1)
  <2>1. Plus(a, n - 1) = a + n - 1
    BY <1>1, <1>3, PlusLemma
  <2> QED BY <2>1, <1>1, <1>3 DEF pages, UserAddr
<1>4. /\ \A k \in 0 .. n - 1 : PageOf(a + k) \in PageOf(a) .. PageOf(a + n - 1)
      /\ \A p \in PageOf(a) .. PageOf(a + n - 1) : \E k \in 0 .. n - 1 : p = PageOf(a + k)
  BY <1>1, PagesLemma, Zenon
<1> QED BY <1>2, <1>3, <1>4, Zenon

\* copyin succeeds just when every byte is the process's own to read.
LEMMA CopyinLemma ==
  ASSUME NEW a \in Addr, NEW n \in Addr \ {0}
  PROVE  /\ copyin(a, n) \in {ESUCCESS, EFAULT}
         /\ copyin(a, n) = ESUCCESS
              <=> a # 0 /\ a + n <= KBASE /\ \A k \in 0 .. n - 1 : Readable(a + k)
<1>1. ASSUME a + n <= KBASE
      PROVE  (\A p \in pages(a, n) : image.perm[p] \in {"ro", "rw"})
               <=> \A k \in 0 .. n - 1 : Readable(a + k)
  <2>1. /\ \A k \in 0 .. n - 1 : a + k \in UserAddr /\ PageOf(a + k) \in pages(a, n)
        /\ \A p \in pages(a, n) : \E k \in 0 .. n - 1 : p = PageOf(a + k)
    BY <1>1, RangeLemma, Zenon
  <2> QED BY <2>1, Zenon DEF Readable
<1>2. copyin(a, n) = IF /\ a # 0 /\ range_check(a, n)
                        /\ \A p \in pages(a, n) : image.perm[p] \in {"ro", "rw"}
                     THEN ESUCCESS ELSE EFAULT
  BY Zenon DEF copyin
<1>3. ESUCCESS # EFAULT /\ (range_check(a, n) <=> a + n <= KBASE)
  BY RangeLemma DEF ESUCCESS, EFAULT
<1> QED BY <1>1, <1>2, <1>3, Zenon

\* copyout succeeds just when every byte is the process's own to write.
LEMMA CopyoutLemma ==
  ASSUME NEW a \in Addr, NEW n \in Addr \ {0}
  PROVE  /\ copyout(a, n) \in {ESUCCESS, EFAULT}
         /\ copyout(a, n) = ESUCCESS
              <=> /\ a # 0 /\ a + n <= KBASE
                  /\ \A k \in 0 .. n - 1 : Readable(a + k) /\ image.perm[PageOf(a + k)] = "rw"
<1>1. ASSUME a + n <= KBASE
      PROVE  (\A p \in pages(a, n) : image.perm[p] = "rw")
               <=> \A k \in 0 .. n - 1 : Readable(a + k) /\ image.perm[PageOf(a + k)] = "rw"
  <2>1. /\ \A k \in 0 .. n - 1 : a + k \in UserAddr /\ PageOf(a + k) \in pages(a, n)
        /\ \A p \in pages(a, n) : \E k \in 0 .. n - 1 : p = PageOf(a + k)
    BY <1>1, RangeLemma, Zenon
  <2> QED BY <2>1, Zenon DEF Readable
<1>2. copyout(a, n) = IF /\ a # 0 /\ range_check(a, n)
                         /\ \A p \in pages(a, n) : image.perm[p] = "rw"
                      THEN ESUCCESS ELSE EFAULT
  BY Zenon DEF copyout
<1>3. ESUCCESS # EFAULT /\ (range_check(a, n) <=> a + n <= KBASE)
  BY RangeLemma DEF ESUCCESS, EFAULT
<1> QED BY <1>1, <1>2, <1>3, Zenon

\* The bytes of a range that does not wrap.
LEMMA BytesLemma ==
  ASSUME NEW a \in Addr, NEW n \in Addr \ {0}, a + n <= KBASE
  PROVE  Bytes(a, n) = {a + k : k \in 0 .. n - 1}
<1>1. ASSUME NEW k \in 0 .. n - 1 PROVE Plus(a, k) = a + k
  <2>1. k \in Addr /\ a + k < ADDR
    BY Sizes DEF Addr
  <2> QED BY <2>1, PlusLemma, Zenon
<1> QED BY <1>1, Zenon DEF Bytes

-----------------------------------------------------------------------------
(* The invariant.                                                           *)

WriteCalls == [op : {"write", "done"}, name : {"write"}, ptr : Addr, len : Addr, from : Nat,
               fd_ok : BOOLEAN, done : Nat, ret : Int]
ExecCalls == [op : {"path", "exec", "done"}, name : {"execve"}, ptr : Addr, path : Seq(Nat),
              ret : Int]
WaitCalls == [op : {"wait", "done"}, name : {"waitpid"}, ptr : Addr, ret : Int]

UType ==
  /\ image \in ImageType
  /\ target \in Targets /\ offset \in Nat /\ sink \in Seq(Nat \X Nat)
  /\ call \in {Idle} \cup WriteCalls \cup ExecCalls \cup WaitCalls
  /\ children \in [Children -> [st : {"live", "zombie", "gone"}, status : Statuses]]

\* The target has taken the first n bytes of the buffer.
Start == IF target.kind = "console" THEN call.from
         ELSE target.base * target.block_size + call.from
Written(n) ==
  /\ offset = call.from + n /\ Len(sink) = n
  /\ \A k \in 1 .. n : sink[k] = <<Start + k - 1, image.mem[Plus(call.ptr, k - 1)]>>

\* The loop of __write_copyin has a buffer in the user half, of which it has
\* written what it counts.
LoopInv ==
  call.op = "write" =>
    /\ call.fd_ok /\ call.ptr # 0 /\ call.len # 0 /\ call.ptr + call.len < KBASE
    /\ call.done <= call.len /\ Written(call.done)

\* A path is copied up to its first NUL.
PathInv ==
  call.op \in {"path", "exec"} =>
    /\ call.ptr # 0 /\ call.ptr + Len(call.path) <= KBASE /\ Len(call.path) <= EXEC_PATH_MAX
    /\ \A k \in 1 .. Len(call.path) :
         /\ call.path[k] = image.mem[call.ptr + k - 1] /\ Readable(call.ptr + k - 1)
         /\ call.path[k] = 0 <=> call.op = "exec" /\ k = Len(call.path)
    /\ call.op = "exec" => call.path # <<>>

\* write returns what it counted.
ResultInv == call.op = "done" /\ call.name = "write" => Written(Max({0, call.ret}))

\* A path that was refused is not one that could be read.
RefusedInv ==
  call.op = "done" /\ call.name = "execve" /\ call.ret \in {-EFAULT, -ENAMETOOLONG} /\ call.ptr # 0 =>
    \A n \in 0 .. EXEC_PATH_MAX - 1 :
      (\A k \in 0 .. n : Readable(call.ptr + k)) => image.mem[call.ptr + n] # 0

UInv ==
  /\ UType
  /\ call.op = "idle" => sink = <<>>
  /\ LoopInv /\ ResultInv /\ PathInv /\ RefusedInv
  /\ BlocksInSpan /\ WritesComplete /\ StatusDelivered

-----------------------------------------------------------------------------
(* The steps.                                                               *)

\* What is known of a call by its stage.
LEMMA CallKind ==
  ASSUME UType
  PROVE  /\ call.op = "write" => call \in WriteCalls
         /\ call.op \in {"path", "exec"} => call \in ExecCalls
         /\ call.op = "wait" => call \in WaitCalls
         /\ call.op \in {"idle", "write", "path", "exec", "wait", "done"}
  BY DEF UType, Idle, WriteCalls, ExecCalls, WaitCalls

\* A return value that is an error counts for no bytes.
LEMMA MaxZero ==
  ASSUME NEW r \in Int
  PROVE  /\ r <= 0 => Max({0, r}) = 0
         /\ r >= 0 => Max({0, r}) = r
<1> DEFINE m == IF r <= 0 THEN 0 ELSE r
<1>1. m \in {0, r} /\ \A y \in {0, r} : m >= y
  OBVIOUS
<1>2. \A x \in {0, r} : (\A y \in {0, r} : x >= y) => x = m
  OBVIOUS
<1> HIDE DEF m
<1>3. Max({0, r}) = m
  BY <1>1, <1>2, Zenon DEF Max
<1> QED BY <1>3 DEF m

\* Init: no call is in progress.
LEMMA InitUInv == ASSUME Init PROVE UInv
<1>1. /\ image \in Images /\ target \in Targets /\ offset = 0 /\ call = Idle /\ sink = <<>>
      /\ children \in [Children -> [st : {"live"}, status : Statuses]]
  BY Zenon DEF Init, IdleSink
<1>2. call.op = "idle" /\ DOMAIN sink = {}
  BY <1>1 DEF Idle
<1>3. UType
  <2>1. image \in ImageType
    BY <1>1, UserIoAssumption, Zenon
  <2>2. sink \in Seq(Nat \X Nat)
    BY <1>1
  <2>3. children \in [Children -> [st : {"live", "zombie", "gone"}, status : Statuses]]
    BY <1>1, Zenon
  <2> QED BY <1>1, <2>1, <2>2, <2>3, Zenon DEF UType
<1> QED
  BY <1>1, <1>2, <1>3, Zenon
     DEF UInv, LoopInv, ResultInv, PathInv, RefusedInv, BlocksInSpan, WritesComplete, StatusDelivered

\* _write: the buffer that passes _ptr_range_safe lies below KBASE, and nothing is
\* written yet.
LEMMA WriteUInv == ASSUME UInv, _write PROVE UInv'
<1>1. PICK ptr \in Addr, len \in Lens, fd_ok \in BOOLEAN :
        LET r == IF ptr = 0 THEN -EFAULT
                 ELSE IF len = 0 THEN ESUCCESS
                 ELSE IF ~_ptr_range_safe(ptr, len) THEN -EFAULT
                 ELSE -EBADF
        IN /\ call = Idle /\ offset <= OFFSET_BOUND
           /\ call' = [op |-> IF ptr # 0 /\ len # 0 /\ _ptr_range_safe(ptr, len) /\ fd_ok
                             THEN "write" ELSE "done",
                       name |-> "write", ptr |-> ptr, len |-> len, from |-> offset,
                       fd_ok |-> fd_ok, done |-> 0, ret |-> r]
           /\ UNCHANGED <<image, target, offset, sink, touched, children>>
  BY ZenonT(30) DEF _write
<1>2. len \in Addr /\ ptr \in Nat /\ len \in Nat /\ KBASE \in Nat /\ ADDR \in Nat /\ KBASE < ADDR
  BY UserIoAssumption, Sizes DEF Addr
<1> DEFINE safe == ptr # 0 /\ len # 0 /\ _ptr_range_safe(ptr, len) /\ fd_ok
<1>3. /\ call' \in WriteCalls /\ call'.op = IF safe THEN "write" ELSE "done"
      /\ call'.name = "write" /\ call'.ptr = ptr /\ call'.len = len /\ call'.from = offset
      /\ call'.fd_ok = fd_ok /\ call'.done = 0 /\ call'.ret \in Int /\ call'.ret <= 0
      /\ ptr # 0 /\ len = 0 => call'.ret = 0
  BY <1>1, <1>2 DEF UInv, UType, WriteCalls, ESUCCESS, EFAULT, EBADF
<1>4. /\ _ptr_range_safe(ptr, len) <=> ptr + len < KBASE
      /\ sink = <<>> /\ Len(sink) = 0 /\ DOMAIN sink = {} /\ offset \in Nat
  <2>1. Plus(ptr, len) >= ptr \/ ptr + len < ADDR => Plus(ptr, len) = ptr + len
    BY <1>2, PlusLemma, Zenon
  <2>2. sink = <<>> /\ offset \in Nat
    BY <1>1, Zenon DEF UInv, UType, Idle
  <2> QED BY <2>1, <2>2, <1>2 DEF _ptr_range_safe
<1> HIDE DEF safe
<1>5. UType'
  BY <1>1, <1>3, Zenon DEF UInv, UType
<1>6. Written(0)'
  BY <1>1, <1>3, <1>4 DEF Written
<1>7. LoopInv' /\ ResultInv'
  <2>1. Max({0, call'.ret}) = 0
    BY <1>3, MaxZero, Zenon
  <2>2. ResultInv'
    BY <1>6, <2>1, Zenon DEF ResultInv
  <2>3. LoopInv'
    BY <1>2, <1>3, <1>4, <1>6 DEF LoopInv, safe
  <2> QED BY <2>2, <2>3, Zenon
<1>8. BlocksInSpan' /\ (call'.op = "idle" => sink' = <<>>)
  BY <1>1, <1>4, Zenon DEF BlocksInSpan
<1>9. WritesComplete'
  BY <1>3, <1>4, Zenon DEF WritesComplete, safe
<1>10. PathInv' /\ RefusedInv' /\ StatusDelivered'
  BY <1>3, Zenon DEF PathInv, RefusedInv, StatusDelivered
<1> QED
  BY <1>5, <1>7, <1>8, <1>9, <1>10, Zenon DEF UInv

\* A target that is not the console is a device with a span of blocks.
LEMMA TargetLemma ==
  ASSUME UType, target.kind # "console"
  PROVE  /\ target.kind = "blkdev" /\ target.block_size \in Nat
         /\ target.base \in Nat /\ target.span \in Nat
<1>1. target \in [kind : {"blkdev"}, block_size : Nat, base : 0 .. MAX_OFFSET,
                  span : 0 .. MAX_OFFSET, writes : BOOLEAN]
  BY UserIoAssumption, Zenon DEF UType
<1>2. /\ target.kind = "blkdev" /\ target.block_size \in Nat
      /\ target.base \in 0 .. MAX_OFFSET /\ target.span \in 0 .. MAX_OFFSET
  BY <1>1, Zenon
<1>3. MAX_OFFSET \in Nat
  BY UserIoAssumption
<1> QED BY <1>2, <1>3

\* What a target takes of n bytes at the offset, and where: all of them or, on
\* an error, none for the console; for a device whole blocks of its span.
LEMMA TakenLemma ==
  ASSUME UType, NEW n \in Nat \ {0}, NEW w \in open_file_write(target, n, offset)
  PROVE  /\ w.count \in 0 .. n /\ w.err \in Nat /\ (w.err # 0 => w.count = 0)
         /\ target.kind = "console" => w.count = n /\ w.err = 0
         /\ w.count > 0 =>
              /\ Position(target, n, offset)
                   = offset + IF target.kind = "console" THEN 0 ELSE target.base * target.block_size
              /\ Position(target, n, offset) \in Nat
              /\ target.kind = "blkdev" =>
                   \A k \in 1 .. w.count :
                     (Position(target, n, offset) + k - 1) \div target.block_size
                       \in target.base .. target.base + target.span - 1
<1>1. offset \in Nat /\ target \in Targets
  BY Zenon DEF UType
<1>2. CASE target.kind = "console"
  <2>1. w = [count |-> IF n < 0 THEN 0 ELSE n, err |-> IF n < 0 THEN -n ELSE ESUCCESS]
    BY <1>2, Zenon DEF open_file_write, console_write
  <2>2. w.count = n /\ w.err = 0
    BY <2>1 DEF ESUCCESS
  <2> QED BY <1>1, <1>2, <2>2 DEF Position
<1>3. CASE target.kind # "console"
  <2> DEFINE bs == target.block_size
             base == target.base
             span == target.span
             rel == offset \div bs
             count == n \div bs
             req == blkdev_prepare_aligned_io(target, n, offset)
  <2>1. target.kind = "blkdev" /\ bs \in Nat /\ base \in Nat /\ span \in Nat
    BY <1>3, TargetLemma, Zenon
  <2>2. PICK res \in kblkdev_write_bytes(target, n, offset) :
          w = [count |-> IF res < 0 THEN 0 ELSE res, err |-> IF res < 0 THEN -res ELSE ESUCCESS]
    BY <1>3, Zenon DEF open_file_write
  <2>3. \/ req.err \in {EINVAL, EOVERFLOW}
        \/ /\ req.err = ESUCCESS /\ req.count = count
           /\ req.lba = (base + rel) % (MAX_OFFSET + 1) /\ ~(base > MAX_OFFSET - rel)
           /\ bs # 0 /\ offset % bs = 0 /\ n % bs = 0
           /\ ~(rel > span) /\ ~(count > span - rel)
    BY Zenon DEF blkdev_prepare_aligned_io
  <2>4. CASE req.err \in {EINVAL, EOVERFLOW}
    <3>1. res = -req.err
      BY <2>4 DEF kblkdev_write_bytes, ESUCCESS, EINVAL, EOVERFLOW
    <3>2. w.count = 0 /\ w.err \in Nat
      BY <2>2, <2>4, <3>1 DEF EINVAL, EOVERFLOW
    <3> QED BY <3>2, <1>3
  <2>5. CASE /\ req.err = ESUCCESS /\ req.count = count
             /\ req.lba = (base + rel) % (MAX_OFFSET + 1) /\ ~(base > MAX_OFFSET - rel)
             /\ bs # 0 /\ offset % bs = 0 /\ n % bs = 0
             /\ ~(rel > span) /\ ~(count > span - rel)
    <3>1. bs \in Nat \ {0}
      BY <2>1, <2>5, Zenon
    <3>2. (base + rel) * bs = base * bs + offset /\ rel \in Nat
      BY <1>1, <2>1, <2>5, <3>1, BlockLemma, Zenon
    <3>3. count \in Nat /\ count * bs = n
      BY <2>5, <3>1
    <3>4. rel + count <= span
      BY <2>1, <2>5, <3>2, <3>3
    <3> HIDE DEF rel, count, req
    <3>13. req.lba = base + rel
      <4>1. MAX_OFFSET \in Nat
        BY UserIoAssumption
      <4>2. MAX_OFFSET + 1 \in Nat /\ base + rel \in Nat /\ base + rel < MAX_OFFSET + 1
        BY <2>1, <2>5, <3>2, <4>1
      <4> QED BY <2>5, <4>2, WithinModulus, Zenon
    <3>5. res \in {0, -ENOSYS, -EIO, bs, count * bs} /\ (res # 0 => count # 0)
      <4>1. res \in IF count = 0 THEN {0}
                    ELSE IF ~target.writes THEN {-ENOSYS} ELSE driver_write(target, count)
        BY <2>5, <2>2, Zenon DEF kblkdev_write_bytes, req
      <4>2. \A b \in {1, count} : b * bs \in {bs, count * bs}
        BY <3>1, <3>3
      <4> QED BY <4>1, <4>2, Zenon DEF driver_write
    <3>6. count # 0 => bs <= count * bs
      BY <3>1, <3>3
    <3>7. /\ w.count \in Nat /\ w.count <= count * bs /\ w.err \in Nat
          /\ w.err # 0 => w.count = 0
      BY <2>2, <3>1, <3>3, <3>5, <3>6 DEF EIO, ENOSYS, ESUCCESS
    <3>8. Position(target, n, offset) = (base + rel) * bs
      BY <1>3, <3>13, Zenon DEF Position, req
    <3>9. base * bs \in Nat
      BY <2>1
    <3>10. ASSUME NEW k \in 1 .. w.count
           PROVE  (Position(target, n, offset) + k - 1) \div bs \in base .. base + span - 1
      <4>1. k - 1 \in Nat /\ k - 1 < count * bs /\ base + rel \in Nat
        BY <3>7, <3>3, <3>2, <2>1
      <4>2. ((base + rel) * bs + (k - 1)) \div bs \in base + rel .. base + rel + count - 1
        BY <4>1, <3>1, <3>3, InBlocks, Zenon
      <4>3. (base + rel) * bs + (k - 1) = Position(target, n, offset) + k - 1
        BY <3>2, <3>8, <3>9, <1>1, Zenon
      <4>4. \A x \in base + rel .. base + rel + count - 1 : x \in base .. base + span - 1
        BY <3>4, <3>2, <3>3, <2>1
      <4> QED BY <4>2, <4>3, <4>4, Zenon
    <3> HIDE DEF bs, base, span
    <3>11. Position(target, n, offset) = offset + base * bs /\ Position(target, n, offset) \in Nat
      BY <3>2, <3>8, <3>9, <1>1
    <3>12. w.count \in 0 .. n
      BY <3>7, <3>3
    <3> QED
      BY <3>7, <3>10, <3>11, <3>12, <1>3, Zenon DEF bs, base, span
  <2> QED BY <2>3, <2>4, <2>5, Zenon
<1> QED BY <1>2, <1>3, Zenon

\* A function on 1 .. m is a sequence.
LEMMA TupleLemma ==
  ASSUME NEW S, NEW m \in Nat, NEW f \in [1 .. m -> S]
  PROVE  f \in Seq(S) /\ Len(f) = m
  OBVIOUS

\* What _write returns after the loop has written count bytes.
LEMMA ReturnsLemma ==
  ASSUME call \in WriteCalls, NEW count \in Nat, NEW err \in Nat, WriteReturns(count, err)
  PROVE  /\ call' \in WriteCalls /\ call'.op = "done" /\ call'.name = "write"
         /\ call'.ptr = call.ptr /\ call'.len = call.len /\ call'.from = call.from
         /\ Max({0, call'.ret}) = count /\ (count > 0 => call'.ret = count)
<1> DEFINE r == IF count > 0 THEN count ELSE IF err # ESUCCESS THEN -err ELSE 0
<1>1. r \in Int /\ (count = 0 => r <= 0) /\ (count > 0 => r = count)
  BY DEF ESUCCESS
<1>2. call' = [call EXCEPT !.op = "done", !.ret = r]
  BY Zenon DEF WriteReturns, Finish
<1> HIDE DEF r
<1>3. /\ call' \in WriteCalls /\ call'.op = "done" /\ call'.name = "write" /\ call'.ret = r
      /\ call'.ptr = call.ptr /\ call'.len = call.len /\ call'.from = call.from
  BY <1>1, <1>2, Zenon DEF WriteCalls
<1>4. Max({0, r}) = count
  BY <1>1, MaxZero
<1> QED BY <1>1, <1>3, <1>4, Zenon

\* A chunk is not empty and not more than what remains.
LEMMA ChunkLemma ==
  ASSUME NEW m \in Nat \ {0}, NEW b \in Nat \ {0}
  PROVE  Min({m, b}) \in 1 .. m
<1> DEFINE x == IF m <= b THEN m ELSE b
<1>1. x \in {m, b} /\ x \in 1 .. m /\ \A y \in {m, b} : x <= y
  OBVIOUS
<1>2. \A z \in {m, b} : (\A y \in {m, b} : z <= y) => z = x
  OBVIOUS
<1> HIDE DEF x
<1>3. Min({m, b}) = x
  BY <1>1, <1>2, Zenon DEF Min
<1> QED BY <1>1, <1>3, Zenon

\* What a turn of the loop finds.
LEMMA LoopFacts ==
  ASSUME UInv, call.op = "write"
  PROVE  /\ call \in WriteCalls /\ call.fd_ok /\ call.ptr \in Addr /\ Written(call.done)
         /\ call.ptr \in Nat \ {0} /\ call.len \in Nat \ {0} /\ call.from \in Nat
         /\ call.done \in Nat /\ call.done <= call.len
         /\ call.ptr + call.len < KBASE /\ KBASE \in Nat /\ KBASE < ADDR /\ ADDR \in Nat
         /\ \A k \in 0 .. call.len : Plus(call.ptr, k) = call.ptr + k /\ call.ptr + k \in Addr
         /\ call.done < call.len =>
              /\ Min({call.len - call.done, COPYIN_BUF_SIZE}) \in 1 .. call.len - call.done
              /\ Min({call.len - call.done, COPYIN_BUF_SIZE}) \in Addr \ {0}
<1>1. call \in WriteCalls
  BY CallKind, Zenon DEF UInv
<1>2. /\ call.ptr \in Addr /\ call.len \in Addr /\ call.done \in Nat /\ call.from \in Nat
      /\ call.fd_ok /\ call.ptr # 0 /\ call.len # 0
      /\ call.ptr + call.len < KBASE /\ call.done <= call.len
      /\ Written(call.done)
  BY <1>1, Zenon DEF UInv, LoopInv, WriteCalls
<1>3. KBASE \in Nat /\ KBASE < ADDR /\ ADDR \in Nat /\ COPYIN_BUF_SIZE \in Nat \ {0}
  BY Sizes, Zenon
<1>4. call.ptr \in Nat /\ call.len \in Nat
  BY <1>2, <1>3 DEF Addr
<1>5. ASSUME NEW k \in 0 .. call.len
      PROVE  Plus(call.ptr, k) = call.ptr + k /\ call.ptr + k \in Addr
  <2>1. k \in Addr /\ call.ptr + k < ADDR /\ call.ptr + k \in Addr
    BY <1>2, <1>3, <1>4 DEF Addr
  <2> QED BY <2>1, <1>2, PlusLemma, Zenon
<1>6. ASSUME call.done < call.len
      PROVE  /\ Min({call.len - call.done, COPYIN_BUF_SIZE}) \in 1 .. call.len - call.done
             /\ Min({call.len - call.done, COPYIN_BUF_SIZE}) \in Addr \ {0}
  <2>1. call.len - call.done \in Nat \ {0}
    BY <1>2, <1>4, <1>6
  <2>2. Min({call.len - call.done, COPYIN_BUF_SIZE}) \in 1 .. call.len - call.done
    BY <2>1, <1>3, ChunkLemma, Zenon
  <2>3. \A x \in 1 .. call.len - call.done : x \in Addr \ {0}
    BY <1>2, <1>3, <1>4 DEF Addr
  <2> QED BY <2>2, <2>3, Zenon
<1> QED
  BY <1>1, <1>2, <1>3, <1>4, <1>5, <1>6, Zenon

\* __write_copyin: one turn adds to what is written the bytes the target took of
\* the next chunk, or ends the loop with the count so far.
LEMMA LoopUInv == ASSUME UInv, __write_copyin PROVE UInv'
<1> DEFINE remaining == call.len - call.done
           chunk == Min({remaining, COPYIN_BUF_SIZE})
           src == Plus(call.ptr, call.done)
           err == copyin(src, chunk)
           piece(w) == [k \in 1 .. w.count |->
                          <<Position(target, chunk, offset) + k - 1, image.mem[Plus(src, k - 1)]>>]
<1>1. /\ call.op = "write" /\ image' = image /\ target' = target /\ children' = children
      /\ \/ remaining = 0 /\ WriteReturns(call.done, ESUCCESS) /\ UNCHANGED <<offset, sink>>
         \/ /\ remaining > 0 /\ err # ESUCCESS
            /\ WriteReturns(call.done, err) /\ UNCHANGED <<offset, sink>>
         \/ /\ remaining > 0 /\ err = ESUCCESS
            /\ \E w \in open_file_write(target, chunk, offset) :
                 /\ sink' = sink \o piece(w)
                 /\ IF w.err # ESUCCESS
                    THEN WriteReturns(call.done + w.count, w.err) /\ UNCHANGED offset
                    ELSE /\ offset' = offset + w.count
                         /\ IF w.count # chunk THEN WriteReturns(call.done + w.count, w.err)
                            ELSE call' = [call EXCEPT !.done = @ + chunk]
  BY Zenon DEF __write_copyin
<1> HIDE DEF piece, err
<1>2. /\ call.ptr \in Nat \ {0} /\ call.len \in Nat \ {0} /\ call.from \in Nat
      /\ call.done \in Nat /\ call.done <= call.len
      /\ call.ptr + call.len < KBASE /\ KBASE \in Nat /\ KBASE < ADDR /\ ADDR \in Nat
  BY <1>1, LoopFacts, Zenon
<1>3. /\ call \in WriteCalls /\ call.fd_ok /\ call.ptr \in Addr
      /\ \A k \in 0 .. call.len : Plus(call.ptr, k) = call.ptr + k /\ call.ptr + k \in Addr
      /\ UType /\ BlocksInSpan /\ target \in Targets
      /\ image \in ImageType
      /\ sink \in Seq(Nat \X Nat)
      /\ offset = call.from + call.done /\ Len(sink) = call.done
      /\ \A k \in 1 .. call.done : sink[k] = <<Start + k - 1, image.mem[Plus(call.ptr, k - 1)]>>
  BY <1>1, LoopFacts, Zenon DEF UInv, UType, Written
<1>4. remaining > 0 => chunk \in 1 .. remaining /\ chunk \in Addr \ {0}
  <2>1. remaining > 0 => call.done < call.len
    BY <1>2
  <2> QED BY <2>1, <1>1, LoopFacts, Zenon
<1>5. src = call.ptr + call.done /\ src \in Addr
  <2>1. call.done \in 0 .. call.len
    BY <1>2
  <2> QED BY <2>1, <1>3, Zenon
<1> HIDE DEF chunk, src
<1>6. CASE \/ remaining = 0 /\ WriteReturns(call.done, ESUCCESS) /\ UNCHANGED <<offset, sink>>
           \/ /\ remaining > 0 /\ err # ESUCCESS
              /\ WriteReturns(call.done, err) /\ UNCHANGED <<offset, sink>>
  <2>1. /\ call' \in WriteCalls /\ call'.op = "done" /\ call'.name = "write"
        /\ call'.ptr = call.ptr /\ call'.len = call.len /\ call'.from = call.from
        /\ Max({0, call'.ret}) = call.done /\ (call.done > 0 => call'.ret = call.done)
    <3>1. ESUCCESS \in Nat /\ EFAULT \in Nat /\ call.done \in Nat
      BY <1>2, Zenon DEF ESUCCESS, EFAULT
    <3>2. remaining > 0 => err \in {ESUCCESS, EFAULT}
      BY <1>4, <1>5, CopyinLemma, Zenon DEF err
    <3> QED BY <1>3, <1>6, <3>1, <3>2, ReturnsLemma, Zenon
  <2>2. UType'
    BY <1>1, <1>3, <1>6, <2>1, Zenon DEF UType
  <2>3. ResultInv'
    BY <1>1, <1>3, <1>6, <2>1, ZenonT(30) DEF ResultInv, Written, Start
  <2>4. WritesComplete'
    <3>1. CASE remaining = 0
      <4>1. call.done = call.len /\ call.done > 0
        BY <1>2, <3>1
      <4> QED BY <2>1, <4>1, Zenon DEF WritesComplete
    <3>2. CASE remaining > 0 /\ err # ESUCCESS
      <4>1. chunk \in Nat \ {0} /\ chunk <= call.len - call.done /\ src \in Nat
        BY <1>2, <1>4, <1>5, <3>2
      <4>2. src # 0 /\ src + chunk <= KBASE
        BY <1>2, <1>5, <4>1
      <4>3. PICK k \in 0 .. chunk - 1 : ~Readable(src + k)
        BY <1>4, <1>5, <3>2, <4>2, CopyinLemma, Zenon DEF err
      <4>4. call.done + k \in 0 .. call.len - 1 /\ call.ptr + (call.done + k) = src + k
        BY <1>2, <1>5, <4>1
      <4>5. call.done + k \in 0 .. call'.len - 1 /\ ~Readable(call'.ptr + (call.done + k))
        BY <2>1, <4>3, <4>4, Zenon
      <4> QED BY <1>1, <4>5, Zenon DEF WritesComplete, Readable
    <3> QED BY <1>6, <3>1, <3>2, Zenon
  <2>5. BlocksInSpan'
    BY <1>1, <1>3, <1>6, Zenon DEF BlocksInSpan
  <2>6. LoopInv' /\ PathInv' /\ RefusedInv' /\ StatusDelivered' /\ (call'.op = "idle" => sink' = <<>>)
    BY <2>1, Zenon DEF LoopInv, PathInv, RefusedInv, StatusDelivered
  <2> QED BY <2>2, <2>3, <2>4, <2>5, <2>6, Zenon DEF UInv
<1>7. CASE /\ remaining > 0 /\ err = ESUCCESS
           /\ \E w \in open_file_write(target, chunk, offset) :
                 /\ sink' = sink \o piece(w)
                 /\ IF w.err # ESUCCESS
                    THEN WriteReturns(call.done + w.count, w.err) /\ UNCHANGED offset
                    ELSE /\ offset' = offset + w.count
                         /\ IF w.count # chunk THEN WriteReturns(call.done + w.count, w.err)
                            ELSE call' = [call EXCEPT !.done = @ + chunk]
  <2>1. PICK w \in open_file_write(target, chunk, offset) :
          /\ sink' = sink \o piece(w)
          /\ IF w.err # ESUCCESS
             THEN WriteReturns(call.done + w.count, w.err) /\ UNCHANGED offset
             ELSE /\ offset' = offset + w.count
                  /\ IF w.count # chunk THEN WriteReturns(call.done + w.count, w.err)
                     ELSE call' = [call EXCEPT !.done = @ + chunk]
    BY <1>7, Zenon
  <2> DEFINE pos == Position(target, chunk, offset)
             n == call.done + w.count
             into == IF target.kind = "console" THEN 0 ELSE target.base * target.block_size
  <2>2. chunk \in Nat \ {0} /\ chunk <= call.len - call.done
    BY <1>2, <1>4, <1>7
  <2>3. /\ w.count \in 0 .. chunk /\ w.err \in Nat /\ (w.err # 0 => w.count = 0)
        /\ target.kind = "console" => w.count = chunk /\ w.err = 0
        /\ w.count > 0 =>
              /\ pos = offset + into /\ pos \in Nat
              /\ target.kind = "blkdev" =>
                   \A k \in 1 .. w.count :
                     (pos + k - 1) \div target.block_size
                       \in target.base .. target.base + target.span - 1
    BY <2>2, <1>3, TakenLemma, Zenon
  <2> HIDE DEF pos
  <2>4. into \in Int /\ Start = call.from + into
    <3>1. target.kind # "console" => target.base \in Nat /\ target.block_size \in Nat
      BY <1>3, TargetLemma, Zenon
    <3> QED BY <3>1, <1>2 DEF Start
  <2> HIDE DEF into
  <2>5. /\ w.count \in Nat /\ w.count <= chunk /\ n \in Nat /\ n <= call.len
        /\ w.count = chunk => n = call.done + chunk
    BY <1>2, <2>2, <2>3
  <2>6. ASSUME NEW k \in 1 .. w.count
        PROVE  /\ pos + k - 1 \in Nat /\ Plus(src, k - 1) = Plus(call.ptr, call.done + k - 1)
               /\ image.mem[Plus(src, k - 1)] \in Nat
    <3>1. k \in Nat \ {0} /\ k <= w.count /\ w.count > 0
      BY <2>5
    <3>2. /\ k - 1 \in Addr /\ call.done + k - 1 \in 0 .. call.len
          /\ src + (k - 1) < ADDR /\ src + (k - 1) = call.ptr + (call.done + k - 1)
      BY <1>2, <1>5, <2>2, <2>5, <3>1 DEF Addr
    <3>3. Plus(src, k - 1) = src + (k - 1) /\ Plus(src, k - 1) \in Addr
      BY <3>2, <1>5, PlusLemma, Zenon
    <3>4. Plus(call.ptr, call.done + k - 1) = call.ptr + (call.done + k - 1)
      BY <3>2, <1>3, Zenon
    <3>5. pos \in Nat
      BY <3>1, <2>3, Zenon
    <3>6. pos + k - 1 \in Nat
      BY <3>1, <3>5
    <3>7. image.mem[Plus(src, k - 1)] \in Nat
      BY <3>3, <1>3, Zenon DEF ImageType
    <3> QED BY <3>2, <3>3, <3>4, <3>6, <3>7, Zenon
  <2>7. /\ piece(w) \in Seq(Nat \X Nat) /\ Len(piece(w)) = w.count
        /\ \A k \in 1 .. w.count :
             piece(w)[k] = <<pos + k - 1, image.mem[Plus(call.ptr, call.done + k - 1)]>>
    <3>1. piece(w) = [k \in 1 .. w.count |->
                        <<pos + k - 1, image.mem[Plus(call.ptr, call.done + k - 1)]>>]
      BY <2>6, Zenon DEF piece, pos
    <3>2. \A k \in 1 .. w.count :
            <<pos + k - 1, image.mem[Plus(call.ptr, call.done + k - 1)]>> \in Nat \X Nat
      BY <2>6, Zenon
    <3>3. piece(w) \in [1 .. w.count -> Nat \X Nat]
      BY <3>1, <3>2, Zenon
    <3>4. piece(w) \in Seq(Nat \X Nat) /\ Len(piece(w)) = w.count
      BY <3>3, <2>5, TupleLemma, Zenon
    <3> QED BY <3>1, <3>4, Zenon
  <2>8. /\ sink' \in Seq(Nat \X Nat) /\ Len(sink') = n
        /\ \A j \in 1 .. n : sink'[j] = IF j <= call.done THEN sink[j] ELSE piece(w)[j - call.done]
    <3>1. sink \in Seq(Nat \X Nat) /\ piece(w) \in Seq(Nat \X Nat)
      BY <2>7, <1>3, Zenon
    <3>2. /\ sink \o piece(w) \in Seq(Nat \X Nat)
          /\ Len(sink \o piece(w)) = Len(sink) + Len(piece(w))
          /\ \A j \in 1 .. Len(sink) + Len(piece(w)) :
               (sink \o piece(w))[j] = IF j <= Len(sink) THEN sink[j] ELSE piece(w)[j - Len(sink)]
      BY <3>1, ConcatLemma, Zenon
    <3> QED BY <3>2, <2>1, <2>7, <1>3, Zenon
  <2>9. ASSUME NEW j \in 1 .. n
        PROVE  sink'[j] = <<Start + j - 1, image.mem[Plus(call.ptr, j - 1)]>>
    <3>1. CASE j <= call.done
      <4>1. j \in 1 .. call.done
        BY <3>1, <1>2
      <4> QED BY <4>1, <3>1, <2>8, <1>3, Zenon
    <3>2. CASE ~(j <= call.done)
      <4>1. /\ j - call.done \in 1 .. w.count /\ call.done + (j - call.done) - 1 = j - 1
            /\ w.count > 0 /\ j \in Nat
        BY <3>2, <2>5, <1>2
      <4>2. sink'[j] = <<pos + (j - call.done) - 1,
                         image.mem[Plus(call.ptr, call.done + (j - call.done) - 1)]>>
        BY <4>1, <3>2, <2>7, <2>8, Zenon
      <4>3. pos = offset + into /\ offset = call.from + call.done
        BY <4>1, <2>3, <1>3, Zenon
      <4>4. pos + (j - call.done) - 1 = Start + j - 1
        BY <4>1, <4>3, <2>4, <1>2
      <4> QED BY <4>1, <4>2, <4>4, Zenon
    <3> QED BY <3>1, <3>2, Zenon
  <2>10. offset' = call.from + n /\ offset' \in Nat
    <3>1. offset = call.from + call.done /\ offset' = offset + w.count
      <4>1. w.err # ESUCCESS => offset' = offset /\ w.count = 0
        BY <2>1, <2>3, Zenon DEF ESUCCESS
      <4>2. offset = call.from + call.done /\ offset \in Nat
        BY <1>3, Zenon DEF UType
      <4> QED BY <2>1, <4>1, <4>2
    <3> QED BY <3>1, <2>5, <1>2
  <2>11. BlocksInSpan'
    <3>1. ASSUME target.kind = "blkdev", NEW j \in 1 .. n
          PROVE  sink'[j][1] \div target.block_size \in target.base .. target.base + target.span - 1
      <4>1. CASE j <= call.done
        <5>1. j \in DOMAIN sink
          BY <4>1, <1>2, <1>3
        <5> QED BY <5>1, <4>1, <3>1, <2>8, <1>3, Zenon DEF BlocksInSpan
      <4>2. CASE ~(j <= call.done)
        <5>1. j - call.done \in 1 .. w.count /\ w.count > 0
          BY <4>2, <2>5, <1>2
        <5>2. sink'[j] = <<pos + (j - call.done) - 1,
                           image.mem[Plus(call.ptr, call.done + (j - call.done) - 1)]>>
          BY <5>1, <4>2, <2>7, <2>8, Zenon
        <5>3. sink'[j][1] = pos + (j - call.done) - 1
          BY <5>2
        <5> QED BY <5>1, <5>3, <3>1, <2>3, Zenon
      <4> QED BY <4>1, <4>2, Zenon
    <3>2. DOMAIN sink' = 1 .. n
      BY <2>8
    <3> QED BY <3>1, <3>2, <1>1, Zenon DEF BlocksInSpan
  <2>12. CASE WriteReturns(n, w.err) /\ (w.err # 0 \/ w.count # chunk)
    <3>1. /\ call' \in WriteCalls /\ call'.op = "done" /\ call'.name = "write"
          /\ call'.ptr = call.ptr /\ call'.len = call.len /\ call'.from = call.from
          /\ Max({0, call'.ret}) = n
      BY <2>3, <2>5, <2>12, <1>3, ReturnsLemma, Zenon
    <3>2. UType'
      BY <3>1, <2>8, <2>10, <1>1, <1>3, Zenon DEF UType
    <3>3. ResultInv'
      BY <3>1, <2>8, <2>9, <2>10, <1>1, Zenon DEF ResultInv, Written, Start
    <3>4. WritesComplete'
      BY <2>12, <2>3, <1>1, Zenon DEF WritesComplete
    <3>5. LoopInv' /\ PathInv' /\ RefusedInv' /\ StatusDelivered' /\ (call'.op = "idle" => sink' = <<>>)
      BY <3>1, Zenon DEF LoopInv, PathInv, RefusedInv, StatusDelivered
    <3> QED BY <3>2, <3>3, <3>4, <3>5, <2>11, Zenon DEF UInv
  <2>13. CASE call' = [call EXCEPT !.done = @ + chunk] /\ w.count = chunk
    <3>1. /\ call' \in WriteCalls /\ call'.op = "write" /\ call'.name = "write" /\ call'.done = n
          /\ call'.ptr = call.ptr /\ call'.len = call.len /\ call'.from = call.from
          /\ call'.fd_ok = call.fd_ok
      <4>1. call.done + chunk = n /\ n \in Nat
        BY <2>13, <2>5, Zenon
      <4> HIDE DEF n
      <4> QED BY <4>1, <2>13, <1>3, <1>1, Zenon DEF WriteCalls
    <3>2. UType'
      BY <3>1, <2>8, <2>10, <1>1, <1>3, Zenon DEF UType
    <3>3. LoopInv'
      <4>1. call.ptr # 0 /\ call.len # 0
        BY <1>2, Zenon
      <4>2. Written(call.done)'
        BY <3>1, <2>8, <2>9, <2>10, <1>1, Zenon DEF Written, Start
      <4> QED BY <4>1, <4>2, <3>1, <2>5, <1>2, <1>3, Zenon DEF LoopInv
    <3>4. /\ ResultInv' /\ WritesComplete' /\ PathInv' /\ RefusedInv' /\ StatusDelivered'
          /\ (call'.op = "idle" => sink' = <<>>)
      BY <3>1, Zenon DEF ResultInv, WritesComplete, PathInv, RefusedInv, StatusDelivered
    <3> QED BY <3>2, <3>3, <3>4, <2>11, Zenon DEF UInv
  <2> QED BY <2>1, <2>3, <2>12, <2>13, Zenon DEF ESUCCESS
<1> QED BY <1>1, <1>6, <1>7, Zenon

\* _execve: the path is still empty.
LEMMA ExecveUInv == ASSUME UInv, _execve PROVE UInv'
<1>1. PICK ptr \in Addr, args \in BOOLEAN :
        /\ call = Idle
        /\ call' = [op |-> IF args \/ ~_ptr_safe(ptr, 1) THEN "done" ELSE "path",
                    name |-> "execve", ptr |-> ptr, path |-> <<>>,
                    ret |-> IF args THEN -EINVAL ELSE -EFAULT]
        /\ UNCHANGED <<image, target, offset, sink, touched, children>>
  BY Zenon DEF _execve
<1>2. ADDR \in Nat /\ KBASE \in Nat /\ KBASE < ADDR /\ ptr \in Nat /\ EXEC_PATH_MAX \in Nat
  BY Sizes DEF Addr
<1>3. _ptr_safe(ptr, 1) <=> ptr # 0 /\ ptr < KBASE
  <2>1. 0 \in Addr /\ ptr + 0 < ADDR /\ ptr + 0 = ptr /\ 1 - 1 = 0
    BY <1>2 DEF Addr
  <2>2. Plus(ptr, 0) = ptr
    BY <2>1, PlusLemma, Zenon
  <2> QED BY <2>1, <2>2, <1>2 DEF _ptr_safe, is_user_vaddr
<1>4. /\ call' \in ExecCalls /\ call'.op = (IF args \/ ~_ptr_safe(ptr, 1) THEN "done" ELSE "path")
      /\ call'.name = "execve" /\ call'.ptr = ptr /\ call'.path = <<>> /\ Len(call'.path) = 0
      /\ args => call'.ret = -EINVAL
  BY <1>1 DEF ExecCalls, EINVAL, EFAULT
<1>5. UType'
  BY <1>1, <1>4, Zenon DEF UInv, UType
<1>6. PathInv'
  <2>1. 1 .. 0 = {} /\ (ptr < KBASE => ptr + 0 <= KBASE) /\ 0 <= EXEC_PATH_MAX
    BY <1>2
  <2> QED BY <2>1, <1>3, <1>4, Zenon DEF PathInv
<1>7. RefusedInv'
  <2>1. -EINVAL \notin {-EFAULT, -ENAMETOOLONG}
    BY DEF EINVAL, EFAULT, ENAMETOOLONG
  <2>2. ptr \in UserAddr => ptr < KBASE
    BY <1>2 DEF UserAddr
  <2>3. ASSUME NEW n \in 0 .. EXEC_PATH_MAX - 1 PROVE 0 \in 0 .. n /\ ptr + 0 = ptr
    BY <1>2
  <2>4. ASSUME ~(ptr < KBASE), NEW n \in 0 .. EXEC_PATH_MAX - 1,
               \A k \in 0 .. n : Readable(call.ptr + k)'
        PROVE  FALSE
    BY <2>2, <2>3, <2>4, <1>4, Zenon DEF Readable
  <2> QED BY <2>1, <2>4, <1>3, <1>4, Zenon DEF RefusedInv
<1>8. BlocksInSpan'
  BY <1>1, Zenon DEF UInv, BlocksInSpan
<1>9. /\ LoopInv' /\ ResultInv' /\ WritesComplete' /\ StatusDelivered'
      /\ (call'.op = "idle" => sink' = <<>>)
  BY <1>4, Zenon DEF LoopInv, ResultInv, WritesComplete, StatusDelivered
<1> QED BY <1>5, <1>6, <1>7, <1>8, <1>9, Zenon DEF UInv

\* The end of a call other than write.
LEMMA FinishExec ==
  ASSUME call \in ExecCalls, NEW r \in Int, Finish(r)
  PROVE  /\ call' \in ExecCalls /\ call'.op = "done" /\ call'.name = "execve"
         /\ call'.ptr = call.ptr /\ call'.ret = r
  BY Zenon DEF ExecCalls, Finish

\* copyin_path_bounded: one byte more of the string, or its end, or a byte that
\* cannot be read.
LEMMA PathUInv == ASSUME UInv, copyin_path_bounded PROVE UInv'
<1> DEFINE len == Len(call.path)
           src == Plus(call.ptr, len)
           err == copyin(src, 1)
<1>1. /\ call.op = "path" /\ UNCHANGED <<image, target, offset, sink, children>>
      /\ \/ len = EXEC_PATH_MAX /\ Finish(-ENAMETOOLONG)
         \/ len # EXEC_PATH_MAX /\ err # ESUCCESS /\ Finish(-err)
         \/ /\ len # EXEC_PATH_MAX /\ err = ESUCCESS
            /\ call' = [call EXCEPT !.path = Append(call.path, image.mem[src]),
                                    !.op = IF image.mem[src] = 0 THEN "exec" ELSE @]
  BY Zenon DEF copyin_path_bounded
<1>2. /\ call \in ExecCalls /\ call.ptr \in Addr /\ call.path \in Seq(Nat)
      /\ call.ptr # 0 /\ call.ptr + len <= KBASE /\ len <= EXEC_PATH_MAX
      /\ \A k \in 1 .. len :
           /\ call.path[k] = image.mem[call.ptr + k - 1] /\ Readable(call.ptr + k - 1)
           /\ call.path[k] # 0
  <2>1. call \in ExecCalls
    BY <1>1, CallKind, Zenon DEF UInv
  <2>2. call.ptr \in Addr /\ call.path \in Seq(Nat)
    BY <2>1, Zenon DEF ExecCalls
  <2> QED BY <2>1, <2>2, <1>1, Zenon DEF UInv, PathInv
<1>3. /\ ADDR \in Nat /\ KBASE \in Nat /\ KBASE < ADDR /\ call.ptr \in Nat \ {0} /\ len \in Nat
      /\ EXEC_PATH_MAX \in Nat /\ call.ptr + len <= KBASE /\ len <= EXEC_PATH_MAX
  BY <1>2, Sizes DEF Addr
<1> HIDE DEF len
<1>4. src = call.ptr + len /\ src \in Addr /\ src \in Nat \ {0}
  <2>1. len \in Addr /\ call.ptr + len < ADDR /\ call.ptr + len \in Nat \ {0}
    BY <1>3 DEF Addr
  <2> QED BY <2>1, <1>2, PlusLemma, Zenon
<1>5. /\ err \in {ESUCCESS, EFAULT}
      /\ err = ESUCCESS <=> src + 1 <= KBASE /\ Readable(src)
  <2>1. 1 \in Addr \ {0} /\ 0 .. 1 - 1 = {0} /\ src + 0 = src /\ src # 0
    BY <1>3, <1>4 DEF Addr
  <2> HIDE DEF src
  <2>2. /\ copyin(src, 1) \in {ESUCCESS, EFAULT}
        /\ copyin(src, 1) = ESUCCESS
             <=> src # 0 /\ src + 1 <= KBASE /\ \A k \in 0 .. 1 - 1 : Readable(src + k)
    BY <2>1, <1>4, CopyinLemma, Zenon
  <2>3. (\A k \in 0 .. 1 - 1 : Readable(src + k)) <=> Readable(src)
    BY <2>1, Zenon
  <2> QED BY <2>1, <2>2, <2>3, Zenon
<1> HIDE DEF src, err
<1>6. BlocksInSpan'
  BY <1>1, Zenon DEF UInv, BlocksInSpan
<1>7. ASSUME NEW j \in 0 .. len - 1 PROVE image.mem[call.ptr + j] # 0
  <2>1. j + 1 \in 1 .. len /\ call.ptr + (j + 1) - 1 = call.ptr + j
    BY <1>3
  <2> QED BY <2>1, <1>2, Zenon
<1>8. CASE len = EXEC_PATH_MAX /\ Finish(-ENAMETOOLONG)
  <2>1. /\ call' \in ExecCalls /\ call'.op = "done" /\ call'.name = "execve"
        /\ call'.ptr = call.ptr
    <3>1. -ENAMETOOLONG \in Int
      BY DEF ENAMETOOLONG
    <3> QED BY <3>1, <1>2, <1>8, FinishExec, Zenon
  <2>2. UType'
    BY <1>1, <2>1, Zenon DEF UInv, UType
  <2>3. RefusedInv'
    BY <1>1, <1>7, <1>8, <2>1, Zenon DEF RefusedInv
  <2>4. /\ LoopInv' /\ ResultInv' /\ PathInv' /\ WritesComplete' /\ StatusDelivered'
        /\ (call'.op = "idle" => sink' = <<>>)
    BY <2>1, Zenon DEF LoopInv, ResultInv, PathInv, WritesComplete, StatusDelivered
  <2> QED BY <2>2, <2>3, <2>4, <1>6, Zenon DEF UInv
<1>9. CASE len # EXEC_PATH_MAX /\ err # ESUCCESS /\ Finish(-err)
  <2>1. /\ call' \in ExecCalls /\ call'.op = "done" /\ call'.name = "execve"
        /\ call'.ptr = call.ptr
    <3>1. -err \in Int
      BY <1>5, <1>9 DEF EFAULT
    <3> QED BY <3>1, <1>2, <1>9, FinishExec, Zenon
  <2>2. UType'
    BY <1>1, <2>1, Zenon DEF UInv, UType
  <2>3. ~Readable(call.ptr + len)
    <3>1. src \in UserAddr => src + 1 <= KBASE
      BY <1>3, <1>4 DEF UserAddr
    <3> QED BY <3>1, <1>4, <1>5, <1>9, Zenon DEF Readable
  <2>4. RefusedInv'
    <3>1. ASSUME NEW n \in 0 .. EXEC_PATH_MAX - 1, \A k \in 0 .. n : Readable(call.ptr + k)
          PROVE  image.mem[call.ptr + n] # 0
      <4>1. n \in 0 .. len - 1 \/ len \in 0 .. n
        BY <1>3
      <4> QED BY <4>1, <3>1, <2>3, <1>7, Zenon
    <3> QED BY <3>1, <1>1, <2>1, Zenon DEF RefusedInv, Readable
  <2>5. /\ LoopInv' /\ ResultInv' /\ PathInv' /\ WritesComplete' /\ StatusDelivered'
        /\ (call'.op = "idle" => sink' = <<>>)
    BY <2>1, Zenon DEF LoopInv, ResultInv, PathInv, WritesComplete, StatusDelivered
  <2> QED BY <2>2, <2>4, <2>5, <1>6, Zenon DEF UInv
<1>10. CASE /\ len # EXEC_PATH_MAX /\ err = ESUCCESS
            /\ call' = [call EXCEPT !.path = Append(call.path, image.mem[src]),
                                    !.op = IF image.mem[src] = 0 THEN "exec" ELSE @]
  <2> DEFINE path == Append(call.path, image.mem[src])
  <2>1. image.mem[src] \in Nat
    BY <1>4, Zenon DEF UInv, UType, ImageType
  <2>2. /\ path \in Seq(Nat) /\ Len(path) = len + 1 /\ path[len + 1] = image.mem[src]
        /\ \A k \in 1 .. len : path[k] = call.path[k]
    BY <1>2, <2>1 DEF len
  <2> HIDE DEF path
  <2>3. /\ call' \in ExecCalls /\ call'.op = (IF image.mem[src] = 0 THEN "exec" ELSE "path")
        /\ call'.name = "execve" /\ call'.ptr = call.ptr /\ call'.path = path
    BY <1>1, <1>2, <1>10, <2>2, Zenon DEF ExecCalls, path
  <2>4. UType'
    BY <1>1, <2>3, Zenon DEF UInv, UType
  <2>5. PathInv'
    <3>1. src + 1 <= KBASE /\ Readable(src)
      BY <1>5, <1>10, Zenon
    <3>2. call.ptr + (len + 1) <= KBASE /\ len + 1 <= EXEC_PATH_MAX
      BY <3>1, <1>3, <1>4, <1>10
    <3>3. ASSUME NEW k \in 1 .. len + 1
          PROVE  /\ path[k] = image.mem[call.ptr + k - 1] /\ Readable(call.ptr + k - 1)
                 /\ path[k] = 0 <=> image.mem[src] = 0 /\ k = len + 1
      <4>1. (k \in 1 .. len /\ k # len + 1) \/ k = len + 1
        BY <1>3
      <4>2. call.ptr + (len + 1) - 1 = src
        BY <1>3, <1>4
      <4> QED BY <4>1, <4>2, <3>1, <2>2, <1>2, Zenon
    <3>4. path # <<>>
      BY <2>2, <1>3
    <3>5. call'.op = "exec" <=> image.mem[src] = 0
      BY <2>3, Zenon
    <3>6. /\ call'.ptr # 0 /\ Len(call'.path) = len + 1 /\ call'.path # <<>>
          /\ call'.ptr + Len(call'.path) <= KBASE /\ Len(call'.path) <= EXEC_PATH_MAX
      BY <3>2, <3>4, <2>2, <2>3, <1>2, Zenon
    <3>7. \A k \in 1 .. Len(call'.path) :
            /\ call'.path[k] = image'.mem[call'.ptr + k - 1] /\ Readable(call'.ptr + k - 1)
            /\ call'.path[k] = 0 <=> call'.op = "exec" /\ k = Len(call'.path)
      BY <3>3, <3>5, <3>6, <2>3, <1>1, Zenon
    <3> QED BY <3>6, <3>7, <1>1, Zenon DEF PathInv, Readable
  <2>6. /\ LoopInv' /\ ResultInv' /\ RefusedInv' /\ WritesComplete' /\ StatusDelivered'
        /\ (call'.op = "idle" => sink' = <<>>)
    BY <2>3, Zenon DEF LoopInv, ResultInv, RefusedInv, WritesComplete, StatusDelivered
  <2> QED BY <2>4, <2>5, <2>6, <1>6, Zenon DEF UInv
<1> QED BY <1>1, <1>8, <1>9, <1>10, Zenon

\* The rest of execve replaces the image as a whole.
LEMMA ImageUInv == ASSUME UInv, exec_image PROVE UInv'
<1>1. /\ call.op = "exec" /\ UNCHANGED <<target, offset, sink, touched, children>>
      /\ image' = image \/ image' = ExecImage
      /\ \E r \in {-ENOENT, -ENOMEM, ESUCCESS} : Finish(r)
  BY Zenon DEF exec_image
<1>2. call \in ExecCalls
  BY <1>1, CallKind, Zenon DEF UInv
<1>3. {-ENOENT, -ENOMEM, ESUCCESS} \subseteq Int
      /\ {-ENOENT, -ENOMEM, ESUCCESS} \cap {-EFAULT, -ENAMETOOLONG} = {}
  BY DEF ENOENT, ENOMEM, ESUCCESS, EFAULT, ENAMETOOLONG
<1>4. /\ call' \in ExecCalls /\ call'.op = "done" /\ call'.name = "execve"
      /\ call'.ret \notin {-EFAULT, -ENAMETOOLONG}
  <2>1. PICK r \in {-ENOENT, -ENOMEM, ESUCCESS} : Finish(r)
    BY <1>1, Zenon
  <2>2. r \in Int /\ r \notin {-EFAULT, -ENAMETOOLONG}
    BY <1>3, Zenon
  <2> QED BY <2>1, <2>2, <1>2, FinishExec, Zenon
<1>5. UType'
  <2>1. ExecImage \in ImageType
    BY UserIoAssumption, Zenon
  <2> QED BY <2>1, <1>1, <1>4, Zenon DEF UInv, UType
<1>6. BlocksInSpan'
  BY <1>1, Zenon DEF UInv, BlocksInSpan
<1>7. /\ LoopInv' /\ ResultInv' /\ PathInv' /\ RefusedInv' /\ WritesComplete' /\ StatusDelivered'
      /\ (call'.op = "idle" => sink' = <<>>)
  BY <1>4, Zenon DEF LoopInv, ResultInv, PathInv, RefusedInv, WritesComplete, StatusDelivered
<1> QED BY <1>5, <1>6, <1>7, Zenon DEF UInv

\* _waitpid: a status pointer that _ptr_safe refuses ends the call.
LEMMA WaitpidUInv == ASSUME UInv, _waitpid PROVE UInv'
<1>1. PICK ptr \in Addr, options \in BOOLEAN :
        /\ call = Idle
        /\ call' = [op |-> IF options \/ (ptr # 0 /\ ~_ptr_safe(ptr, SIZEOF_INT))
                          THEN "done" ELSE "wait",
                    name |-> "waitpid", ptr |-> ptr,
                    ret |-> IF options THEN -EINVAL ELSE -EFAULT]
        /\ UNCHANGED <<image, target, offset, sink, touched, children>>
  BY Zenon DEF _waitpid
<1>2. /\ call' \in WaitCalls /\ call'.op \in {"done", "wait"} /\ call'.name = "waitpid"
      /\ ~(call'.ret > 0)
  BY <1>1 DEF WaitCalls, EINVAL, EFAULT
<1>3. UType'
  BY <1>1, <1>2, Zenon DEF UInv, UType
<1>4. BlocksInSpan'
  BY <1>1, Zenon DEF UInv, BlocksInSpan
<1>5. /\ LoopInv' /\ ResultInv' /\ PathInv' /\ RefusedInv' /\ WritesComplete' /\ StatusDelivered'
      /\ (call'.op = "idle" => sink' = <<>>)
  BY <1>2, Zenon DEF LoopInv, ResultInv, PathInv, RefusedInv, WritesComplete, StatusDelivered
<1> QED BY <1>3, <1>4, <1>5, Zenon DEF UInv

\* The exit of a child.
LEMMA ChildUInv == ASSUME UInv, child_exit PROVE UInv'
<1>1. PICK c \in Children :
        /\ call.op \in {"idle", "wait"}
        /\ children' = [children EXCEPT ![c].st = "zombie"]
        /\ UNCHANGED <<image, target, offset, call, sink, touched>>
  BY Zenon DEF child_exit
<1>2. children' \in [Children -> [st : {"live", "zombie", "gone"}, status : Statuses]]
  BY <1>1, Zenon DEF UInv, UType
<1>3. UType'
  BY <1>1, <1>2, Zenon DEF UInv, UType
<1>4. BlocksInSpan' /\ (call'.op = "idle" => sink' = <<>>)
  BY <1>1, Zenon DEF UInv, BlocksInSpan
<1>5. /\ LoopInv' /\ ResultInv' /\ PathInv' /\ RefusedInv' /\ WritesComplete' /\ StatusDelivered'
  BY <1>1, Zenon DEF LoopInv, ResultInv, PathInv, RefusedInv, WritesComplete, StatusDelivered
<1> QED BY <1>3, <1>4, <1>5, Zenon DEF UInv

\* What waitpid stores.
LEMMA StoreLemma ==
  ASSUME UType, call.op = "wait", NEW c \in Children, call.ptr # 0,
         copyout(call.ptr, SIZEOF_INT) = ESUCCESS,
         image' = [image EXCEPT !.mem = [a \in Addr |->
                     IF a \in Bytes(call.ptr, SIZEOF_INT)
                     THEN children[c].status[a - call.ptr + 1] ELSE @[a]]]
  PROVE  /\ image' \in ImageType
         /\ \A k \in 1 .. SIZEOF_INT : image'.mem[call.ptr + k - 1] = children[c].status[k]
         /\ \A a \in Bytes(call.ptr, SIZEOF_INT) : Readable(a) /\ image.perm[PageOf(a)] = "rw"
         /\ \A a \in Addr \ Bytes(call.ptr, SIZEOF_INT) : image'.mem[a] = image.mem[a]
<1> DEFINE to == call.ptr
           bytes == Bytes(to, SIZEOF_INT)
           val(a) == children[c].status[a - to + 1]
           mem == [a \in Addr |-> IF a \in bytes THEN val(a) ELSE image.mem[a]]
<1>1. to \in Addr /\ SIZEOF_INT \in Addr \ {0} /\ SIZEOF_INT \in Nat \ {0}
  <2>1. call \in WaitCalls
    BY CallKind, Zenon
  <2> QED BY <2>1, Sizes DEF WaitCalls, Addr
<1>2. /\ to + SIZEOF_INT <= KBASE
      /\ \A k \in 0 .. SIZEOF_INT - 1 : Readable(to + k) /\ image.perm[PageOf(to + k)] = "rw"
  BY <1>1, CopyoutLemma, Zenon
<1>3. bytes = {to + k : k \in 0 .. SIZEOF_INT - 1}
  BY <1>1, <1>2, BytesLemma, Zenon
<1>4. KBASE \in Nat /\ KBASE < ADDR /\ ADDR \in Nat /\ to \in Nat
  BY <1>1, Sizes DEF Addr
<1>5. children[c].status \in [1 .. SIZEOF_INT -> Nat]
  <2>1. children[c].status \in Statuses
    BY Zenon DEF UType
  <2> QED BY <2>1, UserIoAssumption, Zenon
<1>6. /\ image \in ImageType
      /\ image' = [image EXCEPT !.mem = mem]
  BY Zenon DEF UType
<1> HIDE DEF bytes
<1>7. ASSUME NEW a \in bytes PROVE val(a) \in Nat
  <2>1. PICK k \in 0 .. SIZEOF_INT - 1 : a = to + k
    BY <1>3, Zenon
  <2>2. a - to + 1 \in 1 .. SIZEOF_INT
    BY <2>1, <1>1, <1>4
  <2> QED BY <2>2, <1>5, Zenon
<1> HIDE DEF val
<1>8. mem \in [Addr -> Nat]
  BY <1>6, <1>7, Zenon DEF ImageType
<1>9. \A k \in 1 .. SIZEOF_INT :
        to + k - 1 \in Addr /\ to + k - 1 \in bytes /\ val(to + k - 1) = children[c].status[k]
  <2>1. ASSUME NEW k \in 1 .. SIZEOF_INT
        PROVE  /\ to + k - 1 \in Addr /\ k - 1 \in 0 .. SIZEOF_INT - 1 /\ to + (k - 1) = to + k - 1
               /\ (to + k - 1) - to + 1 = k
    BY <1>1, <1>2, <1>4 DEF Addr
  <2> QED BY <2>1, <1>3, Zenon DEF val
<1>10. image'.mem = mem /\ image' \in ImageType
  <2> HIDE DEF mem
  <2> QED BY <1>6, <1>8, Zenon DEF ImageType
<1>11. \A k \in 1 .. SIZEOF_INT : image'.mem[to + k - 1] = children[c].status[k]
  BY <1>9, <1>10, Zenon
<1>12. \A a \in bytes : Readable(a) /\ image.perm[PageOf(a)] = "rw"
  BY <1>2, <1>3, Zenon
<1>13. \A a \in Addr \ bytes : image'.mem[a] = image.mem[a]
  BY <1>10, Zenon
<1> HIDE DEF mem
<1> QED BY <1>10, <1>11, <1>12, <1>13, Zenon DEF bytes

\* waitpid returns: without children, without a status pointer, with one that
\* copyout refuses, or with the status stored.
LEMMA WaitReturnsUInv == ASSUME UInv, wait_returns PROVE UInv'
<1>0. \A c \in Children : c \in Int
  BY UserIoAssumption
<1>1. /\ call.op = "wait" /\ UNCHANGED <<target, offset, sink>>
      /\ \/ Finish(-ECHILD) /\ UNCHANGED <<image, children>>
         \/ \E c \in Children :
              /\ children' = [children EXCEPT ![c].st = "gone"]
              /\ \/ call.ptr = 0 /\ Finish(c) /\ UNCHANGED image
                 \/ /\ call.ptr # 0 /\ copyout(call.ptr, SIZEOF_INT) # ESUCCESS /\ UNCHANGED image
                    /\ Finish(-copyout(call.ptr, SIZEOF_INT))
                 \/ /\ call.ptr # 0 /\ copyout(call.ptr, SIZEOF_INT) = ESUCCESS /\ Finish(c)
                    /\ image' = [image EXCEPT !.mem = [a \in Addr |->
                                    IF a \in Bytes(call.ptr, SIZEOF_INT)
                                    THEN children[c].status[a - call.ptr + 1] ELSE @[a]]]
  BY ZenonT(30) DEF wait_returns, WaitResult
<1>2. call \in WaitCalls /\ UType
  BY <1>1, CallKind, Zenon DEF UInv
<1>3. ASSUME NEW r \in Int, Finish(r)
      PROVE  /\ call' \in WaitCalls /\ call'.op = "done" /\ call'.name = "waitpid"
             /\ call'.ptr = call.ptr /\ call'.ret = r
  BY <1>2, <1>3, Zenon DEF WaitCalls, Finish
<1>4. ASSUME NEW c \in Children, children' = [children EXCEPT ![c].st = "gone"]
      PROVE  /\ children' \in [Children -> [st : {"live", "zombie", "gone"}, status : Statuses]]
             /\ children'[c].status = children[c].status
  BY <1>2, <1>4, Zenon DEF UType
<1>5. BlocksInSpan'
  BY <1>1, Zenon DEF UInv, BlocksInSpan
<1>6. ASSUME call' \in WaitCalls, call'.op = "done", call'.name = "waitpid"
      PROVE  /\ LoopInv' /\ ResultInv' /\ PathInv' /\ RefusedInv' /\ WritesComplete'
             /\ (call'.op = "idle" => sink' = <<>>)
  BY <1>6, Zenon DEF LoopInv, ResultInv, PathInv, RefusedInv, WritesComplete
<1>7. CASE Finish(-ECHILD) /\ UNCHANGED <<image, children>>
  <2>1. -ECHILD \in Int /\ ~(-ECHILD > 0)
    BY DEF ECHILD
  <2>2. call' \in WaitCalls /\ call'.op = "done" /\ call'.name = "waitpid" /\ call'.ret = -ECHILD
    BY <2>1, <1>3, <1>7, Zenon
  <2>3. UType' /\ StatusDelivered'
    BY <2>1, <2>2, <1>1, <1>2, <1>7, Zenon DEF UType, StatusDelivered
  <2> QED BY <2>2, <2>3, <1>5, <1>6, Zenon DEF UInv
<1>8. ASSUME NEW c \in Children, children' = [children EXCEPT ![c].st = "gone"],
             call.ptr = 0, Finish(c), UNCHANGED image
      PROVE  UInv'
  <2>1. c \in Int
    BY <1>0, Zenon
  <2>2. call' \in WaitCalls /\ call'.op = "done" /\ call'.name = "waitpid" /\ call'.ptr = 0
    BY <2>1, <1>3, <1>8, Zenon
  <2>3. UType' /\ StatusDelivered'
    BY <2>2, <1>1, <1>2, <1>4, <1>8, Zenon DEF UType, StatusDelivered
  <2> QED BY <2>2, <2>3, <1>5, <1>6, Zenon DEF UInv
<1>9. ASSUME NEW c \in Children, children' = [children EXCEPT ![c].st = "gone"], UNCHANGED image,
             call.ptr # 0, copyout(call.ptr, SIZEOF_INT) # ESUCCESS,
             Finish(-copyout(call.ptr, SIZEOF_INT))
      PROVE  UInv'
  <2>1. call.ptr \in Addr /\ SIZEOF_INT \in Addr \ {0}
    BY <1>2, Sizes DEF WaitCalls, Addr
  <2>2. copyout(call.ptr, SIZEOF_INT) = EFAULT
    BY <2>1, <1>9, CopyoutLemma, Zenon
  <2>3. -EFAULT \in Int /\ ~(-EFAULT > 0)
    BY DEF EFAULT
  <2>4. call' \in WaitCalls /\ call'.op = "done" /\ call'.name = "waitpid" /\ call'.ret = -EFAULT
    BY <2>2, <2>3, <1>3, <1>9, Zenon
  <2>5. UType' /\ StatusDelivered'
    BY <2>3, <2>4, <1>1, <1>2, <1>4, <1>9, Zenon DEF UType, StatusDelivered
  <2> QED BY <2>4, <2>5, <1>5, <1>6, Zenon DEF UInv
<1>10. ASSUME NEW c \in Children, children' = [children EXCEPT ![c].st = "gone"],
              call.ptr # 0, copyout(call.ptr, SIZEOF_INT) = ESUCCESS, Finish(c),
              image' = [image EXCEPT !.mem = [a \in Addr |->
                          IF a \in Bytes(call.ptr, SIZEOF_INT)
                          THEN children[c].status[a - call.ptr + 1] ELSE @[a]]]
       PROVE  UInv'
  <2>1. c \in Int
    BY <1>0, Zenon
  <2>2. /\ call' \in WaitCalls /\ call'.op = "done" /\ call'.name = "waitpid"
        /\ call'.ptr = call.ptr /\ call'.ret = c
    BY <2>1, <1>3, <1>10, Zenon
  <2>3. /\ image' \in ImageType
        /\ \A k \in 1 .. SIZEOF_INT : image'.mem[call.ptr + k - 1] = children[c].status[k]
    BY <1>1, <1>2, <1>10, StoreLemma, Zenon
  <2>4. UType'
    BY <2>2, <2>3, <1>1, <1>2, <1>4, <1>10, Zenon DEF UType
  <2>5. StatusDelivered'
    <3>1. children'[call'.ret].status = children[c].status
      BY <2>2, <1>4, <1>10, Zenon
    <3>2. \A k \in 1 .. SIZEOF_INT : image'.mem[call'.ptr + k - 1] = children'[call'.ret].status[k]
      BY <3>1, <2>2, <2>3, Zenon
    <3> QED BY <3>2, Zenon DEF StatusDelivered
  <2> QED BY <2>2, <2>4, <2>5, <1>5, <1>6, Zenon DEF UInv
<1> QED BY <1>1, <1>7, <1>8, <1>9, <1>10, Zenon

\* The return to user mode.
LEMMA IretUInv == ASSUME UInv, iret PROVE UInv'
<1>1. /\ call' = Idle /\ sink' = <<>> /\ offset' \in Nat
      /\ UNCHANGED <<image, target, children>>
  BY Zenon DEF iret, IdleSink, UInv, UType
<1>2. call'.op = "idle" /\ DOMAIN sink' = {} /\ sink' \in Seq(Nat \X Nat)
  BY <1>1 DEF Idle
<1>3. UType' /\ BlocksInSpan'
  BY <1>1, <1>2, Zenon DEF UInv, UType, BlocksInSpan
<1> QED
  BY <1>1, <1>2, <1>3, Zenon
  DEF UInv, LoopInv, ResultInv, PathInv, RefusedInv, WritesComplete, StatusDelivered

\* Every step keeps the invariant.
LEMMA NextUInv == ASSUME UInv, [Next]_vars PROVE UInv'
<1>1. CASE UNCHANGED vars
  <2>1. UNCHANGED <<image, target, offset, call, sink, children>>
    BY <1>1, Zenon DEF vars
  <2>2. UType' /\ (call'.op = "idle" => sink' = <<>>)
    BY <2>1, Zenon DEF UInv, UType
  <2>3. LoopInv' /\ ResultInv'
    BY <2>1, Zenon DEF UInv, LoopInv, ResultInv, Written, Start
  <2>4. PathInv' /\ RefusedInv'
    BY <2>1, Zenon DEF UInv, PathInv, RefusedInv, Readable
  <2>5. BlocksInSpan' /\ WritesComplete' /\ StatusDelivered'
    BY <2>1, Zenon DEF UInv, BlocksInSpan, WritesComplete, StatusDelivered, Readable
  <2> QED BY <2>2, <2>3, <2>4, <2>5, Zenon DEF UInv
<1> QED
  BY <1>1, WriteUInv, LoopUInv, ExecveUInv, PathUInv, ImageUInv, WaitpidUInv, ChildUInv,
     WaitReturnsUInv, IretUInv, Zenon DEF Next

-----------------------------------------------------------------------------
(* The theorems.                                                            *)

INSTANCE WellFoundedInduction

\* Every non-empty set of numbers has a least one.
LEMMA LeastNumber == WellOrdered
<1> SUFFICES ASSUME NEW S \in SUBSET Nat, S # {}
             PROVE  \E x \in S : \A y \in S : x <= y
  BY Zenon DEF WellOrdered
<1>1. PICK x \in S : \A y \in S : ~(<<y, x>> \in OpToRel(<, Nat))
  BY WFMin, NatLessThanWellFounded, Zenon
<1>2. \A y \in S : ~(y < x)
  BY <1>1, Zenon DEF OpToRel
<1> QED BY <1>2

\* The invariant holds in every reachable state: what a call in progress has
\* copied so far is the front of what its caller passed.
THEOREM UserIoInvariant == Spec => []UInv
<1>1. Init => UInv
  BY InitUInv, Zenon
<1>2. UInv /\ [Next]_vars => UInv'
  BY NextUInv, Zenon
<1> QED BY <1>1, <1>2, PTL DEF Spec

\* The first bytes of the buffer, as a sequence.
LEMMA PrefixLemma == ASSUME UInv PROVE WriteIsPrefix
<1> SUFFICES ASSUME call.op = "done", call.name = "write" PROVE WriteIsPrefix
  BY Zenon DEF WriteIsPrefix
<1> DEFINE n == Max({0, call.ret})
<1>1. Written(n) /\ sink \in Seq(Nat \X Nat)
  BY Zenon DEF UInv, ResultInv, UType
<1> HIDE DEF n
<1>2. /\ sink = [k \in 1 .. n |-> sink[k]]
      /\ \A k \in 1 .. n : sink[k] = <<Start + k - 1, image.mem[Plus(call.ptr, k - 1)]>>
  BY <1>1 DEF Written
<1>3. sink = [k \in 1 .. n |-> <<Start + k - 1, image.mem[Plus(call.ptr, k - 1)]>>]
  BY <1>2, Zenon
<1> QED BY <1>1, <1>3, Zenon DEF WriteIsPrefix, Written, Start, n

\* The string at a pointer ends at the first NUL.
LEMMA StringLemma ==
  ASSUME UType, NEW a
  PROVE  LET n == StringAt(a)
         IN n # 0 =>
              /\ n \in 1 .. EXEC_PATH_MAX /\ a + (n - 1) < ADDR /\ image.mem[a + (n - 1)] = 0
              /\ \A k \in 0 .. EXEC_PATH_MAX - 1 :
                   a + k < ADDR /\ image.mem[a + k] = 0 => n - 1 <= k
<1> DEFINE ends == {k \in 0 .. EXEC_PATH_MAX - 1 : a + k < ADDR /\ image.mem[a + k] = 0}
<1>1. EXEC_PATH_MAX \in Nat \ {0}
  BY Sizes, Zenon
<1>2. StringAt(a) = IF ends = {} THEN 0 ELSE Min(ends) + 1
  BY Zenon DEF StringAt
<1>3. ASSUME ends # {} PROVE Min(ends) \in ends /\ \A y \in ends : Min(ends) <= y
  <2>1. ends \in SUBSET Nat
    BY <1>1
  <2> QED BY <2>1, <1>3, LeastNumber, MinLemma, Zenon
<1>4. ASSUME ends # {}
      PROVE  /\ Min(ends) \in 0 .. EXEC_PATH_MAX - 1
             /\ a + Min(ends) < ADDR /\ image.mem[a + Min(ends)] = 0
             /\ \A k \in 0 .. EXEC_PATH_MAX - 1 :
                  a + k < ADDR /\ image.mem[a + k] = 0 => Min(ends) <= k
  BY <1>3, <1>4, Zenon
<1> HIDE DEF ends
<1>5. ASSUME ends # {}
      PROVE  StringAt(a) - 1 = Min(ends) /\ StringAt(a) \in 1 .. EXEC_PATH_MAX
  BY <1>1, <1>2, <1>4, <1>5
<1> QED BY <1>2, <1>4, <1>5, Zenon

\* A path that execve goes on with is the whole string; one that was refused had
\* an unreadable byte before its NUL or no NUL in time.
LEMMA PathLemma == ASSUME UInv PROVE PathCopied
<1> DEFINE p == call.ptr
           n == StringAt(p)
           whole == n # 0 /\ \A k \in 0 .. n - 1 : Readable(p + k)
<1>1. UType /\ PathInv /\ RefusedInv
  BY Zenon DEF UInv
<1>2. n # 0 => /\ n \in 1 .. EXEC_PATH_MAX /\ p + (n - 1) < ADDR /\ image.mem[p + (n - 1)] = 0
               /\ \A k \in 0 .. EXEC_PATH_MAX - 1 : p + k < ADDR /\ image.mem[p + k] = 0 => n - 1 <= k
  BY <1>1, StringLemma, Zenon
<1>3. EXEC_PATH_MAX \in Nat \ {0} /\ KBASE \in Nat /\ ADDR \in Nat /\ KBASE < ADDR
  BY Sizes, Zenon
<1>4. ASSUME call.op = "exec"
      PROVE  whole /\ call.path = [k \in 1 .. n |-> image.mem[p + k - 1]]
  <2> DEFINE len == Len(call.path)
  <2>1. /\ p \in Addr /\ call.path \in Seq(Nat) /\ p + len <= KBASE /\ len <= EXEC_PATH_MAX
        /\ \A k \in 1 .. len : /\ call.path[k] = image.mem[p + k - 1] /\ Readable(p + k - 1)
                               /\ call.path[k] = 0 <=> k = len
        /\ call.path # <<>>
    BY <1>1, <1>4, CallKind, Zenon DEF PathInv, ExecCalls
  <2>2. p \in Nat /\ len \in Nat \ {0} /\ call.path = [k \in 1 .. len |-> call.path[k]]
    BY <2>1 DEF Addr
  <2> HIDE DEF len, n, p
  <2>3. \A k \in 0 .. len - 1 : /\ k + 1 \in 1 .. len /\ p + (k + 1) - 1 = p + k /\ p + k < ADDR
                               /\ k \in 0 .. EXEC_PATH_MAX - 1
    BY <2>1, <2>2, <1>3
  <2>4. ASSUME NEW k \in 0 .. len - 1
        PROVE  Readable(p + k) /\ (image.mem[p + k] = 0 <=> k + 1 = len)
    <3> DEFINE j == k + 1
    <3>1. j \in 1 .. len /\ p + j - 1 = p + k
      BY <2>3, Zenon
    <3> HIDE DEF j
    <3>2. /\ call.path[j] = image.mem[p + j - 1] /\ Readable(p + j - 1)
          /\ call.path[j] = 0 <=> j = len
      BY <3>1, <2>1, Zenon
    <3> QED BY <3>1, <3>2, Zenon DEF j
  <2>5. len - 1 \in 0 .. len - 1 /\ (len - 1) + 1 = len
    BY <2>2
  <2>6. n # 0
    <3> DEFINE ends == {k \in 0 .. EXEC_PATH_MAX - 1 : p + k < ADDR /\ image.mem[p + k] = 0}
    <3>1. len - 1 \in ends
      BY <2>3, <2>4, <2>5, Zenon
    <3>2. n = Min(ends) + 1
      BY <3>1, Zenon DEF StringAt, n
    <3>3. Min(ends) \in 0 .. EXEC_PATH_MAX - 1
      <4>1. ends \in SUBSET Nat
        BY <1>3
      <4> QED BY <4>1, <3>1, LeastNumber, MinLemma, Zenon
    <3> HIDE DEF ends
    <3> QED BY <3>2, <3>3
  <2>7. n = len
    <3>1. n - 1 <= len - 1 /\ n \in 1 .. EXEC_PATH_MAX
      BY <2>3, <2>4, <2>5, <2>6, <1>2, Zenon
    <3>2. n - 1 \in 0 .. len - 1
      BY <3>1, <2>2, <1>3
    <3>3. (n - 1) + 1 = len
      BY <3>2, <2>4, <2>6, <1>2, Zenon
    <3> QED BY <3>1, <3>3
  <2>8. call.path = [k \in 1 .. n |-> image.mem[p + k - 1]]
    BY <2>1, <2>2, <2>7, Zenon
  <2> QED BY <2>4, <2>6, <2>7, <2>8, Zenon
<1>5. ASSUME call.op = "done", call.name = "execve", call.ret \in {-EFAULT, -ENAMETOOLONG}, p # 0, whole
      PROVE  FALSE
  <2>1. n - 1 \in 0 .. EXEC_PATH_MAX - 1
    BY <1>2, <1>3, <1>5
  <2> QED BY <2>1, <1>1, <1>2, <1>5, Zenon DEF RefusedInv
<1> QED BY <1>4, <1>5, Zenon DEF PathCopied

\* The bytes a step reads or writes.
LEMMA InsideLemma ==
  ASSUME UInv, [Next]_vars
  PROVE  /\ \A a \in touched' \ touched : Readable(a)
         /\ \A a \in Addr : image'.mem[a] # image.mem[a] =>
              call.op = "exec" \/ (Readable(a) /\ image.perm[PageOf(a)] = "rw")
<1>1. CASE touched' \subseteq touched /\ (image' = image \/ call.op = "exec")
  BY <1>1, Zenon
<1>2. ASSUME __write_copyin, ~(touched' \subseteq touched)
      PROVE  image' = image /\ \A a \in touched' \ touched : Readable(a)
  <2> DEFINE chunk == Min({call.len - call.done, COPYIN_BUF_SIZE})
             src == Plus(call.ptr, call.done)
  <2>1. /\ call.op = "write" /\ image' = image /\ call.len - call.done > 0
        /\ copyin(src, chunk) = ESUCCESS /\ touched' = touched \cup Bytes(src, chunk)
    BY <1>2, ZenonT(30) DEF __write_copyin
  <2>2. /\ call.ptr \in Addr /\ call.done \in Nat /\ call.len \in Nat /\ call.done <= call.len
        /\ \A k \in 0 .. call.len : Plus(call.ptr, k) = call.ptr + k /\ call.ptr + k \in Addr
        /\ call.done < call.len => chunk \in Addr \ {0}
    BY <2>1, LoopFacts, Zenon
  <2> HIDE DEF chunk
  <2>3. call.done < call.len /\ call.done \in 0 .. call.len
    BY <2>1, <2>2
  <2>4. src \in Addr /\ chunk \in Addr \ {0}
    BY <2>2, <2>3, Zenon
  <2> HIDE DEF src
  <2>5. src + chunk <= KBASE /\ \A k \in 0 .. chunk - 1 : Readable(src + k)
    BY <2>1, <2>4, CopyinLemma, Zenon
  <2>6. Bytes(src, chunk) = {src + k : k \in 0 .. chunk - 1}
    BY <2>4, <2>5, BytesLemma, Zenon
  <2> QED BY <2>1, <2>5, <2>6, Zenon
<1>3. ASSUME copyin_path_bounded, ~(touched' \subseteq touched)
      PROVE  image' = image /\ \A a \in touched' \ touched : Readable(a)
  <2> DEFINE src == Plus(call.ptr, Len(call.path))
  <2>1. /\ call.op = "path" /\ image' = image
        /\ copyin(src, 1) = ESUCCESS /\ touched' = touched \cup {src}
    BY <1>3, ZenonT(30) DEF copyin_path_bounded
  <2>2. call \in ExecCalls /\ call.ptr + Len(call.path) <= KBASE
    BY <2>1, CallKind, Zenon DEF UInv, PathInv
  <2>3. call.ptr \in Addr /\ Len(call.path) \in Addr /\ 1 \in Addr \ {0}
    <3>1. call.ptr \in Addr /\ call.path \in Seq(Nat)
      BY <2>2, Zenon DEF ExecCalls
    <3>2. Len(call.path) \in Nat
      BY <3>1
    <3> QED BY <3>1, <3>2, <2>2, Sizes DEF Addr
  <2>4. src \in Addr
    BY <2>3, PlusLemma, Zenon
  <2> HIDE DEF src
  <2>5. \A k \in 0 .. 1 - 1 : Readable(src + k)
    BY <2>1, <2>3, <2>4, CopyinLemma, Zenon
  <2>6. Readable(src)
    <3>1. 0 \in 0 .. 1 - 1 /\ src + 0 = src
      BY <2>4 DEF Addr
    <3> QED BY <3>1, <2>5, Zenon
  <2> QED BY <2>1, <2>6, Zenon
<1>4. ASSUME wait_returns, ~(touched' \subseteq touched /\ image' = image)
      PROVE  /\ \A a \in touched' \ touched : Readable(a)
             /\ \A a \in Addr : image'.mem[a] # image.mem[a] =>
                  Readable(a) /\ image.perm[PageOf(a)] = "rw"
  <2>1. PICK c \in Children :
          /\ call.op = "wait" /\ call.ptr # 0 /\ copyout(call.ptr, SIZEOF_INT) = ESUCCESS
          /\ touched' = Bytes(call.ptr, SIZEOF_INT)
          /\ image' = [image EXCEPT !.mem = [a \in Addr |->
                         IF a \in Bytes(call.ptr, SIZEOF_INT)
                         THEN children[c].status[a - call.ptr + 1] ELSE @[a]]]
    BY <1>4, ZenonT(30) DEF wait_returns
  <2>2. /\ \A a \in Bytes(call.ptr, SIZEOF_INT) : Readable(a) /\ image.perm[PageOf(a)] = "rw"
        /\ \A a \in Addr \ Bytes(call.ptr, SIZEOF_INT) : image'.mem[a] = image.mem[a]
    BY <2>1, StoreLemma, Zenon DEF UInv
  <2> QED BY <2>1, <2>2, Zenon
<1>5. _write \/ _execve \/ exec_image \/ _waitpid \/ child_exit \/ iret \/ UNCHANGED vars
        => touched' \subseteq touched /\ (image' = image \/ call.op = "exec")
  BY ZenonT(30) DEF _write, _execve, exec_image, _waitpid, child_exit, iret, vars
<1>6. __write_copyin \/ copyin_path_bounded => image' = image
  BY ZenonT(30) DEF __write_copyin, copyin_path_bounded
<1> QED BY <1>1, <1>2, <1>3, <1>4, <1>5, <1>6, ZenonT(30) DEF Next

\* Whatever pointer and length a process passes, the kernel reads only bytes of
\* the process's own mapped pages and changes only bytes of its writable ones.
THEOREM CopiesInside == Spec => CopiesStayInside
<1>1. UInv /\ [Next]_vars =>
        [/\ \A a \in touched' \ touched : Readable(a)
         /\ \A a \in Addr : image'.mem[a] # image.mem[a] =>
              call.op = "exec" \/ (Readable(a) /\ image.perm[PageOf(a)] = "rw")]_vars
  BY InsideLemma, Zenon
<1> QED BY <1>1, UserIoInvariant, PTL DEF Spec, CopiesStayInside

\* write returns the length of the prefix of the buffer that the target took,
\* however the chunk loop of __write_copyin ended.
THEOREM WritePrefix == Spec => []WriteIsPrefix
<1>1. UInv => WriteIsPrefix
  BY PrefixLemma, Zenon
<1> QED BY <1>1, UserIoInvariant, PTL

\* blkdev_prepare_aligned_io lets no request leave the device's span, for every
\* block size, base and span that blkdev_populate may store, a span that reaches
\* beyond the largest offset included.
THEOREM BlocksWithinSpan == Spec => []BlocksInSpan
<1>1. UInv => BlocksInSpan
  BY Zenon DEF UInv
<1> QED BY <1>1, UserIoInvariant, PTL

\* A mapped buffer is written to the console in full.
THEOREM ConsoleWritesComplete == Spec => []WritesComplete
<1>1. UInv => WritesComplete
  BY Zenon DEF UInv
<1> QED BY <1>1, UserIoInvariant, PTL

\* copyin_path_bounded hands execve the caller's string, and refuses only what
\* it cannot read or what is too long.
THEOREM PathIsCallers == Spec => []PathCopied
<1>1. UInv => PathCopied
  BY PathLemma, Zenon
<1> QED BY <1>1, UserIoInvariant, PTL

\* A child that waitpid returns has its status in the caller's memory.
THEOREM StatusReachesCaller == Spec => []StatusDelivered
<1>1. UInv => StatusDelivered
  BY Zenon DEF UInv
<1> QED BY <1>1, UserIoInvariant, PTL
=============================================================================
