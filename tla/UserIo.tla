------------------------------- MODULE UserIo -------------------------------
(***************************************************************************)
(* The system calls of one process that reach into its memory: write(2),   *)
(* the path of execve(2) and the status of waitpid(2), over copyin and     *)
(* copyout (uaccess.c), an open file (openfile.c) and the two kinds of     *)
(* target behind one: the console and a block device (blkdev.c).           *)
(*                                                                         *)
(* Addresses are 0 .. ADDR - 1 and wrap around like uint32_t; the user     *)
(* half is below KBASE.  A page is "none" (absent), "kernel" (supervisor), *)
(* "ro" or "rw".  A byte of memory is a number; 0 is NUL and NULL.  Calls  *)
(* come from ring 3 through an interrupt gate, so only the process's own   *)
(* steps happen during a call, except while waitpid blocks; a loop that    *)
(* can fail in the middle is a step an iteration.                          *)
(*                                                                         *)
(* At most MAX_MAPPED bytes are mapped, fewer than the largest ssize_t: the *)
(* kernel cannot reach more physical memory than its window is long.       *)
(***************************************************************************)
EXTENDS Integers, Sequences, FiniteSets, FiniteSetsExt

\* A definition M_X is X with a mistake in it; no other definition uses it.

CONSTANTS
  ADDR, PAGE, KBASE,         \* 2^32, 4096, KERNEL_VIRTUAL_BASE
  MAX_MAPPED,
  COPYIN_BUF_SIZE, EXEC_PATH_MAX,
  SIZEOF_INT,
  ALLOWED,                   \* EXEC_ALLOWED_PATH with its NUL
  Images, ExecImage,         \* memory a process may have, and after execve: [perm, mem]
  Targets,                   \* what descriptor 1 may refer to
  MAX_OFFSET,                \* offset_t is 0 .. MAX_OFFSET
  OFFSET_BOUND,              \* no write begins behind it, so of->offset does not wrap
  Lens,                      \* lengths passed to write
  Children, Statuses

Addr == 0 .. ADDR - 1
PageOf(a) == a \div PAGE
UserAddr == 0 .. KBASE - 1

\* Memory: how each page is mapped, and the bytes.
ImageType == [perm : [0 .. PageOf(ADDR - 1) -> {"none", "kernel", "ro", "rw"}], mem : [Addr -> Nat]]

ESUCCESS == 0
ENOENT == 2
EIO == 5
EBADF == 9
ECHILD == 10
ENOMEM == 12
EFAULT == 14
EINVAL == 22
ENAMETOOLONG == 36
ENOSYS == 38
EOVERFLOW == 75

ASSUME UserIoAssumption ==
  /\ {ADDR, PAGE, KBASE, COPYIN_BUF_SIZE, EXEC_PATH_MAX, SIZEOF_INT, MAX_OFFSET} \subseteq Nat \ {0}
  /\ ADDR % PAGE = 0 /\ KBASE % PAGE = 0 /\ KBASE < ADDR /\ SIZEOF_INT < ADDR
  /\ MAX_MAPPED < ADDR \div 2
  /\ OFFSET_BOUND \in Nat /\ OFFSET_BOUND + ADDR <= MAX_OFFSET
  /\ Lens \subseteq Addr /\ Children \subseteq Nat \ {0} /\ Statuses \subseteq [1 .. SIZEOF_INT -> Nat]
  /\ ExecImage \in Images
  /\ \A m \in Images :
       /\ m \in ImageType
       /\ Cardinality({a \in UserAddr : m.perm[PageOf(a)] \in {"ro", "rw"}}) <= MAX_MAPPED
       /\ \A a \in Addr \ UserAddr : m.perm[PageOf(a)] = "kernel"
  /\ \A t \in Targets :
       \/ t.kind = "console"
       \/ t \in [kind : {"blkdev"}, block_size : Nat, base : 0 .. MAX_OFFSET,
                 span : 0 .. MAX_OFFSET, writes : BOOLEAN]

VARIABLES
  image,        \* the process's memory: page permissions and bytes
  target,       \* the target of its open file
  offset,       \* of->offset
  call,         \* the system call in progress
  sink,         \* what the target took in this call: <<position, byte>>
  touched,      \* user addresses the kernel read or wrote in this call
  children      \* by child: live, zombie or gone, and its exit status

vars == <<image, target, offset, call, sink, touched, children>>

Idle == [op |-> "idle"]
IdleSink == sink = <<>> /\ touched = {}

Init ==
  /\ image \in Images /\ target \in Targets /\ offset = 0
  /\ call = Idle /\ IdleSink
  /\ children \in [Children -> [st : {"live"}, status : Statuses]]

\* The call ends with result r; what it was and what it did stay visible until
\* the process runs on.
Finish(r) == call' = [call EXCEPT !.op = "done", !.ret = r]

-----------------------------------------------------------------------------
(* uaccess.c and syscall.h                                                  *)

Plus(a, n) == (a + n) % ADDR
is_user_vaddr(a) == a < KBASE

range_check(start, n) ==
  \/ n = 0
  \/ LET end == Plus(start, n - 1)
     IN end >= start /\ is_user_vaddr(start) /\ is_user_vaddr(end)

_ptr_safe(ptr, n) ==
  /\ ptr # 0
  /\ n # 0 => LET end == Plus(ptr, n - 1)
              IN end >= ptr /\ is_user_vaddr(ptr) /\ is_user_vaddr(end)

\* The pages of n > 0 bytes at a, and the bytes themselves.
pages(a, n) == PageOf(a) .. PageOf(Plus(a, n - 1))
Bytes(a, n) == {Plus(a, k) : k \in 0 .. n - 1}

\* The error of a copyin; the kernel's buffer is on the kernel stack, and the
\* caller is the kernel, so those checks pass.
copyin(usrc, n) ==
  IF usrc = 0 THEN EFAULT
  ELSE IF n = 0 THEN ESUCCESS
  ELSE IF /\ range_check(usrc, n)
          /\ \A p \in pages(usrc, n) : image.perm[p] \in {"ro", "rw"}
  THEN ESUCCESS ELSE EFAULT

M_copyout(udest, n) == copyin(udest, n)
copyout(udest, n) ==
  IF udest = 0 THEN EFAULT
  ELSE IF n = 0 THEN ESUCCESS
  ELSE IF /\ range_check(udest, n)
          /\ \A p \in pages(udest, n) : image.perm[p] = "rw"
  THEN ESUCCESS ELSE EFAULT

-----------------------------------------------------------------------------
(* blkdev.c, console.c and openfile.c: how many bytes a target takes, or    *)
(* the negated error.                                                       *)

PowerOfTwo[n \in Nat] == n = 1 \/ (n > 1 /\ n % 2 = 0 /\ PowerOfTwo[n \div 2])

\* The request made of the driver, or the error that keeps it from being made.
M_blkdev_prepare_aligned_io(t, n, off) ==
  LET rel_lba == off \div t.block_size
      count == n \div t.block_size
  IN IF \/ t.block_size = 0 \/ ~PowerOfTwo[t.block_size]
        \/ off % t.block_size # 0 \/ n % t.block_size # 0
        \/ rel_lba > t.span \/ count > t.span - rel_lba
     THEN [err |-> EINVAL]
     ELSE [err |-> ESUCCESS, count |-> count, lba |-> (t.base + rel_lba) % (MAX_OFFSET + 1)]
blkdev_prepare_aligned_io(t, n, off) ==
  LET rel_lba == off \div t.block_size
      count == n \div t.block_size
  IN IF \/ t.block_size = 0 \/ ~PowerOfTwo[t.block_size]
        \/ off % t.block_size # 0 \/ n % t.block_size # 0
        \/ rel_lba > t.span \/ count > t.span - rel_lba
     THEN [err |-> EINVAL]
     ELSE IF t.base > MAX_OFFSET - rel_lba THEN [err |-> EOVERFLOW]
     ELSE [err |-> ESUCCESS, count |-> count, lba |-> (t.base + rel_lba) % (MAX_OFFSET + 1)]

\* What a driver answers to a request for count blocks.
driver_write(t, count) == {-EIO} \cup {b * t.block_size : b \in {1, count}}

kblkdev_write_bytes(t, n, off) ==
  LET req == blkdev_prepare_aligned_io(t, n, off)
  IN IF req.err # ESUCCESS THEN {-req.err}
     ELSE IF req.count = 0 THEN {0}
     ELSE IF ~t.writes THEN {-ENOSYS}
     ELSE driver_write(t, req.count)

M_console_write(n) == {n - 1}
console_write(n) == {n}

\* Where the first of the bytes goes: a byte of the disk, or for the console
\* just the offset it is called with.
Position(t, n, off) ==
  IF t.kind = "console" THEN off
  ELSE blkdev_prepare_aligned_io(t, n, off).lba * t.block_size

\* The count and the error of open_file_write.
open_file_write(t, n, off) ==
  {[count |-> IF res < 0 THEN 0 ELSE res, err |-> IF res < 0 THEN -res ELSE ESUCCESS] :
     res \in IF t.kind = "console" THEN console_write(n) ELSE kblkdev_write_bytes(t, n, off)}

-----------------------------------------------------------------------------
(* write(2)                                                                 *)

\* The buffer a user passes to write, with len # 0.
_ptr_range_safe(ptr, len) ==
  Plus(ptr, len) >= ptr /\ ptr < KBASE /\ Plus(ptr, len) < KBASE

\* Entry of _write: the arguments are checked and the chunk loop begins.
_write ==
  \E ptr \in Addr, len \in Lens, fd_ok \in BOOLEAN :
    LET r == IF ptr = 0 THEN -EFAULT
             ELSE IF len = 0 THEN ESUCCESS
             ELSE IF ~_ptr_range_safe(ptr, len) THEN -EFAULT
             ELSE -EBADF
    IN /\ call = Idle /\ offset <= OFFSET_BOUND
       /\ call' = [op |-> IF ptr # 0 /\ len # 0 /\ _ptr_range_safe(ptr, len) /\ fd_ok
                         THEN "write" ELSE "done",
                   name |-> "write", ptr |-> ptr, len |-> len, from |-> offset,
                   fd_ok |-> fd_ok, done |-> 0, ret |-> r]
       /\ UNCHANGED <<image, target, offset, sink, touched, children>>

\* The loop of __write_copyin ends with count bytes and an error, and _write
\* returns.
M_WriteReturns(count, err) ==
  Finish(IF err # ESUCCESS THEN -err ELSE count)
WriteReturns(count, err) ==
  Finish(IF count > 0 THEN count ELSE IF err # ESUCCESS THEN -err ELSE 0)

\* One turn of that loop.
__write_copyin ==
  LET remaining == call.len - call.done
      chunk == Min({remaining, COPYIN_BUF_SIZE})
      src == Plus(call.ptr, call.done)
      err == copyin(src, chunk)
  IN /\ call.op = "write"
     /\ UNCHANGED <<image, target, children>>
     /\ \/ /\ remaining = 0
           /\ WriteReturns(call.done, ESUCCESS) /\ UNCHANGED <<offset, sink, touched>>
        \/ /\ remaining > 0 /\ err # ESUCCESS
           /\ WriteReturns(call.done, err) /\ UNCHANGED <<offset, sink, touched>>
        \/ /\ remaining > 0 /\ err = ESUCCESS
           /\ touched' = touched \cup Bytes(src, chunk)
           /\ \E w \in open_file_write(target, chunk, offset) :
                /\ sink' = sink \o [k \in 1 .. w.count |->
                     <<Position(target, chunk, offset) + k - 1, image.mem[Plus(src, k - 1)]>>]
                /\ IF w.err # ESUCCESS
                   THEN WriteReturns(call.done + w.count, w.err) /\ UNCHANGED offset
                   ELSE /\ offset' = offset + w.count
                        /\ IF w.count # chunk THEN WriteReturns(call.done + w.count, w.err)
                           ELSE call' = [call EXCEPT !.done = @ + chunk]

-----------------------------------------------------------------------------
(* execve(2) as far as its path, and waitpid(2)                             *)

_execve ==
  \E ptr \in Addr, args \in BOOLEAN :
    /\ call = Idle
    /\ call' = [op |-> IF args \/ ~_ptr_safe(ptr, 1) THEN "done" ELSE "path",
                name |-> "execve", ptr |-> ptr, path |-> <<>>,
                ret |-> IF args THEN -EINVAL ELSE -EFAULT]
    /\ UNCHANGED <<image, target, offset, sink, touched, children>>

\* One byte of copyin_path_bounded.
M_copyin_path_bounded ==
  LET src == Plus(call.ptr, Len(call.path))
      path == Append(call.path, image.mem[src])
  IN /\ call.op = "path"
     /\ UNCHANGED <<image, target, offset, sink, children>>
     /\ IF copyin(call.ptr, EXEC_PATH_MAX) # ESUCCESS
        THEN Finish(-EFAULT) /\ UNCHANGED touched
        ELSE /\ touched' = touched \cup {src}
             /\ call' = [call EXCEPT !.path = path, !.op = IF image.mem[src] = 0 THEN "exec" ELSE @]
copyin_path_bounded ==
  LET src == Plus(call.ptr, Len(call.path))
      err == copyin(src, 1)
      path == Append(call.path, image.mem[src])
  IN /\ call.op = "path"
     /\ UNCHANGED <<image, target, offset, sink, children>>
     /\ IF Len(call.path) = EXEC_PATH_MAX THEN Finish(-ENAMETOOLONG) /\ UNCHANGED touched
        ELSE IF err # ESUCCESS THEN Finish(-err) /\ UNCHANGED touched
        ELSE /\ touched' = touched \cup {src}
             /\ call' = [call EXCEPT !.path = path, !.op = IF image.mem[src] = 0 THEN "exec" ELSE @]

\* The rest of execve: only one path exists; building its image may fail.
exec_image ==
  /\ call.op = "exec"
  /\ UNCHANGED <<target, offset, sink, touched, children>>
  /\ \/ call.path # ALLOWED /\ Finish(-ENOENT) /\ UNCHANGED image
     \/ call.path = ALLOWED /\ Finish(-ENOMEM) /\ UNCHANGED image
     \/ call.path = ALLOWED /\ Finish(ESUCCESS) /\ image' = ExecImage

_waitpid ==
  \E ptr \in Addr, options \in BOOLEAN :
    /\ call = Idle
    /\ call' = [op |-> IF options \/ (ptr # 0 /\ ~_ptr_safe(ptr, SIZEOF_INT))
                      THEN "done" ELSE "wait",
                name |-> "waitpid", ptr |-> ptr,
                ret |-> IF options THEN -EINVAL ELSE -EFAULT]
    /\ UNCHANGED <<image, target, offset, sink, touched, children>>

\* A child exits while its parent is out of the kernel or blocked in waitpid.
child_exit ==
  \E c \in Children :
    /\ call.op \in {"idle", "wait"} /\ children[c].st = "live"
    /\ children' = [children EXCEPT ![c].st = "zombie"]
    /\ UNCHANGED <<image, target, offset, call, sink, touched>>

M_WaitResult(c, err) == c
WaitResult(c, err) == IF err # ESUCCESS THEN -err ELSE c

\* proc_waitpid returns a reaped child and its status is copied out, or there
\* is no child at all.
wait_returns ==
  /\ call.op = "wait"
  /\ UNCHANGED <<target, offset, sink>>
  /\ \/ /\ \A c \in Children : children[c].st = "gone"
        /\ Finish(-ECHILD) /\ UNCHANGED <<image, touched, children>>
     \/ \E c \in Children :
          LET to == call.ptr
              err == copyout(to, SIZEOF_INT)
          IN /\ children[c].st = "zombie"
             /\ children' = [children EXCEPT ![c].st = "gone"]
             /\ Finish(IF to = 0 THEN c ELSE WaitResult(c, err))
             /\ IF to = 0 \/ err # ESUCCESS THEN UNCHANGED <<image, touched>>
                ELSE /\ touched' = Bytes(to, SIZEOF_INT)
                     /\ image' = [image EXCEPT !.mem = [a \in Addr |->
                          IF a \in Bytes(to, SIZEOF_INT)
                          THEN children[c].status[a - to + 1] ELSE @[a]]]

\* The process runs on in ring 3.
iret ==
  /\ call.op = "done"
  /\ call' = Idle /\ sink' = <<>> /\ touched' = {}
  /\ UNCHANGED <<image, target, offset, children>>

Next ==
  \/ _write \/ __write_copyin
  \/ _execve \/ copyin_path_bounded \/ exec_image
  \/ _waitpid \/ child_exit \/ wait_returns
  \/ iret

Spec == Init /\ [][Next]_vars

-----------------------------------------------------------------------------
(* Properties.                                                              *)

Readable(a) == a \in UserAddr /\ image.perm[PageOf(a)] \in {"ro", "rw"}

\* Whatever pointer and length a process passes, copyin reads only bytes of its
\* own mapped pages and copyout changes only bytes of its writable pages; the
\* one other change of its memory is the new image of execve.
CopiesStayInside ==
  [][/\ \A a \in touched' \ touched : Readable(a)
     /\ \A a \in Addr : image'.mem[a] # image.mem[a] =>
          call.op = "exec" \/ (Readable(a) /\ image.perm[PageOf(a)] = "rw")]_vars

\* write returns the number of bytes the target took: these are the first bytes
\* of the buffer, in order and in consecutive places from the old offset on,
\* and the offset has advanced by as much, whether the loop ran to the end, met
\* an unmapped page, a short write or an error of the driver.
WriteIsPrefix ==
  call.op = "done" /\ call.name = "write" =>
    LET n == Max({0, call.ret})
        start == IF target.kind = "console" THEN call.from
                 ELSE target.base * target.block_size + call.from
    IN /\ offset = call.from + n
       /\ sink = [k \in 1 .. n |-> <<start + k - 1, image.mem[Plus(call.ptr, k - 1)]>>]

\* A driver is only asked for blocks of the device's own span, however far
\* earlier writes have moved the offset, and where blkdev_populate was given a
\* span that reaches beyond the largest offset_t.
BlocksInSpan ==
  target.kind = "blkdev" =>
    \A k \in DOMAIN sink :
      sink[k][1] \div target.block_size \in target.base .. target.base + target.span - 1

\* A buffer of mapped pages is written to the console in full, however many
\* chunks and pages it takes.  The last byte of the user half is left out:
\* _ptr_range_safe refuses a buffer that ends with it.
WritesComplete ==
  /\ call.op = "done" /\ call.name = "write" /\ call.fd_ok /\ call.ptr # 0
  /\ target.kind = "console" /\ call.ptr + call.len < KBASE
  /\ \A k \in 0 .. call.len - 1 : Readable(call.ptr + k)
  => call.ret = call.len

\* The length of the string at a, its NUL included, when it ends within
\* EXEC_PATH_MAX bytes; 0 otherwise.
StringAt(a) ==
  LET ends == {k \in 0 .. EXEC_PATH_MAX - 1 : a + k < ADDR /\ image.mem[a + k] = 0}
  IN IF ends = {} THEN 0 ELSE Min(ends) + 1

\* execve sees exactly the string in the caller's memory, also when the page
\* behind its NUL is absent ("Bytewise copyin avoids requiring the whole max
\* buffer to be mapped"), and refuses only one that is unmapped or too long.
PathCopied ==
  call.op \in {"exec", "done"} /\ call.name = "execve" =>
    LET n == StringAt(call.ptr)
        whole == n # 0 /\ \A k \in 0 .. n - 1 : Readable(call.ptr + k)
    IN /\ call.op = "exec" =>
            whole /\ call.path = [k \in 1 .. n |-> image.mem[call.ptr + k - 1]]
       /\ call.op = "done" /\ call.ret \in {-EFAULT, -ENAMETOOLONG} /\ call.ptr # 0 => ~whole

\* A waitpid that returns a child has stored that child's exit status where the
\* caller asked for it.
StatusDelivered ==
  call.op = "done" /\ call.name = "waitpid" /\ call.ret > 0 /\ call.ptr # 0 =>
    \A k \in 1 .. SIZEOF_INT :
      image.mem[call.ptr + k - 1] = children[call.ret].status[k]
=============================================================================
