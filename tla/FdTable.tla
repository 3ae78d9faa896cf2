------------------------------ MODULE FdTable ------------------------------
(***************************************************************************)
(* Descriptor lists and reference counts: kernel/io/fdpool.c, fdman.c,     *)
(* openfile.c and console.c with their callers in sched.c (the stdio       *)
(* bootstrap of proc_alloc, sched_clone_fork, sched_proc_cleanup_fds).     *)
(*                                                                         *)
(* There is no open or close: the console is the only open file and the    *)
(* only file target, and console_init holds the first reference to both.   *)
(* Every operation runs with interrupts off and is one step.  An entry of  *)
(* the descriptor pool may be refused while slots are left, because        *)
(* dpage_alloc needs a frame for it.  What write does through a descriptor *)
(* is in UserIo; it changes none of this.                                  *)
(***************************************************************************)
EXTENDS Integers, Sequences, FiniteSets, Functions

\* A definition M_X is X with a mistake in it; no other definition uses it.

CONSTANTS
  Procs,          \* process slots
  FD_SLOTS        \* entries of the descriptor pool

ASSUME FdAssumption == FD_SLOTS \in Nat

Slots == 1 .. FD_SLOTS
STDIO == <<0, 1, 2>>    \* STDIN_FILENO, STDOUT_FILENO, STDERR_FILENO

VARIABLES
  life,           \* by process: "free", "alive" or "zombie"
  fd_list,        \* by process: its entries, in list order
  fd_count,
  fd_used,        \* set bits of fd_bitmap
  local_id, of,   \* by entry; of is TRUE when it points at the console's open file
  of_refs, ft_refs,   \* refcounts of the open file and of its file target
  booted, panicked

fdVars == <<fd_list, fd_count, fd_used, local_id, of, of_refs, ft_refs>>
vars == <<life, fdVars, booted, panicked>>

\* After console_init: fdpool_alloc_openfile took its own reference to the target.
Init ==
  /\ life = [p \in Procs |-> "free"]
  /\ fd_list = [p \in Procs |-> <<>>] /\ fd_count = [p \in Procs |-> 0]
  /\ fd_used = {}
  /\ local_id = [s \in Slots |-> 0] /\ of = [s \in Slots |-> FALSE]
  /\ of_refs = 1 /\ ft_refs = 2
  /\ booted = FALSE /\ panicked = FALSE

-----------------------------------------------------------------------------
\* The n lowest free entries in order: what n calls of fdpool_alloc_fdentry
\* return one after the other.
Lowest(n) ==
  [i \in 1 .. n |-> CHOOSE s \in Slots \ fd_used : Cardinality((1 .. s) \ fd_used) = i]
Room == Cardinality(Slots \ fd_used)

\* k calls of open_file_put, the last reference freeing the open file and
\* dropping its target.
open_file_put(refs, k) ==
  /\ of_refs' = IF refs < k THEN 0 ELSE refs - k
  /\ panicked' = (refs < k \/ (refs = k /\ ft_refs = 0))
  /\ ft_refs' = IF refs = k /\ ft_refs > 0 THEN ft_refs - 1 ELSE ft_refs

\* p gets the entries of ids, in order, each with a reference to the console.
Fill(p, ids, locals) ==
  LET new == Lowest(Len(ids))
      at  == [s \in Range(new) |-> CHOOSE i \in DOMAIN new : new[i] = s]
  IN /\ fd_used' = fd_used \cup Range(new)
     /\ fd_list' = [fd_list EXCEPT ![p] = new]
     /\ local_id' = [s \in Slots |-> IF s \in DOMAIN at THEN locals[at[s]] ELSE local_id[s]]
     /\ of' = [s \in Slots |-> IF s \in DOMAIN at THEN ids[at[s]] ELSE of[s]]
     /\ of_refs' = of_refs + Cardinality({i \in DOMAIN ids : ids[i]})
     /\ UNCHANGED <<ft_refs, panicked>>

\* k entries were made before one was refused; they are put and freed again,
\* which leaves them zeroed.
M_Unwind_puts_twice(k) ==
  /\ open_file_put(of_refs, k)
  /\ UNCHANGED <<fd_used, local_id, of>>
M_Unwind_keeps_entries(k) ==
  /\ open_file_put(of_refs + k, k)
  /\ fd_used' = fd_used \cup Range(Lowest(k))
  /\ UNCHANGED <<local_id, of>>
M_Unwind_clears_by_index(k) ==
  /\ open_file_put(of_refs + k, k)
  /\ local_id' = [s \in Slots |-> IF s <= k THEN 0 ELSE local_id[s]]
  /\ UNCHANGED <<fd_used, of>>
Unwind(k) ==
  /\ open_file_put(of_refs + k, k)
  /\ local_id' = [s \in Slots |-> IF s \in Range(Lowest(k)) THEN 0 ELSE local_id[s]]
  /\ of' = [s \in Slots |-> IF s \in Range(Lowest(k)) THEN FALSE ELSE of[s]]
  /\ UNCHANGED fd_used

-----------------------------------------------------------------------------
\* kmain's proc_alloc(NULL, ...): three entries for the console, or none; the
\* process comes to life either way.
BootstrapStdio(p) ==
  /\ ~booted /\ life[p] = "free"
  /\ booted' = TRUE
  /\ life' = [life EXCEPT ![p] = "alive"]
  /\ \/ /\ Room >= 3
        /\ Fill(p, <<TRUE, TRUE, TRUE>>, STDIO)
        /\ fd_count' = [fd_count EXCEPT ![p] = 3]
     \/ /\ \E k \in 0 .. 2 : k <= Room /\ Unwind(k)
        /\ fd_list' = [fd_list EXCEPT ![p] = <<>>]
        /\ fd_count' = [fd_count EXCEPT ![p] = 0]

\* fork with fde_fork_copy: the child gets a copy of every entry.  A refused
\* entry undoes the copies, the child's thread and the child.
_fork(p, c) ==
  LET src == fd_list[p]
  IN /\ life[p] = "alive" /\ life[c] = "free"
     /\ \/ /\ Room >= Len(src)
           /\ Fill(c, [i \in DOMAIN src |-> of[src[i]]], [i \in DOMAIN src |-> local_id[src[i]]])
           /\ life' = [life EXCEPT ![c] = "alive"]
           /\ fd_count' = [fd_count EXCEPT ![c] = fd_count[p]]
        \/ /\ \E k \in 0 .. Len(src) - 1 : k <= Room /\ Unwind(k)
           /\ fd_list' = [fd_list EXCEPT ![c] = <<>>]
           /\ fd_count' = [fd_count EXCEPT ![c] = fd_count[p]]
           /\ UNCHANGED life
     /\ UNCHANGED booted

\* The exit of a process's last thread: sched_proc_cleanup_fds.
Exit(p) ==
  LET mine == Range(fd_list[p])
  IN /\ life[p] = "alive"
     /\ life' = [life EXCEPT ![p] = "zombie"]
     /\ open_file_put(of_refs, Cardinality({s \in mine : of[s]}))
     /\ fd_used' = fd_used \ mine
     /\ local_id' = [s \in Slots |-> IF s \in mine THEN 0 ELSE local_id[s]]
     /\ of' = [s \in Slots |-> IF s \in mine THEN FALSE ELSE of[s]]
     /\ fd_list' = [fd_list EXCEPT ![p] = <<>>]
     /\ fd_count' = [fd_count EXCEPT ![p] = 0]
     /\ UNCHANGED booted

\* proc_free leaves fd_list and fd_count to the next proc_alloc, which resets
\* them in the same step that gives the slot out again.
Reap(p) ==
  /\ life[p] = "zombie"
  /\ life' = [life EXCEPT ![p] = "free"]
  /\ UNCHANGED <<fdVars, booted, panicked>>

Next ==
  /\ ~panicked
  /\ \E p \in Procs :
       \/ BootstrapStdio(p) \/ Exit(p) \/ Reap(p)
       \/ \E c \in Procs : _fork(p, c)

Spec == Init /\ [][Next]_vars

-----------------------------------------------------------------------------
(* Properties.                                                              *)

\* The reference count of the console's open file is one for console_init and
\* one for every descriptor that points at it, through every fork, unwound
\* fork and exit; so it never underflows and the console is never freed.
RefcountExact ==
  /\ of_refs = 1 + Cardinality({s \in fd_used : of[s]})
  /\ ft_refs = 2
  /\ ~panicked

\* Every allocated entry is on exactly one list, once, and the process owning
\* the list is alive: unwinding and exit neither leak an entry nor leave one
\* shared between parent and child.
EntriesOwnedOnce ==
  /\ \A s \in fd_used : Cardinality({p \in Procs : s \in Range(fd_list[p])}) = 1
  /\ \A p \in Procs : /\ IsInjective(fd_list[p])
                      /\ Range(fd_list[p]) \subseteq fd_used
                      /\ fd_list[p] # <<>> => life[p] = "alive"

\* The descriptors of a live process are 0, 1, 2 on the console, or there are
\* none: what the root process got is what every descendant sees.
DescriptorsInherited ==
  \A p \in Procs : life[p] = "alive" =>
    LET ids == [i \in DOMAIN fd_list[p] |-> local_id[fd_list[p][i]]]
    IN /\ ids \in {<<>>, STDIO}
       /\ \A i \in DOMAIN ids : of[fd_list[p][i]]
       /\ fd_count[p] = Len(fd_list[p])

=============================================================================
