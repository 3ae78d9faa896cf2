----------------------------- MODULE KernelBoot -----------------------------
(***************************************************************************)
(* From kernel entry to a running kernel, and its page directory from then *)
(* on: bootinfo_getmem, paging_init_identity_window, kernel_highhalf_remap *)
(* (kremap.c), dpage_init, pool_init (pool.c) over the regions of kva.c,   *)
(* and after them the operations of KernelVm with the directories that     *)
(* _mm_alloc_pd copies the kernel half into.                               *)
(*                                                                         *)
(* Addresses are page numbers and sizes are pages; memory and pool entries *)
(* are measured in units, PAGE to a page (one unit is a KiB).  Boot is     *)
(* sequential; a loop that can fail in the middle is a step an iteration.  *)
(* remap_panic_status, panic and HALT_FOREVER all end in phase "halt".     *)
(* The bitmap pmm_init builds is computed here in one go; the region table *)
(* it is built from, and the limit on that table, are in module Pmm.  One  *)
(* pool stands for the five that dpage_init serves; BOOTED is KernelVm's   *)
(* and plays no part.                                                      *)
(***************************************************************************)
EXTENDS KernelVm, BootInfo, Sequences

\* A definition M_X is X with a mistake in it; no other definition uses it.

CONSTANTS
  Reports,                   \* what the boot loader may report of memory
  LOW,                       \* pages below 1 MiB
  KSTART, KPAGES,            \* the kernel image: first frame, frames
  BITS,                      \* bits of the frame bitmap in a unit of memory; 8192
  KBASE,                     \* KERNEL_VIRTUAL_BASE
  KVA_BASE,                  \* KVA_REGION_BASE
  PWIN, PWIN_SIZE,           \* PHYS_WINDOW_BASE, and its size as kva.c has it
  STACK, STACK_PAGES,        \* STACK_VIRTUAL_BASE, STACK_PAGE_SIZE
  KVA_REGION_MAX,
  POOL_PAGES, STRIDE,        \* POOL_PAGES, KSTACK_STRIDE_PAGES with its guard page
  THREAD_SIZE, PROCESS_SIZE, \* sizeof(thread_t), sizeof(process_t)
  MIB, SCALE_FROM,           \* units to a MiB; 16
  MAX_SCALAR                 \* 4

BITMAP_PAGE == POOL - 1      \* the page of the pool's allocation bitmap

ASSUME LayoutAssumption ==
  /\ 0 < KSTART /\ LOW <= KSTART /\ KPAGES > 0 /\ KSTART + KPAGES - 1 \in Frame
  /\ BITS \in Nat \ {0} /\ \A v \in {KBASE, PWIN} : v % PT_SPAN = 0
  /\ KBASE < KVA_BASE /\ KVA_BASE < PWIN /\ PWIN < BITMAP_PAGE
  /\ LastPage(SLOTS - 1) < STACK - 1 /\ STACK + STACK_PAGES <= TEMP_PAGE
  /\ POOL_PAGES > 1 /\ STRIDE > 1 /\ MAX_SCALAR > 0 /\ SCALE_FROM > 0

VARIABLES
  phase,         \* the boot step that comes next, "run" or "halt"
  i,             \* counter of the loop of that step
  avail,         \* g_avail_memory_kib, in units
  reserved,      \* frames whose bit is set when pmm_init is done
  tables,        \* reserved_frames of paging_init_identity_window
  pdframe,       \* page_directory_loc_phys
  kva,           \* kva_regions, kva_region_count, kva_next_free, kva_initialized
  counts,        \* g_{thread,process,kstack}_pool_slot_count
  ro,            \* pages that are present and not writable
  dirs           \* by frame of a process directory: the kernel half it holds

memVars == <<avail, reserved, tables>>
bootVars == <<phase, i, memVars, pdframe, kva, counts, ro, dirs>>
allVars == <<vars, bootVars>>

\* The part of the boot state that a step of the page directory leaves alone.
restVars == <<memVars, pdframe, kva, counts, ro, dirs, bitmap, others>>

NoRegion == [name |-> "", base |-> 0, size |-> 0, mapped |-> FALSE]

BootInit ==
  /\ free = {} /\ pd = [d \in Dir |-> NULL] /\ pte = [v \in Page |-> NULL]
  /\ bitmap = {} /\ others = {} /\ phase = "bootinfo" /\ i = 0 /\ avail = 0
  /\ reserved = {} /\ tables = <<>> /\ pdframe = NULL
  /\ kva = [regions |-> [r \in 0 .. KVA_REGION_MAX + 1 |-> NoRegion],
            count |-> 0, next_free |-> KVA_BASE, initialized |-> FALSE]
  /\ counts = [thread |-> 0, process |-> 0, kstack |-> 0]
  /\ ro = {} /\ dirs = [f \in {} |-> NULL]

\* HALT_FOREVER in the middle of a step that leaves the tables in state s.
HaltWith(s) == phase' = "halt" /\ Becomes(s) /\ UNCHANGED <<i, restVars>>
Goto(p) == phase' = p /\ i' = 0

-----------------------------------------------------------------------------
(* Memory, the first directory and the move to the high half.               *)

M_RoundUp(n, k) == (n \div k) * k
RoundUp(n, k) == ((n + k - 1) \div k) * k

\* The frames that units b to e - 1 touch.
Touched(b, e) == {f \in 0 .. FRAMES : f * PAGE < e /\ b < (f + 1) * PAGE}

\* Where the frame bitmap ends that pmm_init puts behind the image, for memory
\* of n units.
BitmapEnd(n) == (KSTART + KPAGES) * PAGE + RoundUp(n \div PAGE, BITS) \div BITS

\* The frames pmm_init leaves set: low memory, the image, the bitmap and what a
\* descriptor other than usable touches.  Memory that no descriptor names is
\* taken for free.
Fixed(r) ==
  LET n == getmem(r)
      bad == IF r.method = "E820" THEN {s \in r.spans : ~s.usable} ELSE {}
  IN (0 .. n \div PAGE - 1) \cap
       (0 .. LOW - 1 \cup KSTART .. KSTART + KPAGES - 1
          \cup Touched((KSTART + KPAGES) * PAGE, BitmapEnd(n))
          \cup UNION {Touched(s.base, s.base + s.length) : s \in bad})

bootinfo_getmem ==
  /\ phase = "bootinfo"
  /\ \E r \in Reports :
       IF \/ r.method = "E820" /\ r.spans = {}      \* decode_e820 fails
          \/ BitmapEnd(getmem(r)) > getmem(r)       \* pmm_init has no room
       THEN HaltWith(mem)
       ELSE /\ avail' = getmem(r)
            /\ reserved' = Fixed(r)
            /\ free' = (0 .. getmem(r) \div PAGE - 1) \ Fixed(r)
            /\ Goto("paging")
            /\ UNCHANGED <<pd, pte, tables, pdframe, kva, counts, ro, dirs, bitmap, others>>

AvailPages == RoundUp(avail, PAGE) \div PAGE
IdentityPages == RoundUp(AvailPages, PT_SPAN)

\* The tables: one for each of needed_pts spans of memory, one for the kernel
\* image, as many again for the window onto physical memory, and the directory.
needed_pts == IdentityPages \div PT_SPAN
needed_frames_total == 2 * needed_pts + 2

\* A round of the loop that reserves and clears them, pmm_reserve_pageframe_seq
\* as in module Pmm: the frames from the first free one on, as far as the last
\* one among those wanted that is not free.
pmm_reserve_pageframe_seq ==
  LET remaining == needed_frames_total - Len(tables)
      cur == Min(free)
      taken == {n \in 1 .. remaining : cur + n - 1 \notin free}
      count == IF taken = {} THEN remaining ELSE Max(taken) - 1
  IN /\ phase = "paging" /\ remaining > 0
     /\ IF needed_frames_total > Cardinality(Dir) + 1 \/ free = {}
        THEN HaltWith(mem)
        ELSE /\ tables' = tables \o [n \in 1 .. count |-> cur + n - 1]
             /\ free' = free \ (cur .. cur + count - 1)
             /\ UNCHANGED <<phase, i, pd, pte, avail, reserved, pdframe, kva, counts, ro, dirs,
                            bitmap, others>>

\* reserved_frames[n], and n for the table of window entry d.
Reserved(n) == tables[n + 1]
M_WindowTable(d) == needed_pts + 1 + d - Pdi(PWIN)
WindowTable(d) == needed_pts + 2 + d - Pdi(PWIN)

paging_init_identity_window ==
  LET win == Pdi(PWIN)
  IN /\ phase = "paging" /\ Len(tables) = needed_frames_total
     /\ IF KPAGES > PT_SPAN \/ win + needed_pts - 1 \notin Dir
        THEN HaltWith(mem)
        ELSE /\ pdframe' = Reserved(0)
             /\ pd' = [d \in Dir |->
                         CASE d < needed_pts -> Reserved(d + 1)
                           [] d = Pdi(KBASE) -> Reserved(needed_pts + 1)
                           [] d \in win .. win + needed_pts - 1 -> Reserved(WindowTable(d))
                           [] OTHER -> NULL]
             /\ pte' = [v \in Page |->
                          CASE v < IdentityPages -> v
                            [] v \in KBASE .. KBASE + KPAGES - 1 -> KSTART + v - KBASE
                            [] v \in PWIN .. PWIN + IdentityPages - 1 -> v - PWIN
                            [] OTHER -> NULL]
             /\ Goto("kernel")
             /\ UNCHANGED <<free, memVars, kva, counts, ro, dirs, bitmap, others>>

\* kernel_highhalf_remap, first loop: every page of the image is where it
\* belongs, or is put there.
remap_kernel ==
  LET v == KBASE + i
      f == KSTART + i
  IN /\ phase = "kernel"
     /\ UNCHANGED restVars
     /\ IF i = KPAGES THEN Goto("stack") /\ UNCHANGED <<free, pd, pte>>
        ELSE IF pte[v] = f THEN i' = i + 1 /\ UNCHANGED <<phase, free, pd, pte>>
        ELSE IF pte[v] # NULL THEN HaltWith(mem)
        ELSE \E r \in paging_map_page(mem, v, f) :
               IF r.ok THEN i' = i + 1 /\ UNCHANGED phase /\ Becomes(r.st)
               ELSE HaltWith(r.st)

\* Second loop: the kernel stack.  A page that is mapped already stays.
remap_stack ==
  LET v == STACK + i
      f == NextBlock(mem)
  IN /\ phase = "stack"
     /\ UNCHANGED restVars
     /\ IF i = STACK_PAGES THEN Goto("teardown") /\ UNCHANGED <<free, pd, pte>>
        ELSE IF pte[v] # NULL THEN i' = i + 1 /\ UNCHANGED <<phase, free, pd, pte>>
        ELSE IF free = {} THEN HaltWith(mem)
        ELSE \E r \in paging_map_page(Take(mem), v, f) :
               IF r.ok THEN i' = i + 1 /\ UNCHANGED phase /\ Becomes(r.st)
               ELSE HaltWith(r.st)

\* The guard page goes, and the low aliases from 1 MiB to the end of memory.
\* Three of those pages are probed afterwards.
M_lowUnmapEnd == avail \div PAGE
lowUnmapEnd == RoundUp(avail, PAGE) \div PAGE
remap_teardown ==
  LET gone == {STACK - 1} \cup LOW .. lowUnmapEnd - 1
      after == [v \in Page |-> IF v \in gone THEN NULL ELSE pte[v]]
      probed == {LOW, KSTART} \cup (IF lowUnmapEnd > LOW THEN {lowUnmapEnd - 1} ELSE {})
  IN /\ phase = "teardown"
     /\ IF pte[STACK + STACK_PAGES - 1] = NULL THEN HaltWith(mem)
        ELSE IF \E v \in probed : after[v] # NULL
        THEN HaltWith([mem EXCEPT !.pte = after])
        ELSE pte' = after /\ Goto("io") /\ UNCHANGED <<free, pd, restVars>>

-----------------------------------------------------------------------------
(* Regions of kernel virtual memory, and the pools in them.                 *)

kva_region_exists(k, name) ==
  \E r \in DOMAIN k.regions : k.regions[r].base # 0 /\ k.regions[r].name = name

\* The first registration also records the window and the kernel stack.
M_kva_init(k) ==
  IF k.initialized THEN k
  ELSE [k EXCEPT !.initialized = TRUE,
                 !.regions[0] = [name |-> "physwin", base |-> PWIN,
                                 size |-> PWIN_SIZE, mapped |-> TRUE],
                 !.regions[1] = [name |-> "stack", base |-> STACK,
                                 size |-> STACK_PAGES, mapped |-> TRUE]]
kva_init(k) ==
  IF k.initialized THEN k
  ELSE [k EXCEPT !.initialized = TRUE,
                 !.regions[KVA_REGION_MAX - 2] = [name |-> "physwin", base |-> PWIN,
                                                  size |-> PWIN_SIZE, mapped |-> TRUE],
                 !.regions[KVA_REGION_MAX - 1] = [name |-> "stack", base |-> STACK,
                                                  size |-> STACK_PAGES, mapped |-> TRUE]]

\* The conditions under which a registration does not panic, and its result.
kva_registers(k, name, size) ==
  /\ KBASE + KPAGES <= KVA_BASE
  /\ k.count < KVA_REGION_MAX
  /\ size # 0 /\ k.next_free + size < PWIN
  /\ ~kva_region_exists(kva_init(k), name)
kva_register_region(k, name, size) ==
  [kva_init(k) EXCEPT !.regions[k.count] = [name |-> name, base |-> k.next_free,
                                            size |-> size, mapped |-> FALSE],
                      !.next_free = @ + size, !.count = @ + 1]

\* pool_init's scalar: one more for each halving that brings the memory down
\* to SCALE_FROM MiB, at most MAX_SCALAR.
halvings[mb \in Nat] == IF mb <= SCALE_FROM THEN 0 ELSE 1 + halvings[mb \div 2]
Scalar == Min({1 + halvings[avail \div MIB], MAX_SCALAR})

\* The thread pool is cut down to the number of kernel stacks.
M_ThreadPages(stacks, pages) == pages
ThreadPages(stacks, pages) ==
  IF (pages * PAGE) \div THREAD_SIZE > stacks
  THEN (stacks * THREAD_SIZE) \div PAGE ELSE pages

PoolNames == <<"threadpool", "processpool", "kstack">>

pool_register ==
  LET scaled == POOL_PAGES * Scalar
      sizes == <<ThreadPages(scaled, scaled), (POOL_PAGES \div 2) * Scalar, scaled * STRIDE>>
      k1 == kva_register_region(kva, PoolNames[1], sizes[1])
      k2 == kva_register_region(k1, PoolNames[2], sizes[2])
  IN /\ phase = "pools"
     /\ IF /\ kva_registers(kva, PoolNames[1], sizes[1])
           /\ kva_registers(k1, PoolNames[2], sizes[2])
           /\ kva_registers(k2, PoolNames[3], sizes[3])
        THEN /\ kva' = kva_register_region(k2, PoolNames[3], sizes[3])
             /\ counts' = [thread |-> (sizes[1] * PAGE) \div THREAD_SIZE,
                           process |-> (sizes[2] * PAGE) \div PROCESS_SIZE,
                           kstack |-> scaled]
             /\ Goto("map")
             /\ UNCHANGED <<free, pd, pte, memVars, pdframe, ro, dirs, bitmap, others>>
        ELSE HaltWith(mem)

RegionOf(name) == CHOOSE r \in DOMAIN kva.regions :
                    kva.regions[r].base # 0 /\ kva.regions[r].name = name
Base(name) == kva.regions[RegionOf(name)].base

\* kva_map_region gives up at page v of a region: the pages mapped so far are
\* unmapped and their frames freed.
Rewind(s, base, v) ==
  [s EXCEPT !.pte = [w \in Page |-> IF w \in base .. v - 1 THEN NULL ELSE s.pte[w]],
            !.free = @ \cup ({s.pte[w] : w \in base .. v - 1} \cap Frame)]

\* kva_map_region, a page a step: the region is the first of the three pools
\* that is not mapped yet.
kva_map_region ==
  LET todo == {n \in 1 .. 3 : ~kva.regions[RegionOf(PoolNames[n])].mapped}
      n == RegionOf(PoolNames[Min(todo)])
      r == kva.regions[n]
      v == r.base + i
      f == NextBlock(mem)
  IN /\ phase = "map" /\ todo # {}
     /\ UNCHANGED <<memVars, pdframe, counts, ro, dirs, bitmap, others>>
     /\ \/ /\ i = r.size
           /\ kva' = [kva EXCEPT !.regions[n].mapped = TRUE]
           /\ Goto("map") /\ UNCHANGED <<free, pd, pte>>
        \/ i < r.size /\ free = {} /\ HaltWith(mem)
        \/ /\ i < r.size /\ free # {}
           /\ \E m \in paging_map_page(Take(mem), v, f) :
                IF m.ok THEN i' = i + 1 /\ Becomes(m.st) /\ UNCHANGED <<phase, kva>>
                ELSE HaltWith(Rewind(m.st, r.base, v))

\* The lowest page of every kernel stack becomes read-only.
pool_guards ==
  LET guards == {Base("kstack") + s * STRIDE : s \in 0 .. counts.kstack - 1}
  IN /\ phase = "map"
     /\ \A n \in 1 .. 3 : kva.regions[RegionOf(PoolNames[n])].mapped
     /\ IF \E v \in guards : pte[v] = NULL THEN HaltWith(mem)
        ELSE /\ ro' = guards /\ Goto("run")
             /\ UNCHANGED <<free, pd, pte, memVars, pdframe, kva, counts, dirs, bitmap, others>>

\* The pages pool_get_kstack gives to thread slot s.
kstack(s) == Base("kstack") + s * STRIDE + 1 .. Base("kstack") + (s + 1) * STRIDE - 1

-----------------------------------------------------------------------------
(* The demand-paged pools, and the kernel once it runs.                     *)

\* The bitmap's page and the first page of the pool are mapped; a failure ends
\* in a panic of the caller (fdpool_init, mm_init, vma_init).
dpage_init ==
  LET f == NextBlock(mem)
  IN /\ phase = "io"
     /\ \/ free = {} /\ HaltWith(mem)
        \/ /\ free # {}
           /\ \E r \in paging_map_page(Take(mem), BITMAP_PAGE, f) :
                IF ~r.ok THEN HaltWith(Dealloc(r.st, f))
                ELSE IF r.st.free = {} THEN HaltWith(r.st)
                ELSE LET g == NextBlock(r.st)
                     IN \E q \in paging_map_page(Take(r.st), POOL, g) :
                          IF q.ok THEN Becomes(q.st) /\ Goto("pools") /\ UNCHANGED restVars
                          ELSE HaltWith(Dealloc(q.st, g))

KernelDir == {d \in Dir : d >= Pdi(KBASE)}

\* A new directory gets the kernel's entries as they are once the scratch page
\* has been mapped.
M_mm_alloc_pd ==
  /\ phase = "run" /\ _mm_alloc_pd
  /\ dirs' = [f \in DOMAIN dirs \cup (others' \ others) |->
                IF f \in DOMAIN dirs THEN dirs[f] ELSE [d \in KernelDir |-> pd[d]]]
  /\ UNCHANGED <<phase, i, memVars, pdframe, kva, counts, ro>>
mm_alloc_pd ==
  /\ phase = "run" /\ _mm_alloc_pd
  /\ dirs' = [f \in DOMAIN dirs \cup (others' \ others) |->
                IF f \in DOMAIN dirs THEN dirs[f] ELSE [d \in KernelDir |-> pd'[d]]]
  /\ UNCHANGED <<phase, i, memVars, pdframe, kva, counts, ro>>

\* A pool allocates and frees; user memory, directories included, comes and goes.
run_pool ==
  /\ phase = "run"
  /\ dpage_alloc \/ \E s \in Slot : dpage_bm_clear(s)
  /\ UNCHANGED bootVars
run_user ==
  /\ phase = "run" /\ UserFrame
  /\ dirs' = [f \in DOMAIN dirs \cap others' |-> dirs[f]]
  /\ UNCHANGED <<phase, i, memVars, pdframe, kva, counts, ro>>

BootNext ==
  \/ bootinfo_getmem \/ pmm_reserve_pageframe_seq \/ paging_init_identity_window
  \/ remap_kernel \/ remap_stack \/ remap_teardown
  \/ dpage_init \/ pool_register \/ kva_map_region \/ pool_guards
  \/ mm_alloc_pd \/ run_pool \/ run_user

BootSpec == BootInit /\ [][BootNext]_allVars

-----------------------------------------------------------------------------
(* Properties.                                                              *)

\* Once the kernel runs, the image is mapped at KERNEL_VIRTUAL_BASE, the stack
\* at STACK_VIRTUAL_BASE in frames nobody else can get, the page below it is
\* absent, and no low alias of existing memory from 1 MiB on is left; whatever
\* pools and directories do later, it stays so.
BootMapStays ==
  phase = "run" =>
    /\ \A n \in 0 .. KPAGES - 1 : pte[KBASE + n] = KSTART + n
    /\ \A v \in STACK .. STACK + STACK_PAGES - 1 : pte[v] \in Frame \ (free \cup others)
    /\ pte[STACK - 1] = NULL
    /\ \A v \in LOW .. AvailPages - 1 : pte[v] = NULL

\* A physical address the kernel goes on to use (a free frame, a table, a
\* directory) is reachable through the window, where PHYS_TO_VIRT says it is.
WindowReachesFrames ==
  phase \notin {"bootinfo", "paging", "halt"} =>
    \A f \in free \cup others \cup {pdframe} \cup {pd[d] : d \in {e \in Dir : pd[e] # NULL}} :
      pte[PWIN + f] = f

\* The pages whose frame is theirs alone: those of the identity map and of the
\* window are second names.
OwnPages ==
  Page \ (0 .. IdentityPages - 1 \cup PWIN .. PWIN + IdentityPages - 1)

\* The frames that pmm_init keeps from everybody, the image apart, which is
\* mapped at KBASE.
Kept == reserved \ (KSTART .. KSTART + KPAGES - 1)

\* The frames in use or free, and the number of places they are in.
Held ==
  (Kept \cup free \cup others \cup {pdframe} \cup {pd[d] : d \in Dir}
     \cup {pte[v] : v \in OwnPages}) \ {NULL}
PlaceCount ==
  Cardinality(Kept) + Cardinality(free) + Cardinality(others) + 1
    + Cardinality({d \in Dir : pd[d] # NULL}) + Cardinality({v \in OwnPages : pte[v] # NULL})

\* From the first directory on, no frame is in two places: none is a table and
\* a stack page, mapped and still free, or in use although it belongs to the
\* firmware or to the frame bitmap, across every stage of boot and every failed
\* allocation after it.
FramesHeldOnce ==
  phase \notin {"bootinfo", "paging", "halt"} => Cardinality(Held) = PlaceCount

\* No step short of a halt loses a frame: what was free, mapped or a table is
\* one of them afterwards.
NoFrameLost ==
  [][phase \notin {"bootinfo", "paging"} /\ phase' # "halt" => Held \subseteq Held']_allVars

\* The registered regions lie apart, the window and the stack among them, and
\* none has displaced another from the table ("Last two regions are reserved
\* for the physical window and kernel stack").
RegionsApart ==
  kva.initialized =>
    LET InUse == {r \in DOMAIN kva.regions : kva.regions[r].base # 0}
        Span(r) == kva.regions[r].base .. kva.regions[r].base + kva.regions[r].size - 1
    IN /\ {kva.regions[r].name : r \in InUse}
             = {PoolNames[n] : n \in 1 .. 3} \cup {"physwin", "stack"}
       /\ \A r, s \in InUse : r # s => Span(r) \cap Span(s) = {}

\* Every thread slot has a kernel stack of its own: mapped, writable, inside the
\* stack region, above a page that is not writable; and the slots themselves
\* lie in mapped memory of their pool.
ThreadSlotsBacked ==
  phase = "run" =>
    /\ \A s \in 0 .. counts.thread - 1 : \A v \in kstack(s) :
         pte[v] \in Frame /\ v \notin ro /\ v < Base("kstack") + counts.kstack * STRIDE
    /\ \A s \in 0 .. counts.thread - 1 : Min(kstack(s)) - 1 \in ro
    /\ \A v \in Base("threadpool") .. Base("threadpool") + (counts.thread * THREAD_SIZE - 1) \div PAGE :
         pte[v] \in Frame /\ v < Base("processpool")
    /\ \A v \in Base("processpool") .. Base("processpool") + (counts.process * PROCESS_SIZE - 1) \div PAGE :
         pte[v] \in Frame /\ v < Base("kstack")

\* Every process directory holds the kernel's own entries, also those of pools
\* that grew since it was copied ("so that the PDE covering pool_base exists in
\* the kernel master PD before any per-process PDs are cloned").
KernelHalfShared == \A f \in DOMAIN dirs : dirs[f] = [d \in KernelDir |-> pd[d]]

\* The teardown "removes all low-VA kernel aliases": nothing between 1 MiB and
\* the kernel is mapped once the kernel runs.
NoLowAliases == phase = "run" => \A v \in LOW .. KBASE - 1 : pte[v] = NULL
=============================================================================
