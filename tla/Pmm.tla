-------------------------------- MODULE Pmm --------------------------------
(***************************************************************************)
(* The physical memory manager of kernel/kmem.c: the table of permanently  *)
(* reserved regions, the frame bitmap with its counter and search hint,    *)
(* and the boot sequence that fills them (mem_init, pmm_init, the window   *)
(* loop of paging_init_identity_window).                                   *)
(*                                                                         *)
(* Addresses are counted in units of which PAGE make a frame, so regions   *)
(* may start and end inside a frame as E820 ranges and the kernel image    *)
(* do.  A region is a half-open span <<base, end>>.  Left out: the address *)
(* alias of the bitmap, the clearing of handed-out frames, status codes,   *)
(* and a merged region of the full 4 GiB (its 32-bit length would be 0).   *)
(***************************************************************************)
EXTENDS Integers, FiniteSets, FiniteSetsExt

\* A definition M_X is X with a mistake in it; no other definition uses it.

CONSTANTS
  PAGE,              \* 4096
  TOP,               \* g_avail_memory_kib << 10
  LOW,               \* 0x100000
  KERNEL,            \* the span of the kernel image
  BITMAP_LEN,        \* pagebitmap_size_bytes
  E820,              \* the spans a memory map may call unusable
  MEM_REGIONS_MAX,
  NEEDED             \* needed_frames_total of the identity window

frame_count == TOP \div PAGE
Frames == 0 .. frame_count - 1

ASSUME MemoryAssumption ==
  /\ PAGE \in Nat \ {0} /\ TOP \in Nat /\ LOW \in Nat \ {0} /\ LOW % PAGE = 0
  /\ LOW \div PAGE < frame_count
  /\ BITMAP_LEN \in Nat /\ MEM_REGIONS_MAX \in Nat /\ NEEDED \in Nat \ {0}
  /\ KERNEL \in Nat \X Nat /\ E820 \subseteq Nat \X Nat
  /\ KERNEL[1] < KERNEL[2] /\ \A s \in E820 : s[1] < s[2]

VARIABLES
  mem_regions,       \* the reserved spans
  used,              \* the frames whose bit is set
  available_frames, frame_hint,
  phase,             \* "map", "window", "run" or "halt": how far mem_init got
  pending,           \* RESERVE_REGION calls still to come
  remaining,         \* frames the identity window still needs
  grants,            \* how many holders each frame has been handed to
  fixed              \* frames set in the bitmap by pmm_init

vars == <<mem_regions, used, available_frames, frame_hint, phase, pending,
          remaining, grants, fixed>>

\* Low memory, with the stage2, VGA, BIOS and BOOTINFO areas inside it, and
\* the kernel image.
BootSpans == {<<0, LOW>>, KERNEL}

Init ==
  /\ mem_regions = {} /\ used = {} /\ available_frames = 0
  /\ frame_hint = LOW \div PAGE
  /\ phase = "map" /\ remaining = NEEDED
  /\ pending \in {BootSpans \cup map : map \in SUBSET E820}
  /\ grants = [f \in 0 .. frame_count + NEEDED |-> 0] /\ fixed = {}

-----------------------------------------------------------------------------
(* Regions.                                                                 *)

Touch(s, r) == s[1] <= r[2] /\ r[1] <= s[2]

\* The fixed point of pmm_reserve_range's merge loop: the smallest span around
\* s that holds every region it overlaps or borders on.
Merged(s) ==
  LET ends   == {s[1], s[2]} \cup {r[1] : r \in mem_regions} \cup {r[2] : r \in mem_regions}
      closed == {m \in ends \X ends :
                   /\ m[1] <= s[1] /\ s[2] <= m[2]
                   /\ \A r \in mem_regions : Touch(m, r) => m[1] <= r[1] /\ r[2] <= m[2]}
  IN {m \in closed : \A n \in closed : n[1] <= m[1] /\ m[2] <= n[2]}

Absorbed(m) == {r \in mem_regions : Touch(m, r)}

\* A new region needs a free slot, a merged one does not.
RoomFor(m) == Absorbed(m) # {} \/ Cardinality(mem_regions) < MEM_REGIONS_MAX

pmm_is_region_reserved(f) ==
  \E r \in mem_regions : f * PAGE < r[2] /\ r[1] < (f + 1) * PAGE

-----------------------------------------------------------------------------
(* Bits.                                                                    *)

\* bm_set_range_touched: every frame the span touches.
M_Touched(s) == {f \in Frames : s[1] \div PAGE <= f /\ f < s[2] \div PAGE}
Touched(s) ==
  {f \in Frames : s[1] \div PAGE <= f /\ f < (s[2] + PAGE - 1) \div PAGE}

\* bm_clear_range_full_pages: every frame inside the span.
FullPages(s) ==
  {f \in Frames : (s[1] + PAGE - 1) \div PAGE <= f /\ f < s[2] \div PAGE}

\* The bits in the bytes of the bitmap; those that stand for no frame are set.
Bits == 0 .. 8 * ((frame_count + 7) \div 8) - 1

\* bm_set for every number of S: a bit that was clear is counted.  Behind the
\* bitmap it changes whatever memory lies there, so any bits may be clear.
M_bm_set(S) ==
  /\ used' = used \cup S
  /\ available_frames' = available_frames - Cardinality(S)
bm_set(S) ==
  /\ used' = used \cup (S \cap Frames)
  /\ \E clear \in SUBSET (S \ Bits) :
       available_frames' = available_frames - Cardinality((S \cap Frames) \ used)
                                            - Cardinality(clear)

bm_clear(f) ==
  /\ used' = used \ {f}
  /\ available_frames' = available_frames + Cardinality({f} \cap used)

\* The first frame of S at or after frame_hint, wrapping around.
FirstFrom(S) ==
  LET at(k) == (frame_hint + k) % frame_count
  IN at(Min({k \in Frames : at(k) \in S}))

Unset == Frames \ used
M_Free == {f \in Frames : ~pmm_is_region_reserved(f)}
Free == {f \in Unset : ~pmm_is_region_reserved(f)}

Grant(S) == grants' = [f \in DOMAIN grants |-> grants[f] + (IF f \in S THEN 1 ELSE 0)]

-----------------------------------------------------------------------------
(* Boot.                                                                    *)

Halt ==
  /\ phase' = "halt"
  /\ UNCHANGED <<mem_regions, used, available_frames, frame_hint, pending,
                 remaining, grants, fixed>>

\* RESERVE_REGION: pmm_reserve_range(base, length, false), before the bitmap
\* exists.  E820 follows the boot spans, in the order the firmware chose; with
\* a full table it halts even where the range would merge.
RESERVE_REGION ==
  /\ phase = "map"
  /\ \E s \in pending : \E m \in Merged(s) :
       /\ s \in BootSpans \/ pending \cap BootSpans = {}
       /\ IF RoomFor(m) /\ (s \in BootSpans \/ Cardinality(mem_regions) < MEM_REGIONS_MAX)
          THEN /\ mem_regions' = (mem_regions \ Absorbed(m)) \cup {m}
               /\ pending' = pending \ {s}
               /\ UNCHANGED <<used, available_frames, frame_hint, phase, remaining, grants, fixed>>
          ELSE Halt

\* The bitmap lies in the first whole frames behind the kernel image.
Bitmap ==
  LET loc == ((KERNEL[2] + PAGE - 1) \div PAGE) * PAGE
  IN <<loc, loc + BITMAP_LEN>>

\* pmm_init: all bits set, then the memory above 1 MiB cleared, then every
\* region and the bitmap itself set again.
pmm_init ==
  LET clear == FullPages(<<LOW, TOP>>)
      set   == (UNION {Touched(r) : r \in mem_regions}) \cup Touched(Bitmap)
  IN /\ phase = "map" /\ pending = {}
     /\ IF Bitmap[2] > TOP
        THEN Halt
        ELSE /\ used' = (Frames \ clear) \cup set
             /\ available_frames' = Cardinality(clear) - Cardinality(clear \cap set)
             /\ fixed' = (Frames \ clear) \cup set
             /\ phase' = "window"
             /\ UNCHANGED <<mem_regions, frame_hint, pending, remaining, grants>>

\* One round of the window loop, pmm_reserve_pageframe_seq(remaining): from
\* the first free frame on, the window is checked from its far end and cut
\* just before the first frame found taken.  A frame behind the bitmap is
\* such a frame: a window that runs past the end loses its last frame only.
pmm_reserve_pageframe_seq ==
  LET cur   == FirstFrom(Free)
      taken == {i \in 1 .. remaining : cur + i - 1 \notin Free}
      count == IF taken = {} THEN remaining ELSE Max(taken) - 1
      win   == cur .. cur + count - 1
  IN /\ phase = "window"
     /\ IF Free = {}
        THEN Halt
        ELSE \E m \in Merged(<<cur * PAGE, (cur + count) * PAGE>>) :
               IF RoomFor(m)
               THEN /\ mem_regions' = (mem_regions \ Absorbed(m)) \cup {m}
                    /\ bm_set(Touched(m) \cup win)
                    /\ frame_hint' = (cur + count) % frame_count
                    /\ remaining' = remaining - count
                    /\ phase' = IF remaining = count THEN "run" ELSE "window"
                    /\ Grant(win)
                    /\ UNCHANGED <<pending, fixed>>
               ELSE Halt

-----------------------------------------------------------------------------
(* Running.  remap_to_higher_half panics when pmm_reserve_pageframe fails.  *)

pmm_reserve_pageframe ==
  LET f == FirstFrom(Free)
  IN /\ phase = "run"
     /\ IF Free = {}
        THEN Halt
        ELSE \E m \in Merged(<<f * PAGE, (f + 1) * PAGE>>) :
               IF RoomFor(m)
               THEN /\ mem_regions' = (mem_regions \ Absorbed(m)) \cup {m}
                    /\ bm_set(Touched(m) \cup {f})
                    /\ frame_hint' = (f + 1) % frame_count
                    /\ Grant({f})
                    /\ UNCHANGED <<phase, pending, remaining, fixed>>
               ELSE Halt

\* pmm_alloc_frame trusts the bitmap alone.
pmm_alloc_frame ==
  LET f == FirstFrom(Unset)
  IN /\ phase = "run" /\ Unset # {}
     /\ bm_set({f})
     /\ frame_hint' = (f + 1) % frame_count
     /\ Grant({f})
     /\ UNCHANGED <<mem_regions, phase, pending, remaining, fixed>>

\* pmm_get_next_available_block gives up with PMM_BITMAP_INCONSISTENT_RESERVED
\* when the first unset frame lies in a region.
pmm_get_next_available_block ==
  /\ phase = "run" /\ Unset # {}
  /\ ~pmm_is_region_reserved(FirstFrom(Unset))
  /\ pmm_alloc_frame

pmm_alloc_specific_block(f) ==
  /\ phase = "run" /\ f \in Free
  /\ bm_set({f})
  /\ Grant({f})
  /\ UNCHANGED <<mem_regions, frame_hint, phase, pending, remaining, fixed>>

\* Called for frames the caller holds; regions are refused.
pmm_dealloc_specific_block(f) ==
  /\ phase = "run" /\ grants[f] > 0
  /\ ~pmm_is_region_reserved(f) /\ f \in used
  /\ frame_hint' = f
  /\ bm_clear(f)
  /\ grants' = [grants EXCEPT ![f] = @ - 1]
  /\ UNCHANGED <<mem_regions, phase, pending, remaining, fixed>>

Next ==
  \/ RESERVE_REGION \/ pmm_init \/ pmm_reserve_pageframe_seq
  \/ pmm_reserve_pageframe \/ pmm_alloc_frame \/ pmm_get_next_available_block
  \/ \E f \in Frames : pmm_alloc_specific_block(f) \/ pmm_dealloc_specific_block(f)

Spec == Init /\ [][Next]_vars

-----------------------------------------------------------------------------
(* Properties.                                                              *)

\* The bitmap and the hint of kmem.c stay within the frames there are.  A
\* negative count stands for the uint64_t that has wrapped around.
TypeOK ==
  /\ mem_regions \subseteq Nat \X Nat /\ pending \subseteq Nat \X Nat
  /\ used \subseteq Frames /\ fixed \subseteq Frames
  /\ available_frames \in Int /\ frame_hint \in Frames /\ remaining \in 0 .. NEEDED
  /\ phase \in {"map", "window", "run", "halt"}
  /\ grants \in [0 .. frame_count + NEEDED -> Nat]

Running == phase \in {"window", "run"}

\* Every frame that a reserved region touches, were it only partly, has its
\* bit set: pmm_alloc_frame, which never looks at the regions, cannot hand one
\* out, and pmm_get_next_available_block never finds the bitmap inconsistent.
ReservedStaysSet ==
  Running => \A f \in Frames : pmm_is_region_reserved(f) => f \in used

\* The window loop reserves frames of the bitmap only (kmem.c:573, "we can only
\* reserve up to the end of the bitmap").
WithinBitmap == \A f \in DOMAIN grants \ Frames : grants[f] = 0

\* available_frames is the number of clear bits, however often overlapping
\* ranges are set again: in a running kernel always, and during the window loop
\* of the boot unless a round has reserved frames behind the bitmap.
AvailableExact ==
  phase = "run" \/ (phase = "window" /\ WithinBitmap)
    => available_frames = Cardinality(Unset)

\* No frame has two holders; the frames of the firmware, the kernel and the
\* bitmap have none, and neither does anything beyond the bitmap.
FramesExclusive ==
  \A f \in DOMAIN grants :
    /\ grants[f] <= 1
    /\ grants[f] = 1 => f \in used \ fixed

\* The region table is coalesced: no two regions overlap or border on each
\* other, and it never outgrows its slots.
RegionsSeparate ==
  /\ \A r, s \in mem_regions : r[1] < r[2] /\ (Touch(r, s) => r = s)
  /\ Cardinality(mem_regions) <= MEM_REGIONS_MAX

\* Merging and compaction never lose a reserved address: what RESERVE_REGION
\* or a page-frame reservation covered once stays covered.
Covered == UNION {r[1] .. r[2] - 1 : r \in mem_regions}
ReservationsPermanent == [][Covered \subseteq Covered']_vars

=============================================================================
