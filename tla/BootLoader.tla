----------------------------- MODULE BootLoader -----------------------------
(***************************************************************************)
(* The boot loader, from the BIOS's jump to stage1 (boot/stage1) through   *)
(* stage2 (boot/stage2) to the kernel's entry point: loading stage2, the   *)
(* search of the root directory, the A20 line, the size of memory, the     *)
(* FAT12 walk that loads KERNEL.BIN above 1 MiB, its checksum, KPARAMS.DAT *)
(* and what the kernel is handed.                                          *)
(*                                                                         *)
(* External: the BIOS's disk reads, which fail when they like; the 8042    *)
(* keyboard controller, which may stop answering; what the BIOS says of    *)
(* memory; the disk.  A byte of a file is the place it has on the disk,    *)
(* so that a byte read from a wrong place is a wrong byte, and a checksum  *)
(* matches just when the bytes do.  Memory is measured in blocks of 64 KiB *)
(* and words hold fewer values than 2^16.                                  *)
(***************************************************************************)
EXTENDS BootInfo, Sequences, SequencesExt

\* A definition M_X is X with a mistake in it; no other definition uses it.

CONSTANTS
  Setups,                 \* the disks and machines to boot on
  SECTORS_PER_TRACK, FLOPPY_HEADS,
  BYTES_PER_SECTOR, ENTRIES_PER_SECTOR,
  STAGE2_RESERVED_SECTORS, FAT_COUNT, SECTORS_PER_FAT, ROOT_DIR_SECTORS,
  SECTORS_PER_CLUSTER,
  SIZE_WORD,              \* values of a 16-bit half of a file size
  MEM_WORD,               \* values of a 16-bit amount of memory
  MIB,                    \* 0x400 KiB
  KPARAMS_MAX_LEN,
  E820_MAX,               \* entries that fit into bootinfo
  maxRetry

KPARAMS_BUFFER_LINEAR == 1792

fatStart == 1 + STAGE2_RESERVED_SECTORS
rootStart == fatStart + FAT_COUNT * SECTORS_PER_FAT
dataStart == rootStart + ROOT_DIR_SECTORS
clusterBytes == SECTORS_PER_CLUSTER * BYTES_PER_SECTOR

VARIABLES
  setup,     \* the disk and the machine
  phase,     \* the label the loader is at, or how it ended
  failed,    \* the phase it was in when it gave up
  flpretry,
  buf,       \* by buffer: the disk sectors it holds, in order
  gate, kbd, \* external: the A20 line is on, the keyboard interface is on
  step,      \* position in the dialogue with the 8042
  info,      \* stage2Flags and the memory fields of bootinfo
  file,      \* by file: found, current cluster, size, remaining bytes (hi, lo)
  himem,     \* the bytes above 1 MiB
  kparams,   \* the bytes at KPARAMS_BUFFER_LINEAR, and what bootinfo says of them
  regs       \* ESI and ECX at the kernel's entry point

vars == <<setup, phase, failed, flpretry, buf, gate, kbd, step, info, file, himem,
          kparams, regs>>

disk == setup.disk
bios == setup.bios

Ended == {"kernel", "reset", "halt"}

NoFile == [found |-> FALSE, cluster |-> 0, size |-> 0, hi |-> 0, lo |-> 0]

Init ==
  /\ setup \in Setups
  /\ phase = "start" /\ failed = "" /\ flpretry = 0
  /\ buf = [stage2 |-> <<>>, root |-> <<>>, fat |-> <<>>, bounce |-> <<>>]
  /\ gate = setup.bios.gate /\ kbd = TRUE /\ step = 1
  /\ info = [method |-> 0, crcskip |-> FALSE, e820 |-> <<>>, e801 |-> 0, ah88 |-> 0, cmos |-> 0]
  /\ file = [kernel |-> NoFile, kparams |-> NoFile]
  /\ himem = <<>>
  /\ kparams = [bytes |-> <<>>, nul |-> -1, addr |-> 0, size |-> 0]
  /\ regs = [esi |-> 0, ecx |-> 0]

\* wait_key_reset ("reset": a key restarts the machine) and halt.
Stop(how) ==
  /\ phase' = how /\ failed' = phase
  /\ UNCHANGED <<setup, flpretry, buf, gate, kbd, step, info, file, himem, kparams, regs>>

Goto(p) == phase' = p /\ UNCHANGED <<setup, failed, flpretry>>

-----------------------------------------------------------------------------
(* Reading the floppy.                                                      *)

lba2chs(lba) ==
  LET track == SECTORS_PER_TRACK * FLOPPY_HEADS IN
  [cylinder |-> lba \div track, head |-> (lba % track) \div SECTORS_PER_TRACK,
   sector |-> ((lba % track) % SECTORS_PER_TRACK) + 1]

\* External: the sector the BIOS finds at an address, -1 if there is none.
SectorAt(chs) ==
  IF chs.sector \in 1 .. SECTORS_PER_TRACK
  THEN (chs.cylinder * FLOPPY_HEADS + chs.head) * SECTORS_PER_TRACK + chs.sector - 1
  ELSE -1

M_floppyretry ==
  /\ flpretry' = (flpretry + 1) % maxRetry
  /\ UNCHANGED <<setup, phase, failed, buf, gate, kbd, step, info, file, himem, kparams, regs>>
floppyretry ==
  IF flpretry + 1 = maxRetry THEN Stop("reset")
  ELSE /\ flpretry' = flpretry + 1
       /\ UNCHANGED <<setup, phase, failed, buf, gate, kbd, step, info, file, himem,
                      kparams, regs>>

\* Read one sector to the end of buffer b; n sectors fill it, and then phase
\* next follows.
floppyread(lba, b, n, next) ==
  \/ /\ SectorAt(lba2chs(lba)) # -1
     /\ flpretry' = 0
     /\ buf' = [buf EXCEPT ![b] = Append(@, SectorAt(lba2chs(lba)))]
     /\ phase' = IF Len(buf[b]) + 1 < n THEN phase ELSE next
     /\ UNCHANGED <<setup, failed, gate, kbd, step, info, file, himem, kparams, regs>>
  \/ floppyretry

-----------------------------------------------------------------------------
(* Stage1, and stage2's search of the root directory.                       *)

start ==
  /\ phase = "start"
  /\ \/ Stop("reset")                                    \* the drive does not reset
     \/ /\ Goto("stage2_load")
        /\ UNCHANGED <<buf, gate, kbd, step, info, file, himem, kparams, regs>>

stage2_load ==
  /\ phase = "stage2_load"
  /\ floppyread(Len(buf.stage2) + 1, "stage2", STAGE2_RESERVED_SECTORS, "verify")

\* The header, with the magic string, is in stage2's first sector.
stage2_magicstringverify ==
  /\ phase = "verify"
  /\ IF disk.magic /\ buf.stage2[1] = 1
     THEN Goto("read_root")
          /\ UNCHANGED <<buf, gate, kbd, step, info, file, himem, kparams, regs>>
     ELSE Stop("reset")

read_root ==
  /\ phase = "read_root"
  /\ floppyread(rootStart + Len(buf.root), "root", ROOT_DIR_SECTORS, "parse_root")

\* Entry k of the directory in the buffer.
Entry(k) ==
  disk.root[(buf.root[(k - 1) \div ENTRIES_PER_SECTOR + 1] - rootStart) * ENTRIES_PER_SECTOR
            + ((k - 1) % ENTRIES_PER_SECTOR) + 1]
Entries == 1 .. ROOT_DIR_SECTORS * ENTRIES_PER_SECTOR

\* The first file with a name, before the entry that ends the directory; the
\* entries of deleted files, long names, labels and directories are passed over.
Matches(name) ==
  {k \in Entries : /\ Entry(k).name = name /\ Entry(k).kind = "file"
                   /\ \A j \in 1 .. k : Entry(j).kind # "end"}
Capture(name) ==
  IF Matches(name) = {} THEN NoFile
  ELSE LET e == Entry(Min(Matches(name))) IN
       [found |-> TRUE, cluster |-> e.cluster, size |-> e.size,
        hi |-> e.size \div SIZE_WORD, lo |-> e.size % SIZE_WORD]

parse_root ==
  /\ phase = "parse_root"
  /\ IF Matches("kernel") = {} THEN Stop("reset")
     ELSE /\ file' = [kernel |-> Capture("kernel"), kparams |-> Capture("kparams")]
          /\ Goto("initA20")
          /\ UNCHANGED <<buf, gate, kbd, step, info, himem, kparams, regs>>

-----------------------------------------------------------------------------
(* The A20 line.  The alias test sees the line itself.                      *)

a20Try(method, next) ==
  /\ gate' = (method \in bios.a20)
  /\ Goto(IF gate' THEN "a20Ready" ELSE next)
  /\ UNCHANGED <<buf, kbd, step, info, file, himem, kparams, regs>>

initA20 ==
  /\ phase = "initA20"
  /\ Goto(IF gate THEN "a20Ready" ELSE "tryEnableA20")
  /\ UNCHANGED <<buf, gate, kbd, step, info, file, himem, kparams, regs>>
tryEnableA20 == phase = "tryEnableA20" /\ a20Try("bios", "tryEnableA20Fast")
tryEnableA20Fast == phase = "tryEnableA20Fast" /\ a20Try("fast", "kbdController")

\* What is said to the 8042, with and without reading its output port first.
Dialogue(p) ==
  IF p = "kbdController" THEN <<"disable", "read", "answer", "write", "data", "enable", "test">>
  ELSE <<"disable", "write", "data", "enable", "test">>

\* kbd_wait_ibf_clear, then a byte to the controller.
kbdSend ==
  /\ phase \in {"kbdController", "kbdBlind"}
  /\ LET word == Dialogue(phase)[step] IN
     /\ word \in {"disable", "read", "write", "data", "enable"}
     /\ kbd' = CASE word = "disable" -> FALSE [] word = "enable" -> TRUE [] OTHER -> kbd
     /\ gate' = IF word = "data" THEN phase \in bios.a20 ELSE gate
  /\ step' = step + 1
  /\ UNCHANGED <<setup, phase, failed, flpretry, buf, info, file, himem, kparams, regs>>

kbdTimeout ==
  /\ phase \in {"kbdController", "kbdBlind"} /\ bios.hangs
  /\ Dialogue(phase)[step] \notin {"answer", "test"}
  /\ Stop("halt")                                        \* a20Failed

\* kbd_wait_obf_set: the output port, or no answer in time.
kbdAnswer ==
  /\ phase = "kbdController" /\ Dialogue(phase)[step] = "answer"
  /\ \/ step' = step + 1 /\ UNCHANGED phase
     \/ step' = 1 /\ phase' = "kbdBlind"
  /\ UNCHANGED <<setup, failed, flpretry, buf, gate, kbd, info, file, himem, kparams, regs>>

kbdTest ==
  /\ phase \in {"kbdController", "kbdBlind"} /\ Dialogue(phase)[step] = "test"
  /\ IF ~gate /\ phase = "kbdBlind" THEN Stop("halt")    \* a20Failed
     ELSE /\ Goto(IF gate THEN "a20Ready" ELSE "kbdBlind")
          /\ step' = 1
          /\ UNCHANGED <<buf, gate, kbd, info, file, himem, kparams, regs>>

\* The controller is told once more to enable the keyboard, whether or not it
\* listens.
a20Ready ==
  /\ phase = "a20Ready"
  /\ \E lost \in {FALSE, bios.hangs} : kbd' = (kbd \/ ~lost)
  /\ Goto("get_e820")
  /\ UNCHANGED <<buf, gate, step, info, file, himem, kparams, regs>>

-----------------------------------------------------------------------------
(* The size of memory.                                                      *)

Measured(i, next) ==
  /\ info' = i
  /\ Goto(IF i.method # 0 THEN "load_fat" ELSE next)
  /\ UNCHANGED <<buf, gate, kbd, step, file, himem, kparams, regs>>

\* The BIOS may fail after any number of entries; those are kept.
get_e820 ==
  /\ phase = "get_e820"
  /\ \E n \in 0 .. Min({Len(bios.e820), E820_MAX}) :
       Measured([info EXCEPT !.e820 = SubSeq(bios.e820, 1, n),
                             !.method = IF n > 0 THEN 1 ELSE 0], "e801")

\* The total of a number of KiB below and of 64-KiB blocks above 16 MiB, in
\* which the word that counts the KiB may overflow.
Total(below, above) == ((below + MIB) % MEM_WORD) + above

e801Size(r) ==
  IF Total(r.ax, r.bx) # 0 THEN Total(r.ax, r.bx) ELSE Total(r.cx, r.dx)

e801_entry ==
  /\ phase = "e801"
  /\ Measured(IF bios.e801.fails \/ e801Size(bios.e801) = 0 THEN info
              ELSE [info EXCEPT !.e801 = e801Size(bios.e801), !.method = 2], "ah88")

ah88_entry ==
  /\ phase = "ah88"
  /\ Measured(IF bios.ah88 = -1 THEN info
              ELSE [info EXCEPT !.ah88 = bios.ah88 + MIB, !.method = 3], "cmos")

M_cmosSize == (MIB + bios.cmos.ext + bios.cmos.alt) % MEM_WORD
cmosSize ==
  IF bios.cmos.ext # 0 THEN (MIB + bios.cmos.ext) % MEM_WORD
  ELSE (MIB + bios.cmos.alt) % MEM_WORD

cmosMemoryTest ==
  /\ phase = "cmos"
  /\ Measured([info EXCEPT !.cmos = cmosSize], "load_fat")

\* What bootinfo_getmem finds.
Report ==
  CASE info.method = 0 -> [method |-> "CMOS", kib |-> info.cmos]
    [] info.method = 1 -> [method |-> "E820", spans |-> Range(info.e820)]
    [] info.method = 2 -> [method |-> "E801", kib |-> info.e801]
    [] info.method = 3 -> [method |-> "AH88", kib |-> info.ah88]

-----------------------------------------------------------------------------
(* FAT12: the first FAT is read once, the kernel's clusters are copied      *)
(* above 1 MiB one by one.                                                  *)

load_fat12_table ==
  /\ phase = "load_fat"
  /\ floppyread(fatStart + Len(buf.fat), "fat", SECTORS_PER_FAT, "kernel_loop")

\* External: byte n of a FAT, in which two entries are packed into three bytes.
FatByte(n) ==
  LET even == disk.fat[2 * (n \div 3)]
      odd == disk.fat[2 * (n \div 3) + 1]
  IN CASE n % 3 = 0 -> even % 256
       [] n % 3 = 1 -> even \div 256 + 16 * (odd % 16)
       [] OTHER -> odd \div 16

\* Byte n of the FAT's buffer.
Byte(n) == FatByte((buf.fat[n \div BYTES_PER_SECTOR + 1] - fatStart) * BYTES_PER_SECTOR
                   + (n % BYTES_PER_SECTOR))

fat12_next_cluster(n) ==
  LET word == Byte(n + n \div 2) + 256 * Byte(n + n \div 2 + 1)
  IN IF n % 2 = 1 THEN word \div 16 ELSE word % 4096

MIN_VALID == 2
RESERVED_LO == 4080
EOC_MIN == 4088

\* The next sector of a file's current cluster.
read_cluster(f, next) ==
  floppyread(dataStart + (file[f].cluster - 2) * SECTORS_PER_CLUSTER + Len(buf.bounce),
             "bounce", SECTORS_PER_CLUSTER, next)

\* How much of a cluster a file still has; the bytes in the bounce buffer; a
\* file after n bytes more, with the borrow between its two words.
M_Count(f) == IF f.lo <= clusterBytes THEN f.lo ELSE clusterBytes
Count(f) == IF f.hi = 0 /\ f.lo <= clusterBytes THEN f.lo ELSE clusterBytes
Bounced(n) ==
  [k \in 1 .. n |-> <<buf.bounce[(k - 1) \div BYTES_PER_SECTOR + 1], (k - 1) % BYTES_PER_SECTOR>>]
Consume(f, n) ==
  [f EXCEPT !.lo = (@ - n) % SIZE_WORD, !.hi = IF f.lo < n THEN @ - 1 ELSE @]
Empty(f) == f.hi = 0 /\ f.lo = 0

\* The kernel's next cluster; a chain that is broken or too short ends the boot.
read_cluster_sectors ==
  /\ phase = "kernel_loop"
  /\ IF Empty(file.kernel)
     THEN Goto("crc32") /\ UNCHANGED <<buf, gate, kbd, step, info, file, himem, kparams, regs>>
     ELSE read_cluster("kernel", "copy_cluster")

copy_cluster_to_himem ==
  /\ phase = "copy_cluster"
  /\ LET n == Count(file.kernel)
         f == Consume(file.kernel, n)
         next == fat12_next_cluster(f.cluster)
     IN /\ himem' = himem \o Bounced(n)
        /\ buf' = [buf EXCEPT !.bounce = <<>>]
        /\ IF Empty(f) \/ next \notin MIN_VALID .. RESERVED_LO - 1
           THEN /\ file' = [file EXCEPT !.kernel = f]
                /\ phase' = (IF Empty(f) THEN "crc32" ELSE "reset")
                /\ failed' = (IF Empty(f) THEN failed ELSE phase)
           ELSE /\ file' = [file EXCEPT !.kernel = [f EXCEPT !.cluster = next]]
                /\ phase' = "kernel_loop" /\ UNCHANGED failed
  /\ UNCHANGED <<setup, flpretry, gate, kbd, step, info, kparams, regs>>

\* F8 waiting at the keyboard skips the comparison.
M_crcMatches == Len(himem) = Len(disk.built)
crcMatches == himem = disk.built

crc32_finalize ==
  /\ phase = "crc32"
  /\ \E f8 \in BOOLEAN :
       IF ~f8 /\ ~crcMatches THEN Stop("reset")
       ELSE /\ info' = [info EXCEPT !.crcskip = f8]
            /\ Goto("load_kparams")
            /\ UNCHANGED <<buf, gate, kbd, step, file, himem, kparams, regs>>

-----------------------------------------------------------------------------
(* KPARAMS.DAT, and the jump to the kernel.                                 *)

\* kparams_finalize with bytes, and kparams_disable.
M_Kept(bytes) == [bytes |-> bytes, nul |-> Len(bytes), addr |-> KPARAMS_BUFFER_LINEAR,
                  size |-> file.kparams.size]
Kept(bytes) == [bytes |-> bytes, nul |-> Len(bytes), addr |-> KPARAMS_BUFFER_LINEAR,
                size |-> Len(bytes)]
Disabled == [bytes |-> <<>>, nul |-> 0, addr |-> 0, size |-> 0]

load_kparams_if_present ==
  /\ phase = "load_kparams"
  /\ LET f == file.kparams
         rest == IF f.hi # 0 \/ f.lo > KPARAMS_MAX_LEN THEN KPARAMS_MAX_LEN ELSE f.lo
     IN /\ file' = [file EXCEPT !.kparams = [f EXCEPT !.hi = 0, !.lo = rest]]
        /\ kparams' = CASE ~f.found -> Disabled [] rest = 0 -> Kept(<<>>) [] OTHER -> kparams
        /\ Goto(IF f.found /\ rest # 0 THEN "kparams_read" ELSE "publish")
  /\ UNCHANGED <<buf, gate, kbd, step, info, himem, regs>>

kparams_read_cluster ==
  phase = "kparams_read" /\ read_cluster("kparams", "kparams_copy")

\* A broken chain disables the parameters; one that is too short does not.
kparams_cluster_loop ==
  /\ phase = "kparams_copy"
  /\ LET n == Count(file.kparams)
         f == Consume(file.kparams, n)
         bytes == kparams.bytes \o Bounced(n)
         next == fat12_next_cluster(f.cluster)
         done == Empty(f) \/ next >= EOC_MIN
         bad == next < MIN_VALID \/ next >= RESERVED_LO
     IN /\ kparams' = CASE done -> Kept(bytes)
                        [] ~done /\ bad -> Disabled
                        [] OTHER -> [kparams EXCEPT !.bytes = bytes]
        /\ file' = [file EXCEPT !.kparams = IF done \/ bad THEN f ELSE [f EXCEPT !.cluster = next]]
        /\ Goto(IF done \/ bad THEN "publish" ELSE "kparams_read")
  /\ buf' = [buf EXCEPT !.bounce = <<>>]
  /\ UNCHANGED <<gate, kbd, step, info, himem, regs>>

\* publish_bootinfo and enterPMHandoff.
enterPMHandoff ==
  /\ phase = "publish"
  /\ regs' = [esi |-> IF kparams.size = 0 THEN 0 ELSE KPARAMS_BUFFER_LINEAR,
              ecx |-> kparams.size]
  /\ Goto("kernel")
  /\ UNCHANGED <<buf, gate, kbd, step, info, file, himem, kparams>>

Finish == phase \in Ended /\ UNCHANGED vars

Next ==
  \/ start \/ stage2_load \/ stage2_magicstringverify \/ read_root \/ parse_root
  \/ initA20 \/ tryEnableA20 \/ tryEnableA20Fast \/ kbdSend \/ kbdTimeout \/ kbdAnswer
  \/ kbdTest \/ a20Ready \/ get_e820 \/ e801_entry \/ ah88_entry \/ cmosMemoryTest
  \/ load_fat12_table \/ read_cluster_sectors \/ copy_cluster_to_himem \/ crc32_finalize
  \/ load_kparams_if_present \/ kparams_read_cluster \/ kparams_cluster_loop
  \/ enterPMHandoff \/ Finish

\* The loader is one instruction stream: it goes on as long as it can.
Spec == Init /\ [][Next]_vars /\ WF_vars(Next)

-----------------------------------------------------------------------------
(* Properties.                                                              *)

\* The kernel is entered only with the A20 line on, with the keyboard usable
\* whichever way A20 was enabled, and with the image that was built at 1 MiB
\* unless the user skipped the check; nothing is written above 1 MiB before
\* the line is on.
HandoffContract ==
  /\ himem # <<>> => gate
  /\ phase = "kernel" => gate /\ kbd /\ (himem = disk.built \/ info.crcskip)

\* A disk that is as it was built is never refused: the loader gives up on it
\* only where a sector could not be read, or at the drive's first reset.
IntactDiskBoots ==
  phase = "reset" /\ disk.intact => flpretry = maxRetry - 1 \/ failed = "start"

\* The kernel never takes memory for present that a BIOS which tells the truth
\* did not report, unless it falls back on its default: the flags name the one
\* field stage2 filled in, and bootinfo_getmem reads that field.
MemoryNotOverstated ==
  phase = "kernel" =>
    \/ getmem(Report) <= bios.total
    \/ Report.method = "CMOS" /\ Report.kib <= CMOS_LOW

\* The clusters that the FAT gives KPARAMS.DAT, up to the maximum the loader
\* takes; the chain is broken where one of them leads to an entry that is free,
\* reserved or bad.
Chain[k \in 1 .. KPARAMS_MAX_LEN] ==
  IF k = 1 THEN Capture("kparams").cluster
  ELSE IF Chain[k - 1] \in MIN_VALID .. RESERVED_LO - 1 THEN disk.fat[Chain[k - 1]] ELSE EOC_MIN
ChainBroken ==
  LET n == Min({KPARAMS_MAX_LEN, Capture("kparams").size})
  IN \E k \in 2 .. (n + clusterBytes - 1) \div clusterBytes :
       Chain[k] \notin (MIN_VALID .. RESERVED_LO - 1) \cup (EOC_MIN .. 4095)

\* Kernel parameters reach the kernel NUL-terminated right behind their last
\* byte and no longer than they may be; ECX and bootinfo agree on the length,
\* and ESI and bootinfo on the buffer when there are any.  Without the file, or
\* when its chain breaks after some of it was copied, the kernel is told of
\* none ("missing/disabled/invalid: ESI = 0, ECX = 0"); from a disk that is as
\* it was built it gets the file, cut to the maximum.
KparamsFaithful ==
  phase = "kernel" =>
    /\ regs.ecx = kparams.size /\ kparams.nul = regs.ecx
    /\ Len(kparams.bytes) = regs.ecx /\ regs.ecx <= KPARAMS_MAX_LEN
    /\ regs.ecx # 0 => regs.esi = KPARAMS_BUFFER_LINEAR /\ kparams.addr = regs.esi
    /\ Matches("kparams") = {} \/ ChainBroken => regs.esi = 0 /\ regs.ecx = 0 /\ kparams.addr = 0
    /\ disk.intact =>
         kparams.bytes = SubSeq(disk.params, 1, Min({KPARAMS_MAX_LEN, Len(disk.params)}))

\* Every boot comes to an end, whatever fails how often and however the FAT's
\* chains run: in the kernel, waiting for a key to reset, or halted.
BootEnds == <>(phase \in Ended)

\* docs/boot-protocol.md: "On any kparams load/traversal failure, stage2
\* disables kparams and continues boot".
KparamsNeverStopBoot == failed \notin {"load_kparams", "kparams_read", "kparams_copy"}

\* docs/boot-protocol.md: "BOOTINFO mirrors the same pointer/length" as ESI and
\* ECX.
KparamsMirrored ==
  phase = "kernel" => regs.esi = kparams.addr /\ regs.ecx = kparams.size

\* stage2.asm, .e801_entry: "did we get a zero? some BIOSes report with CX/DX
\* instead so we repeat the above process with CX/DX if so".
ZeroMeansCxDx ==
  LET r == bios.e801 IN
  info.method = 2 /\ r.ax = 0 /\ r.bx = 0 => info.e801 = MIB + r.cx + r.dx
=============================================================================
