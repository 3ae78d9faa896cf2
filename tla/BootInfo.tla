------------------------------ MODULE BootInfo ------------------------------
(***************************************************************************)
(* How the kernel reads the memory size out of BOOTINFO (bootinfo.c): the  *)
(* one thing the boot loader and the kernel must agree about.  A report is *)
(* the method named by the flags with the field that method fills in.      *)
(***************************************************************************)
EXTENDS Integers, FiniteSetsExt

CONSTANTS
  CMOS_LOW, FALLBACK         \* 0x400 and SYNTHETIC_MEM_FALLBACK

\* decode_e820: the end of the highest usable span.
topKiB(spans) == Max({0} \cup {s.base + s.length : s \in {u \in spans : u.usable}})

getmem(r) ==
  CASE r.method = "E820" -> topKiB(r.spans)
    [] r.method = "CMOS" /\ r.kib <= CMOS_LOW -> FALLBACK
    [] OTHER -> r.kib
=============================================================================
