------------------------------ MODULE ProcLife ------------------------------
(***************************************************************************)
(* What fork, exit and waitpid promise about a process, without threads,   *)
(* queues or address spaces: a process is created by a live process or by  *)
(* the kernel, exits once, and is then reaped, by its creator and by no    *)
(* one else.  Reaping a process leaves its own children without a creator, *)
(* so nobody may reap those any more, even if its slot is used again.      *)
(***************************************************************************)
CONSTANTS Slots, NoOne

VARIABLES life, creator

vars == <<life, creator>>

Init == /\ life \in [Slots -> {"free", "alive"}]
        /\ creator \in [Slots -> Slots \cup {NoOne}]

Create(c, q) ==
  /\ life[c] = "free"
  /\ q # NoOne => life[q] = "alive"
  /\ life' = [life EXCEPT ![c] = "alive"]
  /\ creator' = [creator EXCEPT ![c] = q]

Exit(p) ==
  /\ life[p] = "alive"
  /\ life' = [life EXCEPT ![p] = "zombie"]
  /\ UNCHANGED creator

Reap(q, c) ==
  /\ life[q] = "alive" /\ life[c] = "zombie" /\ creator[c] = q
  /\ life' = [life EXCEPT ![c] = "free"]
  /\ creator' = [p \in Slots |-> IF p = c \/ creator[p] = c THEN NoOne ELSE creator[p]]

Next ==
  \/ \E c \in Slots, q \in Slots \cup {NoOne} : Create(c, q)
  \/ \E p \in Slots : Exit(p)
  \/ \E q, c \in Slots : Reap(q, c)

Spec == Init /\ [][Next]_vars
=============================================================================
