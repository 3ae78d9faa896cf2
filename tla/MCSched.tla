------------------------------ MODULE MCSched ------------------------------
(* Instances of Sched for TLC.                                              *)
EXTENDS Sched

AllWaits == Pid \cup {ANY}
AnyOr2   == {ANY, 2}

OnlyAny == {ANY}
=============================================================================
