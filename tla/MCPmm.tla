------------------------------- MODULE MCPmm -------------------------------
(* Instances of Pmm.  Two units to a frame; frame 0 is low memory, the      *)
(* kernel ends inside frame 1, the bitmap is frame 2.                       *)
EXTENDS Pmm

Image == <<2, 3>>

\* Holes that touch one frame each, among them one that starts in the middle
\* of a frame and two that border on each other, and one far away.
NarrowHoles == {<<9, 10>>, <<16, 17>>, <<17, 18>>, <<30, 40>>}

\* A hole of two frames inside the memory the window wants.
WideHole == {<<8, 12>>}

NoHoles == {}
=============================================================================
