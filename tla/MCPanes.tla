------------------------------ MODULE MCPanes ------------------------------
(***************************************************************************)
(* Panes with three panes in up to two windows of a few columns and lines. *)
(***************************************************************************)
EXTENDS Panes

CONSTANTS p1, p2, p3, w1, w2
MCPane == {p1, p2, p3}
MCWindow == {w1, w2}
MCSymmetry == Permutations(MCPane) \cup Permutations(MCWindow)
MCSplits == {-1, 1}
MCLayouts == {"even-horizontal", "tiled"}
MCInstances ==
  {{"split", "sizes", "fail", "full", "kill", "window size"},
   {"split", "zoom", "swap", "last"},
   {"split", "zoom", "rotate"},
   {"split", "zoom", "kill"},
   {"split", "popup", "kill", "swap", "join"},
   {"split", "sizes", "resize"},
   {"split", "mouse"},
   {"split", "layout", "respawn"},
   {"split", "sizes", "spread", "undo"}}
=============================================================================
