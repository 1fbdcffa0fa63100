----------------------------- MODULE MCCmdQueue ----------------------------
(* The instances of CmdQueue that TLC checks. *)
EXTENDS CmdQueue, TLC

CONSTANTS c1, c2, i1, i2, i3, i4, j1

MCClients == {c1, c2}
MCItems4 == {i1, i2, i3, i4}
MCOneJob == {j1}
MCOneSize == {2}
MCOneGroup == {1}
MCSymmetry == Permutations({c1, c2}) \cup Permutations({i1, i2, i3, i4})
=============================================================================
