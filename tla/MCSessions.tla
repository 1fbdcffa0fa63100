----------------------------- MODULE MCSessions ----------------------------
(***************************************************************************)
(* Small instances of Sessions: three windows that are shuffled and        *)
(* renumbered; the windows of a group, at three indexes; windows linked    *)
(* more than once, and late notifications; the client of a group that      *)
(* keeps its last session; three sessions and the names of their groups;   *)
(* two clients, and sessions that go when nobody is attached; and          *)
(* renumbering in groups.                                                  *)
(***************************************************************************)
EXTENDS Sessions

CONSTANTS w1, w2, w3, c1, c2

Three == {1, 2, 3}
Once == [sessions |-> {1, 2}, windows |-> {w1, w2, w3}, top |-> 2, clients |-> {},
         unattached |-> "off", uses |-> {"-a", "-r", "renumber-windows"}]
Shared == [Once EXCEPT !.windows = {w1, w2}, !.uses = {"group"}]
Twice == [Shared EXCEPT !.top = 1, !.uses = {"group", "again", "swap"}]
Late == [Twice EXCEPT !.uses = {"group", "again", "later"}]
KeptLast == [Shared EXCEPT !.top = 1, !.clients = {c1}, !.unattached = "keep-last"]
Names == [Once EXCEPT !.sessions = Three, !.top = 0,
                      !.uses = {"group", "again", "swap", "later"}]
Left == [Names EXCEPT !.clients = {c1, c2}, !.unattached = "on", !.uses = {}]
Renumbered == [Once EXCEPT !.uses = {"group", "-r", "-r in groups"}]

MCInstances == {Once, Shared, Twice, Late, KeptLast, Names, Left}
MCRenumbered == {Renumbered}

Symmetry == Permutations({w1, w2, w3}) \cup Permutations({c1, c2})
=============================================================================
