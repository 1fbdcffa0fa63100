------------------------------- MODULE MCServed ----------------------------
(***************************************************************************)
(* Small instances of what the server keeps for the clients it serves,     *)
(* side by side: a behaviour belongs to one of them, and starts and leaves *)
(* the others as they are. A cfg says which are checked, and what the      *)
(* instance "control" of ControlOutput is.                                 *)
(***************************************************************************)
EXTENDS Prompts, ControlOutput

CONSTANTS p0, p1, p2, c0, c1, c2,
          Checked \* the instances that are checked

VARIABLES otherPane, otherCl, otherPhase, otherFatal, \* other instances of ControlOutput
          instance \* the one that this behaviour belongs to

\* Prompts of every kind under messages and with a client that is lost; the
\* overlays with alerts; popups; and the prompts of modes.
Asking(with, most, n) == [uses |-> with, most |-> most, keys |-> n]
Once == Asking({"mode", "confirm", "panes", "message"}, 3, 2)
AskingInstances ==
  {Once,
   Asking({"command", "single", "numeric", "key", "incremental", "bspace", "several", "confirm", "message", "lost"}, 2, 2),
   Asking({"command", "panes", "menu", "alert", "suspend", "readonly"}, 3, 2),
   Asking({"popup", "confirm", "alert", "lost"}, 3, 3)}

\* One client of two panes, which it sets on, off, paused and continued.
Panes == INSTANCE ControlOutput WITH
  pane <- otherPane, cl <- otherCl, phase <- otherPhase, fatal <- otherFatal,
  Pane <- {p1, p2}, Client <- {c0}, PauseAfter <- {c0}, Low <- 1, High <- 3,
  Minimum <- 1, MaxBuffer <- 2, MaxBlocks <- 3, MaxOut <- 1, ControlUses <- {"refresh", "age"}

\* Two clients that come and go, and a pane that is respawned.
Visits == INSTANCE ControlOutput WITH
  pane <- otherPane, cl <- otherCl, phase <- otherPhase, fatal <- otherFatal,
  Pane <- {p0}, Client <- {c1, c2}, PauseAfter <- {}, Low <- 1, High <- 3,
  Minimum <- 1, MaxBuffer <- 2, MaxBlocks <- 2, MaxOut <- 1, ControlUses <- {"switch", "respawn"}

\* One client that does all of that.
Single == INSTANCE ControlOutput WITH
  pane <- otherPane, cl <- otherCl, phase <- otherPhase, fatal <- otherFatal,
  Pane <- {p0}, Client <- {c0}, PauseAfter <- {}, Low <- 1, High <- 3,
  Minimum <- 1, MaxBuffer <- 2, MaxBlocks <- 2, MaxOut <- 1,
  ControlUses <- {"refresh", "switch", "respawn"}

ASSUME InstancesAssumption ==
  /\ ControlAssumption /\ Panes!ControlAssumption /\ Visits!ControlAssumption
  /\ Single!ControlAssumption /\ PromptsAssumption

otherVars == <<otherPane, otherCl, otherPhase, otherFatal>>

MCInit ==
  /\ instance \in Checked
  /\ Init /\ (instance # "prompts" => how = Once)
  /\ ControlInit
  /\ CASE instance = "panes"  -> Panes!ControlInit
       [] instance = "visits" -> Visits!ControlInit
       [] OTHER               -> Single!ControlInit

\* No more keys and no more questions are no deadlock.
MCNext ==
  /\ UNCHANGED instance
  /\ \/ instance = "prompts" /\ (Next \/ UNCHANGED vars) /\ UNCHANGED <<controlVars, otherVars>>
     \/ instance = "control" /\ ControlNext /\ UNCHANGED <<vars, otherVars>>
     \/ /\ UNCHANGED <<vars, controlVars>>
        /\ \/ instance = "panes" /\ Panes!ControlNext
           \/ instance = "visits" /\ Visits!ControlNext
           \/ instance = "single" /\ Single!ControlNext

MCSpec == MCInit /\ [][MCNext]_<<instance, vars, controlVars, otherVars>>

Symmetry == Permutations({p1, p2}) \cup Permutations({c1, c2})

\* BlocksSound and EnoughData (control.c) of the other instances.
OthersSound ==
  CASE instance = "panes"  -> Panes!BlocksSound /\ Panes!EnoughData
    [] instance = "visits" -> Visits!BlocksSound /\ Visits!EnoughData
    [] OTHER               -> Single!BlocksSound /\ Single!EnoughData
=============================================================================
