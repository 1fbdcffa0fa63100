------------------------------ MODULE MCClient -----------------------------
(***************************************************************************)
(* Small instances of the modules about clients, side by side: a behaviour *)
(* belongs to one of them, and starts and leaves the others as they are.   *)
(***************************************************************************)
EXTENDS Startup, Files

VARIABLES
  part,                      \* the one that this behaviour belongs to
  line, history, added, what \* PromptLine

\* Clients that start a server, and that only look for one.
Starting(with, start, others) == [uses |-> with, start |-> start, others |-> others]
Three == Starting({}, 3, 1)
StartingInstances ==
  {Three, Starting({"kill"}, 3, 0), Starting({"recreate", "kill"}, 1, 2), Starting({"fails", "kill"}, 2, 1),
   Starting({"short", "kill"}, 2, 1), Starting({"windows", "kill", "fails"}, 2, 1), Starting({"windows", "short", "kill"}, 3, 0)}

\* Files that are read, written and printed to; what can fail, and a client
\* that is killed, that runs on Windows or that is attached. Standard input and
\* output are used once each.
Transfers(with, most) == [uses |-> with, most |-> most]
Paths == {"load", "save", "source", "path"}
Standard == Transfers({"load", "save", "-"}, 2)
TransferInstances ==
  {Standard, Transfers(Paths \cup {"print"}, 3),
   Transfers(Paths \cup {"print", "input", "fails", "kill"}, 2),
   Transfers(Paths \cup {"print", "fails", "windows"}, 2),
   Transfers({"load", "save", "path", "target", "attached"}, 2),
   Transfers({"load", "save", "path", "fails", "attached"}, 2),
   Transfers({"load", "target", "path", "kill"}, 2)}
TransferContent == <<"a", "b">>

\* Lines over a space, a separator and a letter.
Lines(with, limit, max) == [uses |-> with, limit |-> limit, max |-> max]
Kills == Lines({"kill"}, 0, 4)
LineInstances ==
  {Kills, Lines({"move", "vi"}, 0, 5), Lines({"move"}, 0, 5), Lines({"history"}, 2, 2), Lines({"complete"}, 0, 5)}
LineCommands == <<<<"a", "-", "a">>, <<"a", "-">>, <<"a", "a">>>>
LineOptions == <<<<"-", "a">>>>
Edit == INSTANCE PromptLine WITH
  Space <- "_", Separators <- {"-"}, Letters <- {"a"}, Commands <- LineCommands, Options <- LineOptions,
  MaxLines <- 3, Instances <- LineInstances

ASSUME InstancesAssumption ==
  FilesAssumption /\ Edit!LineAssumption

lVars == <<line, history, added, what>>

MCInit ==
  /\ part \in {"startup", "files", "line"}
  /\ Init /\ (part # "startup" => uses = Three.uses /\ Len(cl) = 4)
  /\ FilesInit /\ (part # "files" => instance = Standard)
  /\ Edit!Init /\ (part # "line" => what = Kills)

MCNext ==
  /\ UNCHANGED part
  /\ \/ part = "startup" /\ Next /\ UNCHANGED <<filesVars, lVars>>
     \/ part = "files" /\ FilesNext /\ UNCHANGED <<vars, lVars>>
     \/ part = "line" /\ Edit!Next /\ UNCHANGED <<vars, filesVars>>

MCSpec == MCInit /\ [][MCNext]_<<part, vars, filesVars, lVars>>

\* The invariant of the same name.
LineSound == part = "line" => Edit!LineSound
=============================================================================
