------------------------------- MODULE MCLive ------------------------------
(***************************************************************************)
(* Small instances of the modules that promise something will happen, side *)
(* by side: a behaviour belongs to one of them.                            *)
(***************************************************************************)
EXTENDS Attach

\* What is done to a client that is attached.
Leaving(with, most) == [uses |-> with, most |-> most]
Nothing == Leaving({}, 0)
LeavingInstances ==
  {Nothing,
   Leaving({"detach", "exec", "suspend", "lock", "destroy", "shutdown"}, 3),
   Leaving({"signals", "suspend", "detach", "exec", "shutdown"}, 3),
   Leaving({"signals", "suspend", "lock", "detach"}, 3),
   Leaving({"control", "detach", "destroy", "shutdown", "signals"}, 3),
   Leaving({"shell", "invalid", "shutdown"}, 2),
   Leaving({"kill", "suspend", "lock", "shutdown", "detach"}, 3),
   Leaving({"windows", "detach", "exec", "destroy", "lock"}, 3)}

CONSTANTS c1, i1, i2, i3, j1, p1, Global, Absent

VARIABLES
  part, \* the one that this behaviour belongs to
  order, it, running, job, conn, refs, freeing, at, todo, busy, \* CmdQueue
  pane, cl, phase, fatal,                                       \* ControlOutput
  clients, files, once, item, received, sent, opened, input, book, done, kinds,    \* Files
  message, prompt, overlay, pushed, tty, client, accepts, asked, keys, how         \* Prompts

Queues == INSTANCE CmdQueue WITH
  Client <- {c1}, Item <- {i1, i2, i3}, Job <- {j1}, Groups <- {1},
  LineSizes <- {2}, InsertSizes <- {}, None <- Absent

Output == INSTANCE ControlOutput WITH
  Pane <- {p1}, Client <- {c1}, PauseAfter <- {c1}, Low <- 1, High <- 3,
  Minimum <- 1, MaxBuffer <- 2, MaxBlocks <- 2, MaxOut <- 2,
  ControlUses <- {"refresh", "exit"}, None <- Absent

\* Two commands of several kinds that may fail, and on Windows. The client is
\* not killed: with a command in its queue it is then kept for ever, as in
\* CmdQueue (LostClientsGo).
OnWindows == [uses |-> {"load", "save", "print", "path", "fails", "windows"}, most |-> 2]
Transfer == INSTANCE Files WITH
  c <- clients, toClient <- received, toServer <- sent, proc <- opened, commands <- done, instance <- kinds,
  pane <- input, Content <- <<"a", "b">>,
  FileInstances <- {OnWindows, [uses |-> {"load", "source", "input", "path", "fails"}, most |-> 2]}

\* Two questions, with messages, and a popup.
Once == [uses |-> {"command", "several", "confirm", "message"}, most |-> 2, keys |-> 1]
Ask == INSTANCE Prompts WITH
  Instances <- {Once, [uses |-> {"panes", "menu", "popup", "alert"}, most |-> 2, keys |-> 1]}

qVars == <<order, it, running, job, conn, refs, freeing, at, todo, busy>>
oVars == <<pane, cl, phase, fatal>>
fVars == <<clients, files, once, item, received, sent, opened, input, book, done, kinds>>
pVars == <<message, prompt, overlay, pushed, tty, client, accepts, asked, keys, how>>

MCInit ==
  /\ part \in {"attach", "queues", "control", "files", "prompts"}
  /\ Init /\ (part # "attach" => instance = Nothing /\ toServer = <<"IDENTIFY", "COMMAND">>)
  /\ Queues!Init
  /\ Output!ControlInit
  /\ Transfer!FilesInit /\ (part # "files" => kinds = OnWindows)
  /\ Ask!Init /\ (part # "prompts" => how = Once)

MCNext ==
  /\ UNCHANGED part
  /\ \/ part = "attach" /\ Next /\ UNCHANGED <<qVars, oVars, fVars, pVars>>
     \/ part = "queues" /\ Queues!Next /\ UNCHANGED <<vars, oVars, fVars, pVars>>
     \/ part = "control" /\ (Output!ControlNext \/ (fatal /\ UNCHANGED oVars)) /\ UNCHANGED <<vars, qVars, fVars, pVars>>
     \/ part = "files" /\ Transfer!FilesNext /\ UNCHANGED <<vars, qVars, oVars, pVars>>
     \/ part = "prompts" /\ Ask!Next /\ UNCHANGED <<vars, qVars, oVars, fVars>>

\* The steps that are fair; a part that a behaviour does not belong to takes
\* none, which asks nothing of it.
AttachServer == part = "attach" /\ Server
AttachClient == part = "attach" /\ Client
QueuesServer == part = "queues" /\ Queues!Server
QueuesJob == part = "queues" /\ Queues!JobEnds(j1)
QueuesBackground == part = "queues" /\ Queues!BackgroundEnds(j1)
QueuesFree == part = "queues" /\ Queues!Free(c1)
ControlLoop == part = "control" /\ Output!Loop
ControlCan == part = "control" /\ Output!CanTake(c1)
ControlTakes == Output!ClientTakes(c1, cl[c1].out)
FilesServer == part = "files" /\ Transfer!FilesServer
FilesClient == part = "files" /\ Transfer!Client
Escape == part = "prompts" /\ Ask!Key("Escape", FALSE)
MessageTimer == part = "prompts" /\ Ask!MessageTimer
OverlayTimer == part = "prompts" /\ Ask!OverlayTimer
PopupJob == part = "prompts" /\ \E status \in 0..1 : Ask!JobEnds(status)

\* The fairness that the modules justify where they define Server, CanTake,
\* Client and Quiet.
MCSpec ==
  /\ MCInit /\ [][MCNext]_<<part, vars, qVars, oVars, fVars, pVars>>
  /\ WF_vars(AttachServer) /\ WF_vars(AttachClient)
  /\ WF_qVars(QueuesServer) /\ SF_qVars(QueuesFree)
  /\ SF_qVars(QueuesJob) /\ SF_qVars(QueuesBackground)
  /\ WF_oVars(ControlLoop)
  /\ []<>ControlCan => []<><<ControlTakes>>_oVars
  /\ WF_fVars(FilesServer) /\ WF_fVars(FilesClient)
  /\ WF_pVars(Escape) /\ WF_pVars(MessageTimer) /\ WF_pVars(OverlayTimer) /\ WF_pVars(PopupJob)

\* The properties of the same names.
EveryItemRuns == part = "queues" => Queues!EveryItemRuns
LostClientsGo == part = "queues" => Queues!LostClientsGo

\* The three of control mode together.
OutputGoesOn ==
  part = "control" => Output!HeldLinesAreWritten /\ Output!ExitCompletes /\ Output!PanesAreRead

\* Commands that wait for a client do not wait for ever: files that cannot be
\* opened or read end what they were opened for, and the client goes when its
\* commands are done (file.c, client_exit); one that is attached and presses
\* Escape leaves whatever a command has asked it or shown it; and one that is
\* told to go goes (client.c, server-client.c).
WaitsEnd ==
  /\ part = "files" => Transfer!ClientsGo
  /\ part = "prompts" => Ask!EscapeLeaves
  /\ part = "attach" => ClientEnds
=============================================================================
