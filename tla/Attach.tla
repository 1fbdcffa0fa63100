------------------------------- MODULE Attach ------------------------------
(***************************************************************************)
(* A client process and what the server keeps of it, from the first        *)
(* message to the last (client.c, proc.c, server-client.c, server-fn.c).   *)
(*                                                                         *)
(* Both sides send each other messages and neither waits for an answer; to *)
(* the client come signals as well. The two share a terminal: the server   *)
(* draws on it while a session is shown, and the shell or a lock program   *)
(* has it while the client is suspended and when it is over.               *)
(*                                                                         *)
(* What is in identify messages and commands is left out, and messages of  *)
(* files (module Files).                                                   *)
(***************************************************************************)
EXTENDS Integers, Sequences

CONSTANT Instances \* commands and circumstances, and how many of them

Features == {"detach", "exec", "suspend", "lock", "destroy", "shutdown", \* commands
             "shell",    \* tmux -c
             "control", "windows",
             "signals",  \* SIGTERM and SIGHUP
             "kill",     \* the client or the server is killed
             "invalid",  \* another version, and messages that are refused
             \* What goes wrong, as does "suspend" with "windows" or "control":
             "continue"} \* SIGCONT to a client that is not stopped

ASSUME AttachAssumption ==
  \A i \in Instances : i.uses \subseteq Features /\ i.most \in Nat

VARIABLES proc,     \* the process of the client
          c,        \* the client in the server
          toClient, toServer,
          server,   \* the process of the server
          commands, \* what has been done so far
          instance

vars == <<proc, c, toClient, toServer, server, commands, instance>>

May(what) == what \in instance.uses
Windows == May("windows")
Control == May("control")
None == "none"
Ended == {"gone", "exec", "killed"}

\* ------------------------------------------------------------------- sending
\* proc_send: nothing is sent to a peer that is bad.
Tell(m) == toClient' = IF c.peer = "up" THEN Append(toClient, m) ELSE toClient
Say(m) == toServer' = Append(toServer, m)

\* -------------------------------------------------------------------- server
\* server_client_lost: the terminal is given up and the connection closed.
LostTo(why) == [c EXCEPT !.flags = @ \cup {"DEAD"}, !.tty = FALSE, !.peer = "closed", !.queue = 0, !.why = why]

\* proc_kill_peer: nothing more is sent or read, but the messages that have
\* been read with this one are still dispatched.
Killed == [c EXCEPT !.peer = "bad", !.more = TRUE]

\* server_client_dispatch for each message.
Identify ==
  /\ IF "IDENTIFIED" \in c.flags THEN c' = Killed
     ELSE c' = [c EXCEPT !.flags = @ \cup {"IDENTIFIED"}]
  /\ UNCHANGED toClient

Command ==
  /\ c' = IF "EXIT" \in c.flags THEN c ELSE [c EXCEPT !.queue = @ + 1]
  /\ UNCHANGED toClient

Shell == Tell("SHELL") /\ c' = Killed

\* Variant: the terminal stays open.
ExitingDraws == c' = [c EXCEPT !.session = FALSE, !.opened = FALSE] /\ Tell("EXITED")

Exiting == c' = [c EXCEPT !.session = FALSE, !.tty = FALSE, !.opened = FALSE] /\ Tell("EXITED")

\* MSG_WAKEUP and MSG_UNLOCK.
Wakeup ==
  /\ c' = IF "SUSPENDED" \in c.flags
          THEN [c EXCEPT !.flags = @ \ {"SUSPENDED"}, !.tty = c.session]
          ELSE c
  /\ UNCHANGED toClient

\* A message of another version is answered with MSG_VERSION, and the loop in
\* proc_event_cb left; one that is not as it should be makes the peer bad.
Refuse(m) ==
  IF m = "other version" THEN Tell("VERSION") /\ c' = [c EXCEPT !.peer = "bad", !.more = FALSE]
  ELSE UNCHANGED toClient /\ c' = Killed

ServerReceives ==
  /\ server = "up" /\ (c.peer = "up" \/ c.more) /\ toServer # <<>>
  /\ toServer' = Tail(toServer)
  /\ LET m == Head(toServer) IN
       CASE m = "IDENTIFY" -> Identify
         [] m = "COMMAND" -> Command
         [] m = "SHELL" -> Shell
         [] m = "EXITING" -> Exiting
         [] m \in {"WAKEUP", "UNLOCK"} -> Wakeup
         [] m = "RESIZE" -> UNCHANGED <<c, toClient>>
         [] OTHER -> Refuse(m)
  /\ UNCHANGED <<proc, server, commands, instance>>

\* No more has been read; until then the server does nothing else.
Dispatched ==
  /\ server = "up" /\ c.more /\ c' = [c EXCEPT !.more = FALSE]
  /\ UNCHANGED <<proc, toClient, toServer, server, commands, instance>>

\* proc_event_cb: the other end has gone, or a bad peer has been sent what was
\* left for it.
ServerLoses ==
  /\ server = "up" /\ ~c.more
  /\ \/ c.peer = "up" /\ toServer = <<>> /\ proc.at \in Ended /\ c' = LostTo("gone")
     \/ c.peer = "bad" /\ c' = LostTo("bad")
  /\ UNCHANGED <<proc, toClient, toServer, server, commands, instance>>

\* The command of the client and server_client_command_done after it. It shows
\* a session, if there is a terminal, or is done.
RunCommand ==
  /\ server = "up" /\ ~c.more /\ c.queue > 0 /\ "IDENTIFIED" \in c.flags /\ "DEAD" \notin c.flags
  /\ \/ \* cmd_attach_session
        /\ ~c.session /\ "EXIT" \notin c.flags
        /\ c' = [c EXCEPT !.queue = @ - 1, !.session = TRUE, !.tty = ~Control, !.opened = ~Control,
                          !.flags = @ \cup {"ATTACHED"}]
        /\ IF Control THEN UNCHANGED toClient ELSE Tell("READY")
     \/ /\ c' = [c EXCEPT !.queue = @ - 1,
                          !.flags = IF "ATTACHED" \in @ THEN @ ELSE @ \cup {"EXIT"}]
        /\ UNCHANGED toClient
  /\ UNCHANGED <<proc, toServer, server, commands, instance>>

\* server_client_check_exit.
CheckExit ==
  /\ server = "up" /\ ~c.more /\ "EXIT" \in c.flags /\ c.flags \cap {"DEAD", "EXITED"} = {}
  /\ c' = [c EXCEPT !.flags = @ \cup {"EXITED"}]
  /\ Tell(c.exit)
  /\ UNCHANGED <<proc, toServer, server, commands, instance>>

\* Commands of others on this client, and what a session that ends does to it.
Does(what) ==
  /\ server = "up" /\ ~c.more /\ May(what) /\ commands < instance.most
  /\ "DEAD" \notin c.flags
  /\ commands' = commands + 1
  /\ UNCHANGED <<proc, toServer, instance>>

\* server_client_detach, with and without -P.
Detach ==
  /\ Does("detach") /\ c.session /\ "EXIT" \notin c.flags
  /\ \E m \in {"DETACH", "DETACHKILL"} : c' = [c EXCEPT !.flags = @ \cup {"EXIT"}, !.exit = m]
  /\ UNCHANGED <<toClient, server>>

Exec == Does("exec") /\ c.session /\ Tell("EXEC") /\ UNCHANGED <<c, server>>

Suspend ==
  /\ Does("suspend") /\ c.session /\ c.flags \cap {"SUSPENDED", "EXIT"} = {}
  /\ c' = [c EXCEPT !.tty = FALSE, !.flags = @ \cup {"SUSPENDED"}]
  /\ Tell("SUSPEND") /\ UNCHANGED server

\* server_lock_client.
Lock ==
  /\ Does("lock") /\ c.session /\ ~Control /\ "SUSPENDED" \notin c.flags
  /\ c' = [c EXCEPT !.tty = FALSE, !.flags = @ \cup {"SUSPENDED"}]
  /\ Tell("LOCK") /\ UNCHANGED server

\* server_destroy_session with no other session to show.
Destroy ==
  /\ Does("destroy") /\ c.session
  /\ c' = [c EXCEPT !.session = FALSE, !.flags = @ \cup {"EXIT"}]
  /\ UNCHANGED <<toClient, server>>

\* server_shutdown.
Shutdown ==
  /\ Does("shutdown")
  /\ c' = IF "SUSPENDED" \in c.flags THEN [LostTo("suspended") EXCEPT !.session = FALSE]
          ELSE [c EXCEPT !.flags = @ \cup {"EXIT"}, !.exit = "SHUTDOWN", !.session = FALSE]
  /\ UNCHANGED <<toClient, server>>

\* server_loop returns 1 when all clients have gone.
ServerEnds ==
  /\ server = "up" /\ "DEAD" \in c.flags
  /\ server' = "gone"
  /\ UNCHANGED <<proc, c, toClient, toServer, commands, instance>>

\* -------------------------------------------------------------------- client
Reason(p, r) == [p EXCEPT !.reason = r]
\* proc_exit: what is to be sent is sent, and the loop ends. client_main then
\* executes a command if it was told to.
Exits(p) == [p EXCEPT !.at = IF p.exittype = "EXEC" THEN "exec" ELSE "gone"]

\* client_dispatch_wait.
Waiting(m) ==
  CASE m \in {"EXIT", "SHUTDOWN"} -> proc' = Exits([proc EXCEPT !.exitflag = TRUE]) /\ UNCHANGED toServer
    [] m = "READY" -> proc' = [proc EXCEPT !.at = "attached", !.ready = TRUE] /\ Say("RESIZE")
    [] m \in {"VERSION", "EXITED"} -> proc' = Exits(proc) /\ UNCHANGED toServer
    [] m = "SHELL" -> proc' = [proc EXCEPT !.at = "exec"] /\ UNCHANGED toServer
    [] m \in {"DETACH", "DETACHKILL"} -> Say("EXITING") /\ UNCHANGED proc
    [] OTHER -> UNCHANGED <<proc, toServer>>

\* client_dispatch_attached.
Attached(m) ==
  CASE m = "DETACH" -> proc' = [Reason(proc, "detached") EXCEPT !.exittype = m] /\ Say("EXITING")
    [] m = "DETACHKILL" -> proc' = [Reason(proc, "detached and SIGHUP") EXCEPT !.exittype = m] /\ Say("EXITING")
    [] m = "EXEC" -> proc' = [proc EXCEPT !.exittype = m] /\ Say("EXITING")
    [] m = "EXIT" -> /\ proc' = IF proc.reason = None THEN Reason(proc, "exited") ELSE proc
                     /\ Say("EXITING")
    [] m = "EXITED" -> proc' = Exits(proc) /\ UNCHANGED toServer
    [] m = "SHUTDOWN" -> proc' = Reason(proc, "server exited") /\ Say("EXITING")
    [] m = "SUSPEND" -> /\ proc' = IF Windows THEN proc ELSE [proc EXCEPT !.suspended = TRUE, !.at = "stopped"]
                        /\ UNCHANGED toServer
    [] m = "LOCK" -> proc' = [proc EXCEPT !.at = "locked"] /\ UNCHANGED toServer
    [] OTHER -> UNCHANGED <<proc, toServer>>

ClientReceives ==
  /\ toClient # <<>> /\ proc.at \in {"wait", "attached"}
  /\ toClient' = Tail(toClient)
  /\ IF proc.at = "wait" THEN Waiting(Head(toClient)) ELSE Attached(Head(toClient))
  /\ UNCHANGED <<c, server, commands, instance>>

\* The lock program ends.
Unlocks ==
  /\ proc.at = "locked"
  /\ proc' = [proc EXCEPT !.at = "attached"] /\ Say("UNLOCK")
  /\ UNCHANGED <<c, toClient, server, commands, instance>>

\* client_dispatch without a message: the server has closed the connection.
ClientLoses ==
  /\ proc.at \in {"wait", "attached"} /\ toClient = <<>> /\ (server # "up" \/ c.peer = "closed")
  /\ proc' = Exits(IF proc.exitflag THEN proc ELSE Reason(proc, "lost server"))
  /\ UNCHANGED <<c, toClient, toServer, server, commands, instance>>

\* client_signal. A process that is stopped gets its signals when it goes on.
Signal(s) ==
  /\ proc.at \in {"wait", "attached"} /\ s \in proc.signals
  /\ LET p == [proc EXCEPT !.signals = @ \ {s}] IN
       IF proc.at = "wait"
       THEN proc' = (IF s = "CONT" THEN p ELSE Exits(p)) /\ UNCHANGED toServer
       ELSE CASE s = "HUP" -> proc' = Reason(p, "lost tty") /\ Say("EXITING")
              [] s = "TERM" -> /\ proc' = IF p.suspended THEN [p EXCEPT !.quiet = TRUE] ELSE Reason(p, "terminated")
                               /\ Say("EXITING")
              [] s = "CONT" -> proc' = [p EXCEPT !.suspended = FALSE] /\ Say("WAKEUP")
  /\ UNCHANGED <<c, toClient, server, commands, instance>>

\* kill, and the job control of the shell.
Sent(s) ==
  /\ proc.at \notin Ended /\ commands < instance.most
  /\ commands' = commands + 1
  /\ s # "CONT" => May("signals") /\ ~Windows
  /\ s = "CONT" => proc.at = "stopped" \/ May("continue")
  /\ proc' = [proc EXCEPT !.signals = @ \cup {s},
                          !.at = IF s = "CONT" /\ @ = "stopped" THEN "attached" ELSE @]
  /\ UNCHANGED <<c, toClient, toServer, server, instance>>
Continues == /\ proc.at = "stopped"
             /\ proc' = [proc EXCEPT !.signals = @ \cup {"CONT"}, !.at = "attached"]
             /\ UNCHANGED <<c, toClient, toServer, server, commands, instance>>

KillClient ==
  /\ May("kill") /\ proc.at \notin Ended
  /\ proc' = [proc EXCEPT !.at = "killed"]
  /\ UNCHANGED <<c, toClient, toServer, server, commands, instance>>
KillServer ==
  /\ May("kill") /\ server = "up"
  /\ server' = "killed"
  /\ UNCHANGED <<proc, c, toClient, toServer, commands, instance>>

\* client_main: who the client is and what it wants.
Greetings ==
  {<<"IDENTIFY", IF May("shell") THEN "SHELL" ELSE "COMMAND">>}
  \cup (IF May("invalid") THEN {<<"other version", "COMMAND">>, <<"IDENTIFY", "IDENTIFY", "COMMAND">>,
                                <<"IDENTIFY", "COMMAND", "invalid">>} ELSE {})

Init ==
  /\ instance \in Instances
  /\ proc = [at |-> "wait", ready |-> FALSE, reason |-> None, exittype |-> None, exitflag |-> FALSE, suspended |-> FALSE, quiet |-> FALSE,
           signals |-> {}]
  /\ c = [flags |-> {}, session |-> FALSE, tty |-> FALSE, opened |-> FALSE, exit |-> "EXIT", peer |-> "up", more |-> FALSE,
          queue |-> 0, why |-> None]
  /\ toClient = <<>> /\ toServer \in Greetings
  /\ server = "up" /\ commands = 0

Server == ServerReceives \/ Dispatched \/ ServerLoses \/ RunCommand \/ CheckExit
Client == ClientReceives \/ ClientLoses \/ Unlocks \/ \E s \in {"HUP", "TERM", "CONT"} : Signal(s)
Next ==
  \/ Server \/ ServerEnds \/ Client \/ Continues
  \/ Detach \/ Exec \/ Suspend \/ Lock \/ Destroy \/ Shutdown
  \/ \E s \in {"HUP", "TERM", "CONT"} : Sent(s)
  \/ KillClient \/ KillServer

Spec == Init /\ [][Next]_vars

\* ---------------------------------------------------------------- properties
\* The server does not draw while the shell or a lock program has the
\* terminal, nor when the client has ended.
TerminalIsGivenUp ==
  server = "up" /\ c.tty =>
    /\ proc.at \notin {"stopped", "locked"}
    /\ proc.at \in {"gone", "exec"} => proc.exittype = None /\ proc.reason = None

\* A client that is suspended will tell the server when it is not any more, or
\* the server is about to lose it.
SuspendedComesBack ==
  server = "up" /\ "SUSPENDED" \in c.flags /\ c.peer = "up" =>
    \/ proc.at \in {"stopped", "locked"} \cup Ended \/ "CONT" \in proc.signals
    \/ \E i \in DOMAIN toClient : toClient[i] \in {"SUSPEND", "LOCK"}
    \/ \E i \in DOMAIN toServer : toServer[i] \in {"WAKEUP", "UNLOCK"}

\* A client is not told that the server was lost when it was not, and one that
\* has had the terminal has a reason to end, but for one that is terminated
\* while it is suspended.
EndsForAReason ==
  /\ proc.reason = "lost server" =>
       server = "killed" \/ c.why \in {"bad", "suspended"} \/ May("shell")
  /\ proc.at = "gone" /\ proc.ready /\ proc.reason = None => proc.quiet

AttachSound == TerminalIsGivenUp /\ SuspendedComesBack /\ EndsForAReason

\* A client that is to go goes.
ClientEnds == "EXIT" \in c.flags ~> proc.at \in Ended \cup {"stopped", "locked"} \/ server # "up"
=============================================================================
