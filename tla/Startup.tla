------------------------------ MODULE Startup ------------------------------
(***************************************************************************)
(* How clients find a server or start one (client.c, server.c, proc.c,     *)
(* compat/win32-ipc.c), and how a server comes and goes.                   *)
(*                                                                         *)
(* Every process takes its steps on its own; what they share is the name   *)
(* of the socket in the file system (on Windows a file with the port, the  *)
(* process and a token) and a lock: flock on a second file, which the      *)
(* server inherits and removes, or on Windows a mutex of the client. A     *)
(* file that is removed is still locked by who has it open, and the next   *)
(* who opens the name gets another.                                        *)
(***************************************************************************)
EXTENDS Integers, FiniteSets, Sequences

CONSTANT Instances \* circumstances, and how many clients may start a server and may not

Features == {"windows",
             "kill",      \* processes are killed before they are ready
             "fails",     \* descriptors, sockets and processes run out
             "recreate",  \* SIGUSR1
             \* What goes wrong, as does "fails" with three clients and
             \* "recreate" with two that may start a server:
             "short",     \* servers end while clients start
             "no lock",   \* the lock file cannot be opened
             "slow",      \* longer than the timeouts of Windows
             "orphan",    \* on Windows, a client is killed while its server starts
             "pid"}       \* the number of a killed server is used again

ASSUME StartupAssumption ==
  \A i \in Instances : i.uses \subseteq Features /\ i.start \in Nat /\ i.others \in Nat

VARIABLES cl,       \* the processes of clients
          sv,       \* servers in the order they were started
          name,     \* the socket that the name leads to, or 0
          sockets,  \* sockets so far
          lockname, \* the lock file that its name leads to, or 0
          lockfiles, \* lock files so far
          uses      \* the instance

vars == <<cl, sv, name, sockets, lockname, lockfiles, uses>>

May(what) == what \in uses
Windows == May("windows")
Clients == DOMAIN cl
Servers == DOMAIN sv
Alive(s) == sv[s].at \notin {"gone", "killed"}
\* A lock that a client or the server it has started still has open.
Held(f) == \/ \E c \in Clients : cl[c].lock = f
           \/ \E s \in Servers : Alive(s) /\ sv[s].lock = f
Mutex == \A c \in Clients : ~cl[c].mutex
Listener(k) == {s \in Servers : Alive(s) /\ k \in sv[s].listening}
Reachable == name # 0 /\ Listener(name) # {}

At(c, at) == cl' = [cl EXCEPT ![c].at = at]
\* The process of a client ends and leaves its lock or mutex: it has been
\* "served", has "lost" its server, has "failed" to find one or was "killed".
Over == {"served", "lost", "failed", "killed"}
Leaves(c, at) ==
  IF cl[c].at = "killed" THEN UNCHANGED cl
  ELSE cl' = [cl EXCEPT ![c] = [@ EXCEPT !.at = at, !.lock = 0, !.open = 0, !.mutex = FALSE]]
Fails(c) == Leaves(c, "failed")
Server(s, v) == sv' = [sv EXCEPT ![s] = v]

\* connect() or win32_ipc_connect: the client is in the list of the listening
\* socket. A client that holds the lock leaves it.
Joins(c) ==
  /\ Reachable
  /\ LET s == CHOOSE x \in Listener(name) : TRUE IN
       /\ Server(s, [sv[s] EXCEPT !.backlog = @ \cup {c}])
       /\ cl' = [cl EXCEPT ![c] = [@ EXCEPT !.at = "joined", !.lock = 0, !.mutex = FALSE, !.server = s]]
  /\ UNCHANGED <<name, sockets, lockname, lockfiles, uses>>

\* ------------------------------------------------------------- clients, Unix
TryConnect(c) ==
  /\ cl[c].at = "connect"
  /\ \/ Joins(c)
     \/ /\ ~Reachable
        /\ IF ~cl[c].start THEN Fails(c)
           ELSE At(c, IF Windows THEN "mutex" ELSE IF cl[c].locked THEN "unlink" ELSE "open")
        /\ UNCHANGED <<sv, name, sockets, lockname, lockfiles, uses>>

\* client_get_lock.
OpenLock(c) ==
  /\ cl[c].at = "open"
  /\ \/ /\ lockname' = IF lockname = 0 THEN lockfiles + 1 ELSE lockname
        /\ lockfiles' = IF lockname = 0 THEN lockfiles + 1 ELSE lockfiles
        /\ cl' = [cl EXCEPT ![c] = [@ EXCEPT !.at = "lock", !.open = lockname']]
     \/ /\ May("no lock")
        /\ cl' = [cl EXCEPT ![c] = [@ EXCEPT !.at = "connect", !.locked = TRUE]]
        /\ UNCHANGED <<lockname, lockfiles>>
  /\ UNCHANGED <<sv, name, sockets, uses>>

\* Variant: nobody looks for a server again.
TryLockOnce(c) ==
  /\ cl[c].at = "lock"
  /\ \/ /\ ~Held(cl[c].open)
        /\ cl' = [cl EXCEPT ![c] = [@ EXCEPT !.at = "unlink", !.lock = cl[c].open, !.open = 0, !.locked = TRUE]]
     \/ Held(cl[c].open) /\ At(c, "wait")
  /\ UNCHANGED <<sv, name, sockets, lockname, lockfiles, uses>>

TryLock(c) ==
  /\ cl[c].at = "lock"
  /\ \/ /\ ~Held(cl[c].open)
        /\ cl' = [cl EXCEPT ![c] = [@ EXCEPT !.at = "connect", !.lock = cl[c].open, !.open = 0, !.locked = TRUE]]
     \/ Held(cl[c].open) /\ At(c, "wait")
  /\ UNCHANGED <<sv, name, sockets, lockname, lockfiles, uses>>

\* flock returns; the lock is given up at once and everything tried again.
Waited(c) ==
  /\ cl[c].at = "wait" /\ ~Held(cl[c].open)
  /\ cl' = [cl EXCEPT ![c] = [@ EXCEPT !.at = "connect", !.open = 0]]
  /\ UNCHANGED <<sv, name, sockets, lockname, lockfiles, uses>>

Unlink(c) ==
  /\ cl[c].at = "unlink"
  /\ \/ name' = (IF cl[c].lock # 0 THEN 0 ELSE name) /\ At(c, "start")
     \/ May("fails") /\ cl[c].lock # 0 /\ Fails(c) /\ UNCHANGED name
  /\ UNCHANGED <<sv, sockets, lockname, lockfiles, uses>>

NewServer(c) ==
  Append(sv, [at |-> "begin", lock |-> cl[c].lock, client |-> IF Windows THEN 0 ELSE c, listening |-> {},
              backlog |-> {}, pending |-> {}, clients |-> {}, sessions |-> FALSE, exit |-> FALSE,
              accept |-> "read", new |-> 0])

\* proc_fork_and_daemon in the parent: the client has a socket of its own.
Fork(c) ==
  /\ cl[c].at = "start" /\ ~Windows
  /\ \/ /\ sv' = NewServer(c)
        /\ cl' = [cl EXCEPT ![c] = [@ EXCEPT !.at = "forked", !.server = Len(sv) + 1]]
     \/ May("fails") /\ Fails(c) /\ UNCHANGED sv
  /\ UNCHANGED <<name, sockets, lockname, lockfiles, uses>>

CloseLock(c) ==
  /\ cl[c].at = "forked"
  /\ cl' = [cl EXCEPT ![c] = [@ EXCEPT !.at = "joined", !.lock = 0]]
  /\ UNCHANGED <<sv, name, sockets, lockname, lockfiles, uses>>

\* ---------------------------------------------------------- clients, Windows
\* client_win32_lock_start_server. A mutex whose owner has gone is taken too.
TakeMutex(c) ==
  /\ cl[c].at = "mutex"
  /\ \/ Mutex /\ cl' = [cl EXCEPT ![c] = [@ EXCEPT !.at = "again", !.mutex = TRUE]]
     \/ ~Mutex /\ May("slow") /\ Fails(c)
  /\ UNCHANGED <<sv, name, sockets, lockname, lockfiles, uses>>

\* win32_ipc_endpoint_owner_alive: the servers whose process the endpoint
\* names, as long as there is that process or another one of its number.
Owners(k) == {s \in Servers : sv[s].new = k /\ (Alive(s) \/ May("pid"))}

\* A client with the mutex is turned away where a process is there that does
\* not listen, or the endpoint cannot be read.
ConnectAgain(c) ==
  /\ cl[c].at = "again"
  /\ \/ Joins(c)
     \/ /\ ~Reachable
        /\ \/ /\ name # 0
              /\ \E s \in Owners(name) :
                   IF Alive(s) THEN cl' = [cl EXCEPT ![c] = [@ EXCEPT !.at = "failed", !.mutex = FALSE, !.server = s]]
                   ELSE Fails(c)
           \/ name # 0 /\ May("fails") /\ Fails(c)
           \/ (name = 0 \/ Owners(name) = {}) /\ At(c, "remove")
        /\ UNCHANGED <<sv, name, sockets, lockname, lockfiles, uses>>

RemoveEndpoint(c) ==
  /\ cl[c].at = "remove"
  /\ name' = 0 /\ At(c, "start")
  /\ UNCHANGED <<sv, sockets, lockname, lockfiles, uses>>

StartServer(c) ==
  /\ cl[c].at = "start" /\ Windows
  /\ \/ /\ sv' = NewServer(c)
        /\ cl' = [cl EXCEPT ![c] = [@ EXCEPT !.at = "retry", !.server = Len(sv) + 1]]
     \/ May("fails") /\ Fails(c) /\ UNCHANGED sv
  /\ UNCHANGED <<name, sockets, lockname, lockfiles, uses>>

\* client_win32_retry_connect: until the process has gone or for five seconds.
Retry(c) ==
  /\ cl[c].at = "retry"
  /\ \/ Alive(cl[c].server) /\ Joins(c)
     \/ /\ ~Alive(cl[c].server) \/ (~Reachable /\ May("slow"))
        /\ Fails(c)
        /\ UNCHANGED <<sv, name, sockets, lockname, lockfiles, uses>>

\* ------------------------------------------------------------------- servers
\* On Windows the new process is tmux -D, which first looks for a server, and
\* is only a client if there is one.
Begin(s) ==
  /\ sv[s].at = "begin"
  /\ IF Windows THEN /\ Server(s, [sv[s] EXCEPT !.at = IF Reachable THEN "gone" ELSE "bind"])
                     /\ UNCHANGED name
     ELSE Server(s, [sv[s] EXCEPT !.at = "bind"]) /\ name' = 0
  /\ UNCHANGED <<cl, sockets, lockname, lockfiles, uses>>

\* server_create_socket, win32_ipc_listen: a socket that has a name before it
\* listens, on Windows one that listens before it has a name.
Bind(s) ==
  /\ sv[s].at = "bind"
  /\ sockets' = sockets + 1
  /\ Server(s, [sv[s] EXCEPT !.at = "listen", !.new = sockets + 1,
                             !.listening = IF Windows THEN {sockets + 1} ELSE @])
  /\ name' = IF Windows THEN name ELSE sockets + 1
  /\ UNCHANGED <<cl, lockname, lockfiles, uses>>

\* server_start after server_create_socket: the first client is the one that
\* has forked it, and the lock file goes, by its name, and is closed.
Listen(s) ==
  /\ sv[s].at = "listen"
  /\ Server(s, [sv[s] EXCEPT !.at = IF Windows THEN "running" ELSE "unlock",
                             !.listening = {sv[s].new},
                             !.clients = IF sv[s].client \in Clients THEN {sv[s].client} ELSE {}])
  /\ name' = IF Windows THEN sv[s].new ELSE name
  /\ UNCHANGED <<cl, sockets, lockname, lockfiles, uses>>

UnlinkLock(s) ==
  /\ sv[s].at = "unlock"
  /\ lockname' = IF sv[s].lock # 0 THEN 0 ELSE lockname
  /\ Server(s, [sv[s] EXCEPT !.at = "running", !.lock = 0])
  /\ UNCHANGED <<cl, name, sockets, lockfiles, uses>>

\* No socket: the first client is told so and the server goes on without one,
\* and ends with it; on Windows it ends at once and removes the endpoint.
CannotListen(s) ==
  /\ sv[s].at \in {"bind", "listen"} /\ May("fails")
  /\ Server(s, [sv[s] EXCEPT !.at = IF Windows THEN "gone" ELSE "unlock", !.listening = {}, !.exit = TRUE,
                             !.clients = IF sv[s].client \in Clients THEN {sv[s].client} ELSE {}])
  /\ name' = IF Windows /\ sv[s].at = "listen" THEN 0 ELSE name
  /\ UNCHANGED <<cl, sockets, lockname, lockfiles, uses>>

\* server_accept. Unix turns reading off for a second without descriptors.
Accept(s) ==
  /\ sv[s].at = "running" /\ sv[s].accept = "read"
  /\ \E c \in sv[s].backlog :
       IF Windows
       THEN /\ Server(s, [sv[s] EXCEPT !.backlog = @ \ {c}, !.pending = @ \cup {c}])
            /\ UNCHANGED cl
       ELSE \/ /\ Server(s, [sv[s] EXCEPT !.backlog = @ \ {c}, !.clients = IF sv[s].exit THEN @ ELSE @ \cup {c}])
               /\ IF sv[s].exit THEN Leaves(c, "lost") ELSE UNCHANGED cl
            \/ /\ May("fails") /\ Server(s, [sv[s] EXCEPT !.accept = "timer"])
               /\ UNCHANGED cl
  /\ UNCHANGED <<name, sockets, lockname, lockfiles, uses>>

AcceptTimer(s) ==
  /\ sv[s].at = "running" /\ sv[s].accept = "timer"
  /\ Server(s, [sv[s] EXCEPT !.accept = "read"])
  /\ UNCHANGED <<cl, name, sockets, lockname, lockfiles, uses>>

\* server_accept_handshake: the token has arrived, or it will not any more
\* (win32_ipc_pending_read_cb, win32_ipc_pending_timer_cb).
Handshake(s) ==
  /\ sv[s].at = "running"
  /\ \E c \in sv[s].pending :
       LET welcome == cl[c].at = "joined" /\ ~sv[s].exit IN
       /\ Server(s, [sv[s] EXCEPT !.pending = @ \ {c}, !.clients = IF welcome THEN @ \cup {c} ELSE @])
       /\ IF welcome THEN UNCHANGED cl ELSE Leaves(c, "lost")
  /\ UNCHANGED <<name, sockets, lockname, lockfiles, uses>>

\* Commands of a client, which may start a session or end the server, and its
\* end; one that is told to exit goes without them.
Served(s) ==
  /\ sv[s].at = "running"
  /\ \E c \in sv[s].clients, new, kill \in BOOLEAN :
         /\ cl[c].at \in {"joined", "killed"} /\ Leaves(c, "served")
         /\ (new \/ kill) => cl[c].at = "joined" /\ ~sv[s].exit
         /\ kill => May("short")
         /\ Server(s, [sv[s] EXCEPT !.clients = @ \ {c}, !.sessions = (@ \/ new) /\ ~kill, !.exit = @ \/ kill])
  /\ UNCHANGED <<name, sockets, lockname, lockfiles, uses>>

SessionsEnd(s) ==
  /\ sv[s].at = "running" /\ sv[s].sessions /\ May("short")
  /\ Server(s, [sv[s] EXCEPT !.sessions = FALSE])
  /\ UNCHANGED <<cl, name, sockets, lockname, lockfiles, uses>>

\* server_loop returns 1. With tmux -D the option exit-empty is off. On
\* Windows win32_ipc_listener_close closes the socket and then removes the
\* endpoint.
Ends(s) ==
  /\ sv[s].at = "running" /\ sv[s].clients = {}
  /\ sv[s].exit \/ (~Windows /\ ~sv[s].sessions /\ May("short"))
  /\ Server(s, [sv[s] EXCEPT !.at = IF Windows THEN "closing" ELSE "ending",
                             !.listening = IF Windows THEN {} ELSE @])
  /\ UNCHANGED <<cl, name, sockets, lockname, lockfiles, uses>>

DeletesEndpoint(s) ==
  /\ sv[s].at = "closing"
  /\ name' = 0 /\ Server(s, [sv[s] EXCEPT !.at = "ending"])
  /\ UNCHANGED <<cl, sockets, lockname, lockfiles, uses>>

\* The process is gone and with it every connection.
Exits(s) ==
  /\ sv[s].at = "ending"
  /\ Server(s, [sv[s] EXCEPT !.at = "gone"])
  /\ UNCHANGED <<cl, name, sockets, lockname, lockfiles, uses>>

\* SIGUSR1: the socket is made again and the old one closed.
Recreate(s) ==
  /\ sv[s].at = "running" /\ May("recreate") /\ ~Windows /\ sockets < Cardinality(Clients)
  /\ Server(s, [sv[s] EXCEPT !.at = "recreate"])
  /\ name' = 0
  /\ UNCHANGED <<cl, sockets, lockname, lockfiles, uses>>

Recreated(s) ==
  /\ sv[s].at = "recreate"
  /\ sockets' = sockets + 1 /\ name' = sockets + 1
  /\ Server(s, [sv[s] EXCEPT !.at = "running", !.listening = {sockets + 1},
                             !.backlog = {}, !.new = sockets + 1])
  /\ UNCHANGED <<cl, lockname, lockfiles, uses>>

\* A client finds that its server has gone, or has closed the socket that it
\* was waiting to be accepted from.
LostServer(c) ==
  /\ cl[c].at = "joined"
  /\ LET s == cl[c].server IN
       ~Alive(s) \/ (sv[s].at = "running" /\ c \notin sv[s].backlog \cup sv[s].pending \cup sv[s].clients)
  /\ Leaves(c, "lost")
  /\ UNCHANGED <<sv, name, sockets, lockname, lockfiles, uses>>

\* -------------------------------------------------------------------- kill -9
KillClient(c) ==
  /\ May("kill") /\ cl[c].at \notin Over
  /\ (Windows /\ cl[c].at = "retry") => May("orphan")
  /\ Leaves(c, "killed")
  /\ UNCHANGED <<sv, name, sockets, lockname, lockfiles, uses>>

KillServer(s) ==
  /\ May("kill") /\ Alive(s) /\ (sv[s].at = "running" => May("short"))
  /\ Server(s, [sv[s] EXCEPT !.at = "killed", !.listening = IF Windows THEN @ ELSE {}])
  /\ UNCHANGED <<cl, name, sockets, lockname, lockfiles, uses>>

Init ==
  /\ \E i \in Instances :
       /\ uses = i.uses
       /\ cl = [c \in 1..i.start + i.others |->
                 [at |-> "connect", start |-> c <= i.start, locked |-> FALSE, lock |-> 0, open |-> 0,
                  mutex |-> FALSE, server |-> 0]]
  /\ sv = <<>> /\ name = 0 /\ sockets = 0 /\ lockname = 0 /\ lockfiles = 0

ClientStep(c) ==
  \/ TryConnect(c) \/ OpenLock(c) \/ TryLock(c) \/ Waited(c) \/ Unlink(c) \/ Fork(c) \/ CloseLock(c)
  \/ TakeMutex(c) \/ ConnectAgain(c) \/ RemoveEndpoint(c) \/ StartServer(c) \/ Retry(c) \/ LostServer(c)
ServerStep(s) ==
  \/ Begin(s) \/ Bind(s) \/ Listen(s) \/ UnlinkLock(s) \/ CannotListen(s)
  \/ Accept(s) \/ AcceptTimer(s) \/ Handshake(s) \/ Served(s)
  \/ Ends(s) \/ DeletesEndpoint(s) \/ Exits(s) \/ Recreated(s)

Next ==
  \/ \E c \in Clients : ClientStep(c) \/ KillClient(c)
  \/ \E s \in Servers : ServerStep(s) \/ SessionsEnd(s) \/ Recreate(s) \/ KillServer(s)

Spec == Init /\ [][Next]_vars

\* ---------------------------------------------------------------- properties
\* A server that runs can be reached by its name.
NoOrphans == \A s \in Servers : sv[s].at = "running" /\ ~sv[s].exit => name \in sv[s].listening

\* One process at a time, with the lock, is about to replace the socket.
Starters ==
  {<<"client", c>> : c \in {x \in Clients : cl[x].at \in {"unlink", "remove", "start"} /\ (cl[x].lock # 0 \/ cl[x].mutex)}}
  \cup {<<"server", s>> : s \in {x \in Servers : sv[x].at \in {"begin", "bind", "listen"}}}
OneStarter == Cardinality(Starters) <= 1

\* A client that may start a server is not told that there is none, unless the
\* one it has started did not come up, or that one or the one whose endpoint it
\* found was ending by then.
NeverTurnedAway ==
  \A c \in Clients : cl[c].at = "failed" /\ cl[c].start =>
    \/ uses \cap {"fails", "slow"} # {}
    \/ cl[c].server # 0 /\ sv[cl[c].server].at \in {"closing", "ending", "gone", "killed"}

StartSound == NoOrphans /\ OneStarter /\ NeverTurnedAway
=============================================================================
