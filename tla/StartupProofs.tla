---------------------------- MODULE StartupProofs ----------------------------
(***************************************************************************)
(* Clients find a server or start one, any number of them (module          *)
(* Startup): in the instances that leave out what is known to go wrong,    *)
(* whatever is killed in the middle of it, one process at a time replaces  *)
(* the socket and no server that runs is out of reach.                     *)
(***************************************************************************)
EXTENDS Startup, FiniteSetTheorems, TLAPS

(***************************************************************************)
(* What is known to go wrong, apart from "fails" and "recreate" in small   *)
(* numbers: the lock file is removed by its name, the mutex goes with the  *)
(* client that has it. The rest of the features belong to the other system.*)
(***************************************************************************)
Calm == IF Windows THEN uses \cap {"slow", "orphan", "pid"} = {}
        ELSE uses \cap {"fails", "recreate", "short", "no lock"} = {}

-----------------------------------------------------------------------------
(***************************************************************************)
(* The invariant.                                                          *)
(***************************************************************************)
ClientPlaces ==
  Over \cup {"connect", "joined"}                                \* on both systems
       \cup {"open", "lock", "wait", "unlink", "start", "forked"} \* with the lock
       \cup {"mutex", "again", "remove", "retry"}                 \* with the mutex
ClientRecord ==
  [at : ClientPlaces, start : BOOLEAN, locked : BOOLEAN, lock : Nat, open : Nat, mutex : BOOLEAN,
   server : Nat]
Starting == {"begin", "bind", "listen"}
Past == {"closing", "ending", "gone", "killed"}
ServerPlaces == Starting \cup {"unlock", "running", "recreate"} \cup Past
ServerRecord ==
  [at : ServerPlaces, lock : Nat, client : Nat, listening : SUBSET Nat, backlog : SUBSET Nat,
   pending : SUBSET Nat, clients : SUBSET Nat, sessions : BOOLEAN, exit : BOOLEAN,
   accept : {"read", "timer"}, new : Nat]

Typed ==
  /\ cl \in [Clients -> ClientRecord] /\ Clients \subseteq Nat \ {0}
  /\ sv \in Seq(ServerRecord)
  /\ name \in Nat /\ sockets \in Nat /\ lockname \in Nat /\ lockfiles \in Nat

\* A client knows a server that was started, and who waits at a server or is
\* served by it has joined it and has left all else.
Joined(c) == c \in Clients /\ cl[c].at \in {"joined"} \cup Over
Forked(c) == c \in Clients /\ cl[c].at = "forked"
Connected ==
  /\ \A c \in Clients :
       /\ cl[c].server # 0 => cl[c].server \in Servers
       /\ Joined(c) => cl[c].lock = 0 /\ ~cl[c].mutex
  /\ \A s \in Servers :
       /\ \A c \in sv[s].backlog \cup sv[s].pending : Joined(c)
       /\ \A c \in sv[s].clients : Joined(c) \/ Forked(c)
       /\ sv[s].client \in Clients => Joined(sv[s].client) \/ Forked(sv[s].client)

\* On Unix: where clients and servers may be, and the locks they have then.
UnixClients ==
  \A c \in Clients :
    /\ cl[c].at \in Over \cup {"connect", "open", "lock", "wait", "unlink", "start", "forked", "joined"}
    /\ ~cl[c].mutex
    /\ cl[c].at = "connect" => (cl[c].locked <=> cl[c].lock # 0)
    /\ cl[c].at \in {"unlink", "start", "forked"} => cl[c].lock # 0
    /\ cl[c].at \in {"open", "lock", "wait"} => cl[c].lock = 0 /\ ~cl[c].locked
    /\ cl[c].at \in {"lock", "wait"} => cl[c].open # 0
UnixServers ==
  \A s \in Servers :
    /\ sv[s].at \in Starting \cup {"unlock", "running", "killed"} /\ ~sv[s].exit
    /\ sv[s].at \in Starting \cup {"unlock"} => sv[s].lock # 0
    /\ sv[s].at \in {"listen", "unlock", "running"} => name = sv[s].new /\ name # 0
    /\ sv[s].at \in {"unlock", "running"} => sv[s].listening = {sv[s].new}

\* As long as no server has come up there is one lock file, and who has its
\* lock is one client, or one server with the client that has forked it.
OneLock ==
  /\ lockfiles \in 0..1 /\ lockname = lockfiles
  /\ \A c \in Clients : cl[c].open \in 0..lockfiles /\ cl[c].lock \in 0..lockfiles
  /\ \A s \in Servers : sv[s].lock \in 0..lockfiles
OneHolder ==
  /\ \A c, d \in Clients : cl[c].lock # 0 /\ cl[d].lock # 0 => c = d
  /\ \A s, t \in Servers : Alive(s) /\ Alive(t) => s = t
  /\ \A c \in Clients, s \in Servers : cl[c].lock # 0 /\ Alive(s) => cl[c].at = "forked"
Before == OneLock /\ OneHolder /\ \A s \in Servers : sv[s].at # "running"

\* Once one has, nobody who has a lock, of whichever file, replaces its socket.
After ==
  /\ \E s \in Servers : sv[s].at = "running"
  /\ \A c \in Clients : cl[c].at \notin {"unlink", "start"}
  /\ \A s \in Servers : sv[s].at \in {"running", "killed"}

OnUnix == UnixClients /\ UnixServers /\ (Before \/ After)

\* On Windows: the mutex is the client's from before it looks for a server
\* again until its own is found.
Busy(s) == sv[s].at \in Starting \cup {"running", "closing"}
WindowsClients ==
  \A c \in Clients :
    /\ cl[c].at \in Over \cup {"connect", "mutex", "again", "remove", "start", "retry", "joined"}
    /\ cl[c].mutex <=> cl[c].at \in {"again", "remove", "start", "retry"}
    /\ cl[c].lock = 0
    /\ cl[c].at = "retry" => cl[c].server # 0
    /\ cl[c].at = "start" => name = 0
    /\ cl[c].at \in {"remove", "start"} => \A s \in Servers : ~Busy(s)
WindowsServers ==
  \A s \in Servers :
    /\ sv[s].at \in Starting \cup {"running"} \cup Past
    /\ sv[s].at \in Starting =>
         name = 0 /\ \E c \in Clients : cl[c].at = "retry" /\ cl[c].server = s
    /\ sv[s].at = "listen" => sv[s].new # 0
    /\ sv[s].at = "running" => sv[s].listening = {name}
    /\ sv[s].at \in {"running", "closing"} => name # 0 /\ sv[s].new = name
OneMutex == \A c, d \in Clients : cl[c].mutex /\ cl[d].mutex => c = d
OneServer == \A s, t \in Servers : Busy(s) /\ Busy(t) => s = t

OnWindows == WindowsClients /\ WindowsServers /\ OneMutex /\ OneServer

SInv ==
  /\ Typed /\ Connected /\ NeverTurnedAway /\ Calm
  /\ IF Windows THEN OnWindows ELSE OnUnix

-----------------------------------------------------------------------------
(***************************************************************************)
(* What a step changes.                                                    *)
(***************************************************************************)
\* One client changes, or one server, or a server is added.
ClientBecomes(c, r) ==
  /\ cl' \in [Clients -> ClientRecord] /\ Clients' = Clients
  /\ cl'[c] = r /\ \A d \in Clients \ {c} : cl'[d] = cl[d]
ServerBecomes(s, v) ==
  /\ sv' \in Seq(ServerRecord) /\ Servers' = Servers
  /\ sv'[s] = v /\ \A t \in Servers \ {s} : sv'[t] = sv[t]
ServerAdded(v) ==
  /\ sv' \in Seq(ServerRecord) /\ Servers' = Servers \cup {Len(sv) + 1}
  /\ Len(sv) + 1 \in Nat /\ Len(sv) + 1 \notin Servers /\ Len(sv) + 1 # 0
  /\ sv'[Len(sv) + 1] = v /\ \A t \in Servers : sv'[t] = sv[t]

LEMMA ClientSet ==
  ASSUME Typed, NEW c \in Clients, NEW r \in ClientRecord, cl' = [cl EXCEPT ![c] = r]
  PROVE  ClientBecomes(c, r)
  BY DEF Typed, Clients, ClientBecomes

LEMMA ServerSet ==
  ASSUME Typed, NEW s \in Servers, NEW v \in ServerRecord, sv' = [sv EXCEPT ![s] = v]
  PROVE  ServerBecomes(s, v)
  BY DEF Typed, Servers, ServerBecomes

LEMMA ServerNew ==
  ASSUME Typed, NEW v \in ServerRecord, sv' = Append(sv, v)
  PROVE  ServerAdded(v)
<1>1. sv \in Seq(ServerRecord) /\ Servers = 1..Len(sv) /\ Len(sv) \in Nat
  BY DEF Typed, Servers
<1>2. sv' \in Seq(ServerRecord) /\ Len(sv') = Len(sv) + 1 /\ sv'[Len(sv) + 1] = v
  BY <1>1
<1>3. \A t \in 1..Len(sv) : sv'[t] = sv[t]
  BY <1>1
<1>4. Servers' = 1..Len(sv) + 1
  BY <1>2 DEF Servers
<1> QED
  BY <1>1, <1>2, <1>3, <1>4 DEF ServerAdded

LEMMA Records ==
  ASSUME Typed
  PROVE  /\ \A c \in Clients : cl[c] \in ClientRecord /\ c \in Nat /\ c # 0
         /\ \A s \in Servers : sv[s] \in ServerRecord /\ s \in Nat /\ s # 0
  BY DEF Typed, Servers, Clients

-----------------------------------------------------------------------------
(***************************************************************************)
(* Steps in which servers stay as they are, but for who waits there and is *)
(* served, and clients stay or leave.                                      *)
(***************************************************************************)
SamePlaces ==
  /\ Servers' = Servers
  /\ \A s \in Servers :
       /\ sv'[s].at = sv[s].at /\ sv'[s].lock = sv[s].lock /\ sv'[s].new = sv[s].new
       /\ sv'[s].listening = sv[s].listening /\ sv'[s].client = sv[s].client
       /\ ~Windows => sv'[s].exit = sv[s].exit
SameNames == name' = name /\ sockets' = sockets /\ lockname' = lockname /\ lockfiles' = lockfiles /\ uses' = uses

\* It has joined a server or is over, and holds nothing any more.
Settles(c) ==
  /\ cl'[c].at \in {"joined"} \cup Over /\ cl'[c].lock = 0 /\ ~cl'[c].mutex
  /\ cl'[c].open \in {0, cl[c].open} /\ (cl'[c].server # 0 => cl'[c].server \in Servers)
  /\ cl'[c].at = "failed" => uses \cap {"fails", "slow"} # {} \/ ~cl'[c].start
                             \/ (cl'[c].server # 0 /\ sv[cl'[c].server].at \in Past)
\* On Windows nobody leaves a server that is starting.
LeavesNobody(c) ==
  Windows /\ cl[c].at = "retry" => \A s \in Servers : cl[c].server = s => sv[s].at \notin Starting
QuietClients ==
  /\ Clients' = Clients
  /\ \A c \in Clients : cl'[c] = cl[c] \/ (Settles(c) /\ LeavesNobody(c))

LEMMA SameAlive == SamePlaces => \A s \in Servers : Alive(s)' <=> Alive(s)
  BY DEF SamePlaces, Alive

LEMMA QuietCalm ==
  ASSUME uses' = uses
  PROVE  (Windows' <=> Windows) /\ (Calm' <=> Calm)
  BY DEF Windows, May, Calm

LEMMA QuietUnix ==
  ASSUME OnUnix, SamePlaces, SameNames, QuietClients, ~Windows
  PROVE  OnUnix'
<1> USE DEF SamePlaces, SameNames, QuietClients
<1>1. UnixClients'
  <2>1. \A c \in Clients : cl'[c] = cl[c] \/ Settles(c)
    OBVIOUS
  <2> QED
    BY <2>1 DEF OnUnix, UnixClients, Settles, Over
<1>2. UnixServers'
  BY DEF OnUnix, UnixServers
<1>3. After => After'
  BY DEF After, Settles, Over
<1>4. Before => Before'
  <2> SUFFICES ASSUME Before PROVE Before'
    OBVIOUS
  <2>1. OneLock'
    BY DEF Before, OneLock, Settles
  <2>2. OneHolder'
    BY SameAlive DEF Before, OneHolder, Settles
  <2> QED
    BY <2>1, <2>2 DEF Before
<1> QED
  BY <1>1, <1>2, <1>3, <1>4 DEF OnUnix

LEMMA QuietWindows ==
  ASSUME OnWindows, SamePlaces, SameNames, QuietClients, Windows
  PROVE  OnWindows'
<1> USE DEF SamePlaces, SameNames, QuietClients
<1>1. \A s \in Servers : Busy(s)' <=> Busy(s)
  BY DEF Busy
<1>2. WindowsClients'
  BY <1>1 DEF OnWindows, WindowsClients, Settles, Over
<1>3. WindowsServers'
  <2> SUFFICES ASSUME NEW s \in Servers
               PROVE  (/\ sv[s].at \in Starting \cup {"running"} \cup Past
                       /\ sv[s].at \in Starting =>
                            name = 0 /\ \E c \in Clients : cl[c].at = "retry" /\ cl[c].server = s
                       /\ sv[s].at = "listen" => sv[s].new # 0
                       /\ sv[s].at = "running" => sv[s].listening = {name}
                       /\ sv[s].at \in {"running", "closing"} => name # 0 /\ sv[s].new = name)'
    BY DEF WindowsServers
  <2>1. ASSUME sv[s].at \in Starting
        PROVE  \E c \in Clients : cl'[c].at = "retry" /\ cl'[c].server = s
    BY <2>1 DEF OnWindows, WindowsServers, LeavesNobody
  <2> QED
    BY <2>1 DEF OnWindows, WindowsServers
<1>4. OneMutex' /\ OneServer'
  BY <1>1 DEF OnWindows, OneMutex, OneServer, Settles
<1> QED
  BY <1>2, <1>3, <1>4 DEF OnWindows

LEMMA QuietFailures ==
  ASSUME NeverTurnedAway, Connected, SamePlaces, SameNames, QuietClients
  PROVE  NeverTurnedAway'
<1> USE DEF SameNames, QuietClients
<1> SUFFICES ASSUME NEW c \in Clients, cl'[c].at = "failed", cl'[c].start,
                    ~(uses \cap {"fails", "slow"} # {})
             PROVE  cl'[c].server # 0 /\ sv'[cl'[c].server].at \in Past
  BY DEF NeverTurnedAway, Past
<1>1. cl'[c].server # 0 /\ sv[cl'[c].server].at \in Past
  <2>1. CASE cl'[c] = cl[c]
    BY <2>1 DEF NeverTurnedAway, Past
  <2>2. CASE Settles(c)
    BY <2>2 DEF Settles
  <2> QED
    BY <2>1, <2>2
<1>2. cl'[c].server \in Servers
  BY <1>1 DEF Connected, Settles
<1> QED
  BY <1>1, <1>2 DEF SamePlaces

\* Who comes to wait at a server has joined it, and who is served has waited.
Gathers ==
  \A s \in Servers :
    /\ \A c \in sv'[s].backlog \cup sv'[s].pending : c \in sv[s].backlog \cup sv[s].pending \/ Joined(c)'
    /\ sv'[s].clients \subseteq sv[s].clients \cup sv[s].backlog \cup sv[s].pending

LEMMA QuietConnected ==
  ASSUME Connected, SamePlaces, QuietClients, Gathers
  PROVE  Connected'
<1> USE DEF QuietClients, SamePlaces
<1>1. \A c : Joined(c) => Joined(c)'
  BY DEF Joined, Settles
<1>2. \A c \in Clients : (cl'[c].server # 0 => cl'[c].server \in Servers)
                         /\ (Joined(c)' => cl'[c].lock = 0 /\ ~cl'[c].mutex)
  BY DEF Connected, Settles, Joined
<1>3. \A s \in Servers : \A c \in sv'[s].backlog \cup sv'[s].pending : Joined(c)'
  BY <1>1 DEF Connected, Gathers
<1>4. \A c : Forked(c) => Forked(c)' \/ Joined(c)'
  BY DEF Forked, Joined, Settles
<1>5. \A s \in Servers : \A c \in sv'[s].clients : Joined(c)' \/ Forked(c)'
  BY <1>1, <1>4 DEF Connected, Gathers
<1>6. ASSUME NEW s \in Servers
      PROVE  (sv[s].client \in Clients => Joined(sv[s].client) \/ Forked(sv[s].client))'
  <2> DEFINE c == sv[s].client
  <2>1. sv'[s].client = c
    OBVIOUS
  <2>2. c \in Clients => Joined(c) \/ Forked(c)
    BY DEF Connected
  <2> HIDE DEF c
  <2>3. \A d : (Joined(d) => Joined(d)') /\ (Forked(d) => Forked(d)' \/ Joined(d)')
    BY <1>1, <1>4
  <2> QED
    BY <2>1, <2>2, <2>3 DEF Joined, Forked
<1> QED
  BY <1>2, <1>3, <1>5, <1>6 DEF Connected

LEMMA Quiet ==
  ASSUME SInv, Typed', SamePlaces, SameNames, QuietClients, Gathers
  PROVE  SInv'
<1>1. Connected' /\ NeverTurnedAway'
  BY QuietConnected, QuietFailures DEF SInv
<1>2. (Windows' <=> Windows) /\ (Calm' <=> Calm)
  BY QuietCalm DEF SameNames
<1>3. CASE Windows
  BY <1>1, <1>2, <1>3, QuietWindows DEF SInv
<1>4. CASE ~Windows
  BY <1>1, <1>2, <1>4, QuietUnix DEF SInv
<1> QED
  BY <1>3, <1>4

\* The client c leaves what it has, unless it was killed.
Left(c, at) ==
  /\ cl'[c].at = at /\ cl'[c].lock = 0 /\ cl'[c].open = 0 /\ ~cl'[c].mutex
  /\ cl'[c].start = cl[c].start /\ cl'[c].server = cl[c].server

LEMMA Leaving ==
  ASSUME Typed, NEW c \in Clients, NEW at \in Over, Leaves(c, at)
  PROVE  /\ cl' \in [Clients -> ClientRecord] /\ Clients' = Clients
         /\ \A d \in Clients \ {c} : cl'[d] = cl[d]
         /\ (cl[c].at = "killed" /\ cl'[c] = cl[c]) \/ Left(c, at)
<1>1. CASE cl[c].at = "killed"
  BY <1>1 DEF Leaves, Typed, Clients
<1>2. CASE cl[c].at # "killed"
  <2> DEFINE r == [cl[c] EXCEPT !.at = at, !.lock = 0, !.open = 0, !.mutex = FALSE]
  <2>1. cl[c] \in ClientRecord
    BY Records
  <2>2. /\ r \in ClientRecord /\ r.at = at /\ r.lock = 0 /\ r.open = 0 /\ ~r.mutex
        /\ r.start = cl[c].start /\ r.server = cl[c].server
    BY <2>1 DEF ClientRecord, ClientPlaces
  <2>3. cl' = [cl EXCEPT ![c] = r]
    BY <1>2 DEF Leaves
  <2> HIDE DEF r
  <2>4. ClientBecomes(c, r)
    BY <2>2, <2>3, ClientSet
  <2> QED
    BY <2>2, <2>4 DEF ClientBecomes, Left
<1> QED
  BY <1>1, <1>2

\* It does so without harm when it is not to start a server, or is told why,
\* and when its own server, on Windows, is not starting.
LEMMA LeavingIsQuiet ==
  ASSUME Typed, Connected, NEW c \in Clients, NEW at \in Over, Leaves(c, at), LeavesNobody(c),
         at = "failed" => uses \cap {"fails", "slow"} # {} \/ ~cl[c].start
                          \/ (cl[c].server # 0 /\ sv[cl[c].server].at \in Past)
  PROVE  QuietClients
<1>1. cl'[c] = cl[c] \/ Settles(c)
  <2>1. CASE cl'[c] = cl[c]
    BY <2>1
  <2>2. CASE Left(c, at)
    BY <2>2 DEF Left, Settles, Connected
  <2> QED
    BY <2>1, <2>2, Leaving
<1> QED
  BY <1>1, Leaving DEF QuietClients

-----------------------------------------------------------------------------
(***************************************************************************)
(* The quiet steps.                                                        *)
(***************************************************************************)
\* A server changes in who waits and is served, and in nothing else.
KeepsPlace(s, v) ==
  /\ v \in ServerRecord
  /\ v.at = sv[s].at /\ v.lock = sv[s].lock /\ v.new = sv[s].new
  /\ v.listening = sv[s].listening /\ v.client = sv[s].client
  /\ ~Windows => v.exit = sv[s].exit

LEMMA KeepingPlace ==
  ASSUME Typed, NEW s \in Servers, NEW v, KeepsPlace(s, v), sv' = [sv EXCEPT ![s] = v],
         \A c \in v.backlog \cup v.pending : c \in sv[s].backlog \cup sv[s].pending \/ Joined(c)',
         v.clients \subseteq sv[s].clients \cup sv[s].backlog \cup sv[s].pending
  PROVE  SamePlaces /\ Gathers /\ sv' \in Seq(ServerRecord)
<1>1. ServerBecomes(s, v)
  BY ServerSet DEF KeepsPlace
<1> QED
  BY <1>1 DEF ServerBecomes, SamePlaces, Gathers, KeepsPlace

LEMMA JoinsStep ==
  ASSUME SInv, NEW c \in Clients, Joins(c)
  PROVE  SInv'
<1> USE DEF SInv
<1>1. PICK s \in Servers :
        /\ Alive(s) /\ name \in sv[s].listening /\ name # 0
        /\ sv' = [sv EXCEPT ![s] = [sv[s] EXCEPT !.backlog = @ \cup {c}]]
        /\ cl' = [cl EXCEPT ![c] = [cl[c] EXCEPT !.at = "joined", !.lock = 0, !.mutex = FALSE, !.server = s]]
  <2> DEFINE x == CHOOSE x \in Listener(name) : TRUE
  <2>1. Listener(name) # {} /\ name # 0
    BY DEF Joins, Reachable
  <2>2. x \in Listener(name)
    BY <2>1
  <2>3. x \in Servers /\ Alive(x) /\ name \in sv[x].listening
    BY <2>2 DEF Listener
  <2> QED
    BY <2>1, <2>3 DEF Joins, Server
<1>2. SameNames
  BY DEF Joins, SameNames
<1>3. cl[c] \in ClientRecord /\ sv[s] \in ServerRecord /\ c \in Nat /\ s \in Nat /\ s # 0
  BY Records
<1> DEFINE r == [cl[c] EXCEPT !.at = "joined", !.lock = 0, !.mutex = FALSE, !.server = s]
           v == [sv[s] EXCEPT !.backlog = @ \cup {c}]
<1>4. /\ r \in ClientRecord /\ r.at = "joined" /\ r.lock = 0 /\ ~r.mutex /\ r.server = s
      /\ r.open = cl[c].open
  BY <1>3 DEF ClientRecord, ClientPlaces
<1>5. KeepsPlace(s, v) /\ v.backlog = sv[s].backlog \cup {c} /\ v.pending = sv[s].pending /\ v.clients = sv[s].clients
  BY <1>3 DEF ServerRecord, KeepsPlace
<1>6. ClientBecomes(c, r)
  <2> HIDE DEF r
  <2> QED BY <1>1, <1>4, ClientSet DEF r
<1> HIDE DEF r, v
<1>7. Joined(c)'
  BY <1>4, <1>6 DEF Joined, ClientBecomes
<1>8. SamePlaces /\ Gathers /\ sv' \in Seq(ServerRecord)
  BY <1>1, <1>5, <1>7, KeepingPlace DEF v
<1>9. LeavesNobody(c)
  BY <1>1 DEF LeavesNobody, OnWindows, WindowsServers
<1>10. QuietClients
  BY <1>4, <1>6, <1>9 DEF ClientBecomes, QuietClients, Settles
<1>11. Typed'
  BY <1>2, <1>6, <1>8 DEF Typed, SameNames, ClientBecomes
<1> QED
  BY <1>2, <1>8, <1>10, <1>11, Quiet

\* Steps of a client that change nothing else.
LEMMA LeavesStep ==
  ASSUME SInv, NEW c \in Clients, NEW at \in Over, Leaves(c, at), LeavesNobody(c),
         at = "failed" => uses \cap {"fails", "slow"} # {} \/ ~cl[c].start
                          \/ (cl[c].server # 0 /\ sv[cl[c].server].at \in Past),
         UNCHANGED <<sv, name, sockets, lockname, lockfiles, uses>>
  PROVE  SInv'
<1>1. QuietClients
  BY LeavingIsQuiet DEF SInv
<1>2. SamePlaces /\ SameNames /\ Gathers
  BY DEF SamePlaces, SameNames, Gathers, Servers
<1>3. Typed'
  BY Leaving DEF SInv, Typed, Servers
<1> QED
  BY <1>1, <1>2, <1>3, Quiet

LEMMA LostServerStep ==
  ASSUME SInv, NEW c \in Clients, LostServer(c)
  PROVE  SInv'
<1>1. "lost" \in Over /\ Leaves(c, "lost") /\ LeavesNobody(c)
  BY DEF LostServer, LeavesNobody, Over
<1> QED
  BY <1>1, LeavesStep DEF LostServer

LEMMA KillClientStep ==
  ASSUME SInv, NEW c \in Clients, KillClient(c)
  PROVE  SInv'
<1>1. "killed" \in Over /\ Leaves(c, "killed") /\ LeavesNobody(c)
  BY DEF KillClient, LeavesNobody, Over, SInv, Calm, May
<1> QED
  BY <1>1, LeavesStep DEF KillClient

\* A server that takes no place by its step and at most one client that has
\* come to it leaves.
LEMMA ServesStep ==
  ASSUME SInv, NEW s \in Servers, NEW v, KeepsPlace(s, v), sv' = [sv EXCEPT ![s] = v],
         v.backlog \cup v.pending \subseteq sv[s].backlog \cup sv[s].pending,
         v.clients \subseteq sv[s].clients \cup sv[s].backlog \cup sv[s].pending,
         \/ UNCHANGED cl
         \/ \E c \in Clients : Joined(c) /\ (Leaves(c, "lost") \/ Leaves(c, "served")),
         UNCHANGED <<name, sockets, lockname, lockfiles, uses>>
  PROVE  SInv'
<1>1. SameNames
  BY DEF SameNames
<1>2. SamePlaces /\ Gathers /\ sv' \in Seq(ServerRecord)
  BY KeepingPlace DEF SInv
<1>3. QuietClients /\ Clients' = Clients /\ cl' \in [Clients -> ClientRecord]
  <2>1. CASE UNCHANGED cl
    BY <2>1 DEF QuietClients, Clients, SInv, Typed
  <2>2. ASSUME NEW c \in Clients, Joined(c), NEW at \in {"lost", "served"}, Leaves(c, at)
        PROVE  QuietClients /\ Clients' = Clients /\ cl' \in [Clients -> ClientRecord]
    <3>1. LeavesNobody(c) /\ at \in Over /\ at # "failed"
      BY <2>2 DEF Joined, LeavesNobody, Over
    <3> QED
      BY <2>2, <3>1, Leaving, LeavingIsQuiet DEF SInv
  <2> QED
    BY <2>1, <2>2
<1>4. Typed'
  BY <1>1, <1>2, <1>3 DEF SInv, Typed, SameNames
<1> QED
  BY <1>1, <1>2, <1>3, <1>4, Quiet

LEMMA Waiting ==
  ASSUME SInv, NEW s \in Servers
  PROVE  /\ \A c \in sv[s].backlog \cup sv[s].pending : c \in Clients /\ Joined(c)
         /\ \A c \in sv[s].clients : c \in Clients /\ (cl[c].at # "forked" => Joined(c))
  BY DEF SInv, Connected, Joined, Forked

LEMMA AcceptStep ==
  ASSUME SInv, NEW s \in Servers, Accept(s)
  PROVE  SInv'
<1>1. PICK c \in sv[s].backlog :
        IF Windows
        THEN /\ Server(s, [sv[s] EXCEPT !.backlog = @ \ {c}, !.pending = @ \cup {c}])
             /\ UNCHANGED cl
        ELSE \/ /\ Server(s, [sv[s] EXCEPT !.backlog = @ \ {c}, !.clients = IF sv[s].exit THEN @ ELSE @ \cup {c}])
                /\ IF sv[s].exit THEN Leaves(c, "lost") ELSE UNCHANGED cl
             \/ /\ May("fails") /\ Server(s, [sv[s] EXCEPT !.accept = "timer"])
                /\ UNCHANGED cl
  BY DEF Accept
<1>2. c \in Clients /\ Joined(c) /\ c \in Nat /\ sv[s] \in ServerRecord
  BY Waiting, Records DEF SInv
<1>3. UNCHANGED cl \/ \E d \in Clients : Joined(d) /\ (Leaves(d, "lost") \/ Leaves(d, "served"))
  BY <1>1, <1>2
<1>4. UNCHANGED <<name, sockets, lockname, lockfiles, uses>>
  BY DEF Accept
<1>5. CASE sv' = [sv EXCEPT ![s] = [sv[s] EXCEPT !.backlog = @ \ {c}, !.pending = @ \cup {c}]]
  <2> DEFINE v == [sv[s] EXCEPT !.backlog = @ \ {c}, !.pending = @ \cup {c}]
  <2>1. /\ KeepsPlace(s, v) /\ v.clients \subseteq sv[s].clients \cup sv[s].backlog \cup sv[s].pending
        /\ v.backlog \cup v.pending \subseteq sv[s].backlog \cup sv[s].pending
    BY <1>2 DEF KeepsPlace, ServerRecord
  <2> HIDE DEF v
  <2> QED
    BY <1>3, <1>4, <1>5, <2>1, ServesStep DEF v
<1>6. CASE sv' = [sv EXCEPT ![s] = [sv[s] EXCEPT !.backlog = @ \ {c},
                                                 !.clients = IF sv[s].exit THEN @ ELSE @ \cup {c}]]
  <2> DEFINE v == [sv[s] EXCEPT !.backlog = @ \ {c}, !.clients = IF sv[s].exit THEN @ ELSE @ \cup {c}]
  <2>1. /\ KeepsPlace(s, v) /\ v.clients \subseteq sv[s].clients \cup sv[s].backlog \cup sv[s].pending
        /\ v.backlog \cup v.pending \subseteq sv[s].backlog \cup sv[s].pending
    BY <1>2 DEF KeepsPlace, ServerRecord
  <2> HIDE DEF v
  <2> QED
    BY <1>3, <1>4, <1>6, <2>1, ServesStep DEF v
<1>7. CASE sv' = [sv EXCEPT ![s] = [sv[s] EXCEPT !.accept = "timer"]]
  <2> DEFINE v == [sv[s] EXCEPT !.accept = "timer"]
  <2>1. /\ KeepsPlace(s, v) /\ v.clients \subseteq sv[s].clients \cup sv[s].backlog \cup sv[s].pending
        /\ v.backlog \cup v.pending \subseteq sv[s].backlog \cup sv[s].pending
    BY <1>2 DEF KeepsPlace, ServerRecord
  <2> HIDE DEF v
  <2> QED
    BY <1>3, <1>4, <1>7, <2>1, ServesStep DEF v
<1> QED
  BY <1>1, <1>5, <1>6, <1>7 DEF Server

LEMMA HandshakeStep ==
  ASSUME SInv, NEW s \in Servers, Handshake(s)
  PROVE  SInv'
<1>1. PICK c \in sv[s].pending, welcome \in BOOLEAN :
        /\ Server(s, [sv[s] EXCEPT !.pending = @ \ {c}, !.clients = IF welcome THEN @ \cup {c} ELSE @])
        /\ IF welcome THEN UNCHANGED cl ELSE Leaves(c, "lost")
  BY DEF Handshake
<1>2. c \in Clients /\ Joined(c) /\ c \in Nat /\ sv[s] \in ServerRecord
  BY Waiting, Records DEF SInv
<1> DEFINE v == [sv[s] EXCEPT !.pending = @ \ {c}, !.clients = IF welcome THEN @ \cup {c} ELSE @]
<1>3. /\ KeepsPlace(s, v)
      /\ v.backlog \cup v.pending \subseteq sv[s].backlog \cup sv[s].pending
      /\ v.clients \subseteq sv[s].clients \cup sv[s].backlog \cup sv[s].pending
  BY <1>2 DEF KeepsPlace, ServerRecord
<1>4. sv' = [sv EXCEPT ![s] = v]
  BY <1>1 DEF Server
<1>5. UNCHANGED cl \/ \E d \in Clients : Joined(d) /\ (Leaves(d, "lost") \/ Leaves(d, "served"))
  BY <1>1, <1>2
<1>6. UNCHANGED <<name, sockets, lockname, lockfiles, uses>>
  BY DEF Handshake
<1> HIDE DEF v
<1> QED
  BY <1>3, <1>4, <1>5, <1>6, ServesStep

LEMMA AcceptTimerStep ==
  ASSUME SInv, NEW s \in Servers, AcceptTimer(s)
  PROVE  SInv'
<1> DEFINE v == [sv[s] EXCEPT !.accept = "read"]
<1>1. /\ KeepsPlace(s, v) /\ v.clients \subseteq sv[s].clients \cup sv[s].backlog \cup sv[s].pending
      /\ v.backlog \cup v.pending \subseteq sv[s].backlog \cup sv[s].pending
  BY Records DEF SInv, KeepsPlace, ServerRecord
<1>2. sv' = [sv EXCEPT ![s] = v] /\ UNCHANGED cl /\ UNCHANGED <<name, sockets, lockname, lockfiles, uses>>
  BY DEF AcceptTimer, Server
<1> HIDE DEF v
<1> QED
  BY <1>1, <1>2, ServesStep

LEMMA SessionsEndStep ==
  ASSUME SInv, NEW s \in Servers, SessionsEnd(s)
  PROVE  SInv'
<1> DEFINE v == [sv[s] EXCEPT !.sessions = FALSE]
<1>1. /\ KeepsPlace(s, v) /\ v.clients \subseteq sv[s].clients \cup sv[s].backlog \cup sv[s].pending
      /\ v.backlog \cup v.pending \subseteq sv[s].backlog \cup sv[s].pending
  BY Records DEF SInv, KeepsPlace, ServerRecord
<1>2. sv' = [sv EXCEPT ![s] = v] /\ UNCHANGED cl /\ UNCHANGED <<name, sockets, lockname, lockfiles, uses>>
  BY DEF SessionsEnd, Server
<1> HIDE DEF v
<1> QED
  BY <1>1, <1>2, ServesStep

LEMMA ServedStep ==
  ASSUME SInv, NEW s \in Servers, Served(s)
  PROVE  SInv'
<1>1. PICK c \in sv[s].clients, new \in BOOLEAN, kill \in BOOLEAN :
        /\ cl[c].at \in {"joined", "killed"} /\ Leaves(c, "served")
        /\ kill => May("short")
        /\ Server(s, [sv[s] EXCEPT !.clients = @ \ {c}, !.sessions = (@ \/ new) /\ ~kill, !.exit = @ \/ kill])
  BY DEF Served
<1>2. c \in Clients /\ Joined(c) /\ c \in Nat /\ sv[s] \in ServerRecord
  BY <1>1, Waiting, Records DEF SInv
<1>3. ~Windows => ~kill
  BY <1>1 DEF SInv, Calm, May
<1> DEFINE v == [sv[s] EXCEPT !.clients = @ \ {c}, !.sessions = (@ \/ new) /\ ~kill, !.exit = @ \/ kill]
<1>4. /\ v.at = sv[s].at /\ v.lock = sv[s].lock /\ v.new = sv[s].new /\ v.listening = sv[s].listening
      /\ v.client = sv[s].client /\ v.backlog = sv[s].backlog /\ v.pending = sv[s].pending /\ v.clients = sv[s].clients \ {c}
      /\ v \in ServerRecord
  BY <1>2 DEF ServerRecord
<1>5. ~Windows => v.exit = sv[s].exit
  BY <1>2, <1>3 DEF ServerRecord
<1>6. sv' = [sv EXCEPT ![s] = v] /\ UNCHANGED <<name, sockets, lockname, lockfiles, uses>>
  BY <1>1 DEF Served, Server
<1> HIDE DEF v
<1>7. KeepsPlace(s, v)
  BY <1>4, <1>5 DEF KeepsPlace
<1> QED
  BY <1>1, <1>2, <1>4, <1>6, <1>7, ServesStep

LEMMA CloseLockStep ==
  ASSUME SInv, NEW c \in Clients, CloseLock(c)
  PROVE  SInv'
<1> DEFINE r == [cl[c] EXCEPT !.at = "joined", !.lock = 0]
<1>1. cl[c] \in ClientRecord /\ cl[c].at = "forked" /\ cl' = [cl EXCEPT ![c] = r]
  BY Records DEF SInv, CloseLock
<1>2. ~Windows /\ ~cl[c].mutex
  BY <1>1 DEF SInv, OnWindows, WindowsClients, OnUnix, UnixClients, Over
<1>3. /\ r \in ClientRecord /\ r.at = "joined" /\ r.lock = 0 /\ ~r.mutex
      /\ r.server = cl[c].server /\ r.open = cl[c].open
  BY <1>1, <1>2 DEF ClientRecord, ClientPlaces
<1> HIDE DEF r
<1>4. ClientBecomes(c, r)
  BY <1>1, <1>3, ClientSet DEF SInv
<1>5. UNCHANGED <<sv, name, sockets, lockname, lockfiles, uses>>
  BY DEF CloseLock
<1>6. SamePlaces /\ SameNames /\ Gathers
  BY <1>5 DEF SamePlaces, SameNames, Gathers, Servers
<1>7. Settles(c) /\ LeavesNobody(c)
  BY <1>1, <1>3, <1>4 DEF Settles, LeavesNobody, ClientBecomes, SInv, Connected
<1>8. QuietClients
  BY <1>4, <1>7 DEF QuietClients, ClientBecomes
<1>9. Typed'
  BY <1>4, <1>5 DEF SInv, Typed, Servers, ClientBecomes
<1> QED
  BY <1>6, <1>8, <1>9, Quiet

-----------------------------------------------------------------------------
(***************************************************************************)
(* The steps of clients on the way to a server.                            *)
(***************************************************************************)
\* The client has joined no server before the step and does not after it.
Moves(c, r) ==
  /\ r \in ClientRecord /\ ClientBecomes(c, r)
  /\ cl[c].at \notin {"joined", "forked"} \cup Over /\ r.at \notin {"joined"} \cup Over
  /\ r.start = cl[c].start /\ r.server = cl[c].server

LEMMA MovesConnected ==
  ASSUME SInv, NEW c \in Clients, NEW r, Moves(c, r), UNCHANGED <<sv, uses>>
  PROVE  Connected' /\ NeverTurnedAway' /\ Calm' /\ (Windows' <=> Windows) /\ Servers' = Servers
<1> USE DEF Moves, ClientBecomes
<1>1. Servers' = Servers /\ (Windows' <=> Windows) /\ Calm'
  BY QuietCalm DEF Servers, SInv
<1>2. NeverTurnedAway'
  BY DEF SInv, NeverTurnedAway, Over
<1>3. \A d : Joined(d)' <=> Joined(d)
  BY DEF Joined
<1>4. \A d \in Clients : (cl'[d].server # 0 => cl'[d].server \in Servers)
                         /\ (Joined(d)' => cl'[d].lock = 0 /\ ~cl'[d].mutex)
  BY <1>3 DEF SInv, Connected, Joined
<1>5. \A d : Forked(d) => Forked(d)'
  BY DEF Forked
<1>7. \A s \in Servers : \A d \in sv[s].clients : Joined(d)' \/ Forked(d)'
  BY <1>3, <1>5 DEF SInv, Connected
<1>8. \A s \in Servers : sv[s].client \in Clients => Joined(sv[s].client)' \/ Forked(sv[s].client)'
  <2> SUFFICES ASSUME NEW s \in Servers, NEW d, d = sv[s].client, d \in Clients
               PROVE  Joined(d)' \/ Forked(d)'
    OBVIOUS
  <2> QED
    BY <1>3, <1>5 DEF SInv, Connected
<1>6. \A s \in Servers : \A d \in sv[s].backlog \cup sv[s].pending : Joined(d)'
  BY <1>3 DEF SInv, Connected
<1> QED
  BY <1>1, <1>2, <1>4, <1>6, <1>7, <1>8 DEF Connected

\* On Unix a client that moves changes what others see by its lock only.
LEMMA MovesUnix ==
  ASSUME SInv, ~Windows, NEW c \in Clients, NEW r, Moves(c, r), UNCHANGED <<sv, name, uses>>,
         sockets' = sockets, lockname' \in Nat, lockfiles' \in Nat,
         r.at \in {"connect", "open", "lock", "wait", "unlink"}, r.mutex = cl[c].mutex,
         r.at = "connect" => (r.locked <=> r.lock # 0),
         r.at = "unlink" => r.lock # 0,
         r.at \in {"open", "lock", "wait"} => r.lock = 0 /\ ~r.locked,
         r.at \in {"lock", "wait"} => r.open # 0,
         Before => OneLock' /\ (r.lock # 0 => cl[c].lock # 0 \/ ~\E f \in Nat \ {0} : Held(f)),
         After => r.at # "unlink"
  PROVE  SInv'
<1> USE DEF Moves, ClientBecomes
<1>1. Connected' /\ NeverTurnedAway' /\ Calm' /\ ~Windows' /\ Servers' = Servers
  BY MovesConnected
<1>2. Typed'
  BY <1>1 DEF SInv, Typed
<1>3. UnixClients'
  BY DEF SInv, OnUnix, UnixClients
<1>4. UnixServers'
  BY <1>1 DEF SInv, OnUnix, UnixServers
<1>5. After => After'
  BY <1>1 DEF After
<1>6. Before => Before'
  <2> SUFFICES ASSUME Before PROVE OneHolder'
    BY <1>1 DEF Before
  <2>1. CASE r.lock # 0 => cl[c].lock # 0
    BY <1>1, <2>1 DEF Before, OneHolder, Alive
  <2>2. CASE ~\E f \in Nat \ {0} : Held(f)
    <3>1. \A d \in Clients : cl[d].lock = 0
      BY <2>2, Records DEF Held, SInv, ClientRecord
    <3>2. \A s \in Servers : Alive(s) => sv[s].lock = 0
      BY <2>2, Records DEF Held, SInv, ServerRecord
    <3>3. \A s \in Servers : ~Alive(s)
      BY <3>2 DEF SInv, OnUnix, UnixServers, Before, Alive
    <3> QED
      BY <1>1, <3>1, <3>3 DEF OneHolder, Alive
  <2> QED
    BY <2>1, <2>2
<1> QED
  BY <1>1, <1>2, <1>3, <1>4, <1>5, <1>6 DEF SInv, OnUnix

\* On Windows one that moves takes the mutex or keeps it.
LEMMA MovesWindows ==
  ASSUME SInv, Windows, NEW c \in Clients, NEW r, Moves(c, r), cl[c].at # "retry",
         UNCHANGED <<sv, name, sockets, lockname, lockfiles, uses>>,
         r.at \in {"mutex", "again", "remove"},
         r.mutex <=> r.at \in {"again", "remove"},
         r.mutex => cl[c].mutex \/ Mutex, r.lock = cl[c].lock,
         r.at = "remove" => \A s \in Servers : ~Busy(s)
  PROVE  SInv'
<1> USE DEF Moves, ClientBecomes
<1>1. Connected' /\ NeverTurnedAway' /\ Calm' /\ Windows' /\ Servers' = Servers
  BY MovesConnected
<1>2. Typed'
  BY <1>1 DEF SInv, Typed
<1>3. \A s \in Servers : Busy(s)' <=> Busy(s)
  BY DEF Busy
<1>4. WindowsClients'
  BY <1>1, <1>3 DEF SInv, OnWindows, WindowsClients
<1>5. WindowsServers'
  BY <1>1 DEF SInv, OnWindows, WindowsServers
<1>6. OneMutex' /\ OneServer'
  BY <1>1, <1>3 DEF SInv, OnWindows, OneMutex, OneServer, Mutex
<1> QED
  BY <1>1, <1>2, <1>4, <1>5, <1>6 DEF SInv, OnWindows

LEMMA FailsStep ==
  ASSUME SInv, NEW c \in Clients, Fails(c), LeavesNobody(c),
         uses \cap {"fails", "slow"} # {} \/ ~cl[c].start \/ (cl[c].server # 0 /\ sv[cl[c].server].at \in Past),
         UNCHANGED <<sv, name, sockets, lockname, lockfiles, uses>>
  PROVE  SInv'
  BY LeavesStep DEF Fails, Over

\* With a server that runs nobody is told that there is none.
LEMMA RunningIsReachable ==
  ASSUME SInv, NEW s \in Servers, sv[s].at = "running"
  PROVE  Reachable
<1>1. name # 0 /\ name \in sv[s].listening
  BY DEF SInv, OnUnix, UnixServers, OnWindows, WindowsServers
<1>2. s \in Listener(name)
  BY <1>1 DEF Listener, Alive
<1> QED
  BY <1>1, <1>2 DEF Reachable

LEMMA TryConnectStep ==
  ASSUME SInv, NEW c \in Clients, TryConnect(c)
  PROVE  SInv'
<1>1. CASE Joins(c)
  BY <1>1, JoinsStep
<1>2. ASSUME ~Reachable, ~cl[c].start, Fails(c), UNCHANGED <<sv, name, sockets, lockname, lockfiles, uses>>
      PROVE  SInv'
  BY <1>2, FailsStep DEF TryConnect, LeavesNobody
<1>3. ASSUME ~Reachable, UNCHANGED <<sv, name, sockets, lockname, lockfiles, uses>>,
             At(c, IF Windows THEN "mutex" ELSE IF cl[c].locked THEN "unlink" ELSE "open")
      PROVE  SInv'
  <2> DEFINE r == [cl[c] EXCEPT !.at = IF Windows THEN "mutex" ELSE IF cl[c].locked THEN "unlink" ELSE "open"]
  <2>1. cl[c] \in ClientRecord /\ cl[c].at = "connect" /\ cl' = [cl EXCEPT ![c] = r]
    BY <1>3, Records DEF SInv, TryConnect, At
  <2>2. /\ r \in ClientRecord /\ r.start = cl[c].start /\ r.server = cl[c].server /\ r.mutex = cl[c].mutex
        /\ r.lock = cl[c].lock /\ r.locked = cl[c].locked /\ r.open = cl[c].open
        /\ r.at = IF Windows THEN "mutex" ELSE IF cl[c].locked THEN "unlink" ELSE "open"
    BY <2>1 DEF ClientRecord, ClientPlaces
  <2> HIDE DEF r
  <2>3. ClientBecomes(c, r)
    BY <2>1, <2>2, ClientSet DEF SInv
  <2>4. Moves(c, r)
    BY <2>1, <2>2, <2>3 DEF Moves, Over
  <2>5. CASE Windows
    <3>1. ~r.mutex
      BY <2>1, <2>2, <2>5 DEF SInv, OnWindows, WindowsClients
    <3> QED
      BY <1>3, <2>1, <2>2, <2>4, <2>5, <3>1, MovesWindows
  <2>6. CASE ~Windows
    <3>1. ~After
      BY <1>3, RunningIsReachable DEF After
    <3>2. r.locked <=> r.lock # 0
      BY <2>1, <2>2, <2>6 DEF SInv, OnUnix, UnixClients
    <3>3. Before => OneLock'
      BY <1>3, <2>2, <2>3 DEF Before, OneLock, ClientBecomes, Servers
    <3>4. lockname' \in Nat /\ lockfiles' \in Nat
      BY <1>3 DEF SInv, Typed
    <3> QED
      BY <1>3, <2>1, <2>2, <2>4, <2>6, <3>1, <3>2, <3>3, <3>4, MovesUnix
  <2> QED
    BY <2>5, <2>6
<1> QED
  BY <1>1, <1>2, <1>3 DEF TryConnect

LEMMA OpenLockStep ==
  ASSUME SInv, NEW c \in Clients, OpenLock(c)
  PROVE  SInv'
<1>1. cl[c] \in ClientRecord /\ cl[c].at = "open" /\ UNCHANGED <<sv, name, sockets, uses>>
  BY Records DEF SInv, OpenLock
<1>2. ~Windows
  BY <1>1 DEF SInv, OnWindows, WindowsClients, Over
<1>3. /\ lockname' = IF lockname = 0 THEN lockfiles + 1 ELSE lockname
      /\ lockfiles' = IF lockname = 0 THEN lockfiles + 1 ELSE lockfiles
      /\ cl' = [cl EXCEPT ![c] = [cl[c] EXCEPT !.at = "lock", !.open = lockname']]
  BY <1>2 DEF OpenLock, SInv, Calm, May
<1>4. lockname' \in Nat \ {0} /\ lockfiles' \in Nat
  BY <1>3 DEF SInv, Typed
<1> DEFINE r == [cl[c] EXCEPT !.at = "lock", !.open = lockname']
<1>5. /\ r \in ClientRecord /\ r.start = cl[c].start /\ r.server = cl[c].server /\ r.mutex = cl[c].mutex
      /\ r.lock = cl[c].lock /\ r.locked = cl[c].locked /\ r.open = lockname' /\ r.at = "lock"
  BY <1>1, <1>4 DEF ClientRecord, ClientPlaces
<1>6. cl' = [cl EXCEPT ![c] = r]
  BY <1>3
<1> HIDE DEF r
<1>7. ClientBecomes(c, r)
  BY <1>5, <1>6, ClientSet DEF SInv
<1>8. Moves(c, r)
  BY <1>1, <1>5, <1>7 DEF Moves, Over
<1>9. r.lock = 0 /\ ~r.locked
  BY <1>1, <1>2, <1>5 DEF SInv, OnUnix, UnixClients
<1>10. Before => OneLock'
  BY <1>1, <1>3, <1>5, <1>7 DEF Before, OneLock, ClientBecomes, Servers
<1> QED
  BY <1>1, <1>2, <1>4, <1>5, <1>8, <1>9, <1>10, MovesUnix

LEMMA TryLockStep ==
  ASSUME SInv, NEW c \in Clients, TryLock(c)
  PROVE  SInv'
<1>1. /\ cl[c] \in ClientRecord /\ cl[c].at = "lock"
      /\ UNCHANGED <<sv, name, sockets, lockname, lockfiles, uses>>
  BY Records DEF SInv, TryLock
<1>2. ~Windows
  BY <1>1 DEF SInv, OnWindows, WindowsClients, Over
<1>3. lockname \in Nat /\ lockfiles \in Nat /\ cl[c].open # 0 /\ cl[c].lock = 0 /\ ~cl[c].locked
  BY <1>1, <1>2 DEF SInv, Typed, OnUnix, UnixClients
<1>4. ASSUME ~Held(cl[c].open),
             cl' = [cl EXCEPT ![c] = [cl[c] EXCEPT !.at = "connect", !.lock = cl[c].open, !.open = 0, !.locked = TRUE]]
      PROVE  SInv'
  <2> DEFINE r == [cl[c] EXCEPT !.at = "connect", !.lock = cl[c].open, !.open = 0, !.locked = TRUE]
  <2>1. /\ r \in ClientRecord /\ r.start = cl[c].start /\ r.server = cl[c].server /\ r.mutex = cl[c].mutex
        /\ r.lock = cl[c].open /\ r.locked /\ r.open = 0 /\ r.at = "connect"
    BY <1>1 DEF ClientRecord, ClientPlaces
  <2> HIDE DEF r
  <2>2. ClientBecomes(c, r)
    BY <1>4, <2>1, ClientSet DEF SInv, r
  <2>3. Moves(c, r)
    BY <1>1, <2>1, <2>2 DEF Moves, Over
  <2>4. Before => OneLock'
    BY <1>1, <2>1, <2>2 DEF Before, OneLock, ClientBecomes, Servers
  <2>5. Before => ~\E f \in Nat \ {0} : Held(f)
    <3> SUFFICES ASSUME Before, NEW f \in Nat \ {0}, Held(f) PROVE FALSE
      OBVIOUS
    <3>1. f = 1 /\ cl[c].open = 1
      BY <1>3 DEF Held, Before, OneLock
    <3> QED
      BY <1>4, <3>1
  <2> QED
    BY <1>1, <1>2, <1>3, <2>1, <2>3, <2>4, <2>5, MovesUnix
<1>5. ASSUME cl' = [cl EXCEPT ![c] = [cl[c] EXCEPT !.at = "wait"]]
      PROVE  SInv'
  <2> DEFINE r == [cl[c] EXCEPT !.at = "wait"]
  <2>1. /\ r \in ClientRecord /\ r.start = cl[c].start /\ r.server = cl[c].server /\ r.mutex = cl[c].mutex
        /\ r.lock = cl[c].lock /\ r.locked = cl[c].locked /\ r.open = cl[c].open /\ r.at = "wait"
    BY <1>1 DEF ClientRecord, ClientPlaces
  <2> HIDE DEF r
  <2>2. ClientBecomes(c, r)
    BY <1>5, <2>1, ClientSet DEF SInv, r
  <2>3. Moves(c, r)
    BY <1>1, <2>1, <2>2 DEF Moves, Over
  <2>4. Before => OneLock'
    BY <1>1, <2>1, <2>2 DEF Before, OneLock, ClientBecomes, Servers
  <2> QED
    BY <1>1, <1>2, <1>3, <2>1, <2>3, <2>4, MovesUnix
<1> QED
  BY <1>4, <1>5 DEF TryLock, At

LEMMA WaitedStep ==
  ASSUME SInv, NEW c \in Clients, Waited(c)
  PROVE  SInv'
<1>1. /\ cl[c] \in ClientRecord /\ cl[c].at = "wait"
      /\ UNCHANGED <<sv, name, sockets, lockname, lockfiles, uses>>
  BY Records DEF SInv, Waited
<1>2. ~Windows
  BY <1>1 DEF SInv, OnWindows, WindowsClients, Over
<1>3. lockname \in Nat /\ lockfiles \in Nat /\ cl[c].lock = 0 /\ ~cl[c].locked
  BY <1>1, <1>2 DEF SInv, Typed, OnUnix, UnixClients
<1> DEFINE r == [cl[c] EXCEPT !.at = "connect", !.open = 0]
<1>4. /\ r \in ClientRecord /\ r.start = cl[c].start /\ r.server = cl[c].server /\ r.mutex = cl[c].mutex
      /\ r.lock = cl[c].lock /\ r.locked = cl[c].locked /\ r.open = 0 /\ r.at = "connect"
  BY <1>1 DEF ClientRecord, ClientPlaces
<1>5. cl' = [cl EXCEPT ![c] = r]
  BY DEF Waited
<1> HIDE DEF r
<1>6. ClientBecomes(c, r)
  BY <1>4, <1>5, ClientSet DEF SInv
<1>7. Moves(c, r)
  BY <1>1, <1>4, <1>6 DEF Moves, Over
<1>8. Before => OneLock'
  BY <1>1, <1>4, <1>6 DEF Before, OneLock, ClientBecomes, Servers
<1> QED
  BY <1>1, <1>2, <1>3, <1>4, <1>7, <1>8, MovesUnix

LEMMA TakeMutexStep ==
  ASSUME SInv, NEW c \in Clients, TakeMutex(c)
  PROVE  SInv'
<1>1. /\ cl[c] \in ClientRecord /\ cl[c].at = "mutex"
      /\ UNCHANGED <<sv, name, sockets, lockname, lockfiles, uses>>
  BY Records DEF SInv, TakeMutex
<1>2. Windows
  BY <1>1 DEF SInv, OnUnix, UnixClients, Over
<1>3. Mutex /\ cl' = [cl EXCEPT ![c] = [cl[c] EXCEPT !.at = "again", !.mutex = TRUE]]
  BY <1>2 DEF TakeMutex, SInv, Calm, May
<1> DEFINE r == [cl[c] EXCEPT !.at = "again", !.mutex = TRUE]
<1>4. /\ r \in ClientRecord /\ r.start = cl[c].start /\ r.server = cl[c].server
      /\ r.mutex /\ r.at = "again" /\ r.lock = cl[c].lock
  BY <1>1 DEF ClientRecord, ClientPlaces
<1>5. cl' = [cl EXCEPT ![c] = r]
  BY <1>3
<1> HIDE DEF r
<1>6. Moves(c, r)
  BY <1>1, <1>4, <1>5, ClientSet DEF Moves, Over, SInv
<1> QED
  BY <1>1, <1>2, <1>3, <1>4, <1>6, MovesWindows

\* A server whose process is there and that cannot be reached is ending.
LEMMA OwnersEnd ==
  ASSUME SInv, Windows, ~Reachable, name # 0, NEW s \in Owners(name)
  PROVE  s \in Servers /\ Alive(s) /\ sv[s].at \in Past
<1>1. s \in Servers /\ Alive(s) /\ sv[s].new = name
  BY DEF Owners, SInv, Calm, May
<1>2. sv[s].at # "running"
  BY <1>1, RunningIsReachable
<1> QED
  BY <1>1, <1>2 DEF SInv, OnWindows, WindowsServers, Starting

LEMMA ConnectAgainStep ==
  ASSUME SInv, NEW c \in Clients, ConnectAgain(c)
  PROVE  SInv'
<1>1. CASE Joins(c)
  BY <1>1, JoinsStep
<1> SUFFICES ASSUME ~Joins(c) PROVE SInv'
  BY <1>1
<1>2. /\ ~Reachable /\ cl[c] \in ClientRecord /\ cl[c].at = "again"
      /\ UNCHANGED <<sv, name, sockets, lockname, lockfiles, uses>>
  BY Records DEF SInv, ConnectAgain
<1>3. Windows
  BY <1>2 DEF SInv, OnUnix, UnixClients, Over
<1>4. ASSUME name # 0, NEW s \in Owners(name),
             IF Alive(s) THEN cl' = [cl EXCEPT ![c] = [cl[c] EXCEPT !.at = "failed", !.mutex = FALSE, !.server = s]]
             ELSE Fails(c)
      PROVE  SInv'
  <2>1. s \in Servers /\ Alive(s) /\ sv[s].at \in Past /\ s \in Nat
    BY <1>2, <1>3, <1>4, OwnersEnd, Records DEF SInv
  <2> DEFINE r == [cl[c] EXCEPT !.at = "failed", !.mutex = FALSE, !.server = s]
  <2>2. cl' = [cl EXCEPT ![c] = r]
    BY <1>4, <2>1
  <2>3. /\ r \in ClientRecord /\ r.at = "failed" /\ ~r.mutex /\ r.server = s
        /\ r.lock = cl[c].lock /\ r.open = cl[c].open
    BY <1>2, <2>1 DEF ClientRecord, ClientPlaces, Over
  <2> HIDE DEF r
  <2>4. ClientBecomes(c, r)
    BY <2>2, <2>3, ClientSet DEF SInv
  <2>5. SamePlaces /\ SameNames /\ Gathers
    BY <1>2 DEF SamePlaces, SameNames, Gathers, Servers
  <2>6. cl[c].lock = 0
    BY <1>2, <1>3 DEF SInv, OnWindows, WindowsClients
  <2>7. Settles(c) /\ LeavesNobody(c)
    BY <1>2, <2>1, <2>3, <2>4, <2>6, Records DEF Settles, LeavesNobody, ClientBecomes, Over, SInv
  <2>8. QuietClients /\ Typed'
    BY <1>2, <2>4, <2>7 DEF QuietClients, ClientBecomes, SInv, Typed, Servers
  <2> QED
    BY <2>5, <2>8, Quiet
<1>5. ASSUME May("fails"), Fails(c)
      PROVE  SInv'
  BY <1>2, <1>5, FailsStep DEF LeavesNobody, May
<1>6. ASSUME name = 0 \/ Owners(name) = {}, At(c, "remove")
      PROVE  SInv'
  <2> DEFINE r == [cl[c] EXCEPT !.at = "remove"]
  <2>1. /\ r \in ClientRecord /\ r.start = cl[c].start /\ r.server = cl[c].server
        /\ r.mutex = cl[c].mutex /\ r.at = "remove" /\ r.lock = cl[c].lock
    BY <1>2 DEF ClientRecord, ClientPlaces
  <2>2. cl' = [cl EXCEPT ![c] = r]
    BY <1>6 DEF At
  <2> HIDE DEF r
  <2>3. Moves(c, r)
    BY <1>2, <2>1, <2>2, ClientSet DEF Moves, Over, SInv
  <2>4. cl[c].mutex
    BY <1>2, <1>3 DEF SInv, OnWindows, WindowsClients
  <2>5. ASSUME NEW s \in Servers
        PROVE  ~Busy(s)
    <3>1. sv[s].at \notin {"running", "closing"}
      BY <1>3, <1>6 DEF SInv, OnWindows, WindowsServers, Owners, Alive
    <3>2. sv[s].at \notin Starting
      BY <1>2, <1>3, <2>4 DEF SInv, OnWindows, WindowsServers, WindowsClients, OneMutex
    <3> QED
      BY <3>1, <3>2 DEF Busy
  <2> QED
    BY <1>2, <1>3, <2>1, <2>3, <2>4, <2>5, MovesWindows
<1> QED
  BY <1>2, <1>4, <1>5, <1>6 DEF ConnectAgain

LEMMA RetryStep ==
  ASSUME SInv, NEW c \in Clients, Retry(c)
  PROVE  SInv'
<1>1. CASE Joins(c)
  BY <1>1, JoinsStep
<1>2. ASSUME ~Alive(cl[c].server) \/ (~Reachable /\ May("slow")), Fails(c),
             UNCHANGED <<sv, name, sockets, lockname, lockfiles, uses>>
      PROVE  SInv'
  <2>1. cl[c].at = "retry"
    BY DEF Retry
  <2>2. Windows
    BY <2>1 DEF SInv, OnUnix, UnixClients, Over
  <2>3. sv[cl[c].server].at \in {"gone", "killed"} /\ cl[c].server # 0
    BY <1>2, <2>1, <2>2 DEF SInv, Calm, May, OnWindows, WindowsClients, Alive
  <2>4. LeavesNobody(c) /\ sv[cl[c].server].at \in Past
    BY <2>3 DEF LeavesNobody, Starting, Past
  <2> QED
    BY <1>2, <2>3, <2>4, FailsStep
<1> QED
  BY <1>1, <1>2 DEF Retry

\* The socket that there is, if any, is removed by who may start a server.
LEMMA UnlinkStep ==
  ASSUME SInv, NEW c \in Clients, Unlink(c)
  PROVE  SInv'
<1>1. cl[c] \in ClientRecord /\ cl[c].at = "unlink" /\ UNCHANGED <<sv, sockets, lockname, lockfiles, uses>>
  BY Records DEF SInv, Unlink
<1>2. ~Windows
  BY <1>1 DEF SInv, OnWindows, WindowsClients, Over
<1>3. cl[c].lock # 0 /\ Before
  BY <1>1, <1>2 DEF SInv, OnUnix, UnixClients, After
<1>4. name' = 0 /\ cl' = [cl EXCEPT ![c] = [cl[c] EXCEPT !.at = "start"]]
  BY <1>2, <1>3 DEF Unlink, At, SInv, Calm, May
<1> DEFINE r == [cl[c] EXCEPT !.at = "start"]
<1>5. /\ r \in ClientRecord /\ r.start = cl[c].start /\ r.server = cl[c].server /\ r.mutex = cl[c].mutex
      /\ r.lock = cl[c].lock /\ r.locked = cl[c].locked /\ r.open = cl[c].open /\ r.at = "start"
  BY <1>1 DEF ClientRecord, ClientPlaces
<1> HIDE DEF r
<1>6. ClientBecomes(c, r)
  BY <1>4, <1>5, ClientSet DEF SInv, r
<1>7. Moves(c, r)
  BY <1>1, <1>5, <1>6 DEF Moves, Over
<1>8. Connected' /\ NeverTurnedAway' /\ Calm' /\ ~Windows' /\ Servers' = Servers
  BY <1>1, <1>2, <1>7, MovesConnected
<1>9. Typed'
  BY <1>1, <1>4, <1>6, <1>8 DEF SInv, Typed, ClientBecomes
<1>10. UnixClients'
  BY <1>2, <1>3, <1>5, <1>6 DEF SInv, OnUnix, UnixClients, ClientBecomes
<1>11. \A s \in Servers : sv[s].at = "killed"
  BY <1>1, <1>2, <1>3 DEF Before, OneHolder, Alive, SInv, OnUnix, UnixServers, Starting
<1>12. UnixServers'
  BY <1>1, <1>2, <1>8, <1>11 DEF SInv, OnUnix, UnixServers, Starting
<1>13. Before'
  <2>1. OneLock'
    BY <1>1, <1>3, <1>5, <1>6, <1>8 DEF Before, OneLock, ClientBecomes
  <2>2. OneHolder'
    BY <1>1, <1>3, <1>5, <1>6, <1>8, <1>11 DEF Before, OneHolder, ClientBecomes, Alive
  <2> QED
    BY <1>1, <1>8, <1>11, <2>1, <2>2 DEF Before
<1> QED
  BY <1>8, <1>9, <1>10, <1>12, <1>13 DEF SInv, OnUnix

LEMMA RemoveEndpointStep ==
  ASSUME SInv, NEW c \in Clients, RemoveEndpoint(c)
  PROVE  SInv'
<1>1. cl[c] \in ClientRecord /\ cl[c].at = "remove" /\ UNCHANGED <<sv, sockets, lockname, lockfiles, uses>>
  BY Records DEF SInv, RemoveEndpoint
<1>2. Windows
  BY <1>1 DEF SInv, OnUnix, UnixClients, Over
<1>3. cl[c].mutex /\ \A s \in Servers : ~Busy(s)
  BY <1>1, <1>2 DEF SInv, OnWindows, WindowsClients
<1> DEFINE r == [cl[c] EXCEPT !.at = "start"]
<1>4. name' = 0 /\ cl' = [cl EXCEPT ![c] = r]
  BY DEF RemoveEndpoint, At
<1>5. /\ r \in ClientRecord /\ r.start = cl[c].start /\ r.server = cl[c].server
      /\ r.mutex = cl[c].mutex /\ r.at = "start" /\ r.lock = cl[c].lock
  BY <1>1 DEF ClientRecord, ClientPlaces
<1> HIDE DEF r
<1>6. ClientBecomes(c, r)
  BY <1>4, <1>5, ClientSet DEF SInv
<1>7. Moves(c, r)
  BY <1>1, <1>5, <1>6 DEF Moves, Over
<1>8. Connected' /\ NeverTurnedAway' /\ Calm' /\ Windows' /\ Servers' = Servers
  BY <1>1, <1>2, <1>7, MovesConnected
<1>9. Typed'
  BY <1>1, <1>4, <1>6, <1>8 DEF SInv, Typed, ClientBecomes
<1>10. \A s \in Servers : ~Busy(s)'
  BY <1>1, <1>3 DEF Busy
<1>11. WindowsClients'
  BY <1>2, <1>3, <1>4, <1>5, <1>6, <1>8, <1>10 DEF SInv, OnWindows, WindowsClients, ClientBecomes
<1>12. WindowsServers'
  BY <1>1, <1>2, <1>3, <1>4, <1>8 DEF SInv, OnWindows, WindowsServers, Busy, Starting
<1>13. OneMutex' /\ OneServer'
  BY <1>2, <1>5, <1>6, <1>8, <1>10 DEF SInv, OnWindows, OneMutex, OneServer, ClientBecomes
<1> QED
  BY <1>8, <1>9, <1>11, <1>12, <1>13 DEF SInv, OnWindows

-----------------------------------------------------------------------------
(***************************************************************************)
(* The steps that make a server.                                           *)
(***************************************************************************)
Begins(c, r, v) ==
  /\ r \in ClientRecord /\ ClientBecomes(c, r) /\ v \in ServerRecord /\ ServerAdded(v)
  /\ cl[c].at = "start" /\ r.at \in {"forked", "retry"} /\ r.server = Len(sv) + 1
  /\ r.lock = cl[c].lock /\ r.open = cl[c].open /\ r.mutex = cl[c].mutex
  /\ v.at = "begin" /\ v.lock = cl[c].lock /\ ~v.exit
  /\ v.backlog = {} /\ v.pending = {} /\ v.clients = {}
  /\ v.client \in Clients => v.client = c /\ r.at = "forked"

LEMMA NewServerFacts ==
  ASSUME Typed, NEW c \in Clients, cl[c].at = "start", NEW at \in {"forked", "retry"},
         Windows <=> at = "retry",
         sv' = NewServer(c), cl' = [cl EXCEPT ![c] = [cl[c] EXCEPT !.at = at, !.server = Len(sv) + 1]]
  PROVE  \E r, v : Begins(c, r, v) /\ r.at = at
<1> DEFINE r == [cl[c] EXCEPT !.at = at, !.server = Len(sv) + 1]
           v == [at |-> "begin", lock |-> cl[c].lock, client |-> IF Windows THEN 0 ELSE c, listening |-> {},
                 backlog |-> {}, pending |-> {}, clients |-> {}, sessions |-> FALSE, exit |-> FALSE,
                 accept |-> "read", new |-> 0]
<1>1. cl[c] \in ClientRecord /\ c \in Nat /\ c # 0 /\ 0 \notin Clients /\ Len(sv) + 1 \in Nat
  BY Records DEF Typed
<1>2. /\ r \in ClientRecord /\ r.at = at /\ r.server = Len(sv) + 1
      /\ r.lock = cl[c].lock /\ r.open = cl[c].open /\ r.mutex = cl[c].mutex
  BY <1>1 DEF ClientRecord, ClientPlaces
<1>3. /\ v \in ServerRecord /\ v.at = "begin" /\ v.lock = cl[c].lock /\ ~v.exit
      /\ v.backlog = {} /\ v.pending = {} /\ v.clients = {}
      /\ v.client = IF Windows THEN 0 ELSE c
  BY <1>1 DEF ServerRecord, ServerPlaces, Starting, Past, ClientRecord
<1>4. cl' = [cl EXCEPT ![c] = r] /\ sv' = Append(sv, v)
  BY DEF NewServer
<1> HIDE DEF r, v
<1>5. ClientBecomes(c, r)
  BY <1>2, <1>4, ClientSet
<1>6. ServerAdded(v)
  BY <1>3, <1>4, ServerNew
<1> QED
  BY <1>1, <1>2, <1>3, <1>5, <1>6 DEF Begins

LEMMA BeginsConnected ==
  ASSUME SInv, NEW c \in Clients, NEW r, NEW v, Begins(c, r, v), UNCHANGED uses
  PROVE  Connected' /\ NeverTurnedAway' /\ Calm' /\ (Windows' <=> Windows)
<1> USE DEF Begins, ClientBecomes, ServerAdded
<1>1. (Windows' <=> Windows) /\ Calm'
  BY QuietCalm DEF SInv
<1>2. NeverTurnedAway'
  BY DEF SInv, NeverTurnedAway, Over, Connected
<1>3. \A d : (Joined(d)' <=> Joined(d)) /\ (Forked(d) => Forked(d)')
  BY DEF Joined, Forked, Over
<1>4. \A d \in Clients : (cl'[d].server # 0 => cl'[d].server \in Servers')
                         /\ (Joined(d)' => cl'[d].lock = 0 /\ ~cl'[d].mutex)
  BY <1>3 DEF SInv, Connected, Joined
<1>5. PICK n : n = Len(sv) + 1
  OBVIOUS
<1>6. \A s \in Servers : \A d \in sv'[s].clients : Joined(d)' \/ Forked(d)'
  BY <1>3 DEF SInv, Connected
<1>7. \A s \in Servers : \A d \in sv'[s].backlog \cup sv'[s].pending : Joined(d)'
  BY <1>3 DEF SInv, Connected
<1>8. ASSUME NEW s \in Servers
      PROVE  (sv[s].client \in Clients => Joined(sv[s].client) \/ Forked(sv[s].client))'
  <2> DEFINE d == sv[s].client
  <2>1. sv'[s].client = d
    OBVIOUS
  <2>2. d \in Clients => Joined(d) \/ Forked(d)
    BY DEF SInv, Connected
  <2> HIDE DEF d
  <2> QED
    BY <1>3, <2>1, <2>2 DEF Joined, Forked
<1>9. (sv[n].client \in Clients => Joined(sv[n].client) \/ Forked(sv[n].client))'
  BY <1>5 DEF Forked
<1>10. sv'[n].clients = {} /\ sv'[n].backlog = {} /\ sv'[n].pending = {} /\ Servers' = Servers \cup {n}
  BY <1>5
<1>11. \A s \in Servers' :
         /\ \A d \in sv'[s].backlog \cup sv'[s].pending : Joined(d)'
         /\ \A d \in sv'[s].clients : Joined(d)' \/ Forked(d)'
  BY <1>6, <1>7, <1>10
<1>12. \A s \in Servers' : (sv[s].client \in Clients => Joined(sv[s].client) \/ Forked(sv[s].client))'
  BY <1>8, <1>9, <1>10
<1> QED
  BY <1>1, <1>2, <1>4, <1>11, <1>12 DEF Connected

LEMMA ForkStep ==
  ASSUME SInv, NEW c \in Clients, Fork(c)
  PROVE  SInv'
<1>1. /\ ~Windows /\ cl[c].at = "start" /\ UNCHANGED <<name, sockets, lockname, lockfiles, uses>>
      /\ sv' = NewServer(c) /\ cl' = [cl EXCEPT ![c] = [cl[c] EXCEPT !.at = "forked", !.server = Len(sv) + 1]]
  BY DEF Fork, SInv, Calm, May
<1>2. PICK r, v : Begins(c, r, v) /\ r.at = "forked"
  BY <1>1, NewServerFacts DEF SInv
<1>3. Connected' /\ NeverTurnedAway' /\ Calm' /\ ~Windows'
  BY <1>1, <1>2, BeginsConnected
<1>4. Typed'
  BY <1>1, <1>2 DEF SInv, Typed, Begins, ClientBecomes, ServerAdded
<1>5. cl[c].lock # 0 /\ Before /\ ~cl[c].mutex
  BY <1>1 DEF SInv, OnUnix, UnixClients, After
<1>6. PICK n : n = Len(sv) + 1
  OBVIOUS
<1> USE DEF Begins, ClientBecomes, ServerAdded
<1>7. \A s \in Servers : sv[s].at = "killed"
  BY <1>1, <1>5 DEF Before, OneHolder, Alive, SInv, OnUnix, UnixServers, Starting
<1>8. UnixClients'
  BY <1>1, <1>2, <1>5 DEF SInv, OnUnix, UnixClients
<1>9. /\ Servers' = Servers \cup {n} /\ sv'[n].at = "begin" /\ ~sv'[n].exit /\ sv'[n].lock = cl[c].lock
      /\ \A s \in Servers : sv'[s] = sv[s] /\ s # n
  BY <1>2, <1>6
<1>10. UnixServers'
  BY <1>1, <1>5, <1>7, <1>9 DEF SInv, OnUnix, UnixServers, Starting
<1>11. OneLock'
  BY <1>1, <1>2, <1>5, <1>9 DEF Before, OneLock
<1>12. OneHolder'
  BY <1>2, <1>5, <1>7, <1>9 DEF Before, OneHolder, Alive
<1>13. Before'
  BY <1>7, <1>9, <1>11, <1>12 DEF Before
<1> QED
  BY <1>3, <1>4, <1>8, <1>10, <1>13 DEF SInv, OnUnix

LEMMA StartServerStep ==
  ASSUME SInv, NEW c \in Clients, StartServer(c)
  PROVE  SInv'
<1>1. /\ Windows /\ cl[c].at = "start" /\ UNCHANGED <<name, sockets, lockname, lockfiles, uses>>
  BY DEF StartServer
<1>2. CASE Fails(c) /\ UNCHANGED sv /\ May("fails")
  <2>1. LeavesNobody(c)
    BY <1>1 DEF LeavesNobody
  <2>2. uses \cap {"fails", "slow"} # {}
    BY <1>2 DEF May
  <2> QED
    BY <1>1, <1>2, <2>1, <2>2, FailsStep
<1>3. CASE /\ sv' = NewServer(c)
           /\ cl' = [cl EXCEPT ![c] = [cl[c] EXCEPT !.at = "retry", !.server = Len(sv) + 1]]
  <2>1. PICK r, v : Begins(c, r, v) /\ r.at = "retry"
    BY <1>1, <1>3, NewServerFacts DEF SInv
  <2>2. Connected' /\ NeverTurnedAway' /\ Calm' /\ Windows'
    BY <1>1, <2>1, BeginsConnected
  <2>3. Typed'
    BY <1>1, <2>1 DEF SInv, Typed, Begins, ClientBecomes, ServerAdded
  <2>4. cl[c].mutex /\ name = 0 /\ \A s \in Servers : ~Busy(s)
    BY <1>1 DEF SInv, OnWindows, WindowsClients
  <2>5. PICK n : n = Len(sv) + 1
    OBVIOUS
  <2> USE DEF Begins, ClientBecomes, ServerAdded
  <2>6. /\ Servers' = Servers \cup {n} /\ sv'[n].at = "begin" /\ n # 0
        /\ \A s \in Servers : sv'[s] = sv[s] /\ s # n
        /\ cl'[c].at = "retry" /\ cl'[c].server = n /\ cl'[c].mutex
    BY <2>1, <2>4, <2>5
  <2>7. \A d \in Clients : d # c => ~cl[d].mutex
    BY <1>1, <2>4 DEF SInv, OnWindows, OneMutex
  <2>8. WindowsClients'
    BY <1>1, <2>1, <2>6, <2>7 DEF SInv, OnWindows, WindowsClients
  <2>9. WindowsServers'
    <3>1. \A s \in Servers : sv[s].at \notin Starting \cup {"running", "closing"}
      BY <2>4 DEF Busy
    <3> QED
      BY <1>1, <2>1, <2>4, <2>6, <3>1 DEF SInv, OnWindows, WindowsServers, Starting
  <2>10. OneMutex'
    BY <2>1, <2>7 DEF OneMutex
  <2>11. OneServer'
    BY <2>4, <2>6 DEF OneServer, Busy
  <2> QED
    BY <2>2, <2>3, <2>8, <2>9, <2>10, <2>11 DEF SInv, OnWindows
<1> QED
  BY <1>1, <1>2, <1>3 DEF StartServer

-----------------------------------------------------------------------------
(***************************************************************************)
(* The steps of servers.                                                   *)
(***************************************************************************)
\* A server that lives takes another place; clients stay where they are.
Turns(s, v) ==
  /\ v \in ServerRecord /\ ServerBecomes(s, v) /\ Alive(s) /\ UNCHANGED <<cl, uses>>
  /\ sv[s].at \in Past => v.at \in Past
  /\ v.backlog = sv[s].backlog /\ v.pending = sv[s].pending /\ v.client = sv[s].client
  /\ v.clients \subseteq sv[s].clients \cup ({sv[s].client} \cap Clients)

LEMMA TurnsConnected ==
  ASSUME SInv, NEW s \in Servers, NEW v, Turns(s, v)
  PROVE  Connected' /\ NeverTurnedAway' /\ Calm' /\ (Windows' <=> Windows) /\ Clients' = Clients
<1> USE DEF Turns, ServerBecomes
<1>1. (Windows' <=> Windows) /\ Calm' /\ Clients' = Clients
  BY QuietCalm DEF SInv, Clients
<1>2. NeverTurnedAway'
  BY <1>1 DEF SInv, NeverTurnedAway, Past, Over, Connected
<1>3. \A d : (Joined(d)' <=> Joined(d)) /\ (Forked(d)' <=> Forked(d))
  BY <1>1 DEF Joined, Forked
<1>4. \A d \in Clients : (cl'[d].server # 0 => cl'[d].server \in Servers')
                         /\ (Joined(d)' => cl'[d].lock = 0 /\ ~cl'[d].mutex)
  BY <1>3 DEF SInv, Connected
<1>5. \A t \in Servers : sv'[t].backlog = sv[t].backlog /\ sv'[t].pending = sv[t].pending
                         /\ sv'[t].client = sv[t].client
  OBVIOUS
<1>6. \A t \in Servers : \A d \in sv'[t].clients : Joined(d)' \/ Forked(d)'
  BY <1>3 DEF SInv, Connected
<1>7. \A t \in Servers : \A d \in sv'[t].backlog \cup sv'[t].pending : Joined(d)'
  BY <1>3, <1>5 DEF SInv, Connected
<1>8. ASSUME NEW t \in Servers
      PROVE  (sv[t].client \in Clients => Joined(sv[t].client) \/ Forked(sv[t].client))'
  <2> DEFINE d == sv[t].client
  <2>1. sv'[t].client = d
    BY <1>5
  <2>2. d \in Clients => Joined(d) \/ Forked(d)
    BY DEF SInv, Connected
  <2> HIDE DEF d
  <2> QED
    BY <1>1, <2>1, <2>2 DEF Joined, Forked
<1> QED
  BY <1>1, <1>2, <1>4, <1>6, <1>7, <1>8 DEF Connected

\* On Unix a server that lives and does not run yet has the lock, and so does
\* no client but the one that forked it.
LEMMA Alone ==
  ASSUME SInv, ~Windows, NEW s \in Servers, sv[s].at \in Starting \cup {"unlock"}
  PROVE  /\ Before /\ \A t \in Servers \ {s} : sv[t].at = "killed"
         /\ \A c \in Clients : cl[c].at \notin {"unlink", "start"}
<1>1. Before
  BY DEF SInv, OnUnix, After, Starting
<1>2. Alive(s)
  BY DEF Alive, Starting
<1> QED
  BY <1>1, <1>2 DEF Before, OneHolder, SInv, OnUnix, UnixServers, UnixClients, Alive, Starting

\* So it may take its next place.
LEMMA TurnsUnix ==
  ASSUME SInv, ~Windows, NEW s \in Servers, sv[s].at \in Starting \cup {"unlock"}, NEW v, Turns(s, v),
         name' \in Nat, sockets' \in Nat, lockfiles' = lockfiles, lockname' = lockname,
         v.lock = sv[s].lock, ~v.exit,
         v.at \in Starting \cup {"unlock", "killed"},
         v.at \in {"listen", "unlock"} => name' = v.new /\ name' # 0,
         v.at = "unlock" => v.listening = {v.new}
  PROVE  SInv'
<1>1. Connected' /\ NeverTurnedAway' /\ Calm' /\ ~Windows' /\ Clients' = Clients
  BY TurnsConnected
<1> USE DEF Turns, ServerBecomes
<1>2. Typed'
  BY <1>1 DEF SInv, Typed
<1>3. UnixClients'
  BY <1>1 DEF SInv, OnUnix, UnixClients
<1>4. UnixServers'
  BY Alone DEF SInv, OnUnix, UnixServers, Starting
<1>5. OneLock'
  BY <1>1, Alone DEF Before, OneLock
<1>6. OneHolder'
  BY <1>1, Alone DEF Before, OneHolder, Alive
<1>7. Before'
  BY <1>5, <1>6, Alone DEF Before, Starting
<1> QED
  BY <1>1, <1>2, <1>3, <1>4, <1>7 DEF SInv, OnUnix

\* On Windows a server that starts is the only one that is busy.
LEMMA OnlyBusy ==
  ASSUME SInv, Windows, NEW s \in Servers, Busy(s)
  PROVE  /\ \A t \in Servers \ {s} : ~Busy(t)
         /\ \A c \in Clients : cl[c].at \notin {"remove", "start"}
  BY DEF SInv, OnWindows, OneServer, WindowsClients

LEMMA TurnsWindows ==
  ASSUME SInv, Windows, NEW s \in Servers, NEW v, Turns(s, v), Busy(s) \/ v.at \in {"gone", "killed"},
         name' \in Nat, sockets' \in Nat, UNCHANGED <<lockfiles, lockname>>,
         v.at \in Starting \cup {"running"} \cup Past,
         v.at \in Starting => name' = 0 /\ sv[s].at \in Starting,
         v.at = "listen" => v.new # 0,
         v.at = "running" => v.listening = {name'},
         v.at \in {"running", "closing"} => name' # 0 /\ v.new = name',
         name' # name => Busy(s)
  PROVE  SInv'
<1>1. Connected' /\ NeverTurnedAway' /\ Calm' /\ Windows' /\ Clients' = Clients
  BY TurnsConnected
<1> USE DEF Turns, ServerBecomes
<1>2. Typed'
  BY <1>1 DEF SInv, Typed
<1>3. \A t \in Servers : Busy(t)' => Busy(t)
  BY DEF Busy, Starting
<1>4. WindowsClients'
  <2>1. \A c \in Clients : cl[c].at \in {"remove", "start"} => ~Busy(s) /\ name' = name
    BY OnlyBusy
  <2> QED
    BY <1>1, <1>3, <2>1 DEF SInv, OnWindows, WindowsClients
<1>5. \A t \in Servers \ {s} : name' # name => ~Busy(t)
  BY OnlyBusy
<1>6. WindowsServers'
  BY <1>1, <1>5 DEF SInv, OnWindows, WindowsServers, Busy
<1>7. OneMutex' /\ OneServer'
  BY <1>1, <1>3 DEF SInv, OnWindows, OneMutex, OneServer
<1> QED
  BY <1>1, <1>2, <1>4, <1>6, <1>7 DEF SInv, OnWindows

\* What the places and the parts of a server become.
LEMMA TurnFacts ==
  ASSUME SInv, NEW s \in Servers, Alive(s), NEW v, v \in ServerRecord, sv' = [sv EXCEPT ![s] = v],
         UNCHANGED <<cl, uses>>, sv[s].at \in Past => v.at \in Past,
         v.backlog = sv[s].backlog, v.pending = sv[s].pending, v.client = sv[s].client,
         v.clients \subseteq sv[s].clients \cup ({sv[s].client} \cap Clients)
  PROVE  Turns(s, v)
  BY ServerSet DEF SInv, Turns

LEMMA BeginStep ==
  ASSUME SInv, NEW s \in Servers, Begin(s)
  PROVE  SInv'
<1>1. sv[s] \in ServerRecord /\ sv[s].at = "begin" /\ UNCHANGED <<cl, sockets, lockname, lockfiles, uses>>
  BY Records DEF SInv, Begin
<1>2. Windows => name = 0 /\ ~Reachable
  BY <1>1 DEF SInv, OnWindows, WindowsServers, Starting, Reachable
<1> DEFINE v == [sv[s] EXCEPT !.at = "bind"]
<1>3. sv' = [sv EXCEPT ![s] = v] /\ name' = 0
  BY <1>2 DEF Begin, Server
<1>4. /\ v \in ServerRecord /\ v.at = "bind" /\ v.lock = sv[s].lock /\ v.exit = sv[s].exit
      /\ v.backlog = sv[s].backlog /\ v.pending = sv[s].pending /\ v.client = sv[s].client
      /\ v.clients = sv[s].clients
  BY <1>1 DEF ServerRecord, ServerPlaces, Starting, Past
<1> HIDE DEF v
<1>5. Turns(s, v)
  BY <1>1, <1>3, <1>4, TurnFacts DEF Alive, Past, Starting
<1>6. name' \in Nat /\ sockets' \in Nat
  BY <1>1, <1>3 DEF SInv, Typed
<1>7. CASE Windows
  BY <1>1, <1>2, <1>3, <1>4, <1>5, <1>6, <1>7, TurnsWindows DEF Busy, Starting, Past
<1>8. CASE ~Windows
  <2>1. ~v.exit
    BY <1>4, <1>8 DEF SInv, OnUnix, UnixServers
  <2> QED
    BY <1>1, <1>3, <1>4, <1>5, <1>6, <1>8, <2>1, TurnsUnix DEF Starting
<1> QED
  BY <1>7, <1>8

LEMMA BindStep ==
  ASSUME SInv, NEW s \in Servers, Bind(s)
  PROVE  SInv'
<1>1. sv[s] \in ServerRecord /\ sv[s].at = "bind" /\ UNCHANGED <<cl, lockname, lockfiles, uses>>
  BY Records DEF SInv, Bind
<1>2. sockets' = sockets + 1 /\ sockets + 1 \in Nat /\ sockets + 1 # 0 /\ name \in Nat
  BY DEF SInv, Typed, Bind
<1>3. Windows => name = 0
  BY <1>1 DEF SInv, OnWindows, WindowsServers, Starting
<1> DEFINE v == [sv[s] EXCEPT !.at = "listen", !.new = sockets + 1,
                              !.listening = IF Windows THEN {sockets + 1} ELSE @]
<1>4. sv' = [sv EXCEPT ![s] = v] /\ name' = IF Windows THEN name ELSE sockets + 1
  BY DEF Bind, Server
<1>5. /\ v \in ServerRecord /\ v.at = "listen" /\ v.lock = sv[s].lock /\ v.exit = sv[s].exit
      /\ v.backlog = sv[s].backlog /\ v.pending = sv[s].pending /\ v.client = sv[s].client
      /\ v.clients = sv[s].clients /\ v.new = sockets + 1
  BY <1>1, <1>2 DEF ServerRecord, ServerPlaces, Starting, Past
<1> HIDE DEF v
<1>6. Turns(s, v)
  BY <1>1, <1>4, <1>5, TurnFacts DEF Alive, Past, Starting
<1>7. CASE Windows
  BY <1>1, <1>2, <1>3, <1>4, <1>5, <1>6, <1>7, TurnsWindows DEF Busy, Starting, Past
<1>8. CASE ~Windows
  <2>1. ~v.exit
    BY <1>5, <1>8 DEF SInv, OnUnix, UnixServers
  <2> QED
    BY <1>1, <1>2, <1>4, <1>5, <1>6, <1>8, <2>1, TurnsUnix DEF Starting
<1> QED
  BY <1>7, <1>8

LEMMA ListenStep ==
  ASSUME SInv, NEW s \in Servers, Listen(s)
  PROVE  SInv'
<1>1. sv[s] \in ServerRecord /\ sv[s].at = "listen" /\ UNCHANGED <<cl, sockets, lockname, lockfiles, uses>>
  BY Records DEF SInv, Listen
<1>2. name \in Nat /\ sockets \in Nat
  BY DEF SInv, Typed
<1> DEFINE v == [sv[s] EXCEPT !.at = IF Windows THEN "running" ELSE "unlock",
                              !.listening = {sv[s].new},
                              !.clients = IF sv[s].client \in Clients THEN {sv[s].client} ELSE {}]
<1>3. sv' = [sv EXCEPT ![s] = v] /\ name' = IF Windows THEN sv[s].new ELSE name
  BY DEF Listen, Server
<1>4. /\ v \in ServerRecord /\ v.at = (IF Windows THEN "running" ELSE "unlock") /\ v.lock = sv[s].lock
      /\ v.exit = sv[s].exit /\ v.backlog = sv[s].backlog /\ v.pending = sv[s].pending
      /\ v.client = sv[s].client /\ v.clients \subseteq {sv[s].client} \cap Clients
      /\ v.new = sv[s].new /\ v.listening = {sv[s].new}
  BY <1>1 DEF ServerRecord, ServerPlaces, Starting, Past
<1> HIDE DEF v
<1>5. Turns(s, v)
  BY <1>1, <1>3, <1>4, TurnFacts DEF Alive, Past, Starting
<1>6. CASE Windows
  <2>1. sv[s].new \in Nat /\ sv[s].new # 0
    BY <1>1, <1>6 DEF ServerRecord, SInv, OnWindows, WindowsServers
  <2> QED
    BY <1>1, <1>2, <1>3, <1>4, <1>5, <1>6, <2>1, TurnsWindows DEF Busy, Starting, Past
<1>7. CASE ~Windows
  <2>1. ~v.exit /\ name = sv[s].new /\ name # 0
    BY <1>1, <1>4, <1>7 DEF SInv, OnUnix, UnixServers
  <2> QED
    BY <1>1, <1>2, <1>3, <1>4, <1>5, <1>7, <2>1, TurnsUnix DEF Starting
<1> QED
  BY <1>6, <1>7

\* From here on the name leads to a server that runs.
LEMMA UnlinkLockStep ==
  ASSUME SInv, NEW s \in Servers, UnlinkLock(s)
  PROVE  SInv'
<1>1. sv[s] \in ServerRecord /\ sv[s].at = "unlock" /\ UNCHANGED <<cl, name, sockets, lockfiles, uses>>
  BY Records DEF SInv, UnlinkLock
<1>2. ~Windows
  BY <1>1 DEF SInv, OnWindows, WindowsServers, Starting, Past
<1> DEFINE v == [sv[s] EXCEPT !.at = "running", !.lock = 0]
<1>3. sv' = [sv EXCEPT ![s] = v] /\ lockname' \in Nat
  BY DEF UnlinkLock, Server, SInv, Typed
<1>4. /\ v \in ServerRecord /\ v.at = "running" /\ v.exit = sv[s].exit
      /\ v.backlog = sv[s].backlog /\ v.pending = sv[s].pending /\ v.client = sv[s].client
      /\ v.clients = sv[s].clients /\ v.new = sv[s].new /\ v.listening = sv[s].listening
  BY <1>1 DEF ServerRecord, ServerPlaces, Starting, Past
<1> HIDE DEF v
<1>5. Turns(s, v)
  BY <1>1, <1>3, <1>4, TurnFacts DEF Alive, Past, Starting
<1>6. Connected' /\ NeverTurnedAway' /\ Calm' /\ ~Windows' /\ Clients' = Clients
  BY <1>2, <1>5, TurnsConnected
<1>7. /\ \A t \in Servers \ {s} : sv[t].at = "killed"
      /\ \A c \in Clients : cl[c].at \notin {"unlink", "start"}
  BY <1>1, <1>2, Alone
<1> USE DEF Turns, ServerBecomes
<1>8. Typed'
  BY <1>1, <1>3, <1>5, <1>6 DEF SInv, Typed
<1>9. UnixClients'
  BY <1>2, <1>5, <1>6 DEF SInv, OnUnix, UnixClients
<1>10. UnixServers'
  BY <1>1, <1>2, <1>4, <1>5 DEF SInv, OnUnix, UnixServers, Starting
<1>11. After'
  BY <1>4, <1>5, <1>6, <1>7 DEF After
<1> QED
  BY <1>6, <1>8, <1>9, <1>10, <1>11 DEF SInv, OnUnix

LEMMA CannotListenStep ==
  ASSUME SInv, NEW s \in Servers, CannotListen(s)
  PROVE  SInv'
<1>1. /\ sv[s] \in ServerRecord /\ sv[s].at \in {"bind", "listen"}
      /\ UNCHANGED <<cl, sockets, lockname, lockfiles, uses>>
  BY Records DEF SInv, CannotListen
<1>2. Windows
  BY DEF SInv, CannotListen, Calm, May
<1>3. name = 0 /\ sockets \in Nat
  BY <1>1, <1>2 DEF SInv, OnWindows, WindowsServers, Starting, Typed
<1> DEFINE v == [sv[s] EXCEPT !.at = IF Windows THEN "gone" ELSE "unlock", !.listening = {}, !.exit = TRUE,
                              !.clients = IF sv[s].client \in Clients THEN {sv[s].client} ELSE {}]
<1>4. sv' = [sv EXCEPT ![s] = v] /\ name' = 0
  BY <1>3 DEF CannotListen, Server
<1>5. /\ v \in ServerRecord /\ v.at = "gone"
      /\ v.backlog = sv[s].backlog /\ v.pending = sv[s].pending /\ v.client = sv[s].client
      /\ v.clients \subseteq {sv[s].client} \cap Clients
  BY <1>1, <1>2 DEF ServerRecord, ServerPlaces, Starting, Past
<1> HIDE DEF v
<1>6. Turns(s, v)
  BY <1>1, <1>4, <1>5, TurnFacts DEF Alive, Past, Starting
<1> QED
  BY <1>1, <1>2, <1>3, <1>4, <1>5, <1>6, TurnsWindows DEF Starting, Past

LEMMA EndsStep ==
  ASSUME SInv, NEW s \in Servers, Ends(s)
  PROVE  SInv'
<1>1. /\ sv[s] \in ServerRecord /\ sv[s].at = "running"
      /\ UNCHANGED <<cl, name, sockets, lockname, lockfiles, uses>>
  BY Records DEF SInv, Ends
<1>2. Windows /\ sockets \in Nat /\ name \in Nat
  BY DEF SInv, Ends, Calm, May, OnUnix, UnixServers, Typed
<1> DEFINE v == [sv[s] EXCEPT !.at = IF Windows THEN "closing" ELSE "ending",
                              !.listening = IF Windows THEN {} ELSE @]
<1>3. sv' = [sv EXCEPT ![s] = v]
  BY DEF Ends, Server
<1>4. /\ v \in ServerRecord /\ v.at = "closing" /\ v.new = sv[s].new
      /\ v.backlog = sv[s].backlog /\ v.pending = sv[s].pending /\ v.client = sv[s].client
      /\ v.clients = sv[s].clients
  BY <1>1, <1>2 DEF ServerRecord, ServerPlaces, Past
<1> HIDE DEF v
<1>5. Turns(s, v)
  BY <1>1, <1>3, <1>4, TurnFacts DEF Alive, Past
<1>6. name # 0 /\ v.new = name
  BY <1>1, <1>2, <1>4 DEF SInv, OnWindows, WindowsServers
<1> QED
  BY <1>1, <1>2, <1>3, <1>4, <1>5, <1>6, TurnsWindows DEF Busy, Starting, Past

\* The endpoint that it deletes is its own: no other server is busy.
LEMMA DeletesEndpointStep ==
  ASSUME SInv, NEW s \in Servers, DeletesEndpoint(s)
  PROVE  SInv'
<1>1. /\ sv[s] \in ServerRecord /\ sv[s].at = "closing"
      /\ UNCHANGED <<cl, sockets, lockname, lockfiles, uses>>
  BY Records DEF SInv, DeletesEndpoint
<1>2. Windows /\ sockets \in Nat
  BY <1>1 DEF SInv, OnUnix, UnixServers, Starting, Typed
<1> DEFINE v == [sv[s] EXCEPT !.at = "ending"]
<1>3. sv' = [sv EXCEPT ![s] = v] /\ name' = 0
  BY DEF DeletesEndpoint, Server
<1>4. /\ v \in ServerRecord /\ v.at = "ending"
      /\ v.backlog = sv[s].backlog /\ v.pending = sv[s].pending /\ v.client = sv[s].client
      /\ v.clients = sv[s].clients
  BY <1>1 DEF ServerRecord, ServerPlaces, Past
<1> HIDE DEF v
<1>5. Turns(s, v)
  BY <1>1, <1>3, <1>4, TurnFacts DEF Alive, Past
<1> QED
  BY <1>1, <1>2, <1>3, <1>4, <1>5, TurnsWindows DEF Busy, Starting, Past

LEMMA ExitsStep ==
  ASSUME SInv, NEW s \in Servers, Exits(s)
  PROVE  SInv'
<1>1. /\ sv[s] \in ServerRecord /\ sv[s].at = "ending"
      /\ UNCHANGED <<cl, name, sockets, lockname, lockfiles, uses>>
  BY Records DEF SInv, Exits
<1>2. Windows /\ sockets \in Nat /\ name \in Nat
  BY <1>1 DEF SInv, OnUnix, UnixServers, Starting, Typed
<1> DEFINE v == [sv[s] EXCEPT !.at = "gone"]
<1>3. sv' = [sv EXCEPT ![s] = v]
  BY DEF Exits, Server
<1>4. /\ v \in ServerRecord /\ v.at = "gone"
      /\ v.backlog = sv[s].backlog /\ v.pending = sv[s].pending /\ v.client = sv[s].client
      /\ v.clients = sv[s].clients
  BY <1>1 DEF ServerRecord, ServerPlaces, Starting, Past
<1> HIDE DEF v
<1>5. Turns(s, v)
  BY <1>1, <1>3, <1>4, TurnFacts DEF Alive, Past, Starting
<1> QED
  BY <1>1, <1>2, <1>3, <1>4, <1>5, TurnsWindows DEF Starting, Past

LEMMA KillServerStep ==
  ASSUME SInv, NEW s \in Servers, KillServer(s)
  PROVE  SInv'
<1>1. /\ sv[s] \in ServerRecord /\ Alive(s) /\ UNCHANGED <<cl, name, sockets, lockname, lockfiles, uses>>
  BY Records DEF SInv, KillServer
<1>2. sockets \in Nat /\ name \in Nat
  BY DEF SInv, Typed
<1> DEFINE v == [sv[s] EXCEPT !.at = "killed", !.listening = IF Windows THEN @ ELSE {}]
<1>3. sv' = [sv EXCEPT ![s] = v]
  BY DEF KillServer, Server
<1>4. /\ v \in ServerRecord /\ v.at = "killed" /\ v.lock = sv[s].lock /\ v.exit = sv[s].exit
      /\ v.backlog = sv[s].backlog /\ v.pending = sv[s].pending /\ v.client = sv[s].client
      /\ v.clients = sv[s].clients
  BY <1>1 DEF ServerRecord, ServerPlaces, Starting, Past
<1> HIDE DEF v
<1>5. Turns(s, v)
  BY <1>1, <1>3, <1>4, TurnFacts DEF Past
<1>6. CASE Windows
  BY <1>1, <1>2, <1>3, <1>4, <1>5, <1>6, TurnsWindows DEF Starting, Past
<1>7. CASE ~Windows
  <2>1. sv[s].at # "running"
    BY <1>7 DEF KillServer, SInv, Calm, May
  <2>2. sv[s].at \in Starting \cup {"unlock"} /\ ~sv[s].exit
    BY <1>1, <1>7, <2>1 DEF SInv, OnUnix, UnixServers, Alive
  <2> QED
    BY <1>1, <1>2, <1>4, <1>5, <1>7, <2>2, TurnsUnix
<1> QED
  BY <1>6, <1>7

LEMMA NotRecreated ==
  ASSUME SInv, NEW s \in Servers
  PROVE  ~Recreate(s) /\ ~Recreated(s)
  BY DEF SInv, Recreate, Recreated, Calm, May, OnUnix, UnixServers, OnWindows, WindowsServers, Starting, Past

-----------------------------------------------------------------------------
(***************************************************************************)
(* The theorems.                                                           *)
(***************************************************************************)
LEMMA StartupNext ==
  ASSUME SInv, [Next]_vars
  PROVE  SInv'
<1>1. ASSUME NEW c \in Clients, ClientStep(c) \/ KillClient(c)
      PROVE  SInv'
  BY <1>1, TryConnectStep, OpenLockStep, TryLockStep, WaitedStep, UnlinkStep, ForkStep, CloseLockStep,
     TakeMutexStep, ConnectAgainStep, RemoveEndpointStep, StartServerStep, RetryStep, LostServerStep,
     KillClientStep DEF ClientStep
<1>2. ASSUME NEW s \in Servers, ServerStep(s) \/ SessionsEnd(s) \/ Recreate(s) \/ KillServer(s)
      PROVE  SInv'
  BY <1>2, BeginStep, BindStep, ListenStep, UnlinkLockStep, CannotListenStep, AcceptStep, AcceptTimerStep,
     HandshakeStep, ServedStep, EndsStep, DeletesEndpointStep, ExitsStep, SessionsEndStep, KillServerStep, NotRecreated
     DEF ServerStep
<1>3. CASE UNCHANGED vars
  <2>1. SamePlaces /\ SameNames /\ Gathers /\ QuietClients /\ Typed'
    BY <1>3 DEF vars, SamePlaces, SameNames, Gathers, QuietClients, Typed, Servers, Clients, SInv
  <2> QED
    BY <2>1, Quiet
<1> QED
  BY <1>1, <1>2, <1>3 DEF Next

LEMMA StartupInit ==
  ASSUME Init, Calm
  PROVE  SInv
<1>1. PICK i \in Instances :
        cl = [c \in 1..i.start + i.others |->
                [at |-> "connect", start |-> c <= i.start, locked |-> FALSE, lock |-> 0, open |-> 0,
                 mutex |-> FALSE, server |-> 0]]
  BY DEF Init
<1>2. i.start \in Nat /\ i.others \in Nat
  BY <1>1, StartupAssumption
<1>3. Clients = 1..i.start + i.others /\ Clients \subseteq Nat \ {0}
  BY <1>1, <1>2 DEF Clients
<1>4. \A c \in Clients :
        /\ cl[c] \in ClientRecord /\ cl[c].at = "connect" /\ ~cl[c].locked /\ cl[c].lock = 0
        /\ cl[c].open = 0 /\ ~cl[c].mutex /\ cl[c].server = 0
  BY <1>1, <1>2, <1>3 DEF ClientRecord, ClientPlaces
<1>5. cl \in [Clients -> ClientRecord]
  BY <1>1, <1>3, <1>4
<1>6. sv = <<>> /\ name = 0 /\ sockets = 0 /\ lockname = 0 /\ lockfiles = 0 /\ Servers = {}
  BY DEF Init, Servers
<1>7. Typed
  BY <1>3, <1>5, <1>6 DEF Typed
<1>8. Connected /\ NeverTurnedAway
  BY <1>4, <1>6 DEF Connected, NeverTurnedAway, Joined, Over
<1>9. OnWindows
  BY <1>4, <1>6 DEF OnWindows, WindowsClients, WindowsServers, OneMutex, OneServer
<1>10. OnUnix
  BY <1>4, <1>6 DEF OnUnix, UnixClients, UnixServers, Before, OneLock, OneHolder
<1> QED
  BY <1>7, <1>8, <1>9, <1>10 DEF SInv

\* The first has the lock, or the mutex, and there is no second.
LEMMA StartsSoundly ==
  ASSUME SInv
  PROVE  StartSound
<1>1. NoOrphans
  BY DEF SInv, NoOrphans, OnUnix, UnixServers, OnWindows, WindowsServers
<1>2. ASSUME NEW x \in Starters, NEW y \in Starters
      PROVE  x = y
  <2> DEFINE C == {c \in Clients : cl[c].at \in {"unlink", "remove", "start"} /\ (cl[c].lock # 0 \/ cl[c].mutex)}
             S == {s \in Servers : sv[s].at \in {"begin", "bind", "listen"}}
  <2>1. \A c, d \in C : c = d
    BY DEF SInv, OnUnix, After, Before, OneHolder, UnixClients, OnWindows, OneMutex, WindowsClients, Over
  <2>2. \A s, t \in S : s = t
    BY DEF SInv, OnUnix, After, Before, OneHolder, Alive, OnWindows, OneServer, Busy, Starting
  <2>3. ASSUME NEW c \in C, NEW s \in S
        PROVE  FALSE
    <3>1. CASE Windows
      BY <3>1 DEF SInv, OnWindows, WindowsClients, Busy, Starting, Over
    <3>2. CASE ~Windows
      <4>1. sv[s].at \in Starting \cup {"unlock"} /\ Alive(s)
        BY DEF Starting, Alive
      <4>2. cl[c].at \notin {"unlink", "start"}
        BY <3>2, <4>1, Alone
      <4> QED
        BY <3>2, <4>2 DEF SInv, OnUnix, UnixClients, Over
    <3> QED
      BY <3>1, <3>2
  <2>4. Starters = {<<"client", c>> : c \in C} \cup {<<"server", s>> : s \in S}
    BY DEF Starters
  <2> HIDE DEF C, S
  <2> QED
    BY <1>2, <2>1, <2>2, <2>3, <2>4
<1>3. OneStarter
  <2>1. CASE Starters = {}
    BY <2>1, FS_EmptySet DEF OneStarter
  <2>2. CASE Starters # {}
    <3>1. PICK x : Starters = {x}
      BY <1>2, <2>2
    <3>2. Cardinality(Starters) = 1
      BY <3>1, FS_Singleton
    <3> QED
      BY <3>2 DEF OneStarter
  <2> QED
    BY <2>1, <2>2
<1> QED
  BY <1>1, <1>3 DEF SInv, StartSound

(***************************************************************************)
(* With any number of clients, and any of them and any server killed on    *)
(* the way to where it runs, one process at a time replaces the socket, no *)
(* server that runs loses its name, and no client that may start a server  *)
(* is turned away, unless by a server that is ending, whose process is     *)
(* there and listens no more (client_connect, client_get_lock,             *)
(* server_start, server_create_socket; client_win32_lock_start_server,     *)
(* win32_ipc_listener_close and the endpoint of win32-ipc.c).              *)
(***************************************************************************)
THEOREM StartsAreSound == Spec /\ Calm => []StartSound
<1>1. Init /\ Calm => SInv
  BY StartupInit
<1>2. SInv /\ [Next]_vars => SInv'
  BY StartupNext
<1>3. SInv => StartSound
  BY StartsSoundly
<1> QED
  BY <1>1, <1>2, <1>3, PTL DEF Spec
=============================================================================
