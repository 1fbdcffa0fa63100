---------------------------- MODULE AttachProofs ----------------------------
(***************************************************************************)
(* A client process and the client in the server agree on who has the      *)
(* terminal and on why they part (module Attach), whatever is done to the  *)
(* client and however often, in whatever order messages and signals come.  *)
(***************************************************************************)
EXTENDS Attach, TLAPS

(***************************************************************************)
(* What is known to go wrong: SIGCONT for a client that is not stopped,    *)
(* whose MSG_WAKEUP is taken for the answer to a later suspension; and     *)
(* MSG_SUSPEND to a client on Windows or in control mode, which ignores it *)
(* (client_dispatch_attached, client_dispatch_wait).                       *)
(***************************************************************************)
Calm == "continue" \notin instance.uses /\ (May("suspend") => ~Windows /\ ~Control)

-----------------------------------------------------------------------------
(***************************************************************************)
(* Messages under way.                                                     *)
(***************************************************************************)
Has(q, S) == \E i \in DOMAIN q : q[i] \in S
Once(q, S) == \A i, j \in DOMAIN q : q[i] \in S /\ q[j] \in S => i = j

ToClient == {"READY", "VERSION", "SHELL", "EXITED", "EXIT", "SHUTDOWN", "DETACH", "DETACHKILL",
             "EXEC", "SUSPEND", "LOCK"}
ToServer == {"IDENTIFY", "COMMAND", "SHELL", "other version", "invalid",
             "RESIZE", "EXITING", "WAKEUP", "UNLOCK"}
Halts == {"SUSPEND", "LOCK"}      \* what makes a client give up the terminal for a while,
Resumes == {"WAKEUP", "UNLOCK"}   \* and what it says when it is back
Detaches == {"DETACH", "DETACHKILL"}

(***************************************************************************)
(* The invariant.                                                          *)
(***************************************************************************)
ProcRecord ==
  [at : {"wait", "attached", "stopped", "locked"} \cup Ended, ready : BOOLEAN,
   reason : {None, "detached", "detached and SIGHUP", "exited", "server exited", "lost server",
             "lost tty", "terminated"},
   exittype : {None, "DETACH", "DETACHKILL", "EXEC"}, exitflag : BOOLEAN, suspended : BOOLEAN,
   quiet : BOOLEAN, signals : SUBSET {"HUP", "TERM", "CONT"}]
ClientRecord ==
  [flags : SUBSET {"IDENTIFIED", "ATTACHED", "SUSPENDED", "EXIT", "EXITED", "DEAD"},
   session : BOOLEAN, tty : BOOLEAN, opened : BOOLEAN,
   exit : {"EXIT", "DETACH", "DETACHKILL", "SHUTDOWN"}, peer : {"up", "bad", "closed"},
   more : BOOLEAN, queue : Nat, why : {None, "gone", "bad", "suspended"}]

Typed ==
  /\ proc \in ProcRecord /\ c \in ClientRecord
  /\ toClient \in Seq(ToClient) /\ toServer \in Seq(ToServer)
  /\ server \in {"up", "gone", "killed"}

Flag(f) == f \in c.flags

\* A process that waits has been told nothing, and one that does not is ready
\* for a terminal.
Process ==
  /\ proc.at = "wait" => ~proc.ready /\ proc.reason = None /\ proc.exittype = None
  /\ proc.at \in {"attached", "stopped", "locked"} => proc.ready
  /\ proc.at \notin Ended => ~proc.exitflag
  /\ "CONT" \in proc.signals => proc.ready
  /\ proc.ready => ~Control /\ Flag("ATTACHED")

\* The flags, the session and the terminal of the client in the server.
InServer ==
  /\ c.session \/ c.tty \/ c.exit \in Detaches => Flag("ATTACHED")
  /\ Flag("SUSPENDED") => ~c.tty /\ Flag("ATTACHED") /\ ~Control
  /\ Flag("DEAD") <=> c.peer = "closed"
  /\ c.more => c.peer = "bad"
  /\ Flag("DEAD") => ~c.tty /\ c.queue = 0
  /\ Flag("DEAD") => c.why \in {"bad", "suspended"} \/ (c.why = "gone" /\ proc.at \in Ended)
  /\ server = "gone" => Flag("DEAD")

\* There is one command, and it attaches the client once.
OneCommand ==
  /\ Once(toServer, {"COMMAND"})
  /\ c.queue # 0 \/ Flag("ATTACHED") => ~Has(toServer, {"COMMAND"})
  /\ Flag("ATTACHED") => c.queue = 0
  /\ c.queue <= 1

\* MSG_READY comes once, and before all that a client is told later.
ReadyFirst ==
  /\ Once(toClient, {"READY"})
  /\ Has(toClient, {"READY"}) => ~proc.ready /\ ~Control /\ Flag("ATTACHED")
  /\ c.peer = "up" /\ ~Flag("ATTACHED") /\ ~Flag("EXIT") => toClient = <<>>
  /\ c.peer = "up" /\ Flag("ATTACHED") /\ ~Control /\ ~proc.ready =>
       toClient # <<>> /\ Head(toClient) = "READY"
  /\ ~Control /\ ~proc.ready /\ (Has(toClient, Halts) \/ Has(toClient, Detaches)) =>
       Head(toClient) = "READY"

\* A client that is suspended: what has been sent, the process that has the
\* message, the signal, or what it has said, one of them at a time.
Sends == Has(toClient, Halts)
Stays == proc.at \in {"stopped", "locked"}
Wakes == "CONT" \in proc.signals
Answers == Has(toServer, Resumes)
OneSuspension ==
  /\ Once(toClient, Halts) /\ Once(toServer, Resumes)
  /\ Sends => ~Stays /\ ~Wakes /\ ~Answers
  /\ Stays => ~Wakes /\ ~Answers
  /\ Wakes => ~Answers
  /\ Sends \/ Stays \/ Wakes \/ Answers => Flag("SUSPENDED")
  /\ Windows => ~Has(toClient, {"SUSPEND"})
  /\ server = "up" /\ Flag("SUSPENDED") /\ c.peer = "up" =>
       Sends \/ Stays \/ Wakes \/ Answers \/ proc.at \in Ended

\* A client that leaves has been told why before it says so, and the server
\* has given up the terminal before the client hears that it has.
Told == proc.reason # None \/ proc.exittype = "EXEC" \/ proc.quiet
Leaving ==
  /\ Has(toClient, {"EXITED"}) => ~c.session /\ ~c.tty
  /\ Has(toClient, {"EXITED"}) \/ Has(toClient, Detaches) \/ Has(toServer, {"EXITING"}) =>
       Flag("ATTACHED")
  /\ Has(toClient, {"EXITED"}) \/ Has(toServer, {"EXITING"}) => Control \/ Told
  /\ proc.at \in {"gone", "exec"} /\ (proc.reason # None \/ proc.exittype # None) =>
       (~c.session /\ ~c.tty /\ Flag("ATTACHED")) \/ server # "up" \/ Flag("DEAD")
  /\ proc.reason = "lost server" =>
       server = "killed" \/ (Flag("DEAD") /\ c.why \in {"bad", "suspended"})
  /\ proc.at = "gone" /\ proc.ready /\ proc.reason = None => proc.quiet

AInv == Typed /\ Calm /\ Process /\ InServer /\ OneCommand /\ ReadyFirst /\ OneSuspension /\ Leaving

-----------------------------------------------------------------------------
(***************************************************************************)
(* A message more at the end of a queue, and one less at its head.         *)
(***************************************************************************)
Same(q, r, S) == (Has(r, S) <=> Has(q, S)) /\ (Once(q, S) => Once(r, S))
More(q, r, S) == Has(r, S) /\ (~Has(q, S) => Once(r, S))
Less(q, r, S) == Has(q, S) /\ (Once(q, S) => ~Has(r, S) /\ Once(r, S))
Grows(q, r, m) == \A S : /\ m \notin S => Same(q, r, S)
                         /\ m \in S => More(q, r, S)
Shrinks(q, r, m) == \A S : /\ m \notin S => Same(q, r, S)
                           /\ m \in S => Less(q, r, S)

LEMMA Appended ==
  ASSUME NEW M, NEW q \in Seq(M), NEW m \in M
  PROVE  /\ Append(q, m) \in Seq(M) /\ Append(q, m) # <<>>
         /\ Grows(q, Append(q, m), m)
         /\ q = <<>> => Head(Append(q, m)) = m
         /\ q # <<>> => Head(Append(q, m)) = Head(q)
<1> DEFINE r == Append(q, m)
<1>1. /\ r \in Seq(M) /\ Len(r) = Len(q) + 1 /\ r[Len(q) + 1] = m /\ DOMAIN r = 1 .. Len(q) + 1
      /\ DOMAIN q = 1 .. Len(q) /\ Len(q) \in Nat /\ \A i \in 1 .. Len(q) : r[i] = q[i]
  OBVIOUS
<1>2. (q = <<>> => Head(r) = m) /\ (q # <<>> => Head(r) = Head(q)) /\ r # <<>>
  OBVIOUS
<1> HIDE DEF r
<1>3. ASSUME NEW S PROVE Has(r, S) <=> Has(q, S) \/ m \in S
  <2>1. CASE Has(r, S)
    <3>1. PICK i \in DOMAIN r : r[i] \in S
      BY <2>1 DEF Has
    <3> QED BY <2>1, <3>1, <1>1 DEF Has
  <2>2. CASE Has(q, S)
    <3>1. PICK i \in DOMAIN q : q[i] \in S
      BY <2>2 DEF Has
    <3>2. i \in DOMAIN r /\ r[i] \in S
      BY <3>1, <1>1
    <3> QED BY <2>2, <3>2 DEF Has
  <2>3. CASE m \in S
    <3>1. Len(q) + 1 \in DOMAIN r /\ r[Len(q) + 1] \in S
      BY <2>3, <1>1
    <3> QED BY <2>3, <3>1 DEF Has
  <2> QED BY <2>1, <2>2, <2>3
<1>4. ASSUME NEW S, Once(q, S), m \in S => ~Has(q, S) PROVE Once(r, S)
  <2> SUFFICES ASSUME NEW i \in DOMAIN r, NEW j \in DOMAIN r, r[i] \in S, r[j] \in S PROVE i = j
    BY DEF Once
  <2>1. CASE i \in 1 .. Len(q) /\ j \in 1 .. Len(q)
    BY <2>1, <1>4, <1>1 DEF Once
  <2>2. CASE i = Len(q) + 1 \/ j = Len(q) + 1
    BY <2>2, <1>4, <1>1 DEF Has
  <2> QED BY <2>1, <2>2, <1>1
<1>5. ASSUME NEW S, ~Has(q, S) PROVE Once(q, S)
  BY <1>5 DEF Has, Once
<1> QED BY <1>1, <1>2, <1>3, <1>4, <1>5 DEF Grows, Same, More, r

LEMMA Taken ==
  ASSUME NEW M, NEW q \in Seq(M), q # <<>>
  PROVE  /\ Tail(q) \in Seq(M) /\ Head(q) \in M
         /\ Shrinks(q, Tail(q), Head(q))
<1> DEFINE r == Tail(q)
           m == Head(q)
<1>1. /\ r \in Seq(M) /\ m \in M /\ Len(q) \in Nat /\ Len(q) >= 1 /\ Len(r) = Len(q) - 1 /\ m = q[1]
      /\ DOMAIN r = 1 .. Len(q) - 1 /\ DOMAIN q = 1 .. Len(q)
      /\ \A i \in 1 .. Len(q) - 1 : r[i] = q[i + 1]
  OBVIOUS
<1> HIDE DEF r, m
<1>2. ASSUME NEW S PROVE Has(q, S) <=> Has(r, S) \/ m \in S
  <2>1. CASE Has(q, S)
    <3>1. PICK i \in DOMAIN q : q[i] \in S
      BY <2>1 DEF Has
    <3>2. CASE i = 1
      BY <3>1, <3>2, <1>1, <2>1
    <3>3. CASE i # 1
      <4>1. i - 1 \in DOMAIN r /\ r[i - 1] \in S
        BY <3>1, <3>3, <1>1
      <4> QED BY <4>1, <2>1 DEF Has
    <3> QED BY <3>2, <3>3
  <2>2. CASE Has(r, S)
    <3>1. PICK i \in DOMAIN r : r[i] \in S
      BY <2>2 DEF Has
    <3>2. i + 1 \in DOMAIN q /\ q[i + 1] \in S
      BY <3>1, <1>1
    <3> QED BY <3>2, <2>2 DEF Has
  <2>3. CASE m \in S
    <3>1. 1 \in DOMAIN q /\ q[1] \in S
      BY <2>3, <1>1
    <3> QED BY <2>3, <3>1 DEF Has
  <2> QED BY <2>1, <2>2, <2>3
<1>3. ASSUME NEW S, Once(q, S) PROVE Once(r, S) /\ (m \in S => ~Has(r, S))
  <2>1. ASSUME NEW i \in DOMAIN r, NEW j \in DOMAIN r, r[i] \in S, r[j] \in S PROVE i = j
    <3>1. i + 1 \in DOMAIN q /\ j + 1 \in DOMAIN q /\ q[i + 1] \in S /\ q[j + 1] \in S
      BY <2>1, <1>1
    <3>2. i + 1 = j + 1
      BY <3>1, <1>3 DEF Once
    <3> QED BY <3>2, <1>1
  <2>2. ASSUME m \in S, NEW i \in DOMAIN r, r[i] \in S PROVE FALSE
    <3>1. i + 1 \in DOMAIN q /\ 1 \in DOMAIN q /\ q[i + 1] \in S /\ q[1] \in S
      BY <2>2, <1>1
    <3>2. i + 1 = 1
      BY <3>1, <1>3 DEF Once
    <3> QED BY <3>2, <1>1
  <2> QED BY <2>1, <2>2 DEF Once, Has
<1> QED BY <1>1, <1>2, <1>3 DEF Shrinks, Same, Less, r, m

LEMMA Nothing == ASSUME NEW S PROVE ~Has(<<>>, S) /\ Once(<<>>, S)
BY DEF Has, Once

LEMMA Tells ==
  ASSUME Typed, NEW m \in ToClient, Tell(m)
  PROVE  /\ toClient' \in Seq(ToClient)
         /\ c.peer # "up" => toClient' = toClient
         /\ c.peer = "up" => /\ Grows(toClient, toClient', m) /\ toClient' # <<>>
                             /\ toClient = <<>> => Head(toClient') = m
                             /\ toClient # <<>> => Head(toClient') = Head(toClient)
BY Appended DEF Typed, Tell

LEMMA Says ==
  ASSUME Typed, NEW m \in ToServer, Say(m)
  PROVE  toServer' \in Seq(ToServer) /\ Grows(toServer, toServer', m)
BY Appended DEF Typed, Say

-----------------------------------------------------------------------------
(***************************************************************************)
(* The beginning.                                                          *)
(***************************************************************************)
LEMMA AtFirst == Init /\ Calm => AInv
<1> SUFFICES ASSUME Init, Calm PROVE AInv
  OBVIOUS
<1>1. /\ toServer \in Seq(ToServer) /\ Once(toServer, {"COMMAND"}) /\ Once(toServer, Resumes)
      /\ ~Has(toServer, Resumes) /\ ~Has(toServer, {"EXITING"})
  <2>1. ASSUME NEW a \in ToServer \ (Resumes \cup {"EXITING", "COMMAND"}),
               NEW b \in ToServer \ (Resumes \cup {"EXITING"}),
               toServer = <<a, b>>
        PROVE  <1>1
    BY <2>1 DEF Has, Once, Resumes
  <2>2. CASE toServer = <<"IDENTIFY", "IDENTIFY", "COMMAND">>
    BY <2>2 DEF ToServer, Has, Once, Resumes
  <2>3. CASE toServer = <<"IDENTIFY", "COMMAND", "invalid">>
    BY <2>3 DEF ToServer, Has, Once, Resumes
  <2> QED BY <2>1, <2>2, <2>3 DEF Init, Greetings, May, ToServer, Resumes
<1>2. toClient = <<>> /\ toClient \in Seq(ToClient) /\ \A S : ~Has(toClient, S) /\ Once(toClient, S)
  BY Nothing DEF Init
<1> QED
  BY <1>1, <1>2
  DEF Init, AInv, Typed, ProcRecord, ClientRecord, Process, InServer, OneCommand, ReadyFirst,
      OneSuspension, Leaving,
      Told, Sends, Stays, Wakes, Answers, Flag, None, Ended, Detaches, Halts

-----------------------------------------------------------------------------
(***************************************************************************)
(* What a step makes of the client in the server and of the process, field *)
(* by field.                                                               *)
(***************************************************************************)
ClientIs(flags, session, tty, exit, peer, queue, why) ==
  /\ c' \in ClientRecord
  /\ c'.flags = flags /\ c'.session = session /\ c'.tty = tty /\ c'.exit = exit
  /\ c'.peer = peer /\ c'.queue = queue /\ c'.why = why
  /\ c'.more => peer = "bad"
ProcIs(at, ready, reason, exittype, exitflag, quiet, signals) ==
  /\ proc' \in ProcRecord
  /\ proc'.at = at /\ proc'.ready = ready /\ proc'.reason = reason /\ proc'.exittype = exittype
  /\ proc'.exitflag = exitflag /\ proc'.quiet = quiet /\ proc'.signals = signals

-----------------------------------------------------------------------------
(***************************************************************************)
(* What is done to the client, and how the two processes end.              *)
(***************************************************************************)
LEMMA DetachKeeps ==
  ASSUME AInv, Detach
  PROVE  AInv'
<1> USE DEF None, Ended, Flag, Halts, Resumes, Detaches
<1>1. \E e \in Detaches : ClientIs(c.flags \cup {"EXIT"}, c.session, c.tty, e, c.peer, c.queue,
                                   c.why)
  <2>1. PICK e \in Detaches : c' = [c EXCEPT !.flags = @ \cup {"EXIT"}, !.exit = e]
    BY DEF Detach, Does
  <2> QED BY <2>1 DEF AInv, Typed, ClientRecord, InServer, ClientIs
<1>2. /\ server' = server /\ server = "up" /\ "DEAD" \notin c.flags /\ c.session
      /\ UNCHANGED <<proc, toClient, toServer, instance>>
  BY DEF AInv, Typed, vars, Detach, Does
<1>3. Typed' /\ Calm'
  BY <1>1, <1>2 DEF AInv, Typed, ClientIs, Calm, May, Windows, Control
<1>4. Process'
  BY <1>1, <1>2 DEF AInv, Typed, ProcRecord, Process, Control, May, ClientIs
<1>5. InServer'
  BY <1>1, <1>2 DEF AInv, Typed, ClientRecord, InServer, Control, May, ClientIs
<1>6. OneCommand'
  BY <1>1, <1>2 DEF AInv, OneCommand, InServer, ClientIs
<1>7. ReadyFirst'
  BY <1>1, <1>2 DEF AInv, ReadyFirst, InServer, Process, Control, May, ClientIs
<1>8. OneSuspension'
  BY <1>1, <1>2
  DEF AInv, OneSuspension, Sends, Stays, Wakes, Answers, InServer, Process, Windows, Control, May,
      Calm, ClientIs
<1>9. Leaving'
  BY <1>1, <1>2 DEF AInv, Leaving, Told, InServer, Process, Control, May, ClientIs
<1> QED BY <1>3, <1>4, <1>5, <1>6, <1>7, <1>8, <1>9 DEF AInv

LEMMA ExecKeeps ==
  ASSUME AInv, Exec
  PROVE  AInv'
<1> USE DEF None, Ended, Flag, Halts, Resumes, Detaches
<1>1. "EXEC" \in ToClient /\ Tell("EXEC")
  BY DEF ToClient, Exec, Does
<1>2. /\ Same(toClient, toClient', {"READY"})
      /\ Same(toClient, toClient', Halts)
      /\ Same(toClient, toClient', Detaches)
      /\ Same(toClient, toClient', {"EXITED"})
      /\ Same(toClient, toClient', {"SUSPEND"})
      /\ Has(toClient, Halts) \/ Has(toClient, Detaches) => toClient # <<>>
      /\ c.peer # "up" => UNCHANGED toClient
  BY <1>1, Tells, Nothing DEF Same, AInv, Grows
<1>3. /\ server' = server /\ server = "up" /\ "DEAD" \notin c.flags /\ c.session
      /\ UNCHANGED <<c, proc, toServer, instance>>
  BY DEF AInv, Typed, vars, Exec, Does
<1>4. Typed' /\ Calm'
  BY <1>3, <1>1, Tells, Nothing DEF AInv, Typed, Calm, May, Windows, Control
<1>5. Process' /\ InServer' /\ OneCommand'
  BY <1>3 DEF AInv, Process, Control, May, InServer, OneCommand
<1>6. ReadyFirst'
  BY <1>3, <1>2, <1>1, Tells DEF AInv, ReadyFirst, InServer, Process, Control, May, Same
<1>7. OneSuspension'
  BY <1>3, <1>2
  DEF AInv, OneSuspension, Sends, Stays, Wakes, Answers, InServer, Process, Windows, Control, May,
      Calm, Same
<1>8. Leaving'
  BY <1>3, <1>2 DEF AInv, Leaving, Told, InServer, Process, Control, May, Same
<1> QED BY <1>4, <1>5, <1>6, <1>7, <1>8 DEF AInv

\* Not suspended before, so no earlier message, signal or answer is on its way.
LEMMA SuspendKeeps ==
  ASSUME AInv, Suspend
  PROVE  AInv'
<1> USE DEF None, Ended, Flag, Halts, Resumes, Detaches
<1>1. ClientIs(c.flags \cup {"SUSPENDED"}, c.session, FALSE, c.exit, c.peer, c.queue, c.why)
  BY DEF AInv, Typed, ClientRecord, InServer, ClientIs, Suspend, Does, Calm, Windows, Control, May
<1>2. "SUSPEND" \in ToClient /\ Tell("SUSPEND")
  BY DEF ToClient, Suspend, Does, Calm, Windows, Control, May
<1>3. /\ Same(toClient, toClient', {"READY"})
      /\ c.peer = "up" => More(toClient, toClient', Halts)
      /\ Same(toClient, toClient', Detaches)
      /\ Same(toClient, toClient', {"EXITED"})
      /\ c.peer = "up" => More(toClient, toClient', {"SUSPEND"})
      /\ Has(toClient, Halts) \/ Has(toClient, Detaches) => toClient # <<>>
      /\ c.peer # "up" => UNCHANGED toClient
  BY <1>2, Tells, Nothing DEF Same, AInv, Grows
<1>4. /\ server' = server /\ server = "up" /\ "DEAD" \notin c.flags /\ c.session
      /\ "SUSPENDED" \notin c.flags /\ ~Control /\ ~Windows
      /\ UNCHANGED <<proc, toServer, instance>>
  BY DEF AInv, Typed, vars, Suspend, Does, Calm, Windows, Control, May
<1>5. Typed' /\ Calm'
  BY <1>1, <1>4, <1>2, Tells, Nothing DEF AInv, Typed, ClientIs, Calm, May, Windows, Control
<1>6. Process'
  BY <1>1, <1>4 DEF AInv, Typed, ProcRecord, Process, Control, May, ClientIs
<1>7. InServer'
  BY <1>1, <1>4 DEF AInv, Typed, ClientRecord, InServer, Control, May, ClientIs
<1>8. OneCommand'
  BY <1>1, <1>3, <1>4 DEF AInv, OneCommand, InServer, ClientIs, Same, More
<1>9. ReadyFirst'
  BY <1>1, <1>4, <1>3, <1>2, Tells
  DEF AInv, ReadyFirst, InServer, Process, Control, May, ClientIs, Same, More
<1>10. OneSuspension'
  BY <1>1, <1>4, <1>3
  DEF AInv, OneSuspension, Sends, Stays, Wakes, Answers, InServer, Process, Windows, Control, May,
      Calm, ClientIs, Same, More
<1>11. Leaving'
  BY <1>1, <1>4, <1>3 DEF AInv, Leaving, Told, InServer, Process, Control, May, ClientIs, Same, More
<1> QED BY <1>5, <1>6, <1>7, <1>8, <1>9, <1>10, <1>11 DEF AInv

LEMMA LockKeeps ==
  ASSUME AInv, Lock
  PROVE  AInv'
<1> USE DEF None, Ended, Flag, Halts, Resumes, Detaches
<1>1. ClientIs(c.flags \cup {"SUSPENDED"}, c.session, FALSE, c.exit, c.peer, c.queue, c.why)
  BY DEF AInv, Typed, ClientRecord, InServer, ClientIs, Lock, Does
<1>2. "LOCK" \in ToClient /\ Tell("LOCK")
  BY DEF ToClient, Lock, Does
<1>3. /\ Same(toClient, toClient', {"READY"})
      /\ c.peer = "up" => More(toClient, toClient', Halts)
      /\ Same(toClient, toClient', Detaches)
      /\ Same(toClient, toClient', {"EXITED"})
      /\ Same(toClient, toClient', {"SUSPEND"})
      /\ Has(toClient, Halts) \/ Has(toClient, Detaches) => toClient # <<>>
      /\ c.peer # "up" => UNCHANGED toClient
  BY <1>2, Tells, Nothing DEF Same, AInv, Grows
<1>4. /\ server' = server /\ server = "up" /\ "DEAD" \notin c.flags /\ c.session
      /\ "SUSPENDED" \notin c.flags /\ ~Control /\ UNCHANGED <<proc, toServer, instance>>
  BY DEF AInv, Typed, vars, Lock, Does
<1>5. Typed' /\ Calm'
  BY <1>1, <1>4, <1>2, Tells, Nothing DEF AInv, Typed, ClientIs, Calm, May, Windows, Control
<1>6. Process'
  BY <1>1, <1>4 DEF AInv, Typed, ProcRecord, Process, Control, May, ClientIs
<1>7. InServer'
  BY <1>1, <1>4 DEF AInv, Typed, ClientRecord, InServer, Control, May, ClientIs
<1>8. OneCommand'
  BY <1>1, <1>3, <1>4 DEF AInv, OneCommand, InServer, ClientIs, Same, More
<1>9. ReadyFirst'
  BY <1>1, <1>4, <1>3, <1>2, Tells
  DEF AInv, ReadyFirst, InServer, Process, Control, May, ClientIs, Same, More
<1>10. OneSuspension'
  BY <1>1, <1>4, <1>3
  DEF AInv, OneSuspension, Sends, Stays, Wakes, Answers, InServer, Process, Windows, Control, May,
      Calm, ClientIs, Same, More
<1>11. Leaving'
  BY <1>1, <1>4, <1>3 DEF AInv, Leaving, Told, InServer, Process, Control, May, ClientIs, Same, More
<1> QED BY <1>5, <1>6, <1>7, <1>8, <1>9, <1>10, <1>11 DEF AInv

LEMMA DestroyKeeps ==
  ASSUME AInv, Destroy
  PROVE  AInv'
<1> USE DEF None, Ended, Flag, Halts, Resumes, Detaches
<1>1. ClientIs(c.flags \cup {"EXIT"}, FALSE, c.tty, c.exit, c.peer, c.queue, c.why)
  BY DEF AInv, Typed, ClientRecord, InServer, ClientIs, Destroy, Does
<1>2. /\ server' = server /\ server = "up" /\ "DEAD" \notin c.flags /\ c.session
      /\ UNCHANGED <<proc, toClient, toServer, instance>>
  BY DEF AInv, Typed, vars, Destroy, Does
<1>3. Typed' /\ Calm'
  BY <1>1, <1>2 DEF AInv, Typed, ClientIs, Calm, May, Windows, Control
<1>4. Process'
  BY <1>1, <1>2 DEF AInv, Typed, ProcRecord, Process, Control, May, ClientIs
<1>5. InServer'
  BY <1>1, <1>2 DEF AInv, Typed, ClientRecord, InServer, Control, May, ClientIs
<1>6. OneCommand'
  BY <1>1, <1>2 DEF AInv, OneCommand, InServer, ClientIs
<1>7. ReadyFirst'
  BY <1>1, <1>2 DEF AInv, ReadyFirst, InServer, Process, Control, May, ClientIs
<1>8. OneSuspension'
  BY <1>1, <1>2
  DEF AInv, OneSuspension, Sends, Stays, Wakes, Answers, InServer, Process, Windows, Control, May,
      Calm, ClientIs
<1>9. Leaving'
  BY <1>1, <1>2 DEF AInv, Leaving, Told, InServer, Process, Control, May, ClientIs
<1> QED BY <1>3, <1>4, <1>5, <1>6, <1>7, <1>8, <1>9 DEF AInv

LEMMA ShutdownKeeps ==
  ASSUME AInv, Shutdown
  PROVE  AInv'
<1> USE DEF None, Ended, Flag, Halts, Resumes, Detaches
<1>1. /\ \/ ClientIs(c.flags \cup {"EXIT"}, FALSE, c.tty, "SHUTDOWN", c.peer, c.queue, c.why)
      /\ "SUSPENDED" \notin c.flags
      \/ ClientIs(c.flags \cup {"DEAD"}, FALSE, FALSE, c.exit, "closed", 0, "suspended")
  BY DEF AInv, Typed, ClientRecord, InServer, ClientIs, Shutdown, Does, LostTo
<1>2. /\ server' = server /\ server = "up" /\ "DEAD" \notin c.flags
      /\ UNCHANGED <<proc, toClient, toServer, instance>>
  BY DEF AInv, Typed, vars, Shutdown, Does, LostTo
<1>3. Typed' /\ Calm'
  BY <1>1, <1>2 DEF AInv, Typed, ClientIs, Calm, May, Windows, Control
<1>4. Process'
  BY <1>1, <1>2 DEF AInv, Typed, ProcRecord, Process, Control, May, ClientIs
<1>5. InServer'
  BY <1>1, <1>2 DEF AInv, Typed, ClientRecord, InServer, Control, May, ClientIs
<1>6. OneCommand'
  BY <1>1, <1>2 DEF AInv, OneCommand, InServer, ClientIs
<1>7. ReadyFirst'
  BY <1>1, <1>2 DEF AInv, ReadyFirst, InServer, Process, Control, May, ClientIs
<1>8. OneSuspension'
  BY <1>1, <1>2
  DEF AInv, OneSuspension, Sends, Stays, Wakes, Answers, InServer, Process, Windows, Control, May,
      Calm, ClientIs
<1>9. Leaving'
  BY <1>1, <1>2 DEF AInv, Leaving, Told, InServer, Process, Control, May, ClientIs
<1> QED BY <1>3, <1>4, <1>5, <1>6, <1>7, <1>8, <1>9 DEF AInv

LEMMA ServerEndsKeeps ==
  ASSUME AInv, ServerEnds
  PROVE  AInv'
<1> USE DEF None, Ended, Flag, Halts, Resumes, Detaches
<1>1. /\ server = "up" /\ server' = "gone" /\ "DEAD" \in c.flags
      /\ UNCHANGED <<c, proc, toClient, toServer, instance>>
  BY DEF AInv, Typed, vars, ServerEnds
<1>2. Typed' /\ Calm'
  BY <1>1 DEF AInv, Typed, Calm, May, Windows, Control
<1>3. Process' /\ OneCommand' /\ ReadyFirst'
  BY <1>1 DEF AInv, Process, Control, May, OneCommand, InServer, ReadyFirst
<1>4. InServer'
  BY <1>1 DEF AInv, Typed, ClientRecord, InServer, Control, May
<1>5. OneSuspension'
  BY <1>1
  DEF AInv, OneSuspension, Sends, Stays, Wakes, Answers, InServer, Process, Windows, Control, May,
      Calm
<1>6. Leaving'
  BY <1>1 DEF AInv, Leaving, Told, InServer, Process, Control, May
<1> QED BY <1>2, <1>3, <1>4, <1>5, <1>6 DEF AInv

LEMMA ServerLosesKeeps ==
  ASSUME AInv, ServerLoses
  PROVE  AInv'
<1> USE DEF None, Ended, Flag, Halts, Resumes, Detaches
<1>1. /\ \/ proc.at \in Ended
      /\ ClientIs(c.flags \cup {"DEAD"}, c.session, FALSE, c.exit, "closed", 0, "gone")
      \/ ClientIs(c.flags \cup {"DEAD"}, c.session, FALSE, c.exit, "closed", 0, "bad")
  <2>1. \E w \in {"gone", "bad"} : c' = LostTo(w) /\ (w = "gone" => proc.at \in Ended)
    BY DEF ServerLoses
  <2>2. PICK w \in {"gone", "bad"} : c' = LostTo(w) /\ (w = "gone" => proc.at \in Ended)
    BY <2>1
  <2>3. ~c.more
    BY DEF ServerLoses
  <2>4. ClientIs(c.flags \cup {"DEAD"}, c.session, FALSE, c.exit, "closed", 0, w)
    BY <2>2, <2>3 DEF AInv, Typed, ClientRecord, ClientIs, LostTo
  <2> QED BY <2>2, <2>4
<1>2. /\ server' = server /\ server = "up" /\ c.peer # "closed"
      /\ UNCHANGED <<proc, toClient, toServer, instance>>
  BY DEF AInv, Typed, vars, ServerLoses, LostTo
<1>3. Typed' /\ Calm'
  BY <1>1, <1>2 DEF AInv, Typed, ClientIs, Calm, May, Windows, Control
<1>4. Process'
  BY <1>1, <1>2 DEF AInv, Typed, ProcRecord, Process, Control, May, ClientIs
<1>5. InServer'
  BY <1>1, <1>2 DEF AInv, Typed, ClientRecord, InServer, Control, May, ClientIs
<1>6. OneCommand'
  BY <1>1, <1>2 DEF AInv, OneCommand, InServer, ClientIs
<1>7. ReadyFirst'
  BY <1>1, <1>2 DEF AInv, ReadyFirst, InServer, Process, Control, May, ClientIs
<1>8. OneSuspension'
  BY <1>1, <1>2
  DEF AInv, OneSuspension, Sends, Stays, Wakes, Answers, InServer, Process, Windows, Control, May,
      Calm, ClientIs
<1>9. Leaving'
  BY <1>1, <1>2 DEF AInv, Leaving, Told, InServer, Process, Control, May, ClientIs
<1> QED BY <1>3, <1>4, <1>5, <1>6, <1>7, <1>8, <1>9 DEF AInv

LEMMA KillClientKeeps ==
  ASSUME AInv, KillClient
  PROVE  AInv'
<1> USE DEF None, Ended, Flag, Halts, Resumes, Detaches
<1>1. ProcIs("killed", proc.ready, proc.reason, proc.exittype, proc.exitflag, proc.quiet,
             proc.signals)
  BY DEF AInv, Typed, ProcRecord, ProcIs, KillClient
<1>2. server' = server /\ proc.at \notin Ended /\ UNCHANGED <<c, toClient, toServer, instance>>
  BY DEF AInv, Typed, vars, KillClient
<1>3. Typed' /\ Calm'
  BY <1>2, <1>1 DEF AInv, Typed, ProcIs, Calm, May, Windows, Control
<1>4. Process'
  BY <1>2, <1>1 DEF AInv, Typed, ProcRecord, Process, Control, May, ProcIs
<1>5. InServer'
  BY <1>2, <1>1 DEF AInv, Typed, ClientRecord, InServer, Control, May, ProcIs
<1>6. OneCommand'
  BY <1>2 DEF AInv, OneCommand, InServer
<1>7. ReadyFirst'
  BY <1>2, <1>1 DEF AInv, ReadyFirst, InServer, Process, Control, May, ProcIs
<1>8. OneSuspension'
  BY <1>2, <1>1
  DEF AInv, OneSuspension, Sends, Stays, Wakes, Answers, InServer, Process, Windows, Control, May,
      Calm, ProcIs
<1>9. Leaving'
  BY <1>2, <1>1 DEF AInv, Leaving, Told, InServer, Process, Control, May, ProcIs
<1> QED BY <1>3, <1>4, <1>5, <1>6, <1>7, <1>8, <1>9 DEF AInv

LEMMA KillServerKeeps ==
  ASSUME AInv, KillServer
  PROVE  AInv'
<1> USE DEF None, Ended, Flag, Halts, Resumes, Detaches
<1>1. server = "up" /\ server' = "killed" /\ UNCHANGED <<c, proc, toClient, toServer, instance>>
  BY DEF AInv, Typed, vars, KillServer
<1>2. Typed' /\ Calm'
  BY <1>1 DEF AInv, Typed, Calm, May, Windows, Control
<1>3. Process' /\ OneCommand' /\ ReadyFirst'
  BY <1>1 DEF AInv, Process, Control, May, OneCommand, InServer, ReadyFirst
<1>4. InServer'
  BY <1>1 DEF AInv, Typed, ClientRecord, InServer, Control, May
<1>5. OneSuspension'
  BY <1>1
  DEF AInv, OneSuspension, Sends, Stays, Wakes, Answers, InServer, Process, Windows, Control, May,
      Calm
<1>6. Leaving'
  BY <1>1 DEF AInv, Leaving, Told, InServer, Process, Control, May
<1> QED BY <1>2, <1>3, <1>4, <1>5, <1>6 DEF AInv

LEMMA SentKeeps ==
  ASSUME AInv, (\E s \in {"HUP", "TERM", "CONT"} : Sent(s))
  PROVE  AInv'
<1> USE DEF None, Ended, Flag, Halts, Resumes, Detaches
<1>1. \/ \E s \in {"HUP", "TERM"} : ProcIs(proc.at, proc.ready, proc.reason, proc.exittype,
                                           proc.exitflag, proc.quiet, proc.signals \cup {s})
      \/ proc.at = "stopped" /\ ProcIs("attached", proc.ready, proc.reason, proc.exittype,
                                       proc.exitflag, proc.quiet, proc.signals \cup {"CONT"})
  <2>1. PICK s \in {"HUP", "TERM", "CONT"} : Sent(s)
    OBVIOUS
  <2>2. CASE s = "CONT"
    BY <2>1, <2>2 DEF AInv, Typed, ProcRecord, ProcIs, Sent, Calm, May
  <2>3. CASE s \in {"HUP", "TERM"}
    BY <2>1, <2>3 DEF AInv, Typed, ProcRecord, ProcIs, Sent
  <2> QED BY <2>2, <2>3
<1>2. server' = server /\ UNCHANGED <<c, toClient, toServer, instance>>
  BY DEF AInv, Typed, vars, Sent
<1>3. Typed' /\ Calm'
  BY <1>2, <1>1 DEF AInv, Typed, ProcIs, Calm, May, Windows, Control
<1>4. Process'
  BY <1>2, <1>1 DEF AInv, Typed, ProcRecord, Process, Control, May, ProcIs
<1>5. InServer'
  BY <1>2, <1>1 DEF AInv, Typed, ClientRecord, InServer, Control, May, ProcIs
<1>6. OneCommand'
  BY <1>2 DEF AInv, OneCommand, InServer
<1>7. ReadyFirst'
  BY <1>2, <1>1 DEF AInv, ReadyFirst, InServer, Process, Control, May, ProcIs
<1>8. OneSuspension'
  BY <1>2, <1>1
  DEF AInv, OneSuspension, Sends, Stays, Wakes, Answers, InServer, Process, Windows, Control, May,
      Calm, ProcIs
<1>9. Leaving'
  BY <1>2, <1>1 DEF AInv, Leaving, Told, InServer, Process, Control, May, ProcIs
<1> QED BY <1>3, <1>4, <1>5, <1>6, <1>7, <1>8, <1>9 DEF AInv

LEMMA ContinuesKeeps ==
  ASSUME AInv, Continues
  PROVE  AInv'
<1> USE DEF None, Ended, Flag, Halts, Resumes, Detaches
<1>1. /\ proc.at = "stopped"
      /\ ProcIs("attached", proc.ready, proc.reason, proc.exittype, proc.exitflag, proc.quiet,
                proc.signals \cup {"CONT"})
  BY DEF AInv, Typed, ProcRecord, ProcIs, Continues
<1>2. server' = server /\ UNCHANGED <<c, toClient, toServer, instance>>
  BY DEF AInv, Typed, vars, Continues
<1>3. Typed' /\ Calm'
  BY <1>2, <1>1 DEF AInv, Typed, ProcIs, Calm, May, Windows, Control
<1>4. Process'
  BY <1>2, <1>1 DEF AInv, Typed, ProcRecord, Process, Control, May, ProcIs
<1>5. InServer'
  BY <1>2, <1>1 DEF AInv, Typed, ClientRecord, InServer, Control, May, ProcIs
<1>6. OneCommand'
  BY <1>2 DEF AInv, OneCommand, InServer
<1>7. ReadyFirst'
  BY <1>2, <1>1 DEF AInv, ReadyFirst, InServer, Process, Control, May, ProcIs
<1>8. OneSuspension'
  BY <1>2, <1>1
  DEF AInv, OneSuspension, Sends, Stays, Wakes, Answers, InServer, Process, Windows, Control, May,
      Calm, ProcIs
<1>9. Leaving'
  BY <1>2, <1>1 DEF AInv, Leaving, Told, InServer, Process, Control, May, ProcIs
<1> QED BY <1>3, <1>4, <1>5, <1>6, <1>7, <1>8, <1>9 DEF AInv

LEMMA UnlocksKeeps ==
  ASSUME AInv, Unlocks
  PROVE  AInv'
<1> USE DEF None, Ended, Flag, Halts, Resumes, Detaches
<1>1. /\ proc.at = "locked"
      /\ ProcIs("attached", proc.ready, proc.reason, proc.exittype, proc.exitflag, proc.quiet,
                proc.signals)
  BY DEF AInv, Typed, ProcRecord, ProcIs, Unlocks
<1>2. "UNLOCK" \in ToServer /\ Say("UNLOCK")
  BY DEF ToServer, Unlocks
<1>3. /\ Same(toServer, toServer', {"COMMAND"})
      /\ More(toServer, toServer', Resumes)
      /\ Same(toServer, toServer', {"EXITING"})
  BY <1>2, Says DEF Same, AInv, Grows
<1>4. server' = server /\ UNCHANGED <<c, toClient, instance>>
  BY DEF AInv, Typed, vars, Unlocks
<1>5. Typed' /\ Calm'
  BY <1>4, <1>1, <1>2, Says DEF AInv, Typed, ProcIs, Calm, May, Windows, Control
<1>6. Process'
  BY <1>4, <1>1 DEF AInv, Typed, ProcRecord, Process, Control, May, ProcIs
<1>7. InServer'
  BY <1>4, <1>1 DEF AInv, Typed, ClientRecord, InServer, Control, May, ProcIs
<1>8. OneCommand'
  BY <1>4, <1>3 DEF AInv, OneCommand, InServer, Same, More
<1>9. ReadyFirst'
  BY <1>4, <1>1, <1>3 DEF AInv, ReadyFirst, InServer, Process, Control, May, ProcIs, Same, More
<1>10. OneSuspension'
  BY <1>4, <1>1, <1>3
  DEF AInv, OneSuspension, Sends, Stays, Wakes, Answers, InServer, Process, Windows, Control, May,
      Calm, ProcIs, Same, More
<1>11. Leaving'
  BY <1>4, <1>1, <1>3 DEF AInv, Leaving, Told, InServer, Process, Control, May, ProcIs, Same, More
<1> QED BY <1>5, <1>6, <1>7, <1>8, <1>9, <1>10, <1>11 DEF AInv

\* The server closes the connection of a client that has not ended when it
\* refuses it or is shut down; else it was killed.
LEMMA ClientLosesKeeps ==
  ASSUME AInv, ClientLoses
  PROVE  AInv'
<1> USE DEF None, Ended, Flag, Halts, Resumes, Detaches
<1>1. \E e \in {"gone", "exec"} : ProcIs(e, proc.ready, "lost server", proc.exittype,
                                         proc.exitflag, proc.quiet, proc.signals)
  <2>1. PICK e \in {"gone", "exec"} : proc' = [proc EXCEPT !.at = e, !.reason = "lost server"]
    BY DEF ClientLoses, Exits, Reason, AInv, Process, Typed, ProcRecord
  <2> QED BY <2>1 DEF AInv, Typed, ProcRecord, ProcIs
<1>2. server' = server /\ proc.at \notin Ended
      /\ toClient = <<>> /\ (server # "up" \/ c.peer = "closed")
      /\ UNCHANGED <<c, toClient, toServer, instance>>
  BY DEF AInv, Typed, vars, ClientLoses, Exits, Reason, Process
<1>3. Typed' /\ Calm'
  BY <1>2, <1>1 DEF AInv, Typed, ProcIs, Calm, May, Windows, Control
<1>4. Process'
  BY <1>2, <1>1 DEF AInv, Typed, ProcRecord, Process, Control, May, ProcIs
<1>5. InServer'
  BY <1>2, <1>1 DEF AInv, Typed, ClientRecord, InServer, Control, May, ProcIs
<1>6. OneCommand'
  BY <1>2 DEF AInv, OneCommand, InServer
<1>7. ReadyFirst'
  BY <1>2, <1>1 DEF AInv, ReadyFirst, InServer, Process, Control, May, ProcIs
<1>8. OneSuspension'
  BY <1>2, <1>1
  DEF AInv, OneSuspension, Sends, Stays, Wakes, Answers, InServer, Process, Windows, Control, May,
      Calm, ProcIs
<1>9. Leaving'
  <2>1. server = "killed" \/ (Flag("DEAD") /\ c.why \in {"bad", "suspended"})
    BY <1>2 DEF AInv, Typed, InServer
  <2> QED BY <2>1, <1>2, <1>1 DEF AInv, Leaving, Told, ProcIs
<1> QED BY <1>3, <1>4, <1>5, <1>6, <1>7, <1>8, <1>9 DEF AInv

-----------------------------------------------------------------------------
(***************************************************************************)
(* What the server does: a message of each kind, and what is due.          *)
(***************************************************************************)
LEMMA DispatchedKeeps ==
  ASSUME AInv, Dispatched
  PROVE  AInv'
<1> USE DEF None, Ended, Flag, Halts, Resumes, Detaches
<1>1. ClientIs(c.flags, c.session, c.tty, c.exit, c.peer, c.queue, c.why)
  BY DEF AInv, Typed, ClientRecord, ClientIs, Dispatched
<1>2. server' = server /\ UNCHANGED <<proc, toClient, toServer, instance>>
  BY DEF Dispatched
<1>3. Typed' /\ Calm'
  BY <1>1, <1>2 DEF AInv, Typed, ClientIs, Calm, May, Windows, Control
<1>4. Process' /\ InServer' /\ OneCommand'
  BY <1>1, <1>2 DEF AInv, Process, InServer, OneCommand, Control, May, ClientIs
<1>5. ReadyFirst' /\ OneSuspension'
  BY <1>1, <1>2
  DEF AInv, ReadyFirst, OneSuspension, Sends, Stays, Wakes, Answers, Windows, Control, May, ClientIs
<1>6. Leaving'
  BY <1>1, <1>2 DEF AInv, Leaving, Told, Control, May, ClientIs
<1> QED BY <1>3, <1>4, <1>5, <1>6 DEF AInv

LEMMA TakesIdentify ==
  ASSUME AInv, ServerReceives /\ Head(toServer) = "IDENTIFY"
  PROVE  AInv'
<1> USE DEF None, Ended, Flag, Halts, Resumes, Detaches
<1>1. /\ Identify
      /\ server = "up" /\ (c.peer = "up" \/ c.more) /\ toServer # <<>> /\ Head(toServer) = "IDENTIFY"
      /\ toServer' = Tail(toServer)
      /\ UNCHANGED <<proc, server, instance>>
  BY DEF ServerReceives
<1>2. \/ ClientIs(c.flags, c.session, c.tty, c.exit, "bad", c.queue, c.why)
      \/ ClientIs(c.flags \cup {"IDENTIFIED"}, c.session, c.tty, c.exit, c.peer, c.queue, c.why)
  <2>1. CASE c' = Killed
    BY <2>1 DEF AInv, Typed, ClientRecord, ClientIs, Killed
  <2>2. CASE c' = [c EXCEPT !.flags = @ \cup {"IDENTIFIED"}]
    <3>1. c' \in ClientRecord
      BY <2>2 DEF AInv, Typed, ClientRecord
    <3> QED BY <2>2, <3>1 DEF AInv, Typed, ClientRecord, InServer, ClientIs
  <2> QED BY <1>1, <2>1, <2>2 DEF Identify
<1>3. toServer # <<>> /\ Head(toServer) \in {"IDENTIFY"} /\ toServer' = Tail(toServer)
  BY <1>1 DEF Identify
<1>4. toServer' \in Seq(ToServer) /\ Shrinks(toServer, toServer', Head(toServer))
  BY <1>3, Taken DEF AInv, Typed
<1>5. /\ Same(toServer, toServer', {"COMMAND"})
      /\ Same(toServer, toServer', Resumes)
      /\ Same(toServer, toServer', {"EXITING"})
  BY <1>3, <1>4 DEF Same, AInv, Shrinks
<1>6. server' = server /\ server = "up" /\ (c.peer = "up" \/ c.more) /\ UNCHANGED <<proc, toClient, instance>>
  BY <1>1 DEF AInv, Typed, vars, Identify
<1>7. Typed' /\ Calm'
  BY <1>2, <1>6, <1>3, <1>4 DEF AInv, Typed, ClientIs, Calm, May, Windows, Control
<1>8. Process'
  BY <1>2, <1>6 DEF AInv, Typed, ProcRecord, Process, Control, May, ClientIs
<1>9. InServer'
  BY <1>2, <1>6 DEF AInv, Typed, ClientRecord, InServer, Control, May, ClientIs
<1>10. OneCommand'
  BY <1>2, <1>5, <1>6 DEF AInv, OneCommand, InServer, ClientIs, Same
<1>11. ReadyFirst'
  BY <1>2, <1>6, <1>5 DEF AInv, ReadyFirst, InServer, Process, Control, May, ClientIs, Same
<1>12. OneSuspension'
  BY <1>2, <1>6, <1>5
  DEF AInv, OneSuspension, Sends, Stays, Wakes, Answers, InServer, Process, Windows, Control, May,
      Calm, ClientIs, Same
<1>13. Leaving'
  BY <1>2, <1>6, <1>5 DEF AInv, Leaving, Told, InServer, Process, Control, May, ClientIs, Same
<1> QED BY <1>7, <1>8, <1>9, <1>10, <1>11, <1>12, <1>13 DEF AInv

\* There has been no command before, so the queue stays at one.
LEMMA TakesCommand ==
  ASSUME AInv, ServerReceives /\ Head(toServer) = "COMMAND"
  PROVE  AInv'
<1> USE DEF None, Ended, Flag, Halts, Resumes, Detaches
<1>1. /\ Command
      /\ server = "up" /\ (c.peer = "up" \/ c.more) /\ toServer # <<>> /\ Head(toServer) = "COMMAND"
      /\ toServer' = Tail(toServer)
      /\ UNCHANGED <<proc, server, instance>>
  BY DEF ServerReceives
<1>2. \/ UNCHANGED c
      \/ ClientIs(c.flags, c.session, c.tty, c.exit, c.peer, c.queue + 1, c.why)
  <2>1. CASE c' = [c EXCEPT !.queue = @ + 1]
    <3>1. c' \in ClientRecord
      BY <2>1 DEF AInv, Typed, ClientRecord
    <3> QED BY <2>1, <3>1 DEF AInv, Typed, ClientRecord, InServer, ClientIs
  <2> QED BY <1>1, <2>1 DEF Command
<1>3. toServer # <<>> /\ Head(toServer) \in {"COMMAND"} /\ toServer' = Tail(toServer)
  BY <1>1 DEF Command
<1>4. toServer' \in Seq(ToServer) /\ Shrinks(toServer, toServer', Head(toServer))
  BY <1>3, Taken DEF AInv, Typed
<1>5. /\ Less(toServer, toServer', {"COMMAND"})
      /\ Same(toServer, toServer', Resumes)
      /\ Same(toServer, toServer', {"EXITING"})
  BY <1>3, <1>4 DEF Same, AInv, Shrinks
<1>6. server' = server /\ server = "up" /\ (c.peer = "up" \/ c.more) /\ UNCHANGED <<proc, toClient, instance>>
  BY <1>1 DEF AInv, Typed, vars, Command
<1>7. Typed' /\ Calm'
  BY <1>2, <1>6, <1>3, <1>4 DEF AInv, Typed, ClientIs, Calm, May, Windows, Control
<1>8. Process'
  BY <1>2, <1>6 DEF AInv, Typed, ProcRecord, Process, Control, May, ClientIs
<1>9. InServer'
  BY <1>2, <1>6 DEF AInv, Typed, ClientRecord, InServer, Control, May, ClientIs
<1>10. OneCommand'
  BY <1>2, <1>5, <1>6 DEF AInv, OneCommand, InServer, ClientIs, Same, Less
<1>11. ReadyFirst'
  BY <1>2, <1>6, <1>5 DEF AInv, ReadyFirst, InServer, Process, Control, May, ClientIs, Same, Less
<1>12. OneSuspension'
  BY <1>2, <1>6, <1>5
  DEF AInv, OneSuspension, Sends, Stays, Wakes, Answers, InServer, Process, Windows, Control, May,
      Calm, ClientIs, Same, Less
<1>13. Leaving'
  BY <1>2, <1>6, <1>5 DEF AInv, Leaving, Told, InServer, Process, Control, May, ClientIs, Same, Less
<1> QED BY <1>7, <1>8, <1>9, <1>10, <1>11, <1>12, <1>13 DEF AInv

LEMMA TakesShell ==
  ASSUME AInv, ServerReceives /\ Head(toServer) = "SHELL"
  PROVE  AInv'
<1> USE DEF None, Ended, Flag, Halts, Resumes, Detaches
<1>1. /\ Shell
      /\ server = "up" /\ (c.peer = "up" \/ c.more) /\ toServer # <<>> /\ Head(toServer) = "SHELL"
      /\ toServer' = Tail(toServer)
      /\ UNCHANGED <<proc, server, instance>>
  BY DEF ServerReceives
<1>2. ClientIs(c.flags, c.session, c.tty, c.exit, "bad", c.queue, c.why)
  BY <1>1 DEF AInv, Typed, ClientRecord, InServer, ClientIs, Shell, Killed
<1>3. "SHELL" \in ToClient /\ Tell("SHELL")
  BY <1>1 DEF ToClient, Shell
<1>4. toServer # <<>> /\ Head(toServer) \in {"SHELL"} /\ toServer' = Tail(toServer)
  BY <1>1 DEF Shell
<1>5. toServer' \in Seq(ToServer) /\ Shrinks(toServer, toServer', Head(toServer))
  BY <1>4, Taken DEF AInv, Typed
<1>6. /\ Same(toClient, toClient', {"READY"})
      /\ Same(toClient, toClient', Halts)
      /\ Same(toClient, toClient', Detaches)
      /\ Same(toClient, toClient', {"EXITED"})
      /\ Same(toClient, toClient', {"SUSPEND"})
      /\ Same(toServer, toServer', {"COMMAND"})
      /\ Same(toServer, toServer', Resumes)
      /\ Same(toServer, toServer', {"EXITING"})
      /\ Has(toClient, Halts) \/ Has(toClient, Detaches) => toClient # <<>>
      /\ c.peer # "up" => UNCHANGED toClient
  BY <1>3, Tells, <1>4, <1>5, Nothing DEF Same, AInv, Grows, Shrinks
<1>7. server' = server /\ server = "up" /\ (c.peer = "up" \/ c.more) /\ UNCHANGED <<proc, instance>>
  BY <1>1 DEF AInv, Typed, vars, Shell
<1>8. Typed' /\ Calm'
  BY <1>2, <1>7, <1>3, Tells, <1>4, <1>5, Nothing
  DEF AInv, Typed, ClientIs, Calm, May, Windows, Control
<1>9. Process'
  BY <1>2, <1>7 DEF AInv, Typed, ProcRecord, Process, Control, May, ClientIs
<1>10. InServer'
  BY <1>2, <1>7 DEF AInv, Typed, ClientRecord, InServer, Control, May, ClientIs
<1>11. OneCommand'
  BY <1>2, <1>6, <1>7 DEF AInv, OneCommand, InServer, ClientIs, Same
<1>12. ReadyFirst'
  BY <1>2, <1>7, <1>6, <1>3, Tells
  DEF AInv, ReadyFirst, InServer, Process, Control, May, ClientIs, Same
<1>13. OneSuspension'
  BY <1>2, <1>7, <1>6
  DEF AInv, OneSuspension, Sends, Stays, Wakes, Answers, InServer, Process, Windows, Control, May,
      Calm, ClientIs, Same
<1>14. Leaving'
  BY <1>2, <1>7, <1>6 DEF AInv, Leaving, Told, InServer, Process, Control, May, ClientIs, Same
<1> QED BY <1>8, <1>9, <1>10, <1>11, <1>12, <1>13, <1>14 DEF AInv

\* The client is told that it may end when its terminal is closed; it has
\* been attached, since it was told something to say MSG_EXITING.
LEMMA TakesExiting ==
  ASSUME AInv, ServerReceives /\ Head(toServer) = "EXITING"
  PROVE  AInv'
<1> USE DEF None, Ended, Flag, Halts, Resumes, Detaches
<1>1. /\ Exiting
      /\ server = "up" /\ (c.peer = "up" \/ c.more) /\ toServer # <<>> /\ Head(toServer) = "EXITING"
      /\ toServer' = Tail(toServer)
      /\ UNCHANGED <<proc, server, instance>>
  BY DEF ServerReceives
<1>2. ClientIs(c.flags, FALSE, FALSE, c.exit, c.peer, c.queue, c.why)
  BY <1>1 DEF AInv, Typed, ClientRecord, InServer, ClientIs, Exiting
<1>3. "EXITED" \in ToClient /\ Tell("EXITED")
  BY <1>1 DEF ToClient, Exiting
<1>4. toServer # <<>> /\ Head(toServer) \in {"EXITING"} /\ toServer' = Tail(toServer)
  BY <1>1 DEF Exiting
<1>5. toServer' \in Seq(ToServer) /\ Shrinks(toServer, toServer', Head(toServer))
  BY <1>4, Taken DEF AInv, Typed
<1>6. /\ Same(toClient, toClient', {"READY"})
      /\ Same(toClient, toClient', Halts)
      /\ Same(toClient, toClient', Detaches)
      /\ c.peer = "up" => More(toClient, toClient', {"EXITED"})
      /\ Same(toClient, toClient', {"SUSPEND"})
      /\ Same(toServer, toServer', {"COMMAND"})
      /\ Same(toServer, toServer', Resumes)
      /\ Less(toServer, toServer', {"EXITING"})
      /\ Has(toClient, Halts) \/ Has(toClient, Detaches) => toClient # <<>>
      /\ c.peer # "up" => UNCHANGED toClient
  BY <1>3, Tells, <1>4, <1>5, Nothing DEF Same, AInv, Grows, Shrinks
<1>7. server' = server /\ server = "up" /\ (c.peer = "up" \/ c.more) /\ UNCHANGED <<proc, instance>>
  BY <1>1 DEF AInv, Typed, vars, Exiting
<1>8. Typed' /\ Calm'
  BY <1>2, <1>7, <1>3, Tells, <1>4, <1>5, Nothing
  DEF AInv, Typed, ClientIs, Calm, May, Windows, Control
<1>9. Process'
  BY <1>2, <1>7 DEF AInv, Typed, ProcRecord, Process, Control, May, ClientIs
<1>10. InServer'
  BY <1>2, <1>7 DEF AInv, Typed, ClientRecord, InServer, Control, May, ClientIs
<1>11. OneCommand'
  BY <1>2, <1>6, <1>7 DEF AInv, OneCommand, InServer, ClientIs, Same, More, Less
<1>12. ReadyFirst'
  <2>1. "ATTACHED" \in c.flags
    BY <1>6 DEF AInv, Leaving, Less
  <2> QED BY <2>1, <1>2, <1>7, <1>6, <1>3, Tells DEF AInv, ReadyFirst, Same, ClientIs, Control, May
<1>13. OneSuspension'
  BY <1>2, <1>7, <1>6
  DEF AInv, OneSuspension, Sends, Stays, Wakes, Answers, InServer, Process, Windows, Control, May,
      Calm, ClientIs, Same, More, Less
<1>14. Leaving'
  BY <1>2, <1>7, <1>6
  DEF AInv, Leaving, Told, InServer, Process, Control, May, ClientIs, Same, More, Less
<1> QED BY <1>8, <1>9, <1>10, <1>11, <1>12, <1>13, <1>14 DEF AInv

\* The one answer to the one suspension.
LEMMA TakesWakeup ==
  ASSUME AInv, ServerReceives /\ Head(toServer) \in {"WAKEUP", "UNLOCK"}
  PROVE  AInv'
<1> USE DEF None, Ended, Flag, Halts, Resumes, Detaches
<1>1. /\ Wakeup
      /\ server = "up" /\ (c.peer = "up" \/ c.more) /\ toServer # <<>>
      /\ Head(toServer) \in {"WAKEUP", "UNLOCK"} /\ toServer' = Tail(toServer)
      /\ UNCHANGED <<proc, server, instance>>
  BY DEF ServerReceives
<1>2. ClientIs(c.flags \ {"SUSPENDED"}, c.session, c.session, c.exit, c.peer, c.queue, c.why)
  <2>1. Has(toServer, Resumes)
    BY <1>1, Taken DEF AInv, Typed, Shrinks, Less
  <2>2. "SUSPENDED" \in c.flags
    BY <2>1 DEF AInv, OneSuspension, Answers
  <2> QED BY <1>1, <2>2 DEF AInv, Typed, ClientRecord, InServer, ClientIs, Wakeup
<1>3. toServer # <<>> /\ Head(toServer) \in {"WAKEUP", "UNLOCK"} /\ toServer' = Tail(toServer)
  BY <1>1 DEF Wakeup, OneSuspension, Answers, Has
<1>4. toServer' \in Seq(ToServer) /\ Shrinks(toServer, toServer', Head(toServer))
  BY <1>3, Taken DEF AInv, Typed
<1>5. /\ Same(toServer, toServer', {"COMMAND"})
      /\ Less(toServer, toServer', Resumes)
      /\ Same(toServer, toServer', {"EXITING"})
  BY <1>3, <1>4 DEF Same, AInv, Shrinks
<1>6. server' = server /\ server = "up" /\ (c.peer = "up" \/ c.more) /\ UNCHANGED <<proc, toClient, instance>>
  BY <1>1 DEF AInv, Typed, vars, Wakeup, OneSuspension, Answers, Has
<1>7. Typed' /\ Calm'
  BY <1>2, <1>6, <1>3, <1>4 DEF AInv, Typed, ClientIs, Calm, May, Windows, Control
<1>8. Process'
  BY <1>2, <1>6 DEF AInv, Typed, ProcRecord, Process, Control, May, ClientIs
<1>9. InServer'
  BY <1>2, <1>6 DEF AInv, Typed, ClientRecord, InServer, Control, May, ClientIs
<1>10. OneCommand'
  BY <1>2, <1>5, <1>6 DEF AInv, OneCommand, InServer, ClientIs, Same, Less
<1>11. ReadyFirst'
  BY <1>2, <1>6, <1>5 DEF AInv, ReadyFirst, InServer, Process, Control, May, ClientIs, Same, Less
<1>12. OneSuspension'
  BY <1>2, <1>6, <1>5
  DEF AInv, OneSuspension, Sends, Stays, Wakes, Answers, InServer, Process, Windows, Control, May,
      Calm, ClientIs, Same, Less
<1>13. Leaving'
  BY <1>2, <1>6, <1>5 DEF AInv, Leaving, Told, InServer, Process, Control, May, ClientIs, Same, Less
<1> QED BY <1>7, <1>8, <1>9, <1>10, <1>11, <1>12, <1>13 DEF AInv

LEMMA TakesResize ==
  ASSUME AInv, ServerReceives /\ Head(toServer) = "RESIZE"
  PROVE  AInv'
<1> USE DEF None, Ended, Flag, Halts, Resumes, Detaches
<1>1. /\ UNCHANGED <<c, toClient>>
      /\ server = "up" /\ (c.peer = "up" \/ c.more) /\ toServer # <<>> /\ Head(toServer) = "RESIZE"
      /\ toServer' = Tail(toServer)
      /\ UNCHANGED <<proc, server, instance>>
  BY DEF ServerReceives
<1>2. toServer # <<>> /\ Head(toServer) \in {"RESIZE"} /\ toServer' = Tail(toServer)
  BY <1>1 DEF vars
<1>3. toServer' \in Seq(ToServer) /\ Shrinks(toServer, toServer', Head(toServer))
  BY <1>2, Taken DEF AInv, Typed
<1>4. /\ Same(toServer, toServer', {"COMMAND"})
      /\ Same(toServer, toServer', Resumes)
      /\ Same(toServer, toServer', {"EXITING"})
  BY <1>2, <1>3 DEF Same, AInv, Shrinks
<1>5. /\ server' = server /\ server = "up" /\ (c.peer = "up" \/ c.more)
      /\ UNCHANGED <<c, proc, toClient, instance>>
  BY <1>1 DEF AInv, Typed, vars, vars
<1>6. Typed' /\ Calm'
  BY <1>5, <1>2, <1>3 DEF AInv, Typed, Calm, May, Windows, Control
<1>7. Process' /\ InServer' /\ ReadyFirst'
  BY <1>5 DEF AInv, Process, Control, May, InServer, ReadyFirst
<1>8. OneCommand'
  BY <1>5, <1>4 DEF AInv, OneCommand, InServer, Same
<1>9. OneSuspension'
  BY <1>5, <1>4
  DEF AInv, OneSuspension, Sends, Stays, Wakes, Answers, InServer, Process, Windows, Control, May,
      Calm, Same
<1>10. Leaving'
  BY <1>5, <1>4 DEF AInv, Leaving, Told, InServer, Process, Control, May, Same
<1> QED BY <1>6, <1>7, <1>8, <1>9, <1>10 DEF AInv

LEMMA TakesOtherVersion ==
  ASSUME AInv, ServerReceives /\ Head(toServer) = "other version"
  PROVE  AInv'
<1> USE DEF None, Ended, Flag, Halts, Resumes, Detaches
<1>1. /\ Refuse(Head(toServer))
      /\ server = "up" /\ (c.peer = "up" \/ c.more) /\ toServer # <<>> /\ Head(toServer) = "other version"
      /\ toServer' = Tail(toServer)
      /\ UNCHANGED <<proc, server, instance>>
  BY DEF ServerReceives
<1>2. ClientIs(c.flags, c.session, c.tty, c.exit, "bad", c.queue, c.why)
  BY <1>1 DEF AInv, Typed, ClientRecord, InServer, ClientIs, Refuse, Killed
<1>3. "VERSION" \in ToClient /\ Tell("VERSION")
  BY <1>1 DEF ToClient, Refuse
<1>4. toServer # <<>> /\ Head(toServer) \in {"other version"} /\ toServer' = Tail(toServer)
  BY <1>1 DEF Refuse
<1>5. toServer' \in Seq(ToServer) /\ Shrinks(toServer, toServer', Head(toServer))
  BY <1>4, Taken DEF AInv, Typed
<1>6. /\ Same(toClient, toClient', {"READY"})
      /\ Same(toClient, toClient', Halts)
      /\ Same(toClient, toClient', Detaches)
      /\ Same(toClient, toClient', {"EXITED"})
      /\ Same(toClient, toClient', {"SUSPEND"})
      /\ Same(toServer, toServer', {"COMMAND"})
      /\ Same(toServer, toServer', Resumes)
      /\ Same(toServer, toServer', {"EXITING"})
      /\ Has(toClient, Halts) \/ Has(toClient, Detaches) => toClient # <<>>
      /\ c.peer # "up" => UNCHANGED toClient
  BY <1>3, Tells, <1>4, <1>5, Nothing DEF Same, AInv, Grows, Shrinks
<1>7. server' = server /\ server = "up" /\ (c.peer = "up" \/ c.more) /\ UNCHANGED <<proc, instance>>
  BY <1>1 DEF AInv, Typed, vars, Refuse
<1>8. Typed' /\ Calm'
  BY <1>2, <1>7, <1>3, Tells, <1>4, <1>5, Nothing
  DEF AInv, Typed, ClientIs, Calm, May, Windows, Control
<1>9. Process'
  BY <1>2, <1>7 DEF AInv, Typed, ProcRecord, Process, Control, May, ClientIs
<1>10. InServer'
  BY <1>2, <1>7 DEF AInv, Typed, ClientRecord, InServer, Control, May, ClientIs
<1>11. OneCommand'
  BY <1>2, <1>6, <1>7 DEF AInv, OneCommand, InServer, ClientIs, Same
<1>12. ReadyFirst'
  BY <1>2, <1>7, <1>6, <1>3, Tells
  DEF AInv, ReadyFirst, InServer, Process, Control, May, ClientIs, Same
<1>13. OneSuspension'
  BY <1>2, <1>7, <1>6
  DEF AInv, OneSuspension, Sends, Stays, Wakes, Answers, InServer, Process, Windows, Control, May,
      Calm, ClientIs, Same
<1>14. Leaving'
  BY <1>2, <1>7, <1>6 DEF AInv, Leaving, Told, InServer, Process, Control, May, ClientIs, Same
<1> QED BY <1>8, <1>9, <1>10, <1>11, <1>12, <1>13, <1>14 DEF AInv

LEMMA TakesInvalid ==
  ASSUME AInv, ServerReceives /\ Head(toServer) = "invalid"
  PROVE  AInv'
<1> USE DEF None, Ended, Flag, Halts, Resumes, Detaches
<1>1. /\ Refuse(Head(toServer))
      /\ server = "up" /\ (c.peer = "up" \/ c.more) /\ toServer # <<>> /\ Head(toServer) = "invalid"
      /\ toServer' = Tail(toServer)
      /\ UNCHANGED <<proc, server, instance>>
  BY DEF ServerReceives
<1>2. ClientIs(c.flags, c.session, c.tty, c.exit, "bad", c.queue, c.why)
  BY <1>1 DEF AInv, Typed, ClientRecord, InServer, ClientIs, Refuse, Killed
<1>3. toServer # <<>> /\ Head(toServer) \in {"invalid"} /\ toServer' = Tail(toServer)
  BY <1>1 DEF Refuse
<1>4. toServer' \in Seq(ToServer) /\ Shrinks(toServer, toServer', Head(toServer))
  BY <1>3, Taken DEF AInv, Typed
<1>5. /\ Same(toServer, toServer', {"COMMAND"})
      /\ Same(toServer, toServer', Resumes)
      /\ Same(toServer, toServer', {"EXITING"})
  BY <1>3, <1>4 DEF Same, AInv, Shrinks
<1>6. server' = server /\ server = "up" /\ (c.peer = "up" \/ c.more) /\ UNCHANGED <<proc, toClient, instance>>
  BY <1>1 DEF AInv, Typed, vars, Refuse
<1>7. Typed' /\ Calm'
  BY <1>2, <1>6, <1>3, <1>4 DEF AInv, Typed, ClientIs, Calm, May, Windows, Control
<1>8. Process'
  BY <1>2, <1>6 DEF AInv, Typed, ProcRecord, Process, Control, May, ClientIs
<1>9. InServer'
  BY <1>2, <1>6 DEF AInv, Typed, ClientRecord, InServer, Control, May, ClientIs
<1>10. OneCommand'
  BY <1>2, <1>5, <1>6 DEF AInv, OneCommand, InServer, ClientIs, Same
<1>11. ReadyFirst'
  BY <1>2, <1>6, <1>5 DEF AInv, ReadyFirst, InServer, Process, Control, May, ClientIs, Same
<1>12. OneSuspension'
  BY <1>2, <1>6, <1>5
  DEF AInv, OneSuspension, Sends, Stays, Wakes, Answers, InServer, Process, Windows, Control, May,
      Calm, ClientIs, Same
<1>13. Leaving'
  BY <1>2, <1>6, <1>5 DEF AInv, Leaving, Told, InServer, Process, Control, May, ClientIs, Same
<1> QED BY <1>7, <1>8, <1>9, <1>10, <1>11, <1>12, <1>13 DEF AInv

LEMMA CheckExitKeeps ==
  ASSUME AInv, CheckExit
  PROVE  AInv'
<1> USE DEF None, Ended, Flag, Halts, Resumes, Detaches
<1>1. ClientIs(c.flags \cup {"EXITED"}, c.session, c.tty, c.exit, c.peer, c.queue, c.why)
  BY DEF AInv, Typed, ClientRecord, InServer, ClientIs, CheckExit, AInv, Typed, ClientRecord
<1>2. c.exit \in ToClient /\ Tell(c.exit)
  BY DEF ToClient, CheckExit, AInv, Typed, ClientRecord
<1>3. /\ Same(toClient, toClient', {"READY"})
      /\ Same(toClient, toClient', Halts)
      /\ c.exit \in Detaches => (c.peer = "up" => More(toClient, toClient', Detaches))
      /\ c.exit \notin Detaches => Same(toClient, toClient', Detaches)
      /\ Same(toClient, toClient', {"EXITED"})
      /\ Same(toClient, toClient', {"SUSPEND"})
      /\ Has(toClient, Halts) \/ Has(toClient, Detaches) => toClient # <<>>
      /\ c.peer # "up" => UNCHANGED toClient
  <2>1. CASE c.exit \in Detaches
    BY <2>1, <1>2, Tells, Nothing DEF AInv, Same, Grows
  <2>2. CASE c.exit \notin Detaches
    <3>1. \A S : c.exit \notin S => Same(toClient, toClient', S)
      BY <1>2, Tells DEF AInv, Same, Grows
    <3>2. c.exit \in {"EXIT", "DETACH", "DETACHKILL", "SHUTDOWN"}
      BY DEF AInv, Typed, ClientRecord
    <3> QED BY <1>2, Tells, <3>1, <3>2, <2>2, Nothing DEF AInv
  <2> QED BY <2>1, <2>2
<1>4. /\ server' = server /\ server = "up" /\ "DEAD" \notin c.flags /\ "EXIT" \in c.flags
      /\ UNCHANGED <<proc, toServer, instance>>
  BY DEF AInv, Typed, vars, CheckExit, AInv, Typed, ClientRecord
<1>5. Typed' /\ Calm'
  BY <1>1, <1>4, <1>2, Tells, Nothing DEF AInv, Typed, ClientIs, Calm, May, Windows, Control
<1>6. Process'
  BY <1>1, <1>4 DEF AInv, Typed, ProcRecord, Process, Control, May, ClientIs
<1>7. InServer'
  BY <1>1, <1>4 DEF AInv, Typed, ClientRecord, InServer, Control, May, ClientIs
<1>8. OneCommand'
  BY <1>1, <1>3, <1>4 DEF AInv, OneCommand, InServer, ClientIs, Same, More
<1>9. ReadyFirst'
  BY <1>1, <1>4, <1>3, <1>2, Tells
  DEF AInv, ReadyFirst, InServer, Process, Control, May, ClientIs, Same, More
<1>10. OneSuspension'
  BY <1>1, <1>4, <1>3
  DEF AInv, OneSuspension, Sends, Stays, Wakes, Answers, InServer, Process, Windows, Control, May,
      Calm, ClientIs, Same, More
<1>11. Leaving'
  BY <1>1, <1>4, <1>3 DEF AInv, Leaving, Told, InServer, Process, Control, May, ClientIs, Same, More
<1> QED BY <1>5, <1>6, <1>7, <1>8, <1>9, <1>10, <1>11 DEF AInv

\* The first thing a client is told: nothing has been sent before.
LEMMA ShowsKeeps ==
  ASSUME AInv, RunCommand /\ c'.session # c.session /\ ~Control
  PROVE  AInv'
<1> USE DEF None, Ended, Flag, Halts, Resumes, Detaches
<1>1. /\ "EXIT" \notin c.flags
      /\ c' = [c EXCEPT !.queue = @ - 1, !.session = TRUE, !.tty = ~Control, !.opened = ~Control,
                        !.flags = @ \cup {"ATTACHED"}]
      /\ Tell("READY") /\ UNCHANGED <<proc, toServer, server, instance>> /\ server = "up"
      /\ "DEAD" \notin c.flags /\ c.queue > 0
  BY DEF RunCommand, AInv, Typed, ClientRecord
<1>2. /\ "ATTACHED" \notin c.flags /\ c.queue = 1
      /\ ClientIs(c.flags \cup {"ATTACHED"}, TRUE, TRUE, c.exit, c.peer, 0, c.why)
  <2>1. c.queue = 1 /\ c.queue - 1 = 0 /\ "ATTACHED" \notin c.flags
    BY <1>1 DEF AInv, OneCommand, Typed, ClientRecord
  <2>2. c' = [c EXCEPT !.queue = 0, !.session = TRUE, !.tty = TRUE, !.opened = TRUE,
                       !.flags = @ \cup {"ATTACHED"}]
    BY <1>1, <2>1
  <2>3. c.flags \cup {"ATTACHED"} \in SUBSET {"IDENTIFIED", "ATTACHED", "SUSPENDED", "EXIT",
                                              "EXITED", "DEAD"}
    BY DEF AInv, Typed, ClientRecord
  <2> QED BY <2>1, <2>2, <2>3 DEF AInv, Typed, ClientRecord, InServer, ClientIs
<1>3. "READY" \in ToClient /\ Tell("READY")
  BY <1>1 DEF ToClient, Typed
<1>4. /\ c.peer = "up" => More(toClient, toClient', {"READY"})
      /\ Same(toClient, toClient', Halts)
      /\ Same(toClient, toClient', Detaches)
      /\ Same(toClient, toClient', {"EXITED"})
      /\ Same(toClient, toClient', {"SUSPEND"})
      /\ Has(toClient, Halts) \/ Has(toClient, Detaches) => toClient # <<>>
      /\ c.peer # "up" => UNCHANGED toClient
  BY <1>3, Tells, Nothing DEF Same, AInv, Grows
<1>5. /\ server' = server /\ server = "up" /\ "DEAD" \notin c.flags /\ c.queue > 0 /\ ~Control
      /\ "EXIT" \notin c.flags /\ UNCHANGED <<proc, toServer, instance>>
  BY <1>1 DEF AInv, Typed, vars, Typed
<1>6. Typed' /\ Calm'
  BY <1>2, <1>5, <1>3, Tells, Nothing DEF AInv, Typed, ClientIs, Calm, May, Windows, Control
<1>7. Process'
  BY <1>2, <1>5 DEF AInv, Typed, ProcRecord, Process, Control, May, ClientIs
<1>8. InServer'
  BY <1>2, <1>5 DEF AInv, Typed, ClientRecord, InServer, Control, May, ClientIs
<1>9. OneCommand'
  BY <1>2, <1>4, <1>5 DEF AInv, OneCommand, InServer, ClientIs, Same, More
<1>10. ReadyFirst'
  BY <1>2, <1>5, <1>4, <1>3, Tells
  DEF AInv, ReadyFirst, InServer, Process, Control, May, ClientIs, Same, More
<1>11. OneSuspension'
  BY <1>2, <1>5, <1>4
  DEF AInv, OneSuspension, Sends, Stays, Wakes, Answers, InServer, Process, Windows, Control, May,
      Calm, ClientIs, Same, More
<1>12. Leaving'
  BY <1>2, <1>5, <1>4 DEF AInv, Leaving, Told, InServer, Process, Control, May, ClientIs, Same, More
<1> QED BY <1>6, <1>7, <1>8, <1>9, <1>10, <1>11, <1>12 DEF AInv

LEMMA ControlsKeeps ==
  ASSUME AInv, RunCommand /\ c'.session # c.session /\ Control
  PROVE  AInv'
<1> USE DEF None, Ended, Flag, Halts, Resumes, Detaches
<1>1. /\ "EXIT" \notin c.flags
      /\ c' = [c EXCEPT !.queue = @ - 1, !.session = TRUE, !.tty = ~Control, !.opened = ~Control,
                        !.flags = @ \cup {"ATTACHED"}]
      /\ UNCHANGED toClient /\ UNCHANGED <<proc, toServer, server, instance>> /\ server = "up"
      /\ "DEAD" \notin c.flags /\ c.queue > 0
  BY DEF RunCommand, AInv, Typed, ClientRecord
<1>2. /\ "ATTACHED" \notin c.flags /\ c.queue = 1
      /\ ClientIs(c.flags \cup {"ATTACHED"}, TRUE, FALSE, c.exit, c.peer, 0, c.why)
  <2>1. c.queue = 1 /\ c.queue - 1 = 0 /\ "ATTACHED" \notin c.flags
    BY <1>1 DEF AInv, OneCommand, Typed, ClientRecord
  <2>2. c' = [c EXCEPT !.queue = 0, !.session = TRUE, !.tty = FALSE, !.opened = FALSE,
                       !.flags = @ \cup {"ATTACHED"}]
    BY <1>1, <2>1
  <2>3. c.flags \cup {"ATTACHED"} \in SUBSET {"IDENTIFIED", "ATTACHED", "SUSPENDED", "EXIT",
                                              "EXITED", "DEAD"}
    BY DEF AInv, Typed, ClientRecord
  <2> QED BY <2>1, <2>2, <2>3 DEF AInv, Typed, ClientRecord, InServer, ClientIs
<1>3. /\ server' = server /\ server = "up" /\ "DEAD" \notin c.flags /\ c.queue > 0
      /\ "EXIT" \notin c.flags /\ UNCHANGED <<proc, toClient, toServer, instance>>
  BY <1>1 DEF AInv, Typed, vars, Typed
<1>4. Typed' /\ Calm'
  BY <1>2, <1>3 DEF AInv, Typed, ClientIs, Calm, May, Windows, Control
<1>5. Process'
  BY <1>2, <1>3 DEF AInv, Typed, ProcRecord, Process, Control, May, ClientIs
<1>6. InServer'
  BY <1>2, <1>3 DEF AInv, Typed, ClientRecord, InServer, Control, May, ClientIs
<1>7. OneCommand'
  BY <1>2, <1>3 DEF AInv, OneCommand, InServer, ClientIs
<1>8. ReadyFirst'
  BY <1>2, <1>3 DEF AInv, ReadyFirst, InServer, Process, Control, May, ClientIs
<1>9. OneSuspension'
  BY <1>2, <1>3
  DEF AInv, OneSuspension, Sends, Stays, Wakes, Answers, InServer, Process, Windows, Control, May,
      Calm, ClientIs
<1>10. Leaving'
  BY <1>2, <1>3 DEF AInv, Leaving, Told, InServer, Process, Control, May, ClientIs
<1> QED BY <1>4, <1>5, <1>6, <1>7, <1>8, <1>9, <1>10 DEF AInv

LEMMA DoneKeeps ==
  ASSUME AInv, RunCommand /\ c'.session = c.session
  PROVE  AInv'
<1> USE DEF None, Ended, Flag, Halts, Resumes, Detaches
<1>1. /\ c' = [c EXCEPT !.queue = @ - 1, !.flags = IF "ATTACHED" \in @ THEN @ ELSE @ \cup {"EXIT"}]
      /\ UNCHANGED toClient /\ UNCHANGED <<proc, toServer, server, instance>> /\ server = "up"
      /\ "DEAD" \notin c.flags /\ c.queue > 0
  BY DEF RunCommand, AInv, Typed, ClientRecord
<1>2. /\ "ATTACHED" \notin c.flags
      /\ ClientIs(c.flags \cup {"EXIT"}, c.session, c.tty, c.exit, c.peer, 0, c.why)
  <2>1. "ATTACHED" \notin c.flags /\ c.queue = 1 /\ c.queue - 1 = 0
    BY <1>1 DEF AInv, OneCommand, Typed, ClientRecord
  <2>2. c' = [c EXCEPT !.queue = 0, !.flags = @ \cup {"EXIT"}]
    BY <1>1, <2>1
  <2> QED BY <2>2, <2>1 DEF AInv, Typed, ClientRecord, InServer, ClientIs
<1>3. /\ server' = server /\ server = "up" /\ "DEAD" \notin c.flags /\ c.queue > 0
      /\ UNCHANGED <<proc, toClient, toServer, instance>>
  BY <1>1 DEF AInv, Typed, vars, Typed
<1>4. Typed' /\ Calm'
  BY <1>2, <1>3 DEF AInv, Typed, ClientIs, Calm, May, Windows, Control
<1>5. Process'
  BY <1>2, <1>3 DEF AInv, Typed, ProcRecord, Process, Control, May, ClientIs
<1>6. InServer'
  BY <1>2, <1>3 DEF AInv, Typed, ClientRecord, InServer, Control, May, ClientIs
<1>7. OneCommand'
  BY <1>2, <1>3 DEF AInv, OneCommand, InServer, ClientIs
<1>8. ReadyFirst'
  BY <1>2, <1>3 DEF AInv, ReadyFirst, InServer, Process, Control, May, ClientIs
<1>9. OneSuspension'
  BY <1>2, <1>3
  DEF AInv, OneSuspension, Sends, Stays, Wakes, Answers, InServer, Process, Windows, Control, May,
      Calm, ClientIs
<1>10. Leaving'
  BY <1>2, <1>3 DEF AInv, Leaving, Told, InServer, Process, Control, May, ClientIs
<1> QED BY <1>4, <1>5, <1>6, <1>7, <1>8, <1>9, <1>10 DEF AInv

-----------------------------------------------------------------------------
(***************************************************************************)
(* What the client does: a message of each kind while it waits and when it *)
(* is attached, and signals.                                               *)
(***************************************************************************)
LEMMA TurnedAway ==
  ASSUME AInv, ClientReceives /\ proc.at = "wait" /\ Head(toClient) \in {"EXIT", "SHUTDOWN"}
  PROVE  AInv'
<1> USE DEF None, Ended, Flag, Halts, Resumes, Detaches
<1>1. /\ Waiting(Head(toClient)) /\ proc.at = "wait" /\ toClient # <<>>
      /\ Head(toClient) \in {"EXIT", "SHUTDOWN"}
      /\ toClient' = Tail(toClient) /\ UNCHANGED <<c, server, instance>>
  BY DEF ClientReceives
<1>2. ProcIs("gone", proc.ready, proc.reason, proc.exittype, TRUE, proc.quiet, proc.signals)
  BY <1>1 DEF AInv, Typed, ProcRecord, ProcIs, Waiting, Exits, AInv, Process
<1>3. toClient # <<>> /\ Head(toClient) \in {"EXIT", "SHUTDOWN"} /\ toClient' = Tail(toClient)
  BY <1>1 DEF Waiting, Exits, AInv, Process
<1>4. toClient' \in Seq(ToClient) /\ Shrinks(toClient, toClient', Head(toClient))
  BY <1>3, Taken DEF AInv, Typed
<1>5. /\ Same(toClient, toClient', {"READY"})
      /\ Same(toClient, toClient', Halts)
      /\ Same(toClient, toClient', Detaches)
      /\ Same(toClient, toClient', {"EXITED"})
      /\ Same(toClient, toClient', {"SUSPEND"})
  BY <1>3, <1>4 DEF Same, AInv, Shrinks
<1>6. server' = server /\ proc.at = "wait" /\ UNCHANGED <<c, toServer, instance>>
  BY <1>1 DEF AInv, Typed, vars, Waiting, Exits, AInv, Process
<1>7. Typed' /\ Calm'
  BY <1>6, <1>2, <1>3, <1>4 DEF AInv, Typed, ProcIs, Calm, May, Windows, Control
<1>8. Process'
  BY <1>6, <1>2 DEF AInv, Typed, ProcRecord, Process, Control, May, ProcIs
<1>9. InServer'
  BY <1>6, <1>2 DEF AInv, Typed, ClientRecord, InServer, Control, May, ProcIs
<1>10. OneCommand'
  BY <1>6, <1>5 DEF AInv, OneCommand, InServer, Same
<1>11. ReadyFirst'
  BY <1>6, <1>2, <1>5, <1>3, <1>4
  DEF AInv, ReadyFirst, InServer, Process, Control, May, ProcIs, Same
<1>12. OneSuspension'
  BY <1>6, <1>2, <1>5
  DEF AInv, OneSuspension, Sends, Stays, Wakes, Answers, InServer, Process, Windows, Control, May,
      Calm, ProcIs, Same
<1>13. Leaving'
  BY <1>6, <1>2, <1>5 DEF AInv, Leaving, Told, InServer, Process, Control, May, ProcIs, Same
<1> QED BY <1>7, <1>8, <1>9, <1>10, <1>11, <1>12, <1>13 DEF AInv

\* MSG_READY is for a client with a terminal.
LEMMA GetsReady ==
  ASSUME AInv, ClientReceives /\ proc.at = "wait" /\ Head(toClient) = "READY"
  PROVE  AInv'
<1> USE DEF None, Ended, Flag, Halts, Resumes, Detaches
<1>1. /\ Waiting(Head(toClient)) /\ proc.at = "wait" /\ toClient # <<>> /\ Head(toClient) = "READY"
      /\ toClient' = Tail(toClient) /\ UNCHANGED <<c, server, instance>>
  BY DEF ClientReceives
<1>2. ProcIs("attached", TRUE, proc.reason, proc.exittype, proc.exitflag, proc.quiet, proc.signals)
  BY <1>1 DEF AInv, Typed, ProcRecord, ProcIs, Waiting, Exits, AInv, Process
<1>3. toClient # <<>> /\ Head(toClient) \in {"READY"} /\ toClient' = Tail(toClient)
  BY <1>1 DEF Waiting, Exits, AInv, Process
<1>4. toClient' \in Seq(ToClient) /\ Shrinks(toClient, toClient', Head(toClient))
  BY <1>3, Taken DEF AInv, Typed
<1>5. "RESIZE" \in ToServer /\ Say("RESIZE")
  BY <1>1 DEF ToServer, Waiting, Exits, AInv, Process
<1>6. /\ Less(toClient, toClient', {"READY"})
      /\ Same(toClient, toClient', Halts)
      /\ Same(toClient, toClient', Detaches)
      /\ Same(toClient, toClient', {"EXITED"})
      /\ Same(toClient, toClient', {"SUSPEND"})
      /\ Same(toServer, toServer', {"COMMAND"})
      /\ Same(toServer, toServer', Resumes)
      /\ Same(toServer, toServer', {"EXITING"})
  BY <1>3, <1>4, <1>5, Says DEF Same, AInv, Shrinks, Grows
<1>7. server' = server /\ proc.at = "wait" /\ UNCHANGED <<c, instance>>
  BY <1>1 DEF AInv, Typed, vars, Waiting, Exits, AInv, Process
<1>8. Typed' /\ Calm'
  BY <1>7, <1>2, <1>3, <1>4, <1>5, Says DEF AInv, Typed, ProcIs, Calm, May, Windows, Control
<1>9. Process'
  <2>1. ~Control /\ Flag("ATTACHED")
    BY <1>6 DEF AInv, ReadyFirst, Less
  <2> QED BY <2>1, <1>7, <1>2 DEF AInv, Process, ProcIs, Control, May
<1>10. InServer'
  BY <1>7, <1>2 DEF AInv, Typed, ClientRecord, InServer, Control, May, ProcIs
<1>11. OneCommand'
  BY <1>7, <1>6 DEF AInv, OneCommand, InServer, Same, Less
<1>12. ReadyFirst'
  BY <1>7, <1>2, <1>6, <1>3, <1>4
  DEF AInv, ReadyFirst, InServer, Process, Control, May, ProcIs, Same, Less
<1>13. OneSuspension'
  BY <1>7, <1>2, <1>6
  DEF AInv, OneSuspension, Sends, Stays, Wakes, Answers, InServer, Process, Windows, Control, May,
      Calm, ProcIs, Same, Less
<1>14. Leaving'
  BY <1>7, <1>2, <1>6 DEF AInv, Leaving, Told, InServer, Process, Control, May, ProcIs, Same, Less
<1> QED BY <1>8, <1>9, <1>10, <1>11, <1>12, <1>13, <1>14 DEF AInv

LEMMA GoesHome ==
  ASSUME AInv, ClientReceives /\ proc.at = "wait" /\ Head(toClient) \in {"VERSION", "EXITED"}
  PROVE  AInv'
<1> USE DEF None, Ended, Flag, Halts, Resumes, Detaches
<1>1. /\ Waiting(Head(toClient)) /\ proc.at = "wait" /\ toClient # <<>>
      /\ Head(toClient) \in {"VERSION", "EXITED"}
      /\ toClient' = Tail(toClient) /\ UNCHANGED <<c, server, instance>>
  BY DEF ClientReceives
<1>2. ProcIs("gone", proc.ready, proc.reason, proc.exittype, proc.exitflag, proc.quiet,
             proc.signals)
  BY <1>1 DEF AInv, Typed, ProcRecord, ProcIs, Waiting, Exits, AInv, Process
<1>3. toClient # <<>> /\ Head(toClient) \in {"VERSION", "EXITED"} /\ toClient' = Tail(toClient)
  BY <1>1 DEF Waiting, Exits, AInv, Process
<1>4. toClient' \in Seq(ToClient) /\ Shrinks(toClient, toClient', Head(toClient))
  BY <1>3, Taken DEF AInv, Typed
<1>5. /\ Same(toClient, toClient', {"READY"})
      /\ Same(toClient, toClient', Halts)
      /\ Same(toClient, toClient', Detaches)
      /\ (Has(toClient', {"EXITED"}) => Has(toClient, {"EXITED"}))
      /\ (Once(toClient, {"EXITED"}) => Once(toClient', {"EXITED"}))
      /\ Same(toClient, toClient', {"SUSPEND"})
  BY <1>3, <1>4 DEF Same, AInv, Shrinks, Less
<1>6. server' = server /\ proc.at = "wait" /\ UNCHANGED <<c, toServer, instance>>
  BY <1>1 DEF AInv, Typed, vars, Waiting, Exits, AInv, Process
<1>7. Typed' /\ Calm'
  BY <1>6, <1>2, <1>3, <1>4 DEF AInv, Typed, ProcIs, Calm, May, Windows, Control
<1>8. Process'
  BY <1>6, <1>2 DEF AInv, Typed, ProcRecord, Process, Control, May, ProcIs
<1>9. InServer'
  BY <1>6, <1>2 DEF AInv, Typed, ClientRecord, InServer, Control, May, ProcIs
<1>10. OneCommand'
  BY <1>6, <1>5 DEF AInv, OneCommand, InServer, Same
<1>11. ReadyFirst'
  BY <1>6, <1>2, <1>5, <1>3, <1>4
  DEF AInv, ReadyFirst, InServer, Process, Control, May, ProcIs, Same
<1>12. OneSuspension'
  BY <1>6, <1>2, <1>5
  DEF AInv, OneSuspension, Sends, Stays, Wakes, Answers, InServer, Process, Windows, Control, May,
      Calm, ProcIs, Same
<1>13. Leaving'
  BY <1>6, <1>2, <1>5 DEF AInv, Leaving, Told, InServer, Process, Control, May, ProcIs, Same
<1> QED BY <1>7, <1>8, <1>9, <1>10, <1>11, <1>12, <1>13 DEF AInv

LEMMA BecomesShell ==
  ASSUME AInv, ClientReceives /\ proc.at = "wait" /\ Head(toClient) = "SHELL"
  PROVE  AInv'
<1> USE DEF None, Ended, Flag, Halts, Resumes, Detaches
<1>1. /\ Waiting(Head(toClient)) /\ proc.at = "wait" /\ toClient # <<>> /\ Head(toClient) = "SHELL"
      /\ toClient' = Tail(toClient) /\ UNCHANGED <<c, server, instance>>
  BY DEF ClientReceives
<1>2. ProcIs("exec", proc.ready, proc.reason, proc.exittype, proc.exitflag, proc.quiet,
             proc.signals)
  BY <1>1 DEF AInv, Typed, ProcRecord, ProcIs, Waiting, Exits, AInv, Process
<1>3. toClient # <<>> /\ Head(toClient) \in {"SHELL"} /\ toClient' = Tail(toClient)
  BY <1>1 DEF Waiting, Exits, AInv, Process
<1>4. toClient' \in Seq(ToClient) /\ Shrinks(toClient, toClient', Head(toClient))
  BY <1>3, Taken DEF AInv, Typed
<1>5. /\ Same(toClient, toClient', {"READY"})
      /\ Same(toClient, toClient', Halts)
      /\ Same(toClient, toClient', Detaches)
      /\ Same(toClient, toClient', {"EXITED"})
      /\ Same(toClient, toClient', {"SUSPEND"})
  BY <1>3, <1>4 DEF Same, AInv, Shrinks
<1>6. server' = server /\ proc.at = "wait" /\ UNCHANGED <<c, toServer, instance>>
  BY <1>1 DEF AInv, Typed, vars, Waiting, Exits, AInv, Process
<1>7. Typed' /\ Calm'
  BY <1>6, <1>2, <1>3, <1>4 DEF AInv, Typed, ProcIs, Calm, May, Windows, Control
<1>8. Process'
  BY <1>6, <1>2 DEF AInv, Typed, ProcRecord, Process, Control, May, ProcIs
<1>9. InServer'
  BY <1>6, <1>2 DEF AInv, Typed, ClientRecord, InServer, Control, May, ProcIs
<1>10. OneCommand'
  BY <1>6, <1>5 DEF AInv, OneCommand, InServer, Same
<1>11. ReadyFirst'
  BY <1>6, <1>2, <1>5, <1>3, <1>4
  DEF AInv, ReadyFirst, InServer, Process, Control, May, ProcIs, Same
<1>12. OneSuspension'
  BY <1>6, <1>2, <1>5
  DEF AInv, OneSuspension, Sends, Stays, Wakes, Answers, InServer, Process, Windows, Control, May,
      Calm, ProcIs, Same
<1>13. Leaving'
  BY <1>6, <1>2, <1>5 DEF AInv, Leaving, Told, InServer, Process, Control, May, ProcIs, Same
<1> QED BY <1>7, <1>8, <1>9, <1>10, <1>11, <1>12, <1>13 DEF AInv

\* A client that waits and is detached is in control mode: any other has
\* MSG_READY before it.
LEMMA LeavesAtOnce ==
  ASSUME AInv, ClientReceives /\ proc.at = "wait" /\ Head(toClient) \in {"DETACH", "DETACHKILL"}
  PROVE  AInv'
<1> USE DEF None, Ended, Flag, Halts, Resumes, Detaches
<1>1. /\ Waiting(Head(toClient)) /\ proc.at = "wait" /\ toClient # <<>>
      /\ Head(toClient) \in {"DETACH", "DETACHKILL"}
      /\ toClient' = Tail(toClient) /\ UNCHANGED <<c, server, instance>>
  BY DEF ClientReceives
<1>2. toClient # <<>> /\ Head(toClient) \in {"DETACH", "DETACHKILL"} /\ toClient' = Tail(toClient)
  BY <1>1 DEF Waiting, Exits, AInv, Process
<1>3. toClient' \in Seq(ToClient) /\ Shrinks(toClient, toClient', Head(toClient))
  BY <1>2, Taken DEF AInv, Typed
<1>4. "EXITING" \in ToServer /\ Say("EXITING")
  BY <1>1 DEF ToServer, Waiting, Exits, AInv, Process
<1>5. /\ Same(toClient, toClient', {"READY"})
      /\ Same(toClient, toClient', Halts)
      /\ Less(toClient, toClient', Detaches)
      /\ Same(toClient, toClient', {"EXITED"})
      /\ Same(toClient, toClient', {"SUSPEND"})
      /\ Same(toServer, toServer', {"COMMAND"})
      /\ Same(toServer, toServer', Resumes)
      /\ More(toServer, toServer', {"EXITING"})
  BY <1>2, <1>3, <1>4, Says DEF Same, AInv, Shrinks, Grows
<1>6. server' = server /\ proc.at = "wait" /\ UNCHANGED <<c, proc, instance>>
  BY <1>1 DEF AInv, Typed, vars, Waiting, Exits, AInv, Process
<1>7. Typed' /\ Calm'
  BY <1>6, <1>2, <1>3, <1>4, Says DEF AInv, Typed, Calm, May, Windows, Control
<1>8. Process' /\ InServer'
  BY <1>6 DEF AInv, Process, Control, May, InServer
<1>9. OneCommand'
  BY <1>6, <1>5 DEF AInv, OneCommand, InServer, Same, More, Less
<1>10. ReadyFirst'
  BY <1>6, <1>5, <1>2, <1>3 DEF AInv, ReadyFirst, InServer, Process, Control, May, Same, More, Less
<1>11. OneSuspension'
  BY <1>6, <1>5
  DEF AInv, OneSuspension, Sends, Stays, Wakes, Answers, InServer, Process, Windows, Control, May,
      Calm, Same, More, Less
<1>12. Leaving'
  <2>1. Control /\ "ATTACHED" \in c.flags
    BY <1>5, <1>2, <1>6 DEF AInv, ReadyFirst, Leaving, Process, Less
  <2> QED BY <2>1, <1>6, <1>5, <1>2 DEF AInv, Leaving, Told, Same, More, Less, Control, May
<1> QED BY <1>7, <1>8, <1>9, <1>10, <1>11, <1>12 DEF AInv

LEMMA IgnoresEarly ==
  ASSUME AInv, ClientReceives /\ proc.at = "wait" /\ Head(toClient) = "EXEC"
  PROVE  AInv'
<1> USE DEF None, Ended, Flag, Halts, Resumes, Detaches
<1>1. /\ Waiting(Head(toClient)) /\ proc.at = "wait" /\ toClient # <<>> /\ Head(toClient) = "EXEC"
      /\ toClient' = Tail(toClient) /\ UNCHANGED <<c, server, instance>>
  BY DEF ClientReceives
<1>2. toClient # <<>> /\ Head(toClient) \in {"EXEC"} /\ toClient' = Tail(toClient)
  BY <1>1 DEF Waiting, Exits, AInv, Process
<1>3. toClient' \in Seq(ToClient) /\ Shrinks(toClient, toClient', Head(toClient))
  BY <1>2, Taken DEF AInv, Typed
<1>4. /\ Same(toClient, toClient', {"READY"})
      /\ Same(toClient, toClient', Halts)
      /\ Same(toClient, toClient', Detaches)
      /\ Same(toClient, toClient', {"EXITED"})
      /\ Same(toClient, toClient', {"SUSPEND"})
  BY <1>2, <1>3 DEF Same, AInv, Shrinks
<1>5. server' = server /\ proc.at = "wait" /\ UNCHANGED <<c, proc, toServer, instance>>
  BY <1>1 DEF AInv, Typed, vars, Waiting, Exits, AInv, Process
<1>6. Typed' /\ Calm'
  BY <1>5, <1>2, <1>3 DEF AInv, Typed, Calm, May, Windows, Control
<1>7. Process' /\ InServer' /\ OneCommand'
  BY <1>5 DEF AInv, Process, Control, May, InServer, OneCommand
<1>8. ReadyFirst'
  BY <1>5, <1>4, <1>2, <1>3 DEF AInv, ReadyFirst, InServer, Process, Control, May, Same
<1>9. OneSuspension'
  BY <1>5, <1>4
  DEF AInv, OneSuspension, Sends, Stays, Wakes, Answers, InServer, Process, Windows, Control, May,
      Calm, Same
<1>10. Leaving'
  BY <1>5, <1>4 DEF AInv, Leaving, Told, InServer, Process, Control, May, Same
<1> QED BY <1>6, <1>7, <1>8, <1>9, <1>10 DEF AInv

LEMMA Detached ==
  ASSUME AInv, ClientReceives /\ proc.at = "attached" /\ Head(toClient) \in {"DETACH", "DETACHKILL"}
  PROVE  AInv'
<1> USE DEF None, Ended, Flag, Halts, Resumes, Detaches
<1>1. /\ Attached(Head(toClient)) /\ proc.at = "attached" /\ toClient # <<>>
      /\ Head(toClient) \in {"DETACH", "DETACHKILL"}
      /\ toClient' = Tail(toClient) /\ UNCHANGED <<c, server, instance>>
  BY DEF ClientReceives
<1>2. \E r \in {"detached", "detached and SIGHUP"} : ProcIs(proc.at, proc.ready, r, Head(toClient),
                                                            proc.exitflag, proc.quiet, proc.signals)
  <2>1. CASE Head(toClient) = "DETACH"
    <3>1. proc' = [proc EXCEPT !.reason = "detached", !.exittype = "DETACH"]
      BY <1>1, <2>1 DEF Attached, Reason
    <3> QED BY <3>1, <2>1 DEF AInv, Typed, ProcRecord, ProcIs
  <2>2. CASE Head(toClient) = "DETACHKILL"
    <3>1. proc' = [proc EXCEPT !.reason = "detached and SIGHUP", !.exittype = "DETACHKILL"]
      BY <1>1, <2>2 DEF Attached, Reason
    <3> QED BY <3>1, <2>2 DEF AInv, Typed, ProcRecord, ProcIs
  <2> QED BY <1>1, <2>1, <2>2
<1>3. toClient # <<>> /\ Head(toClient) \in {"DETACH", "DETACHKILL"} /\ toClient' = Tail(toClient)
  BY <1>1 DEF Attached, Reason, Exits
<1>4. toClient' \in Seq(ToClient) /\ Shrinks(toClient, toClient', Head(toClient))
  BY <1>3, Taken DEF AInv, Typed
<1>5. "EXITING" \in ToServer /\ Say("EXITING")
  BY <1>1 DEF ToServer, Attached, Reason, Exits
<1>6. /\ Same(toClient, toClient', {"READY"})
      /\ Same(toClient, toClient', Halts)
      /\ Less(toClient, toClient', Detaches)
      /\ Same(toClient, toClient', {"EXITED"})
      /\ Same(toClient, toClient', {"SUSPEND"})
      /\ Same(toServer, toServer', {"COMMAND"})
      /\ Same(toServer, toServer', Resumes)
      /\ More(toServer, toServer', {"EXITING"})
  BY <1>3, <1>4, <1>5, Says DEF Same, AInv, Shrinks, Grows
<1>7. server' = server /\ proc.at = "attached" /\ UNCHANGED <<c, instance>>
  BY <1>1 DEF AInv, Typed, vars, Attached, Reason, Exits
<1>8. Typed' /\ Calm'
  BY <1>7, <1>2, <1>3, <1>4, <1>5, Says DEF AInv, Typed, ProcIs, Calm, May, Windows, Control
<1>9. Process'
  BY <1>7, <1>2 DEF AInv, Typed, ProcRecord, Process, Control, May, ProcIs
<1>10. InServer'
  BY <1>7, <1>2 DEF AInv, Typed, ClientRecord, InServer, Control, May, ProcIs
<1>11. OneCommand'
  BY <1>7, <1>6 DEF AInv, OneCommand, InServer, Same, More, Less
<1>12. ReadyFirst'
  BY <1>7, <1>2, <1>6, <1>3, <1>4
  DEF AInv, ReadyFirst, InServer, Process, Control, May, ProcIs, Same, More, Less
<1>13. OneSuspension'
  BY <1>7, <1>2, <1>6
  DEF AInv, OneSuspension, Sends, Stays, Wakes, Answers, InServer, Process, Windows, Control, May,
      Calm, ProcIs, Same, More, Less
<1>14. Leaving'
  BY <1>7, <1>2, <1>6
  DEF AInv, Leaving, Told, InServer, Process, Control, May, ProcIs, Same, More, Less
<1> QED BY <1>8, <1>9, <1>10, <1>11, <1>12, <1>13, <1>14 DEF AInv

LEMMA Execs ==
  ASSUME AInv, ClientReceives /\ proc.at = "attached" /\ Head(toClient) = "EXEC"
  PROVE  AInv'
<1> USE DEF None, Ended, Flag, Halts, Resumes, Detaches
<1>1. /\ Attached(Head(toClient)) /\ proc.at = "attached" /\ toClient # <<>>
      /\ Head(toClient) = "EXEC"
      /\ toClient' = Tail(toClient) /\ UNCHANGED <<c, server, instance>>
  BY DEF ClientReceives
<1>2. ProcIs(proc.at, proc.ready, proc.reason, "EXEC", proc.exitflag, proc.quiet, proc.signals)
  BY <1>1 DEF AInv, Typed, ProcRecord, ProcIs, Attached, Reason, Exits
<1>3. toClient # <<>> /\ Head(toClient) \in {"EXEC"} /\ toClient' = Tail(toClient)
  BY <1>1 DEF Attached, Reason, Exits
<1>4. toClient' \in Seq(ToClient) /\ Shrinks(toClient, toClient', Head(toClient))
  BY <1>3, Taken DEF AInv, Typed
<1>5. "EXITING" \in ToServer /\ Say("EXITING")
  BY <1>1 DEF ToServer, Attached, Reason, Exits
<1>6. /\ Same(toClient, toClient', {"READY"})
      /\ Same(toClient, toClient', Halts)
      /\ Same(toClient, toClient', Detaches)
      /\ Same(toClient, toClient', {"EXITED"})
      /\ Same(toClient, toClient', {"SUSPEND"})
      /\ Same(toServer, toServer', {"COMMAND"})
      /\ Same(toServer, toServer', Resumes)
      /\ More(toServer, toServer', {"EXITING"})
  BY <1>3, <1>4, <1>5, Says DEF Same, AInv, Shrinks, Grows
<1>7. server' = server /\ proc.at = "attached" /\ UNCHANGED <<c, instance>>
  BY <1>1 DEF AInv, Typed, vars, Attached, Reason, Exits
<1>8. Typed' /\ Calm'
  BY <1>7, <1>2, <1>3, <1>4, <1>5, Says DEF AInv, Typed, ProcIs, Calm, May, Windows, Control
<1>9. Process'
  BY <1>7, <1>2 DEF AInv, Typed, ProcRecord, Process, Control, May, ProcIs
<1>10. InServer'
  BY <1>7, <1>2 DEF AInv, Typed, ClientRecord, InServer, Control, May, ProcIs
<1>11. OneCommand'
  BY <1>7, <1>6 DEF AInv, OneCommand, InServer, Same, More
<1>12. ReadyFirst'
  BY <1>7, <1>2, <1>6, <1>3, <1>4
  DEF AInv, ReadyFirst, InServer, Process, Control, May, ProcIs, Same, More
<1>13. OneSuspension'
  BY <1>7, <1>2, <1>6
  DEF AInv, OneSuspension, Sends, Stays, Wakes, Answers, InServer, Process, Windows, Control, May,
      Calm, ProcIs, Same, More
<1>14. Leaving'
  BY <1>7, <1>2, <1>6 DEF AInv, Leaving, Told, InServer, Process, Control, May, ProcIs, Same, More
<1> QED BY <1>8, <1>9, <1>10, <1>11, <1>12, <1>13, <1>14 DEF AInv

LEMMA ToldToExit ==
  ASSUME AInv, ClientReceives /\ proc.at = "attached" /\ Head(toClient) = "EXIT"
  PROVE  AInv'
<1> USE DEF None, Ended, Flag, Halts, Resumes, Detaches
<1>1. /\ Attached(Head(toClient)) /\ proc.at = "attached" /\ toClient # <<>>
      /\ Head(toClient) = "EXIT"
      /\ toClient' = Tail(toClient) /\ UNCHANGED <<c, server, instance>>
  BY DEF ClientReceives
<1>2. ProcIs(proc.at, proc.ready, IF proc.reason = None THEN "exited" ELSE proc.reason,
             proc.exittype, proc.exitflag, proc.quiet, proc.signals)
  BY <1>1 DEF AInv, Typed, ProcRecord, ProcIs, Attached, Reason, Exits
<1>3. toClient # <<>> /\ Head(toClient) \in {"EXIT"} /\ toClient' = Tail(toClient)
  BY <1>1 DEF Attached, Reason, Exits
<1>4. toClient' \in Seq(ToClient) /\ Shrinks(toClient, toClient', Head(toClient))
  BY <1>3, Taken DEF AInv, Typed
<1>5. "EXITING" \in ToServer /\ Say("EXITING")
  BY <1>1 DEF ToServer, Attached, Reason, Exits
<1>6. /\ Same(toClient, toClient', {"READY"})
      /\ Same(toClient, toClient', Halts)
      /\ Same(toClient, toClient', Detaches)
      /\ Same(toClient, toClient', {"EXITED"})
      /\ Same(toClient, toClient', {"SUSPEND"})
      /\ Same(toServer, toServer', {"COMMAND"})
      /\ Same(toServer, toServer', Resumes)
      /\ More(toServer, toServer', {"EXITING"})
  BY <1>3, <1>4, <1>5, Says DEF Same, AInv, Shrinks, Grows
<1>7. server' = server /\ proc.at = "attached" /\ UNCHANGED <<c, instance>>
  BY <1>1 DEF AInv, Typed, vars, Attached, Reason, Exits
<1>8. Typed' /\ Calm'
  BY <1>7, <1>2, <1>3, <1>4, <1>5, Says DEF AInv, Typed, ProcIs, Calm, May, Windows, Control
<1>9. Process'
  BY <1>7, <1>2 DEF AInv, Typed, ProcRecord, Process, Control, May, ProcIs
<1>10. InServer'
  BY <1>7, <1>2 DEF AInv, Typed, ClientRecord, InServer, Control, May, ProcIs
<1>11. OneCommand'
  BY <1>7, <1>6 DEF AInv, OneCommand, InServer, Same, More
<1>12. ReadyFirst'
  BY <1>7, <1>2, <1>6, <1>3, <1>4
  DEF AInv, ReadyFirst, InServer, Process, Control, May, ProcIs, Same, More
<1>13. OneSuspension'
  BY <1>7, <1>2, <1>6
  DEF AInv, OneSuspension, Sends, Stays, Wakes, Answers, InServer, Process, Windows, Control, May,
      Calm, ProcIs, Same, More
<1>14. Leaving'
  BY <1>7, <1>2, <1>6 DEF AInv, Leaving, Told, InServer, Process, Control, May, ProcIs, Same, More
<1> QED BY <1>8, <1>9, <1>10, <1>11, <1>12, <1>13, <1>14 DEF AInv

\* The server has closed the terminal, and the client knows why it ends.
LEMMA Exited ==
  ASSUME AInv, ClientReceives /\ proc.at = "attached" /\ Head(toClient) = "EXITED"
  PROVE  AInv'
<1> USE DEF None, Ended, Flag, Halts, Resumes, Detaches
<1>1. /\ Attached(Head(toClient)) /\ proc.at = "attached" /\ toClient # <<>>
      /\ Head(toClient) = "EXITED"
      /\ toClient' = Tail(toClient) /\ UNCHANGED <<c, server, instance>>
  BY DEF ClientReceives
<1>2. ProcIs(IF proc.exittype = "EXEC" THEN "exec" ELSE "gone", proc.ready, proc.reason,
             proc.exittype, proc.exitflag, proc.quiet, proc.signals)
  BY <1>1 DEF AInv, Typed, ProcRecord, ProcIs, Attached, Reason, Exits
<1>3. toClient # <<>> /\ Head(toClient) \in {"EXITED"} /\ toClient' = Tail(toClient)
  BY <1>1 DEF Attached, Reason, Exits
<1>4. toClient' \in Seq(ToClient) /\ Shrinks(toClient, toClient', Head(toClient))
  BY <1>3, Taken DEF AInv, Typed
<1>5. /\ Same(toClient, toClient', {"READY"})
      /\ Same(toClient, toClient', Halts)
      /\ Same(toClient, toClient', Detaches)
      /\ Less(toClient, toClient', {"EXITED"})
      /\ Same(toClient, toClient', {"SUSPEND"})
  BY <1>3, <1>4 DEF Same, AInv, Shrinks
<1>6. server' = server /\ proc.at = "attached" /\ UNCHANGED <<c, toServer, instance>>
  BY <1>1 DEF AInv, Typed, vars, Attached, Reason, Exits
<1>7. Typed' /\ Calm'
  BY <1>6, <1>2, <1>3, <1>4 DEF AInv, Typed, ProcIs, Calm, May, Windows, Control
<1>8. Process'
  BY <1>6, <1>2 DEF AInv, Typed, ProcRecord, Process, Control, May, ProcIs
<1>9. InServer'
  BY <1>6, <1>2 DEF AInv, Typed, ClientRecord, InServer, Control, May, ProcIs
<1>10. OneCommand'
  BY <1>6, <1>5 DEF AInv, OneCommand, InServer, Same, Less
<1>11. ReadyFirst'
  BY <1>6, <1>2, <1>5, <1>3, <1>4
  DEF AInv, ReadyFirst, InServer, Process, Control, May, ProcIs, Same, Less
<1>12. OneSuspension'
  BY <1>6, <1>2, <1>5
  DEF AInv, OneSuspension, Sends, Stays, Wakes, Answers, InServer, Process, Windows, Control, May,
      Calm, ProcIs, Same, Less
<1>13. Leaving'
  BY <1>6, <1>2, <1>5 DEF AInv, Leaving, Told, InServer, Process, Control, May, ProcIs, Same, Less
<1> QED BY <1>7, <1>8, <1>9, <1>10, <1>11, <1>12, <1>13 DEF AInv

LEMMA ServerExited ==
  ASSUME AInv, ClientReceives /\ proc.at = "attached" /\ Head(toClient) = "SHUTDOWN"
  PROVE  AInv'
<1> USE DEF None, Ended, Flag, Halts, Resumes, Detaches
<1>1. /\ Attached(Head(toClient)) /\ proc.at = "attached" /\ toClient # <<>>
      /\ Head(toClient) = "SHUTDOWN"
      /\ toClient' = Tail(toClient) /\ UNCHANGED <<c, server, instance>>
  BY DEF ClientReceives
<1>2. ProcIs(proc.at, proc.ready, "server exited", proc.exittype, proc.exitflag, proc.quiet,
             proc.signals)
  BY <1>1 DEF AInv, Typed, ProcRecord, ProcIs, Attached, Reason, Exits
<1>3. toClient # <<>> /\ Head(toClient) \in {"SHUTDOWN"} /\ toClient' = Tail(toClient)
  BY <1>1 DEF Attached, Reason, Exits
<1>4. toClient' \in Seq(ToClient) /\ Shrinks(toClient, toClient', Head(toClient))
  BY <1>3, Taken DEF AInv, Typed
<1>5. "EXITING" \in ToServer /\ Say("EXITING")
  BY <1>1 DEF ToServer, Attached, Reason, Exits
<1>6. /\ Same(toClient, toClient', {"READY"})
      /\ Same(toClient, toClient', Halts)
      /\ Same(toClient, toClient', Detaches)
      /\ Same(toClient, toClient', {"EXITED"})
      /\ Same(toClient, toClient', {"SUSPEND"})
      /\ Same(toServer, toServer', {"COMMAND"})
      /\ Same(toServer, toServer', Resumes)
      /\ More(toServer, toServer', {"EXITING"})
  BY <1>3, <1>4, <1>5, Says DEF Same, AInv, Shrinks, Grows
<1>7. server' = server /\ proc.at = "attached" /\ UNCHANGED <<c, instance>>
  BY <1>1 DEF AInv, Typed, vars, Attached, Reason, Exits
<1>8. Typed' /\ Calm'
  BY <1>7, <1>2, <1>3, <1>4, <1>5, Says DEF AInv, Typed, ProcIs, Calm, May, Windows, Control
<1>9. Process'
  BY <1>7, <1>2 DEF AInv, Typed, ProcRecord, Process, Control, May, ProcIs
<1>10. InServer'
  BY <1>7, <1>2 DEF AInv, Typed, ClientRecord, InServer, Control, May, ProcIs
<1>11. OneCommand'
  BY <1>7, <1>6 DEF AInv, OneCommand, InServer, Same, More
<1>12. ReadyFirst'
  BY <1>7, <1>2, <1>6, <1>3, <1>4
  DEF AInv, ReadyFirst, InServer, Process, Control, May, ProcIs, Same, More
<1>13. OneSuspension'
  BY <1>7, <1>2, <1>6
  DEF AInv, OneSuspension, Sends, Stays, Wakes, Answers, InServer, Process, Windows, Control, May,
      Calm, ProcIs, Same, More
<1>14. Leaving'
  BY <1>7, <1>2, <1>6 DEF AInv, Leaving, Told, InServer, Process, Control, May, ProcIs, Same, More
<1> QED BY <1>8, <1>9, <1>10, <1>11, <1>12, <1>13, <1>14 DEF AInv

\* On Windows nobody suspends.
LEMMA Stops ==
  ASSUME AInv, ClientReceives /\ proc.at = "attached" /\ Head(toClient) = "SUSPEND"
  PROVE  AInv'
<1> USE DEF None, Ended, Flag, Halts, Resumes, Detaches
<1>1. /\ Attached(Head(toClient)) /\ proc.at = "attached" /\ toClient # <<>>
      /\ Head(toClient) = "SUSPEND"
      /\ toClient' = Tail(toClient) /\ UNCHANGED <<c, server, instance>>
  BY DEF ClientReceives
<1>2. /\ ~Windows
      /\ ProcIs("stopped", proc.ready, proc.reason, proc.exittype, proc.exitflag, proc.quiet,
                proc.signals)
  <2>1. Has(toClient, {"SUSPEND"})
    BY <1>1, Taken DEF AInv, Typed, Shrinks, Less
  <2>2. ~Windows
    BY <2>1 DEF AInv, OneSuspension
  <2>3. proc' = [proc EXCEPT !.suspended = TRUE, !.at = "stopped"]
    BY <1>1, <2>2 DEF Attached
  <2> QED BY <2>2, <2>3 DEF AInv, Typed, ProcRecord, ProcIs
<1>3. toClient # <<>> /\ Head(toClient) \in {"SUSPEND"} /\ toClient' = Tail(toClient)
  BY <1>1 DEF Attached, Reason, Exits
<1>4. toClient' \in Seq(ToClient) /\ Shrinks(toClient, toClient', Head(toClient))
  BY <1>3, Taken DEF AInv, Typed
<1>5. /\ Same(toClient, toClient', {"READY"})
      /\ Less(toClient, toClient', Halts)
      /\ Same(toClient, toClient', Detaches)
      /\ Same(toClient, toClient', {"EXITED"})
      /\ Less(toClient, toClient', {"SUSPEND"})
  BY <1>3, <1>4 DEF Same, AInv, Shrinks
<1>6. server' = server /\ proc.at = "attached" /\ UNCHANGED <<c, toServer, instance>>
  BY <1>1 DEF AInv, Typed, vars, Attached, Reason, Exits
<1>7. Typed' /\ Calm'
  BY <1>6, <1>2, <1>3, <1>4 DEF AInv, Typed, ProcIs, Calm, May, Windows, Control
<1>8. Process'
  BY <1>6, <1>2 DEF AInv, Typed, ProcRecord, Process, Control, May, ProcIs
<1>9. InServer'
  BY <1>6, <1>2 DEF AInv, Typed, ClientRecord, InServer, Control, May, ProcIs
<1>10. OneCommand'
  BY <1>6, <1>5 DEF AInv, OneCommand, InServer, Same, Less
<1>11. ReadyFirst'
  BY <1>6, <1>2, <1>5, <1>3, <1>4
  DEF AInv, ReadyFirst, InServer, Process, Control, May, ProcIs, Same, Less
<1>12. OneSuspension'
  BY <1>6, <1>2, <1>5
  DEF AInv, OneSuspension, Sends, Stays, Wakes, Answers, InServer, Process, Windows, Control, May,
      Calm, ProcIs, Same, Less
<1>13. Leaving'
  BY <1>6, <1>2, <1>5 DEF AInv, Leaving, Told, InServer, Process, Control, May, ProcIs, Same, Less
<1> QED BY <1>7, <1>8, <1>9, <1>10, <1>11, <1>12, <1>13 DEF AInv

LEMMA Locks ==
  ASSUME AInv, ClientReceives /\ proc.at = "attached" /\ Head(toClient) = "LOCK"
  PROVE  AInv'
<1> USE DEF None, Ended, Flag, Halts, Resumes, Detaches
<1>1. /\ Attached(Head(toClient)) /\ proc.at = "attached" /\ toClient # <<>>
      /\ Head(toClient) = "LOCK"
      /\ toClient' = Tail(toClient) /\ UNCHANGED <<c, server, instance>>
  BY DEF ClientReceives
<1>2. ProcIs("locked", proc.ready, proc.reason, proc.exittype, proc.exitflag, proc.quiet,
             proc.signals)
  BY <1>1 DEF AInv, Typed, ProcRecord, ProcIs, Attached, Reason, Exits
<1>3. toClient # <<>> /\ Head(toClient) \in {"LOCK"} /\ toClient' = Tail(toClient)
  BY <1>1 DEF Attached, Reason, Exits
<1>4. toClient' \in Seq(ToClient) /\ Shrinks(toClient, toClient', Head(toClient))
  BY <1>3, Taken DEF AInv, Typed
<1>5. /\ Same(toClient, toClient', {"READY"})
      /\ Less(toClient, toClient', Halts)
      /\ Same(toClient, toClient', Detaches)
      /\ Same(toClient, toClient', {"EXITED"})
      /\ Same(toClient, toClient', {"SUSPEND"})
  BY <1>3, <1>4 DEF Same, AInv, Shrinks
<1>6. server' = server /\ proc.at = "attached" /\ UNCHANGED <<c, toServer, instance>>
  BY <1>1 DEF AInv, Typed, vars, Attached, Reason, Exits
<1>7. Typed' /\ Calm'
  BY <1>6, <1>2, <1>3, <1>4 DEF AInv, Typed, ProcIs, Calm, May, Windows, Control
<1>8. Process'
  BY <1>6, <1>2 DEF AInv, Typed, ProcRecord, Process, Control, May, ProcIs
<1>9. InServer'
  BY <1>6, <1>2 DEF AInv, Typed, ClientRecord, InServer, Control, May, ProcIs
<1>10. OneCommand'
  BY <1>6, <1>5 DEF AInv, OneCommand, InServer, Same, Less
<1>11. ReadyFirst'
  BY <1>6, <1>2, <1>5, <1>3, <1>4
  DEF AInv, ReadyFirst, InServer, Process, Control, May, ProcIs, Same, Less
<1>12. OneSuspension'
  BY <1>6, <1>2, <1>5
  DEF AInv, OneSuspension, Sends, Stays, Wakes, Answers, InServer, Process, Windows, Control, May,
      Calm, ProcIs, Same, Less
<1>13. Leaving'
  BY <1>6, <1>2, <1>5 DEF AInv, Leaving, Told, InServer, Process, Control, May, ProcIs, Same, Less
<1> QED BY <1>7, <1>8, <1>9, <1>10, <1>11, <1>12, <1>13 DEF AInv

LEMMA IgnoresLate ==
  ASSUME AInv, ClientReceives /\ proc.at = "attached" /\ Head(toClient) \in {"READY", "VERSION",
                                                                             "SHELL"}
  PROVE  AInv'
<1> USE DEF None, Ended, Flag, Halts, Resumes, Detaches
<1>1. /\ Attached(Head(toClient)) /\ proc.at = "attached" /\ toClient # <<>>
      /\ Head(toClient) \in {"READY", "VERSION", "SHELL"}
      /\ toClient' = Tail(toClient) /\ UNCHANGED <<c, server, instance>>
  BY DEF ClientReceives
<1>2. /\ toClient # <<>> /\ Head(toClient) \in {"READY", "VERSION", "SHELL"}
      /\ toClient' = Tail(toClient)
  BY <1>1 DEF Attached, Reason, Exits
<1>3. toClient' \in Seq(ToClient) /\ Shrinks(toClient, toClient', Head(toClient))
  BY <1>2, Taken DEF AInv, Typed
<1>4. /\ (Has(toClient', {"READY"}) => Has(toClient, {"READY"}))
      /\ (Once(toClient, {"READY"}) => Once(toClient', {"READY"}))
      /\ Same(toClient, toClient', Halts)
      /\ Same(toClient, toClient', Detaches)
      /\ Same(toClient, toClient', {"EXITED"})
      /\ Same(toClient, toClient', {"SUSPEND"})
  BY <1>2, <1>3 DEF Same, AInv, Shrinks, Less
<1>5. server' = server /\ proc.at = "attached" /\ UNCHANGED <<c, proc, toServer, instance>>
  BY <1>1 DEF AInv, Typed, vars, Attached, Reason, Exits
<1>6. Typed' /\ Calm'
  BY <1>5, <1>2, <1>3 DEF AInv, Typed, Calm, May, Windows, Control
<1>7. Process' /\ InServer' /\ OneCommand'
  BY <1>5 DEF AInv, Process, Control, May, InServer, OneCommand
<1>8. ReadyFirst'
  BY <1>5, <1>4, <1>2, <1>3 DEF AInv, ReadyFirst, InServer, Process, Control, May, Same
<1>9. OneSuspension'
  BY <1>5, <1>4
  DEF AInv, OneSuspension, Sends, Stays, Wakes, Answers, InServer, Process, Windows, Control, May,
      Calm, Same
<1>10. Leaving'
  BY <1>5, <1>4 DEF AInv, Leaving, Told, InServer, Process, Control, May, Same
<1> QED BY <1>6, <1>7, <1>8, <1>9, <1>10 DEF AInv

LEMMA SignalWaiting ==
  ASSUME AInv, proc.at = "wait" /\ (\E s \in {"HUP", "TERM", "CONT"} : Signal(s))
  PROVE  AInv'
<1> USE DEF None, Ended, Flag, Halts, Resumes, Detaches
<1>1. \E s \in {"HUP", "TERM"} : ProcIs("gone", proc.ready, proc.reason, proc.exittype,
                                        proc.exitflag, proc.quiet, proc.signals \ {s})
  <2>1. PICK s \in {"HUP", "TERM", "CONT"} : Signal(s)
    OBVIOUS
  <2>2. s # "CONT"
    BY <2>1 DEF Signal, AInv, Process
  <2>3. proc' = [proc EXCEPT !.signals = @ \ {s}, !.at = "gone"]
    BY <2>1, <2>2 DEF Signal, Exits, AInv, Process, Typed, ProcRecord
  <2> QED BY <2>2, <2>3 DEF AInv, Typed, ProcRecord, ProcIs
<1>2. server' = server /\ proc.at = "wait" /\ UNCHANGED <<c, toClient, toServer, instance>>
  BY DEF AInv, Typed, vars, Signal
<1>3. Typed' /\ Calm'
  BY <1>2, <1>1 DEF AInv, Typed, ProcIs, Calm, May, Windows, Control
<1>4. Process'
  BY <1>2, <1>1 DEF AInv, Typed, ProcRecord, Process, Control, May, ProcIs
<1>5. InServer'
  BY <1>2, <1>1 DEF AInv, Typed, ClientRecord, InServer, Control, May, ProcIs
<1>6. OneCommand'
  BY <1>2 DEF AInv, OneCommand, InServer
<1>7. ReadyFirst'
  BY <1>2, <1>1 DEF AInv, ReadyFirst, InServer, Process, Control, May, ProcIs
<1>8. OneSuspension'
  BY <1>2, <1>1
  DEF AInv, OneSuspension, Sends, Stays, Wakes, Answers, InServer, Process, Windows, Control, May,
      Calm, ProcIs
<1>9. Leaving'
  BY <1>2, <1>1 DEF AInv, Leaving, Told, InServer, Process, Control, May, ProcIs
<1> QED BY <1>3, <1>4, <1>5, <1>6, <1>7, <1>8, <1>9 DEF AInv

LEMMA SignalHUP ==
  ASSUME AInv, proc.at = "attached" /\ Signal("HUP")
  PROVE  AInv'
<1> USE DEF None, Ended, Flag, Halts, Resumes, Detaches
<1>1. ProcIs(proc.at, proc.ready, "lost tty", proc.exittype, proc.exitflag, proc.quiet,
             proc.signals \ {"HUP"})
  <2>1. proc' = [proc EXCEPT !.signals = @ \ {"HUP"}, !.reason = "lost tty"]
    BY DEF Signal, Reason, AInv, Typed, ProcRecord
  <2> QED BY <2>1 DEF AInv, Typed, ProcRecord, ProcIs
<1>2. "EXITING" \in ToServer /\ Say("EXITING")
  BY DEF ToServer, Signal, Reason
<1>3. /\ Same(toServer, toServer', {"COMMAND"})
      /\ Same(toServer, toServer', Resumes)
      /\ More(toServer, toServer', {"EXITING"})
  BY <1>2, Says DEF Same, AInv, Grows
<1>4. /\ server' = server /\ proc.at = "attached" /\ "HUP" \in proc.signals
      /\ UNCHANGED <<c, toClient, instance>>
  BY DEF AInv, Typed, vars, Signal, Reason
<1>5. Typed' /\ Calm'
  BY <1>4, <1>1, <1>2, Says DEF AInv, Typed, ProcIs, Calm, May, Windows, Control
<1>6. Process'
  BY <1>4, <1>1 DEF AInv, Typed, ProcRecord, Process, Control, May, ProcIs
<1>7. InServer'
  BY <1>4, <1>1 DEF AInv, Typed, ClientRecord, InServer, Control, May, ProcIs
<1>8. OneCommand'
  BY <1>4, <1>3 DEF AInv, OneCommand, InServer, Same, More
<1>9. ReadyFirst'
  BY <1>4, <1>1, <1>3 DEF AInv, ReadyFirst, InServer, Process, Control, May, ProcIs, Same, More
<1>10. OneSuspension'
  BY <1>4, <1>1, <1>3
  DEF AInv, OneSuspension, Sends, Stays, Wakes, Answers, InServer, Process, Windows, Control, May,
      Calm, ProcIs, Same, More
<1>11. Leaving'
  BY <1>4, <1>1, <1>3 DEF AInv, Leaving, Told, InServer, Process, Control, May, ProcIs, Same, More
<1> QED BY <1>5, <1>6, <1>7, <1>8, <1>9, <1>10, <1>11 DEF AInv

LEMMA SignalTERM ==
  ASSUME AInv, proc.at = "attached" /\ Signal("TERM")
  PROVE  AInv'
<1> USE DEF None, Ended, Flag, Halts, Resumes, Detaches
<1>1. \E b \in BOOLEAN : ProcIs(proc.at, proc.ready, IF b THEN proc.reason ELSE "terminated",
                                proc.exittype, proc.exitflag, b \/ proc.quiet, proc.signals \ {"TERM"})
  <2>1. \/ proc' = [proc EXCEPT !.signals = @ \ {"TERM"}, !.quiet = TRUE]
        \/ proc' = [proc EXCEPT !.signals = @ \ {"TERM"}, !.reason = "terminated"]
    BY DEF Signal, Reason, AInv, Typed, ProcRecord
  <2> QED BY <2>1 DEF AInv, Typed, ProcRecord, ProcIs
<1>2. "EXITING" \in ToServer /\ Say("EXITING")
  BY DEF ToServer, Signal, Reason
<1>3. /\ Same(toServer, toServer', {"COMMAND"})
      /\ Same(toServer, toServer', Resumes)
      /\ More(toServer, toServer', {"EXITING"})
  BY <1>2, Says DEF Same, AInv, Grows
<1>4. /\ server' = server /\ proc.at = "attached" /\ "TERM" \in proc.signals
      /\ UNCHANGED <<c, toClient, instance>>
  BY DEF AInv, Typed, vars, Signal, Reason
<1>5. Typed' /\ Calm'
  BY <1>4, <1>1, <1>2, Says DEF AInv, Typed, ProcIs, Calm, May, Windows, Control
<1>6. Process'
  BY <1>4, <1>1 DEF AInv, Typed, ProcRecord, Process, Control, May, ProcIs
<1>7. InServer'
  BY <1>4, <1>1 DEF AInv, Typed, ClientRecord, InServer, Control, May, ProcIs
<1>8. OneCommand'
  BY <1>4, <1>3 DEF AInv, OneCommand, InServer, Same, More
<1>9. ReadyFirst'
  BY <1>4, <1>1, <1>3 DEF AInv, ReadyFirst, InServer, Process, Control, May, ProcIs, Same, More
<1>10. OneSuspension'
  BY <1>4, <1>1, <1>3
  DEF AInv, OneSuspension, Sends, Stays, Wakes, Answers, InServer, Process, Windows, Control, May,
      Calm, ProcIs, Same, More
<1>11. Leaving'
  BY <1>4, <1>1, <1>3 DEF AInv, Leaving, Told, InServer, Process, Control, May, ProcIs, Same, More
<1> QED BY <1>5, <1>6, <1>7, <1>8, <1>9, <1>10, <1>11 DEF AInv

LEMMA SignalCONT ==
  ASSUME AInv, proc.at = "attached" /\ Signal("CONT")
  PROVE  AInv'
<1> USE DEF None, Ended, Flag, Halts, Resumes, Detaches
<1>1. ProcIs(proc.at, proc.ready, proc.reason, proc.exittype, proc.exitflag, proc.quiet,
             proc.signals \ {"CONT"})
  <2>1. proc' = [proc EXCEPT !.signals = @ \ {"CONT"}, !.suspended = FALSE]
    BY DEF Signal, AInv, Typed, ProcRecord
  <2> QED BY <2>1 DEF AInv, Typed, ProcRecord, ProcIs
<1>2. "WAKEUP" \in ToServer /\ Say("WAKEUP")
  BY DEF ToServer, Signal, Reason
<1>3. /\ Same(toServer, toServer', {"COMMAND"})
      /\ More(toServer, toServer', Resumes)
      /\ Same(toServer, toServer', {"EXITING"})
  BY <1>2, Says DEF Same, AInv, Grows
<1>4. /\ server' = server /\ proc.at = "attached" /\ "CONT" \in proc.signals
      /\ UNCHANGED <<c, toClient, instance>>
  BY DEF AInv, Typed, vars, Signal, Reason
<1>5. Typed' /\ Calm'
  BY <1>4, <1>1, <1>2, Says DEF AInv, Typed, ProcIs, Calm, May, Windows, Control
<1>6. Process'
  BY <1>4, <1>1 DEF AInv, Typed, ProcRecord, Process, Control, May, ProcIs
<1>7. InServer'
  BY <1>4, <1>1 DEF AInv, Typed, ClientRecord, InServer, Control, May, ProcIs
<1>8. OneCommand'
  BY <1>4, <1>3 DEF AInv, OneCommand, InServer, Same, More
<1>9. ReadyFirst'
  BY <1>4, <1>1, <1>3 DEF AInv, ReadyFirst, InServer, Process, Control, May, ProcIs, Same, More
<1>10. OneSuspension'
  BY <1>4, <1>1, <1>3
  DEF AInv, OneSuspension, Sends, Stays, Wakes, Answers, InServer, Process, Windows, Control, May,
      Calm, ProcIs, Same, More
<1>11. Leaving'
  BY <1>4, <1>1, <1>3 DEF AInv, Leaving, Told, InServer, Process, Control, May, ProcIs, Same, More
<1> QED BY <1>5, <1>6, <1>7, <1>8, <1>9, <1>10, <1>11 DEF AInv

-----------------------------------------------------------------------------
(***************************************************************************)
(* Every step.                                                             *)
(***************************************************************************)

\* A process that waits is not told to stop or to lock: MSG_READY comes first,
\* and a client without a terminal is not suspended.
LEMMA NotYet ==
  ASSUME AInv, proc.at = "wait", toClient # <<>>
  PROVE  Head(toClient) \notin Halts
<1> SUFFICES ASSUME Head(toClient) \in Halts PROVE FALSE
  OBVIOUS
<1>1. Has(toClient, Halts)
  BY Taken DEF AInv, Typed, Shrinks, Less
<1>2. ~Control /\ ~proc.ready
  BY <1>1 DEF AInv, OneSuspension, Sends, InServer, Process
<1>3. Head(toClient) = "READY"
  BY <1>1, <1>2 DEF AInv, ReadyFirst
<1> QED BY <1>3 DEF Halts

LEMMA ServerReceivesKeeps == ASSUME AInv, ServerReceives PROVE AInv'
<1>1. Head(toServer) \in ToServer
  BY Taken DEF ServerReceives, AInv, Typed
<1> QED
  BY <1>1, TakesIdentify, TakesCommand, TakesShell, TakesExiting, TakesWakeup, TakesResize,
     TakesOtherVersion, TakesInvalid
  DEF ToServer

LEMMA ClientReceivesKeeps == ASSUME AInv, ClientReceives PROVE AInv'
<1>1. Head(toClient) \in ToClient /\ toClient # <<>> /\ proc.at \in {"wait", "attached"}
  BY Taken DEF ClientReceives, AInv, Typed
<1>2. CASE proc.at = "wait"
  BY <1>1, <1>2, NotYet, TurnedAway, GetsReady, GoesHome, BecomesShell, LeavesAtOnce, IgnoresEarly
  DEF ToClient, Halts
<1>3. CASE proc.at = "attached"
  BY <1>1, <1>3, Detached, Execs, ToldToExit, Exited, ServerExited, Stops, Locks, IgnoresLate
  DEF ToClient
<1> QED BY <1>1, <1>2, <1>3

LEMMA RunCommandKeeps == ASSUME AInv, RunCommand PROVE AInv'
BY ShowsKeeps, ControlsKeeps, DoneKeeps

LEMMA SignalKeeps == ASSUME AInv, NEW s \in {"HUP", "TERM", "CONT"}, Signal(s) PROVE AInv'
<1>1. proc.at \in {"wait", "attached"}
  BY DEF Signal
<1>2. CASE proc.at = "wait"
  BY <1>2, SignalWaiting
<1>3. CASE proc.at = "attached"
  BY <1>3, SignalHUP, SignalTERM, SignalCONT
<1> QED BY <1>1, <1>2, <1>3

LEMMA Stutters == ASSUME AInv, UNCHANGED vars PROVE AInv'
<1> USE DEF vars, AInv, Flag, May, Windows, Control
<1>1. Typed' /\ Calm' /\ Process' /\ InServer' /\ OneCommand'
  BY DEF Typed, Calm, Process, InServer, OneCommand
<1>2. ReadyFirst' /\ OneSuspension'
  BY DEF ReadyFirst, OneSuspension, Sends, Stays, Wakes, Answers
<1>3. Leaving'
  BY DEF Leaving, Told
<1> QED BY <1>1, <1>2, <1>3

LEMMA StepKeeps == ASSUME AInv, [Next]_vars PROVE AInv'
<1>1. CASE Server
  BY <1>1, ServerReceivesKeeps, DispatchedKeeps, ServerLosesKeeps, RunCommandKeeps, CheckExitKeeps DEF Server
<1>2. CASE Client
  BY <1>2, ClientReceivesKeeps, ClientLosesKeeps, UnlocksKeeps, SignalKeeps DEF Client
<1>3. CASE Detach \/ Exec \/ Suspend \/ Lock \/ Destroy \/ Shutdown
  BY <1>3, DetachKeeps, ExecKeeps, SuspendKeeps, LockKeeps, DestroyKeeps, ShutdownKeeps
<1>4. CASE ServerEnds \/ Continues \/ KillClient \/ KillServer
  BY <1>4, ServerEndsKeeps, ContinuesKeeps, KillClientKeeps, KillServerKeeps
<1>5. CASE \E s \in {"HUP", "TERM", "CONT"} : Sent(s)
  BY <1>5, SentKeeps
<1>6. CASE UNCHANGED vars
  BY <1>6, Stutters
<1> QED BY <1>1, <1>2, <1>3, <1>4, <1>5, <1>6 DEF Next

-----------------------------------------------------------------------------
(***************************************************************************)
(* What follows for a terminal and for the end of a client.                *)
(***************************************************************************)
LEMMA Agree == AInv => AttachSound
<1> SUFFICES ASSUME AInv PROVE AttachSound
  OBVIOUS
<1> USE DEF AInv, Typed, ProcRecord, ClientRecord, Flag, Ended, None
<1>1. TerminalIsGivenUp
  BY DEF TerminalIsGivenUp, OneSuspension, Stays, InServer, Leaving
<1>2. SuspendedComesBack
  BY DEF SuspendedComesBack, OneSuspension, Sends, Stays, Wakes, Answers, Has, Halts, Resumes
<1>3. EndsForAReason
  BY DEF EndsForAReason, Leaving
<1> QED BY <1>1, <1>2, <1>3 DEF AttachSound

\* Whatever commands come and however many, whatever the order in which
\* messages and signals arrive and whoever is killed: the server does not draw
\* on a terminal that the client has given up, a client that is suspended will
\* be heard of again, and none is told that the server was lost when it was
\* not.
THEOREM PartsAgree == Spec /\ Calm => []AttachSound
<1>1. Spec /\ Calm => []AInv
  <2>1. Init /\ Calm => AInv
    BY AtFirst
  <2>2. AInv /\ [Next]_vars => AInv'
    BY StepKeeps
  <2> QED BY <2>1, <2>2, PTL DEF Spec
<1> QED BY <1>1, Agree, PTL
=============================================================================
