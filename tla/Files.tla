------------------------------- MODULE Files -------------------------------
(***************************************************************************)
(* Files that the server reads and writes through a client (file.c), the   *)
(* commands that wait for them, and the process of the client (client.c).  *)
(*                                                                         *)
(* A client that is not attached opens the files: the server asks it with  *)
(* messages for a stream, a number of its own for every file; streams 1    *)
(* and 2 are what is printed. What the client has read, and that it is     *)
(* ready to write or done, comes back the same way. For other clients the  *)
(* server opens the file itself. Either way the command is told by an      *)
(* event that is added to libevent and runs later.                         *)
(*                                                                         *)
(* Messages arrive in order until one side goes. Data is a sequence of     *)
(* pieces; what is written is named by the number of the command. A        *)
(* message that is refused for its form ends a client like a lost one and  *)
(* is left out, and so is a send that fails while the client is there.     *)
(***************************************************************************)
EXTENDS Integers, SequencesExt

CONSTANTS Content,        \* what is in a file, and what arrives at standard input
          FileInstances  \* kinds of commands and circumstances, see FileFeatures

FileFeatures == {"load", "save", "source", "input", "print",
                 "path", "-",      \* where from and to
                 "target",         \* load-buffer -w
                 "fails",          \* files that cannot be opened, read or written
                 "attached",       \* the client is attached or in control mode
                 "windows",        \* the client runs on Windows
                 "kill",           \* the process of the client is killed
                 \* What goes wrong, as do "target" with "fails" and "print" with "-":
                 "shut",           \* standard input or output that is not there
                 "pane goes",      \* the pane of "input" goes
                 "at once"}        \* a client is lost with events pending

FilesAssumption == \A u \in FileInstances : u.uses \subseteq FileFeatures
ASSUME ContentAssumption == Content \in Seq(Range(Content))

VARIABLES c,         \* the client in the server
          files,     \* by stream: those of the client and those that are local
          once,      \* events of event_once
          item,      \* the command at the head of the queue of the client
          toClient, toServer,
          proc,      \* the process of the client
          pane,      \* whether the pane of "input" is there
          book,      \* by stream: the data given and written, until it is given up (history)
          commands,  \* commands so far
          instance

filesVars == <<c, files, once, item, toClient, toServer, proc, pane, book, commands, instance>>

Uses == instance.uses
None == "none"
NoItem == [kind |-> None]
Without(f, s) == [x \in DOMAIN f \ {s} |-> f[x]]
With(f, s, v) == [x \in DOMAIN f \cup {s} |-> IF x = s THEN v ELSE f[x]]

State == [c |-> c, files |-> files, once |-> once, item |-> item,
          toClient |-> toClient, pane |-> pane, book |-> book]
Become(st) ==
  /\ c' = st.c /\ files' = st.files /\ once' = st.once /\ item' = st.item
  /\ toClient' = st.toClient /\ pane' = st.pane /\ book' = st.book
  /\ UNCHANGED instance

FilesInit ==
  /\ instance \in FileInstances
  /\ c \in [flags : IF "attached" \in Uses THEN {{"ATTACHED"}, {"CONTROL"}} ELSE {{}},
            refs : {1}, next : {3}]
  /\ files = <<>> /\ once = <<>> /\ item = NoItem
  /\ toClient = <<>> /\ toServer = <<>>
  /\ proc = [status |-> "running", exitflag |-> FALSE, files |-> <<>>, std |-> [fd \in 0..2 |-> "std"]]
  /\ pane = TRUE /\ book = <<>> /\ commands = 0

-----------------------------------------------------------------------------
(***************************************************************************)
(* The server: files.                                                      *)
(***************************************************************************)
Has(st, flag) == flag \in st.c.flags
Event(st, kind, s) == [st EXCEPT !.once = Append(@, <<kind, s>>)]
Send(st, m) == IF Has(st, "DEAD") THEN st ELSE [st EXCEPT !.toClient = Append(@, m)]

Unref(st) ==
  LET x == [st EXCEPT !.c.refs = @ - 1]
  IN IF x.c.refs = 0 THEN Event(x, "free", None) ELSE x
Ref(st) == [st EXCEPT !.c.refs = @ + 1]

\* remote: cf->c is set, the file is in the tree of the client.
Create(st, s, path) ==
  LET remote == ~Has(st, "ATTACHED")
      x == [st EXCEPT !.files = With(@, s, [path |-> path, remote |-> remote, refs |-> 1,
                                            error |-> "ok", closed |-> FALSE, buffer |-> <<>>])]
  IN IF remote THEN Ref(x) ELSE x
Remote == {s \in DOMAIN files : files[s].remote}
InTree(st, s) == s \in DOMAIN st.files /\ st.files[s].remote

\* Variant: the client of a file is kept.
FreeFileOnly(st, s) ==
  IF st.files[s].refs > 1 THEN [st EXCEPT !.files[s].refs = @ - 1]
  ELSE [st EXCEPT !.files = Without(@, s)]

FreeFile(st, s) ==
  IF st.files[s].refs > 1 THEN [st EXCEPT !.files[s].refs = @ - 1]
  ELSE LET x == [st EXCEPT !.files = Without(@, s)]
       IN IF st.files[s].remote THEN Unref(x) ELSE x

FireDone(st, s) == Event(st, "done", s)
GiveUp(b, s) == IF s \in DOMAIN b THEN Without(b, s) ELSE b
Fail(st, s, error) ==
  FireDone([st EXCEPT !.files[s].error = error, !.book = IF error = "ok" THEN @ ELSE GiveUp(@, s)], s)

\* What is in the buffer goes to the client; a file of a command is done then.
Push(st, s) ==
  LET data == st.files[s].buffer
      x == IF data = <<>> THEN st
           ELSE Send([st EXCEPT !.files[s].buffer = <<>>],
                     [type |-> "WRITE", stream |-> s, data |-> data])
  IN IF s > 2 THEN FireDone(Send(x, [type |-> "WRITE_CLOSE", stream |-> s]), s) ELSE x

Nothing == [given |-> <<>>, wrote |-> <<>>]
Give(b, s, data) == IF s \in DOMAIN b THEN [b EXCEPT ![s].given = @ \o data] ELSE b
Given(st, s, data) == [st EXCEPT !.files[s].buffer = @ \o data, !.book = Give(@, s, data)]

\* file_print, file_print_buffer and file_error.
Printed(st, s, data) ==
  IF Has(st, "ATTACHED") \/ Has(st, "CONTROL") THEN st
  ELSE IF InTree(st, s) THEN Push(Given(st, s, data), s)
  ELSE Send(Given(Create([st EXCEPT !.book = With(@, s, Nothing)], s, "-"), s, data),
            [type |-> "WRITE_OPEN", stream |-> s, path |-> "-"])

\* file_write and file_read. fails: the path is too long, or a file that the
\* server opens itself cannot be opened, read or written.
NextStream(st) == [st EXCEPT !.c.next = @ + 1]
Opens(st, s, path, fails, local, asked) ==
  IF path = "-" /\ (Has(st, "ATTACHED") \/ Has(st, "CONTROL")) THEN Fail(st, s, "EBADF")
  ELSE IF path # "-" /\ Has(st, "ATTACHED")
       THEN IF fails THEN Fail(st, s, "error") ELSE FireDone(local, s)
  ELSE IF fails THEN Fail(asked, s, "E2BIG")
  ELSE asked
FileWrite(st, path, data, fails) ==
  LET s == st.c.next
      x == Create(NextStream(st), s, path)
      given == [x EXCEPT !.files[s].buffer = data, !.book = With(@, s, [Nothing EXCEPT !.given = data])]
  IN Opens(x, s, path, fails, x,
           IF fails THEN given ELSE Send(given, [type |-> "WRITE_OPEN", stream |-> s, path |-> path]))
FileRead(st, path, fails) ==
  LET s == st.c.next
      x == Create(NextStream(st), s, path)
  IN Opens(x, s, path, fails, [x EXCEPT !.files[s].buffer = Content],
           IF fails THEN x ELSE Send(x, [type |-> "READ_OPEN", stream |-> s, path |-> path]))

Cancel(st, s) ==
  IF st.files[s].closed THEN st
  ELSE Send([st EXCEPT !.files[s].closed = TRUE], [type |-> "READ_CANCEL", stream |-> s])

-----------------------------------------------------------------------------
(***************************************************************************)
(* The callbacks of the commands that wait.                                *)
(***************************************************************************)
Continue(st) == [st EXCEPT !.item.waiting = FALSE]
Report(st, error) == IF error = "ok" THEN st ELSE Printed(st, 2, <<"error">>)

LoadDone(st, f) ==
  LET x == Report(st, f.error)
      y == IF x.item.target /\ f.error = "ok" /\ f.buffer # <<>> THEN Unref(x) ELSE x
  IN Continue([y EXCEPT !.item.target = FALSE])
SaveDone(st, f) == Continue(Report(st, f.error))
SourceDone(st, f) ==
  LET x == Report(st, f.error)
  IN IF x.item.left = 0 THEN Continue(x)
     ELSE FileRead([x EXCEPT !.item.left = @ - 1, !.item.stream = x.c.next], f.path, FALSE)

\* window_pane_input_callback. item.file: the data has a pointer to the file.
Input(st, s, done) ==
  LET f == st.files[s]
      x == IF st.item.file /\ (~st.pane \/ Has(st, "DEAD"))
           THEN Cancel(IF st.pane THEN st ELSE [st EXCEPT !.c.flags = @ \cup {"EXIT"}], s)
           ELSE IF ~st.item.file \/ done \/ f.error # "ok" THEN Unref(Continue([st EXCEPT !.item.holds = FALSE]))
           ELSE [st EXCEPT !.item.got = @ \o f.buffer]
  IN [x EXCEPT !.files[s].buffer = <<>>]

\* cf->cb; files that are printed to have none.
Callback(st, s, done) ==
  LET f == st.files[s]
      k == IF s > 2 THEN st.item.kind ELSE "print"
  IN CASE k = "input" -> Input(st, s, done)
       [] k = "load" /\ done -> LoadDone(st, f)
       [] k = "save" /\ done -> SaveDone(st, f)
       [] k = "source" /\ done -> SourceDone(st, f)
       [] OTHER -> st

-----------------------------------------------------------------------------
(***************************************************************************)
(* The commands. Each is the head of the queue until it is retired, and    *)
(* has a reference to the client.                                          *)
(***************************************************************************)
Where == {p \in {"path", "-"} : p \in Uses}

\* Events that a callback has added run before server_loop does.
MayRun == item = NoItem /\ once = <<>> /\ c.flags \cap {"DEAD", "EXIT"} = {} /\ commands < instance.most
Item(kind, target) ==
  Ref([State EXCEPT !.item = [kind |-> kind, waiting |-> TRUE, stream |-> c.next, left |-> 0,
                              target |-> target, file |-> FALSE, holds |-> FALSE, got |-> <<>>]])
Begun == commands' = commands + 1 /\ UNCHANGED <<toServer, proc>>

LoadBuffer(path, fails, target) ==
  /\ "load" \in Uses /\ MayRun /\ Begun
  /\ target => "target" \in Uses
  /\ LET st == Item("load", target)
     IN Become(FileRead(IF target THEN Ref(st) ELSE st, path, fails))

SaveBuffer(path, fails) ==
  /\ "save" \in Uses /\ MayRun /\ Begun
  /\ Become(FileWrite(Item("save", FALSE), path, <<commands, commands>>, fails))

SourceFile(path, fails) ==
  /\ "source" \in Uses /\ MayRun /\ Begun
  /\ Become(FileRead([Item("source", FALSE) EXCEPT !.item.left = 1], path, fails))

\* window_pane_start_input, for a client without a session.
StartInput ==
  /\ "input" \in Uses /\ MayRun /\ Begun /\ pane
  /\ "ATTACHED" \notin c.flags
  /\ LET x == FileRead(Item("input", FALSE), "-", FALSE)
     IN Become(Ref([x EXCEPT !.item.file = x.once = once, !.item.holds = TRUE]))

\* A command that prints a line, or two.
PrintLines(twice) ==
  /\ "print" \in Uses /\ MayRun /\ Begun
  /\ LET st == Printed(State, 1, <<commands>>)
     IN Become(IF twice THEN Printed(st, 1, <<commands>>) ELSE st)

\* cmdq_next goes on after the item and it is freed.
Retire ==
  /\ item # NoItem /\ ~item.waiting /\ "DEAD" \notin c.flags
  /\ Become(Unref([State EXCEPT !.item = NoItem]))
  /\ UNCHANGED <<toServer, proc, commands>>

\* server_client_command_done: the last item of the line.
CommandDone ==
  /\ item = NoItem /\ once = <<>> /\ commands > 0
  /\ c.flags \cap {"DEAD", "EXIT", "ATTACHED"} = {}
  /\ Become([State EXCEPT !.c.flags = @ \cup {"EXIT"}])
  /\ UNCHANGED <<toServer, proc, commands>>

PaneGoes ==
  /\ pane /\ "pane goes" \in Uses /\ commands > 0
  /\ Become([State EXCEPT !.pane = FALSE])
  /\ UNCHANGED <<toServer, proc, commands>>

-----------------------------------------------------------------------------
(***************************************************************************)
(* The server: events.                                                     *)
(***************************************************************************)
\* file_fire_done_cb and server_client_free.
Fire ==
  /\ once # <<>>
  /\ LET kind == Head(once)[1]
         s == Head(once)[2]
         st == [State EXCEPT !.once = Tail(@)]
         f == files[s]
     IN \/ /\ kind = "done" /\ s \in DOMAIN files
           /\ Become(FreeFile(IF f.closed \/ ~f.remote \/ "DEAD" \notin c.flags
                              THEN Callback(st, s, TRUE) ELSE st, s))
        \/ /\ kind = "free"
           /\ Become(IF c.refs = 0 THEN [st EXCEPT !.c.flags = @ \cup {"FREED"}] ELSE st)
  /\ UNCHANGED <<toServer, proc, commands>>

\* server_client_dispatch of one message; a stream that is not known is ignored.
Dispatch(st, m) ==
  IF ~InTree(st, m.stream) THEN st
  ELSE CASE m.type = "WRITE_READY" ->
              IF m.error # "ok" THEN Fail(st, m.stream, m.error) ELSE Push(st, m.stream)
         [] m.type = "READ" ->
              IF st.files[m.stream].error = "ok" /\ ~st.files[m.stream].closed
              THEN Callback([st EXCEPT !.files[m.stream].buffer = @ \o m.data], m.stream, FALSE)
              ELSE st
         [] m.type = "READ_DONE" -> Fail(st, m.stream, m.error)

Receive ==
  /\ toServer # <<>> /\ "DEAD" \notin c.flags
  /\ Become(Dispatch(State, Head(toServer)))
  /\ toServer' = Tail(toServer)
  /\ UNCHANGED <<proc, commands>>

\* server_client_lost: nothing more to read, or a write has failed. That
\* happens in the callback of a message only if the write fails there.
\* tree is the tree of files of the client: all of them are told, in its order.
Trees == {tree \in [1..Cardinality(Remote) -> Remote] : \A i, j \in DOMAIN tree : i < j => tree[i] < tree[j]}
Interrupted(f) == IF f.remote THEN [f EXCEPT !.error = "EINTR"] ELSE f
Lost(st, tree) ==
  Unref([st EXCEPT !.c.flags = @ \cup {"DEAD"}, !.toClient = <<>>,
                   !.files = [s \in DOMAIN st.files |-> Interrupted(st.files[s])],
                   !.book = [s \in DOMAIN st.book \ Remote |-> st.book[s]],
                   !.once = @ \o [i \in DOMAIN tree |-> <<"done", tree[i]>>]])
Lose ==
  /\ proc.status # "running" /\ "DEAD" \notin c.flags
  /\ toServer = <<>> \/ toClient # <<>>
  /\ once = <<>> \/ ("at once" \in Uses /\ toClient # <<>>)
  /\ \E tree \in Trees : Become(Lost(State, tree))
  /\ toServer' = <<>>
  /\ UNCHANGED <<proc, commands>>

\* server_client_check_exit, once in every loop.
CheckExit ==
  /\ "EXIT" \in c.flags /\ c.flags \cap {"DEAD", "EXITED"} = {} /\ once = <<>>
  /\ \A s \in DOMAIN files : files[s].remote => files[s].buffer = <<>>
  /\ Become(Send([State EXCEPT !.c.flags = @ \cup {"EXITED"}], [type |-> "EXIT"]))
  /\ UNCHANGED <<toServer, proc, commands>>

-----------------------------------------------------------------------------
(***************************************************************************)
(* The process of the client. A file of it is open for reading, with the   *)
(* data that is still to be read, or for writing, with the data that waits *)
(* in its buffer; it has no buffer (event) after an error and on Windows.    *)
(***************************************************************************)
MayFail(failing) == failing => "fails" \in Uses
MayRefuse(m) == IF m.path = "-" THEN "shut" \in Uses ELSE "fails" \in Uses
OnWindows == "windows" \in Uses
Fatal(p) == [p EXCEPT !.status = "fatal"]

\* Variant: whatever there is to flush.
TryExitAtOnce(p) == [p EXCEPT !.status = "exited"]

\* client_exit: not before all streams are flushed.
TryExit(p) ==
  IF \A s \in DOMAIN p.files : p.files[s].event /\ ~p.files[s].reading => p.files[s].left = <<>>
  THEN [p EXCEPT !.status = "exited"] ELSE p
Check(p) == IF p.exitflag THEN TryExit(p) ELSE p

\* A descriptor is the least free number; std are those of standard input,
\* output and error, and High the others. A standard stream is duplicated, and
\* then closed since it can only be used once.
High == 3
Least(std) == Min({fd \in 0..2 : std[fd] = "free"} \cup {High})
Take(p, fd) == IF fd = High THEN p ELSE [p EXCEPT !.std[fd] = "file"]
Release(p, fd) == IF fd = High THEN p ELSE [p EXCEPT !.std[fd] = "free"]
Std(m) == IF m.type = "READ_OPEN" THEN 0 ELSE IF m.stream = 2 THEN 2 ELSE 1
Refused(m) == m.path = "-" /\ proc.std[Std(m)] = "free"
\* Another file has the number.
Mistaken(m) == m.path = "-" /\ proc.std[Std(m)] = "file"

Opened(m, reading, left) ==
  LET fd == Least(proc.std)
      p == Take(proc, fd)
      f == [reading |-> reading, event |-> ~OnWindows \/ reading, open |-> TRUE, fd |-> fd, left |-> left]
  IN [(IF m.path = "-" THEN Release(p, Std(m)) ELSE p) EXCEPT !.files = With(@, m.stream, f)]
Closed(p, s) ==
  [(IF p.files[s].open THEN Release(p, p.files[s].fd) ELSE p) EXCEPT !.files = Without(@, s)]
Broken(p, s) ==
  [Release(p, p.files[s].fd) EXCEPT !.files[s].event = FALSE, !.files[s].open = FALSE, !.files[s].left = <<>>]

Reply(type, s, error) == [type |-> type, stream |-> s, error |-> error]
Data(s, data) == [type |-> "READ", stream |-> s, data |-> data]

\* What the client does with a message: its state p and what it answers.
Answer(p, out) == proc' = p /\ toServer' = toServer \o out

\* file_read_open; on Windows a path is read at once.
OpenRead(m, fails) ==
  LET error == Reply("READ_DONE", m.stream, "error")
  IN /\ fails => MayRefuse(m)
     /\ IF m.stream \in DOMAIN proc.files THEN ~fails /\ Answer(proc, <<error>>)
        ELSE IF OnWindows /\ m.path # "-"
        THEN Answer(proc, IF fails THEN <<error>> ELSE <<Data(m.stream, Content), Reply("READ_DONE", m.stream, "ok")>>)
        ELSE IF Refused(m) \/ fails THEN Answer(proc, <<error>>)
        ELSE Answer(Opened(m, TRUE, Content), <<>>)

\* file_write_open.
OpenWrite(m, fails) ==
  LET Ready(error) == <<Reply("WRITE_READY", m.stream, error)>>
  IN /\ fails => MayRefuse(m)
     /\ IF m.stream \in DOMAIN proc.files
        THEN ~fails /\ Answer(proc, Ready("EBADF")) /\ UNCHANGED book
        ELSE IF Refused(m) \/ fails
        THEN Answer(proc, Ready("error")) /\ book' = GiveUp(book, m.stream)
        ELSE Answer(Opened(m, FALSE, <<>>), Ready("ok")) /\ UNCHANGED book

Written(s, data) == IF s \in DOMAIN book THEN [book EXCEPT ![s].wrote = @ \o data] ELSE book

\* file_write_data: on Windows the data is written at once.
WriteData(m, fails) ==
  LET f == proc.files[m.stream]
  IN /\ fails => OnWindows /\ f.open /\ MayFail(fails)
     /\ book' = IF fails THEN GiveUp(book, m.stream)
                ELSE IF f.event \/ ~f.open THEN book ELSE Written(m.stream, m.data)
     /\ Answer(IF f.event THEN [proc EXCEPT !.files[m.stream].left = @ \o m.data]
               ELSE IF ~f.open THEN proc
               ELSE IF fails THEN Check(Broken(proc, m.stream)) ELSE Check(proc), <<>>)

\* file_write_close: with data left the file stays, and nothing closes it.
WriteClose(m) ==
  LET f == proc.files[m.stream]
  IN Answer(IF f.event /\ f.left # <<>> THEN proc ELSE Closed(proc, m.stream), <<>>)

\* client_dispatch_wait.
ClientReceives(fails) ==
  /\ toClient # <<>> /\ proc.status = "running"
  /\ LET m == Head(toClient)
     IN \/ /\ m.type \in {"READ_OPEN", "WRITE_OPEN"} /\ Mistaken(m) /\ ~fails
           /\ Answer([proc EXCEPT !.status = "mistaken"], <<>>) /\ UNCHANGED book
        \/ m.type = "READ_OPEN" /\ ~Mistaken(m) /\ OpenRead(m, fails) /\ UNCHANGED book
        \/ m.type = "WRITE_OPEN" /\ ~Mistaken(m) /\ OpenWrite(m, fails)
        \/ /\ m.type = "EXIT" /\ ~fails
           /\ Answer(TryExit([proc EXCEPT !.exitflag = TRUE]), <<>>) /\ UNCHANGED book
        \/ /\ m.type \in {"READ_CANCEL", "WRITE", "WRITE_CLOSE"} /\ m.stream \notin DOMAIN proc.files
           /\ ~fails /\ Answer(Fatal(proc), <<>>) /\ UNCHANGED book
        \/ /\ m.type \in {"READ_CANCEL", "WRITE", "WRITE_CLOSE"} /\ m.stream \in DOMAIN proc.files
           /\ \/ m.type = "WRITE" /\ WriteData(m, fails)
              \/ m.type = "WRITE_CLOSE" /\ ~fails /\ WriteClose(m) /\ UNCHANGED book
              \/ /\ m.type = "READ_CANCEL" /\ ~fails /\ UNCHANGED book
                 /\ Answer(Closed(proc, m.stream), <<Reply("READ_DONE", m.stream, "ok")>>)
  /\ toClient' = Tail(toClient)
  /\ UNCHANGED <<c, files, once, item, pane, commands, instance>>

Local == UNCHANGED <<c, files, once, item, toClient, pane, commands, instance>>

\* file_read_callback and, at the end or on an error, file_read_error_callback.
ClientReads(s, n) ==
  /\ proc.files[s].reading /\ n \in 1..Len(proc.files[s].left)
  /\ Answer([proc EXCEPT !.files[s].left = SubSeq(@, n + 1, Len(@))],
            <<Data(s, SubSeq(proc.files[s].left, 1, n))>>)
  /\ UNCHANGED book /\ Local
ClientReadsEnd(s, error) ==
  /\ proc.files[s].reading /\ (proc.files[s].left = <<>> \/ error # "ok") /\ MayFail(error # "ok")
  /\ Answer(Closed(proc, s), <<Reply("READ_DONE", s, error)>>)
  /\ UNCHANGED book /\ Local

\* The buffer is written, in parts; file_write_callback when it is empty.
ClientWrites(s, n) ==
  LET f == proc.files[s]
      rest == [proc EXCEPT !.files[s].left = SubSeq(@, n + 1, Len(@))]
  IN /\ ~f.reading /\ f.event /\ n \in 1..Len(f.left)
     /\ book' = Written(s, SubSeq(f.left, 1, n))
     /\ Answer(IF n = Len(f.left) THEN Check(rest) ELSE rest, <<>>)
     /\ Local

\* file_write_error_callback.
ClientWriteFails(s) ==
  /\ "fails" \in Uses /\ ~proc.files[s].reading /\ proc.files[s].event /\ proc.files[s].left # <<>>
  /\ Answer(Check(Broken(proc, s)), <<>>)
  /\ book' = GiveUp(book, s) /\ Local

\* The process is killed; some of what it has sent may not have left it.
ClientKilled ==
  /\ "kill" \in Uses /\ proc.status = "running"
  /\ proc' = [proc EXCEPT !.status = "killed"]
  /\ \E n \in 0..Len(toServer) : toServer' = SubSeq(toServer, 1, n)
  /\ UNCHANGED book /\ Local

Client ==
  \/ \E fails \in BOOLEAN : ClientReceives(fails)
  \/ /\ proc.status = "running"
     /\ \E s \in DOMAIN proc.files :
          \/ \E n \in 1..Len(proc.files[s].left) : ClientReads(s, n) \/ ClientWrites(s, n)
          \/ \E error \in {"ok", "EIO"} : ClientReadsEnd(s, error)

FilesServer == Fire \/ Receive \/ Lose \/ CheckExit \/ Retire \/ CommandDone

FilesNext ==
  \/ \E path \in Where, fails \in {x \in BOOLEAN : MayFail(x)} :
       \/ \E target \in BOOLEAN : LoadBuffer(path, fails, target)
       \/ SaveBuffer(path, fails)
       \/ SourceFile(path, fails)
  \/ StartInput \/ \E twice \in BOOLEAN : PrintLines(twice)
  \/ FilesServer \/ PaneGoes \/ Client \/ ClientKilled
  \/ proc.status = "running" /\ \E s \in DOMAIN proc.files : ClientWriteFails(s)

FilesSpec == FilesInit /\ [][FilesNext]_filesVars

-----------------------------------------------------------------------------
(***************************************************************************)
(* Properties.                                                             *)
(***************************************************************************)
Number(b) == IF b THEN 1 ELSE 0

\* A file is freed by the event that tells its command, which is pending
\* once at most and has the file; the client is there as long as a file, a
\* command or the data of one refers to it, and no longer (file_free,
\* server_client_unref).
FilesCounted ==
  /\ \A s \in DOMAIN files : files[s].refs = 1
  /\ \A i \in DOMAIN once : once[i][1] = "done" =>
       once[i][2] \in DOMAIN files /\ \A j \in DOMAIN once : once[j] = once[i] => i = j
  /\ c.refs = Number("DEAD" \notin c.flags) + Cardinality(Remote) + Number(item # NoItem)
               + (IF item = NoItem THEN 0 ELSE Number(item.target) + Number(item.holds))
  /\ "FREED" \in c.flags => c.refs = 0

\* A command that waits is going to be told: the file it has opened last is
\* there. Only the client of a command that goes may leave it waiting, and a
\* pane that goes takes the client with it. No other file is there, but for
\* those of what is printed: none outlives the command that has opened it.
WaitsAreHeld ==
  /\ \A s \in DOMAIN files : s > 2 => item # NoItem /\ item.waiting /\ item.stream = s
  /\ item # NoItem /\ item.waiting /\ "DEAD" \notin c.flags =>
       \/ item.stream \in DOMAIN files
       \/ item.kind = "input" /\ ~pane /\ "EXIT" \in c.flags

\* Files, references and the commands that wait agree.
FilesSound == FilesCounted /\ WaitsAreHeld

Messages(q, type, s) == SelectSeq(q, LAMBDA m : m.type = type /\ m.stream = s)
DataOf(q, type, s) ==
  FlattenSeq([i \in DOMAIN Messages(q, type, s) |-> Messages(q, type, s)[i].data])
Buffered(s) == IF s \in DOMAIN files THEN files[s].buffer ELSE <<>>
Left(s) == IF s \in DOMAIN proc.files THEN proc.files[s].left ELSE <<>>
Asked(s) == Messages(toClient, "READ_OPEN", s) # <<>>
FailedToRead(s) == \E i \in DOMAIN Messages(toServer, "READ_DONE", s) : Messages(toServer, "READ_DONE", s)[i].error # "ok"
BeingRead == IF item.kind \in {"load", "source", "input"} THEN DOMAIN files \cap {item.stream} ELSE {}

\* The client knows the streams it is told about, and what it opens as its
\* standard input or output is that (file_write_data, file_write_close,
\* file_read_cancel, "can only be used once").
ClientFollows == proc.status \notin {"fatal", "mistaken"}

\* What is written to a file, or printed, is written by the client in order
\* and once, or still on its way: in the file of the server, in a message or
\* in the buffer of the client; and what is read gets to the command whole.
\* The client does not go before (file_push, file_write_data, client_exit,
\* server_client_check_exit).
NothingLost ==
  /\ proc.status = "exited" => \A s \in DOMAIN book : book[s].wrote = book[s].given
  /\ proc.status = "running" /\ "DEAD" \notin c.flags =>
       /\ \A s \in DOMAIN book :
            book[s].given = book[s].wrote \o Left(s) \o DataOf(toClient, "WRITE", s) \o Buffered(s)
       /\ \A s \in BeingRead :
            files[s].error = "ok" /\ ~files[s].closed /\ ~Asked(s) /\ ~FailedToRead(s) =>
              Content = item.got \o Buffered(s) \o DataOf(toServer, "READ", s) \o Left(s)

\* The two ends of a stream go together, and nothing in it is lost.
StreamsKept == ClientFollows /\ NothingLost

\* A client that has given a command goes in the end, as long as the server
\* and the process of the client run: no file holds it for ever.
ClientsGo == commands > 0 ~> "FREED" \in c.flags
=============================================================================
