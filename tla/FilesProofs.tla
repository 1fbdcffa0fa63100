----------------------------- MODULE FilesProofs ----------------------------
(***************************************************************************)
(* Files, the references to a client and the commands that wait for it     *)
(* agree (FilesSound), however many commands there are, in whatever pieces *)
(* data comes and whoever goes, when nothing known to go wrong is used.    *)
(*                                                                         *)
(* At the heart of it is that a stream is in one place at a time: in the   *)
(* message that opens it, in the client that reads it, in the answer, or   *)
(* in the event that tells the command. A handler makes a state from a     *)
(* state, through others whose references are not settled and whose        *)
(* command is between two files; Sound is what is true all the while.      *)
(***************************************************************************)
EXTENDS Files, FiniteSetTheorems, TLAPS

(***************************************************************************)
(* What is known to go wrong: a client that is lost while events are       *)
(* pending for its files; and the target client of load-buffer -w, which   *)
(* is kept when the file is empty or cannot be read, as standard input may *)
(* not be (server_client_lost, cmd_load_buffer_done).                      *)
(***************************************************************************)
Calm ==
  /\ "at once" \notin Uses
  /\ "target" \in Uses => Content # <<>> /\ Uses \cap {"fails", "-"} = {}

-----------------------------------------------------------------------------
Some(q, S) == \E i \in DOMAIN q : q[i] \in S
Once(q, S) == \A i, j \in DOMAIN q : q[i] \in S /\ q[j] \in S => i = j
Before(q, S, T) == \A i, j \in DOMAIN q : q[i] \in S /\ q[j] \in T => i < j

Streams == Nat \ {0}
Pieces == Nat \cup {"error"} \cup Range(Content)
Errors == {"ok", "error", "EBADF", "E2BIG", "EINTR", "EIO"}
ToClient ==
  [type : {"READ_OPEN", "WRITE_OPEN"}, stream : Streams, path : {"path", "-"}]
    \cup [type : {"WRITE"}, stream : Streams, data : Seq(Pieces)]
    \cup [type : {"WRITE_CLOSE", "READ_CANCEL"}, stream : Streams]
    \cup [type : {"EXIT"}]
ToServer ==
  [type : {"READ_DONE", "WRITE_READY"}, stream : Streams, error : Errors]
    \cup [type : {"READ"}, stream : Streams, data : Seq(Pieces)]
Told == ({"done"} \X Streams) \cup {<<"free", None>>}

FileRecord ==
  [path : {"path", "-"}, remote : BOOLEAN, refs : {1}, error : Errors, closed : BOOLEAN, buffer : Seq(Pieces)]
ItemRecord ==
  [kind : {"load", "save", "source", "input"}, waiting : BOOLEAN, stream : Streams, left : 0..1,
   target : BOOLEAN, file : BOOLEAN, holds : BOOLEAN, got : Seq(Pieces)]
ClientRecord ==
  [flags : SUBSET {"ATTACHED", "CONTROL", "EXIT", "EXITED", "DEAD", "FREED"}, refs : Int, next : Streams]
Tables == UNION {[D -> FileRecord] : D \in SUBSET Streams}
States(b) ==
  [c : ClientRecord, files : Tables, once : Seq(Told), item : ItemRecord \cup {NoItem},
   toClient : Seq(ToClient), pane : BOOLEAN, book : {b}]
OpenFile(b) == [reading : BOOLEAN, event : BOOLEAN, open : BOOLEAN, fd : {b}, left : Seq(Pieces)]
ProcRecord(p) ==
  /\ p \in [status : {"running", "exited", "killed", "fatal", "mistaken"}, exitflag : BOOLEAN, files : {p.files}, std : {p.std}]
  /\ p.files = [s \in DOMAIN p.files |-> p.files[s]] /\ DOMAIN p.files \subseteq Streams
  /\ \A s \in DOMAIN p.files : p.files[s] \in OpenFile(p.files[s].fd)
Typed(st, ts, pr) ==
  /\ st \in States(st.book) /\ ts \in Seq(ToServer) /\ ProcRecord(pr)
  /\ IsFiniteSet(DOMAIN st.files)
  /\ st.c.next > 2 /\ \A s \in DOMAIN st.files : s < st.c.next

\* The messages and events of a stream.
OpenOf(s) == {m \in ToClient : m.type \in {"READ_OPEN", "WRITE_OPEN"} /\ m.stream = s}
ReadOf(s) == {m \in ToClient : m.type \in {"READ_OPEN", "READ_CANCEL"} /\ m.stream = s}
WriteOf(s) == {m \in ToClient : m.type \in {"WRITE_OPEN", "WRITE", "WRITE_CLOSE"} /\ m.stream = s}
InputOf(s) ==
  {m \in ToClient : (m.type = "READ_CANCEL" \/ (m.type = "READ_OPEN" /\ m.path = "-")) /\ m.stream = s}
AnswerOf(s) == {m \in ToServer : m.type \in {"READ_DONE", "WRITE_READY"} /\ m.stream = s}
ReadyOf(s) == {m \in ToServer : m.type = "WRITE_READY" /\ m.stream = s}
FailureOf(s) == {m \in AnswerOf(s) : m.error # "ok"}
DataFor(s) == {m \in ToServer : m.type = "READ" /\ m.stream = s}
SomeFor(s) == {m \in DataFor(s) : m.data # <<>>}
DoneOf(s) == {<<"done", s>>}

Live(st) == "DEAD" \notin st.c.flags

\* Where a stream can be.
Opening(st, s) == Some(st.toClient, OpenOf(s))
Reading(pr, s) == s \in DOMAIN pr.files /\ pr.files[s].reading
Answered(ts, s) == Some(ts, AnswerOf(s))
Telling(st, s) == Some(st.once, DoneOf(s))
Nowhere(st, ts, pr, s) ==
  Live(st) => ~Opening(st, s) /\ ~Reading(pr, s) /\ ~Answered(ts, s)

\* It is in one of these places at most, and the file is there then.
OnePlace(st, ts, pr) ==
  \A s \in Streams :
    /\ Once(st.once, DoneOf(s)) /\ (Telling(st, s) => s \in DOMAIN st.files)
    /\ Live(st) =>
         /\ Once(st.toClient, OpenOf(s)) /\ Once(ts, AnswerOf(s))
         /\ Opening(st, s) => ~Reading(pr, s) /\ ~Answered(ts, s) /\ ~Telling(st, s)
         /\ Reading(pr, s) => ~Answered(ts, s) /\ ~Telling(st, s)
         /\ Answered(ts, s) => ~Telling(st, s)
         /\ Opening(st, s) \/ Reading(pr, s) \/ Answered(ts, s) => s \in DOMAIN st.files

\* A stream is read or written; data comes before the answer.
Reads(st, pr, s) == Some(st.toClient, ReadOf(s)) \/ Reading(pr, s)
Writes(st, ts, pr, s) ==
  Some(st.toClient, WriteOf(s)) \/ (s \in DOMAIN pr.files /\ ~pr.files[s].reading) \/ Some(ts, ReadyOf(s))
OneWay(st, ts, pr) ==
  Live(st) => \A s \in Streams :
    /\ Reads(st, pr, s) => ~Writes(st, ts, pr, s) /\ s > 2
    /\ Reads(st, pr, s) \/ Writes(st, ts, pr, s) => s < st.c.next
    /\ Before(ts, DataFor(s), AnswerOf(s))

\* Nothing is on its way to or from a client that is lost.
Quiet(st, ts, pr) == ~Live(st) => st.toClient = <<>> /\ ts = <<>> /\ pr.status # "running"

\* The client has its own files, and attached ones are the server's; k
\* references have been taken or given up for what is still to change.
RemoteOf(st) == {s \in DOMAIN st.files : st.files[s].remote}
Share(i) == IF i = NoItem THEN 0 ELSE 1 + Number(i.target) + Number(i.holds)
Counted(st, k) ==
  /\ \A s \in DOMAIN st.files : st.files[s].remote <=> "ATTACHED" \notin st.c.flags
  /\ \A s \in DOMAIN st.files : s <= 2 => st.files[s].remote
  /\ st.c.refs = k + Number(Live(st)) + Cardinality(RemoteOf(st)) + Share(st.item)

\* The command waits for the file it opened last, and there is no other file
\* of a command; but x is about to be freed, and the file may be about to be
\* opened (soon).
Items(st, ts, pr, x, soon) ==
  /\ \A s \in DOMAIN st.files \ {x} : s > 2 =>
       ~soon /\ st.item # NoItem /\ st.item.stream = s /\ st.item.waiting
  /\ st.item # NoItem =>
       /\ st.item.stream > 2
       /\ (soon => st.item.stream = st.c.next /\ st.item.waiting /\ st.item.kind # "input")
       /\ st.item.waiting /\ Live(st) =>
            \/ soon \/ st.item.stream \in DOMAIN st.files \ {x}
            \/ st.item.kind = "input" /\ ~st.pane /\ "EXIT" \in st.c.flags
       /\ st.item.target => st.item.kind = "load" /\ "target" \in Uses
       /\ st.item.kind = "input" /\ st.item.waiting => st.item.holds
       /\ st.item.kind # "input" => ~st.item.holds
       /\ ~st.item.waiting => ~st.item.target /\ ~st.item.holds
       /\ st.item.kind # "save" /\ Live(st) => ~Writes(st, ts, pr, st.item.stream)
       /\ st.item.kind = "input" /\ ~st.item.file /\ st.item.stream \in DOMAIN st.files =>
            st.files[st.item.stream].error # "ok" /\ Nowhere(st, ts, pr, st.item.stream)
  /\ st.item = NoItem => ~soon

\* A buffer for a target client is not empty in the end.
Arrived(st, ts, s) == st.files[s].buffer # <<>> \/ Some(ts, SomeFor(s))
Target(st, ts, pr) ==
  st.item # NoItem /\ st.item.target /\ st.item.stream \in DOMAIN st.files =>
    LET s == st.item.stream
        f == st.files[s]
    IN /\ ~f.closed
       /\ Live(st) \/ ~f.remote =>
            /\ f.error = "ok" /\ (Telling(st, s) => f.buffer # <<>>)
       /\ Live(st) /\ f.remote =>
            /\ ~Some(ts, FailureOf(s)) /\ ~Some(st.toClient, InputOf(s))
            /\ Reading(pr, s) /\ pr.status = "running" => pr.files[s].left # <<>> \/ Arrived(st, ts, s)
            /\ Answered(ts, s) => Arrived(st, ts, s)

Base(st, ts, pr) ==
  Typed(st, ts, pr) /\ OnePlace(st, ts, pr) /\ OneWay(st, ts, pr) /\ Quiet(st, ts, pr)
Sound(st, ts, pr, k, x, soon) ==
  /\ Base(st, ts, pr) /\ Counted(st, k) /\ Items(st, ts, pr, x, soon) /\ Target(st, ts, pr)

FInv ==
  /\ Calm /\ Sound(State, toServer, proc, 0, 0, FALSE) /\ commands \in Nat
  /\ "FREED" \in c.flags => c.refs = 0

-----------------------------------------------------------------------------
(***************************************************************************)
(* Queues: one more at the end, one less at the head, and a part of one.   *)
(***************************************************************************)
LEMMA Appended ==
  ASSUME NEW M, NEW q \in Seq(M), NEW m \in M
  PROVE  /\ Append(q, m) \in Seq(M)
         /\ \A S : Some(Append(q, m), S) <=> Some(q, S) \/ m \in S
         /\ \A S : Once(q, S) /\ ~(Some(q, S) /\ m \in S) => Once(Append(q, m), S)
         /\ \A S, T : Before(q, S, T) /\ ~(Some(q, T) /\ m \in S) /\ (m \notin S \/ m \notin T) =>
              Before(Append(q, m), S, T)
<1> DEFINE r == Append(q, m)
<1>1. /\ r \in Seq(M) /\ Len(r) = Len(q) + 1 /\ r[Len(q) + 1] = m /\ DOMAIN r = 1 .. Len(q) + 1
      /\ DOMAIN q = 1 .. Len(q) /\ Len(q) \in Nat /\ \A i \in 1 .. Len(q) : r[i] = q[i]
  OBVIOUS
<1> HIDE DEF r
<1>2. ASSUME NEW S PROVE Some(r, S) <=> Some(q, S) \/ m \in S
  <2>1. CASE Some(r, S)
    <3>1. PICK i \in DOMAIN r : r[i] \in S
      BY <2>1 DEF Some
    <3> QED BY <2>1, <3>1, <1>1 DEF Some
  <2>2. CASE Some(q, S)
    <3>1. PICK i \in DOMAIN q : q[i] \in S
      BY <2>2 DEF Some
    <3>2. i \in DOMAIN r /\ r[i] \in S
      BY <3>1, <1>1
    <3> QED BY <2>2, <3>2 DEF Some
  <2>3. CASE m \in S
    <3>1. Len(q) + 1 \in DOMAIN r /\ r[Len(q) + 1] \in S
      BY <2>3, <1>1
    <3> QED BY <2>3, <3>1 DEF Some
  <2> QED BY <2>1, <2>2, <2>3
<1>3. ASSUME NEW S, Once(q, S), ~(Some(q, S) /\ m \in S),
             NEW i \in DOMAIN r, NEW j \in DOMAIN r, r[i] \in S, r[j] \in S
      PROVE  i = j
  <2>1. CASE i \in 1 .. Len(q) /\ j \in 1 .. Len(q)
    BY <2>1, <1>3, <1>1 DEF Once
  <2>2. CASE i = Len(q) + 1 \/ j = Len(q) + 1
    BY <2>2, <1>3, <1>1 DEF Some
  <2> QED BY <2>1, <2>2, <1>1
<1>4. ASSUME NEW S, NEW T, Before(q, S, T), ~(Some(q, T) /\ m \in S), m \notin S \/ m \notin T,
             NEW i \in DOMAIN r, NEW j \in DOMAIN r, r[i] \in S, r[j] \in T
      PROVE  i < j
  <2>1. CASE i \in 1 .. Len(q) /\ j \in 1 .. Len(q)
    BY <2>1, <1>4, <1>1 DEF Before
  <2>2. CASE i \in 1 .. Len(q) /\ j = Len(q) + 1
    BY <2>2, <1>1
  <2>3. CASE i = Len(q) + 1
    BY <2>3, <1>4, <1>1 DEF Some
  <2> QED BY <2>1, <2>2, <2>3, <1>1
<1> QED BY <1>1, <1>2, <1>3, <1>4 DEF Once, Before, r

LEMMA Taken ==
  ASSUME NEW M, NEW q \in Seq(M), q # <<>>
  PROVE  /\ Tail(q) \in Seq(M) /\ Head(q) \in M
         /\ \A S : Some(q, S) <=> Some(Tail(q), S) \/ Head(q) \in S
         /\ \A S : Once(q, S) => Once(Tail(q), S) /\ ~(Some(Tail(q), S) /\ Head(q) \in S)
         /\ \A S, T : Before(q, S, T) => Before(Tail(q), S, T) /\ ~(Some(Tail(q), S) /\ Head(q) \in T)
<1> DEFINE r == Tail(q)
           m == Head(q)
<1>1. /\ r \in Seq(M) /\ m \in M /\ Len(q) \in Nat /\ Len(q) >= 1 /\ Len(r) = Len(q) - 1 /\ m = q[1]
      /\ DOMAIN r = 1 .. Len(q) - 1 /\ DOMAIN q = 1 .. Len(q)
      /\ \A i \in 1 .. Len(q) - 1 : r[i] = q[i + 1]
  OBVIOUS
<1> HIDE DEF r, m
<1>2. \A i \in DOMAIN r : i \in Nat /\ i >= 1 /\ i + 1 \in DOMAIN q /\ q[i + 1] = r[i]
  BY <1>1
<1>3. 1 \in DOMAIN q /\ q[1] = m
  BY <1>1
<1>4. ASSUME NEW S PROVE Some(q, S) <=> Some(r, S) \/ m \in S
  <2>1. CASE Some(q, S)
    <3>1. PICK i \in DOMAIN q : q[i] \in S
      BY <2>1 DEF Some
    <3>2. CASE i = 1
      BY <3>1, <3>2, <1>1, <2>1
    <3>3. CASE i # 1
      <4>1. i - 1 \in DOMAIN r /\ r[i - 1] \in S
        BY <3>1, <3>3, <1>1
      <4> QED BY <4>1, <2>1 DEF Some
    <3> QED BY <3>2, <3>3
  <2>2. CASE Some(r, S)
    <3>1. PICK i \in DOMAIN r : r[i] \in S
      BY <2>2 DEF Some
    <3> QED BY <3>1, <1>2, <2>2 DEF Some
  <2>3. CASE m \in S
    BY <2>3, <1>3 DEF Some
  <2> QED BY <2>1, <2>2, <2>3
<1>5. ASSUME NEW S, Once(q, S) PROVE Once(r, S) /\ ~(Some(r, S) /\ m \in S)
  <2>1. ASSUME NEW i \in DOMAIN r, NEW j \in DOMAIN r, r[i] \in S, r[j] \in S PROVE i = j
    <3>1. i + 1 = j + 1
      BY <2>1, <1>2, <1>5 DEF Once
    <3> QED BY <3>1, <1>2
  <2>2. ASSUME m \in S, NEW i \in DOMAIN r, r[i] \in S PROVE FALSE
    <3>1. i + 1 = 1
      BY <2>2, <1>2, <1>3, <1>5 DEF Once
    <3> QED BY <3>1, <1>2
  <2> QED BY <2>1, <2>2 DEF Once, Some
<1>6. ASSUME NEW S, NEW T, Before(q, S, T)
      PROVE  Before(r, S, T) /\ ~(Some(r, S) /\ m \in T)
  <2>1. ASSUME NEW i \in DOMAIN r, NEW j \in DOMAIN r, r[i] \in S, r[j] \in T PROVE i < j
    <3>1. i + 1 < j + 1
      BY <2>1, <1>2, <1>6 DEF Before
    <3> QED BY <3>1, <1>2
  <2>2. ASSUME m \in T, NEW i \in DOMAIN r, r[i] \in S PROVE FALSE
    <3>1. i + 1 < 1
      BY <2>2, <1>2, <1>3, <1>6 DEF Before
    <3> QED BY <3>1, <1>2
  <2> QED BY <2>1, <2>2 DEF Before, Some
<1> QED BY <1>1, <1>4, <1>5, <1>6 DEF r, m

LEMMA Parted ==
  ASSUME NEW M, NEW q \in Seq(M), NEW n \in 0..Len(q)
  PROVE  /\ SubSeq(q, 1, n) \in Seq(M)
         /\ \A S : Some(SubSeq(q, 1, n), S) => Some(q, S)
         /\ \A S : Once(q, S) => Once(SubSeq(q, 1, n), S)
         /\ \A S, T : Before(q, S, T) =>
              /\ Before(SubSeq(q, 1, n), S, T)
              /\ Some(q, S) /\ Some(SubSeq(q, 1, n), T) => Some(SubSeq(q, 1, n), S)
<1> DEFINE r == SubSeq(q, 1, n)
<1>1. /\ r \in Seq(M) /\ Len(q) \in Nat /\ n \in Nat /\ n <= Len(q) /\ DOMAIN q = 1 .. Len(q)
      /\ DOMAIN r = 1 .. n /\ \A i \in 1 .. n : r[i] = q[i]
  OBVIOUS
<1> HIDE DEF r
<1>2. \A i \in DOMAIN r : i \in DOMAIN q /\ r[i] = q[i]
  BY <1>1
<1>3. ASSUME NEW S, NEW T, Before(q, S, T), Some(q, S), Some(r, T) PROVE Some(r, S)
  <2>1. PICK i \in DOMAIN q : q[i] \in S
    BY <1>3 DEF Some
  <2>2. PICK j \in DOMAIN r : r[j] \in T
    BY <1>3 DEF Some
  <2>3. i < j
    BY <2>1, <2>2, <1>2, <1>3 DEF Before
  <2>4. i \in DOMAIN r
    BY <2>1, <2>2, <2>3, <1>1
  <2> QED BY <2>1, <2>4, <1>1 DEF Some
<1> QED BY <1>1, <1>2, <1>3 DEF r, Some, Once, Before

LEMMA Nobody == \A S, T : ~Some(<<>>, S) /\ Once(<<>>, S) /\ Before(<<>>, S, T)
BY DEF Some, Once, Before

-----------------------------------------------------------------------------
(***************************************************************************)
(* The same for the messages and events of each stream: those that are     *)
(* added, or taken, are of the streams in O (messages that open), R and W  *)
(* (messages to a stream that is read or written) and so on.               *)
(***************************************************************************)
SomeTo(q, O, R, W, I, r) ==
  \A s \in Streams :
    /\ Some(r, OpenOf(s)) <=> Some(q, OpenOf(s)) \/ s \in O
    /\ Some(r, ReadOf(s)) <=> Some(q, ReadOf(s)) \/ s \in R
    /\ Some(r, WriteOf(s)) <=> Some(q, WriteOf(s)) \/ s \in W
    /\ Some(r, InputOf(s)) <=> Some(q, InputOf(s)) \/ s \in I
Sends(q, O, R, W, I, r) ==
  /\ r \in Seq(ToClient) /\ SomeTo(q, O, R, W, I, r)
  /\ \A s \in Streams : Once(q, OpenOf(s)) /\ ~(Some(q, OpenOf(s)) /\ s \in O) => Once(r, OpenOf(s))

SomeFrom(q, A, Y, F, G, N, r) ==
  \A s \in Streams :
    /\ Some(r, AnswerOf(s)) <=> Some(q, AnswerOf(s)) \/ s \in A
    /\ Some(r, ReadyOf(s)) <=> Some(q, ReadyOf(s)) \/ s \in Y
    /\ Some(r, FailureOf(s)) <=> Some(q, FailureOf(s)) \/ s \in F
    /\ Some(r, DataFor(s)) <=> Some(q, DataFor(s)) \/ s \in G
    /\ Some(r, SomeFor(s)) <=> Some(q, SomeFor(s)) \/ s \in N
Answers(q, A, Y, F, G, N, r) ==
  /\ r \in Seq(ToServer) /\ SomeFrom(q, A, Y, F, G, N, r)
  /\ \A s \in Streams :
       /\ Once(q, AnswerOf(s)) /\ ~(Some(q, AnswerOf(s)) /\ s \in A) => Once(r, AnswerOf(s))
       /\ Before(q, DataFor(s), AnswerOf(s)) /\ ~(Some(q, AnswerOf(s)) /\ s \in G) =>
            Before(r, DataFor(s), AnswerOf(s))

Tells(q, D, r) ==
  /\ r \in Seq(Told)
  /\ \A s \in Streams : /\ Some(r, DoneOf(s)) <=> Some(q, DoneOf(s)) \/ s \in D
                        /\ Once(q, DoneOf(s)) /\ ~(Some(q, DoneOf(s)) /\ s \in D) => Once(r, DoneOf(s))

LEMMA SendsOne ==
  ASSUME NEW q \in Seq(ToClient), NEW m \in ToClient
  PROVE  LET o == IF m.type = "EXIT" THEN {} ELSE {m.stream}
             Of(types) == IF m.type \in types THEN o ELSE {}
         IN Sends(q, Of({"READ_OPEN", "WRITE_OPEN"}), Of({"READ_OPEN", "READ_CANCEL"}),
                  Of({"WRITE_OPEN", "WRITE", "WRITE_CLOSE"}),
                  IF m.type = "READ_CANCEL" \/ (m.type = "READ_OPEN" /\ m.path = "-") THEN o ELSE {}, Append(q, m))
<1> DEFINE r == Append(q, m)
           o == IF m.type = "EXIT" THEN {} ELSE {m.stream}
           Of(types) == IF m.type \in types THEN o ELSE {}
<1>1. /\ r \in Seq(ToClient)
      /\ \A S : Some(r, S) <=> Some(q, S) \/ m \in S
      /\ \A S : Once(q, S) /\ ~(Some(q, S) /\ m \in S) => Once(r, S)
  BY Appended
<1>2. ASSUME NEW s \in Streams
      PROVE  /\ m \in OpenOf(s) <=> s \in Of({"READ_OPEN", "WRITE_OPEN"})
             /\ m \in ReadOf(s) <=> s \in Of({"READ_OPEN", "READ_CANCEL"})
             /\ m \in WriteOf(s) <=> s \in Of({"WRITE_OPEN", "WRITE", "WRITE_CLOSE"})
             /\ m \in InputOf(s) <=> s \in (IF m.type = "READ_CANCEL" \/ (m.type = "READ_OPEN" /\ m.path = "-") THEN o ELSE {})
  BY DEF OpenOf, ReadOf, WriteOf, InputOf
<1> HIDE DEF r, o, Of
<1> QED BY <1>1, <1>2 DEF Sends, SomeTo, r, o, Of

LEMMA SendsNone == ASSUME NEW q \in Seq(ToClient) PROVE Sends(q, {}, {}, {}, {}, q)
BY DEF Sends, SomeTo

LEMMA ReceivesOne ==
  ASSUME NEW q \in Seq(ToServer), q # <<>>
  PROVE  LET m == Head(q)
             r == Tail(q)
             Of(types) == IF m.type \in types THEN {m.stream} ELSE {}
             A == Of({"READ_DONE", "WRITE_READY"})
         IN /\ m \in ToServer /\ r \in Seq(ToServer)
            /\ SomeFrom(r, A, Of({"WRITE_READY"}),
                        IF m.type # "READ" /\ m.error # "ok" THEN {m.stream} ELSE {}, Of({"READ"}),
                        IF m.type = "READ" /\ m.data # <<>> THEN {m.stream} ELSE {}, q)
            /\ \A s \in Streams :
                 /\ Once(q, AnswerOf(s)) => Once(r, AnswerOf(s)) /\ ~(Some(r, AnswerOf(s)) /\ s \in A)
                 /\ Before(q, DataFor(s), AnswerOf(s)) =>
                      Before(r, DataFor(s), AnswerOf(s)) /\ ~(Some(r, DataFor(s)) /\ s \in A)
<1> DEFINE r == Tail(q)
           m == Head(q)
           Of(types) == IF m.type \in types THEN {m.stream} ELSE {}
<1>1. /\ r \in Seq(ToServer) /\ m \in ToServer
      /\ \A S : Some(q, S) <=> Some(r, S) \/ m \in S
      /\ \A S : Once(q, S) => Once(r, S) /\ ~(Some(r, S) /\ m \in S)
      /\ \A S, T : Before(q, S, T) => Before(r, S, T) /\ ~(Some(r, S) /\ m \in T)
  BY Taken
<1> HIDE DEF r, m
<1>2. ASSUME NEW s \in Streams
      PROVE  /\ m \in AnswerOf(s) <=> s \in Of({"READ_DONE", "WRITE_READY"})
             /\ m \in ReadyOf(s) <=> s \in Of({"WRITE_READY"})
             /\ m \in FailureOf(s) <=> s \in (IF m.type # "READ" /\ m.error # "ok" THEN {m.stream} ELSE {})
             /\ m \in DataFor(s) <=> s \in Of({"READ"})
             /\ m \in SomeFor(s) <=> s \in (IF m.type = "READ" /\ m.data # <<>> THEN {m.stream} ELSE {})
  BY <1>1 DEF AnswerOf, ReadyOf, FailureOf, DataFor, SomeFor, ToServer
<1> HIDE DEF Of
<1> QED BY <1>1, <1>2 DEF SomeFrom, r, m, Of

LEMMA AnswersOne ==
  ASSUME NEW q \in Seq(ToServer), NEW m \in ToServer
  PROVE  LET Of(types) == IF m.type \in types THEN {m.stream} ELSE {}
         IN Answers(q, Of({"READ_DONE", "WRITE_READY"}), Of({"WRITE_READY"}),
                    IF m.type # "READ" /\ m.error # "ok" THEN {m.stream} ELSE {}, Of({"READ"}),
                    IF m.type = "READ" /\ m.data # <<>> THEN {m.stream} ELSE {}, Append(q, m))
<1> DEFINE r == Append(q, m)
           Of(types) == IF m.type \in types THEN {m.stream} ELSE {}
<1>1. /\ r \in Seq(ToServer)
      /\ \A S : Some(r, S) <=> Some(q, S) \/ m \in S
      /\ \A S : Once(q, S) /\ ~(Some(q, S) /\ m \in S) => Once(r, S)
      /\ \A S, T : Before(q, S, T) /\ ~(Some(q, T) /\ m \in S) /\ (m \notin S \/ m \notin T) =>
           Before(r, S, T)
  BY Appended
<1>2. ASSUME NEW s \in Streams
      PROVE  /\ m \in AnswerOf(s) <=> s \in Of({"READ_DONE", "WRITE_READY"})
             /\ m \in ReadyOf(s) <=> s \in Of({"WRITE_READY"})
             /\ m \in FailureOf(s) <=> s \in (IF m.type # "READ" /\ m.error # "ok" THEN {m.stream} ELSE {})
             /\ m \in DataFor(s) <=> s \in Of({"READ"})
             /\ m \in SomeFor(s) <=> s \in (IF m.type = "READ" /\ m.data # <<>> THEN {m.stream} ELSE {})
             /\ m \notin DataFor(s) \/ m \notin AnswerOf(s)
  BY DEF AnswerOf, ReadyOf, FailureOf, DataFor, SomeFor, ToServer
<1> HIDE DEF r, Of
<1> QED BY <1>1, <1>2 DEF Answers, SomeFrom, r, Of

LEMMA GivesOne ==
  ASSUME NEW q \in Seq(ToClient), q # <<>>
  PROVE  LET m == Head(q)
             r == Tail(q)
             o == IF m.type = "EXIT" THEN {} ELSE {m.stream}
             Of(types) == IF m.type \in types THEN o ELSE {}
             O == Of({"READ_OPEN", "WRITE_OPEN"})
         IN /\ m \in ToClient /\ r \in Seq(ToClient)
            /\ SomeTo(r, O, Of({"READ_OPEN", "READ_CANCEL"}), Of({"WRITE_OPEN", "WRITE", "WRITE_CLOSE"}),
                      IF m.type = "READ_CANCEL" \/ (m.type = "READ_OPEN" /\ m.path = "-") THEN o ELSE {}, q)
            /\ \A s \in Streams :
                 Once(q, OpenOf(s)) => Once(r, OpenOf(s)) /\ ~(Some(r, OpenOf(s)) /\ s \in O)
<1> DEFINE r == Tail(q)
           m == Head(q)
           o == IF m.type = "EXIT" THEN {} ELSE {m.stream}
           Of(types) == IF m.type \in types THEN o ELSE {}
<1>1. /\ r \in Seq(ToClient) /\ m \in ToClient
      /\ \A S : Some(q, S) <=> Some(r, S) \/ m \in S
      /\ \A S : Once(q, S) => Once(r, S) /\ ~(Some(r, S) /\ m \in S)
  BY Taken
<1> HIDE DEF r, m
<1>2. ASSUME NEW s \in Streams
      PROVE  /\ m \in OpenOf(s) <=> s \in Of({"READ_OPEN", "WRITE_OPEN"})
             /\ m \in ReadOf(s) <=> s \in Of({"READ_OPEN", "READ_CANCEL"})
             /\ m \in WriteOf(s) <=> s \in Of({"WRITE_OPEN", "WRITE", "WRITE_CLOSE"})
             /\ m \in InputOf(s) <=> s \in (IF m.type = "READ_CANCEL" \/ (m.type = "READ_OPEN" /\ m.path = "-") THEN o ELSE {})
  BY <1>1 DEF OpenOf, ReadOf, WriteOf, InputOf
<1> HIDE DEF o, Of
<1> QED BY <1>1, <1>2 DEF SomeTo, r, m, o, Of

LEMMA TellsOne ==
  ASSUME NEW q \in Seq(Told), NEW s \in Streams
  PROVE  Tells(q, {s}, Append(q, <<"done", s>>))
<1>1. <<"done", s>> \in Told /\ \A t \in Streams : <<"done", s>> \in DoneOf(t) <=> t \in {s}
  BY DEF Told, DoneOf
<1>2. /\ Append(q, <<"done", s>>) \in Seq(Told)
      /\ \A S : Some(Append(q, <<"done", s>>), S) <=> Some(q, S) \/ <<"done", s>> \in S
      /\ \A S : Once(q, S) /\ ~(Some(q, S) /\ <<"done", s>> \in S) => Once(Append(q, <<"done", s>>), S)
  BY <1>1, Appended
<1> QED BY <1>1, <1>2 DEF Tells

LEMMA TellsFree ==
  ASSUME NEW q \in Seq(Told)
  PROVE  Tells(q, {}, Append(q, <<"free", None>>)) /\ Tells(q, {}, q)
<1>1. <<"free", None>> \in Told /\ \A t \in Streams : <<"free", None>> \notin DoneOf(t)
  BY DEF Told, DoneOf
<1>2. /\ Append(q, <<"free", None>>) \in Seq(Told)
      /\ \A S : Some(Append(q, <<"free", None>>), S) <=> Some(q, S) \/ <<"free", None>> \in S
      /\ \A S : Once(q, S) /\ ~(Some(q, S) /\ <<"free", None>> \in S) => Once(Append(q, <<"free", None>>), S)
  BY <1>1, Appended
<1> QED BY <1>1, <1>2 DEF Tells

-----------------------------------------------------------------------------
(***************************************************************************)
(* A step of a handler from the state st to x: the files in new are        *)
(* created, O and so on are the streams of its messages, and D those of    *)
(* its events.                                                             *)
(***************************************************************************)
SendsIf(st, O, R, W, I, x) ==
  IF Live(st) THEN Sends(st.toClient, O, R, W, I, x.toClient) ELSE x.toClient = st.toClient

LEMMA Stepped ==
  ASSUME NEW st, NEW ts, NEW pr, NEW x, NEW O, NEW R, NEW W, NEW I, NEW D, Base(st, ts, pr),
         x \in States(x.book), IsFiniteSet(DOMAIN x.files), x.c.next >= st.c.next,
         \A s \in DOMAIN x.files : s < x.c.next,
         DOMAIN st.files \subseteq DOMAIN x.files, Live(x) <=> Live(st),
         SendsIf(st, O, R, W, I, x), Tells(st.once, D, x.once),
         \A s \in O \cup D : Nowhere(st, ts, pr, s) /\ ~Telling(st, s) /\ s \in DOMAIN x.files,
         O \cap D = {}, R \cap W = {},
         Live(st) => /\ \A s \in R : ~Writes(st, ts, pr, s) /\ s > 2 /\ s < x.c.next
                     /\ \A s \in W : ~Reads(st, pr, s) /\ s < x.c.next
  PROVE  Base(x, ts, pr)
<1> USE DEF Base
<1>1. Typed(x, ts, pr)
  BY DEF Typed, States, ClientRecord, Streams
<1>2. OnePlace(x, ts, pr)
  BY DEF OnePlace, Nowhere, Opening, Telling, Answered, SendsIf, Sends, SomeTo, Tells
<1>3. OneWay(x, ts, pr)
  <2>1. x.c.next \in Nat /\ st.c.next \in Nat
    BY DEF Typed, States, ClientRecord, Streams
  <2> QED BY <2>1 DEF OneWay, Reads, Writes, SendsIf, Sends, SomeTo, Streams
<1>4. Quiet(x, ts, pr)
  BY DEF Quiet, SendsIf
<1> QED BY <1>1, <1>2, <1>3, <1>4

\* A file that is changed, or that is new.
LEMMA FileSet ==
  ASSUME NEW st, st \in States(st.book), NEW f \in FileRecord, NEW s \in Streams
  PROVE  /\ With(st.files, s, f) \in Tables
         /\ DOMAIN With(st.files, s, f) = DOMAIN st.files \cup {s}
         /\ With(st.files, s, f)[s] = f
         /\ \A t \in DOMAIN st.files : t # s => With(st.files, s, f)[t] = st.files[t]
         /\ DOMAIN st.files \subseteq Streams
         /\ \A t \in DOMAIN st.files : st.files[t] \in FileRecord
<1>1. PICK T \in SUBSET Streams : st.files \in [T -> FileRecord]
  BY DEF States, Tables
<1>2. With(st.files, s, f) \in [T \cup {s} -> FileRecord]
  BY <1>1 DEF With
<1> QED BY <1>1, <1>2 DEF With, Tables

\* What FreeFile, Fail and others make of the table.
LEMMA TableIs ==
  ASSUME NEW st, st \in States(st.book)
  PROVE  /\ \A s \in DOMAIN st.files, f \in FileRecord :
              /\ [st.files EXCEPT ![s] = f] \in Tables
              /\ DOMAIN [st.files EXCEPT ![s] = f] = DOMAIN st.files
              /\ [st.files EXCEPT ![s] = f][s] = f
              /\ \A t \in DOMAIN st.files : t # s => [st.files EXCEPT ![s] = f][t] = st.files[t]
         /\ \A s : /\ Without(st.files, s) \in Tables
                   /\ DOMAIN Without(st.files, s) = DOMAIN st.files \ {s}
                   /\ \A t \in DOMAIN st.files : t # s => Without(st.files, s)[t] = st.files[t]
         /\ \A t \in DOMAIN st.files : st.files[t] \in FileRecord /\ t \in Streams
<1>1. PICK T \in SUBSET Streams : st.files \in [T -> FileRecord]
  BY DEF States, Tables
<1>2. ASSUME NEW s \in DOMAIN st.files, NEW f \in FileRecord
      PROVE  [st.files EXCEPT ![s] = f] \in [T -> FileRecord]
  BY <1>1
<1>3. ASSUME NEW s PROVE Without(st.files, s) \in [T \ {s} -> FileRecord]
  BY <1>1 DEF Without
<1> QED BY <1>1, <1>2, <1>3 DEF Tables, Without

LEMMA UnrefIs ==
  ASSUME NEW st, st \in States(st.book)
  PROVE  LET x == Unref(st)
         IN /\ x \in States(x.book) /\ x.files = st.files /\ x.item = st.item /\ x.toClient = st.toClient
            /\ x.pane = st.pane /\ x.c.refs = st.c.refs - 1 /\ x.c.flags = st.c.flags
            /\ x.c.next = st.c.next
            /\ Tells(st.once, {}, x.once) /\ x.book = st.book
<1> DEFINE y == [st EXCEPT !.c.refs = @ - 1]
<1>1. /\ y \in States(st.book) /\ y.files = st.files /\ y.item = st.item /\ y.toClient = st.toClient
      /\ y.pane = st.pane /\ y.c.refs = st.c.refs - 1 /\ y.c.flags = st.c.flags
      /\ y.c.next = st.c.next
      /\ y.once = st.once /\ y.book = st.book
  BY DEF States, ClientRecord
<1>2. Tells(st.once, {}, Append(st.once, <<"free", None>>)) /\ Tells(st.once, {}, st.once)
  BY TellsFree DEF States
<1>3. Unref(st) = IF y.c.refs = 0 THEN [y EXCEPT !.once = Append(@, <<"free", None>>)] ELSE y
  BY DEF Unref, Event
<1> HIDE DEF y
<1>4. CASE y.c.refs # 0
  BY <1>1, <1>2, <1>3, <1>4
<1>5. CASE y.c.refs = 0
  BY <1>1, <1>2, <1>3, <1>5 DEF States, Tells
<1> QED BY <1>4, <1>5

LEMMA RefIs ==
  ASSUME NEW st, st \in States(st.book)
  PROVE  LET x == Ref(st)
         IN /\ x \in States(x.book) /\ x.files = st.files /\ x.item = st.item /\ x.toClient = st.toClient
            /\ x.pane = st.pane /\ x.c.refs = st.c.refs + 1 /\ x.c.flags = st.c.flags
            /\ x.c.next = st.c.next
            /\ x.once = st.once /\ x.book = st.book
BY DEF States, ClientRecord, Ref

LEMMA CreateIs ==
  ASSUME NEW st, st \in States(st.book), NEW s \in Streams, NEW path \in {"path", "-"}
  PROVE  LET x == Create(st, s, path)
             remote == "ATTACHED" \notin st.c.flags
         IN /\ x \in States(x.book) /\ x.item = st.item /\ x.toClient = st.toClient /\ x.once = st.once
            /\ x.pane = st.pane /\ x.c.refs = st.c.refs + Number(remote) /\ x.c.flags = st.c.flags
            /\ x.c.next = st.c.next /\ x.book = st.book
            /\ x.files = With(st.files, s, [path |-> path, remote |-> remote, refs |-> 1,
                                            error |-> "ok", closed |-> FALSE, buffer |-> <<>>])
<1> DEFINE remote == "ATTACHED" \notin st.c.flags
           f == [path |-> path, remote |-> remote, refs |-> 1, error |-> "ok", closed |-> FALSE, buffer |-> <<>>]
           y == [st EXCEPT !.files = With(@, s, f)]
<1>0. <<>> \in Seq(Pieces) /\ remote \in BOOLEAN
  OBVIOUS
<1> HIDE DEF remote
<1>1. f \in FileRecord
  BY <1>0 DEF FileRecord, Errors
<1>2. With(st.files, s, f) \in Tables
  BY <1>1, FileSet
<1>3. /\ y \in States(st.book) /\ y.item = st.item /\ y.toClient = st.toClient /\ y.once = st.once
      /\ y.pane = st.pane /\ y.c = st.c /\ y.book = st.book /\ y.files = With(st.files, s, f)
  BY <1>2 DEF States
<1>4. Create(st, s, path) = IF remote THEN Ref(y) ELSE y
  BY DEF Create, Has, remote
<1> HIDE DEF y
<1>5. st.c.refs \in Int
  BY DEF States, ClientRecord
<1> HIDE DEF f
<1>8. LET x == Create(st, s, path)
      IN /\ x \in States(x.book) /\ x.item = st.item /\ x.toClient = st.toClient /\ x.once = st.once
         /\ x.pane = st.pane /\ x.c.refs = st.c.refs + Number(remote) /\ x.c.flags = st.c.flags
         /\ x.c.next = st.c.next /\ x.book = st.book
         /\ x.files = With(st.files, s, f)
  <2>1. CASE remote
    <3>1. Create(st, s, path) = Ref(y)
      BY <1>4, <2>1
    <3> QED BY <1>3, <2>1, <3>1, RefIs DEF Number
  <2>2. CASE ~remote
    <3>1. Create(st, s, path) = y
      BY <1>4, <2>2
    <3> QED BY <1>3, <1>5, <2>2, <3>1 DEF Number
  <2> QED BY <2>1, <2>2
<1> QED BY <1>8 DEF remote, f

-----------------------------------------------------------------------------
(***************************************************************************)
(* References.                                                             *)
(***************************************************************************)
LEMMA RemotesAre ==
  ASSUME NEW st, NEW ts, NEW pr, Typed(st, ts, pr)
  PROVE  /\ IsFiniteSet(RemoteOf(st)) /\ Cardinality(RemoteOf(st)) \in Nat
         /\ Number(Live(st)) \in Nat /\ Share(st.item) \in Nat /\ st.c.refs \in Int
<1>1. IsFiniteSet(RemoteOf(st))
  BY FS_Subset DEF Typed, RemoteOf
<1> QED BY <1>1, FS_CardinalityType DEF Typed, States, ClientRecord, Number, Share

LEMMA CountedSame ==
  ASSUME NEW st, NEW x, NEW ts, NEW pr, NEW k \in Int, Typed(st, ts, pr), Typed(x, ts, pr),
         Counted(st, k),
         DOMAIN x.files = DOMAIN st.files,
         \A s \in DOMAIN st.files : x.files[s].remote = st.files[s].remote,
         Live(x) <=> Live(st), "ATTACHED" \in x.c.flags <=> "ATTACHED" \in st.c.flags
  PROVE  Counted(x, k + (x.c.refs - st.c.refs) - (Share(x.item) - Share(st.item)))
<1>1. RemoteOf(x) = RemoteOf(st)
  BY DEF RemoteOf
<1>2. Number(Live(x)) = Number(Live(st))
  BY DEF Number
<1>3. st.c.refs = k + Number(Live(st)) + Cardinality(RemoteOf(st)) + Share(st.item)
  BY DEF Counted
<1>4. x.c.refs = (k + (x.c.refs - st.c.refs) - (Share(x.item) - Share(st.item)))
                 + Number(Live(x)) + Cardinality(RemoteOf(x)) + Share(x.item)
  BY <1>1, <1>2, <1>3, RemotesAre
<1> QED BY <1>4 DEF Counted

LEMMA CountedNew ==
  ASSUME NEW st, NEW x, NEW ts, NEW pr, NEW k \in Int, Typed(st, ts, pr), Typed(x, ts, pr),
         Counted(st, k),
         NEW s, s \notin DOMAIN st.files, DOMAIN x.files = DOMAIN st.files \cup {s},
         \A t \in DOMAIN st.files : x.files[t].remote = st.files[t].remote,
         x.files[s].remote = ("ATTACHED" \notin st.c.flags), s <= 2 => "ATTACHED" \notin st.c.flags,
         x.c.refs = st.c.refs + Number("ATTACHED" \notin st.c.flags), x.c.flags = st.c.flags, x.item = st.item
  PROVE  Counted(x, k)
<1>1. CASE "ATTACHED" \in st.c.flags
  <2>1. RemoteOf(x) = RemoteOf(st)
    BY <1>1 DEF RemoteOf
  <2>2. x.c.refs = st.c.refs
    BY <1>1, RemotesAre DEF Number
  <2> QED BY <1>1, <2>1, <2>2, RemotesAre DEF Counted, Live
<1>2. CASE "ATTACHED" \notin st.c.flags
  <2>1. RemoteOf(x) = RemoteOf(st) \cup {s} /\ s \notin RemoteOf(st)
    BY <1>2 DEF RemoteOf
  <2>0. IsFiniteSet(RemoteOf(st))
    BY RemotesAre
  <2>2. Cardinality(RemoteOf(x)) = Cardinality(RemoteOf(st)) + 1
    <3>1. Cardinality(RemoteOf(st) \cup {s}) = Cardinality(RemoteOf(st)) + 1
      BY <2>0, <2>1, FS_AddElement
    <3> QED BY <2>1, <3>1
  <2>3. x.c.refs = st.c.refs + 1
    BY <1>2, RemotesAre DEF Number
  <2>4. x.c.refs = k + Number(Live(x)) + Cardinality(RemoteOf(x)) + Share(x.item)
    BY <2>2, <2>3, RemotesAre DEF Counted, Live
  <2> QED BY <1>2, <2>4 DEF Counted
<1> QED BY <1>1, <1>2

LEMMA CountedLess ==
  ASSUME NEW st, NEW x, NEW ts, NEW pr, NEW k \in Int, Typed(st, ts, pr), Typed(x, ts, pr),
         Counted(st, k),
         NEW s \in DOMAIN st.files, DOMAIN x.files = DOMAIN st.files \ {s},
         \A t \in DOMAIN x.files : x.files[t] = st.files[t],
         x.c.refs = st.c.refs - Number(st.files[s].remote), x.c.flags = st.c.flags, x.item = st.item
  PROVE  Counted(x, k)
<1>1. CASE ~st.files[s].remote
  <2>1. RemoteOf(x) = RemoteOf(st)
    BY <1>1 DEF RemoteOf
  <2>2. x.c.refs = st.c.refs
    BY <1>1, RemotesAre DEF Number
  <2> QED BY <1>1, <2>1, <2>2, RemotesAre DEF Counted, Live
<1>2. CASE st.files[s].remote
  <2>1. RemoteOf(x) = RemoteOf(st) \ {s} /\ s \in RemoteOf(st)
    BY <1>2 DEF RemoteOf
  <2>0. IsFiniteSet(RemoteOf(st))
    BY RemotesAre
  <2>2. Cardinality(RemoteOf(x)) = Cardinality(RemoteOf(st)) - 1
    BY <2>0, <2>1, FS_RemoveElement
  <2>3. x.c.refs = st.c.refs - 1
    BY <1>2, RemotesAre DEF Number
  <2>4. x.c.refs = k + Number(Live(x)) + Cardinality(RemoteOf(x)) + Share(x.item)
    BY <2>2, <2>3, RemotesAre DEF Counted, Live
  <2> QED BY <1>2, <2>4 DEF Counted
<1> QED BY <1>1, <1>2

-----------------------------------------------------------------------------
(***************************************************************************)
(* What is the same for the streams that are not in T.                     *)
(***************************************************************************)
Apart(st, x, T) ==
  /\ x.item = st.item /\ x.pane = st.pane /\ x.c.flags = st.c.flags
  /\ \A t \in Streams \ T :
       /\ t \in DOMAIN x.files <=> t \in DOMAIN st.files
       /\ t \in DOMAIN st.files => x.files[t] = st.files[t]
       /\ Telling(x, t) <=> Telling(st, t)
       /\ Some(x.toClient, OpenOf(t)) <=> Some(st.toClient, OpenOf(t))
       /\ Some(x.toClient, ReadOf(t)) <=> Some(st.toClient, ReadOf(t))
       /\ Some(x.toClient, WriteOf(t)) <=> Some(st.toClient, WriteOf(t))
       /\ Some(x.toClient, InputOf(t)) <=> Some(st.toClient, InputOf(t))

LEMMA ApartIs ==
  ASSUME NEW st, NEW x, NEW T, NEW O, NEW R, NEW W, NEW I, NEW D,
         O \cup R \cup W \cup I \cup D \subseteq T,
         SendsIf(st, O, R, W, I, x), Tells(st.once, D, x.once),
         x.item = st.item, x.pane = st.pane, x.c.flags = st.c.flags,
         \A t \in Streams \ T : /\ t \in DOMAIN x.files <=> t \in DOMAIN st.files
                                /\ t \in DOMAIN st.files => x.files[t] = st.files[t]
  PROVE  Apart(st, x, T)
BY DEF Apart, SendsIf, Sends, SomeTo, Tells, Telling

\* Neither the command nor its file has to do with them.
LEMMA ApartItems ==
  ASSUME NEW st, NEW x, NEW ts, NEW pr, NEW y, NEW soon, NEW s \in 1..2,
         Base(st, ts, pr), Base(x, ts, pr), Apart(st, x, {s}), Items(st, ts, pr, y, soon),
         Target(st, ts, pr),
         soon => x.c.next = st.c.next
  PROVE  Items(x, ts, pr, y, soon) /\ Target(x, ts, pr)
<1>1. /\ DOMAIN x.files \subseteq Streams /\ DOMAIN st.files \subseteq Streams /\ \A t \in Streams : t > 2 => t \in Streams \ {s}
      /\ st.item # NoItem => st.item.stream \in Streams
  <2>1. st \in States(st.book) /\ x \in States(x.book)
    BY DEF Base, Typed
  <2>2. DOMAIN x.files \subseteq Streams /\ DOMAIN st.files \subseteq Streams
    BY <2>1, TableIs
  <2>3. st.item # NoItem => st.item.stream \in Streams
    BY <2>1 DEF States, ItemRecord
  <2>4. \A t \in Streams : t > 2 => t \in Streams \ {s}
    BY DEF Streams
  <2> QED BY <2>2, <2>3, <2>4
<1>2. Items(x, ts, pr, y, soon)
  <2>1. \A t \in DOMAIN x.files \ {y} : t > 2 =>
          ~soon /\ x.item # NoItem /\ x.item.stream = t /\ x.item.waiting
    BY <1>1 DEF Items, Apart
  <2>2. ASSUME x.item # NoItem
        PROVE  /\ st.item # NoItem /\ x.item = st.item /\ st.item.stream \in Streams \ {s}
               /\ x.pane = st.pane
               /\ Live(x) <=> Live(st)
               /\ x.c.flags = st.c.flags
               /\ st.item.stream \in DOMAIN x.files <=> st.item.stream \in DOMAIN st.files
               /\ st.item.stream \in DOMAIN x.files => x.files[st.item.stream] = st.files[st.item.stream]
               /\ Writes(x, ts, pr, st.item.stream) <=> Writes(st, ts, pr, st.item.stream)
               /\ Nowhere(x, ts, pr, st.item.stream) <=> Nowhere(st, ts, pr, st.item.stream)
    <3>1. /\ st.item # NoItem /\ x.item = st.item /\ st.item.stream > 2
          /\ st.item.stream \in Streams \ {s}
      BY <1>1, <2>2 DEF Items, Apart
    <3> QED BY <3>1 DEF Apart, Live, Writes, Nowhere, Opening
  <2>3. ASSUME x.item # NoItem
        PROVE  /\ x.item.stream > 2
               /\ (soon => x.item.stream = x.c.next /\ x.item.waiting /\ x.item.kind # "input")
               /\ x.item.waiting /\ Live(x) =>
                    \/ soon \/ x.item.stream \in DOMAIN x.files \ {y}
                    \/ x.item.kind = "input" /\ ~x.pane /\ "EXIT" \in x.c.flags
               /\ x.item.target => x.item.kind = "load" /\ "target" \in Uses
               /\ x.item.kind = "input" /\ x.item.waiting => x.item.holds
               /\ x.item.kind # "input" => ~x.item.holds
               /\ ~x.item.waiting => ~x.item.target /\ ~x.item.holds
               /\ x.item.kind # "save" /\ Live(x) => ~Writes(x, ts, pr, x.item.stream)
               /\ x.item.kind = "input" /\ ~x.item.file /\ x.item.stream \in DOMAIN x.files =>
                    x.files[x.item.stream].error # "ok" /\ Nowhere(x, ts, pr, x.item.stream)
    BY <2>2, <2>3 DEF Items
  <2>4. x.item = NoItem => ~soon
    BY DEF Items, Apart
  <2> QED BY <2>1, <2>3, <2>4 DEF Items
<1>3. Target(x, ts, pr)
  BY <1>1 DEF Target, Items, Apart, Arrived, Live
<1> QED BY <1>2, <1>3

-----------------------------------------------------------------------------
(***************************************************************************)
(* Messages and events.                                                    *)
(***************************************************************************)
SameBut(st, x, fields) ==
  /\ x \in States(x.book)
  /\ "c" \notin fields => x.c = st.c
  /\ "files" \notin fields => x.files = st.files
  /\ "once" \notin fields => x.once = st.once
  /\ "toClient" \notin fields => x.toClient = st.toClient
  /\ "item" \notin fields => x.item = st.item
  /\ "pane" \notin fields => x.pane = st.pane
  /\ "book" \notin fields => x.book = st.book

LEMMA SendIs ==
  ASSUME NEW st, st \in States(st.book), NEW m \in ToClient
  PROVE  /\ SameBut(st, Send(st, m), {"toClient"})
         /\ LET o == IF m.type = "EXIT" THEN {} ELSE {m.stream}
                Of(types) == IF m.type \in types THEN o ELSE {}
            IN SendsIf(st, Of({"READ_OPEN", "WRITE_OPEN"}), Of({"READ_OPEN", "READ_CANCEL"}),
                       Of({"WRITE_OPEN", "WRITE", "WRITE_CLOSE"}),
                       IF m.type = "READ_CANCEL" \/ (m.type = "READ_OPEN" /\ m.path = "-") THEN o ELSE {}, Send(st, m))
<1>1. st.toClient \in Seq(ToClient) /\ Append(st.toClient, m) \in Seq(ToClient)
  BY DEF States
<1>2. CASE Live(st)
  <2>1. Send(st, m) = [st EXCEPT !.toClient = Append(@, m)]
    BY <1>2 DEF Live, Send, Has
  <2>2. Send(st, m).toClient = Append(st.toClient, m) /\ SameBut(st, Send(st, m), {"toClient"})
    BY <1>1, <2>1 DEF States, SameBut
  <2> HIDE DEF ToClient
  <2> QED BY <1>1, <1>2, <2>2, SendsOne DEF SendsIf
<1>3. CASE ~Live(st)
  <2>1. Send(st, m) = st
    BY <1>3 DEF Live, Send, Has
  <2> QED BY <1>3, <2>1 DEF SendsIf, SameBut
<1> QED BY <1>2, <1>3

LEMMA SendOpen ==
  ASSUME NEW st, st \in States(st.book), NEW s \in Streams, NEW path \in {"path", "-"}
  PROVE  LET r == Send(st, [type |-> "READ_OPEN", stream |-> s, path |-> path])
             w == Send(st, [type |-> "WRITE_OPEN", stream |-> s, path |-> path])
         IN /\ SameBut(st, r, {"toClient"}) /\ SameBut(st, w, {"toClient"})
            /\ SendsIf(st, {s}, {s}, {}, IF path = "-" THEN {s} ELSE {}, r)
            /\ SendsIf(st, {s}, {}, {s}, {}, w)
<1> DEFINE mr == [type |-> "READ_OPEN", stream |-> s, path |-> path]
           mw == [type |-> "WRITE_OPEN", stream |-> s, path |-> path]
<1>1. /\ mr \in ToClient /\ mw \in ToClient /\ mr.type = "READ_OPEN" /\ mw.type = "WRITE_OPEN"
      /\ mr.stream = s /\ mw.stream = s /\ mr.path = path
  BY DEF ToClient
<1> HIDE DEF mr, mw
<1>2. /\ SameBut(st, Send(st, mr), {"toClient"})
      /\ SendsIf(st, {s}, {s}, {}, IF path = "-" THEN {s} ELSE {}, Send(st, mr))
  BY <1>1, SendIs
<1>3. SameBut(st, Send(st, mw), {"toClient"}) /\ SendsIf(st, {s}, {}, {s}, {}, Send(st, mw))
  BY <1>1, SendIs
<1> QED BY <1>2, <1>3 DEF mr, mw

LEMMA SendWrite ==
  ASSUME NEW st, st \in States(st.book), NEW s \in Streams, NEW data \in Seq(Pieces)
  PROVE  LET w == Send(st, [type |-> "WRITE", stream |-> s, data |-> data])
             d == Send(st, [type |-> "WRITE_CLOSE", stream |-> s])
             r == Send(st, [type |-> "READ_CANCEL", stream |-> s])
         IN /\ SameBut(st, w, {"toClient"}) /\ SendsIf(st, {}, {}, {s}, {}, w)
            /\ SameBut(st, d, {"toClient"}) /\ SendsIf(st, {}, {}, {s}, {}, d)
            /\ SameBut(st, r, {"toClient"}) /\ SendsIf(st, {}, {s}, {}, {s}, r)
<1> DEFINE mw == [type |-> "WRITE", stream |-> s, data |-> data]
           md == [type |-> "WRITE_CLOSE", stream |-> s]
           mr == [type |-> "READ_CANCEL", stream |-> s]
<1>1. /\ mw \in ToClient /\ md \in ToClient /\ mr \in ToClient
      /\ mw.type = "WRITE" /\ md.type = "WRITE_CLOSE" /\ mr.type = "READ_CANCEL"
      /\ mw.stream = s /\ md.stream = s /\ mr.stream = s
  BY DEF ToClient
<1> HIDE DEF mr, mw, md
<1>2. SameBut(st, Send(st, mw), {"toClient"}) /\ SendsIf(st, {}, {}, {s}, {}, Send(st, mw))
  BY <1>1, SendIs
<1>3. SameBut(st, Send(st, md), {"toClient"}) /\ SendsIf(st, {}, {}, {s}, {}, Send(st, md))
  BY <1>1, SendIs
<1>4. SameBut(st, Send(st, mr), {"toClient"}) /\ SendsIf(st, {}, {s}, {}, {s}, Send(st, mr))
  BY <1>1, SendIs
<1> QED BY <1>2, <1>3, <1>4 DEF mr, mw, md

LEMMA DoneIs ==
  ASSUME NEW st, st \in States(st.book), NEW s \in Streams
  PROVE  SameBut(st, FireDone(st, s), {"once"}) /\ Tells(st.once, {s}, FireDone(st, s).once)
<1>1. st.once \in Seq(Told) /\ Tells(st.once, {s}, Append(st.once, <<"done", s>>))
  BY TellsOne DEF States
<1>2. Append(st.once, <<"done", s>>) \in Seq(Told)
  BY <1>1 DEF Tells
<1>3. FireDone(st, s).once = Append(st.once, <<"done", s>>) /\ SameBut(st, FireDone(st, s), {"once"})
  BY <1>2 DEF FireDone, Event, States, SameBut
<1> QED BY <1>1, <1>3

LEMMA FailIs ==
  ASSUME NEW st, st \in States(st.book), NEW s \in DOMAIN st.files, NEW error \in Errors
  PROVE  LET x == Fail(st, s, error)
         IN /\ SameBut(st, x, {"files", "once", "book"}) /\ Tells(st.once, {s}, x.once)
            /\ x.files = [st.files EXCEPT ![s] = [st.files[s] EXCEPT !.error = error]]
            /\ [st.files[s] EXCEPT !.error = error] \in FileRecord
<1> DEFINE f == [st.files[s] EXCEPT !.error = error]
           b == IF error = "ok" THEN st.book ELSE GiveUp(st.book, s)
           y == [st EXCEPT !.files[s].error = error, !.book = b]
<1>1. st.files[s] \in FileRecord /\ s \in Streams
  BY TableIs
<1>2. f \in FileRecord
  BY <1>1 DEF FileRecord
<1>3. [st.files EXCEPT ![s] = f] \in Tables
  BY <1>2, TableIs
<1> HIDE DEF b
<1>4. y.files = [st.files EXCEPT ![s] = f] /\ SameBut(st, y, {"files", "book"}) /\ y.book = b
  BY <1>3 DEF States, SameBut
<1>5. Fail(st, s, error) = FireDone(y, s)
  BY DEF Fail, b
<1> HIDE DEF y, f
<1>6. y \in States(y.book) /\ y.once = st.once
  BY <1>4 DEF SameBut
<1>7. SameBut(y, FireDone(y, s), {"once"}) /\ Tells(y.once, {s}, FireDone(y, s).once)
  BY <1>1, <1>6, DoneIs
<1> QED BY <1>2, <1>4, <1>5, <1>6, <1>7 DEF SameBut, f

-----------------------------------------------------------------------------
(***************************************************************************)
(* What is printed, and what is written.                                   *)
(***************************************************************************)
LEMMA FileIs ==
  ASSUME NEW st, st \in States(st.book), NEW s \in DOMAIN st.files
  PROVE  /\ s \in Streams /\ st.files[s] \in FileRecord
         /\ \A b \in Seq(Pieces) : [st.files[s] EXCEPT !.buffer = b] \in FileRecord
         /\ [st.files[s] EXCEPT !.closed = TRUE] \in FileRecord
<1>1. s \in Streams /\ st.files[s] \in FileRecord
  BY TableIs
<1> QED BY <1>1 DEF FileRecord

LEMMA BookIs ==
  ASSUME NEW st, st \in States(st.book), NEW b
  PROVE  SameBut(st, [st EXCEPT !.book = b], {"book"}) /\ [st EXCEPT !.book = b].book = b
BY DEF States, SameBut

\* file_push, for what is printed and for a file of a command.
LEMMA PushIs ==
  ASSUME NEW st, st \in States(st.book), NEW s \in DOMAIN st.files
  PROVE  LET x == Push(st, s)
             f == [st.files[s] EXCEPT !.buffer = <<>>]
         IN /\ SameBut(st, x, {"files", "once", "toClient"}) /\ f \in FileRecord
            /\ x.files = [st.files EXCEPT ![s] = f]
            /\ \E W \in SUBSET {s} : SendsIf(st, {}, {}, W, {}, x)
            /\ Tells(st.once, IF s > 2 THEN {s} ELSE {}, x.once)
<1> DEFINE f == [st.files[s] EXCEPT !.buffer = <<>>]
           data == st.files[s].buffer
           z == [st EXCEPT !.files[s].buffer = <<>>]
           y == IF data = <<>> THEN st ELSE Send(z, [type |-> "WRITE", stream |-> s, data |-> data])
           d == Send(y, [type |-> "WRITE_CLOSE", stream |-> s])
<1>1. /\ <<>> \in Seq(Pieces) /\ st.files[s] \in FileRecord /\ s \in Streams /\ f \in FileRecord
      /\ data \in Seq(Pieces)
  <2>1. <<>> \in Seq(Pieces)
    OBVIOUS
  <2> QED BY <2>1, FileIs DEF FileRecord
<1>2. SameBut(st, z, {"files"}) /\ z.files = [st.files EXCEPT ![s] = f]
  <2>1. [st.files EXCEPT ![s] = f] \in Tables
    BY <1>1, TableIs
  <2> QED BY <2>1 DEF States, SameBut, z
<1> HIDE DEF z
<1>3. /\ SameBut(st, y, {"files", "toClient"}) /\ y.files = [st.files EXCEPT ![s] = f]
      /\ \E W \in SUBSET {s} : SendsIf(st, {}, {}, W, {}, y)
  <2>1. CASE data = <<>>
    <3>1. st.files = [st.files EXCEPT ![s] = f]
      <4>1. f = st.files[s]
        BY <1>1, <2>1 DEF FileRecord
      <4>2. PICK T \in SUBSET Streams : st.files \in [T -> FileRecord]
        BY DEF States, Tables
      <4> QED BY <4>1, <4>2
    <3>2. SendsIf(st, {}, {}, {}, {}, st)
      BY SendsNone DEF SendsIf, States
    <3> QED BY <2>1, <3>1, <3>2 DEF SameBut
  <2>2. CASE data # <<>>
    <3>1. z \in States(z.book) /\ z.c = st.c /\ z.toClient = st.toClient
      BY <1>2 DEF SameBut
    <3>2. SameBut(z, y, {"toClient"}) /\ SendsIf(z, {}, {}, {s}, {}, y)
      BY <1>1, <2>2, <3>1, SendWrite
    <3>3. SendsIf(st, {}, {}, {s}, {}, y)
      BY <3>1, <3>2 DEF SendsIf, Live
    <3> HIDE DEF y, data
    <3> QED BY <1>2, <3>2, <3>3 DEF SameBut
  <2> QED BY <2>1, <2>2
<1>4. y \in States(y.book) /\ y.c = st.c /\ y.once = st.once
  BY <1>3 DEF SameBut
<1>5. Push(st, s) = IF s > 2 THEN FireDone(d, s) ELSE y
  BY DEF Push, z
<1>6. SameBut(y, d, {"toClient"}) /\ SendsIf(y, {}, {}, {s}, {}, d)
  <2> HIDE DEF y
  <2> QED BY <1>1, <1>4, SendWrite
<1> HIDE DEF y, d, f, data
<1>7. CASE s > 2
  <2>1. d \in States(d.book) /\ d.once = st.once /\ d.c = st.c
    BY <1>4, <1>6 DEF SameBut
  <2>2. SameBut(d, FireDone(d, s), {"once"}) /\ Tells(d.once, {s}, FireDone(d, s).once)
    BY <1>1, <2>1, DoneIs
  <2>3. \E W \in SUBSET {s} : SendsIf(st, {}, {}, W, {}, d)
    BY <1>3, <1>4, <1>6 DEF SendsIf, Sends, SomeTo, Live
  <2>4. FireDone(d, s).toClient = d.toClient
    BY <2>2 DEF SameBut
  <2>5. \E W \in SUBSET {s} : SendsIf(st, {}, {}, W, {}, FireDone(d, s))
    BY <2>3, <2>4 DEF SendsIf
  <2> QED BY <1>1, <1>3, <1>5, <1>6, <1>7, <2>1, <2>2, <2>5 DEF SameBut, f
<1>8. CASE ~(s > 2)
  <2>1. Tells(st.once, {}, st.once)
    BY TellsFree DEF States
  <2> QED BY <1>1, <1>3, <1>4, <1>5, <1>8, <2>1 DEF SameBut, f
<1> QED BY <1>7, <1>8

\* The buffer of a file gets more, or is changed.
WithBuffer(y, s, data, b) == [y EXCEPT !.files[s].buffer = data, !.book = b]
Filled(f, data) == [f EXCEPT !.buffer = data]
LEMMA FilledIs ==
  ASSUME NEW st, st \in States(st.book), NEW s \in DOMAIN st.files, NEW data \in Seq(Pieces), NEW b
  PROVE  LET x == WithBuffer(st, s, data, b)
             f == Filled(st.files[s], data)
         IN SameBut(st, x, {"files", "book"}) /\ f \in FileRecord /\ x.files = [st.files EXCEPT ![s] = f]
<1> DEFINE f == [st.files[s] EXCEPT !.buffer = data]
<1>1. f \in FileRecord
  BY FileIs
<1>2. [st.files EXCEPT ![s] = f] \in Tables
  BY <1>1, TableIs
<1> QED BY <1>1, <1>2 DEF States, SameBut, WithBuffer, Filled

\* file_print: the stream of what is printed is opened, once, or gets more.
LEMMA PrintedSound ==
  ASSUME NEW st, NEW ts, NEW pr, NEW k \in Int, NEW y, NEW soon, NEW s \in 1..2,
         NEW data \in Seq(Pieces), Sound(st, ts, pr, k, y, soon)
  PROVE  LET x == Printed(st, s, data)
         IN /\ Sound(x, ts, pr, k, y, soon) /\ Apart(st, x, {s})
            /\ x.c.next = st.c.next /\ x.once = st.once
<1> DEFINE x == Printed(st, s, data)
<1> USE DEF Sound
<1>0. /\ Base(st, ts, pr) /\ Typed(st, ts, pr) /\ st \in States(st.book) /\ s \in Streams
      /\ s <= 2 /\ ~(s > 2)
      /\ IsFiniteSet(DOMAIN st.files) /\ st.c.next \in Nat /\ st.c.next > 2 /\ st.c.next > s
  BY DEF Base, Typed, Streams, States, ClientRecord
<1>a. Items(st, ts, pr, y, soon) /\ Target(st, ts, pr)
  BY DEF Sound
<1>1. ASSUME NEW z, z \in States(z.book), s \in DOMAIN z.files
      PROVE  /\ SameBut(z, Given(z, s, data), {"files", "book"})
             /\ Given(z, s, data).files[s].buffer = z.files[s].buffer \o data
             /\ z.files[s].buffer \o data \in Seq(Pieces)
             /\ Given(z, s, data).files = [z.files EXCEPT ![s] = [z.files[s] EXCEPT !.buffer = z.files[s].buffer \o data]]
             /\ [z.files[s] EXCEPT !.buffer = z.files[s].buffer \o data] \in FileRecord
  <2>1. z.files[s] \in FileRecord /\ z.files[s].buffer \in Seq(Pieces)
    BY <1>1, FileIs DEF FileRecord
  <2>2. z.files[s].buffer \o data \in Seq(Pieces)
    BY <2>1
  <2>3. Given(z, s, data) = [z EXCEPT !.files[s].buffer = z.files[s].buffer \o data, !.book = Give(z.book, s, data)]
    BY DEF Given
  <2>4. /\ SameBut(z, Given(z, s, data), {"files", "book"})
        /\ Given(z, s, data).files = [z.files EXCEPT ![s] = [z.files[s] EXCEPT !.buffer = z.files[s].buffer \o data]]
        /\ [z.files[s] EXCEPT !.buffer = z.files[s].buffer \o data] \in FileRecord
    <3>1. [z.files[s] EXCEPT !.buffer = z.files[s].buffer \o data] \in FileRecord
      BY <1>1, <2>2, FileIs
    <3>2. [z.files EXCEPT ![s] = [z.files[s] EXCEPT !.buffer = z.files[s].buffer \o data]] \in Tables
      BY <1>1, <3>1, TableIs
    <3> QED BY <1>1, <2>3, <3>1, <3>2 DEF States, SameBut
  <2>5. Given(z, s, data).files[s] = [z.files[s] EXCEPT !.buffer = z.files[s].buffer \o data]
    BY <1>1, <2>4, TableIs
  <2> QED BY <2>1, <2>2, <2>4, <2>5 DEF FileRecord
<1>2. CASE Has(st, "ATTACHED") \/ Has(st, "CONTROL")
  <2>1. x = st
    BY <1>2 DEF Printed
  <2> QED BY <1>0, <2>1 DEF Apart
<1>3. CASE ~(Has(st, "ATTACHED") \/ Has(st, "CONTROL")) /\ InTree(st, s)
  <2>1. x = Push(Given(st, s, data), s) /\ s \in DOMAIN st.files
    BY <1>3 DEF Printed, InTree
  <2> HIDE DEF x
  <2> DEFINE g == Given(st, s, data)
  <2>2. SameBut(st, g, {"files", "book"}) /\ DOMAIN g.files = DOMAIN st.files /\ g \in States(g.book)
        /\ g.files = [st.files EXCEPT ![s] = [st.files[s] EXCEPT !.buffer = st.files[s].buffer \o data]]
        /\ g.files[s] = [st.files[s] EXCEPT !.buffer = st.files[s].buffer \o data]
        /\ g.files[s] \in FileRecord
    <3>1. /\ SameBut(st, g, {"files", "book"})
          /\ g.files = [st.files EXCEPT ![s] = [st.files[s] EXCEPT !.buffer = st.files[s].buffer \o data]]
          /\ [st.files[s] EXCEPT !.buffer = st.files[s].buffer \o data] \in FileRecord
      BY <1>0, <1>1, <2>1
    <3> HIDE DEF g
    <3>2. /\ g.files[s] = [st.files[s] EXCEPT !.buffer = st.files[s].buffer \o data]
          /\ DOMAIN g.files = DOMAIN st.files
      BY <1>0, <2>1, <3>1, TableIs
    <3> QED BY <3>1, <3>2 DEF SameBut
  <2> HIDE DEF g
  <2>3. /\ SameBut(g, Push(g, s), {"files", "once", "toClient"})
        /\ [g.files[s] EXCEPT !.buffer = <<>>] \in FileRecord
        /\ Push(g, s).files = [g.files EXCEPT ![s] = [g.files[s] EXCEPT !.buffer = <<>>]]
        /\ \E W \in SUBSET {s} : SendsIf(g, {}, {}, W, {}, Push(g, s))
        /\ Tells(g.once, {}, Push(g, s).once) /\ (~(s > 2) => Push(g, s).once = g.once)
    <3>1. s \in DOMAIN g.files
      BY <2>1, <2>2
    <3>2. ~(s > 2) => Push(g, s).once = g.once
      BY DEF Push, Send
    <3> QED BY <1>0, <2>2, <3>1, <3>2, PushIs
  <2>4. x = Push(g, s)
    BY <2>1 DEF g
  <2>5. PICK W \in SUBSET {s} : SendsIf(st, {}, {}, W, {}, x)
    <3>1. PICK W \in SUBSET {s} : SendsIf(g, {}, {}, W, {}, x)
      BY <2>3, <2>4
    <3> QED BY <2>2, <3>1 DEF SendsIf, SameBut, Live
  <2>6. /\ x \in States(x.book) /\ x.c = st.c /\ x.once = st.once /\ x.item = st.item
        /\ x.pane = st.pane
        /\ Tells(st.once, {}, x.once)
    BY <1>0, <2>2, <2>3, <2>4 DEF SameBut
  <2>7. /\ DOMAIN x.files = DOMAIN st.files /\ \A t \in DOMAIN st.files : t # s => x.files[t] = st.files[t]
        /\ \A t \in DOMAIN st.files : x.files[t].remote = st.files[t].remote
    <3>1. x.files[s].remote = st.files[s].remote
      <4>1. x.files[s] = [g.files[s] EXCEPT !.buffer = <<>>]
        BY <2>1, <2>2, <2>3, <2>4, TableIs
      <4>2. st.files[s] \in FileRecord
        BY <1>0, <2>1, FileIs
      <4> QED BY <2>2, <4>1, <4>2 DEF FileRecord
    <3> QED BY <1>0, <2>1, <2>2, <2>3, <2>4, <3>1, TableIs
  <2>8. Base(x, ts, pr)
    <3>1. Live(st) => ~Reads(st, pr, s)
      BY <1>0 DEF Base, OneWay
    <3>2. /\ IsFiniteSet(DOMAIN x.files) /\ \A t \in DOMAIN x.files : t < x.c.next
          /\ Live(x) <=> Live(st)
          /\ {} \cap {} = {} /\ {} \cap W = {} /\ x.c.next >= st.c.next
          /\ DOMAIN st.files \subseteq DOMAIN x.files
          /\ \A t \in {} \cup {} : Nowhere(st, ts, pr, t) /\ ~Telling(st, t) /\ t \in DOMAIN x.files
      BY <1>0, <2>6, <2>7 DEF Typed, Live
    <3>3. Live(st) => /\ \A t \in {} : ~Writes(st, ts, pr, t) /\ t > 2 /\ t < x.c.next
                      /\ \A t \in W : ~Reads(st, pr, t) /\ t < x.c.next
      BY <1>0, <2>6, <3>1
    <3> QED BY <1>0, <2>5, <2>6, <3>2, <3>3, Stepped
  <2>9. Counted(x, k)
    <3>1. Counted(x, k + (x.c.refs - st.c.refs) - (Share(x.item) - Share(st.item)))
      BY <1>0, <2>6, <2>7, <2>8, CountedSame DEF Base, Live
    <3>2. st.c.refs \in Int /\ Share(st.item) \in Int
      BY <1>0, RemotesAre
    <3> QED BY <2>6, <3>1, <3>2
  <2>10. Apart(st, x, {s})
    BY <1>0, <2>5, <2>6, <2>7, ApartIs
  <2>11. Items(x, ts, pr, y, soon) /\ Target(x, ts, pr)
    BY <1>0, <1>a, <2>6, <2>8, <2>10, ApartItems
  <2> QED BY <1>0, <2>6, <2>8, <2>9, <2>10, <2>11 DEF x
<1>4. CASE ~(Has(st, "ATTACHED") \/ Has(st, "CONTROL")) /\ ~InTree(st, s)
  <2> DEFINE z == [st EXCEPT !.book = With(@, s, Nothing)]
             w == Create(z, s, "-")
             g == Given(w, s, data)
             m == [type |-> "WRITE_OPEN", stream |-> s, path |-> "-"]
  <2>1. x = Send(g, m)
    BY <1>4 DEF Printed
  <2>2. s \notin DOMAIN st.files
    BY <1>4, <1>0 DEF InTree, Counted
  <2>3. SameBut(st, z, {"book"}) /\ z \in States(z.book)
    BY <1>0, BookIs DEF SameBut
  <2> HIDE DEF x, z
  <2> DEFINE f == [path |-> "-", remote |-> "ATTACHED" \notin z.c.flags, refs |-> 1,
                   error |-> "ok", closed |-> FALSE, buffer |-> <<>>]
  <2>4. /\ w \in States(w.book) /\ w.item = z.item /\ w.toClient = z.toClient /\ w.once = z.once
        /\ w.pane = z.pane /\ w.c.refs = z.c.refs + Number("ATTACHED" \notin z.c.flags)
        /\ w.c.flags = z.c.flags
        /\ w.c.next = z.c.next
        /\ w.files = With(z.files, s, f)
    BY <1>0, <2>3, CreateIs
  <2>5. /\ DOMAIN w.files = DOMAIN st.files \cup {s} /\ w.files[s] = f
        /\ \A t \in DOMAIN st.files : w.files[t] = st.files[t]
    BY <2>2, <2>3, <2>4 DEF With, SameBut
  <2>6. f.remote
    BY <1>4, <2>3 DEF Has, SameBut
  <2> HIDE DEF w, f
  <2>7. /\ SameBut(w, g, {"files", "book"}) /\ DOMAIN g.files = DOMAIN w.files
        /\ \A t \in DOMAIN w.files : t # s => g.files[t] = w.files[t]
        /\ g.files[s].remote = w.files[s].remote /\ g \in States(g.book)
    <3>1. s \in DOMAIN w.files
      BY <2>5
    <3>2. /\ SameBut(w, g, {"files", "book"})
          /\ g.files = [w.files EXCEPT ![s] = [w.files[s] EXCEPT !.buffer = w.files[s].buffer \o data]]
          /\ [w.files[s] EXCEPT !.buffer = w.files[s].buffer \o data] \in FileRecord
      BY <1>1, <2>4, <3>1
    <3> HIDE DEF g
    <3>3. w.files[s] \in FileRecord
      BY <2>4, <3>1, FileIs
    <3>4. g.files[s] = [w.files[s] EXCEPT !.buffer = w.files[s].buffer \o data]
      BY <2>4, <3>1, <3>2, TableIs
    <3>5. g.files[s].remote = w.files[s].remote
      BY <3>3, <3>4 DEF FileRecord
    <3> QED BY <2>4, <3>1, <3>2, <3>5, TableIs DEF SameBut
  <2> HIDE DEF g
  <2>8. SameBut(g, x, {"toClient"}) /\ SendsIf(g, {s}, {}, {s}, {}, x)
    BY <1>0, <2>1, <2>7, SendOpen
  <2>9. /\ x \in States(x.book) /\ x.item = st.item /\ x.once = st.once /\ x.pane = st.pane
        /\ x.c.refs = st.c.refs + Number("ATTACHED" \notin st.c.flags) /\ x.c.flags = st.c.flags
        /\ x.c.next = st.c.next /\ SendsIf(st, {s}, {}, {s}, {}, x)
        /\ DOMAIN x.files = DOMAIN st.files \cup {s} /\ x.files[s].remote
        /\ \A t \in DOMAIN st.files : x.files[t] = st.files[t]
    <3>1. /\ g.item = st.item /\ g.once = st.once /\ g.pane = st.pane /\ g.toClient = st.toClient
          /\ g.c.refs = st.c.refs + Number("ATTACHED" \notin st.c.flags) /\ g.c.flags = st.c.flags
          /\ g.c.next = st.c.next
      BY <2>3, <2>4, <2>7 DEF SameBut
    <3>2. /\ DOMAIN g.files = DOMAIN st.files \cup {s} /\ g.files[s].remote
          /\ \A t \in DOMAIN st.files : g.files[t] = st.files[t]
      <4>1. w.files[s].remote
        BY <2>5, <2>6 DEF f
      <4> QED BY <2>2, <2>5, <2>7, <4>1
    <3>3. SendsIf(st, {s}, {}, {s}, {}, x)
      BY <2>8, <3>1 DEF SendsIf, Live
    <3> QED BY <2>8, <3>1, <3>2, <3>3 DEF SameBut
  <2>10. Tells(st.once, {}, x.once) /\ x.c.next = st.c.next
    BY <1>0, <2>9, TellsFree DEF States, ClientRecord
  <2>11. Base(x, ts, pr)
    <3>1. Live(st) => ~Reads(st, pr, s)
      BY <1>0 DEF Base, OneWay
    <3>2. Nowhere(st, ts, pr, s) /\ ~Telling(st, s)
      BY <1>0, <2>2 DEF Base, OnePlace, Nowhere
    <3>3. IsFiniteSet(DOMAIN x.files)
      BY <1>0, <2>9, FS_AddElement
    <3>4. \A t \in DOMAIN x.files : t < x.c.next
      BY <1>0, <2>9 DEF Typed
    <3>5. Live(x) <=> Live(st)
      BY <2>9 DEF Live
    <3>6. \A t \in {s} \cup {} : Nowhere(st, ts, pr, t) /\ ~Telling(st, t) /\ t \in DOMAIN x.files
      BY <2>9, <3>2
    <3>7. Live(st) => /\ \A t \in {} : ~Writes(st, ts, pr, t) /\ t > 2 /\ t < x.c.next
                      /\ \A t \in {s} : ~Reads(st, pr, t) /\ t < x.c.next
      BY <1>0, <2>9, <3>1
    <3>8. /\ {s} \cap {} = {} /\ {} \cap {s} = {} /\ x.c.next >= st.c.next
          /\ DOMAIN st.files \subseteq DOMAIN x.files
      BY <1>0, <2>9
    <3> QED BY <1>0, <2>9, <2>10, <3>3, <3>4, <3>5, <3>6, <3>7, <3>8, Stepped
  <2>12. Counted(x, k)
    <3>1. x.files[s].remote = ("ATTACHED" \notin st.c.flags)
      <4>1. "ATTACHED" \notin st.c.flags
        BY <1>4 DEF Has
      <4>2. x.files[s].remote \in BOOLEAN
        BY <2>9, TableIs DEF FileRecord
      <4> QED BY <2>9, <4>1, <4>2
    <3>2. "ATTACHED" \notin st.c.flags
      BY <1>4 DEF Has
    <3> QED BY <1>0, <2>2, <2>9, <2>11, <3>1, <3>2, CountedNew DEF Base
  <2>13. Apart(st, x, {s})
    <3>1. \A t \in Streams \ {s} : /\ t \in DOMAIN x.files <=> t \in DOMAIN st.files
                                   /\ t \in DOMAIN st.files => x.files[t] = st.files[t]
      BY <2>9
    <3>2. {s} \cup {} \cup {s} \cup {} \cup {} \subseteq {s}
      OBVIOUS
    <3> QED BY <2>9, <2>10, <3>1, <3>2, ApartIs
  <2>14. Items(x, ts, pr, y, soon) /\ Target(x, ts, pr)
    BY <1>0, <1>a, <2>9, <2>11, <2>13, ApartItems
  <2> QED BY <2>9, <2>10, <2>11, <2>12, <2>13, <2>14 DEF x
<1> QED BY <1>2, <1>3, <1>4

-----------------------------------------------------------------------------
(***************************************************************************)
(* Files that are opened for a command: the next stream is nowhere yet.    *)
(***************************************************************************)
LEMMA Fresh ==
  ASSUME NEW st, NEW ts, NEW pr, Base(st, ts, pr)
  PROVE  LET s == st.c.next
         IN /\ s \in Streams /\ s > 2 /\ s \notin DOMAIN st.files /\ s + 1 \in Streams
            /\ Nowhere(st, ts, pr, s) /\ ~Telling(st, s)
            /\ Live(st) => ~Reads(st, pr, s) /\ ~Writes(st, ts, pr, s)
<1> DEFINE s == st.c.next
<1>1. s \in Streams /\ s \in Nat /\ s > 2 /\ s \notin DOMAIN st.files /\ s + 1 \in Streams
  BY DEF Base, Typed, States, ClientRecord, Streams
<1>2. Nowhere(st, ts, pr, s) /\ ~Telling(st, s)
  BY <1>1 DEF Base, OnePlace, Nowhere
<1>3. Live(st) => ~Reads(st, pr, s) /\ ~Writes(st, ts, pr, s)
  BY <1>1 DEF Base, OneWay
<1> QED BY <1>1, <1>2, <1>3

\* s is a new file of x.
NewFile(st, x, s, path, error, buffer) ==
  /\ DOMAIN x.files = DOMAIN st.files \cup {s}
  /\ \A t \in DOMAIN st.files : x.files[t] = st.files[t]
  /\ x.files[s] \in FileRecord /\ (x.files[s].remote <=> "ATTACHED" \notin st.c.flags)
  /\ x.files[s].path = path /\ x.files[s].error = error /\ ~x.files[s].closed
  /\ x.files[s].buffer = buffer
\* A file is created, and asked for: then O, R and W are its stream.
Created(st, x) ==
  /\ SameBut(st, x, {"c", "files", "once", "toClient", "book"})
  /\ x.c.flags = st.c.flags /\ x.c.next = st.c.next + 1
  /\ x.c.refs = st.c.refs + Number("ATTACHED" \notin st.c.flags)
AfterOpen(st, x, path, fails, error, buffer, O, R, W, I) ==
  /\ Created(st, x) /\ NewFile(st, x, st.c.next, path, error, buffer)
  /\ SendsIf(st, O, R, W, I, x) /\ Tells(st.once, {st.c.next} \ O, x.once)
  /\ O # {} => error = "ok" /\ x.once = st.once
  /\ error # "ok" => fails \/ path = "-"
  /\ O = {} /\ error = "ok" => "ATTACHED" \in st.c.flags /\ path # "-"

\* A new file has failed.
LEMMA NewFails ==
  ASSUME NEW st, NEW x, st \in States(st.book), Created(st, x), NEW path, NEW buffer,
         st.c.next \in Streams, st.c.next \notin DOMAIN st.files,
         NewFile(st, x, st.c.next, path, "ok", buffer), x.once = st.once, x.toClient = st.toClient,
         NEW error \in Errors, error # "ok", NEW fails, fails \/ path = "-"
  PROVE  AfterOpen(st, Fail(x, st.c.next, error), path, fails, error, buffer, {}, {}, {}, {})
<1> DEFINE s == st.c.next
           y == Fail(x, s, error)
<1>1. x \in States(x.book) /\ s \in DOMAIN x.files
  BY DEF Created, SameBut, NewFile
<1>2. /\ SameBut(x, y, {"files", "once", "book"}) /\ Tells(x.once, {s}, y.once)
      /\ y.files = [x.files EXCEPT ![s] = [x.files[s] EXCEPT !.error = error]]
      /\ [x.files[s] EXCEPT !.error = error] \in FileRecord
  BY <1>1, FailIs
<1> HIDE DEF y
<1>3. NewFile(st, y, s, path, error, buffer)
  <2>1. DOMAIN y.files = DOMAIN x.files /\ y.files[s] = [x.files[s] EXCEPT !.error = error]
        /\ \A t \in DOMAIN x.files : t # s => y.files[t] = x.files[t]
    <3> DEFINE f == [x.files[s] EXCEPT !.error = error]
    <3>1. f \in FileRecord /\ y.files = [x.files EXCEPT ![s] = f]
      BY <1>2
    <3> HIDE DEF f
    <3>2. DOMAIN y.files = DOMAIN x.files /\ y.files[s] = f /\ \A t \in DOMAIN x.files : t # s => y.files[t] = x.files[t]
      <4>1. /\ [x.files EXCEPT ![s] = f] \in Tables
            /\ DOMAIN [x.files EXCEPT ![s] = f] = DOMAIN x.files
            /\ [x.files EXCEPT ![s] = f][s] = f
            /\ \A t \in DOMAIN x.files : t # s => [x.files EXCEPT ![s] = f][t] = x.files[t]
        <5> HIDE DEF s
        <5> QED BY <1>1, <3>1, TableIs
      <4> QED BY <3>1, <4>1
    <3> QED BY <3>2 DEF f
  <2>2. x.files[s] \in FileRecord
    BY DEF NewFile
  <2>3. LET f == [x.files[s] EXCEPT !.error = error]
        IN /\ f \in FileRecord /\ f.remote = x.files[s].remote /\ f.path = x.files[s].path
           /\ f.error = error /\ f.closed = x.files[s].closed /\ f.buffer = x.files[s].buffer
    BY <1>2, <2>2 DEF FileRecord
  <2> QED BY <2>1, <2>3 DEF NewFile
<1>4. SendsIf(st, {}, {}, {}, {}, y)
  <2>1. st.toClient \in Seq(ToClient) /\ y.toClient = st.toClient
    BY <1>2 DEF States, SameBut
  <2> QED BY <2>1, SendsNone DEF SendsIf
<1>5. Created(st, y)
  BY <1>2 DEF Created, SameBut
<1>6. Tells(st.once, {s} \ {}, y.once)
  <2>1. {s} \ {} = {s}
    OBVIOUS
  <2> QED BY <1>2, <2>1
<1> QED BY <1>3, <1>4, <1>5, <1>6 DEF AfterOpen, y

LEMMA OpensIs ==
  ASSUME NEW st, st \in States(st.book), st.c.next \in Streams, st.c.next \notin DOMAIN st.files,
         NEW path, NEW fails, NEW w, NEW b, NEW a, NEW R, NEW W, NEW I,
         NEW y, Created(st, y), NewFile(st, y, st.c.next, path, "ok", <<>>),
         y.once = st.once, y.toClient = st.toClient,
         NEW local, Created(st, local), NewFile(st, local, st.c.next, path, "ok", b),
         local.once = st.once, local.toClient = st.toClient,
         NEW asked, Created(st, asked), NewFile(st, asked, st.c.next, path, "ok", a),
         asked.once = st.once,
         IF fails THEN asked.toClient = st.toClient ELSE SendsIf(st, {st.c.next}, R, W, I, asked)
  PROVE  LET x == Opens(y, st.c.next, path, fails, local, asked)
         IN \/ AfterOpen(st, x, path, fails, "ok", a, {st.c.next}, R, W, I)
            \/ AfterOpen(st, x, path, fails, "ok", b, {}, {}, {}, {})
            \/ \E error, buffer : error \in Errors \ {"ok"} /\ AfterOpen(st, x, path, fails, error, buffer, {}, {}, {}, {})
<1> DEFINE s == st.c.next
           x == Opens(y, s, path, fails, local, asked)
<1>1. y.c.flags = st.c.flags
  BY DEF Created
<1>2. CASE path = "-" /\ (Has(y, "ATTACHED") \/ Has(y, "CONTROL"))
  <2>1. x = Fail(y, s, "EBADF")
    BY <1>2 DEF Opens
  <2>2. "EBADF" \in Errors /\ "EBADF" # "ok"
    BY DEF Errors
  <2>3. AfterOpen(st, Fail(y, s, "EBADF"), path, fails, "EBADF", <<>>, {}, {}, {}, {})
    BY <1>2, <2>2, NewFails
  <2> QED BY <2>1, <2>2, <2>3
<1>3. CASE path # "-" /\ Has(y, "ATTACHED") /\ fails
  <2>1. x = Fail(y, s, "error")
    BY <1>3 DEF Opens
  <2>2. "error" \in Errors /\ "error" # "ok"
    BY DEF Errors
  <2>3. AfterOpen(st, Fail(y, s, "error"), path, fails, "error", <<>>, {}, {}, {}, {})
    BY <1>3, <2>2, NewFails
  <2> QED BY <2>1, <2>2, <2>3
<1>4. CASE path # "-" /\ Has(y, "ATTACHED") /\ ~fails
  <2>1. x = FireDone(local, s)
    BY <1>4 DEF Opens
  <2>2. SameBut(local, x, {"once"}) /\ Tells(local.once, {s}, x.once)
    <3>1. local \in States(local.book)
      BY DEF Created, SameBut
    <3> QED BY <2>1, <3>1, DoneIs
  <2> HIDE DEF x
  <2>3. Created(st, x) /\ NewFile(st, x, s, path, "ok", b)
    BY <2>2 DEF Created, SameBut, NewFile
  <2>4. SendsIf(st, {}, {}, {}, {}, x)
    <3>1. st.toClient \in Seq(ToClient) /\ x.toClient = st.toClient
      BY <2>2 DEF States, SameBut
    <3> QED BY <3>1, SendsNone DEF SendsIf
  <2>5. {s} \ {} = {s}
    OBVIOUS
  <2>6. AfterOpen(st, x, path, fails, "ok", b, {}, {}, {}, {})
    BY <1>1, <1>4, <2>2, <2>3, <2>4, <2>5 DEF AfterOpen, Has
  <2> QED BY <2>6 DEF x
<1>5. CASE ~(path = "-" /\ (Has(y, "ATTACHED") \/ Has(y, "CONTROL"))) /\ ~(path # "-" /\ Has(y, "ATTACHED")) /\ fails
  <2>1. x = Fail(asked, s, "E2BIG")
    BY <1>5 DEF Opens
  <2>2. "E2BIG" \in Errors /\ "E2BIG" # "ok"
    BY DEF Errors
  <2>3. AfterOpen(st, Fail(asked, s, "E2BIG"), path, fails, "E2BIG", a, {}, {}, {}, {})
    BY <1>5, <2>2, NewFails
  <2> QED BY <2>1, <2>2, <2>3
<1>6. CASE ~(path = "-" /\ (Has(y, "ATTACHED") \/ Has(y, "CONTROL"))) /\ ~(path # "-" /\ Has(y, "ATTACHED")) /\ ~fails
  <2>1. x = asked
    BY <1>6 DEF Opens
  <2>2. Tells(st.once, {s} \ {s}, st.once)
    <3>1. {s} \ {s} = {}
      OBVIOUS
    <3> QED BY <3>1, TellsFree DEF States
  <2>3. AfterOpen(st, asked, path, fails, "ok", a, {s}, R, W, I)
    BY <1>6, <2>2 DEF AfterOpen
  <2> QED BY <2>1, <2>3
<1> QED BY <1>2, <1>3, <1>4, <1>5, <1>6

LEMMA NewIs ==
  ASSUME NEW st, st \in States(st.book), st.c.next \in Streams, st.c.next \notin DOMAIN st.files,
         NEW path \in {"path", "-"}
  PROVE  LET y == Create(NextStream(st), st.c.next, path)
         IN /\ Created(st, y) /\ NewFile(st, y, st.c.next, path, "ok", <<>>)
            /\ y.once = st.once /\ y.toClient = st.toClient
<1> DEFINE s == st.c.next
           n == NextStream(st)
           y == Create(n, s, path)
           remote == "ATTACHED" \notin n.c.flags
           f == [path |-> path, remote |-> remote, refs |-> 1, error |-> "ok", closed |-> FALSE, buffer |-> <<>>]
<1>1. /\ SameBut(st, n, {"c"}) /\ n.c.flags = st.c.flags /\ n.c.refs = st.c.refs
      /\ n.c.next = st.c.next + 1
      /\ n \in States(n.book)
  <2>1. st.c.next + 1 \in Streams
    BY DEF Streams
  <2> QED BY <2>1 DEF NextStream, States, ClientRecord, SameBut
<1> HIDE DEF n
<1>2. /\ y \in States(y.book) /\ y.item = n.item /\ y.toClient = n.toClient /\ y.once = n.once
      /\ y.pane = n.pane /\ y.c.refs = n.c.refs + Number(remote) /\ y.c.flags = n.c.flags
      /\ y.c.next = n.c.next /\ y.book = n.book
      /\ y.files = With(n.files, s, f)
  BY <1>1, CreateIs
<1>3. f \in FileRecord
  <2>1. <<>> \in Seq(Pieces) /\ remote \in BOOLEAN
    OBVIOUS
  <2> QED BY <2>1 DEF FileRecord, Errors
<1> HIDE DEF y, f
<1>4. Created(st, y)
  BY <1>1, <1>2 DEF Created, SameBut
<1>5. y.files[s] = f /\ DOMAIN y.files = DOMAIN st.files \cup {s} /\ \A t \in DOMAIN st.files : y.files[t] = st.files[t]
  BY <1>1, <1>2 DEF With, SameBut
<1>6. y.files[s].remote <=> "ATTACHED" \notin st.c.flags
  <2>1. f.remote <=> "ATTACHED" \notin n.c.flags
    BY DEF f
  <2> QED BY <1>1, <1>5, <2>1
<1>7. NewFile(st, y, s, path, "ok", <<>>)
  <2>1. f.path = path /\ f.error = "ok" /\ ~f.closed /\ f.buffer = <<>>
    BY DEF f
  <2> QED BY <1>3, <1>5, <1>6, <2>1 DEF NewFile
<1> QED BY <1>1, <1>2, <1>4, <1>7 DEF SameBut, y, n

\* Its buffer.
LEMMA NewBuffer ==
  ASSUME NEW st, st \in States(st.book), NEW s \in Streams, s \notin DOMAIN st.files,
         NEW path \in {"path", "-"},
         NEW y, y \in States(y.book),
         NEW old, NewFile(st, y, s, path, "ok", old), Created(st, y), y.once = st.once,
         NEW data \in Seq(Pieces), NEW b
  PROVE  LET z == WithBuffer(y, s, data, b)
         IN Created(st, z) /\ NewFile(st, z, s, path, "ok", data) /\ z.once = st.once /\ z.toClient = y.toClient
<1> DEFINE z == [y EXCEPT !.files[s].buffer = data, !.book = b]
           f == [y.files[s] EXCEPT !.buffer = data]
<1>1. s \in DOMAIN y.files /\ y.files[s] \in FileRecord
  BY DEF NewFile
<1>2. SameBut(y, z, {"files", "book"}) /\ f \in FileRecord /\ z.files = [y.files EXCEPT ![s] = f]
  <2>1. f \in FileRecord
    BY <1>1, FileIs
  <2>2. [y.files EXCEPT ![s] = f] \in Tables
    BY <1>1, <2>1, TableIs
  <2> QED BY <2>1, <2>2 DEF States, SameBut
<1>6. WithBuffer(y, s, data, b) = z
  BY DEF WithBuffer
<1> HIDE DEF z
<1>3. /\ f.remote = y.files[s].remote /\ f.path = y.files[s].path /\ f.error = y.files[s].error
      /\ f.closed = y.files[s].closed /\ f.buffer = data
  BY <1>1 DEF FileRecord
<1> HIDE DEF f
<1>4. DOMAIN z.files = DOMAIN y.files /\ z.files[s] = f /\ \A t \in DOMAIN y.files : t # s => z.files[t] = y.files[t]
  BY <1>1, <1>2, TableIs
<1>5. NewFile(st, z, s, path, "ok", data)
  <2> QED BY <1>2, <1>3, <1>4 DEF NewFile
<1> QED BY <1>2, <1>5, <1>6 DEF Created, SameBut

LEMMA FileReadIs ==
  ASSUME NEW st, st \in States(st.book), st.c.next \in Streams, st.c.next \notin DOMAIN st.files,
         NEW path \in {"path", "-"}, NEW fails
  PROVE  LET x == FileRead(st, path, fails)
             s == st.c.next
             I == IF path = "-" THEN {s} ELSE {}
         IN \/ AfterOpen(st, x, path, fails, "ok", <<>>, {s}, {s}, {}, I)
            \/ AfterOpen(st, x, path, fails, "ok", Content, {}, {}, {}, {})
            \/ \E error, buffer : error \in Errors \ {"ok"} /\ AfterOpen(st, x, path, fails, error, buffer, {}, {}, {}, {})
<1> DEFINE s == st.c.next
           y == Create(NextStream(st), s, path)
           local == [y EXCEPT !.files[s].buffer = Content, !.book = y.book]
           asked == IF fails THEN y ELSE Send(y, [type |-> "READ_OPEN", stream |-> s, path |-> path])
           I == IF path = "-" THEN {s} ELSE {}
           x == Opens(y, s, path, fails, local, asked)
<1>1. /\ Created(st, y) /\ NewFile(st, y, s, path, "ok", <<>>) /\ y.once = st.once
      /\ y.toClient = st.toClient
  BY NewIs
<1>2. y \in States(y.book) /\ [y EXCEPT !.files[s].buffer = Content] = local
  BY <1>1 DEF Created, SameBut, States
<1>3. FileRead(st, path, fails) = x
  BY <1>2 DEF FileRead
<1> HIDE DEF y
<1>4. Content \in Seq(Pieces)
  <2>1. Range(Content) \subseteq Pieces
    BY DEF Pieces
  <2> QED BY <2>1, ContentAssumption
<1>5. /\ Created(st, local) /\ NewFile(st, local, s, path, "ok", Content) /\ local.once = st.once
      /\ local.toClient = st.toClient
  <2>1. local = WithBuffer(y, s, Content, y.book)
    BY DEF WithBuffer
  <2> HIDE DEF local
  <2>2. LET z == WithBuffer(y, s, Content, y.book)
        IN Created(st, z) /\ NewFile(st, z, s, path, "ok", Content) /\ z.once = st.once /\ z.toClient = y.toClient
    BY <1>1, <1>2, <1>4, NewBuffer
  <2> QED BY <1>1, <2>1, <2>2
<1>6. /\ Created(st, asked) /\ NewFile(st, asked, s, path, "ok", <<>>) /\ asked.once = st.once
      /\ IF fails THEN asked.toClient = st.toClient ELSE SendsIf(st, {s}, {s}, {}, I, asked)
  <2>1. CASE fails
    BY <1>1, <2>1
  <2>2. CASE ~fails
    <3>1. SameBut(y, asked, {"toClient"}) /\ SendsIf(y, {s}, {s}, {}, I, asked)
      BY <1>2, <2>2, SendOpen
    <3>2. Live(y) <=> Live(st)
      BY <1>1 DEF Created, Live
    <3> HIDE DEF asked, I
    <3>3. SendsIf(st, {s}, {s}, {}, I, asked)
      BY <1>1, <3>1, <3>2 DEF SendsIf
    <3> QED BY <1>1, <2>2, <3>1, <3>3 DEF Created, NewFile, SameBut
  <2> QED BY <2>1, <2>2
<1> HIDE DEF asked, local, I
<1>7. \/ AfterOpen(st, x, path, fails, "ok", <<>>, {s}, {s}, {}, I)
      \/ AfterOpen(st, x, path, fails, "ok", Content, {}, {}, {}, {})
      \/ \E error, buffer : error \in Errors \ {"ok"} /\ AfterOpen(st, x, path, fails, error, buffer, {}, {}, {}, {})
  BY <1>1, <1>5, <1>6, OpensIs
<1> QED BY <1>3, <1>7 DEF I

LEMMA FileWriteIs ==
  ASSUME NEW st, st \in States(st.book), st.c.next \in Streams, st.c.next \notin DOMAIN st.files,
         NEW path \in {"path", "-"}, NEW fails, NEW data \in Seq(Pieces)
  PROVE  LET x == FileWrite(st, path, data, fails)
             s == st.c.next
         IN \/ AfterOpen(st, x, path, fails, "ok", data, {s}, {}, {s}, {})
            \/ AfterOpen(st, x, path, fails, "ok", <<>>, {}, {}, {}, {})
            \/ \E error, buffer : error \in Errors \ {"ok"} /\ AfterOpen(st, x, path, fails, error, buffer, {}, {}, {}, {})
<1> DEFINE s == st.c.next
           y == Create(NextStream(st), s, path)
           b == With(y.book, s, [Nothing EXCEPT !.given = data])
           given == [y EXCEPT !.files[s].buffer = data, !.book = b]
           asked == IF fails THEN given ELSE Send(given, [type |-> "WRITE_OPEN", stream |-> s, path |-> path])
           x == Opens(y, s, path, fails, y, asked)
<1>1. /\ Created(st, y) /\ NewFile(st, y, s, path, "ok", <<>>) /\ y.once = st.once
      /\ y.toClient = st.toClient
  BY NewIs
<1>2. y \in States(y.book)
  BY <1>1 DEF Created, SameBut, States
<1>3. FileWrite(st, path, data, fails) = x
  BY DEF FileWrite
<1> HIDE DEF y, b
<1>5. /\ Created(st, given) /\ NewFile(st, given, s, path, "ok", data) /\ given.once = st.once
      /\ given.toClient = st.toClient
  <2>1. given = WithBuffer(y, s, data, b)
    BY DEF WithBuffer
  <2> HIDE DEF given
  <2> QED BY <1>1, <1>2, <2>1, NewBuffer
<1> HIDE DEF given
<1>6. /\ Created(st, asked) /\ NewFile(st, asked, s, path, "ok", data) /\ asked.once = st.once
      /\ IF fails THEN asked.toClient = st.toClient ELSE SendsIf(st, {s}, {}, {s}, {}, asked)
  <2>1. CASE fails
    BY <1>5, <2>1
  <2>2. CASE ~fails
    <3>0. given \in States(given.book)
      BY <1>5 DEF Created, SameBut
    <3>1. SameBut(given, asked, {"toClient"}) /\ SendsIf(given, {s}, {}, {s}, {}, asked)
      BY <3>0, <2>2, SendOpen
    <3>2. Live(given) <=> Live(st)
      BY <1>5 DEF Created, Live
    <3> HIDE DEF asked
    <3>3. SendsIf(st, {s}, {}, {s}, {}, asked)
      BY <1>5, <3>1, <3>2 DEF SendsIf
    <3> QED BY <1>5, <2>2, <3>1, <3>3 DEF Created, NewFile, SameBut
  <2> QED BY <2>1, <2>2
<1> HIDE DEF asked
<1>7. \/ AfterOpen(st, x, path, fails, "ok", data, {s}, {}, {s}, {})
      \/ AfterOpen(st, x, path, fails, "ok", <<>>, {}, {}, {}, {})
      \/ \E error, buffer : error \in Errors \ {"ok"} /\ AfterOpen(st, x, path, fails, error, buffer, {}, {}, {}, {})
  BY <1>1, <1>6, OpensIs
<1> QED BY <1>3, <1>7

\* The sets are of this stream, which is not both read and written.
OfStream(s, O, R, W, I) ==
  O \subseteq {s} /\ R \subseteq O /\ W \subseteq O /\ I \subseteq O /\ R \cap W = {}

\* The stream of a new file is in one place: in the message, or in the event.
LEMMA OpenedBase ==
  ASSUME NEW st, NEW ts, NEW pr, NEW k \in Int, Base(st, ts, pr), Counted(st, k),
         NEW x, NEW path, NEW fails, NEW error, NEW buffer,
         NEW O, NEW R, NEW W, NEW I, AfterOpen(st, x, path, fails, error, buffer, O, R, W, I),
         OfStream(st.c.next, O, R, W, I)
  PROVE  Base(x, ts, pr) /\ Counted(x, k) /\ Apart(st, x, {st.c.next})
<1> DEFINE s == st.c.next
<1>0. /\ Typed(st, ts, pr) /\ st \in States(st.book) /\ s \in Streams /\ s > 2
      /\ s \notin DOMAIN st.files /\ s + 1 \in Streams
      /\ Nowhere(st, ts, pr, s) /\ ~Telling(st, s) /\ s \in Nat
      /\ Live(st) => ~Reads(st, pr, s) /\ ~Writes(st, ts, pr, s)
  BY Fresh DEF Base, Typed, Streams
<1>1. /\ Created(st, x) /\ NewFile(st, x, s, path, error, buffer)
      /\ SendsIf(st, O, R, W, I, x) /\ Tells(st.once, {s} \ O, x.once)
  BY DEF AfterOpen
<1>2. /\ x \in States(x.book) /\ x.c.flags = st.c.flags /\ x.c.next = s + 1 /\ x.item = st.item
      /\ x.pane = st.pane
      /\ x.c.refs = st.c.refs + Number("ATTACHED" \notin st.c.flags)
      /\ DOMAIN x.files = DOMAIN st.files \cup {s} /\ \A t \in DOMAIN st.files : x.files[t] = st.files[t]
      /\ (x.files[s].remote <=> "ATTACHED" \notin st.c.flags) /\ x.files[s] \in FileRecord
  BY <1>1 DEF Created, SameBut, NewFile
<1>6. O \subseteq {s} /\ R \subseteq O /\ W \subseteq O /\ I \subseteq O /\ R \cap W = {}
  BY DEF OfStream
<1> HIDE DEF s
<1>3. Base(x, ts, pr)
  <2>1. IsFiniteSet(DOMAIN x.files)
    BY <1>0, <1>2, FS_AddElement DEF Typed
  <2>2. \A t \in DOMAIN x.files : t < x.c.next
    <3>1. \A t \in DOMAIN st.files : t < s /\ t \in Nat
      BY <1>0, TableIs DEF Typed, Streams, s
    <3> QED BY <1>0, <1>2, <3>1
  <2>3. /\ Live(x) <=> Live(st)
        /\ x.c.next >= st.c.next /\ DOMAIN st.files \subseteq DOMAIN x.files
        /\ O \cap ({s} \ O) = {}
    BY <1>0, <1>2 DEF Live, s
  <2>4. O \subseteq {s} /\ R \subseteq {s} /\ W \subseteq {s}
    BY <1>6
  <2>5. \A t \in O \cup ({s} \ O) : Nowhere(st, ts, pr, t) /\ ~Telling(st, t) /\ t \in DOMAIN x.files
    BY <1>0, <1>2, <2>4
  <2>6. Live(st) => /\ \A t \in R : ~Writes(st, ts, pr, t) /\ t > 2 /\ t < x.c.next
                    /\ \A t \in W : ~Reads(st, pr, t) /\ t < x.c.next
    BY <1>0, <1>2, <2>4
  <2> QED BY <1>0, <1>1, <1>2, <1>6, <2>1, <2>2, <2>3, <2>5, <2>6, Stepped
<1>4. Counted(x, k)
  <2>1. x.files[s].remote = ("ATTACHED" \notin st.c.flags)
    <3>1. x.files[s].remote \in BOOLEAN
      BY <1>2 DEF FileRecord
    <3> QED BY <1>2, <3>1
  <2>2. Typed(x, ts, pr)
    BY <1>3 DEF Base
  <2>3. s <= 2 => "ATTACHED" \notin st.c.flags
    BY <1>0
  <2> QED BY <1>0, <1>2, <2>1, <2>2, <2>3, CountedNew
<1>5. Apart(st, x, {s})
  <2>1. O \cup R \cup W \cup I \cup ({s} \ O) \subseteq {s}
    BY <1>6
  <2>2. \A t \in Streams \ {s} : /\ t \in DOMAIN x.files <=> t \in DOMAIN st.files
                                 /\ t \in DOMAIN st.files => x.files[t] = st.files[t]
    BY <1>2
  <2> QED BY <1>1, <1>2, <2>1, <2>2, ApartIs
<1> QED BY <1>3, <1>4, <1>5 DEF s

\* The command that opens it waits for it then.
LEMMA OpenedSound ==
  ASSUME NEW st, NEW ts, NEW pr, NEW k \in Int, NEW y, Sound(st, ts, pr, k, y, TRUE), y # st.c.next,
         NEW x, NEW path, NEW fails, NEW error, NEW buffer,
         NEW O, NEW R, NEW W, NEW I, AfterOpen(st, x, path, fails, error, buffer, O, R, W, I),
         OfStream(st.c.next, O, R, W, I),
         st.item.kind # "save" => W = {},
         st.item.target => ~fails /\ path # "-" /\ I = {} /\ (O = {} => buffer # <<>>)
  PROVE  Sound(x, ts, pr, k, y, FALSE) /\ Apart(st, x, {st.c.next})
<1> DEFINE s == st.c.next
<1>a. Base(st, ts, pr) /\ Counted(st, k) /\ Items(st, ts, pr, y, TRUE)
  BY DEF Sound
<1>0. /\ s \in Streams /\ s > 2 /\ s \notin DOMAIN st.files
      /\ Nowhere(st, ts, pr, s) /\ ~Telling(st, s)
      /\ Live(st) => ~Reads(st, pr, s) /\ ~Writes(st, ts, pr, s)
  BY <1>a, Fresh
<1>1. Base(x, ts, pr) /\ Counted(x, k) /\ Apart(st, x, {st.c.next})
  <2>1. /\ k \in Int /\ AfterOpen(st, x, path, fails, error, buffer, O, R, W, I)
        /\ OfStream(st.c.next, O, R, W, I)
    OBVIOUS
  <2> QED BY ONLY <1>a, <2>1, OpenedBase
<1>2. /\ Created(st, x) /\ NewFile(st, x, s, path, error, buffer)
      /\ SendsIf(st, O, R, W, I, x) /\ Tells(st.once, {s} \ O, x.once)
      /\ error # "ok" => fails \/ path = "-"
  BY DEF AfterOpen
<1>3. /\ x.c.flags = st.c.flags /\ x.item = st.item /\ x.pane = st.pane /\ (Live(x) <=> Live(st))
      /\ DOMAIN x.files = DOMAIN st.files \cup {s}
      /\ x.files[s].error = error /\ x.files[s].buffer = buffer /\ ~x.files[s].closed
  BY <1>2 DEF Created, SameBut, NewFile, Live
<1>4. st.item # NoItem /\ st.item.stream = s /\ st.item.waiting /\ st.item.kind # "input"
  BY <1>a DEF Items
<1>5. Live(st) => /\ Some(x.toClient, WriteOf(s)) <=> s \in W
                  /\ Some(x.toClient, InputOf(s)) => s \in I
                  /\ ~Some(ts, ReadyOf(s)) /\ ~Some(ts, FailureOf(s)) /\ ~Answered(ts, s)
                  /\ ~Reading(pr, s)
                  /\ ~(s \in DOMAIN pr.files /\ ~pr.files[s].reading)
  <2>1. Some(ts, FailureOf(s)) => Some(ts, AnswerOf(s))
    BY DEF Some, FailureOf
  <2>2. Some(st.toClient, InputOf(s)) => Some(st.toClient, ReadOf(s))
    BY DEF Some, InputOf, ReadOf
  <2> HIDE DEF s
  <2> QED BY <1>0, <1>2, <2>1, <2>2 DEF SendsIf, Sends, SomeTo, Reads, Writes, Nowhere, Opening, Answered
<1> HIDE DEF s
<1>6. Items(x, ts, pr, y, FALSE)
  <2>1. \A t \in DOMAIN x.files \ {y} : t > 2 => x.item # NoItem /\ x.item.stream = t /\ x.item.waiting
    BY <1>a, <1>3, <1>4 DEF Items
  <2>2. s \in DOMAIN x.files \ {y}
    BY <1>3 DEF s
  <2>3. st.item.kind # "save" /\ Live(x) => ~Writes(x, ts, pr, s)
    BY <1>3, <1>5 DEF Writes
  <2> QED BY <1>a, <1>0, <1>3, <1>4, <2>1, <2>2, <2>3 DEF Items
<1>7. Target(x, ts, pr)
  <2>1. Telling(x, s) => O = {}
    BY <1>0, <1>2 DEF Tells, Telling, OfStream, s
  <2> QED BY <1>0, <1>2, <1>3, <1>4, <1>5, <2>1 DEF Target
<1> QED BY <1>1, <1>6, <1>7 DEF Sound

LEMMA OfStreams ==
  ASSUME NEW s
  PROVE  /\ OfStream(s, {s}, {s}, {}, {s}) /\ OfStream(s, {s}, {s}, {}, {})
         /\ OfStream(s, {s}, {}, {s}, {})
         /\ OfStream(s, {}, {}, {}, {})
BY DEF OfStream

LEMMA FileReadSound ==
  ASSUME NEW st, NEW ts, NEW pr, NEW k \in Int, NEW y, Sound(st, ts, pr, k, y, TRUE), y # st.c.next,
         NEW path \in {"path", "-"}, NEW fails, st.item.target => ~fails /\ path # "-" /\ Content # <<>>
  PROVE  LET x == FileRead(st, path, fails)
         IN Sound(x, ts, pr, k, y, FALSE) /\ x.item = st.item /\ Apart(st, x, {st.c.next})
<1> DEFINE s == st.c.next
           x == FileRead(st, path, fails)
           I == IF path = "-" THEN {s} ELSE {}
<1>1. st \in States(st.book) /\ s \in Streams /\ s \notin DOMAIN st.files
  BY Fresh DEF Sound, Base, Typed
<1>2. \/ AfterOpen(st, x, path, fails, "ok", <<>>, {s}, {s}, {}, I)
      \/ AfterOpen(st, x, path, fails, "ok", Content, {}, {}, {}, {})
      \/ \E error, buffer : error \in Errors \ {"ok"} /\ AfterOpen(st, x, path, fails, error, buffer, {}, {}, {}, {})
  BY <1>1, FileReadIs
<1> HIDE DEF x, I
<1>4. CASE AfterOpen(st, x, path, fails, "ok", <<>>, {s}, {s}, {}, I)
  <2>1. OfStream(s, {s}, {s}, {}, I) /\ (path # "-" => I = {}) /\ {s} # {}
    BY OfStreams DEF I
  <2>2. /\ st.item.kind # "save" => {} = {}
        /\ st.item.target => ~fails /\ path # "-" /\ I = {} /\ ({s} = {} => <<>> # <<>>)
    BY <2>1
  <2>3. Sound(x, ts, pr, k, y, FALSE) /\ Apart(st, x, {st.c.next})
    BY <1>4, <2>1, <2>2, OpenedSound
  <2>4. x.item = st.item
    BY <1>4 DEF AfterOpen, Created, SameBut
  <2> QED BY <2>3, <2>4 DEF x
<1>5. CASE AfterOpen(st, x, path, fails, "ok", Content, {}, {}, {}, {})
  <2>1. OfStream(s, {}, {}, {}, {})
    BY OfStreams
  <2>2. /\ st.item.kind # "save" => {} = {}
        /\ st.item.target => ~fails /\ path # "-" /\ {} = {} /\ ({} = {} => Content # <<>>)
    OBVIOUS
  <2>3. Sound(x, ts, pr, k, y, FALSE) /\ Apart(st, x, {st.c.next})
    BY <1>5, <2>1, <2>2, OpenedSound
  <2>4. x.item = st.item
    BY <1>5 DEF AfterOpen, Created, SameBut
  <2> QED BY <2>3, <2>4 DEF x
<1>6. ASSUME NEW error, NEW buffer, error # "ok", AfterOpen(st, x, path, fails, error, buffer, {}, {}, {}, {})
      PROVE  Sound(x, ts, pr, k, y, FALSE) /\ x.item = st.item /\ Apart(st, x, {st.c.next})
  <2>1. OfStream(s, {}, {}, {}, {})
    BY OfStreams
  <2>0. ~st.item.target
    BY <1>6 DEF AfterOpen
  <2>2. /\ st.item.kind # "save" => {} = {}
        /\ st.item.target => ~fails /\ path # "-" /\ {} = {} /\ ({} = {} => buffer # <<>>)
    BY <2>0
  <2>3. Sound(x, ts, pr, k, y, FALSE) /\ Apart(st, x, {st.c.next})
    BY <1>6, <2>1, <2>2, OpenedSound
  <2> QED BY <1>6, <2>3 DEF AfterOpen, Created, SameBut
<1>7. CASE \E error, buffer : error \in Errors \ {"ok"} /\ AfterOpen(st, x, path, fails, error, buffer, {}, {}, {}, {})
  <2>1. PICK error, buffer : error \in Errors \ {"ok"} /\ AfterOpen(st, x, path, fails, error, buffer, {}, {}, {}, {})
    BY <1>7
  <2>2. error # "ok"
    BY <2>1
  <2> QED BY <1>6, <2>1, <2>2 DEF x
<1> QED BY <1>2, <1>4, <1>5, <1>7

LEMMA FileWriteSound ==
  ASSUME NEW st, NEW ts, NEW pr, NEW k \in Int, NEW y, Sound(st, ts, pr, k, y, TRUE), y # st.c.next,
         NEW path \in {"path", "-"}, NEW fails, NEW data \in Seq(Pieces), st.item.kind = "save", ~st.item.target
  PROVE  LET x == FileWrite(st, path, data, fails)
         IN Sound(x, ts, pr, k, y, FALSE) /\ Apart(st, x, {st.c.next})
<1> DEFINE s == st.c.next
           x == FileWrite(st, path, data, fails)
<1>1. st \in States(st.book) /\ s \in Streams /\ s \notin DOMAIN st.files
  BY Fresh DEF Sound, Base, Typed
<1>2. \/ AfterOpen(st, x, path, fails, "ok", data, {s}, {}, {s}, {})
      \/ AfterOpen(st, x, path, fails, "ok", <<>>, {}, {}, {}, {})
      \/ \E error, buffer : error \in Errors \ {"ok"} /\ AfterOpen(st, x, path, fails, error, buffer, {}, {}, {}, {})
  BY <1>1, FileWriteIs
<1> HIDE DEF x
<1>3. OfStream(s, {s}, {}, {s}, {}) /\ OfStream(s, {}, {}, {}, {})
  BY OfStreams
<1>4. ASSUME NEW error, NEW buffer, NEW O, NEW W, OfStream(s, O, {}, W, {}),
             AfterOpen(st, x, path, fails, error, buffer, O, {}, W, {})
      PROVE  Sound(x, ts, pr, k, y, FALSE) /\ Apart(st, x, {st.c.next})
  <2>1. /\ st.item.kind # "save" => W = {}
        /\ st.item.target => ~fails /\ path # "-" /\ {} = {} /\ (O = {} => buffer # <<>>)
    OBVIOUS
  <2> QED BY <1>4, <2>1, OpenedSound
<1> QED BY <1>2, <1>3, <1>4 DEF x

-----------------------------------------------------------------------------
(***************************************************************************)
(* Handlers that send nothing, and that change a file.                     *)
(***************************************************************************)
LEMMA Silent ==
  ASSUME NEW st, NEW ts, NEW pr, NEW x, Base(st, ts, pr), x \in States(x.book),
         DOMAIN x.files = DOMAIN st.files, Live(x) <=> Live(st), x.c.next = st.c.next,
         x.toClient = st.toClient, Tells(st.once, {}, x.once)
  PROVE  Base(x, ts, pr) /\ \A s \in Streams : Telling(x, s) <=> Telling(st, s)
<1>1. st \in States(st.book) /\ IsFiniteSet(DOMAIN x.files) /\ \A s \in DOMAIN x.files : s < x.c.next
  BY DEF Base, Typed
<1>2. SendsIf(st, {}, {}, {}, {}, x)
  <2>1. st.toClient \in Seq(ToClient)
    BY <1>1 DEF States
  <2> QED BY <2>1, SendsNone DEF SendsIf
<1>3. x.c.next >= st.c.next /\ DOMAIN st.files \subseteq DOMAIN x.files
  BY <1>1 DEF States, ClientRecord, Streams
<1>4. /\ \A s \in {} \cup {} : Nowhere(st, ts, pr, s) /\ ~Telling(st, s) /\ s \in DOMAIN x.files
      /\ {} \cap {} = {}
      /\ Live(st) => /\ \A s \in {} : ~Writes(st, ts, pr, s) /\ s > 2 /\ s < x.c.next
                     /\ \A s \in {} : ~Reads(st, pr, s) /\ s < x.c.next
  OBVIOUS
<1>5. Base(x, ts, pr)
  BY <1>1, <1>2, <1>3, <1>4, Stepped
<1>6. \A s \in Streams : Telling(x, s) <=> Telling(st, s)
  BY DEF Tells, Telling
<1> QED BY <1>5, <1>6

LEMMA ChangedSound ==
  ASSUME NEW st, NEW ts, NEW pr, NEW k \in Int, NEW y, NEW soon, Sound(st, ts, pr, k, y, soon),
         NEW s \in DOMAIN st.files, NEW f \in FileRecord, f.remote = st.files[s].remote,
         NEW x, SameBut(st, x, {"files", "book"}), x.files = [st.files EXCEPT ![s] = f],
         st.item # NoItem /\ st.item.kind = "input" /\ ~st.item.file /\ st.item.stream = s => f.error # "ok",
         Target(x, ts, pr)
  PROVE  Sound(x, ts, pr, k, y, soon)
<1>1. /\ Base(st, ts, pr) /\ Counted(st, k) /\ Items(st, ts, pr, y, soon) /\ Typed(st, ts, pr)
      /\ st \in States(st.book)
  BY DEF Sound, Base, Typed
<1>2. /\ x \in States(x.book) /\ x.c = st.c /\ x.once = st.once /\ x.toClient = st.toClient
      /\ x.item = st.item
      /\ x.pane = st.pane
  BY DEF SameBut
<1>3. /\ DOMAIN x.files = DOMAIN st.files /\ x.files[s] = f /\ \A t \in DOMAIN st.files : t # s => x.files[t] = st.files[t]
  BY <1>1, TableIs
<1>4. Base(x, ts, pr)
  <2>1. Tells(st.once, {}, x.once)
    BY <1>1, <1>2, TellsFree DEF States
  <2> QED BY <1>1, <1>2, <1>3, <2>1, Silent DEF Live
<1>5. Counted(x, k)
  <2>1. Counted(x, k + (x.c.refs - st.c.refs) - (Share(x.item) - Share(st.item)))
    BY <1>1, <1>2, <1>3, <1>4, CountedSame DEF Base, Live
  <2>2. st.c.refs \in Int /\ Share(st.item) \in Int
    BY <1>1, RemotesAre
  <2> QED BY <1>2, <2>1, <2>2
<1>6. Items(x, ts, pr, y, soon)
  <2>1. \A t : /\ Writes(x, ts, pr, t) <=> Writes(st, ts, pr, t)
               /\ Nowhere(x, ts, pr, t) <=> Nowhere(st, ts, pr, t)
    BY <1>2 DEF Writes, Nowhere, Opening, Live
  <2>2. Live(x) <=> Live(st)
    BY <1>2 DEF Live
  <2> QED BY <1>1, <1>2, <1>3, <2>1, <2>2 DEF Items
<1> QED BY <1>4, <1>5, <1>6 DEF Sound

\* s is a file that is in no message, and of which no command is to be told.
Settled(st, ts, pr, s) == s \in DOMAIN st.files /\ Nowhere(st, ts, pr, s) /\ ~Telling(st, s)

\* file_free, after the callback.
LEMMA FreeFileSound ==
  ASSUME NEW st, NEW ts, NEW pr, NEW k \in Int, NEW s, Sound(st, ts, pr, k, s, FALSE),
         Settled(st, ts, pr, s)
  PROVE  LET x == FreeFile(st, s)
         IN Sound(x, ts, pr, k, 0, FALSE) /\ x.c.flags = st.c.flags
<1> DEFINE x == FreeFile(st, s)
           w == [st EXCEPT !.files = Without(@, s)]
<1>0. /\ Base(st, ts, pr) /\ Counted(st, k) /\ Items(st, ts, pr, s, FALSE) /\ Target(st, ts, pr)
      /\ Typed(st, ts, pr) /\ st \in States(st.book) /\ s \in DOMAIN st.files
  BY DEF Sound, Base, Typed, Settled
<1>1. /\ st.files[s] \in FileRecord /\ s \in Streams /\ ~(st.files[s].refs > 1)
      /\ st.files[s].remote \in BOOLEAN
  <2>1. st.files[s] \in FileRecord /\ s \in Streams
    BY <1>0, FileIs
  <2>2. st.files[s].refs = 1
    BY <2>1 DEF FileRecord
  <2> QED BY <2>1, <2>2 DEF FileRecord
<1>2. x = IF st.files[s].remote THEN Unref(w) ELSE w
  BY <1>1 DEF FreeFile
<1>3. SameBut(st, w, {"files"}) /\ w.files = Without(st.files, s)
  <2>1. Without(st.files, s) \in Tables
    BY <1>0, TableIs
  <2> QED BY <1>0, <2>1 DEF States, SameBut
<1> HIDE DEF x, w
<1>4. /\ x \in States(x.book) /\ x.files = Without(st.files, s) /\ x.item = st.item
      /\ x.toClient = st.toClient
      /\ x.pane = st.pane /\ x.c.flags = st.c.flags /\ x.c.next = st.c.next
      /\ x.c.refs = st.c.refs - Number(st.files[s].remote) /\ Tells(st.once, {}, x.once)
  <2>1. /\ w \in States(w.book) /\ w.c = st.c /\ w.once = st.once /\ w.item = st.item
        /\ w.toClient = st.toClient /\ w.pane = st.pane
    BY <1>3 DEF SameBut
  <2>2. CASE st.files[s].remote
    <3>1. x = Unref(w)
      BY <1>2, <2>2
    <3> QED BY <1>3, <2>1, <2>2, <3>1, UnrefIs DEF Number
  <2>3. CASE ~st.files[s].remote
    <3>1. x = w
      BY <1>2, <2>3
    <3>2. st.c.refs \in Int /\ Tells(st.once, {}, st.once)
      BY <1>0, RemotesAre, TellsFree DEF States
    <3> QED BY <1>3, <2>1, <2>3, <3>1, <3>2 DEF Number
  <2> QED BY <2>2, <2>3
<1>5. DOMAIN x.files = DOMAIN st.files \ {s} /\ \A t \in DOMAIN x.files : x.files[t] = st.files[t]
  <2>1. DOMAIN Without(st.files, s) = DOMAIN st.files \ {s}
    BY DEF Without
  <2>2. \A t \in DOMAIN st.files \ {s} : Without(st.files, s)[t] = st.files[t]
    BY DEF Without
  <2> QED BY <1>4, <2>1, <2>2
<1>6. Live(x) <=> Live(st)
  BY <1>4 DEF Live
<1>7. Base(x, ts, pr)
  <2>1. Typed(x, ts, pr)
    <3>1. IsFiniteSet(DOMAIN x.files)
      BY <1>0, <1>5, FS_Subset DEF Typed
    <3> QED BY <1>0, <1>4, <1>5, <3>1 DEF Typed
  <2>2. OnePlace(x, ts, pr)
    <3>1. \A t \in Streams : (Telling(x, t) <=> Telling(st, t)) /\ (Once(st.once, DoneOf(t)) => Once(x.once, DoneOf(t)))
      BY <1>4 DEF Tells, Telling
    <3>2. \A t \in Streams : Opening(x, t) <=> Opening(st, t)
      BY <1>4 DEF Opening
    <3> QED BY <1>0, <1>4, <1>5, <1>6, <3>1, <3>2 DEF Base, OnePlace, Settled, Nowhere
  <2>3. OneWay(x, ts, pr) /\ Quiet(x, ts, pr)
    BY <1>0, <1>4, <1>6 DEF Base, OneWay, Quiet, Reads, Writes
  <2> QED BY <2>1, <2>2, <2>3 DEF Base
<1>8. Counted(x, k)
  BY <1>0, <1>4, <1>5, <1>7, CountedLess DEF Base
<1>9. Items(x, ts, pr, 0, FALSE)
  <2>1. \A t : /\ Writes(x, ts, pr, t) <=> Writes(st, ts, pr, t)
               /\ Nowhere(x, ts, pr, t) <=> Nowhere(st, ts, pr, t)
    BY <1>4 DEF Writes, Nowhere, Opening, Live
  <2>2. 0 \notin DOMAIN x.files
    BY <1>4, TableIs DEF Streams
  <2> QED BY <1>0, <1>4, <1>5, <1>6, <2>1, <2>2 DEF Items
<1>10. Target(x, ts, pr)
  <2>1. st.item # NoItem => st.item.stream \in Streams
    BY <1>0 DEF States, ItemRecord
  <2>2. \A t \in Streams : Telling(x, t) <=> Telling(st, t)
    BY <1>4 DEF Tells, Telling
  <2> QED BY <1>0, <1>4, <1>5, <1>6, <2>1, <2>2 DEF Target, Arrived
<1> QED BY <1>4, <1>7, <1>8, <1>9, <1>10 DEF Sound, x

\* file_cancel, for a client whose input is not wanted any more.
LEMMA CancelSound ==
  ASSUME NEW st, NEW ts, NEW pr, NEW k \in Int, NEW y, Sound(st, ts, pr, k, y, FALSE),
         NEW s \in DOMAIN st.files, st.item # NoItem, st.item.kind = "input", st.item.stream = s
  PROVE  LET x == Cancel(st, s)
         IN /\ Sound(x, ts, pr, k, y, FALSE) /\ SameBut(st, x, {"files", "toClient"})
            /\ DOMAIN x.files = DOMAIN st.files /\ (Opening(x, s) <=> Opening(st, s))
<1> DEFINE x == Cancel(st, s)
           z == [st EXCEPT !.files[s].closed = TRUE]
           f == [st.files[s] EXCEPT !.closed = TRUE]
<1>0. /\ Base(st, ts, pr) /\ Counted(st, k) /\ Items(st, ts, pr, y, FALSE) /\ Target(st, ts, pr)
      /\ Typed(st, ts, pr) /\ st \in States(st.book)
  BY DEF Sound, Base, Typed
<1>1. CASE st.files[s].closed
  <2>1. x = st
    BY <1>1 DEF Cancel
  <2> QED BY <1>0, <2>1 DEF SameBut
<1>2. CASE ~st.files[s].closed
  <2>1. x = Send(z, [type |-> "READ_CANCEL", stream |-> s])
    BY <1>2 DEF Cancel
  <2>2. /\ st.files[s] \in FileRecord /\ s \in Streams /\ f \in FileRecord
        /\ f.remote = st.files[s].remote
        /\ f.error = st.files[s].error
    BY <1>0, FileIs DEF FileRecord
  <2>3. SameBut(st, z, {"files"}) /\ z.files = [st.files EXCEPT ![s] = f]
    <3>1. [st.files EXCEPT ![s] = f] \in Tables
      BY <1>0, <2>2, TableIs
    <3> QED BY <1>0, <3>1 DEF States, SameBut
  <2> HIDE DEF z, f, x
  <2>4. /\ z \in States(z.book) /\ z.c = st.c /\ z.once = st.once /\ z.toClient = st.toClient
        /\ z.item = st.item
        /\ z.pane = st.pane /\ SameBut(st, z, {"files", "book"})
    BY <2>3 DEF SameBut
  <2>5. ~st.item.target
    BY <1>0 DEF Items
  <2>6. Sound(z, ts, pr, k, y, FALSE)
    <3>1. Target(z, ts, pr)
      BY <2>4, <2>5 DEF Target
    <3>2. st.item # NoItem /\ st.item.kind = "input" /\ ~st.item.file /\ st.item.stream = s => f.error # "ok"
      BY <1>0, <2>2 DEF Items
    <3> QED BY <2>2, <2>3, <2>4, <3>1, <3>2, ChangedSound
  <2>7. SameBut(z, x, {"toClient"}) /\ SendsIf(z, {}, {s}, {}, {s}, x)
    <3>1. <<>> \in Seq(Pieces)
      OBVIOUS
    <3> QED BY <2>1, <2>2, <2>4, <3>1, SendWrite
  <2>8. /\ x \in States(x.book) /\ x.c = z.c /\ x.once = z.once /\ x.item = z.item /\ x.pane = z.pane
        /\ x.files = z.files
    BY <2>7 DEF SameBut
  <2>9. Base(z, ts, pr) /\ Counted(z, k) /\ Items(z, ts, pr, y, FALSE) /\ Typed(z, ts, pr)
    BY <2>6 DEF Sound, Base
  <2>10. \A t \in Streams : /\ Live(z) => (Some(x.toClient, WriteOf(t)) <=> Some(z.toClient, WriteOf(t)))
                            /\ Opening(x, t) <=> Opening(z, t)
    BY <2>7 DEF SendsIf, Sends, SomeTo, Opening
  <2>11. Live(x) <=> Live(z)
    BY <2>8 DEF Live
  <2>12. s < z.c.next /\ s > 2
    BY <2>3, <2>4, <2>9, <1>0, TableIs DEF Typed, Items
  <2>13. Base(x, ts, pr)
    <3>1. /\ IsFiniteSet(DOMAIN x.files) /\ x.c.next >= z.c.next /\ \A t \in DOMAIN x.files : t < x.c.next
          /\ DOMAIN z.files \subseteq DOMAIN x.files
      BY <2>8, <2>9 DEF Typed, States, ClientRecord, Streams
    <3>2. Live(z) => /\ \A t \in {s} : ~Writes(z, ts, pr, t) /\ t > 2 /\ t < x.c.next
                     /\ \A t \in {} : ~Reads(z, pr, t) /\ t < x.c.next
      BY <2>4, <2>8, <2>9, <2>12 DEF Items
    <3>3. /\ \A t \in {} \cup {} : Nowhere(z, ts, pr, t) /\ ~Telling(z, t) /\ t \in DOMAIN x.files
          /\ {} \cap {} = {} /\ {s} \cap {} = {}
      OBVIOUS
    <3>4. Tells(z.once, {}, x.once)
      BY <2>8, <2>9, TellsFree DEF Typed, States
    <3> QED BY <2>7, <2>8, <2>9, <2>11, <3>1, <3>2, <3>3, <3>4, Stepped
  <2>14. Counted(x, k)
    <3>1. Counted(x, k + (x.c.refs - z.c.refs) - (Share(x.item) - Share(z.item)))
      BY <2>8, <2>9, <2>11, <2>13, CountedSame DEF Base
    <3>2. z.c.refs \in Int /\ Share(z.item) \in Int
      BY <2>9, RemotesAre
    <3> QED BY <2>8, <3>1, <3>2
  <2>15. Items(x, ts, pr, y, FALSE)
    <3>1. \A t \in Streams : /\ Live(z) => (Writes(x, ts, pr, t) <=> Writes(z, ts, pr, t))
                             /\ Nowhere(x, ts, pr, t) <=> Nowhere(z, ts, pr, t)
      BY <2>10, <2>11 DEF Writes, Nowhere
    <3>2. z.item.stream \in Streams
      BY <2>2, <2>4
    <3> QED BY <2>8, <2>9, <2>11, <3>1, <3>2 DEF Items
  <2>16. Target(x, ts, pr)
    BY <2>4, <2>5, <2>8 DEF Target
  <2>17. DOMAIN x.files = DOMAIN st.files /\ (Opening(x, s) <=> Opening(st, s))
    <3>1. DOMAIN z.files = DOMAIN st.files
      BY <1>0, <2>2, <2>3, TableIs
    <3> QED BY <2>2, <2>4, <2>8, <2>10, <3>1 DEF Opening
  <2>18. SameBut(st, x, {"files", "toClient"})
    BY <2>3, <2>4, <2>7, <2>8 DEF SameBut
  <2> QED BY <2>13, <2>14, <2>15, <2>16, <2>17, <2>18 DEF Sound, x
<1> QED BY <1>1, <1>2

-----------------------------------------------------------------------------
(***************************************************************************)
(* Callbacks. First those of a file that is done, which is freed then.     *)
(***************************************************************************)
\* server_client_free does not run within one.
Kept(st, x) == "FREED" \in x.c.flags => "FREED" \in st.c.flags

LEMMA NoItemIs == NoItem \notin ItemRecord
BY DEF NoItem, None, ItemRecord

LEMMA ReportSound ==
  ASSUME NEW st, NEW ts, NEW pr, NEW k \in Int, NEW y, NEW soon, Sound(st, ts, pr, k, y, soon),
         NEW error
  PROVE  LET x == Report(st, error)
         IN Sound(x, ts, pr, k, y, soon) /\ Apart(st, x, {2}) /\ x.c.next = st.c.next
<1>1. CASE error = "ok"
  <2>1. Report(st, error) = st
    BY <1>1 DEF Report
  <2> QED BY <2>1 DEF Apart
<1>2. CASE error # "ok"
  <2>1. Report(st, error) = Printed(st, 2, <<"error">>)
    BY <1>2 DEF Report
  <2> DEFINE data == <<"error">>
  <2>2. data \in Seq(Pieces) /\ 2 \in 1..2
    BY DEF Pieces
  <2> HIDE DEF data
  <2>3. LET x == Printed(st, 2, data)
        IN Sound(x, ts, pr, k, y, soon) /\ Apart(st, x, {2}) /\ x.c.next = st.c.next
    BY <2>2, PrintedSound
  <2> QED BY <2>1, <2>3 DEF data
<1> QED BY <1>1, <1>2

LEMMA SettledApart ==
  ASSUME NEW st, NEW ts, NEW pr, NEW x, NEW T, Apart(st, x, T), NEW s \in Streams \ T,
         Settled(st, ts, pr, s)
  PROVE  Settled(x, ts, pr, s) /\ x.files[s] = st.files[s]
BY DEF Apart, Settled, Nowhere, Opening, Live

\* The command that waits is told, and goes on.
LEMMA Finished ==
  ASSUME NEW st, NEW ts, NEW pr, NEW k \in Int, NEW s \in Streams, Sound(st, ts, pr, k, 0, FALSE),
         Settled(st, ts, pr, s), s > 2, NEW x, x \in States(x.book),
         x.files = st.files, x.toClient = st.toClient, x.pane = st.pane, x.c.flags = st.c.flags,
         x.c.next = st.c.next, Tells(st.once, {}, x.once), st.item # NoItem, x.item # NoItem,
         x.item.kind = st.item.kind, x.item.stream = st.item.stream, x.item.file = st.item.file,
         ~x.item.waiting, ~x.item.target, ~x.item.holds,
         st.c.refs - x.c.refs = Number(st.item.target) + Number(st.item.holds)
  PROVE  Sound(x, ts, pr, k, s, FALSE) /\ Settled(x, ts, pr, s) /\ x.item # NoItem
<1>0. /\ Base(st, ts, pr) /\ Counted(st, k) /\ Items(st, ts, pr, 0, FALSE) /\ Typed(st, ts, pr)
      /\ st.item \in ItemRecord /\ x.item \in ItemRecord
  BY DEF Sound, Base, Typed, States
<1>1. Live(x) <=> Live(st)
  BY DEF Live
<1>2. Base(x, ts, pr) /\ \A t \in Streams : Telling(x, t) <=> Telling(st, t)
  BY <1>0, <1>1, Silent
<1>3. Settled(x, ts, pr, s)
  BY <1>1, <1>2 DEF Settled, Nowhere, Opening
<1>4. Counted(x, k)
  <2>1. Counted(x, k + (x.c.refs - st.c.refs) - (Share(x.item) - Share(st.item)))
    BY <1>0, <1>1, <1>2, CountedSame DEF Base
  <2>2. Share(st.item) = 1 + Number(st.item.target) + Number(st.item.holds) /\ Share(x.item) = 1
    BY DEF Share, Number
  <2>3. /\ st.c.refs \in Int /\ x.c.refs \in Int /\ Number(st.item.target) \in Int
        /\ Number(st.item.holds) \in Int
    BY <1>0, <1>2, RemotesAre DEF Base, Number
  <2>4. k + (x.c.refs - st.c.refs) - (Share(x.item) - Share(st.item)) = k
    BY <2>2, <2>3
  <2> QED BY <2>1, <2>4
<1>5. Items(x, ts, pr, s, FALSE)
  <2>1. \A t : /\ Writes(x, ts, pr, t) <=> Writes(st, ts, pr, t)
               /\ Nowhere(x, ts, pr, t) <=> Nowhere(st, ts, pr, t)
    BY DEF Writes, Nowhere, Opening, Live
  <2>2. \A t \in DOMAIN x.files \ {s} : ~(t > 2)
    <3>1. DOMAIN st.files \subseteq Streams /\ 0 \notin DOMAIN st.files
      BY <1>0, TableIs DEF Typed, Streams
    <3>2. s \in DOMAIN st.files
      BY DEF Settled
    <3> QED BY <1>0, <3>1, <3>2 DEF Items
  <2> QED BY <1>0, <1>1, <2>1, <2>2 DEF Items
<1>6. Target(x, ts, pr)
  BY DEF Target
<1> QED BY <1>2, <1>3, <1>4, <1>5, <1>6 DEF Sound

\* cmd_load_buffer_done: the reference to the target client is given back.
LEMMA LoadDoneSound ==
  ASSUME NEW st, NEW ts, NEW pr, NEW s \in Streams, Sound(st, ts, pr, 0, 0, FALSE),
         Settled(st, ts, pr, s), s > 2, st.item # NoItem, st.item.kind = "load",
         st.item.target => st.files[s].error = "ok" /\ st.files[s].buffer # <<>>
  PROVE  LET x == LoadDone(st, st.files[s])
         IN Sound(x, ts, pr, 0, s, FALSE) /\ Settled(x, ts, pr, s) /\ Kept(st, x)
<1> DEFINE f == st.files[s]
           r == Report(st, f.error)
           u == IF r.item.target /\ f.error = "ok" /\ f.buffer # <<>> THEN Unref(r) ELSE r
           x == LoadDone(st, st.files[s])
<1>1. x = Continue([u EXCEPT !.item.target = FALSE])
  BY DEF LoadDone
<1>2. Sound(r, ts, pr, 0, 0, FALSE) /\ Apart(st, r, {2}) /\ r.c.next = st.c.next
  <2>1. 0 \in Int
    OBVIOUS
  <2> QED BY <2>1, ReportSound
<1> HIDE DEF r, x
<1>3. /\ r \in States(r.book) /\ r.item = st.item /\ r.item \in ItemRecord /\ Settled(r, ts, pr, s)
      /\ r.c.refs \in Int /\ r.once \in Seq(Told)
  <2>1. r \in States(r.book) /\ r.item = st.item
    BY <1>2 DEF Sound, Base, Typed, Apart
  <2>2. r.item \in ItemRecord /\ r.c.refs \in Int /\ r.once \in Seq(Told)
    BY <2>1 DEF States, ClientRecord
  <2>3. s \in Streams \ {2}
    BY DEF Streams
  <2> QED BY <1>2, <2>1, <2>2, <2>3, SettledApart
<1>4. ~r.item.holds /\ r.item.stream > 2
  BY <1>2, <1>3 DEF Sound, Items
<1>5. /\ u \in States(u.book) /\ u.files = r.files /\ u.item = r.item /\ u.toClient = r.toClient
      /\ u.pane = r.pane
      /\ u.c.flags = r.c.flags /\ u.c.next = r.c.next /\ Tells(r.once, {}, u.once)
      /\ r.c.refs - u.c.refs = Number(r.item.target)
  <2>1. CASE r.item.target
    <3>1. u = Unref(r)
      BY <1>3, <2>1
    <3> HIDE DEF u
    <3> QED BY <1>3, <2>1, <3>1, UnrefIs DEF Number
  <2>2. CASE ~r.item.target
    <3>1. u = r
      BY <2>2
    <3> HIDE DEF u
    <3> QED BY <1>3, <2>2, <3>1, TellsFree DEF Number
  <2> QED BY <2>1, <2>2
<1> HIDE DEF u
<1>6. /\ x \in States(x.book) /\ x.files = u.files /\ x.toClient = u.toClient /\ x.pane = u.pane
      /\ x.c = u.c
      /\ x.once = u.once /\ x.item = [u.item EXCEPT !.target = FALSE, !.waiting = FALSE]
  BY <1>1, <1>3, <1>5 DEF Continue, States, ItemRecord
<1>7. /\ x.item.kind = r.item.kind /\ x.item.stream = r.item.stream /\ x.item.file = r.item.file
      /\ ~x.item.waiting /\ ~x.item.target /\ ~x.item.holds /\ x.item # NoItem /\ r.item # NoItem
  <2> DEFINE i == r.item
  <2>1. i \in ItemRecord /\ x.item = [i EXCEPT !.target = FALSE, !.waiting = FALSE]
    BY <1>3, <1>5, <1>6
  <2>2. ~i.holds /\ i # NoItem
    BY <1>3, <1>4
  <2> HIDE DEF i
  <2>3. /\ x.item \in ItemRecord /\ x.item.kind = i.kind /\ x.item.stream = i.stream
        /\ x.item.file = i.file
        /\ x.item.waiting = FALSE /\ x.item.target = FALSE /\ x.item.holds = i.holds
    BY <2>1 DEF ItemRecord
  <2> QED BY <2>2, <2>3, NoItemIs DEF i
<1>8. r.c.refs - x.c.refs = Number(r.item.target) + Number(r.item.holds)
  BY <1>4, <1>5, <1>6 DEF Number
<1>9. Sound(x, ts, pr, 0, s, FALSE) /\ Settled(x, ts, pr, s)
  <2>1. /\ x.files = r.files /\ x.toClient = r.toClient /\ x.pane = r.pane /\ x.c.flags = r.c.flags
        /\ x.c.next = r.c.next /\ Tells(r.once, {}, x.once) /\ x \in States(x.book)
    BY <1>5, <1>6
  <2>2. 0 \in Int
    OBVIOUS
  <2> QED BY <1>2, <1>3, <1>7, <1>8, <2>1, <2>2, Finished
<1>10. Kept(st, x)
  BY <1>2, <1>5, <1>6 DEF Kept, Apart
<1> QED BY <1>9, <1>10 DEF x

\* What they are told.
LEMMA Reported ==
  ASSUME NEW st, NEW ts, NEW pr, NEW s \in Streams, Sound(st, ts, pr, 0, 0, FALSE),
         Settled(st, ts, pr, s), s > 2,
         NEW error
  PROVE  LET r == Report(st, error)
         IN /\ Sound(r, ts, pr, 0, 0, FALSE) /\ Settled(r, ts, pr, s) /\ r.files[s] = st.files[s]
            /\ r \in States(r.book) /\ r.item = st.item /\ r.c.refs \in Int /\ r.once \in Seq(Told)
            /\ (r.item # NoItem => r.item \in ItemRecord) /\ Kept(st, r)
<1> DEFINE r == Report(st, error)
<1>1. Sound(r, ts, pr, 0, 0, FALSE) /\ Apart(st, r, {2})
  <2>1. 0 \in Int
    OBVIOUS
  <2> QED BY <2>1, ReportSound
<1> HIDE DEF r
<1>2. r \in States(r.book) /\ r.item = st.item
  BY <1>1 DEF Sound, Base, Typed, Apart
<1>3. (r.item # NoItem => r.item \in ItemRecord) /\ r.c.refs \in Int /\ r.once \in Seq(Told)
  BY <1>2 DEF States, ClientRecord
<1>5. Kept(st, r)
  BY <1>1 DEF Kept, Apart
<1>4. s \in Streams \ {2}
  BY DEF Streams
<1> QED BY <1>1, <1>2, <1>3, <1>4, <1>5, SettledApart DEF r

LEMMA ContinueIs ==
  ASSUME NEW st, st \in States(st.book), st.item \in ItemRecord
  PROVE  LET x == Continue(st)
         IN /\ SameBut(st, x, {"item"}) /\ x.item \in ItemRecord /\ x.item # NoItem /\ ~x.item.waiting
            /\ x.item.kind = st.item.kind /\ x.item.stream = st.item.stream
            /\ x.item.file = st.item.file
            /\ x.item.target = st.item.target /\ x.item.holds = st.item.holds
<1> DEFINE i == [st.item EXCEPT !.waiting = FALSE]
<1>1. /\ i \in ItemRecord /\ i.waiting = FALSE /\ i.kind = st.item.kind
      /\ i.stream = st.item.stream /\ i.file = st.item.file
      /\ i.target = st.item.target /\ i.holds = st.item.holds
  BY DEF ItemRecord
<1>2. Continue(st).item = i /\ SameBut(st, Continue(st), {"item"})
  BY <1>1 DEF Continue, States, SameBut
<1> HIDE DEF i
<1> QED BY <1>1, <1>2, NoItemIs

\* It goes on without a file of its own.
LEMMA ContinueSound ==
  ASSUME NEW st, NEW ts, NEW pr, NEW s \in Streams, Sound(st, ts, pr, 0, 0, FALSE),
         Settled(st, ts, pr, s), s > 2,
         st.item # NoItem, st.item.kind \in {"save", "source"}
  PROVE  LET x == Continue(st)
         IN Sound(x, ts, pr, 0, s, FALSE) /\ Settled(x, ts, pr, s) /\ Kept(st, x)
<1> DEFINE x == Continue(st)
<1>1. /\ st \in States(st.book) /\ st.item \in ItemRecord /\ Items(st, ts, pr, 0, FALSE)
      /\ st.once \in Seq(Told) /\ st.c.refs \in Int
  BY DEF Sound, Base, Typed, States, ClientRecord
<1>2. ~st.item.target /\ ~st.item.holds
  BY <1>1 DEF Items
<1>3. /\ SameBut(st, x, {"item"}) /\ x.item \in ItemRecord /\ x.item # NoItem /\ ~x.item.waiting
      /\ x.item.kind = st.item.kind /\ x.item.stream = st.item.stream /\ x.item.file = st.item.file
      /\ x.item.target = st.item.target /\ x.item.holds = st.item.holds
  BY <1>1, ContinueIs
<1> HIDE DEF x
<1>4. /\ x.files = st.files /\ x.toClient = st.toClient /\ x.pane = st.pane /\ x.c = st.c
      /\ Tells(st.once, {}, x.once) /\ x \in States(x.book)
  BY <1>1, <1>3, TellsFree DEF SameBut
<1>5. st.c.refs - x.c.refs = Number(st.item.target) + Number(st.item.holds) /\ 0 \in Int
  BY <1>1, <1>2, <1>4 DEF Number
<1>6. ~x.item.target /\ ~x.item.holds /\ x.c.flags = st.c.flags /\ x.c.next = st.c.next
  BY <1>2, <1>3, <1>4
<1>7. Sound(x, ts, pr, 0, s, FALSE) /\ Settled(x, ts, pr, s)
  BY <1>3, <1>4, <1>5, <1>6, Finished
<1>8. Kept(st, x)
  BY <1>4 DEF Kept
<1> QED BY <1>7, <1>8 DEF x

\* cmd_save_buffer_done.
LEMMA SaveDoneSound ==
  ASSUME NEW st, NEW ts, NEW pr, NEW s \in Streams, Sound(st, ts, pr, 0, 0, FALSE),
         Settled(st, ts, pr, s), s > 2,
         st.item # NoItem, st.item.kind = "save"
  PROVE  LET x == SaveDone(st, st.files[s])
         IN Sound(x, ts, pr, 0, s, FALSE) /\ Settled(x, ts, pr, s) /\ Kept(st, x)
<1> DEFINE r == Report(st, st.files[s].error)
<1>1. Sound(r, ts, pr, 0, 0, FALSE) /\ Settled(r, ts, pr, s) /\ r.item = st.item /\ Kept(st, r)
  BY Reported
<1>2. SaveDone(st, st.files[s]) = Continue(r)
  BY DEF SaveDone
<1> HIDE DEF r
<1>3. LET x == Continue(r)
      IN Sound(x, ts, pr, 0, s, FALSE) /\ Settled(x, ts, pr, s) /\ Kept(r, x)
  BY <1>1, ContinueSound
<1> QED BY <1>1, <1>2, <1>3 DEF Kept

\* cmd_source_file_done: the next file is read, or the command goes on.
LEMMA SourceDoneSound ==
  ASSUME NEW st, NEW ts, NEW pr, NEW s \in Streams, Sound(st, ts, pr, 0, 0, FALSE),
         Settled(st, ts, pr, s), s > 2,
         st.item # NoItem, st.item.kind = "source"
  PROVE  LET x == SourceDone(st, st.files[s])
         IN Sound(x, ts, pr, 0, s, FALSE) /\ Settled(x, ts, pr, s) /\ Kept(st, x)
<1> DEFINE f == st.files[s]
           r == Report(st, f.error)
           z == [r EXCEPT !.item.left = @ - 1, !.item.stream = r.c.next]
           x == SourceDone(st, f)
<1>1. /\ Sound(r, ts, pr, 0, 0, FALSE) /\ Settled(r, ts, pr, s) /\ r.item = st.item /\ r.files[s] = f
      /\ r \in States(r.book) /\ r.item \in ItemRecord /\ Kept(st, r)
  BY Reported
<1>2. x = IF r.item.left = 0 THEN Continue(r) ELSE FileRead(z, f.path, FALSE)
  BY DEF SourceDone
<1> HIDE DEF r
<1>3. CASE r.item.left = 0
  <2>1. x = Continue(r)
    BY <1>2, <1>3
  <2> HIDE DEF x
  <2>2. Sound(x, ts, pr, 0, s, FALSE) /\ Settled(x, ts, pr, s) /\ Kept(r, x)
    BY <1>1, <2>1, ContinueSound
  <2>3. Kept(st, x)
    BY <1>1, <2>2 DEF Kept
  <2> QED BY <2>2, <2>3 DEF x
<1>4. CASE r.item.left # 0
  <2>1. x = FileRead(z, f.path, FALSE)
    BY <1>2, <1>4
  <2>2. f.path \in {"path", "-"}
    <3>1. s \in DOMAIN r.files
      BY <1>1 DEF Settled
    <3>2. r.files[s] \in FileRecord
      BY <1>1, <3>1, FileIs
    <3> HIDE DEF f
    <3> QED BY <1>1, <3>2 DEF FileRecord
  <2>3. /\ Base(r, ts, pr) /\ Counted(r, 0) /\ Items(r, ts, pr, 0, FALSE) /\ Target(r, ts, pr)
        /\ Typed(r, ts, pr)
        /\ r.once \in Seq(Told) /\ r.c.refs \in Int /\ r.c.next \in Streams
    BY <1>1 DEF Sound, Base, Typed, States, ClientRecord
  <2>4. /\ r.c.next \in Streams /\ r.c.next > 2 /\ r.c.next \notin DOMAIN r.files
        /\ (Live(r) => ~Writes(r, ts, pr, r.c.next))
        /\ s # r.c.next /\ s \in DOMAIN r.files
    BY <1>1, <2>3, Fresh DEF Settled
  <2>5. /\ SameBut(r, z, {"item"}) /\ z.item.kind = r.item.kind /\ z.item.stream = r.c.next
        /\ z.item.target = r.item.target
        /\ z.item.holds = r.item.holds /\ z.item.waiting = r.item.waiting /\ z.item \in ItemRecord
    <3> DEFINE i == [r.item EXCEPT !.left = r.item.left - 1, !.stream = r.c.next]
    <3>1. r.item.left - 1 \in 0..1
      BY <1>1, <1>4 DEF ItemRecord
    <3>2. /\ i \in ItemRecord /\ i.kind = r.item.kind /\ i.stream = r.c.next
          /\ i.target = r.item.target
          /\ i.holds = r.item.holds /\ i.waiting = r.item.waiting
      BY <1>1, <2>4, <3>1 DEF ItemRecord
    <3>3. z.item = i /\ SameBut(r, z, {"item"})
      BY <1>1, <3>2 DEF States, SameBut
    <3> HIDE DEF z, i
    <3> QED BY <3>2, <3>3
  <2>6. /\ z \in States(z.book) /\ z.c = r.c /\ z.once = r.once /\ z.toClient = r.toClient
        /\ z.pane = r.pane
        /\ z.files = r.files /\ z.item # NoItem
    BY <2>5, NoItemIs DEF SameBut
  <2> HIDE DEF z, x, f
  <2>7. ~r.item.target /\ ~r.item.holds /\ r.item.waiting /\ r.item.stream = s
    <3>1. s \in DOMAIN r.files \ {0}
      BY <2>4 DEF Streams
    <3> QED BY <1>1, <2>3, <3>1 DEF Items
  <2>8. Sound(z, ts, pr, 0, s, TRUE)
    <3>1. Live(z) <=> Live(r)
      BY <2>6 DEF Live
    <3>2. Base(z, ts, pr)
      BY <2>3, <2>6, <3>1, Silent, TellsFree
    <3>3. Counted(z, 0)
      <4>1. Counted(z, 0 + (z.c.refs - r.c.refs) - (Share(z.item) - Share(r.item)))
        BY <2>3, <2>6, <3>1, <3>2, CountedSame DEF Base
      <4>2. r.item # NoItem
        BY <1>1
      <4>3. Share(z.item) = 1 /\ Share(r.item) = 1
        BY <2>5, <2>6, <2>7, <4>2 DEF Share, Number
      <4> QED BY <2>3, <2>6, <4>1, <4>3
    <3>4. Items(z, ts, pr, s, TRUE)
      <4>1. \A t \in DOMAIN z.files \ {s} : ~(t > 2)
        <5>1. 0 \notin DOMAIN r.files
          BY <1>1, TableIs DEF Streams
        <5> QED BY <2>3, <2>6, <2>7, <5>1 DEF Items
      <4>2. \A t : Writes(z, ts, pr, t) <=> Writes(r, ts, pr, t)
        BY <2>6 DEF Writes
      <4> QED BY <1>1, <2>4, <2>5, <2>6, <2>7, <3>1, <4>1, <4>2 DEF Items
    <3>5. Target(z, ts, pr)
      BY <2>5, <2>7 DEF Target
    <3> QED BY <3>2, <3>3, <3>4, <3>5 DEF Sound
  <2>9. z.item.target => ~FALSE /\ f.path # "-" /\ Content # <<>>
    BY <2>5, <2>7
  <2>10. s # z.c.next /\ 0 \in Int
    BY <2>4, <2>6
  <2>11. Sound(x, ts, pr, 0, s, FALSE) /\ Apart(z, x, {z.c.next})
    BY <2>1, <2>2, <2>8, <2>9, <2>10, FileReadSound
  <2>12. Settled(x, ts, pr, s)
    <3>1. Settled(z, ts, pr, s)
      BY <1>1, <2>6 DEF Settled, Nowhere, Opening, Telling, Live
    <3>2. s \in Streams \ {z.c.next}
      BY <2>10
    <3> QED BY <2>11, <3>1, <3>2, SettledApart
  <2>13. Kept(st, x)
    BY <1>1, <2>6, <2>11 DEF Kept, Apart
  <2> QED BY <2>11, <2>12, <2>13 DEF x, f
<1> QED BY <1>3, <1>4

\* The client is to exit, or has been told to.
LEMMA FlagSound ==
  ASSUME NEW st, NEW ts, NEW pr, NEW k \in Int, NEW y, Sound(st, ts, pr, k, y, FALSE),
         NEW flag \in {"EXIT", "EXITED", "FREED"}
  PROVE  LET x == [st EXCEPT !.c.flags = @ \cup {flag}]
         IN /\ Sound(x, ts, pr, k, y, FALSE) /\ SameBut(st, x, {"c"}) /\ x.c.flags = st.c.flags \cup {flag}
            /\ x.c.refs = st.c.refs /\ (Live(x) <=> Live(st))
<1> DEFINE x == [st EXCEPT !.c.flags = @ \cup {flag}]
<1>1. /\ Base(st, ts, pr) /\ Counted(st, k) /\ Items(st, ts, pr, y, FALSE) /\ Target(st, ts, pr)
      /\ Typed(st, ts, pr)
      /\ st \in States(st.book) /\ st.once \in Seq(Told) /\ st.c.refs \in Int
  BY DEF Sound, Base, Typed, States, ClientRecord
<1>2. /\ SameBut(st, x, {"c"}) /\ x.c.flags = st.c.flags \cup {flag} /\ x.c.next = st.c.next /\ x.c.refs = st.c.refs
  BY <1>1 DEF States, ClientRecord, SameBut
<1> HIDE DEF x
<1>3. /\ x \in States(x.book) /\ x.files = st.files /\ x.item = st.item
      /\ x.toClient = st.toClient /\ x.pane = st.pane
      /\ x.once = st.once /\ ("ATTACHED" \in x.c.flags <=> "ATTACHED" \in st.c.flags)
      /\ st.c.flags \subseteq x.c.flags
      /\ Live(x) <=> Live(st)
  BY <1>2 DEF SameBut, Live
<1>4. Base(x, ts, pr)
  BY <1>1, <1>2, <1>3, Silent, TellsFree
<1>5. Counted(x, k)
  <2>1. Counted(x, k + (x.c.refs - st.c.refs) - (Share(x.item) - Share(st.item)))
    BY <1>1, <1>3, <1>4, CountedSame DEF Base
  <2>2. Share(st.item) \in Int
    BY <1>1, RemotesAre
  <2> QED BY <1>1, <1>2, <1>3, <2>1, <2>2
<1>6. Items(x, ts, pr, y, FALSE)
  <2>1. \A t : /\ Writes(x, ts, pr, t) <=> Writes(st, ts, pr, t)
               /\ Nowhere(x, ts, pr, t) <=> Nowhere(st, ts, pr, t)
    BY <1>3 DEF Writes, Nowhere, Opening, Live
  <2> QED BY <1>1, <1>3, <2>1 DEF Items
<1>7. Target(x, ts, pr)
  BY <1>1, <1>3 DEF Target, Telling, Arrived
<1> QED BY <1>2, <1>3, <1>4, <1>5, <1>6, <1>7 DEF Sound, x

\* The file is about to be freed, and nothing waits for it.
LEMMA Forgotten ==
  ASSUME NEW st, NEW ts, NEW pr, NEW k \in Int, NEW s, Sound(st, ts, pr, k, 0, FALSE),
         st.item # NoItem /\ st.item.stream = s /\ st.item.waiting /\ Live(st) =>
           st.item.kind = "input" /\ ~st.pane /\ "EXIT" \in st.c.flags
  PROVE  Sound(st, ts, pr, k, s, FALSE)
<1>1. Items(st, ts, pr, 0, FALSE) /\ 0 \notin DOMAIN st.files
  BY TableIs DEF Sound, Base, Typed, Streams
<1>2. Items(st, ts, pr, s, FALSE)
  BY <1>1 DEF Items
<1> QED BY <1>2 DEF Sound

\* What is in the buffer has been taken.
LEMMA EmptiedSound ==
  ASSUME NEW st, NEW ts, NEW pr, NEW k \in Int, NEW y, Sound(st, ts, pr, k, y, FALSE),
         NEW s \in DOMAIN st.files,
         ~(st.item # NoItem /\ st.item.target)
  PROVE  LET x == [st EXCEPT !.files[s].buffer = <<>>]
         IN Sound(x, ts, pr, k, y, FALSE) /\ (Settled(st, ts, pr, s) => Settled(x, ts, pr, s)) /\ Kept(st, x)
<1> DEFINE x == [st EXCEPT !.files[s].buffer = <<>>]
           f == [st.files[s] EXCEPT !.buffer = <<>>]
<1>1. st \in States(st.book) /\ Items(st, ts, pr, y, FALSE)
  BY DEF Sound, Base, Typed
<1>2. f \in FileRecord /\ f.remote = st.files[s].remote /\ f.error = st.files[s].error
  <2>1. st.files[s] \in FileRecord
    BY <1>1, FileIs
  <2>2. <<>> \in Seq(Pieces)
    OBVIOUS
  <2> QED BY <2>1, <2>2 DEF FileRecord
<1>3. /\ SameBut(st, x, {"files", "book"}) /\ x.files = [st.files EXCEPT ![s] = f]
      /\ DOMAIN x.files = DOMAIN st.files
  <2>1. [st.files EXCEPT ![s] = f] \in Tables
    BY <1>1, <1>2, TableIs
  <2> QED BY <1>1, <2>1 DEF States, SameBut
<1> HIDE DEF x, f
<1>4. x.item = st.item /\ x.c = st.c /\ x.once = st.once /\ x.toClient = st.toClient
  BY <1>3 DEF SameBut
<1>5. Target(x, ts, pr)
  BY <1>4 DEF Target
<1>6. Sound(x, ts, pr, k, y, FALSE)
  <2>1. st.item # NoItem /\ st.item.kind = "input" /\ ~st.item.file /\ st.item.stream = s => f.error # "ok"
    BY <1>1, <1>2 DEF Items
  <2> QED BY <1>2, <1>3, <1>5, <2>1, ChangedSound
<1>7. Settled(st, ts, pr, s) => Settled(x, ts, pr, s)
  BY <1>3, <1>4 DEF Settled, Nowhere, Opening, Telling, Live
<1>8. Kept(st, x)
  BY <1>4 DEF Kept
<1> QED BY <1>6, <1>7, <1>8 DEF x

\* The client of a pane that has gone is to exit.
LEMMA GoneSound ==
  ASSUME NEW st, NEW ts, NEW pr, Sound(st, ts, pr, 0, 0, FALSE), ~st.pane \/ ~Live(st)
  PROVE  LET x == IF st.pane THEN st ELSE [st EXCEPT !.c.flags = @ \cup {"EXIT"}]
         IN /\ Sound(x, ts, pr, 0, 0, FALSE) /\ SameBut(st, x, {"c"}) /\ (Live(x) <=> Live(st))
            /\ (Live(x) => ~x.pane /\ "EXIT" \in x.c.flags) /\ Kept(st, x)
<1> DEFINE x == IF st.pane THEN st ELSE [st EXCEPT !.c.flags = @ \cup {"EXIT"}]
<1>1. CASE st.pane
  <2>1. x = st
    BY <1>1
  <2>2. st \in States(st.book)
    BY DEF Sound, Base, Typed
  <2> QED BY <1>1, <2>1, <2>2 DEF SameBut, Kept
<1>2. CASE ~st.pane
  <2> DEFINE z == [st EXCEPT !.c.flags = @ \cup {"EXIT"}]
  <2>1. Sound(z, ts, pr, 0, 0, FALSE) /\ SameBut(st, z, {"c"}) /\ z.c.flags = st.c.flags \cup {"EXIT"} /\ (Live(z) <=> Live(st))
    <3>1. 0 \in Int /\ "EXIT" \in {"EXIT", "EXITED", "FREED"}
      OBVIOUS
    <3> HIDE DEF z
    <3>2. [st EXCEPT !.c.flags = @ \cup {"EXIT"}] = z
      BY DEF z
    <3> QED BY <3>1, FlagSound DEF z
  <2>2. x = z
    BY <1>2
  <2> HIDE DEF x, z
  <2>3. Live(z) => ~z.pane /\ "EXIT" \in z.c.flags
    BY <1>2, <2>1 DEF SameBut
  <2>4. /\ Sound(x, ts, pr, 0, 0, FALSE) /\ SameBut(st, x, {"c"}) /\ (Live(x) <=> Live(st))
        /\ (Live(x) => ~x.pane /\ "EXIT" \in x.c.flags) /\ Kept(st, x)
    BY <2>1, <2>2, <2>3 DEF Kept
  <2> QED BY <2>4 DEF x
<1> QED BY <1>1, <1>2
\* What Sound says, part by part.
LEMMA Facts ==
  ASSUME NEW st, NEW ts, NEW pr, NEW k, NEW y, NEW soon, Sound(st, ts, pr, k, y, soon)
  PROVE  /\ st \in States(st.book) /\ Base(st, ts, pr) /\ Typed(st, ts, pr) /\ Counted(st, k)
         /\ Items(st, ts, pr, y, soon) /\ Target(st, ts, pr)
         /\ st.item # NoItem => st.item \in ItemRecord
         /\ st.once \in Seq(Told) /\ st.c \in ClientRecord /\ st.c.refs \in Int /\ 0 \in Int
         /\ DOMAIN st.files \subseteq Streams
<1>1. /\ st \in States(st.book) /\ Base(st, ts, pr) /\ Typed(st, ts, pr) /\ Counted(st, k)
      /\ Items(st, ts, pr, y, soon) /\ Target(st, ts, pr)
  BY DEF Sound, Base, Typed
<1>2. /\ st.item # NoItem => st.item \in ItemRecord
      /\ st.once \in Seq(Told) /\ st.c \in ClientRecord
  BY <1>1 DEF States
<1>3. st.c.refs \in Int
  BY <1>2 DEF ClientRecord
<1>4. DOMAIN st.files \subseteq Streams
  BY <1>1, TableIs
<1> QED BY <1>1, <1>2, <1>3, <1>4

\* window_pane_input_callback, when the client has read everything.
LEMMA InputDoneSound ==
  ASSUME NEW st, NEW ts, NEW pr, NEW s \in Streams, Sound(st, ts, pr, 0, 0, FALSE),
         Settled(st, ts, pr, s), s > 2,
         st.item # NoItem, st.item.kind = "input", st.item.stream = s, st.item.waiting
  PROVE  LET x == Input(st, s, TRUE)
         IN Sound(x, ts, pr, 0, s, FALSE) /\ Settled(x, ts, pr, s) /\ Kept(st, x)
<1> DEFINE g == IF st.pane THEN st ELSE [st EXCEPT !.c.flags = @ \cup {"EXIT"}]
           h == [st EXCEPT !.item.holds = FALSE]
           w == IF st.item.file /\ (~st.pane \/ Has(st, "DEAD")) THEN Cancel(g, s) ELSE Unref(Continue(h))
           x == Input(st, s, TRUE)
<1>0. /\ st \in States(st.book) /\ st.item \in ItemRecord /\ Items(st, ts, pr, 0, FALSE)
      /\ s \in DOMAIN st.files
      /\ 0 \in Int /\ st.once \in Seq(Told) /\ st.c.refs \in Int
  BY Facts DEF Settled
<1>1. st.item.holds /\ ~st.item.target
  BY <1>0 DEF Items
<1>2. x = [w EXCEPT !.files[s].buffer = <<>>]
  BY DEF Input
<1>3. CASE st.item.file /\ (~st.pane \/ Has(st, "DEAD"))
  <2>1. w = Cancel(g, s)
    BY <1>3
  <2>2. /\ Sound(g, ts, pr, 0, 0, FALSE) /\ SameBut(st, g, {"c"}) /\ (Live(g) <=> Live(st))
        /\ (Live(g) => ~g.pane /\ "EXIT" \in g.c.flags) /\ Kept(st, g)
    <3>1. ~st.pane \/ ~Live(st)
      BY <1>3 DEF Has, Live
    <3> HIDE DEF g
    <3>2. g = IF st.pane THEN st ELSE [st EXCEPT !.c.flags = @ \cup {"EXIT"}]
      BY DEF g
    <3> QED BY <3>1, GoneSound DEF g
  <2> HIDE DEF g, w, x
  <2>3. /\ g.item = st.item /\ g.files = st.files /\ g.once = st.once /\ g.toClient = st.toClient
    BY <2>2 DEF SameBut
  <2>4. Sound(g, ts, pr, 0, s, FALSE)
    BY <1>0, <2>2, <2>3, Forgotten
  <2>5. /\ Sound(w, ts, pr, 0, s, FALSE) /\ SameBut(g, w, {"files", "toClient"})
        /\ DOMAIN w.files = DOMAIN g.files /\ (Opening(w, s) <=> Opening(g, s))
    <3>1. s \in DOMAIN g.files /\ g.item # NoItem /\ g.item.kind = "input" /\ g.item.stream = s
      BY <1>0, <2>3
    <3>2. LET v == Cancel(g, s)
          IN /\ Sound(v, ts, pr, 0, s, FALSE) /\ SameBut(g, v, {"files", "toClient"})
             /\ DOMAIN v.files = DOMAIN g.files /\ (Opening(v, s) <=> Opening(g, s))
      BY <1>0, <2>4, <3>1, CancelSound
    <3> QED BY <2>1, <3>2
  <2>6. w.item = st.item /\ s \in DOMAIN w.files /\ w.once = st.once /\ (Live(w) <=> Live(st)) /\ (Opening(w, s) <=> Opening(st, s))
    BY <1>0, <2>2, <2>3, <2>5 DEF SameBut, Live, Opening
  <2>7. Settled(w, ts, pr, s)
    BY <2>6 DEF Settled, Nowhere, Telling
  <2>8. Sound(x, ts, pr, 0, s, FALSE) /\ Settled(x, ts, pr, s) /\ Kept(w, x)
    BY <1>0, <1>1, <1>2, <2>5, <2>6, <2>7, EmptiedSound
  <2>9. Kept(st, x)
    BY <2>2, <2>5, <2>8 DEF Kept, SameBut
  <2> QED BY <2>8, <2>9 DEF x
<1>4. CASE ~(st.item.file /\ (~st.pane \/ Has(st, "DEAD")))
  <2>1. w = Unref(Continue(h))
    BY <1>4
  <2>2. /\ SameBut(st, h, {"item"}) /\ h.item \in ItemRecord /\ h.item.kind = st.item.kind
        /\ h.item.stream = st.item.stream
        /\ h.item.file = st.item.file /\ h.item.target = st.item.target /\ h.item.holds = FALSE
    <3> DEFINE i == [st.item EXCEPT !.holds = FALSE]
    <3>1. /\ i \in ItemRecord /\ i.kind = st.item.kind /\ i.stream = st.item.stream
          /\ i.file = st.item.file
          /\ i.target = st.item.target /\ i.holds = FALSE
      BY <1>0 DEF ItemRecord
    <3>2. h.item = i /\ SameBut(st, h, {"item"})
      BY <1>0, <3>1 DEF States, SameBut
    <3> HIDE DEF h, i
    <3> QED BY <3>1, <3>2
  <2> DEFINE d == Continue(h)
  <2> HIDE DEF h
  <2>3. /\ SameBut(h, d, {"item"}) /\ d.item \in ItemRecord /\ d.item # NoItem /\ ~d.item.waiting
        /\ d.item.kind = h.item.kind /\ d.item.stream = h.item.stream /\ d.item.file = h.item.file
        /\ d.item.target = h.item.target /\ d.item.holds = h.item.holds
    <3>1. h \in States(h.book)
      BY <2>2 DEF SameBut
    <3> QED BY <2>2, <3>1, ContinueIs
  <2> HIDE DEF d
  <2>4. /\ d \in States(d.book) /\ d.c = st.c /\ d.files = st.files /\ d.once = st.once
        /\ d.toClient = st.toClient /\ d.pane = st.pane
    BY <2>2, <2>3 DEF SameBut
  <2>5. w = Unref(d)
    BY <2>1 DEF d
  <2> HIDE DEF w, x
  <2>6. /\ w \in States(w.book) /\ w.files = d.files /\ w.item = d.item /\ w.toClient = d.toClient
        /\ w.pane = d.pane /\ w.c.refs = d.c.refs - 1 /\ w.c.flags = d.c.flags /\ w.c.next = d.c.next
        /\ Tells(d.once, {}, w.once)
    BY <2>4, <2>5, UnrefIs
  <2>7. st.c.refs - w.c.refs = Number(st.item.target) + Number(st.item.holds)
    BY <1>0, <1>1, <2>4, <2>6 DEF Number
  <2>8. /\ w.files = st.files /\ w.toClient = st.toClient /\ w.pane = st.pane
        /\ w.c.flags = st.c.flags
        /\ w.c.next = st.c.next /\ Tells(st.once, {}, w.once) /\ w.item # NoItem
        /\ w.item.kind = st.item.kind /\ w.item.stream = st.item.stream /\ w.item.file = st.item.file
        /\ ~w.item.waiting /\ ~w.item.target /\ ~w.item.holds
    BY <1>1, <2>2, <2>3, <2>4, <2>6
  <2>9. Sound(w, ts, pr, 0, s, FALSE) /\ Settled(w, ts, pr, s)
    BY <1>0, <2>6, <2>7, <2>8, Finished
  <2>10. Sound(x, ts, pr, 0, s, FALSE) /\ Settled(x, ts, pr, s) /\ Kept(w, x)
    BY <1>0, <1>2, <2>8, <2>9, EmptiedSound
  <2>11. Kept(st, x)
    BY <2>8, <2>10 DEF Kept
  <2> QED BY <2>10, <2>11 DEF x
<1> QED BY <1>3, <1>4

\* With more data, as long as nothing is wrong with the file.
LEMMA InputDataSound ==
  ASSUME NEW st, NEW ts, NEW pr, NEW s \in DOMAIN st.files, Sound(st, ts, pr, 0, 0, FALSE),
         st.files[s].error = "ok",
         st.item # NoItem, st.item.kind = "input", st.item.stream = s
  PROVE  Sound(Input(st, s, FALSE), ts, pr, 0, 0, FALSE) /\ Kept(st, Input(st, s, FALSE))
<1> DEFINE g == IF st.pane THEN st ELSE [st EXCEPT !.c.flags = @ \cup {"EXIT"}]
           h == [st EXCEPT !.item.got = @ \o st.files[s].buffer]
           w == IF st.item.file /\ (~st.pane \/ Has(st, "DEAD")) THEN Cancel(g, s) ELSE h
           x == Input(st, s, FALSE)
<1>0. /\ st \in States(st.book) /\ st.item \in ItemRecord /\ Items(st, ts, pr, 0, FALSE)
      /\ Base(st, ts, pr)
      /\ 0 \in Int /\ st.once \in Seq(Told) /\ st.c.refs \in Int /\ s \in Streams
      /\ Counted(st, 0) /\ Typed(st, ts, pr)
  BY Facts
<1>1. st.item.file /\ ~st.item.target
  BY <1>0 DEF Items
<1>2. x = [w EXCEPT !.files[s].buffer = <<>>]
  BY <1>1 DEF Input
<1>3. CASE st.item.file /\ (~st.pane \/ Has(st, "DEAD"))
  <2>1. w = Cancel(g, s)
    BY <1>3
  <2>2. Sound(g, ts, pr, 0, 0, FALSE) /\ SameBut(st, g, {"c"}) /\ Kept(st, g)
    <3>1. ~st.pane \/ ~Live(st)
      BY <1>3 DEF Has, Live
    <3> HIDE DEF g
    <3> QED BY <3>1, GoneSound DEF g
  <2> HIDE DEF g, w, x
  <2>3. g.item = st.item /\ g.files = st.files
    BY <2>2 DEF SameBut
  <2>4. /\ Sound(w, ts, pr, 0, 0, FALSE) /\ SameBut(g, w, {"files", "toClient"})
        /\ DOMAIN w.files = DOMAIN g.files
    <3>1. /\ s \in DOMAIN g.files /\ Sound(g, ts, pr, 0, 0, FALSE) /\ 0 \in Int /\ g.item # NoItem
          /\ g.item.kind = "input" /\ g.item.stream = s
      BY <1>0, <2>2, <2>3
    <3>2. LET v == Cancel(g, s)
          IN Sound(v, ts, pr, 0, 0, FALSE) /\ SameBut(g, v, {"files", "toClient"}) /\ DOMAIN v.files = DOMAIN g.files
      BY <3>1, CancelSound
    <3> QED BY <2>1, <3>2
  <2>5. w.item = st.item /\ s \in DOMAIN w.files
    BY <2>3, <2>4 DEF SameBut
  <2>6. Sound(x, ts, pr, 0, 0, FALSE) /\ Kept(w, x)
    BY <1>0, <1>1, <1>2, <2>4, <2>5, EmptiedSound
  <2>7. Kept(st, x)
    BY <2>2, <2>4, <2>6 DEF Kept, SameBut
  <2> QED BY <2>6, <2>7 DEF x
<1>4. CASE ~(st.item.file /\ (~st.pane \/ Has(st, "DEAD")))
  <2>1. w = h
    BY <1>4
  <2>2. /\ SameBut(st, h, {"item"}) /\ h.item \in ItemRecord /\ h.item.kind = st.item.kind
        /\ h.item.stream = st.item.stream
        /\ h.item.file = st.item.file /\ h.item.target = st.item.target
        /\ h.item.holds = st.item.holds
        /\ h.item.waiting = st.item.waiting
    <3> DEFINE got == st.item.got \o st.files[s].buffer
               i == [st.item EXCEPT !.got = got]
    <3>1. got \in Seq(Pieces)
      <4>1. st.item.got \in Seq(Pieces) /\ st.files[s] \in FileRecord
        BY <1>0, FileIs DEF ItemRecord
      <4>2. st.files[s].buffer \in Seq(Pieces)
        BY <4>1 DEF FileRecord
      <4> QED BY <4>1, <4>2
    <3> HIDE DEF got
    <3>2. /\ i \in ItemRecord /\ i.kind = st.item.kind /\ i.stream = st.item.stream
          /\ i.file = st.item.file
          /\ i.target = st.item.target /\ i.holds = st.item.holds /\ i.waiting = st.item.waiting
      BY <1>0, <3>1 DEF ItemRecord
    <3>3. h.item = i /\ SameBut(st, h, {"item"})
      <4>1. h = [st EXCEPT !.item.got = got]
        BY DEF got
      <4> QED BY <1>0, <3>2, <4>1 DEF States, SameBut
    <3> HIDE DEF h, i
    <3> QED BY <3>2, <3>3
  <2> HIDE DEF h, w, x
  <2>3. /\ h \in States(h.book) /\ h.c = st.c /\ h.files = st.files /\ h.once = st.once
        /\ h.toClient = st.toClient
        /\ h.pane = st.pane /\ h.item # NoItem /\ (Live(h) <=> Live(st))
    BY <2>2, NoItemIs DEF SameBut, Live
  <2>4. Sound(h, ts, pr, 0, 0, FALSE)
    <3>1. Base(h, ts, pr)
      BY <1>0, <2>3, Silent, TellsFree
    <3>2. Counted(h, 0)
      <4>1. Counted(h, 0 + (h.c.refs - st.c.refs) - (Share(h.item) - Share(st.item)))
        BY <1>0, <2>3, <3>1, CountedSame DEF Base
      <4>2. Share(h.item) = Share(st.item) /\ Share(st.item) \in Int
        BY <1>0, <2>2, <2>3, RemotesAre DEF Share
      <4> QED BY <1>0, <2>3, <4>1, <4>2
    <3>3. Items(h, ts, pr, 0, FALSE)
      <4>1. \A t : /\ Writes(h, ts, pr, t) <=> Writes(st, ts, pr, t)
                   /\ Nowhere(h, ts, pr, t) <=> Nowhere(st, ts, pr, t)
        BY <2>3 DEF Writes, Nowhere, Opening, Live
      <4> QED BY <1>0, <2>2, <2>3, <4>1 DEF Items
    <3>4. Target(h, ts, pr)
      BY <1>1, <2>2 DEF Target
    <3> QED BY <3>1, <3>2, <3>3, <3>4 DEF Sound
  <2>5. Sound(x, ts, pr, 0, 0, FALSE) /\ Kept(w, x)
    BY <1>0, <1>1, <1>2, <2>1, <2>2, <2>3, <2>4, EmptiedSound
  <2>6. Kept(st, x)
    BY <2>1, <2>3, <2>5 DEF Kept
  <2> QED BY <2>5, <2>6 DEF x
<1> QED BY <1>3, <1>4

\* The callback of a file that is done.
LEMMA CallbackSound ==
  ASSUME NEW st, NEW ts, NEW pr, NEW s \in Streams, Sound(st, ts, pr, 0, 0, FALSE),
         Settled(st, ts, pr, s),
         st.item # NoItem /\ st.item.target /\ st.item.stream = s =>
           st.files[s].error = "ok" /\ st.files[s].buffer # <<>>
  PROVE  LET x == Callback(st, s, TRUE)
         IN Sound(x, ts, pr, 0, s, FALSE) /\ Settled(x, ts, pr, s) /\ Kept(st, x)
<1>0. Items(st, ts, pr, 0, FALSE) /\ s \in DOMAIN st.files /\ (st.item # NoItem => st.item \in ItemRecord) /\ 0 \in Int
  BY Facts DEF Settled
<1>1. CASE s <= 2
  <2>1. ~(s > 2)
    BY <1>1 DEF Streams
  <2>2. Callback(st, s, TRUE) = st
    BY <2>1 DEF Callback
  <2>3. st.item # NoItem => st.item.stream # s
    BY <1>0, <2>1 DEF Items
  <2>4. Sound(st, ts, pr, 0, s, FALSE)
    BY <1>0, <2>3, Forgotten
  <2> QED BY <2>2, <2>4 DEF Kept
<1>2. CASE s > 2
  <2>1. st.item # NoItem /\ st.item.stream = s /\ st.item.waiting /\ st.item \in ItemRecord
    <3>1. s \in DOMAIN st.files \ {0}
      BY <1>0 DEF Streams
    <3> QED BY <1>0, <1>2, <3>1 DEF Items
  <2>2. st.item.kind \in {"load", "save", "source", "input"}
    BY <2>1 DEF ItemRecord
  <2>3. CASE st.item.kind = "load"
    <3>1. Callback(st, s, TRUE) = LoadDone(st, st.files[s])
      BY <1>2, <2>3 DEF Callback
    <3> QED BY <1>2, <2>1, <2>3, <3>1, LoadDoneSound
  <2>4. CASE st.item.kind = "save"
    <3>1. Callback(st, s, TRUE) = SaveDone(st, st.files[s])
      BY <1>2, <2>4 DEF Callback
    <3> QED BY <1>2, <2>1, <2>4, <3>1, SaveDoneSound
  <2>5. CASE st.item.kind = "source"
    <3>1. Callback(st, s, TRUE) = SourceDone(st, st.files[s])
      BY <1>2, <2>5 DEF Callback
    <3> QED BY <1>2, <2>1, <2>5, <3>1, SourceDoneSound
  <2>6. CASE st.item.kind = "input"
    <3>1. Callback(st, s, TRUE) = Input(st, s, TRUE)
      BY <1>2, <2>6 DEF Callback
    <3> QED BY <1>2, <2>1, <2>6, <3>1, InputDoneSound
  <2> QED BY <2>2, <2>3, <2>4, <2>5, <2>6
<1>3. s <= 2 \/ s > 2
  BY DEF Streams
<1> QED BY <1>1, <1>2, <1>3

-----------------------------------------------------------------------------
(***************************************************************************)
(* Events.                                                                 *)
(***************************************************************************)
WithOnce(st, q) == [st EXCEPT !.once = q]

\* The first event is taken.
LEMMA EventSound ==
  ASSUME NEW st, NEW ts, NEW pr, Sound(st, ts, pr, 0, 0, FALSE), st.once # <<>>
  PROVE  LET x == WithOnce(st, Tail(st.once))
         IN /\ Sound(x, ts, pr, 0, 0, FALSE) /\ SameBut(st, x, {"once"}) /\ Head(st.once) \in Told
            /\ \A s \in Streams : Head(st.once) = <<"done", s>> =>
                 /\ Settled(x, ts, pr, s) /\ Telling(st, s)
<1> DEFINE x == WithOnce(st, Tail(st.once))
<1>1. /\ st \in States(st.book) /\ Base(st, ts, pr) /\ Typed(st, ts, pr) /\ Counted(st, 0)
      /\ Items(st, ts, pr, 0, FALSE) /\ Target(st, ts, pr) /\ st.once \in Seq(Told)
      /\ st.c.refs \in Int
      /\ st.item # NoItem => st.item \in ItemRecord
  BY Facts
<1>2. /\ Tail(st.once) \in Seq(Told) /\ Head(st.once) \in Told
      /\ \A S : Some(st.once, S) <=> Some(Tail(st.once), S) \/ Head(st.once) \in S
      /\ \A S : Once(st.once, S) => Once(Tail(st.once), S) /\ ~(Some(Tail(st.once), S) /\ Head(st.once) \in S)
  BY <1>1, Taken
<1>3. SameBut(st, x, {"once"}) /\ x.once = Tail(st.once)
  BY <1>1, <1>2 DEF WithOnce, States, SameBut
<1> HIDE DEF x
<1>4. /\ x \in States(x.book) /\ x.c = st.c /\ x.files = st.files /\ x.item = st.item
      /\ x.toClient = st.toClient
      /\ x.pane = st.pane /\ (Live(x) <=> Live(st))
  BY <1>3 DEF SameBut, Live
<1>5. \A s : /\ Telling(st, s) <=> Telling(x, s) \/ Head(st.once) \in DoneOf(s)
             /\ Opening(x, s) <=> Opening(st, s)
             /\ Writes(x, ts, pr, s) <=> Writes(st, ts, pr, s)
             /\ Nowhere(x, ts, pr, s) <=> Nowhere(st, ts, pr, s)
             /\ Reads(x, pr, s) <=> Reads(st, pr, s)
  BY <1>2, <1>3, <1>4 DEF Telling, Opening, Writes, Reads, Nowhere
<1>6. Base(x, ts, pr)
  <2>1. Typed(x, ts, pr)
    BY <1>1, <1>4 DEF Typed
  <2>2. OnePlace(x, ts, pr)
    BY <1>1, <1>2, <1>3, <1>4, <1>5 DEF Base, OnePlace
  <2>3. OneWay(x, ts, pr) /\ Quiet(x, ts, pr)
    BY <1>1, <1>4, <1>5 DEF Base, OneWay, Quiet
  <2> QED BY <2>1, <2>2, <2>3 DEF Base
<1>7. Counted(x, 0)
  <2>1. RemoteOf(x) = RemoteOf(st)
    BY <1>4 DEF RemoteOf
  <2>2. Number(Live(x)) = Number(Live(st))
    BY <1>4 DEF Number
  <2> QED BY <1>1, <1>4, <2>1, <2>2 DEF Counted
<1>8. Items(x, ts, pr, 0, FALSE)
  BY <1>1, <1>4, <1>5 DEF Items
<1>9. Target(x, ts, pr)
  BY <1>1, <1>4, <1>5 DEF Target, Arrived
<1>10. ASSUME NEW s \in Streams, Head(st.once) = <<"done", s>>
       PROVE  Settled(x, ts, pr, s) /\ Telling(st, s)
  <2>1. Head(st.once) \in DoneOf(s)
    BY <1>10 DEF DoneOf
  <2>2. Telling(st, s) /\ ~Telling(x, s) /\ s \in DOMAIN st.files
    BY <1>1, <1>2, <1>3, <1>5, <2>1 DEF Base, OnePlace, Telling
  <2>3. Nowhere(x, ts, pr, s)
    BY <1>1, <1>4, <1>5, <2>2 DEF Base, OnePlace, Nowhere
  <2> QED BY <1>4, <2>2, <2>3 DEF Settled
<1> QED BY <1>2, <1>3, <1>6, <1>7, <1>8, <1>9, <1>10 DEF Sound, x

\* What an action makes of the state.
LEMMA Becomes ==
  ASSUME NEW st, st \in States(st.book), Become(st)
  PROVE  State' = st /\ instance' = instance
BY DEF Become, State, States

LEMMA StateIs ==
  /\ State.c = c /\ State.files = files /\ State.once = once /\ State.item = item
  /\ State.toClient = toClient /\ State.pane = pane /\ State.book = book
BY DEF State

LEMMA Preserves ==
  ASSUME NEW st, NEW ts, NEW pr, Calm, instance' = instance, State' = st, toServer' = ts, proc' = pr,
         Sound(st, ts, pr, 0, 0, FALSE), "FREED" \in st.c.flags => st.c.refs = 0,
         commands' \in Nat
  PROVE  FInv'
<1>1. Calm' /\ Uses' = Uses
  BY DEF Calm, Uses
<1>2. Items(State, toServer, proc, 0, FALSE)'
  <2>1. Items(State', toServer', proc', 0, FALSE)
    BY DEF Sound
  <2> QED BY <1>1, <2>1 DEF Items
<1>3. (Base(State, toServer, proc) /\ Counted(State, 0) /\ Target(State, toServer, proc))'
  BY DEF Sound
<1>4. ("FREED" \in c.flags => c.refs = 0)'
  BY DEF State
<1> QED BY <1>1, <1>2, <1>3, <1>4 DEF FInv, Sound

\* When the client has been freed there is nothing left of it.
LEMMA FreedIs ==
  ASSUME NEW st, NEW ts, NEW pr, Sound(st, ts, pr, 0, 0, FALSE), st.c.refs = 0
  PROVE  ~Live(st) /\ DOMAIN st.files = {} /\ st.item = NoItem
<1>1. /\ st \in States(st.book) /\ Typed(st, ts, pr) /\ Counted(st, 0) /\ Items(st, ts, pr, 0, FALSE)
      /\ DOMAIN st.files \subseteq Streams
  BY Facts
<1>2. /\ IsFiniteSet(RemoteOf(st)) /\ Cardinality(RemoteOf(st)) \in Nat
      /\ Number(Live(st)) \in Nat /\ Share(st.item) \in Nat
  BY <1>1, RemotesAre
<1>3. Number(Live(st)) = 0 /\ Cardinality(RemoteOf(st)) = 0 /\ Share(st.item) = 0
  BY <1>1, <1>2 DEF Counted
<1>4. ~Live(st)
  BY <1>3 DEF Number
<1>5. RemoteOf(st) = {}
  BY <1>2, <1>3, FS_EmptySet
<1>6. st.item = NoItem
  BY <1>3 DEF Share, Number
<1>7. DOMAIN st.files = {}
  <2>1. SUFFICES ASSUME NEW s \in DOMAIN st.files PROVE FALSE
    OBVIOUS
  <2>2. s > 2 \/ s <= 2
    BY <1>1 DEF Streams
  <2>3. s > 2 => s \in DOMAIN st.files \ {0}
    OBVIOUS
  <2>4. s <= 2 => s \in RemoteOf(st)
    BY <1>1 DEF Counted, RemoteOf
  <2> QED BY <1>1, <1>5, <1>6, <2>2, <2>3, <2>4 DEF Items
<1> QED BY <1>4, <1>6, <1>7

LEMMA FireSound == FInv /\ Fire => FInv'
<1> SUFFICES ASSUME FInv, Fire PROVE FInv'
  OBVIOUS
<1> DEFINE st == WithOnce(State, Tail(once))
           kind == Head(once)[1]
           s == Head(once)[2]
<1>1. /\ Calm /\ Sound(State, toServer, proc, 0, 0, FALSE) /\ ("FREED" \in c.flags => c.refs = 0)
      /\ once # <<>> /\ UNCHANGED <<toServer, proc, commands>> /\ commands \in Nat
  BY DEF FInv, Fire
<1>2. /\ Sound(st, toServer, proc, 0, 0, FALSE) /\ SameBut(State, st, {"once"}) /\ Head(once) \in Told
      /\ \A t \in Streams : Head(once) = <<"done", t>> => Settled(st, toServer, proc, t) /\ Telling(State, t)
  BY <1>1, StateIs, EventSound
<1>3. \/ /\ kind = "done" /\ s \in DOMAIN files
         /\ Become(FreeFile(IF files[s].closed \/ ~files[s].remote \/ "DEAD" \notin c.flags
                            THEN Callback(st, s, TRUE) ELSE st, s))
      \/ /\ kind = "free"
         /\ Become(IF c.refs = 0 THEN [st EXCEPT !.c.flags = @ \cup {"FREED"}] ELSE st)
  <2>1. st = [State EXCEPT !.once = Tail(@)]
    BY DEF WithOnce, State
  <2> HIDE DEF st
  <2> QED BY <2>1 DEF Fire
<1> HIDE DEF st
<1>4. /\ st.c = c /\ st.files = files /\ st.item = item /\ st.pane = pane /\ st \in States(st.book)
      /\ Live(st) <=> "DEAD" \notin c.flags
  BY <1>2, StateIs DEF SameBut, Live
<1>5. CASE kind = "done" /\ s \in DOMAIN files
  <2> DEFINE w == IF files[s].closed \/ ~files[s].remote \/ "DEAD" \notin c.flags
                  THEN Callback(st, s, TRUE) ELSE st
             x == FreeFile(w, s)
  <2>1. s \in Streams /\ Head(once) = <<"done", s>>
    BY <1>2, <1>5 DEF Told
  <2>2. Settled(st, toServer, proc, s) /\ Telling(State, s)
    BY <1>2, <2>1
  <2>3. Become(x)
    BY <1>3, <1>5
  <2>4. "FREED" \notin c.flags
    BY <1>1, <1>5, StateIs, FreedIs
  <2>5. Sound(w, toServer, proc, 0, s, FALSE) /\ Settled(w, toServer, proc, s) /\ Kept(st, w)
    <3>1. CASE files[s].closed \/ ~files[s].remote \/ "DEAD" \notin c.flags
      <4>1. w = Callback(st, s, TRUE)
        BY <3>1
      <4> HIDE DEF w
      <4>2. st.item # NoItem /\ st.item.target /\ st.item.stream = s =>
              st.files[s].error = "ok" /\ st.files[s].buffer # <<>>
        BY <1>1, <1>4, <1>5, <2>2, <3>1, StateIs DEF Sound, Target, Live
      <4> QED BY <1>2, <2>1, <2>2, <4>1, <4>2, CallbackSound
    <3>2. CASE ~(files[s].closed \/ ~files[s].remote \/ "DEAD" \notin c.flags)
      <4>1. w = st
        BY <3>2
      <4> HIDE DEF w
      <4>2. ~Live(st) /\ 0 \in Int
        BY <1>4, <3>2
      <4> QED BY <1>2, <2>2, <4>1, <4>2, Forgotten DEF Kept
    <3> QED BY <3>1, <3>2
  <2> HIDE DEF w
  <2>6. Sound(x, toServer, proc, 0, 0, FALSE) /\ x.c.flags = w.c.flags
    <3>1. 0 \in Int
      OBVIOUS
    <3> QED BY <2>5, <3>1, FreeFileSound
  <2> HIDE DEF x
  <2>7. "FREED" \notin x.c.flags
    BY <1>4, <2>4, <2>5, <2>6 DEF Kept
  <2>8. State' = x /\ instance' = instance
    BY <2>3, <2>6, Facts, Becomes
  <2> QED BY <1>1, <2>6, <2>7, <2>8, Preserves
<1>6. CASE kind = "free"
  <2> DEFINE x == IF c.refs = 0 THEN [st EXCEPT !.c.flags = @ \cup {"FREED"}] ELSE st
  <2>1. Become(x)
    BY <1>3, <1>6
  <2>2. Sound(x, toServer, proc, 0, 0, FALSE) /\ ("FREED" \in x.c.flags => x.c.refs = 0)
    <3>1. CASE c.refs = 0
      <4>1. x = [st EXCEPT !.c.flags = @ \cup {"FREED"}]
        BY <3>1
      <4> HIDE DEF x
      <4>2. 0 \in Int /\ "FREED" \in {"EXIT", "EXITED", "FREED"}
        OBVIOUS
      <4>3. Sound(x, toServer, proc, 0, 0, FALSE) /\ x.c.refs = st.c.refs
        BY <1>2, <4>1, <4>2, FlagSound
      <4> QED BY <1>4, <3>1, <4>3
    <3>2. CASE c.refs # 0
      <4>1. x = st
        BY <3>2
      <4> QED BY <1>1, <1>2, <1>4, <4>1
    <3> QED BY <3>1, <3>2
  <2> HIDE DEF x
  <2>3. State' = x /\ instance' = instance
    BY <2>1, <2>2, Facts, Becomes
  <2> QED BY <1>1, <2>2, <2>3, Preserves
<1> QED BY <1>3, <1>5, <1>6

-----------------------------------------------------------------------------
(***************************************************************************)
(* Commands.                                                               *)
(***************************************************************************)
\* A command has become the head of the queue, with a reference to the
\* client, and one more for the target client.
Begins(st, x, i) ==
  /\ x \in States(x.book) /\ x.files = st.files /\ x.once = st.once /\ x.toClient = st.toClient
  /\ x.pane = st.pane
  /\ x.c.flags = st.c.flags /\ x.c.next = st.c.next /\ x.c.refs = st.c.refs + 1 + Number(i.target)
  /\ x.item = i /\ i \in ItemRecord /\ i.waiting /\ i.stream = st.c.next /\ ~i.holds /\ ~i.file

LEMMA BeginsBase ==
  ASSUME NEW st, NEW ts, NEW pr, Sound(st, ts, pr, 0, 0, FALSE), st.item = NoItem, NEW x, NEW i,
         Begins(st, x, i)
  PROVE  /\ Base(x, ts, pr) /\ Counted(x, 0) /\ (Live(x) <=> Live(st)) /\ x.item # NoItem
         /\ \A s \in DOMAIN x.files : s <= 2
         /\ x.c.next > 2 /\ (Live(x) => ~Writes(x, ts, pr, x.c.next))
         /\ x.c.next \in Streams /\ x.c.next \notin DOMAIN x.files /\ Nowhere(x, ts, pr, x.c.next)
<1>1. /\ st \in States(st.book) /\ Base(st, ts, pr) /\ Typed(st, ts, pr) /\ Counted(st, 0)
      /\ Items(st, ts, pr, 0, FALSE) /\ st.once \in Seq(Told) /\ st.c.refs \in Int /\ 0 \in Int
      /\ DOMAIN st.files \subseteq Streams
  BY Facts
<1>2. (Live(x) <=> Live(st)) /\ x.item # NoItem
  BY NoItemIs DEF Begins, Live
<1>3. Base(x, ts, pr)
  <2>1. Tells(st.once, {}, x.once)
    BY <1>1, TellsFree DEF Begins
  <2> QED BY <1>1, <1>2, <2>1, Silent DEF Begins
<1>4. Counted(x, 0)
  <2>1. Counted(x, 0 + (x.c.refs - st.c.refs) - (Share(x.item) - Share(st.item)))
    BY <1>1, <1>2, <1>3, CountedSame DEF Begins, Base
  <2>2. Share(st.item) = 0 /\ Share(x.item) = 1 + Number(i.target)
    BY <1>2 DEF Share, Begins, Number
  <2>3. x.c.refs - st.c.refs = 1 + Number(i.target) /\ Number(i.target) \in Int
    BY <1>1 DEF Begins, Number
  <2>4. 0 + (x.c.refs - st.c.refs) - (Share(x.item) - Share(st.item)) = 0
    BY <2>2, <2>3
  <2> QED BY <2>1, <2>4
<1>5. \A s \in DOMAIN x.files : s <= 2
  <2>1. \A s \in DOMAIN st.files \ {0} : ~(s > 2)
    BY <1>1 DEF Items
  <2> QED BY <1>1, <2>1 DEF Begins, Streams
<1>6. /\ x.c.next > 2 /\ (Live(x) => ~Writes(x, ts, pr, x.c.next))
      /\ x.c.next \in Streams /\ x.c.next \notin DOMAIN x.files /\ Nowhere(x, ts, pr, x.c.next)
  BY <1>3, Fresh
<1> QED BY <1>2, <1>3, <1>4, <1>5, <1>6

LEMMA BeginsSound ==
  ASSUME NEW st, NEW ts, NEW pr, Sound(st, ts, pr, 0, 0, FALSE), st.item = NoItem, NEW x, NEW i,
         Begins(st, x, i),
         i.kind # "input", i.target => i.kind = "load" /\ "target" \in Uses
  PROVE  Sound(x, ts, pr, 0, 0, TRUE) /\ 0 # x.c.next
<1>1. /\ Base(x, ts, pr) /\ Counted(x, 0) /\ (Live(x) <=> Live(st)) /\ x.item # NoItem
      /\ \A s \in DOMAIN x.files : s <= 2
      /\ x.c.next > 2 /\ (Live(x) => ~Writes(x, ts, pr, x.c.next))
      /\ x.c.next \in Streams /\ x.c.next \notin DOMAIN x.files
  BY BeginsBase
<1>2. x.item = i /\ i.waiting /\ i.stream = x.c.next /\ ~i.holds
  BY DEF Begins
<1>3. Items(x, ts, pr, 0, TRUE)
  <2>1. \A s \in DOMAIN x.files \ {0} : ~(s > 2)
    <3>1. DOMAIN x.files \subseteq Streams
      BY <1>1, TableIs DEF Base, Typed
    <3> QED BY <1>1, <3>1 DEF Streams
  <2> QED BY <1>1, <1>2, <2>1 DEF Items
<1>4. Target(x, ts, pr)
  BY <1>1, <1>2 DEF Target
<1> QED BY <1>1, <1>3, <1>4 DEF Sound, Streams

\* The item of a command.
Fields(kind, target, next) ==
  [kind |-> kind, waiting |-> TRUE, stream |-> next, left |-> 0,
   target |-> target, file |-> FALSE, holds |-> FALSE, got |-> <<>>]
LEMMA FieldsAre ==
  ASSUME NEW kind \in {"load", "save", "source", "input"}, NEW next \in Streams
  PROVE  LET i == Fields(kind, FALSE, next)
             j == Fields(kind, TRUE, next)
         IN /\ i \in ItemRecord /\ i.kind = kind /\ i.waiting /\ i.stream = next
            /\ ~i.target /\ ~i.file /\ ~i.holds
            /\ j \in ItemRecord /\ j.kind = kind /\ j.waiting /\ j.stream = next
            /\ j.target /\ ~j.file /\ ~j.holds
BY DEF Fields, ItemRecord

LEMMA ItemBegins ==
  ASSUME FInv, NEW kind \in {"load", "save", "source", "input"}
  PROVE  Begins(State, Item(kind, FALSE), Fields(kind, FALSE, c.next))
<1>1. State \in States(State.book) /\ State.c \in ClientRecord /\ State.c.refs \in Int
  BY Facts DEF FInv
<1>2. c.next \in Streams
  BY <1>1, StateIs DEF ClientRecord
<1> DEFINE i == Fields(kind, FALSE, c.next)
           st == [State EXCEPT !.item = i]
<1>3. Item(kind, FALSE) = Ref(st)
  BY DEF Item, Fields
<1>4. /\ i \in ItemRecord /\ i.kind = kind /\ i.waiting /\ i.stream = c.next
      /\ ~i.target /\ ~i.file /\ ~i.holds
  <2>1. "load" \in {"load", "save", "source", "input"}
    OBVIOUS
  <2> QED BY <1>2, <2>1, FieldsAre DEF Fields
<1> HIDE DEF i
<1>5. SameBut(State, st, {"item"}) /\ st.item = i
  BY <1>1, <1>4 DEF States, SameBut
<1> HIDE DEF st
<1>6. st \in States(st.book)
  BY <1>5 DEF SameBut
<1> DEFINE x == Ref(st)
<1>7. /\ x \in States(x.book) /\ x.files = st.files /\ x.item = st.item /\ x.toClient = st.toClient
      /\ x.pane = st.pane /\ x.c.refs = st.c.refs + 1 /\ x.c.flags = st.c.flags
      /\ x.c.next = st.c.next
      /\ x.once = st.once /\ x.book = st.book
  BY <1>6, RefIs
<1> HIDE DEF x
<1>8. x.c.refs = State.c.refs + 1 + Number(i.target)
  BY <1>1, <1>4, <1>5, <1>7 DEF SameBut, Number
<1>9. Begins(State, x, i)
  BY <1>4, <1>5, <1>7, <1>8, StateIs DEF Begins, SameBut
<1> QED BY <1>3, <1>9 DEF x, i

LEMMA TargetBegins ==
  ASSUME FInv
  PROVE  Begins(State, Ref(Item("load", TRUE)), Fields("load", TRUE, c.next))
<1>1. State \in States(State.book) /\ State.c \in ClientRecord /\ State.c.refs \in Int
  BY Facts DEF FInv
<1>2. c.next \in Streams
  BY <1>1, StateIs DEF ClientRecord
<1> DEFINE i == Fields("load", TRUE, c.next)
           st == [State EXCEPT !.item = i]
           x == Ref(st)
           y == Ref(x)
<1>3. Item("load", TRUE) = x
  BY DEF Item, Fields
<1>4. /\ i \in ItemRecord /\ i.waiting /\ i.stream = c.next /\ i.target /\ ~i.file /\ ~i.holds
  <2>1. "load" \in {"load", "save", "source", "input"}
    OBVIOUS
  <2> QED BY <1>2, <2>1, FieldsAre
<1> HIDE DEF i
<1>5. SameBut(State, st, {"item"}) /\ st.item = i
  BY <1>1, <1>4 DEF States, SameBut
<1> HIDE DEF st
<1>6. st \in States(st.book)
  BY <1>5 DEF SameBut
<1>7. /\ x \in States(x.book) /\ x.files = st.files /\ x.item = st.item /\ x.toClient = st.toClient
      /\ x.pane = st.pane /\ x.c.refs = st.c.refs + 1 /\ x.c.flags = st.c.flags
      /\ x.c.next = st.c.next
      /\ x.once = st.once /\ x.book = st.book
  BY <1>6, RefIs
<1> HIDE DEF x
<1>8. /\ y \in States(y.book) /\ y.files = x.files /\ y.item = x.item /\ y.toClient = x.toClient
      /\ y.pane = x.pane /\ y.c.refs = x.c.refs + 1 /\ y.c.flags = x.c.flags /\ y.c.next = x.c.next
      /\ y.once = x.once /\ y.book = x.book
  BY <1>7, RefIs
<1> HIDE DEF y
<1>9. y.c.refs = State.c.refs + 1 + Number(i.target)
  BY <1>1, <1>4, <1>5, <1>7, <1>8 DEF SameBut, Number
<1>10. Begins(State, y, i)
  BY <1>4, <1>5, <1>7, <1>8, <1>9, StateIs DEF Begins, SameBut
<1> QED BY <1>3, <1>10 DEF y, i

LEMMA MayRunIs ==
  ASSUME FInv, MayRun, Begun
  PROVE  /\ Calm /\ Sound(State, toServer, proc, 0, 0, FALSE) /\ State.item = NoItem /\ Live(State)
         /\ "FREED" \notin c.flags /\ commands' \in Nat /\ toServer' = toServer /\ proc' = proc
<1>1. Live(State)
  BY StateIs DEF MayRun, Live
<1>2. "FREED" \notin c.flags
  BY <1>1, StateIs, FreedIs DEF FInv
<1>3. Calm /\ Sound(State, toServer, proc, 0, 0, FALSE) /\ commands \in Nat
  BY DEF FInv
<1>4. State.item = NoItem
  BY StateIs DEF MayRun
<1>5. commands' \in Nat /\ toServer' = toServer /\ proc' = proc
  BY <1>3 DEF Begun
<1> QED BY <1>1, <1>2, <1>3, <1>4, <1>5

\* A file that a command opens as it begins.
LEMMA OpensFor ==
  ASSUME FInv, MayRun, Begun, NEW x, Sound(x, toServer, proc, 0, 0, FALSE), x.c.flags = c.flags,
         Become(x)
  PROVE  FInv'
<1>1. x \in States(x.book)
  BY Facts
<1>2. State' = x /\ instance' = instance
  BY <1>1, Becomes
<1> QED BY <1>2, MayRunIs, Preserves

LEMMA LoadBufferSound ==
  ASSUME FInv, NEW path \in Where, NEW fails, MayFail(fails), NEW target \in BOOLEAN,
         LoadBuffer(path, fails, target)
  PROVE  FInv'
<1>1. MayRun /\ Begun /\ (target => "target" \in Uses)
  BY DEF LoadBuffer
<1>2. /\ Calm /\ Sound(State, toServer, proc, 0, 0, FALSE) /\ State.item = NoItem
  BY <1>1, MayRunIs
<1>3. path \in {"path", "-"} /\ path \in Uses /\ (fails => "fails" \in Uses) /\ 0 \in Int
  BY DEF Where, MayFail
<1>4. CASE target
  <2> DEFINE y == Ref(Item("load", TRUE))
             i == Fields("load", TRUE, c.next)
             x == FileRead(y, path, fails)
  <2>1. Become(x)
    BY <1>4 DEF LoadBuffer
  <2>2. Begins(State, y, i) /\ i.kind = "load"
    BY TargetBegins DEF Fields
  <2>3. ~fails /\ path # "-" /\ Content # <<>>
    BY <1>1, <1>2, <1>3, <1>4 DEF Calm
  <2> HIDE DEF y, i
  <2>4. Sound(y, toServer, proc, 0, 0, TRUE) /\ 0 # y.c.next /\ y.c.flags = c.flags
    BY <1>1, <1>2, <1>4, <2>2, StateIs, BeginsSound DEF Begins
  <2>5. Sound(x, toServer, proc, 0, 0, FALSE) /\ Apart(y, x, {y.c.next})
    BY <1>3, <2>3, <2>4, FileReadSound
  <2> HIDE DEF x
  <2>6. x.c.flags = c.flags
    BY <2>4, <2>5 DEF Apart
  <2> QED BY <1>1, <2>1, <2>5, <2>6, OpensFor
<1>6. ~target => target = FALSE
  OBVIOUS
<1>5. CASE ~target
  <2> DEFINE y == Item("load", FALSE)
             i == Fields("load", FALSE, c.next)
             x == FileRead(y, path, fails)
  <2>1. Become(x)
    BY <1>5, <1>6 DEF LoadBuffer
  <2>2. Begins(State, y, i) /\ i.kind = "load" /\ ~i.target
    BY ItemBegins DEF Fields
  <2> HIDE DEF y
  <2>3. ~y.item.target
    BY <2>2 DEF Begins
  <2> HIDE DEF i
  <2>4. Sound(y, toServer, proc, 0, 0, TRUE) /\ 0 # y.c.next /\ y.c.flags = c.flags
    BY <1>2, <2>2, StateIs, BeginsSound DEF Begins
  <2>5. Sound(x, toServer, proc, 0, 0, FALSE) /\ Apart(y, x, {y.c.next})
    BY <1>3, <2>3, <2>4, FileReadSound
  <2> HIDE DEF x
  <2>6. x.c.flags = c.flags
    BY <2>4, <2>5 DEF Apart
  <2> QED BY <1>1, <2>1, <2>5, <2>6, OpensFor
<1> QED BY <1>4, <1>5

LEMMA SaveBufferSound ==
  ASSUME FInv, NEW path \in Where, NEW fails, SaveBuffer(path, fails)
  PROVE  FInv'
<1> DEFINE y == Item("save", FALSE)
           i == Fields("save", FALSE, c.next)
           data == <<commands, commands>>
           x == FileWrite(y, path, data, fails)
<1>1. MayRun /\ Begun /\ Become(x)
  BY DEF SaveBuffer
<1>2. Sound(State, toServer, proc, 0, 0, FALSE) /\ State.item = NoItem /\ commands \in Nat
  BY <1>1, MayRunIs DEF FInv
<1>3. path \in {"path", "-"} /\ 0 \in Int
  BY DEF Where
<1>4. data \in Seq(Pieces)
  BY <1>2 DEF Pieces
<1>5. Begins(State, y, i) /\ i.kind = "save" /\ ~i.target
  BY ItemBegins DEF Fields
<1> HIDE DEF y, data
<1>6. ~y.item.target /\ y.item.kind = "save"
  BY <1>5 DEF Begins
<1> HIDE DEF i
<1>7. Sound(y, toServer, proc, 0, 0, TRUE) /\ 0 # y.c.next /\ y.c.flags = c.flags
  BY <1>2, <1>5, StateIs, BeginsSound DEF Begins
<1>8. Sound(x, toServer, proc, 0, 0, FALSE) /\ Apart(y, x, {y.c.next})
  BY <1>3, <1>4, <1>6, <1>7, FileWriteSound
<1> HIDE DEF x
<1>9. x.c.flags = c.flags
  BY <1>7, <1>8 DEF Apart
<1> QED BY <1>1, <1>8, <1>9, OpensFor

LEMMA SourceFileSound ==
  ASSUME FInv, NEW path \in Where, NEW fails, SourceFile(path, fails)
  PROVE  FInv'
<1> DEFINE w == Item("source", FALSE)
           y == [w EXCEPT !.item.left = 1]
           h == Fields("source", FALSE, c.next)
           i == [h EXCEPT !.left = 1]
           x == FileRead(y, path, fails)
<1>1. MayRun /\ Begun /\ Become(x)
  BY DEF SourceFile
<1>2. Sound(State, toServer, proc, 0, 0, FALSE) /\ State.item = NoItem
  BY <1>1, MayRunIs
<1>3. path \in {"path", "-"} /\ 0 \in Int
  BY DEF Where
<1>4. Begins(State, w, h) /\ h.kind = "source" /\ ~h.target
  BY ItemBegins DEF Fields
<1> HIDE DEF w, h
<1>5. /\ i \in ItemRecord /\ i.kind = h.kind /\ i.target = h.target /\ i.waiting = h.waiting
      /\ i.stream = h.stream
      /\ i.holds = h.holds /\ i.file = h.file
  <2>1. h \in ItemRecord
    BY <1>4 DEF Begins
  <2> QED BY <2>1 DEF ItemRecord
<1>6. SameBut(w, y, {"item"}) /\ y.item = i
  BY <1>4, <1>5 DEF Begins, States, SameBut
<1> HIDE DEF y, i
<1>7. Begins(State, y, i) /\ i.kind = "source" /\ ~i.target /\ ~y.item.target
  BY <1>4, <1>5, <1>6 DEF Begins, SameBut
<1>8. Sound(y, toServer, proc, 0, 0, TRUE) /\ 0 # y.c.next /\ y.c.flags = c.flags
  BY <1>2, <1>7, StateIs, BeginsSound DEF Begins
<1>9. Sound(x, toServer, proc, 0, 0, FALSE) /\ Apart(y, x, {y.c.next})
  BY <1>3, <1>7, <1>8, FileReadSound
<1> HIDE DEF x
<1>10. x.c.flags = c.flags
  BY <1>8, <1>9 DEF Apart
<1> QED BY <1>1, <1>9, <1>10, OpensFor

\* window_pane_start_input: the data of the command has the file, unless that
\* has failed at once, and a reference to the client.
LEMMA InputBegins ==
  ASSUME NEW x, NEW ts, NEW pr, Base(x, ts, pr), Counted(x, 0), x.item # NoItem,
         x.item.kind = "input",
         x.item.waiting, ~x.item.target, ~x.item.holds, NEW s \in DOMAIN x.files, x.item.stream = s,
         s > 2,
         \A t \in DOMAIN x.files : t = s \/ t <= 2,
         Live(x) => ~Writes(x, ts, pr, s),
         NEW z, SameBut(x, z, {"item", "c"}), z.c.refs = x.c.refs + 1, z.c.flags = x.c.flags,
         z.c.next = x.c.next,
         z.item \in ItemRecord, z.item.kind = x.item.kind, z.item.waiting, z.item.stream = s,
         ~z.item.target,
         z.item.holds, ~z.item.file => x.files[s].error # "ok" /\ Nowhere(x, ts, pr, s)
  PROVE  Sound(z, ts, pr, 0, 0, FALSE)
<1>1. /\ z \in States(z.book) /\ z.files = x.files /\ z.once = x.once /\ z.toClient = x.toClient
      /\ z.pane = x.pane
      /\ (Live(z) <=> Live(x)) /\ z.item # NoItem
  BY NoItemIs DEF SameBut, Live
<1>2. /\ Typed(x, ts, pr) /\ x \in States(x.book) /\ x.once \in Seq(Told)
      /\ DOMAIN x.files \subseteq Streams
  BY TableIs DEF Base, Typed, States
<1>3. Base(z, ts, pr)
  <2>1. Tells(x.once, {}, z.once)
    BY <1>1, <1>2, TellsFree
  <2> QED BY <1>1, <2>1, Silent
<1>4. Counted(z, 0)
  <2>1. Counted(z, 0 + (z.c.refs - x.c.refs) - (Share(z.item) - Share(x.item)))
    <3>1. 0 \in Int
      OBVIOUS
    <3> QED BY <1>1, <1>2, <1>3, <3>1, CountedSame DEF Base
  <2>2. Share(z.item) = 2 /\ Share(x.item) = 1
    BY <1>1 DEF Share, Number
  <2>3. z.c.refs - x.c.refs = 1
    BY <1>2, RemotesAre
  <2> QED BY <2>1, <2>2, <2>3
<1>5. Items(z, ts, pr, 0, FALSE)
  <2>1. \A t : /\ Writes(z, ts, pr, t) <=> Writes(x, ts, pr, t)
               /\ Nowhere(z, ts, pr, t) <=> Nowhere(x, ts, pr, t)
    BY <1>1 DEF Writes, Nowhere, Opening, Live
  <2>2. \A t \in DOMAIN x.files \ {0} : t > 2 => t = s
    BY <1>2 DEF Streams
  <2>3. s \in DOMAIN x.files \ {0}
    BY <1>2 DEF Streams
  <2> QED BY <1>1, <2>1, <2>2, <2>3 DEF Items
<1>6. Target(z, ts, pr)
  BY DEF Target
<1> QED BY <1>3, <1>4, <1>5, <1>6 DEF Sound

LEMMA StartInputSound == FInv /\ StartInput => FInv'
<1> SUFFICES ASSUME FInv, StartInput PROVE FInv'
  OBVIOUS
<1> DEFINE y == Item("input", FALSE)
           i == Fields("input", FALSE, c.next)
           s == c.next
           x == FileRead(y, "-", FALSE)
           g == [x EXCEPT !.item.file = x.once = once, !.item.holds = TRUE]
           z == Ref(g)
<1>1. MayRun /\ Begun /\ Become(z)
  BY DEF StartInput
<1>2. Sound(State, toServer, proc, 0, 0, FALSE) /\ State.item = NoItem /\ Live(State)
  BY <1>1, MayRunIs
<1>3. Begins(State, y, i) /\ i.kind = "input" /\ ~i.target /\ "-" \in {"path", "-"} /\ 0 \in Int
  <2>1. "input" \in {"load", "save", "source", "input"}
    OBVIOUS
  <2>2. Begins(State, y, i)
    BY <2>1, ItemBegins
  <2> HIDE DEF y
  <2> QED BY <2>2 DEF Fields
<1> HIDE DEF y, i
<1>4. /\ Base(y, toServer, proc) /\ Counted(y, 0) /\ (Live(y) <=> Live(State)) /\ y.item # NoItem
      /\ \A t \in DOMAIN y.files : t <= 2
      /\ y.c.next > 2 /\ (Live(y) => ~Writes(y, toServer, proc, y.c.next))
      /\ y.c.next \in Streams /\ y.c.next \notin DOMAIN y.files
      /\ Nowhere(y, toServer, proc, y.c.next)
  BY <1>2, <1>3, BeginsBase
<1>5. /\ y.c.next = s /\ y.item = i /\ i.waiting /\ i.stream = s /\ i.kind = "input" /\ ~i.target
      /\ ~i.holds /\ i \in ItemRecord
      /\ y.once = once /\ y.c.flags = c.flags /\ y \in States(y.book)
  BY <1>3, StateIs DEF Begins
<1> HIDE DEF s
<1>6. \/ AfterOpen(y, x, "-", FALSE, "ok", <<>>, {s}, {s}, {}, {s})
      \/ AfterOpen(y, x, "-", FALSE, "ok", Content, {}, {}, {}, {})
      \/ \E error, buffer : error \in Errors \ {"ok"} /\ AfterOpen(y, x, "-", FALSE, error, buffer, {}, {}, {}, {})
  <2> DEFINE I == IF "-" = "-" THEN {s} ELSE {}
  <2>1. I = {s}
    OBVIOUS
  <2> HIDE DEF I
  <2>2. \/ AfterOpen(y, x, "-", FALSE, "ok", <<>>, {s}, {s}, {}, I)
        \/ AfterOpen(y, x, "-", FALSE, "ok", Content, {}, {}, {}, {})
        \/ \E error, buffer : error \in Errors \ {"ok"} /\ AfterOpen(y, x, "-", FALSE, error, buffer, {}, {}, {}, {})
    BY <1>3, <1>4, <1>5, FileReadIs DEF I
  <2> QED BY <2>1, <2>2
<1> HIDE DEF x
<1>7. ASSUME NEW fails, NEW error, NEW buffer, NEW O, NEW R, NEW I, OfStream(s, O, R, {}, I),
             AfterOpen(y, x, "-", fails, error, buffer, O, R, {}, I)
      PROVE  /\ Base(x, toServer, proc) /\ Counted(x, 0) /\ x.item = i /\ x.c.flags = c.flags
             /\ DOMAIN x.files = DOMAIN y.files \cup {s}
             /\ x.once # once => x.files[s].error # "ok" /\ Nowhere(x, toServer, proc, s)
             /\ Live(x) => ~Writes(x, toServer, proc, s)
  <2>1. Base(x, toServer, proc) /\ Counted(x, 0) /\ Apart(y, x, {s})
    <3> DEFINE W == {}
    <3>1. OfStream(y.c.next, O, R, W, I) /\ AfterOpen(y, x, "-", fails, error, buffer, O, R, W, I)
      BY <1>5, <1>7
    <3> HIDE DEF W
    <3>2. Base(x, toServer, proc) /\ Counted(x, 0) /\ Apart(y, x, {y.c.next})
      BY <1>3, <1>4, <3>1, OpenedBase
    <3> QED BY <1>5, <3>2
  <2>2. x.item = i /\ x.c.flags = c.flags /\ (Live(x) <=> Live(y))
    BY <1>5, <2>1 DEF Apart, Live
  <2>3. DOMAIN x.files = DOMAIN y.files \cup {s} /\ (x.once # once => x.files[s].error # "ok" /\ O = {})
    BY <1>5, <1>7 DEF AfterOpen, NewFile
  <2>5. x.once # once => Nowhere(x, toServer, proc, s)
    BY <1>4, <1>5, <1>7, <2>2, <2>3 DEF AfterOpen, SendsIf, Sends, SomeTo, Nowhere, Opening
  <2>4. Live(x) => ~Writes(x, toServer, proc, s)
    BY <1>4, <1>5, <1>7, <2>2 DEF AfterOpen, SendsIf, Sends, SomeTo, Writes
  <2> QED BY <2>1, <2>2, <2>3, <2>4, <2>5
<1>8. /\ Base(x, toServer, proc) /\ Counted(x, 0) /\ x.item = i /\ x.c.flags = c.flags
      /\ DOMAIN x.files = DOMAIN y.files \cup {s}
      /\ x.once # once => x.files[s].error # "ok" /\ Nowhere(x, toServer, proc, s)
      /\ Live(x) => ~Writes(x, toServer, proc, s)
  BY <1>6, <1>7, OfStreams
<1>9. /\ SameBut(x, g, {"item"}) /\ g.item \in ItemRecord /\ g.item.kind = i.kind /\ g.item.waiting
      /\ g.item.stream = s /\ ~g.item.target /\ g.item.holds /\ (g.item.file <=> x.once = once)
  <2>1. x \in States(x.book)
    BY <1>8 DEF Base, Typed
  <2>2. CASE x.once = once
    <3> DEFINE j == [x.item EXCEPT !.file = TRUE, !.holds = TRUE]
    <3>1. /\ j \in ItemRecord /\ j.kind = i.kind /\ j.waiting = i.waiting /\ j.stream = i.stream
          /\ j.target = i.target /\ j.holds = TRUE /\ j.file = TRUE
      BY <1>5, <1>8 DEF ItemRecord
    <3>2. SameBut(x, g, {"item"}) /\ g.item = j
      <4>1. g = [x EXCEPT !.item = j]
        BY <2>1, <2>2, <1>5, <1>8 DEF States, ItemRecord
      <4> QED BY <2>1, <3>1, <4>1 DEF States, SameBut
    <3> HIDE DEF j, g
    <3> QED BY <1>5, <2>2, <3>1, <3>2
  <2>3. CASE x.once # once
    <3> DEFINE j == [x.item EXCEPT !.file = FALSE, !.holds = TRUE]
    <3>1. /\ j \in ItemRecord /\ j.kind = i.kind /\ j.waiting = i.waiting /\ j.stream = i.stream
          /\ j.target = i.target /\ j.holds = TRUE /\ j.file = FALSE
      BY <1>5, <1>8 DEF ItemRecord
    <3>2. SameBut(x, g, {"item"}) /\ g.item = j
      <4>1. g = [x EXCEPT !.item = j]
        BY <2>1, <2>3, <1>5, <1>8 DEF States, ItemRecord
      <4> QED BY <2>1, <3>1, <4>1 DEF States, SameBut
    <3> HIDE DEF j, g
    <3> QED BY <1>5, <2>3, <3>1, <3>2
  <2> QED BY <2>2, <2>3
<1> HIDE DEF g
<1>10. /\ z \in States(z.book) /\ z.files = g.files /\ z.item = g.item /\ z.toClient = g.toClient
       /\ z.pane = g.pane /\ z.c.refs = g.c.refs + 1 /\ z.c.flags = g.c.flags /\ z.c.next = g.c.next
       /\ z.once = g.once /\ z.book = g.book
  BY <1>9, RefIs DEF SameBut
<1> HIDE DEF z
<1>11. /\ SameBut(x, z, {"item", "c"}) /\ z.c.refs = x.c.refs + 1 /\ z.c.flags = x.c.flags
       /\ z.c.next = x.c.next
  BY <1>9, <1>10 DEF SameBut
<1>12. \A t \in DOMAIN x.files : t = s \/ t <= 2
  BY <1>4, <1>8
<1>13. Sound(z, toServer, proc, 0, 0, FALSE)
  <2>1. s \in DOMAIN x.files /\ s > 2 /\ x.item # NoItem
    BY <1>4, <1>5, <1>8
  <2>2. /\ x.item.kind = "input" /\ x.item.waiting /\ ~x.item.target /\ ~x.item.holds
        /\ x.item.stream = s
        /\ z.item \in ItemRecord /\ z.item.kind = x.item.kind /\ z.item.waiting /\ z.item.stream = s
        /\ ~z.item.target /\ z.item.holds
        /\ (~z.item.file => x.files[s].error # "ok" /\ Nowhere(x, toServer, proc, s))
    BY <1>5, <1>8, <1>9, <1>10
  <2> QED BY <1>8, <1>11, <1>12, <2>1, <2>2, InputBegins
<1>14. z.c.flags = c.flags
  BY <1>8, <1>11
<1> QED BY <1>1, <1>13, <1>14, OpensFor

\* Actions while the client is there.
LEMMA LiveStep ==
  ASSUME FInv, "DEAD" \notin c.flags, commands' \in Nat, NEW x, NEW ts, NEW pr,
         Sound(x, ts, pr, 0, 0, FALSE),
         Kept(State, x), Become(x), toServer' = ts, proc' = pr
  PROVE  FInv'
<1>1. State' = x /\ instance' = instance
  BY Facts, Becomes
<1>2. Calm /\ Sound(State, toServer, proc, 0, 0, FALSE)
  BY DEF FInv
<1>3. "FREED" \notin c.flags
  BY <1>2, StateIs, FreedIs DEF FInv, Live
<1>4. "FREED" \notin x.c.flags
  BY <1>3, StateIs DEF Kept
<1> QED BY <1>1, <1>2, <1>4, Preserves

LEMMA PrintLinesSound ==
  ASSUME FInv, NEW twice, PrintLines(twice)
  PROVE  FInv'
<1> DEFINE data == <<commands>>
           y == Printed(State, 1, data)
           z == Printed(y, 1, data)
<1>1. MayRun /\ Begun /\ (Become(y) \/ Become(z))
  BY DEF PrintLines
<1>0. 0 \in Int /\ 1 \in 1..2
  OBVIOUS
<1>2. Sound(State, toServer, proc, 0, 0, FALSE) /\ commands \in Nat
  BY DEF FInv
<1>3. data \in Seq(Pieces)
  BY <1>2 DEF Pieces
<1> HIDE DEF data
<1>4. Sound(y, toServer, proc, 0, 0, FALSE) /\ Apart(State, y, {1})
  BY <1>0, <1>2, <1>3, PrintedSound
<1>5. y.c.flags = c.flags
  BY <1>4, StateIs DEF Apart
<1> HIDE DEF y
<1>6. Sound(z, toServer, proc, 0, 0, FALSE) /\ Apart(y, z, {1})
  BY <1>0, <1>2, <1>3, <1>4, PrintedSound
<1>7. z.c.flags = c.flags
  BY <1>5, <1>6 DEF Apart
<1> HIDE DEF z
<1> QED BY <1>1, <1>4, <1>5, <1>6, <1>7, OpensFor

LEMMA RetireSound == FInv /\ Retire => FInv'
<1> SUFFICES ASSUME FInv, Retire PROVE FInv'
  OBVIOUS
<1> DEFINE st == State
           w == [st EXCEPT !.item = NoItem]
           x == Unref(w)
<1>1. /\ Become(x) /\ toServer' = toServer /\ proc' = proc /\ "DEAD" \notin c.flags
      /\ item # NoItem /\ ~item.waiting
  BY DEF Retire
<1>2. commands' \in Nat /\ Sound(st, toServer, proc, 0, 0, FALSE)
  BY DEF FInv, Retire
<1>3. st.item # NoItem /\ ~st.item.waiting
  BY <1>1, StateIs
<1> HIDE DEF st
<1>4. /\ st \in States(st.book) /\ Base(st, toServer, proc) /\ Typed(st, toServer, proc)
      /\ Counted(st, 0)
      /\ Items(st, toServer, proc, 0, FALSE) /\ st.once \in Seq(Told) /\ st.c.refs \in Int
      /\ 0 \in Int
  BY <1>2, Facts
<1>5. SameBut(st, w, {"item"}) /\ w.item = NoItem
  BY <1>4 DEF States, SameBut
<1> HIDE DEF w
<1>6. /\ x \in States(x.book) /\ x.files = w.files /\ x.item = w.item /\ x.toClient = w.toClient
      /\ x.pane = w.pane /\ x.c.refs = w.c.refs - 1 /\ x.c.flags = w.c.flags /\ x.c.next = w.c.next
      /\ Tells(w.once, {}, x.once)
  BY <1>5, UnrefIs DEF SameBut
<1> HIDE DEF x
<1>7. /\ x.files = st.files /\ x.item = NoItem /\ x.toClient = st.toClient /\ x.pane = st.pane
      /\ x.c.refs = st.c.refs - 1 /\ x.c.flags = st.c.flags /\ x.c.next = st.c.next
      /\ Tells(st.once, {}, x.once)
      /\ (Live(x) <=> Live(st))
  BY <1>5, <1>6 DEF SameBut, Live
<1>8. Base(x, toServer, proc)
  BY <1>4, <1>6, <1>7, Silent
<1>9. Counted(x, 0)
  <2>1. Counted(x, 0 + (x.c.refs - st.c.refs) - (Share(x.item) - Share(st.item)))
    BY <1>4, <1>7, <1>8, CountedSame DEF Base
  <2>2. Share(x.item) = 0 /\ Share(st.item) = 1
    BY <1>3, <1>4, <1>7 DEF Share, Number, Items
  <2> QED BY <1>4, <1>7, <2>1, <2>2
<1>10. Items(x, toServer, proc, 0, FALSE) /\ Target(x, toServer, proc)
  BY <1>3, <1>4, <1>7 DEF Items, Target
<1>11. Sound(x, toServer, proc, 0, 0, FALSE) /\ Kept(st, x)
  BY <1>7, <1>8, <1>9, <1>10 DEF Sound, Kept
<1> QED BY <1>1, <1>2, <1>11, LiveStep DEF st

LEMMA CommandDoneSound == FInv /\ CommandDone => FInv'
<1> SUFFICES ASSUME FInv, CommandDone PROVE FInv'
  OBVIOUS
<1> DEFINE x == [State EXCEPT !.c.flags = @ \cup {"EXIT"}]
<1>1. Become(x) /\ toServer' = toServer /\ proc' = proc /\ "DEAD" \notin c.flags
  BY DEF CommandDone
<1>0. 0 \in Int /\ "EXIT" \in {"EXIT", "EXITED", "FREED"}
  OBVIOUS
<1>2. commands' \in Nat /\ Sound(State, toServer, proc, 0, 0, FALSE)
  BY DEF FInv, CommandDone
<1>3. Sound(x, toServer, proc, 0, 0, FALSE) /\ x.c.flags = State.c.flags \cup {"EXIT"}
  BY <1>0, <1>2, FlagSound
<1> HIDE DEF x
<1>4. Kept(State, x)
  BY <1>3 DEF Kept
<1> QED BY <1>1, <1>2, <1>3, <1>4, LiveStep

LEMMA PaneGoesSound == FInv /\ PaneGoes => FInv'
<1> SUFFICES ASSUME FInv, PaneGoes PROVE FInv'
  OBVIOUS
<1> DEFINE st == State
           x == [st EXCEPT !.pane = FALSE]
<1>1. Become(x) /\ toServer' = toServer /\ proc' = proc
  BY DEF PaneGoes
<1>2. /\ Calm /\ commands' \in Nat /\ Sound(st, toServer, proc, 0, 0, FALSE)
      /\ "FREED" \in st.c.flags => st.c.refs = 0
  BY StateIs DEF FInv, PaneGoes
<1> HIDE DEF st
<1>3. /\ st \in States(st.book) /\ Base(st, toServer, proc) /\ Counted(st, 0)
      /\ Items(st, toServer, proc, 0, FALSE) /\ Target(st, toServer, proc) /\ st.once \in Seq(Told)
  BY <1>2, Facts
<1>4. SameBut(st, x, {"pane"}) /\ x.pane = FALSE
  BY <1>3 DEF States, SameBut
<1> HIDE DEF x
<1>5. /\ x \in States(x.book) /\ x.files = st.files /\ x.item = st.item /\ x.toClient = st.toClient
      /\ x.c = st.c /\ x.once = st.once /\ (Live(x) <=> Live(st)) /\ ~x.pane
  BY <1>4 DEF SameBut, Live
<1>6. Base(x, toServer, proc)
  BY <1>3, <1>5, Silent, TellsFree
<1>7. Counted(x, 0)
  <2>1. RemoteOf(x) = RemoteOf(st) /\ Number(Live(x)) = Number(Live(st))
    BY <1>5 DEF RemoteOf, Number
  <2> QED BY <1>3, <1>5, <2>1 DEF Counted
<1>8. Items(x, toServer, proc, 0, FALSE)
  <2>1. \A t : /\ Writes(x, toServer, proc, t) <=> Writes(st, toServer, proc, t)
               /\ Nowhere(x, toServer, proc, t) <=> Nowhere(st, toServer, proc, t)
    BY <1>5 DEF Writes, Nowhere, Opening
  <2> QED BY <1>3, <1>5, <2>1 DEF Items
<1>9. Target(x, toServer, proc)
  BY <1>3, <1>5 DEF Target, Arrived, Telling, Live
<1>10. Sound(x, toServer, proc, 0, 0, FALSE)
  BY <1>6, <1>7, <1>8, <1>9 DEF Sound
<1>11. State' = x /\ instance' = instance
  BY <1>1, <1>5, Becomes
<1> QED BY <1>1, <1>2, <1>5, <1>10, <1>11, Preserves

\* A message that is of no stream.
LEMMA SendExit ==
  ASSUME NEW st, st \in States(st.book)
  PROVE  LET x == Send(st, [type |-> "EXIT"])
         IN SameBut(st, x, {"toClient"}) /\ SendsIf(st, {}, {}, {}, {}, x)
<1> DEFINE m == [type |-> "EXIT"]
           x == Send(st, m)
<1>1. m \in ToClient /\ m.type = "EXIT"
  BY DEF ToClient
<1> HIDE DEF m
<1>2. SameBut(st, x, {"toClient"})
  BY <1>1, SendIs
<1>3. SendsIf(st, {}, {}, {}, {}, x)
  <2> DEFINE o == IF m.type = "EXIT" THEN {} ELSE {m.stream}
             Of(types) == IF m.type \in types THEN o ELSE {}
             O == Of({"READ_OPEN", "WRITE_OPEN"})
             R == Of({"READ_OPEN", "READ_CANCEL"})
             W == Of({"WRITE_OPEN", "WRITE", "WRITE_CLOSE"})
             I == IF m.type = "READ_CANCEL" \/ (m.type = "READ_OPEN" /\ m.path = "-") THEN o ELSE {}
  <2>1. O = {} /\ R = {} /\ W = {} /\ I = {}
    BY <1>1
  <2>2. SendsIf(st, O, R, W, I, x)
    BY <1>1, SendIs
  <2> HIDE DEF O, R, W, I, x
  <2> QED BY <2>1, <2>2
<1> QED BY <1>2, <1>3 DEF m

LEMMA CheckExitSound == FInv /\ CheckExit => FInv'
<1> SUFFICES ASSUME FInv, CheckExit PROVE FInv'
  OBVIOUS
<1> DEFINE y == [State EXCEPT !.c.flags = @ \cup {"EXITED"}]
           x == Send(y, [type |-> "EXIT"])
<1>1. Become(x) /\ toServer' = toServer /\ proc' = proc /\ "DEAD" \notin c.flags
  BY DEF CheckExit
<1>0. 0 \in Int /\ "EXITED" \in {"EXIT", "EXITED", "FREED"}
  OBVIOUS
<1>2. commands' \in Nat /\ Sound(State, toServer, proc, 0, 0, FALSE)
  BY DEF FInv, CheckExit
<1>3. Sound(y, toServer, proc, 0, 0, FALSE) /\ y.c.flags = State.c.flags \cup {"EXITED"}
  BY <1>0, <1>2, FlagSound
<1> HIDE DEF y
<1>4. /\ y \in States(y.book) /\ Base(y, toServer, proc) /\ Typed(y, toServer, proc) /\ Counted(y, 0)
      /\ Items(y, toServer, proc, 0, FALSE) /\ Target(y, toServer, proc) /\ y.once \in Seq(Told)
      /\ y.c.refs \in Int /\ y.c \in ClientRecord
  BY <1>3, Facts
<1>5. SameBut(y, x, {"toClient"}) /\ SendsIf(y, {}, {}, {}, {}, x)
  BY <1>4, SendExit
<1> HIDE DEF x
<1>6. /\ x \in States(x.book) /\ x.files = y.files /\ x.item = y.item /\ x.once = y.once
      /\ x.pane = y.pane
      /\ x.c = y.c /\ (Live(x) <=> Live(y))
  BY <1>5 DEF SameBut, Live
<1>7. Base(x, toServer, proc)
  <2>1. /\ IsFiniteSet(DOMAIN x.files) /\ x.c.next >= y.c.next /\ \A t \in DOMAIN x.files : t < x.c.next
        /\ DOMAIN y.files \subseteq DOMAIN x.files
    BY <1>4, <1>6 DEF Typed, ClientRecord, Streams
  <2>2. Live(y) => /\ \A t \in {} : ~Writes(y, toServer, proc, t) /\ t > 2 /\ t < x.c.next
                   /\ \A t \in {} : ~Reads(y, proc, t) /\ t < x.c.next
    OBVIOUS
  <2>3. /\ \A t \in {} \cup {} : Nowhere(y, toServer, proc, t) /\ ~Telling(y, t) /\ t \in DOMAIN x.files
        /\ {} \cap {} = {}
    OBVIOUS
  <2>4. Tells(y.once, {}, x.once)
    BY <1>4, <1>6, TellsFree
  <2> QED BY <1>4, <1>5, <1>6, <2>1, <2>2, <2>3, <2>4, Stepped
<1>8. Apart(y, x, {})
  <2>1. {} \cup {} \cup {} \cup {} \cup {} \subseteq {}
    OBVIOUS
  <2>2. Tells(y.once, {}, x.once)
    BY <1>4, <1>6, TellsFree
  <2> QED BY <1>5, <1>6, <2>1, <2>2, ApartIs
<1>9. Counted(x, 0)
  <2>1. RemoteOf(x) = RemoteOf(y) /\ Number(Live(x)) = Number(Live(y))
    BY <1>6 DEF RemoteOf, Number
  <2> QED BY <1>4, <1>6, <2>1 DEF Counted
<1>10. Items(x, toServer, proc, 0, FALSE)
  <2>1. \A t \in Streams : /\ Writes(x, toServer, proc, t) <=> Writes(y, toServer, proc, t)
                           /\ Nowhere(x, toServer, proc, t) <=> Nowhere(y, toServer, proc, t)
    BY <1>6, <1>8 DEF Writes, Apart, Nowhere, Opening
  <2>2. y.item # NoItem => y.item.stream \in Streams
    BY <1>4 DEF States, ItemRecord
  <2> QED BY <1>4, <1>6, <2>1, <2>2 DEF Items
<1>11. Target(x, toServer, proc)
  <2>1. y.item # NoItem => y.item.stream \in Streams
    BY <1>4 DEF States, ItemRecord
  <2> QED BY <1>4, <1>6, <1>8, <2>1 DEF Target, Arrived, Apart
<1>12. Sound(x, toServer, proc, 0, 0, FALSE)
  BY <1>7, <1>9, <1>10, <1>11 DEF Sound
<1>13. Kept(State, x)
  BY <1>3, <1>6 DEF Kept
<1> QED BY <1>1, <1>2, <1>12, <1>13, LiveStep

Dead(client) == [client EXCEPT !.flags = @ \cup {"DEAD"}]
ToldOf(tree) == [i \in DOMAIN tree |-> <<"done", tree[i]>>]

\* What the client has sent and not, and its files, are given up.
LEMMA LostSound ==
  ASSUME NEW st, NEW ts, NEW pr, Sound(st, ts, pr, 0, 0, FALSE), Live(st), pr.status # "running",
         st.once = <<>>,
         NEW n \in Nat, NEW tree \in [1..n -> RemoteOf(st)],
         \A i, j \in DOMAIN tree : i < j => tree[i] < tree[j],
         NEW w, w \in States(w.book), w.c = Dead(st.c), w.toClient = <<>>,
         DOMAIN w.files = DOMAIN st.files,
         \A s \in DOMAIN st.files : w.files[s] = Interrupted(st.files[s]),
         w.once = ToldOf(tree), w.item = st.item, w.pane = st.pane
  PROVE  Sound(Unref(w), <<>>, pr, 0, 0, FALSE)
<1> DEFINE x == Unref(w)
<1>1. /\ st \in States(st.book) /\ Base(st, ts, pr) /\ Typed(st, ts, pr) /\ Counted(st, 0)
      /\ Items(st, ts, pr, 0, FALSE) /\ Target(st, ts, pr) /\ st.c \in ClientRecord
      /\ st.c.refs \in Int
      /\ DOMAIN st.files \subseteq Streams /\ (st.item # NoItem => st.item \in ItemRecord)
  BY Facts
<1>2. /\ x \in States(x.book) /\ x.files = w.files /\ x.item = w.item /\ x.toClient = w.toClient
      /\ x.pane = w.pane /\ x.c.refs = w.c.refs - 1 /\ x.c.flags = w.c.flags /\ x.c.next = w.c.next
      /\ Tells(w.once, {}, x.once)
  BY UnrefIs
<1>3. w.c.refs = st.c.refs /\ w.c.flags = st.c.flags \cup {"DEAD"} /\ w.c.next = st.c.next
  BY <1>1 DEF ClientRecord, Dead
<1> HIDE DEF x
<1>4. /\ ~Live(x) /\ ("ATTACHED" \in x.c.flags <=> "ATTACHED" \in st.c.flags)
  BY <1>2, <1>3 DEF Live
<1>5. \A s \in DOMAIN st.files :
        /\ x.files[s].remote = st.files[s].remote /\ x.files[s].closed = st.files[s].closed
        /\ ~st.files[s].remote => x.files[s] = st.files[s]
        /\ st.files[s].error # "ok" => x.files[s].error # "ok"
  <2>1. \A s \in DOMAIN st.files : st.files[s] \in FileRecord
    BY <1>1, TableIs
  <2> SUFFICES ASSUME NEW s \in DOMAIN st.files, NEW f, f = st.files[s], NEW g, g = x.files[s]
               PROVE  /\ g.remote = f.remote /\ g.closed = f.closed
                      /\ ~f.remote => g = f
                      /\ f.error # "ok" => g.error # "ok"
    OBVIOUS
  <2>2. f \in FileRecord /\ g = Interrupted(f)
    BY <1>2, <2>1
  <2> QED BY <2>2 DEF Interrupted, FileRecord
<1>6. \A s \in Streams : /\ Telling(x, s) => s \in RemoteOf(st)
                         /\ Once(x.once, DoneOf(s))
  <2>0. \A i \in DOMAIN tree : tree[i] \in RemoteOf(st) /\ tree[i] \in Nat
    BY <1>1 DEF RemoteOf, Streams
  <2>1. \A s \in Streams : /\ Some(w.once, DoneOf(s)) => s \in RemoteOf(st)
                           /\ Once(w.once, DoneOf(s))
    <3> SUFFICES ASSUME NEW s \in Streams
                 PROVE  /\ Some(w.once, DoneOf(s)) => s \in RemoteOf(st)
                        /\ Once(w.once, DoneOf(s))
      OBVIOUS
    <3>1. DOMAIN w.once = 1..n /\ \A i \in 1..n : w.once[i] \in DoneOf(s) => tree[i] = s
      BY DEF DoneOf, ToldOf
    <3>2. ASSUME NEW i \in 1..n, NEW j \in 1..n, tree[i] = tree[j] PROVE i = j
      <4>1. CASE i < j
        BY <2>0, <3>2, <4>1
      <4>2. CASE j < i
        BY <2>0, <3>2, <4>2
      <4> QED BY <4>1, <4>2
    <3>3. Some(w.once, DoneOf(s)) => s \in RemoteOf(st)
      BY <2>0, <3>1 DEF Some
    <3>4. Once(w.once, DoneOf(s))
      BY <3>1, <3>2 DEF Once
    <3> QED BY <3>3, <3>4
  <2> QED BY <1>2, <2>1 DEF Tells, Telling
<1>7. Base(x, <<>>, pr)
  <2>1. Typed(x, <<>>, pr)
    <3>1. <<>> \in Seq(ToServer) /\ ProcRecord(pr)
      BY <1>1 DEF Typed
    <3> QED BY <1>1, <1>2, <1>3, <3>1 DEF Typed
  <2>2. OnePlace(x, <<>>, pr)
    BY <1>2, <1>4, <1>6 DEF OnePlace, RemoteOf
  <2>3. OneWay(x, <<>>, pr) /\ Quiet(x, <<>>, pr)
    BY <1>2, <1>4 DEF OneWay, Quiet
  <2> QED BY <2>1, <2>2, <2>3 DEF Base
<1>8. Counted(x, 0)
  <2>1. RemoteOf(x) = RemoteOf(st)
    BY <1>2, <1>5 DEF RemoteOf
  <2>2. Number(Live(x)) = 0 /\ Number(Live(st)) = 1
    BY <1>4 DEF Number
  <2>3. Cardinality(RemoteOf(st)) \in Nat /\ Share(st.item) \in Nat
    BY <1>1, RemotesAre
  <2>4. st.c.refs = 0 + 1 + Cardinality(RemoteOf(st)) + Share(st.item)
    BY <1>1, <2>2 DEF Counted
  <2>5. x.c.refs = 0 + Number(Live(x)) + Cardinality(RemoteOf(x)) + Share(x.item)
    BY <1>1, <1>2, <1>3, <2>1, <2>2, <2>3, <2>4
  <2>6. /\ \A s \in DOMAIN x.files : x.files[s].remote <=> "ATTACHED" \notin x.c.flags
        /\ \A s \in DOMAIN x.files : s <= 2 => x.files[s].remote
    BY <1>1, <1>2, <1>4, <1>5 DEF Counted
  <2> QED BY <2>5, <2>6 DEF Counted
<1>9. Items(x, <<>>, pr, 0, FALSE)
  BY <1>1, <1>2, <1>4, <1>5 DEF Items, Nowhere
<1>10. Target(x, <<>>, pr)
  <2>1. ASSUME st.item # NoItem, st.item.target, st.item.stream \in DOMAIN st.files
        PROVE  LET s == st.item.stream
                   f == x.files[s]
               IN /\ ~f.closed
                  /\ ~f.remote => f.error = "ok" /\ ~Telling(x, s)
    <3>1. st.item.stream \in Streams /\ st.item.stream \in DOMAIN st.files
      BY <1>1, <2>1
    <3> QED BY <1>1, <1>5, <1>6, <2>1, <3>1 DEF Target, RemoteOf
  <2> QED BY <1>2, <1>4, <2>1 DEF Target
<1> QED BY <1>7, <1>8, <1>9, <1>10 DEF Sound, x

LEMMA LoseSound == FInv /\ Lose => FInv'
<1> SUFFICES ASSUME FInv, Lose PROVE FInv'
  OBVIOUS
<1>1. /\ proc.status # "running" /\ "DEAD" \notin c.flags /\ once = <<>> /\ toServer' = <<>>
      /\ proc' = proc
      /\ commands' \in Nat /\ Sound(State, toServer, proc, 0, 0, FALSE)
  BY DEF FInv, Lose, Calm
<1>2. PICK tree \in Trees : Become(Lost(State, tree))
  BY DEF Lose
<1> DEFINE st == State
           told == ToldOf(tree)
           table == [s \in DOMAIN st.files |-> Interrupted(st.files[s])]
           w == [st EXCEPT !.c.flags = @ \cup {"DEAD"}, !.toClient = <<>>, !.files = table,
                           !.book = [s \in DOMAIN st.book \ Remote |-> st.book[s]],
                           !.once = @ \o told]
           n == Cardinality(RemoteOf(st))
<1>3. Lost(State, tree) = Unref(w)
  BY DEF Lost, ToldOf
<1>4. Remote = RemoteOf(st)
  BY StateIs DEF Remote, RemoteOf
<1>5. /\ st \in States(st.book) /\ Typed(st, toServer, proc) /\ st.c \in ClientRecord
      /\ DOMAIN st.files \subseteq Streams
  BY <1>1, Facts
<1>6. n \in Nat /\ st.once = <<>> /\ Live(st)
  BY <1>1, <1>5, StateIs, RemotesAre DEF Live
<1>7. tree \in [1..n -> RemoteOf(st)] /\ \A i, j \in DOMAIN tree : i < j => tree[i] < tree[j]
  BY <1>2, <1>4 DEF Trees
<1>8. told \in Seq(Told)
  <2>1. \A i \in 1..n : <<"done", tree[i]>> \in Told
    BY <1>5, <1>7 DEF RemoteOf, Told
  <2> QED BY <1>6, <1>7, <2>1 DEF ToldOf
<1>9. table \in Tables /\ DOMAIN table = DOMAIN st.files
  <2>1. \A s \in DOMAIN st.files : Interrupted(st.files[s]) \in FileRecord
    <3> SUFFICES ASSUME NEW s \in DOMAIN st.files PROVE Interrupted(st.files[s]) \in FileRecord
      OBVIOUS
    <3>1. st.files[s] \in FileRecord
      BY <1>5, TableIs
    <3> QED BY <3>1 DEF Interrupted, FileRecord, Errors
  <2> QED BY <1>5, <2>1 DEF Tables
<1>10. st.once \o told = told
  BY <1>6, <1>8
<1> DEFINE dead == Dead(st.c)
<1>11. dead \in ClientRecord
  BY <1>5 DEF ClientRecord, Dead
<1>12. /\ w \in States(w.book) /\ w.c = dead /\ w.toClient = <<>> /\ w.files = table /\ w.once = told
       /\ w.item = st.item /\ w.pane = st.pane
  <2> HIDE DEF table, told
  <2>1. w = [st EXCEPT !.c = dead, !.toClient = <<>>, !.files = table,
                       !.book = [s \in DOMAIN st.book \ Remote |-> st.book[s]], !.once = told]
    BY <1>5, <1>10 DEF States, Dead
  <2>2. <<>> \in Seq(ToClient)
    OBVIOUS
  <2> HIDE DEF w, dead, st
  <2> QED BY <1>5, <1>8, <1>9, <1>11, <2>1, <2>2 DEF States
<1> HIDE DEF w, st
<1>13. DOMAIN w.files = DOMAIN st.files /\ \A s \in DOMAIN st.files : w.files[s] = Interrupted(st.files[s])
  BY <1>12
<1>14. Sound(Unref(w), <<>>, proc, 0, 0, FALSE)
  <2>1. Sound(st, toServer, proc, 0, 0, FALSE)
    BY <1>1 DEF st
  <2> HIDE DEF n
  <2> QED BY <1>1, <1>6, <1>7, <1>12, <1>13, <2>1, LostSound
<1>15. Kept(State, Unref(w))
  <2>1. w.c.flags = st.c.flags \cup {"DEAD"}
    BY <1>5, <1>12 DEF ClientRecord, Dead
  <2>2. Unref(w).c.flags = w.c.flags
    BY <1>12, UnrefIs
  <2> QED BY <2>1, <2>2 DEF Kept, st
<1> QED BY <1>1, <1>2, <1>3, <1>14, <1>15, LiveStep

-----------------------------------------------------------------------------
(***************************************************************************)
(* Messages arrive. Only the messages, and what the client has open,       *)
(* change then; how a stream may go on from one place to the next, from st *)
(* to x, from ts to us and from pr to qr:                                  *)
(***************************************************************************)
Goes(st, ts, pr, x, us, qr, t) ==
  /\ Once(x.toClient, OpenOf(t)) /\ Once(us, AnswerOf(t)) /\ Before(us, DataFor(t), AnswerOf(t))
  /\ Opening(x, t) => ~Reading(qr, t) /\ ~Answered(us, t)
  /\ Reading(qr, t) => ~Answered(us, t)
  /\ Opening(x, t) \/ Reading(qr, t) \/ Answered(us, t) => Opening(st, t) \/ Reading(pr, t) \/ Answered(ts, t)
  /\ Reads(x, qr, t) => Reads(st, pr, t)
  /\ Writes(x, us, qr, t) => Writes(st, ts, pr, t)
TargetGoes(st, x, us, qr, t) ==
  /\ ~Some(us, FailureOf(t)) /\ ~Some(x.toClient, InputOf(t))
  /\ Reading(qr, t) /\ qr.status = "running" => qr.files[t].left # <<>> \/ Arrived(st, us, t)
  /\ Answered(us, t) => Arrived(st, us, t)
IsTarget(st, t) ==
  st.item # NoItem /\ st.item.target /\ st.item.stream = t /\ t \in RemoteOf(st)

LEMMA MovedSound ==
  ASSUME NEW st, NEW ts, NEW pr, Sound(st, ts, pr, 0, 0, FALSE), Live(st),
         NEW x, SameBut(st, x, {"toClient", "book"}), NEW us \in Seq(ToServer), NEW qr,
         ProcRecord(qr),
         \A t \in Streams : Goes(st, ts, pr, x, us, qr, t) /\ (IsTarget(st, t) => TargetGoes(st, x, us, qr, t))
  PROVE  Sound(x, us, qr, 0, 0, FALSE)
<1>1. /\ st \in States(st.book) /\ Base(st, ts, pr) /\ Typed(st, ts, pr) /\ Counted(st, 0)
      /\ Items(st, ts, pr, 0, FALSE) /\ Target(st, ts, pr) /\ DOMAIN st.files \subseteq Streams
      /\ st.item # NoItem => st.item \in ItemRecord
  BY Facts
<1>2. /\ x \in States(x.book) /\ x.c = st.c /\ x.files = st.files /\ x.once = st.once
      /\ x.item = st.item /\ x.pane = st.pane /\ Live(x)
  BY DEF SameBut, Live
<1>3. Base(x, us, qr)
  <2>1. Typed(x, us, qr)
    BY <1>1, <1>2 DEF Typed
  <2>2. OnePlace(x, us, qr)
    BY <1>1, <1>2 DEF OnePlace, Goes, Telling, Base
  <2>3. OneWay(x, us, qr)
    BY <1>1, <1>2 DEF OneWay, Goes, Base
  <2>4. Quiet(x, us, qr)
    BY <1>2 DEF Quiet
  <2> QED BY <2>1, <2>2, <2>3, <2>4 DEF Base
<1>4. Counted(x, 0)
  <2>1. RemoteOf(x) = RemoteOf(st) /\ Number(Live(x)) = Number(Live(st))
    BY <1>2 DEF RemoteOf, Number
  <2> QED BY <1>1, <1>2, <2>1 DEF Counted
<1>5. Items(x, us, qr, 0, FALSE)
  <2>1. \A t \in Streams : /\ Writes(x, us, qr, t) => Writes(st, ts, pr, t)
                           /\ Nowhere(st, ts, pr, t) => Nowhere(x, us, qr, t)
    BY <1>2 DEF Goes, Nowhere
  <2>2. st.item # NoItem => st.item.stream \in Streams
    BY <1>1 DEF ItemRecord
  <2> QED BY <1>1, <1>2, <2>1, <2>2 DEF Items
<1>6. Target(x, us, qr)
  <2>1. ASSUME st.item # NoItem, st.item.target, st.item.stream \in DOMAIN st.files,
               st.files[st.item.stream].remote
        PROVE  LET s == st.item.stream
               IN s \in Streams /\ TargetGoes(st, x, us, qr, s)
    BY <1>1, <2>1 DEF IsTarget, RemoteOf
  <2> QED BY <1>1, <1>2, <2>1 DEF Target, TargetGoes, Arrived, Telling
<1> QED BY <1>3, <1>4, <1>5, <1>6 DEF Sound

\* An event is added for a stream that is nowhere else: the file has failed,
\* or the answer was the last.
LEMMA FailSound ==
  ASSUME NEW st, NEW ts, NEW pr, Sound(st, ts, pr, 0, 0, FALSE), NEW s, Settled(st, ts, pr, s),
         NEW error \in Errors,
         st.item # NoItem /\ st.item.kind = "input" /\ ~st.item.file /\ st.item.stream = s => error # "ok",
         st.item # NoItem /\ st.item.target /\ st.item.stream = s => error = "ok" /\ st.files[s].buffer # <<>>
  PROVE  Sound(Fail(st, s, error), ts, pr, 0, 0, FALSE) /\ Kept(st, Fail(st, s, error))
<1> DEFINE x == Fail(st, s, error)
           f == [st.files[s] EXCEPT !.error = error]
<1>1. /\ st \in States(st.book) /\ Base(st, ts, pr) /\ Typed(st, ts, pr) /\ Counted(st, 0)
      /\ Items(st, ts, pr, 0, FALSE) /\ Target(st, ts, pr) /\ DOMAIN st.files \subseteq Streams
      /\ st.item # NoItem => st.item \in ItemRecord
  BY Facts
<1>0. s \in DOMAIN st.files /\ s \in Streams /\ Nowhere(st, ts, pr, s) /\ ~Telling(st, s)
  BY <1>1 DEF Settled
<1>2. /\ SameBut(st, x, {"files", "once", "book"}) /\ Tells(st.once, {s}, x.once)
      /\ x.files = [st.files EXCEPT ![s] = f] /\ f \in FileRecord
  BY <1>0, <1>1, FailIs
<1>3. st.files[s] \in FileRecord
  BY <1>0, <1>1, TableIs
<1>4. /\ f.remote = st.files[s].remote /\ f.closed = st.files[s].closed
      /\ f.buffer = st.files[s].buffer /\ f.error = error
  BY <1>3 DEF FileRecord
<1> HIDE DEF x, f
<1>5. /\ x \in States(x.book) /\ x.c = st.c /\ x.item = st.item /\ x.pane = st.pane
      /\ x.toClient = st.toClient
      /\ (Live(x) <=> Live(st))
  BY <1>2 DEF SameBut, Live
<1>6. /\ DOMAIN x.files = DOMAIN st.files /\ x.files[s] = f
      /\ \A t \in DOMAIN st.files : t # s => x.files[t] = st.files[t]
  BY <1>0, <1>2
<1>7. Base(x, ts, pr)
  <2>1. /\ IsFiniteSet(DOMAIN x.files) /\ x.c.next >= st.c.next /\ \A t \in DOMAIN x.files : t < x.c.next
        /\ DOMAIN st.files \subseteq DOMAIN x.files
    <3>1. st.c.next \in Nat
      BY <1>1 DEF States, ClientRecord, Streams
    <3> QED BY <1>1, <1>5, <1>6, <3>1 DEF Typed
  <2>2. Live(st) => /\ \A t \in {} : ~Writes(st, ts, pr, t) /\ t > 2 /\ t < x.c.next
                    /\ \A t \in {} : ~Reads(st, pr, t) /\ t < x.c.next
    OBVIOUS
  <2>3. /\ \A t \in {} \cup {s} : Nowhere(st, ts, pr, t) /\ ~Telling(st, t) /\ t \in DOMAIN x.files
        /\ {} \cap {s} = {} /\ {} \cap {} = {}
    BY <1>0, <1>6
  <2>4. SendsIf(st, {}, {}, {}, {}, x)
    <3>1. st.toClient \in Seq(ToClient)
      BY <1>1 DEF States
    <3> QED BY <1>5, <3>1, SendsNone DEF SendsIf
  <2> QED BY <1>1, <1>2, <1>5, <2>1, <2>2, <2>3, <2>4, Stepped
<1>8. Counted(x, 0)
  <2>1. RemoteOf(x) = RemoteOf(st) /\ Number(Live(x)) = Number(Live(st))
    BY <1>4, <1>5, <1>6 DEF RemoteOf, Number
  <2> QED BY <1>1, <1>4, <1>5, <1>6, <2>1 DEF Counted
<1>9. Items(x, ts, pr, 0, FALSE)
  <2>1. \A t \in Streams : /\ Writes(x, ts, pr, t) <=> Writes(st, ts, pr, t)
                           /\ Nowhere(x, ts, pr, t) <=> Nowhere(st, ts, pr, t)
    BY <1>5 DEF Writes, Nowhere, Opening
  <2>2. st.item # NoItem => st.item.stream \in Streams
    BY <1>1 DEF ItemRecord
  <2> QED BY <1>0, <1>1, <1>4, <1>5, <1>6, <2>1, <2>2 DEF Items
<1>10. Target(x, ts, pr)
  <2>1. st.item # NoItem => st.item.stream \in Streams
    BY <1>1 DEF ItemRecord
  <2>2. \A t \in Streams : Telling(x, t) <=> Telling(st, t) \/ t = s
    BY <1>2 DEF Tells, Telling
  <2> QED BY <1>0, <1>1, <1>4, <1>5, <1>6, <2>1, <2>2 DEF Target, Arrived
<1>11. Kept(st, x)
  BY <1>5 DEF Kept
<1> QED BY <1>7, <1>8, <1>9, <1>10, <1>11 DEF Sound, x

\* What is in the buffer is sent, and that it was all.
LEMMA PushSound ==
  ASSUME NEW st, NEW ts, NEW pr, Sound(st, ts, pr, 0, 0, FALSE), NEW s \in DOMAIN st.files,
         s > 2 => Settled(st, ts, pr, s), Live(st) => ~Reads(st, pr, s),
         st.item # NoItem /\ st.item.stream = s => st.item.kind = "save"
  PROVE  Sound(Push(st, s), ts, pr, 0, 0, FALSE) /\ Kept(st, Push(st, s))
<1> DEFINE x == Push(st, s)
           f == [st.files[s] EXCEPT !.buffer = <<>>]
           D == IF s > 2 THEN {s} ELSE {}
<1>1. /\ st \in States(st.book) /\ Base(st, ts, pr) /\ Typed(st, ts, pr) /\ Counted(st, 0)
      /\ Items(st, ts, pr, 0, FALSE) /\ Target(st, ts, pr) /\ DOMAIN st.files \subseteq Streams
      /\ st.item # NoItem => st.item \in ItemRecord
  BY Facts
<1>0. s \in Streams /\ s < st.c.next
  BY <1>1 DEF Typed
<1>2. /\ SameBut(st, x, {"files", "once", "toClient"}) /\ Tells(st.once, D, x.once)
      /\ x.files = [st.files EXCEPT ![s] = f] /\ f \in FileRecord
      /\ \E W \in SUBSET {s} : SendsIf(st, {}, {}, W, {}, x)
  BY <1>1, PushIs
<1>3. st.files[s] \in FileRecord
  BY <1>1, TableIs
<1>4. f.remote = st.files[s].remote /\ f.closed = st.files[s].closed /\ f.error = st.files[s].error
  BY <1>3 DEF FileRecord
<1> HIDE DEF x, f
<1>5. /\ x \in States(x.book) /\ x.c = st.c /\ x.item = st.item /\ x.pane = st.pane
      /\ (Live(x) <=> Live(st))
  BY <1>2 DEF SameBut, Live
<1>6. /\ DOMAIN x.files = DOMAIN st.files /\ x.files[s] = f
      /\ \A t \in DOMAIN st.files : t # s => x.files[t] = st.files[t]
  BY <1>2
<1>11. PICK W \in SUBSET {s} : SendsIf(st, {}, {}, W, {}, x)
  BY <1>2
<1>12. D \subseteq {s} /\ \A t \in D : Settled(st, ts, pr, t)
  OBVIOUS
<1> HIDE DEF D
<1>7. Base(x, ts, pr)
  <2>1. /\ IsFiniteSet(DOMAIN x.files) /\ x.c.next >= st.c.next /\ \A t \in DOMAIN x.files : t < x.c.next
        /\ DOMAIN st.files \subseteq DOMAIN x.files
    <3>1. st.c.next \in Nat
      BY <1>1 DEF States, ClientRecord, Streams
    <3> QED BY <1>1, <1>5, <1>6, <3>1 DEF Typed
  <2>2. Live(st) => /\ \A t \in {} : ~Writes(st, ts, pr, t) /\ t > 2 /\ t < x.c.next
                    /\ \A t \in W : ~Reads(st, pr, t) /\ t < x.c.next
    BY <1>0, <1>5
  <2>3. /\ \A t \in {} \cup D : Nowhere(st, ts, pr, t) /\ ~Telling(st, t) /\ t \in DOMAIN x.files
        /\ {} \cap D = {} /\ {} \cap W = {}
    BY <1>6, <1>12 DEF Settled
  <2> QED BY <1>1, <1>2, <1>5, <1>11, <2>1, <2>2, <2>3, Stepped
<1>8. Counted(x, 0)
  <2>1. RemoteOf(x) = RemoteOf(st) /\ Number(Live(x)) = Number(Live(st))
    BY <1>4, <1>5, <1>6 DEF RemoteOf, Number
  <2> QED BY <1>1, <1>4, <1>5, <1>6, <2>1 DEF Counted
<1>13. \A t \in Streams : /\ Writes(x, ts, pr, t) => Writes(st, ts, pr, t) \/ t = s
                          /\ Nowhere(st, ts, pr, t) => Nowhere(x, ts, pr, t)
                          /\ Telling(x, t) => Telling(st, t) \/ t = s
                          /\ Some(x.toClient, InputOf(t)) <=> Some(st.toClient, InputOf(t))
  <2>1. \A t \in Streams : /\ Some(x.toClient, OpenOf(t)) <=> Some(st.toClient, OpenOf(t))
                           /\ Some(x.toClient, WriteOf(t)) => Some(st.toClient, WriteOf(t)) \/ t = s
                           /\ Some(x.toClient, InputOf(t)) <=> Some(st.toClient, InputOf(t))
    BY <1>11 DEF SendsIf, Sends, SomeTo
  <2>2. \A t \in Streams : Telling(x, t) => Telling(st, t) \/ t = s
    BY <1>2, <1>12 DEF Tells, Telling
  <2> QED BY <1>5, <2>1, <2>2 DEF Writes, Nowhere, Opening
<1>9. Items(x, ts, pr, 0, FALSE)
  <2>2. st.item # NoItem => st.item.stream \in Streams
    BY <1>1 DEF ItemRecord
  <2> QED BY <1>1, <1>5, <1>6, <1>13, <2>2 DEF Items
<1>10. Target(x, ts, pr)
  <2>1. st.item # NoItem => st.item.stream \in Streams
    BY <1>1 DEF ItemRecord
  <2>2. st.item # NoItem /\ st.item.target => st.item.stream # s
    BY <1>1 DEF Items
  <2> QED BY <1>1, <1>5, <1>6, <1>13, <2>1, <2>2 DEF Target, Arrived
<1>14. Kept(st, x)
  BY <1>5 DEF Kept
<1> QED BY <1>7, <1>8, <1>9, <1>10, <1>14 DEF Sound, x

\* The first message is taken; data for the target client has been kept.
LEMMA TakenSound ==
  ASSUME NEW st, NEW ts, NEW pr, Sound(st, ts, pr, 0, 0, FALSE), Live(st), ts # <<>>,
         Head(ts).type = "READ" /\ Head(ts).data # <<>> /\ IsTarget(st, Head(ts).stream) =>
           st.files[Head(ts).stream].buffer # <<>>
  PROVE  /\ Head(ts) \in ToServer /\ Sound(st, Tail(ts), pr, 0, 0, FALSE)
         /\ Head(ts).type \in {"READ_DONE", "WRITE_READY"} =>
              LET s == Head(ts).stream
              IN /\ s \in DOMAIN st.files /\ Settled(st, Tail(ts), pr, s) /\ ~Nowhere(st, ts, pr, s)
                 /\ Head(ts).type = "WRITE_READY" => Writes(st, ts, pr, s)
                 /\ IsTarget(st, s) => Head(ts).error = "ok" /\ st.files[s].buffer # <<>>
<1> DEFINE m == Head(ts)
           us == Tail(ts)
           Of(types) == IF m.type \in types THEN {m.stream} ELSE {}
           A == Of({"READ_DONE", "WRITE_READY"})
           Y == Of({"WRITE_READY"})
           F == IF m.type # "READ" /\ m.error # "ok" THEN {m.stream} ELSE {}
           G == Of({"READ"})
           N == IF m.type = "READ" /\ m.data # <<>> THEN {m.stream} ELSE {}
<1>1. /\ st \in States(st.book) /\ Base(st, ts, pr) /\ Typed(st, ts, pr) /\ Target(st, ts, pr)
      /\ ts \in Seq(ToServer) /\ ProcRecord(pr)
  BY Facts DEF Typed
<1>2. /\ m \in ToServer /\ us \in Seq(ToServer) /\ SomeFrom(us, A, Y, F, G, N, ts)
      /\ \A s \in Streams :
           /\ Once(ts, AnswerOf(s)) => Once(us, AnswerOf(s)) /\ ~(Some(us, AnswerOf(s)) /\ s \in A)
           /\ Before(ts, DataFor(s), AnswerOf(s)) =>
                Before(us, DataFor(s), AnswerOf(s)) /\ ~(Some(us, DataFor(s)) /\ s \in A)
  BY <1>1, ReceivesOne
<1>3. m.stream \in Streams
  BY <1>2 DEF ToServer
<1>4. \A t : t \in N <=> m.type = "READ" /\ m.data # <<>> /\ t = m.stream
  OBVIOUS
<1>5. \A t : t \in A <=> m.type \in {"READ_DONE", "WRITE_READY"} /\ t = m.stream
  OBVIOUS
<1>6. \A t : t \in F <=> m.type # "READ" /\ m.error # "ok" /\ t = m.stream
  OBVIOUS
<1>7. \A t : t \in Y <=> m.type = "WRITE_READY" /\ t = m.stream
  OBVIOUS
<1> HIDE DEF us, m, A, Y, F, G, N, Of
<1>8. \A t \in Streams :
        /\ Some(ts, AnswerOf(t)) <=> Some(us, AnswerOf(t)) \/ t \in A
        /\ Some(ts, ReadyOf(t)) <=> Some(us, ReadyOf(t)) \/ t \in Y
        /\ Some(ts, FailureOf(t)) <=> Some(us, FailureOf(t)) \/ t \in F
        /\ Some(ts, SomeFor(t)) <=> Some(us, SomeFor(t)) \/ t \in N
  BY <1>2 DEF SomeFrom
<1>9. \A t \in Streams : Goes(st, ts, pr, st, us, pr, t)
  BY <1>1, <1>2, <1>8 DEF Goes, Base, OnePlace, OneWay, Answered, Writes
<1>10. \A t \in Streams : IsTarget(st, t) =>
         /\ ~Some(ts, FailureOf(t)) /\ ~Some(st.toClient, InputOf(t)) /\ st.files[t].error = "ok"
         /\ Reading(pr, t) /\ pr.status = "running" => pr.files[t].left # <<>> \/ Arrived(st, ts, t)
         /\ Answered(ts, t) => Arrived(st, ts, t)
  BY <1>1 DEF Target, IsTarget, RemoteOf
<1>11. \A t \in Streams : IsTarget(st, t) /\ Arrived(st, ts, t) => Arrived(st, us, t)
  BY <1>4, <1>8 DEF Arrived, m
<1>12. \A t \in Streams : IsTarget(st, t) => TargetGoes(st, st, us, pr, t)
  BY <1>8, <1>10, <1>11 DEF TargetGoes, Answered
<1>13. SameBut(st, st, {"toClient", "book"})
  BY <1>1 DEF SameBut
<1>14. Sound(st, us, pr, 0, 0, FALSE)
  BY <1>1, <1>2, <1>9, <1>12, <1>13, MovedSound
<1>15. ASSUME m.type \in {"READ_DONE", "WRITE_READY"}
       PROVE  LET s == m.stream
              IN /\ s \in DOMAIN st.files /\ Settled(st, us, pr, s) /\ ~Nowhere(st, ts, pr, s)
                 /\ m.type = "WRITE_READY" => Writes(st, ts, pr, s)
                 /\ IsTarget(st, s) => m.error = "ok" /\ st.files[s].buffer # <<>>
  <2> DEFINE s == m.stream
  <2>1. s \in Streams /\ s \in A /\ Answered(ts, s)
    BY <1>3, <1>5, <1>8, <1>15 DEF Answered
  <2> HIDE DEF s
  <2>2. /\ s \in DOMAIN st.files /\ ~Opening(st, s) /\ ~Reading(pr, s) /\ ~Telling(st, s)
        /\ ~Answered(us, s)
        /\ ~Some(us, DataFor(s))
    BY <1>1, <1>2, <2>1 DEF Base, OnePlace, OneWay, Answered
  <2>3. Settled(st, us, pr, s) /\ ~Nowhere(st, ts, pr, s)
    BY <2>1, <2>2 DEF Settled, Nowhere
  <2>4. m.type = "WRITE_READY" => Writes(st, ts, pr, s)
    BY <1>7, <1>8, <2>1 DEF Writes, s
  <2>5. ASSUME IsTarget(st, s) PROVE m.error = "ok" /\ st.files[s].buffer # <<>>
    <3>1. m.error = "ok"
      BY <1>6, <1>8, <1>10, <1>15, <2>1, <2>5 DEF s
    <3>2. ~Some(us, SomeFor(s))
      BY <2>2 DEF Some, SomeFor
    <3> QED BY <1>10, <1>11, <2>1, <2>5, <3>1, <3>2 DEF Arrived
  <2> QED BY <2>2, <2>3, <2>4, <2>5 DEF s
<1> QED BY <1>2, <1>14, <1>15 DEF us, m

\* Data is kept in the file.
Keeps(st, s, data) == [st EXCEPT !.files[s].buffer = @ \o data]
LEMMA KeepsSound ==
  ASSUME NEW st, NEW ts, NEW pr, Sound(st, ts, pr, 0, 0, FALSE), NEW s \in DOMAIN st.files,
         st.files[s].error = "ok",
         NEW data \in Seq(Pieces)
  PROVE  LET x == Keeps(st, s, data)
         IN /\ Sound(x, ts, pr, 0, 0, FALSE) /\ SameBut(st, x, {"files", "book"}) /\ DOMAIN x.files = DOMAIN st.files
            /\ x.files[s].error = "ok" /\ (data # <<>> => x.files[s].buffer # <<>>)
<1> DEFINE b == st.files[s].buffer \o data
<1>1. /\ st \in States(st.book) /\ Base(st, ts, pr) /\ Target(st, ts, pr)
      /\ Items(st, ts, pr, 0, FALSE)
      /\ DOMAIN st.files \subseteq Streams /\ (st.item # NoItem => st.item \in ItemRecord)
  BY Facts
<1>2. st.files[s] \in FileRecord
  BY <1>1, TableIs
<1>3. st.files[s].buffer \in Seq(Pieces)
  BY <1>2 DEF FileRecord
<1>4. b \in Seq(Pieces) /\ (st.files[s].buffer # <<>> \/ data # <<>> => b # <<>>)
  BY <1>3
<1> DEFINE x == WithBuffer(st, s, b, st.book)
           f == Filled(st.files[s], b)
<1>5. Keeps(st, s, data) = x
  BY <1>1 DEF States, WithBuffer, Keeps
<1> HIDE DEF b
<1>7. SameBut(st, x, {"files", "book"}) /\ f \in FileRecord /\ x.files = [st.files EXCEPT ![s] = f]
  BY <1>1, <1>4, FilledIs
<1>8. /\ f.remote = st.files[s].remote /\ f.error = "ok" /\ f.closed = st.files[s].closed
      /\ f.buffer = b
  BY <1>2 DEF FileRecord, Filled
<1> HIDE DEF x, f
<1>9. /\ DOMAIN x.files = DOMAIN st.files /\ x.files[s] = f
      /\ \A t \in DOMAIN st.files : t # s => x.files[t] = st.files[t]
  BY <1>7
<1>10. Target(x, ts, pr)
  <2>1. x.item = st.item /\ x.once = st.once /\ x.toClient = st.toClient /\ (Live(x) <=> Live(st))
    BY <1>7 DEF SameBut, Live
  <2> QED BY <1>1, <1>4, <1>8, <1>9, <2>1 DEF Target, Arrived, Telling
<1>11. st.item # NoItem /\ st.item.kind = "input" /\ ~st.item.file /\ st.item.stream = s => f.error # "ok"
  BY <1>1 DEF Items
<1>12. Sound(x, ts, pr, 0, 0, FALSE)
  <2>1. 0 \in Int
    OBVIOUS
  <2> QED BY <1>7, <1>8, <1>10, <1>11, <2>1, ChangedSound
<1> QED BY <1>4, <1>5, <1>7, <1>8, <1>9, <1>12

\* Only the data for a pane is used before the end.
LEMMA DataSound ==
  ASSUME NEW st, NEW ts, NEW pr, Sound(st, ts, pr, 0, 0, FALSE), NEW s \in DOMAIN st.files,
         st.files[s].error = "ok"
  PROVE  Sound(Callback(st, s, FALSE), ts, pr, 0, 0, FALSE) /\ Kept(st, Callback(st, s, FALSE))
<1>1. Items(st, ts, pr, 0, FALSE) /\ DOMAIN st.files \subseteq Streams
  BY Facts
<1>2. s \in Streams /\ s # 0
  BY <1>1 DEF Streams
<1>3. CASE s > 2 /\ st.item.kind = "input"
  <2>1. st.item # NoItem /\ st.item.stream = s
    BY <1>1, <1>2, <1>3 DEF Items
  <2>2. Callback(st, s, FALSE) = Input(st, s, FALSE)
    BY <1>3 DEF Callback
  <2> QED BY <1>3, <2>1, <2>2, InputDataSound
<1>4. CASE ~(s > 2 /\ st.item.kind = "input")
  <2>1. Callback(st, s, FALSE) = st
    BY <1>4 DEF Callback
  <2> QED BY <2>1 DEF Kept
<1> QED BY <1>3, <1>4

LEMMA ReceiveSound == FInv /\ Receive => FInv'
<1> SUFFICES ASSUME FInv, Receive PROVE FInv'
  OBVIOUS
<1> DEFINE st == State
           m == Head(toServer)
           us == Tail(toServer)
           x == Dispatch(st, m)
<1>1. /\ toServer # <<>> /\ "DEAD" \notin c.flags /\ Become(x) /\ toServer' = us /\ proc' = proc
      /\ commands' = commands
  BY DEF Receive
<1>2. commands' \in Nat /\ Sound(st, toServer, proc, 0, 0, FALSE)
  BY <1>1 DEF FInv
<1> HIDE DEF st, us
<1>3. st.c = c /\ Live(st)
  BY <1>1, StateIs DEF st, Live
<1>4. /\ st \in States(st.book) /\ Base(st, toServer, proc) /\ Typed(st, toServer, proc)
      /\ Target(st, toServer, proc)
      /\ Items(st, toServer, proc, 0, FALSE) /\ DOMAIN st.files \subseteq Streams
  BY <1>2, Facts
<1>5. m \in ToServer
  BY <1>1, <1>4, ReceivesOne DEF Typed
<1> DEFINE s == m.stream
<1>6. s \in Streams /\ m.type \in {"READ", "READ_DONE", "WRITE_READY"}
  BY <1>5 DEF ToServer
<1>7. Sound(x, us, proc, 0, 0, FALSE) /\ Kept(st, x)
  <2>1. CASE m.type = "READ" /\ InTree(st, s) /\ st.files[s].error = "ok" /\ ~st.files[s].closed
    <3> DEFINE y == Keeps(st, s, m.data)
    <3>1. m.data \in Seq(Pieces) /\ s \in DOMAIN st.files
      BY <1>5, <2>1 DEF ToServer, InTree
    <3>2. /\ Sound(y, toServer, proc, 0, 0, FALSE) /\ SameBut(st, y, {"files", "book"})
          /\ DOMAIN y.files = DOMAIN st.files /\ y.files[s].error = "ok"
          /\ (m.data # <<>> => y.files[s].buffer # <<>>)
      BY <1>2, <2>1, <3>1, KeepsSound
    <3>3. x = Callback(y, s, FALSE)
      BY <2>1 DEF Dispatch, Keeps
    <3> HIDE DEF y
    <3>4. Live(y) /\ s \in DOMAIN y.files /\ y.files[s].error = "ok" /\ Kept(st, y)
      BY <1>3, <3>1, <3>2 DEF SameBut, Live, Kept
    <3>5. Sound(y, us, proc, 0, 0, FALSE)
      BY <1>1, <3>2, <3>4, TakenSound DEF us
    <3>6. Sound(Callback(y, s, FALSE), us, proc, 0, 0, FALSE) /\ Kept(y, Callback(y, s, FALSE))
      BY <3>4, <3>5, DataSound
    <3> QED BY <3>3, <3>4, <3>6 DEF Kept
  <2>2. CASE m.type = "READ" /\ ~(InTree(st, s) /\ st.files[s].error = "ok" /\ ~st.files[s].closed)
    <3>1. x = st
      BY <2>2 DEF Dispatch
    <3>2. ~IsTarget(st, s)
      BY <1>3, <1>4, <2>2 DEF IsTarget, Target, InTree, RemoteOf
    <3>3. Sound(st, us, proc, 0, 0, FALSE)
      BY <1>1, <1>2, <1>3, <3>2, TakenSound DEF us
    <3> QED BY <3>1, <3>3 DEF Kept
  <2>3. CASE m.type \in {"READ_DONE", "WRITE_READY"}
    <3>1. /\ Sound(st, us, proc, 0, 0, FALSE)
          /\ s \in DOMAIN st.files /\ Settled(st, us, proc, s) /\ ~Nowhere(st, toServer, proc, s)
          /\ m.type = "WRITE_READY" => Writes(st, toServer, proc, s)
          /\ IsTarget(st, s) => m.error = "ok" /\ st.files[s].buffer # <<>>
      BY <1>1, <1>2, <1>3, <2>3, TakenSound DEF us
    <3>2. m.error \in Errors
      BY <1>5, <2>3 DEF ToServer
    <3>3. CASE ~InTree(st, s)
      <4>1. x = st
        BY <3>3 DEF Dispatch
      <4> QED BY <3>1, <4>1 DEF Kept
    <3>4. CASE InTree(st, s) /\ m.type = "WRITE_READY" /\ m.error = "ok"
      <4>1. x = Push(st, s)
        BY <3>4 DEF Dispatch
      <4>2. ~Reads(st, proc, s)
        BY <1>3, <1>4, <1>6, <3>1, <3>4 DEF Base, OneWay
      <4>3. st.item # NoItem /\ st.item.stream = s => st.item.kind = "save"
        BY <1>3, <1>4, <3>1, <3>4 DEF Items
      <4> HIDE DEF s, x
      <4> QED BY <3>1, <4>1, <4>2, <4>3, PushSound
    <3>5. CASE InTree(st, s) /\ ~(m.type = "WRITE_READY" /\ m.error = "ok")
      <4>1. x = Fail(st, s, m.error)
        BY <2>3, <3>5 DEF Dispatch
      <4>2. ~(st.item # NoItem /\ st.item.kind = "input" /\ ~st.item.file /\ st.item.stream = s)
        BY <1>4, <3>1 DEF Items
      <4>3. st.item # NoItem /\ st.item.target /\ st.item.stream = s => m.error = "ok" /\ st.files[s].buffer # <<>>
        BY <3>1, <3>5 DEF IsTarget, InTree, RemoteOf
      <4> HIDE DEF s, x, m
      <4> QED BY <3>1, <3>2, <4>1, <4>2, <4>3, FailSound
    <3> QED BY <3>3, <3>4, <3>5
  <2> QED BY <1>6, <2>1, <2>2, <2>3
<1> QED BY <1>1, <1>2, <1>7, LiveStep DEF st

-----------------------------------------------------------------------------
(***************************************************************************)
(* The process of the client takes a message, or not.                      *)
(***************************************************************************)
Fewer(q, r) == r = q \/ (q # <<>> /\ r = Tail(q))
LEMMA FewerIs ==
  ASSUME NEW q \in Seq(ToClient), NEW r, Fewer(q, r)
  PROVE  /\ r \in Seq(ToClient)
         /\ \A t \in Streams :
              /\ Some(r, OpenOf(t)) => Some(q, OpenOf(t))
              /\ Some(r, ReadOf(t)) => Some(q, ReadOf(t))
              /\ Some(r, WriteOf(t)) => Some(q, WriteOf(t))
              /\ Some(r, InputOf(t)) => Some(q, InputOf(t))
              /\ Once(q, OpenOf(t)) => Once(r, OpenOf(t))
<1>1. CASE r = q
  BY <1>1
<1>2. CASE q # <<>> /\ r = Tail(q)
  <2>1. /\ Tail(q) \in Seq(ToClient)
        /\ \A S : Some(q, S) <=> Some(Tail(q), S) \/ Head(q) \in S
        /\ \A S : Once(q, S) => Once(Tail(q), S) /\ ~(Some(Tail(q), S) /\ Head(q) \in S)
    BY <1>2, Taken
  <2> QED BY <1>2, <2>1
<1> QED BY <1>1, <1>2 DEF Fewer

\* What the client has open, and may have closed; a file for the target
\* client is read to its end.
Lesser(st, ts, pr, qr) ==
  /\ qr.status = "running" => pr.status = "running"
  /\ \A t \in DOMAIN qr.files :
       /\ t \in DOMAIN pr.files /\ qr.files[t].reading = pr.files[t].reading
       /\ qr.files[t].reading => qr.files[t].left = pr.files[t].left \/ Arrived(st, ts, t)

LEMMA LessSound ==
  ASSUME NEW st, NEW ts, NEW pr, Sound(st, ts, pr, 0, 0, FALSE), Live(st),
         NEW x, SameBut(st, x, {"toClient", "book"}), Fewer(st.toClient, x.toClient),
         NEW qr, ProcRecord(qr), Lesser(st, ts, pr, qr)
  PROVE  Sound(x, ts, qr, 0, 0, FALSE)
<1>1. /\ st \in States(st.book) /\ Base(st, ts, pr) /\ Target(st, ts, pr) /\ ts \in Seq(ToServer)
      /\ st.toClient \in Seq(ToClient)
  <2>1. st \in States(st.book) /\ Base(st, ts, pr) /\ Target(st, ts, pr) /\ ts \in Seq(ToServer)
    BY Facts DEF Typed
  <2> QED BY <2>1 DEF States
<1>2. \A t \in Streams :
        /\ Some(x.toClient, OpenOf(t)) => Some(st.toClient, OpenOf(t))
        /\ Some(x.toClient, ReadOf(t)) => Some(st.toClient, ReadOf(t))
        /\ Some(x.toClient, WriteOf(t)) => Some(st.toClient, WriteOf(t))
        /\ Some(x.toClient, InputOf(t)) => Some(st.toClient, InputOf(t))
        /\ Once(st.toClient, OpenOf(t)) => Once(x.toClient, OpenOf(t))
  BY <1>1, FewerIs
<1>3. \A t \in Streams : Reading(qr, t) => /\ Reading(pr, t)
                                           /\ qr.files[t].left = pr.files[t].left \/ Arrived(st, ts, t)
  BY DEF Lesser, Reading
<1>4. \A t \in Streams : /\ Reads(x, qr, t) => Reads(st, pr, t)
                         /\ Writes(x, ts, qr, t) => Writes(st, ts, pr, t)
  BY <1>2, <1>3 DEF Reads, Writes, Lesser
<1>5. \A t \in Streams : Goes(st, ts, pr, x, ts, qr, t)
  BY <1>1, <1>2, <1>3, <1>4 DEF Goes, Base, OnePlace, OneWay, Opening
<1>6. \A t \in Streams : IsTarget(st, t) => TargetGoes(st, x, ts, qr, t)
  BY <1>1, <1>2, <1>3 DEF TargetGoes, IsTarget, RemoteOf, Target, Lesser
<1> QED BY <1>1, <1>5, <1>6, MovedSound

\* The client sends data that it has read, of a file that it has.
LEMMA SendsData ==
  ASSUME NEW st, NEW ts, NEW pr, Sound(st, ts, pr, 0, 0, FALSE), Live(st),
         NEW s \in Streams, Opening(st, s) \/ Reading(pr, s), NEW data \in Seq(Pieces)
  PROVE  LET us == Append(ts, Data(s, data))
         IN /\ Sound(st, us, pr, 0, 0, FALSE) /\ (data # <<>> => Arrived(st, us, s))
            /\ \A t \in Streams : Writes(st, us, pr, t) <=> Writes(st, ts, pr, t)
<1> DEFINE m == Data(s, data)
           us == Append(ts, m)
           N == IF m.type = "READ" /\ m.data # <<>> THEN {m.stream} ELSE {}
           F == IF m.type # "READ" /\ m.error # "ok" THEN {m.stream} ELSE {}
           Of(types) == IF m.type \in types THEN {m.stream} ELSE {}
           A == Of({"READ_DONE", "WRITE_READY"})
           Y == Of({"WRITE_READY"})
           G == Of({"READ"})
<1>1. /\ st \in States(st.book) /\ Base(st, ts, pr) /\ Target(st, ts, pr) /\ ts \in Seq(ToServer)
      /\ ProcRecord(pr)
  BY Facts DEF Typed
<1>2. m \in ToServer /\ m.type = "READ" /\ m.stream = s /\ m.data = data
  BY DEF ToServer, Data
<1> HIDE DEF m
<1>3. Answers(ts, A, Y, F, G, N, us)
  BY <1>1, <1>2, AnswersOne
<1>4. A = {} /\ Y = {} /\ F = {} /\ G = {s} /\ N = (IF data # <<>> THEN {s} ELSE {})
  BY <1>2
<1> HIDE DEF A, Y, F, G, N, Of, us
<1>5. /\ us \in Seq(ToServer)
      /\ \A t \in Streams : /\ Some(us, AnswerOf(t)) <=> Some(ts, AnswerOf(t))
                            /\ Some(us, ReadyOf(t)) <=> Some(ts, ReadyOf(t))
                            /\ Some(us, FailureOf(t)) <=> Some(ts, FailureOf(t))
                            /\ Some(us, SomeFor(t)) <=> Some(ts, SomeFor(t)) \/ t \in N
                            /\ Once(ts, AnswerOf(t)) => Once(us, AnswerOf(t))
                            /\ Before(ts, DataFor(t), AnswerOf(t)) /\ ~(Some(ts, AnswerOf(t)) /\ t = s) =>
                                 Before(us, DataFor(t), AnswerOf(t))
  BY <1>3, <1>4 DEF Answers, SomeFrom
<1>6. ~Answered(ts, s)
  BY <1>1 DEF Base, OnePlace
<1>7. \A t \in Streams : Goes(st, ts, pr, st, us, pr, t)
  BY <1>1, <1>5, <1>6 DEF Goes, Base, OnePlace, OneWay, Answered, Writes
<1>8. \A t \in Streams : IsTarget(st, t) => TargetGoes(st, st, us, pr, t)
  BY <1>1, <1>5 DEF TargetGoes, IsTarget, RemoteOf, Target, Answered, Arrived
<1>9. SameBut(st, st, {"toClient", "book"})
  BY <1>1 DEF SameBut
<1>10. Sound(st, us, pr, 0, 0, FALSE)
  BY <1>1, <1>5, <1>7, <1>8, <1>9, MovedSound
<1>11. data # <<>> => Arrived(st, us, s)
  BY <1>4, <1>5 DEF Arrived
<1>12. \A t \in Streams : Writes(st, us, pr, t) <=> Writes(st, ts, pr, t)
  BY <1>5 DEF Writes
<1> QED BY <1>10, <1>11, <1>12 DEF us, m

\* The client answers for a stream that it was to open, or has read; a file
\* to write is open when it is ready.
AnswersFor(st, ts, pr, x, qr, m) ==
  LET s == m.stream
  IN /\ m \in ToServer /\ m.type \in {"READ_DONE", "WRITE_READY"}
     /\ Opening(st, s) \/ Reading(pr, s)
     /\ ~Opening(x, s) /\ ~Reading(qr, s)
     /\ m.type = "WRITE_READY" => Writes(st, ts, pr, s)
     /\ IsTarget(st, s) => m.error = "ok" /\ Arrived(st, ts, s)
     /\ qr.status = "running" => pr.status = "running"
     /\ \A t \in DOMAIN qr.files :
          \/ t \in DOMAIN pr.files /\ qr.files[t].reading = pr.files[t].reading /\ qr.files[t].left = pr.files[t].left
          \/ t = s /\ ~qr.files[t].reading /\ m.type = "WRITE_READY"

LEMMA AnswersSound ==
  ASSUME NEW st, NEW ts, NEW pr, Sound(st, ts, pr, 0, 0, FALSE), Live(st),
         NEW x, SameBut(st, x, {"toClient", "book"}), Fewer(st.toClient, x.toClient),
         NEW qr, ProcRecord(qr), NEW m, AnswersFor(st, ts, pr, x, qr, m)
  PROVE  Sound(x, Append(ts, m), qr, 0, 0, FALSE)
<1> DEFINE s == m.stream
           us == Append(ts, m)
           N == IF m.type = "READ" /\ m.data # <<>> THEN {m.stream} ELSE {}
           F == IF m.type # "READ" /\ m.error # "ok" THEN {m.stream} ELSE {}
           Of(types) == IF m.type \in types THEN {m.stream} ELSE {}
           A == Of({"READ_DONE", "WRITE_READY"})
           Y == Of({"WRITE_READY"})
           G == Of({"READ"})
<1>1. /\ st \in States(st.book) /\ Base(st, ts, pr) /\ Target(st, ts, pr) /\ ts \in Seq(ToServer)
      /\ st.toClient \in Seq(ToClient)
  <2>1. st \in States(st.book) /\ Base(st, ts, pr) /\ Target(st, ts, pr) /\ ts \in Seq(ToServer)
    BY Facts DEF Typed
  <2> QED BY <2>1 DEF States
<1>2. m \in ToServer /\ m.type \in {"READ_DONE", "WRITE_READY"}
  BY DEF AnswersFor
<1>0. s \in Streams
  BY <1>2 DEF ToServer
<1>3. Answers(ts, A, Y, F, G, N, us)
  BY <1>1, <1>2, AnswersOne
<1>4. /\ A = {s} /\ (\A t : t \in Y <=> t = s /\ m.type = "WRITE_READY")
      /\ (\A t : t \in F <=> t = s /\ m.error # "ok")
      /\ G = {} /\ N = {}
  BY <1>2
<1> HIDE DEF A, Y, F, G, N, Of, us, s
<1>5. /\ us \in Seq(ToServer)
      /\ \A t \in Streams : /\ Some(us, AnswerOf(t)) <=> Some(ts, AnswerOf(t)) \/ t = s
                            /\ Some(us, ReadyOf(t)) <=> Some(ts, ReadyOf(t)) \/ (t = s /\ m.type = "WRITE_READY")
                            /\ Some(us, FailureOf(t)) <=> Some(ts, FailureOf(t)) \/ (t = s /\ m.error # "ok")
                            /\ Some(us, SomeFor(t)) <=> Some(ts, SomeFor(t))
                            /\ Once(ts, AnswerOf(t)) /\ ~(Some(ts, AnswerOf(t)) /\ t = s) => Once(us, AnswerOf(t))
                            /\ Before(ts, DataFor(t), AnswerOf(t)) => Before(us, DataFor(t), AnswerOf(t))
  BY <1>3, <1>4 DEF Answers, SomeFrom
<1>6. /\ Opening(st, s) \/ Reading(pr, s)
      /\ ~Opening(x, s) /\ ~Reading(qr, s)
      /\ m.type = "WRITE_READY" => Writes(st, ts, pr, s)
      /\ IsTarget(st, s) => m.error = "ok" /\ Arrived(st, ts, s)
      /\ qr.status = "running" => pr.status = "running"
      /\ \A t \in DOMAIN qr.files :
           \/ t \in DOMAIN pr.files /\ qr.files[t].reading = pr.files[t].reading /\ qr.files[t].left = pr.files[t].left
           \/ t = s /\ ~qr.files[t].reading /\ m.type = "WRITE_READY"
  BY DEF AnswersFor, s
<1>7. ~Answered(ts, s)
  BY <1>0, <1>1, <1>6 DEF Base, OnePlace
<1>8. \A t \in Streams :
        /\ Some(x.toClient, OpenOf(t)) => Some(st.toClient, OpenOf(t))
        /\ Some(x.toClient, ReadOf(t)) => Some(st.toClient, ReadOf(t))
        /\ Some(x.toClient, WriteOf(t)) => Some(st.toClient, WriteOf(t))
        /\ Some(x.toClient, InputOf(t)) => Some(st.toClient, InputOf(t))
        /\ Once(st.toClient, OpenOf(t)) => Once(x.toClient, OpenOf(t))
  BY <1>1, FewerIs
<1>9. \A t \in Streams : Reading(qr, t) => t # s /\ Reading(pr, t) /\ qr.files[t].left = pr.files[t].left
  BY <1>6 DEF Reading
<1>10. \A t \in Streams : /\ Reads(x, qr, t) => Reads(st, pr, t)
                          /\ Writes(x, us, qr, t) => Writes(st, ts, pr, t)
  BY <1>5, <1>6, <1>8, <1>9 DEF Reads, Writes
<1>11. \A t \in Streams : Goes(st, ts, pr, x, us, qr, t)
  BY <1>1, <1>5, <1>6, <1>7, <1>8, <1>9, <1>10 DEF Goes, Base, OnePlace, OneWay, Opening, Answered
<1>12. \A t \in Streams : Arrived(st, us, t) <=> Arrived(st, ts, t)
  BY <1>5 DEF Arrived
<1>13. \A t \in Streams : IsTarget(st, t) => TargetGoes(st, x, us, qr, t)
  BY <1>1, <1>5, <1>6, <1>8, <1>9, <1>12 DEF TargetGoes, IsTarget, RemoteOf, Target, Answered
<1> QED BY <1>1, <1>5, <1>11, <1>13, MovedSound DEF us

\* A file that the client was to open is read.
LEMMA ReadsSound ==
  ASSUME NEW st, NEW ts, NEW pr, Sound(st, ts, pr, 0, 0, FALSE), Live(st),
         NEW x, SameBut(st, x, {"toClient", "book"}), Fewer(st.toClient, x.toClient),
         NEW s \in Streams,
         Opening(st, s), ~Opening(x, s), Reads(st, pr, s),
         NEW qr, ProcRecord(qr), qr.status = pr.status, DOMAIN qr.files = DOMAIN pr.files \cup {s},
         qr.files[s].reading, IsTarget(st, s) => qr.files[s].left # <<>>,
         \A t \in DOMAIN pr.files : t # s => qr.files[t] = pr.files[t]
  PROVE  Sound(x, ts, qr, 0, 0, FALSE)
<1>1. /\ st \in States(st.book) /\ Base(st, ts, pr) /\ Target(st, ts, pr) /\ ts \in Seq(ToServer)
      /\ st.toClient \in Seq(ToClient)
  <2>1. st \in States(st.book) /\ Base(st, ts, pr) /\ Target(st, ts, pr) /\ ts \in Seq(ToServer)
    BY Facts DEF Typed
  <2> QED BY <2>1 DEF States
<1>2. \A t \in Streams :
        /\ Some(x.toClient, OpenOf(t)) => Some(st.toClient, OpenOf(t))
        /\ Some(x.toClient, ReadOf(t)) => Some(st.toClient, ReadOf(t))
        /\ Some(x.toClient, WriteOf(t)) => Some(st.toClient, WriteOf(t))
        /\ Some(x.toClient, InputOf(t)) => Some(st.toClient, InputOf(t))
        /\ Once(st.toClient, OpenOf(t)) => Once(x.toClient, OpenOf(t))
  BY <1>1, FewerIs
<1>3. \A t \in Streams : Reading(qr, t) => t = s \/ (Reading(pr, t) /\ qr.files[t] = pr.files[t])
  BY DEF Reading
<1>4. \A t \in Streams : /\ Reads(x, qr, t) => Reads(st, pr, t)
                         /\ Writes(x, ts, qr, t) => Writes(st, ts, pr, t)
  BY <1>2, <1>3 DEF Reads, Writes
<1>5. ~Answered(ts, s)
  BY <1>1 DEF Base, OnePlace
<1>6. \A t \in Streams : Goes(st, ts, pr, x, ts, qr, t)
  BY <1>1, <1>2, <1>3, <1>4, <1>5 DEF Goes, Base, OnePlace, OneWay, Opening
<1>7. \A t \in Streams : IsTarget(st, t) => TargetGoes(st, x, ts, qr, t)
  BY <1>1, <1>2, <1>3, <1>5 DEF TargetGoes, IsTarget, RemoteOf, Target
<1> QED BY <1>1, <1>6, <1>7, MovedSound

\* The state of the process: its status and files.
LEMMA StdIs ==
  ASSUME NEW p, ProcRecord(p), NEW fd
  PROVE  /\ LET q == Release(p, fd) IN ProcRecord(q) /\ q.files = p.files /\ q.status = p.status
         /\ LET q == Take(p, fd) IN ProcRecord(q) /\ q.files = p.files /\ q.status = p.status
<1>1. CASE fd = High
  BY <1>1 DEF Release, Take
<1>2. CASE fd # High
  <2>1. /\ LET q == [p EXCEPT !.std[fd] = "free"] IN ProcRecord(q) /\ q.files = p.files /\ q.status = p.status
    BY DEF ProcRecord
  <2>2. /\ LET q == [p EXCEPT !.std[fd] = "file"] IN ProcRecord(q) /\ q.files = p.files /\ q.status = p.status
    BY DEF ProcRecord
  <2> QED BY <1>2, <2>1, <2>2 DEF Release, Take
<1> QED BY <1>1, <1>2

LEMMA StatusIs ==
  ASSUME NEW p, ProcRecord(p)
 
   
      PROVE  \A q \in {Check(p), TryExit(p), TryExit([p EXCEPT !.exitflag = TRUE]), Fatal(p), [p EXCEPT !.status = "mistaken"]} :
           ProcRecord(q) /\ q.files = p.files /\ (q.status = "running" => p.status = "running")
<1>1. ASSUME NEW r, ProcRecord(r)
 
    PROVE LET q == TryExit(r) IN ProcRecord(q) /\ q.files = r.files /\ (q.status = "running" => r.status = "running")
  <2>1. /\ LET q == [r EXCEPT !.status = "exited"] IN ProcRecord(q) /\ q.files = r.files /\ q.status = "exited"
    BY <1>1 DEF ProcRecord
  <2> QED BY <1>1, <2>1 DEF TryExit
<1>2. /\ LET q == [p EXCEPT !.exitflag = TRUE] IN ProcRecord(q) /\ q.files = p.files /\ q.status = p.status
  BY DEF ProcRecord
<1>3. LET q == Fatal(p) IN ProcRecord(q) /\ q.files = p.files /\ q.status # "running"
  BY DEF ProcRecord, Fatal
<1>4. /\ LET q == [p EXCEPT !.status = "mistaken"] IN ProcRecord(q) /\ q.files = p.files /\ q.status # "running"
  BY DEF ProcRecord
<1>5. LET q == Check(p) IN ProcRecord(q) /\ q.files = p.files /\ (q.status = "running" => p.status = "running")
  BY <1>1 DEF Check
<1> QED BY <1>1, <1>2, <1>3, <1>4, <1>5

SetFiles(p, fs) == [p EXCEPT !.files = fs]
LEMMA SetFilesIs ==
  ASSUME NEW p, ProcRecord(p), NEW fs, fs = [t \in DOMAIN fs |-> fs[t]], DOMAIN fs \subseteq Streams,
         \A t \in DOMAIN fs : fs[t] \in OpenFile(fs[t].fd)
  PROVE  LET q == SetFiles(p, fs) IN ProcRecord(q) /\ q.files = fs /\ q.status = p.status
BY DEF ProcRecord, SetFiles

\* A file is opened, or closed.
IsOpen(f) == f \in OpenFile(f.fd)
HasOpened(q, p, s, f) ==
  /\ ProcRecord(q) /\ q.status = p.status /\ DOMAIN q.files = DOMAIN p.files \cup {s} /\ q.files[s] = f
  /\ \A t \in DOMAIN p.files : t # s => q.files[t] = p.files[t]
LEMMA FileOpens ==
  ASSUME NEW p, ProcRecord(p), NEW s \in Streams, NEW f, IsOpen(f)
  PROVE  HasOpened(SetFiles(p, With(p.files, s, f)), p, s, f)
<1> DEFINE fs == With(p.files, s, f)
<1>1. /\ fs = [t \in DOMAIN fs |-> fs[t]] /\ DOMAIN fs = DOMAIN p.files \cup {s} /\ fs[s] = f
      /\ \A t \in DOMAIN p.files : t # s => fs[t] = p.files[t]
  BY DEF With
<1> HIDE DEF fs
<1>2. DOMAIN fs \subseteq Streams /\ \A t \in DOMAIN fs : fs[t] \in OpenFile(fs[t].fd)
  BY <1>1 DEF ProcRecord, IsOpen
<1>3. LET q == SetFiles(p, fs) IN ProcRecord(q) /\ q.files = fs /\ q.status = p.status
  BY <1>1, <1>2, SetFilesIs
<1> QED BY <1>1, <1>3 DEF fs, HasOpened

LEMMA ClosedIs ==
  ASSUME NEW p, ProcRecord(p), NEW s \in DOMAIN p.files
  PROVE  LET q == Closed(p, s)
         IN /\ ProcRecord(q) /\ q.status = p.status /\ DOMAIN q.files = DOMAIN p.files \ {s}
            /\ \A t \in DOMAIN q.files : q.files[t] = p.files[t]
<1> DEFINE r == IF p.files[s].open THEN Release(p, p.files[s].fd) ELSE p
           fs == Without(p.files, s)
<1>1. ProcRecord(r) /\ r.files = p.files /\ r.status = p.status
  BY StdIs
<1>2. Closed(p, s) = SetFiles(r, fs)
  BY <1>1 DEF Closed, SetFiles
<1> HIDE DEF r
<1>3. /\ fs = [t \in DOMAIN fs |-> fs[t]] /\ DOMAIN fs = DOMAIN p.files \ {s}
      /\ \A t \in DOMAIN fs : fs[t] = p.files[t]
  BY DEF Without
<1> HIDE DEF fs
<1>4. DOMAIN fs \subseteq Streams /\ \A t \in DOMAIN fs : fs[t] \in OpenFile(fs[t].fd)
  BY <1>3 DEF ProcRecord
<1>5. LET q == SetFiles(r, fs) IN ProcRecord(q) /\ q.files = fs /\ q.status = r.status
  BY <1>1, <1>3, <1>4, SetFilesIs
<1> QED BY <1>1, <1>2, <1>3, <1>5

\* A file is changed.
LEMMA FileChanges ==
  ASSUME NEW p, ProcRecord(p), NEW s \in DOMAIN p.files, NEW f, f \in OpenFile(f.fd),
         f.reading = p.files[s].reading
  PROVE  LET q == SetFiles(p, [p.files EXCEPT ![s] = f])
         IN /\ ProcRecord(q) /\ q.status = p.status /\ DOMAIN q.files = DOMAIN p.files /\ q.files[s] = f
            /\ \A t \in DOMAIN p.files : t # s => q.files[t] = p.files[t]
<1> DEFINE fs == [p.files EXCEPT ![s] = f]
<1>1. /\ fs = [t \in DOMAIN fs |-> fs[t]] /\ DOMAIN fs = DOMAIN p.files /\ fs[s] = f
      /\ \A t \in DOMAIN p.files : t # s => fs[t] = p.files[t]
  BY DEF ProcRecord
<1> HIDE DEF fs
<1>2. DOMAIN fs \subseteq Streams /\ \A t \in DOMAIN fs : fs[t] \in OpenFile(fs[t].fd)
  BY <1>1 DEF ProcRecord
<1>3. LET q == SetFiles(p, fs) IN ProcRecord(q) /\ q.files = fs /\ q.status = p.status
  BY <1>1, <1>2, SetFilesIs
<1> QED BY <1>1, <1>3 DEF fs

WithLeft(p, s, data) == [p EXCEPT !.files[s].left = data]
LEMMA LeftIs ==
  ASSUME NEW p, ProcRecord(p), NEW s \in DOMAIN p.files, NEW data \in Seq(Pieces)
  PROVE  LET q == WithLeft(p, s, data)
         IN /\ ProcRecord(q) /\ q.status = p.status /\ DOMAIN q.files = DOMAIN p.files
            /\ q.files[s].reading = p.files[s].reading
            /\ \A t \in DOMAIN p.files : t # s => q.files[t] = p.files[t]
<1> DEFINE f == [p.files[s] EXCEPT !.left = data]
<1>1. p.files[s] \in OpenFile(p.files[s].fd)
  BY DEF ProcRecord
<1>2. f \in OpenFile(f.fd) /\ f.reading = p.files[s].reading
  BY <1>1 DEF OpenFile
<1>3. WithLeft(p, s, data) = SetFiles(p, [p.files EXCEPT ![s] = f])
  BY DEF WithLeft, SetFiles, ProcRecord
<1> HIDE DEF f
<1>4. LET q == SetFiles(p, [p.files EXCEPT ![s] = f])
      IN /\ ProcRecord(q) /\ q.status = p.status /\ DOMAIN q.files = DOMAIN p.files /\ q.files[s] = f
         /\ \A t \in DOMAIN p.files : t # s => q.files[t] = p.files[t]
  BY <1>2, FileChanges
<1> QED BY <1>2, <1>3, <1>4

NoEvent(p, s) == [p EXCEPT !.files[s].event = FALSE]
LEMMA NoEventIs ==
  ASSUME NEW p, ProcRecord(p), NEW s \in DOMAIN p.files
  PROVE  LET q == NoEvent(p, s)
         IN /\ ProcRecord(q) /\ q.status = p.status /\ DOMAIN q.files = DOMAIN p.files
            /\ q.files[s].reading = p.files[s].reading
            /\ \A t \in DOMAIN p.files : t # s => q.files[t] = p.files[t]
<1> DEFINE f == [p.files[s] EXCEPT !.event = FALSE]
<1>1. p.files[s] \in OpenFile(p.files[s].fd)
  BY DEF ProcRecord
<1>2. f \in OpenFile(f.fd) /\ f.reading = p.files[s].reading
  BY <1>1 DEF OpenFile
<1>3. NoEvent(p, s) = SetFiles(p, [p.files EXCEPT ![s] = f])
  BY DEF NoEvent, SetFiles, ProcRecord
<1> HIDE DEF f
<1>4. LET q == SetFiles(p, [p.files EXCEPT ![s] = f])
      IN /\ ProcRecord(q) /\ q.status = p.status /\ DOMAIN q.files = DOMAIN p.files /\ q.files[s] = f
         /\ \A t \in DOMAIN p.files : t # s => q.files[t] = p.files[t]
  BY <1>2, FileChanges
<1> QED BY <1>2, <1>3, <1>4

NotOpen(p, s) == [p EXCEPT !.files[s].open = FALSE]
LEMMA NotOpenIs ==
  ASSUME NEW p, ProcRecord(p), NEW s \in DOMAIN p.files
  PROVE  LET q == NotOpen(p, s)
         IN /\ ProcRecord(q) /\ q.status = p.status /\ DOMAIN q.files = DOMAIN p.files
            /\ q.files[s].reading = p.files[s].reading
            /\ \A t \in DOMAIN p.files : t # s => q.files[t] = p.files[t]
<1> DEFINE f == [p.files[s] EXCEPT !.open = FALSE]
<1>1. p.files[s] \in OpenFile(p.files[s].fd)
  BY DEF ProcRecord
<1>2. f \in OpenFile(f.fd) /\ f.reading = p.files[s].reading
  BY <1>1 DEF OpenFile
<1>3. NotOpen(p, s) = SetFiles(p, [p.files EXCEPT ![s] = f])
  BY DEF NotOpen, SetFiles, ProcRecord
<1> HIDE DEF f
<1>4. LET q == SetFiles(p, [p.files EXCEPT ![s] = f])
      IN /\ ProcRecord(q) /\ q.status = p.status /\ DOMAIN q.files = DOMAIN p.files /\ q.files[s] = f
         /\ \A t \in DOMAIN p.files : t # s => q.files[t] = p.files[t]
  BY <1>2, FileChanges
<1> QED BY <1>2, <1>3, <1>4

LEMMA BrokenIs ==
  ASSUME NEW p, ProcRecord(p), NEW s \in DOMAIN p.files
  PROVE  LET q == Broken(p, s)
         IN /\ ProcRecord(q) /\ q.status = p.status /\ DOMAIN q.files = DOMAIN p.files
            /\ q.files[s].reading = p.files[s].reading
            /\ \A t \in DOMAIN p.files : t # s => q.files[t] = p.files[t]
<1> DEFINE r == Release(p, p.files[s].fd)
           d == <<>>
<1>0. d \in Seq(Pieces)
  OBVIOUS
<1>1. ProcRecord(r) /\ r.files = p.files /\ r.status = p.status
  BY StdIs
<1>2. Broken(p, s) = WithLeft(NotOpen(NoEvent(r, s), s), s, d)
  BY DEF Broken, WithLeft, NotOpen, NoEvent
<1> HIDE DEF r, d
<1> DEFINE u == NoEvent(r, s)
           v == NotOpen(u, s)
           w == WithLeft(v, s, d)
<1>3. /\ ProcRecord(u) /\ u.status = r.status /\ DOMAIN u.files = DOMAIN r.files
      /\ u.files[s].reading = r.files[s].reading
      /\ \A t \in DOMAIN r.files : t # s => u.files[t] = r.files[t]
  BY <1>1, NoEventIs
<1> HIDE DEF u
<1>4. /\ ProcRecord(v) /\ v.status = u.status /\ DOMAIN v.files = DOMAIN u.files
      /\ v.files[s].reading = u.files[s].reading
      /\ \A t \in DOMAIN u.files : t # s => v.files[t] = u.files[t]
  BY <1>1, <1>3, NotOpenIs
<1> HIDE DEF v
<1>5. /\ ProcRecord(w) /\ w.status = v.status /\ DOMAIN w.files = DOMAIN v.files
      /\ w.files[s].reading = v.files[s].reading
      /\ \A t \in DOMAIN v.files : t # s => w.files[t] = v.files[t]
  BY <1>0, <1>1, <1>3, <1>4, LeftIs
<1>6. Broken(p, s) = w
  BY <1>2 DEF u, v
<1> HIDE DEF w
<1> QED BY <1>1, <1>3, <1>4, <1>5, <1>6

\* The state of the server after a step of the client.
After(q, b) ==
  [c |-> c, files |-> files, once |-> once, item |-> item, toClient |-> q, pane |-> pane, book |-> b]
LEMMA AfterIs ==
  ASSUME State \in States(State.book), NEW q \in Seq(ToClient), NEW b
  PROVE  SameBut(State, After(q, b), {"toClient", "book"}) /\ After(q, b).toClient = q
BY DEF After, States, SameBut, State

Stays == UNCHANGED <<c, files, once, item, pane, commands, instance>>
LEMMA ClientStep ==
  ASSUME FInv, Stays, NEW q, NEW b, NEW ts, NEW pr, toClient' = q, book' = b, toServer' = ts,
         proc' = pr,
         Sound(After(q, b), ts, pr, 0, 0, FALSE)
  PROVE  FInv'
<1> DEFINE st == After(q, b)
<1>1. State' = st
  BY DEF State, After, Stays
<1>2. st.c = c
  BY DEF After, State
<1>3. Calm /\ instance' = instance /\ commands' \in Nat /\ ("FREED" \in st.c.flags => st.c.refs = 0)
  BY <1>2 DEF FInv, Stays
<1> HIDE DEF st
<1> QED BY <1>1, <1>3, Preserves DEF st

LEMMA Joined ==
  ASSUME NEW q \in Seq(ToServer), NEW m, NEW n
  PROVE  q \o <<>> = q /\ q \o <<m>> = Append(q, m) /\ q \o <<m, n>> = Append(Append(q, m), n)
OBVIOUS

\* What is known when the client takes a step, and when it takes a message.
LEMMA Running ==
  ASSUME FInv, proc.status = "running"
  PROVE  /\ Sound(State, toServer, proc, 0, 0, FALSE) /\ Live(State) /\ Calm /\ ProcRecord(proc)
         /\ State \in States(State.book) /\ Base(State, toServer, proc)
         /\ Target(State, toServer, proc)
         /\ Items(State, toServer, proc, 0, FALSE) /\ toServer \in Seq(ToServer)
         /\ toClient \in Seq(ToClient)
         /\ \A t \in Streams : IsTarget(State, t) =>
              /\ "fails" \notin Uses /\ Content # <<>> /\ ~Some(toClient, InputOf(t))
              /\ ~Writes(State, toServer, proc, t)
              /\ Reading(proc, t) /\ proc.files[t].left = <<>> => Arrived(State, toServer, t)
<1>1. Sound(State, toServer, proc, 0, 0, FALSE) /\ Calm
  BY DEF FInv
<1>2. /\ State \in States(State.book) /\ Base(State, toServer, proc) /\ Target(State, toServer, proc)
      /\ Items(State, toServer, proc, 0, FALSE) /\ Typed(State, toServer, proc)
  BY <1>1, Facts
<1>3. ProcRecord(proc) /\ toServer \in Seq(ToServer)
  BY <1>2 DEF Typed
<1>4. toClient \in Seq(ToClient)
  BY <1>2, StateIs DEF States
<1>5. Live(State)
  BY <1>2 DEF Base, Quiet
<1>6. ASSUME NEW t \in Streams, IsTarget(State, t)
      PROVE  /\ "fails" \notin Uses /\ Content # <<>> /\ ~Some(toClient, InputOf(t))
             /\ ~Writes(State, toServer, proc, t)
             /\ Reading(proc, t) /\ proc.files[t].left = <<>> => Arrived(State, toServer, t)
  <2>1. /\ State.item # NoItem /\ State.item.target /\ State.item.stream = t
        /\ t \in DOMAIN State.files /\ State.files[t].remote
    BY <1>6 DEF IsTarget, RemoteOf
  <2>2. "target" \in Uses /\ State.item.kind = "load"
    BY <1>2, <2>1 DEF Items
  <2>3. "fails" \notin Uses /\ Content # <<>>
    BY <1>1, <2>2 DEF Calm
  <2>4. ~Writes(State, toServer, proc, t)
    BY <1>2, <1>5, <2>1, <2>2 DEF Items
  <2>5. /\ ~Some(toClient, InputOf(t))
        /\ Reading(proc, t) /\ proc.files[t].left = <<>> => Arrived(State, toServer, t)
    BY <1>2, <1>5, <2>1, StateIs DEF Target
  <2> QED BY <2>3, <2>4, <2>5
<1> QED BY <1>1, <1>2, <1>3, <1>4, <1>5, <1>6

\* The client has taken a message, of stream s.
LEMMA Message ==
  ASSUME FInv, proc.status = "running", toClient # <<>>, NEW b
  PROVE  LET m == Head(toClient)
             x == After(Tail(toClient), b)
         IN /\ m \in ToClient /\ SameBut(State, x, {"toClient", "book"}) /\ Fewer(toClient, x.toClient)
            /\ State.toClient = toClient /\ x.toClient = Tail(toClient)
            /\ m.type # "EXIT" => m.stream \in Streams
            /\ m.type \in {"READ_OPEN", "WRITE_OPEN"} =>
                 Opening(State, m.stream) /\ ~Opening(x, m.stream)
            /\ m.type \in {"READ_OPEN", "READ_CANCEL"} =>
                 /\ Reads(State, proc, m.stream)
                 /\ m.type = "READ_CANCEL" \/ m.path = "-" => ~IsTarget(State, m.stream)
            /\ m.type \in {"WRITE_OPEN", "WRITE", "WRITE_CLOSE"} => Writes(State, toServer, proc, m.stream)
<1> DEFINE m == Head(toClient)
           r == Tail(toClient)
           x == After(r, b)
           o == IF m.type = "EXIT" THEN {} ELSE {m.stream}
           Of(types) == IF m.type \in types THEN o ELSE {}
           O == Of({"READ_OPEN", "WRITE_OPEN"})
           R == Of({"READ_OPEN", "READ_CANCEL"})
           W == Of({"WRITE_OPEN", "WRITE", "WRITE_CLOSE"})
           I == IF m.type = "READ_CANCEL" \/ (m.type = "READ_OPEN" /\ m.path = "-") THEN o ELSE {}
<1>1. /\ toClient \in Seq(ToClient) /\ State \in States(State.book) /\ Base(State, toServer, proc)
      /\ Live(State)
  BY Running
<1>2. /\ m \in ToClient /\ r \in Seq(ToClient) /\ SomeTo(r, O, R, W, I, toClient)
      /\ \A s \in Streams :
           Once(toClient, OpenOf(s)) => Once(r, OpenOf(s)) /\ ~(Some(r, OpenOf(s)) /\ s \in O)
  BY <1>1, GivesOne
<1>3. m.type # "EXIT" => m.stream \in Streams
  BY <1>2 DEF ToClient
<1>4. /\ m.type \in {"READ_OPEN", "WRITE_OPEN"} => m.stream \in O
      /\ m.type \in {"READ_OPEN", "READ_CANCEL"} => m.stream \in R
      /\ m.type \in {"WRITE_OPEN", "WRITE", "WRITE_CLOSE"} => m.stream \in W
      /\ m.type = "READ_CANCEL" \/ (m.type = "READ_OPEN" /\ m.path = "-") => m.stream \in I
  OBVIOUS
<1> HIDE DEF O, R, W, I, o, Of, r
<1>5. SameBut(State, x, {"toClient", "book"}) /\ x.toClient = r
  BY <1>1, <1>2, AfterIs
<1> HIDE DEF x
<1>6. State.toClient = toClient
  BY StateIs
<1>7. m.type \in {"READ_OPEN", "WRITE_OPEN"} => Opening(State, m.stream) /\ ~Opening(x, m.stream)
  BY <1>1, <1>2, <1>3, <1>4, <1>5, <1>6 DEF SomeTo, Base, OnePlace, Opening
<1>8. m.type \in {"READ_OPEN", "READ_CANCEL"} => Reads(State, proc, m.stream)
  BY <1>2, <1>3, <1>4, <1>6 DEF SomeTo, Reads
<1>9. m.type \in {"WRITE_OPEN", "WRITE", "WRITE_CLOSE"} => Writes(State, toServer, proc, m.stream)
  BY <1>2, <1>3, <1>4, <1>6 DEF SomeTo, Writes
<1>10. m.type = "READ_CANCEL" \/ (m.type = "READ_OPEN" /\ m.path = "-") => ~IsTarget(State, m.stream)
  BY <1>2, <1>3, <1>4, Running DEF SomeTo
<1>11. Fewer(toClient, x.toClient)
  BY <1>5 DEF Fewer, r
<1> QED BY <1>2, <1>3, <1>5, <1>6, <1>7, <1>8, <1>9, <1>10, <1>11 DEF r, x

LEMMA ContentIs == Content \in Seq(Pieces)
<1>1. Range(Content) \subseteq Pieces
  BY DEF Pieces
<1> QED BY <1>1, ContentAssumption

OpensMore(q, p, s, reading, left) ==
  /\ ProcRecord(q) /\ q.status = p.status /\ DOMAIN q.files = DOMAIN p.files \cup {s}
  /\ q.files[s].reading = reading /\ q.files[s].left = left
  /\ \A t \in DOMAIN p.files : t # s => q.files[t] = p.files[t]
LEMMA OpenedIs ==
  ASSUME ProcRecord(proc), NEW m, m.stream \in Streams, NEW left \in Seq(Pieces)
  PROVE  /\ OpensMore(Opened(m, TRUE, left), proc, m.stream, TRUE, left)
         /\ OpensMore(Opened(m, FALSE, left), proc, m.stream, FALSE, left)
<1>1. ASSUME NEW reading \in BOOLEAN
      PROVE  OpensMore(Opened(m, reading, left), proc, m.stream, reading, left)
  <2> DEFINE fd == Least(proc.std)
             p == Take(proc, fd)
             f == [reading |-> reading, event |-> ~OnWindows \/ reading, open |-> TRUE, fd |-> fd, left |-> left]
             r == IF m.path = "-" THEN Release(p, Std(m)) ELSE p
             s == m.stream
             q == SetFiles(r, With(r.files, s, f))
  <2>1. ProcRecord(p) /\ p.files = proc.files /\ p.status = proc.status
    BY StdIs
  <2> HIDE DEF p
  <2>2. ProcRecord(r) /\ r.files = proc.files /\ r.status = proc.status
    BY <2>1, StdIs
  <2>3. Opened(m, reading, left) = q
    BY <2>2 DEF Opened, SetFiles, p
  <2>4. IsOpen(f) /\ f.reading = reading /\ f.left = left
    BY DEF OpenFile, IsOpen
  <2>6. s \in Streams
    OBVIOUS
  <2> HIDE DEF r, f, q, s
  <2>5. HasOpened(q, r, s, f)
    BY <2>2, <2>4, <2>6, FileOpens DEF q
  <2> QED BY <2>2, <2>3, <2>4, <2>5 DEF HasOpened, OpensMore, s
<1> QED BY <1>1

Took == toClient # <<>> /\ toClient' = Tail(toClient) /\ proc.status = "running" /\ Stays

\* The client answers with one message; x is the state of the server then.
LEMMA OneAnswer ==
  ASSUME FInv, Took, NEW qr, ProcRecord(qr), NEW m, Answer(qr, <<m>>),
         AnswersFor(State, toServer, proc, After(Tail(toClient), book'), qr, m)
  PROVE  FInv'
<1> DEFINE r == Tail(toClient)
           b == book'
           x == After(r, b)
           us == Append(toServer, m)
<1>1. Sound(State, toServer, proc, 0, 0, FALSE) /\ Live(State) /\ toServer \in Seq(ToServer)
  BY Running DEF Took
<1>2. SameBut(State, x, {"toClient", "book"}) /\ Fewer(State.toClient, x.toClient)
  <2> HIDE DEF b
  <2> QED BY Message DEF Took
<1>3. toServer' = us /\ proc' = qr
  BY <1>1, Joined DEF Answer
<1>4. Sound(x, us, qr, 0, 0, FALSE)
  <2> HIDE DEF x, us
  <2> QED BY <1>1, <1>2, AnswersSound DEF x, us
<1> HIDE DEF us, b
<1>5. toClient' = r /\ book' = b /\ Stays
  BY DEF Took, b
<1> QED BY <1>3, <1>4, <1>5, ClientStep

LEMMA NoAnswer ==
  ASSUME FInv, Took, NEW qr, Answer(qr, <<>>), ProcRecord(qr), Lesser(State, toServer, proc, qr)
  PROVE  FInv'
<1> DEFINE r == Tail(toClient)
           b == book'
           x == After(r, b)
<1>1. Sound(State, toServer, proc, 0, 0, FALSE) /\ Live(State) /\ toServer \in Seq(ToServer)
  BY Running DEF Took
<1>2. SameBut(State, x, {"toClient", "book"}) /\ Fewer(State.toClient, x.toClient)
  <2> HIDE DEF b
  <2> QED BY Message DEF Took
<1>3. toServer' = toServer /\ proc' = qr
  BY <1>1, Joined DEF Answer
<1>4. Sound(x, toServer, qr, 0, 0, FALSE)
  <2> HIDE DEF x
  <2> QED BY <1>1, <1>2, LessSound DEF x
<1> HIDE DEF b
<1>5. toClient' = r /\ book' = b /\ Stays
  BY DEF Took, b
<1> QED BY <1>3, <1>4, <1>5, ClientStep

LEMMA ReplyIs ==
  ASSUME NEW type \in {"READ_DONE", "WRITE_READY"}, NEW s \in Streams, NEW error \in Errors
  PROVE  LET a == Reply(type, s, error)
         IN a \in ToServer /\ a.type = type /\ a.stream = s /\ a.error = error
BY DEF Reply, ToServer

\* The files are the same, without perhaps the one of the answer.
LEMMA AnswerIs ==
  ASSUME NEW st, NEW ts, NEW pr, NEW x, NEW qr, NEW type \in {"READ_DONE", "WRITE_READY"},
         NEW s \in Streams,
         NEW error \in Errors, Opening(st, s) \/ Reading(pr, s), ~Opening(x, s), ~Reading(qr, s),
         type = "WRITE_READY" => Writes(st, ts, pr, s),
         IsTarget(st, s) => error = "ok" /\ Arrived(st, ts, s),
         qr.status = pr.status,
         \A t \in DOMAIN qr.files :
           \/ t \in DOMAIN pr.files /\ qr.files[t].reading = pr.files[t].reading /\ qr.files[t].left = pr.files[t].left
           \/ t = s /\ ~qr.files[t].reading /\ type = "WRITE_READY"
  PROVE  AnswersFor(st, ts, pr, x, qr, Reply(type, s, error))
<1> DEFINE a == Reply(type, s, error)
<1>1. a \in ToServer /\ a.type = type /\ a.stream = s /\ a.error = error
  BY ReplyIs
<1> HIDE DEF a
<1>2. AnswersFor(st, ts, pr, x, qr, a)
  BY <1>1 DEF AnswersFor
<1> QED BY <1>2 DEF a

LEMMA OpenReadSound ==
  ASSUME FInv, Took, NEW fails, Head(toClient).type = "READ_OPEN", OpenRead(Head(toClient), fails)
  PROVE  FInv'
<1> DEFINE m == Head(toClient)
           s == m.stream
           b == book'
           x == After(Tail(toClient), b)
           error == Reply("READ_DONE", s, "error")
           ok == Reply("READ_DONE", s, "ok")
<1>1. /\ Sound(State, toServer, proc, 0, 0, FALSE) /\ Live(State) /\ ProcRecord(proc)
      /\ Base(State, toServer, proc) /\ toServer \in Seq(ToServer)
      /\ \A t \in Streams : IsTarget(State, t) => "fails" \notin Uses /\ Content # <<>>
  BY Running DEF Took
<1>2. /\ m \in ToClient /\ SameBut(State, x, {"toClient", "book"})
      /\ Fewer(State.toClient, x.toClient)
      /\ s \in Streams /\ Opening(State, s) /\ ~Opening(x, s) /\ Reads(State, proc, s)
      /\ m.path = "-" => ~IsTarget(State, s)
  <2> HIDE DEF b
  <2> QED BY Message DEF Took
<1>3. s \notin DOMAIN proc.files /\ ~Reading(proc, s)
  <2>1. ~Reading(proc, s) /\ ~Writes(State, toServer, proc, s)
    BY <1>1, <1>2 DEF Base, OnePlace, OneWay
  <2> QED BY <2>1 DEF Reading, Writes
<1>4. IsTarget(State, s) => ~fails /\ ~Refused(m) /\ Content # <<>>
  BY <1>1, <1>2 DEF OpenRead, MayRefuse, Refused
<1>5. "error" \in Errors /\ "ok" \in Errors /\ "READ_DONE" \in {"READ_DONE", "WRITE_READY"}
  BY DEF Errors
<1>6. CASE Answer(proc, <<error>>) /\ (fails \/ Refused(m))
  <2>1. AnswersFor(State, toServer, proc, x, proc, error)
    <3> HIDE DEF x
    <3> QED BY <1>2, <1>3, <1>4, <1>5, <1>6, AnswerIs
  <2> QED BY <1>1, <1>6, <2>1, OneAnswer
<1>7. CASE Answer(proc, <<Data(s, Content), ok>>)
  <2> DEFINE us == Append(toServer, Data(s, Content))
             vs == Append(us, ok)
  <2>1. Sound(State, us, proc, 0, 0, FALSE) /\ (Content # <<>> => Arrived(State, us, s))
    BY <1>1, <1>2, ContentIs, SendsData
  <2> HIDE DEF us
  <2>2. AnswersFor(State, us, proc, x, proc, ok)
    <3> HIDE DEF x
    <3> QED BY <1>2, <1>3, <1>4, <1>5, <2>1, AnswerIs
  <2>3. Sound(x, vs, proc, 0, 0, FALSE)
    <3> HIDE DEF x
    <3> QED BY <1>1, <1>2, <2>1, <2>2, AnswersSound
  <2>4. toServer' = vs /\ proc' = proc
    BY <1>1, <1>7, Joined DEF Answer, us
  <2> HIDE DEF vs, b
  <2>5. toClient' = Tail(toClient) /\ book' = b /\ Stays
    BY DEF Took, b
  <2> QED BY <2>3, <2>4, <2>5, ClientStep
<1>8. CASE Answer(Opened(m, TRUE, Content), <<>>)
  <2> DEFINE qr == Opened(m, TRUE, Content)
  <2>1. OpensMore(qr, proc, s, TRUE, Content)
    BY <1>1, <1>2, ContentIs, OpenedIs
  <2> HIDE DEF qr
  <2>2. Sound(x, toServer, qr, 0, 0, FALSE)
    <3>1. /\ ProcRecord(qr) /\ qr.status = proc.status /\ DOMAIN qr.files = DOMAIN proc.files \cup {s}
          /\ qr.files[s].reading /\ (IsTarget(State, s) => qr.files[s].left # <<>>)
          /\ \A t \in DOMAIN proc.files : t # s => qr.files[t] = proc.files[t]
      BY <1>4, <2>1 DEF OpensMore
    <3> HIDE DEF x, s, m
    <3> QED BY <1>1, <1>2, <3>1, ReadsSound
  <2>3. toServer' = toServer /\ proc' = qr
    BY <1>1, <1>8, Joined DEF Answer, qr
  <2> HIDE DEF b
  <2>4. toClient' = Tail(toClient) /\ book' = b /\ Stays
    BY DEF Took, b
  <2> QED BY <2>2, <2>3, <2>4, ClientStep
<1> QED BY <1>3, <1>6, <1>7, <1>8 DEF OpenRead

LEMMA OpenWriteSound ==
  ASSUME FInv, Took, NEW fails, Head(toClient).type = "WRITE_OPEN", OpenWrite(Head(toClient), fails)
  PROVE  FInv'
<1> DEFINE m == Head(toClient)
           s == m.stream
           b == book'
           x == After(Tail(toClient), b)
           ready(error) == Reply("WRITE_READY", s, error)
<1>1. /\ Live(State) /\ ProcRecord(proc) /\ Base(State, toServer, proc)
      /\ \A t \in Streams : IsTarget(State, t) => ~Writes(State, toServer, proc, t)
  BY Running DEF Took
<1>2. s \in Streams /\ Opening(State, s) /\ ~Opening(x, s) /\ Writes(State, toServer, proc, s)
  <2> HIDE DEF b
  <2> QED BY Message DEF Took
<1>3. ~Reading(proc, s) /\ ~IsTarget(State, s)
  BY <1>1, <1>2 DEF Base, OnePlace
<1>4. /\ "error" \in Errors /\ "ok" \in Errors /\ "EBADF" \in Errors
      /\ "WRITE_READY" \in {"READ_DONE", "WRITE_READY"}
  BY DEF Errors
<1>5. ASSUME NEW error \in Errors, Answer(proc, <<ready(error)>>) PROVE FInv'
  <2>1. AnswersFor(State, toServer, proc, x, proc, ready(error))
    <3> HIDE DEF x
    <3> QED BY <1>2, <1>3, <1>4, AnswerIs
  <2> HIDE DEF ready
  <2> QED BY <1>1, <1>5, <2>1, OneAnswer
<1>6. ASSUME Answer(Opened(m, FALSE, <<>>), <<ready("ok")>>) PROVE FInv'
  <2> DEFINE qr == Opened(m, FALSE, <<>>)
  <2>0. <<>> \in Seq(Pieces)
    OBVIOUS
  <2>1. OpensMore(qr, proc, s, FALSE, <<>>)
    BY <1>1, <1>2, <2>0, OpenedIs
  <2> HIDE DEF qr
  <2>2. /\ ProcRecord(qr) /\ qr.status = proc.status /\ ~Reading(qr, s)
        /\ \A t \in DOMAIN qr.files :
             \/ t \in DOMAIN proc.files /\ qr.files[t].reading = proc.files[t].reading /\ qr.files[t].left = proc.files[t].left
             \/ t = s /\ ~qr.files[t].reading
    BY <2>1 DEF OpensMore, Reading
  <2>3. AnswersFor(State, toServer, proc, x, qr, ready("ok"))
    <3> HIDE DEF x
    <3> QED BY <1>2, <1>3, <1>4, <2>2, AnswerIs
  <2>4. Answer(qr, <<ready("ok")>>)
    BY <1>6 DEF qr
  <2> HIDE DEF ready
  <2> QED BY <2>2, <2>3, <2>4, OneAnswer
<1> QED BY <1>4, <1>5, <1>6 DEF OpenWrite

\* A file that is written, or closed.
LEMMA WrittenIs ==
  ASSUME NEW s, NEW p, ProcRecord(p), s \in DOMAIN p.files, ~p.files[s].reading
 
   
      PROVE  \A q \in {p, Check(p), Check(Broken(p, s)), Closed(p, s)} \cup {WithLeft(p, s, data) : data \in Seq(Pieces)} :
           /\ ProcRecord(q) /\ (q.status = "running" => p.status = "running")
           /\ DOMAIN q.files \subseteq DOMAIN p.files
           /\ \A t \in DOMAIN q.files : q.files[t].reading = p.files[t].reading
           /\ \A t \in DOMAIN q.files : t # s => q.files[t] = p.files[t]
<1> DEFINE Ok(q) ==
             /\ ProcRecord(q) /\ (q.status = "running" => p.status = "running")
             /\ DOMAIN q.files \subseteq DOMAIN p.files
             /\ \A t \in DOMAIN q.files : q.files[t].reading = p.files[t].reading
             /\ \A t \in DOMAIN q.files : t # s => q.files[t] = p.files[t]
<1>1. Ok(p)
  OBVIOUS
<1>2. Ok(Check(p))
  <2>1. LET q == Check(p) IN ProcRecord(q) /\ q.files = p.files /\ (q.status = "running" => p.status = "running")
    BY StatusIs
  <2> QED BY <2>1
<1>3. Ok(Check(Broken(p, s)))
  <2> DEFINE r == Broken(p, s)
             q == Check(r)
  <2>1. /\ ProcRecord(r) /\ r.status = p.status /\ DOMAIN r.files = DOMAIN p.files
        /\ r.files[s].reading = p.files[s].reading
        /\ \A t \in DOMAIN p.files : t # s => r.files[t] = p.files[t]
    BY BrokenIs
  <2> HIDE DEF r
  <2>2. ProcRecord(q) /\ q.files = r.files /\ (q.status = "running" => r.status = "running")
    BY <2>1, StatusIs
  <2> HIDE DEF q
  <2>3. Ok(q)
    BY <2>1, <2>2
  <2> QED BY <2>3 DEF q, r
<1>4. Ok(Closed(p, s))
  <2> DEFINE q == Closed(p, s)
  <2>1. /\ ProcRecord(q) /\ q.status = p.status /\ DOMAIN q.files = DOMAIN p.files \ {s}
        /\ \A t \in DOMAIN q.files : q.files[t] = p.files[t]
    BY ClosedIs
  <2> HIDE DEF q
  <2>2. Ok(q)
    BY <2>1
  <2> QED BY <2>2 DEF q
<1>5. ASSUME NEW data \in Seq(Pieces) PROVE Ok(WithLeft(p, s, data))
  <2> DEFINE q == WithLeft(p, s, data)
  <2>1. /\ ProcRecord(q) /\ q.status = p.status /\ DOMAIN q.files = DOMAIN p.files
        /\ q.files[s].reading = p.files[s].reading
        /\ \A t \in DOMAIN p.files : t # s => q.files[t] = p.files[t]
    BY LeftIs
  <2> HIDE DEF q
  <2>2. Ok(q)
    BY <2>1
  <2> QED BY <2>2 DEF q
<1> HIDE DEF Ok
<1>6. \A q \in {p, Check(p), Check(Broken(p, s)), Closed(p, s)} \cup {WithLeft(p, s, data) : data \in Seq(Pieces)} : Ok(q)
  BY <1>1, <1>2, <1>3, <1>4, <1>5
<1> QED BY <1>6 DEF Ok

LEMMA WrittenLesser ==
  ASSUME NEW st, NEW ts, NEW s, NEW p, ProcRecord(p), s \in DOMAIN p.files, ~p.files[s].reading,
         NEW q \in {p, Check(p), Check(Broken(p, s)), Closed(p, s)} \cup {WithLeft(p, s, data) : data \in Seq(Pieces)}
  PROVE  ProcRecord(q) /\ Lesser(st, ts, p, q)
<1>1. /\ ProcRecord(q) /\ (q.status = "running" => p.status = "running")
      /\ DOMAIN q.files \subseteq DOMAIN p.files
      /\ \A t \in DOMAIN q.files : q.files[t].reading = p.files[t].reading
      /\ \A t \in DOMAIN q.files : t # s => q.files[t] = p.files[t]
  BY WrittenIs
<1>2. \A t \in DOMAIN q.files : q.files[t].reading => q.files[t].left = p.files[t].left
  BY <1>1
<1> QED BY <1>1, <1>2 DEF Lesser

LEMMA WriteSound ==
  ASSUME FInv, Took, NEW fails, Head(toClient).type \in {"WRITE", "WRITE_CLOSE"},
         Head(toClient).stream \in DOMAIN proc.files,
         (Head(toClient).type = "WRITE" /\ WriteData(Head(toClient), fails))
           \/ (Head(toClient).type = "WRITE_CLOSE" /\ WriteClose(Head(toClient)))
  PROVE  FInv'
<1> DEFINE m == Head(toClient)
           s == m.stream
           f == proc.files[s]
           b == book'
           x == After(Tail(toClient), b)
           all == {proc, Check(proc), Check(Broken(proc, s)), Closed(proc, s)} \cup {WithLeft(proc, s, data) : data \in Seq(Pieces)}
<1>1. Live(State) /\ ProcRecord(proc) /\ Base(State, toServer, proc)
  BY Running DEF Took
<1>2. m \in ToClient /\ s \in Streams /\ Writes(State, toServer, proc, s)
  <2> HIDE DEF b
  <2> QED BY Message DEF Took
<1>3. ~proc.files[s].reading
  BY <1>1, <1>2 DEF Base, OneWay, Reads, Reading
<1>4. f.left \in Seq(Pieces)
  <2>1. proc.files[s] \in OpenFile(proc.files[s].fd)
    BY <1>1 DEF ProcRecord
  <2> QED BY <2>1 DEF OpenFile
<1>5. PICK qr \in all : Answer(qr, <<>>)
  <2>1. CASE m.type = "WRITE" /\ WriteData(m, fails)
    <3>1. m.data \in Seq(Pieces)
      BY <1>2, <2>1 DEF ToClient
    <3>2. f.left \o m.data \in Seq(Pieces)
      BY <1>4, <3>1
    <3>3. WithLeft(proc, s, f.left \o m.data) \in all
      BY <3>2
    <3>4. [proc EXCEPT !.files[s].left = @ \o m.data] = WithLeft(proc, s, f.left \o m.data)
      BY <1>1 DEF ProcRecord, WithLeft
    <3> DEFINE d == [proc EXCEPT !.files[s].left = @ \o m.data]
    <3> HIDE DEF d
    <3>5. \/ Answer(d, <<>>) \/ Answer(proc, <<>>)
          \/ Answer(Check(Broken(proc, s)), <<>>) \/ Answer(Check(proc), <<>>)
      BY <2>1 DEF WriteData, d
    <3> QED BY <3>3, <3>4, <3>5 DEF d
  <2>2. CASE m.type = "WRITE_CLOSE" /\ WriteClose(m)
    BY <2>2 DEF WriteClose
  <2> QED BY <2>1, <2>2
<1>6. ProcRecord(qr) /\ Lesser(State, toServer, proc, qr)
  BY <1>1, <1>3, WrittenLesser
<1> QED BY <1>5, <1>6, NoAnswer

LEMMA ReadCancelSound ==
  ASSUME FInv, Took, Head(toClient).type = "READ_CANCEL", Head(toClient).stream \in DOMAIN proc.files,
         Answer(Closed(proc, Head(toClient).stream), <<Reply("READ_DONE", Head(toClient).stream, "ok")>>)
  PROVE  FInv'
<1> DEFINE m == Head(toClient)
           s == m.stream
           b == book'
           x == After(Tail(toClient), b)
           qr == Closed(proc, s)
           ok == Reply("READ_DONE", s, "ok")
<1>1. Live(State) /\ ProcRecord(proc) /\ Base(State, toServer, proc) /\ toClient \in Seq(ToClient)
  BY Running DEF Took
<1>2. /\ s \in Streams /\ Reads(State, proc, s) /\ ~IsTarget(State, s)
      /\ Fewer(toClient, x.toClient) /\ State.toClient = toClient
  <2> HIDE DEF b
  <2> QED BY Message DEF Took
<1> HIDE DEF x
<1>3. Reading(proc, s)
  BY <1>1, <1>2 DEF Base, OneWay, Writes, Reading
<1>4. ~Opening(x, s)
  <2>1. ~Some(toClient, OpenOf(s))
    BY <1>1, <1>2, <1>3 DEF Base, OnePlace, Opening
  <2>2. Some(x.toClient, OpenOf(s)) => Some(toClient, OpenOf(s))
    BY <1>1, <1>2, FewerIs
  <2> QED BY <2>1, <2>2 DEF Opening
<1>5. /\ ProcRecord(qr) /\ qr.status = proc.status /\ DOMAIN qr.files = DOMAIN proc.files \ {s}
      /\ \A t \in DOMAIN qr.files : qr.files[t] = proc.files[t]
  BY <1>1, ClosedIs
<1>6. "ok" \in Errors /\ "READ_DONE" \in {"READ_DONE", "WRITE_READY"}
  BY DEF Errors
<1>8. Answer(qr, <<ok>>)
  OBVIOUS
<1> HIDE DEF qr
<1>9. /\ ~Reading(qr, s)
      /\ \A t \in DOMAIN qr.files :
           \/ t \in DOMAIN proc.files /\ qr.files[t].reading = proc.files[t].reading /\ qr.files[t].left = proc.files[t].left
           \/ t = s /\ ~qr.files[t].reading /\ "READ_DONE" = "WRITE_READY"
  BY <1>5 DEF Reading
<1>7. AnswersFor(State, toServer, proc, x, qr, ok)
  BY <1>2, <1>3, <1>4, <1>5, <1>6, <1>9, AnswerIs
<1> HIDE DEF ok
<1> QED BY <1>5, <1>7, <1>8, OneAnswer DEF x

LEMMA ClientReceivesSound ==
  ASSUME FInv, NEW fails, ClientReceives(fails)
  PROVE  FInv'
<1> DEFINE m == Head(toClient)
<1>1. Took
  BY DEF ClientReceives, Took, Stays
<1>2. ProcRecord(proc)
  BY <1>1, Running DEF Took
<1>3. ASSUME NEW qr \in {[proc EXCEPT !.status = "mistaken"], TryExit([proc EXCEPT !.exitflag = TRUE]), Fatal(proc)},
             Answer(qr, <<>>)
      PROVE  FInv'
  <2>1. ProcRecord(qr) /\ qr.files = proc.files /\ (qr.status = "running" => proc.status = "running")
    BY <1>2, <1>3, StatusIs
  <2>2. Lesser(State, toServer, proc, qr)
    BY <2>1 DEF Lesser
  <2> QED BY <1>1, <1>3, <2>1, <2>2, NoAnswer
<1>4. CASE m.type = "READ_OPEN" /\ OpenRead(m, fails)
  BY <1>1, <1>4, OpenReadSound
<1>5. CASE m.type = "WRITE_OPEN" /\ OpenWrite(m, fails)
  BY <1>1, <1>5, OpenWriteSound
<1>6. CASE Answer([proc EXCEPT !.status = "mistaken"], <<>>)
  BY <1>3, <1>6
<1>7. CASE Answer(TryExit([proc EXCEPT !.exitflag = TRUE]), <<>>)
  BY <1>3, <1>7
<1>8. CASE Answer(Fatal(proc), <<>>)
  BY <1>3, <1>8
<1>9. CASE m.stream \in DOMAIN proc.files /\ m.type = "WRITE" /\ WriteData(m, fails)
  BY <1>1, <1>9, WriteSound
<1>10. CASE m.stream \in DOMAIN proc.files /\ m.type = "WRITE_CLOSE" /\ WriteClose(m)
  BY <1>1, <1>10, WriteSound
<1>11. CASE /\ m.stream \in DOMAIN proc.files /\ m.type = "READ_CANCEL"
            /\ Answer(Closed(proc, m.stream), <<Reply("READ_DONE", m.stream, "ok")>>)
  BY <1>1, <1>11, ReadCancelSound
<1> QED BY <1>4, <1>5, <1>6, <1>7, <1>8, <1>9, <1>10, <1>11 DEF ClientReceives

\* Steps of the client alone.
LEMMA LocalIs ==
  ASSUME FInv, proc.status = "running", NEW b
  PROVE  LET x == After(toClient, b)
         IN SameBut(State, x, {"toClient", "book"}) /\ Fewer(State.toClient, x.toClient) /\ x.toClient = State.toClient
<1>1. toClient \in Seq(ToClient) /\ State \in States(State.book)
  BY Running
<1>2. /\ SameBut(State, After(toClient, b), {"toClient", "book"})
      /\ After(toClient, b).toClient = toClient
  BY <1>1, AfterIs
<1> QED BY <1>2, StateIs DEF Fewer

LEMMA LocalStep ==
  ASSUME FInv, Local, NEW ts, NEW pr, toServer' = ts, proc' = pr,
         Sound(After(toClient, book'), ts, pr, 0, 0, FALSE)
  PROVE  FInv'
<1> DEFINE q == toClient
           b == book'
<1>1. toClient' = q /\ book' = b /\ Stays /\ Sound(After(q, b), ts, pr, 0, 0, FALSE)
  BY DEF Local, Stays
<1> HIDE DEF q, b
<1> QED BY <1>1, ClientStep

LEMMA ReadsOn ==
  ASSUME FInv, proc.status = "running", NEW s \in DOMAIN proc.files, NEW n, ClientReads(s, n)
  PROVE  FInv'
<1> DEFINE b == book'
           x == After(toClient, b)
           left == proc.files[s].left
           data == SubSeq(left, 1, n)
           rest == SubSeq(left, n + 1, Len(left))
           us == Append(toServer, Data(s, data))
           qr == WithLeft(proc, s, rest)
<1>1. /\ Sound(State, toServer, proc, 0, 0, FALSE) /\ Live(State) /\ ProcRecord(proc)
      /\ toServer \in Seq(ToServer)
  BY Running
<1>2. s \in Streams /\ proc.files[s] \in OpenFile(proc.files[s].fd)
  BY <1>1 DEF ProcRecord
<1>3. left \in Seq(Pieces) /\ Reading(proc, s) /\ n \in 1..Len(left)
  BY <1>2 DEF OpenFile, ClientReads, Reading
<1>4. data \in Seq(Pieces) /\ rest \in Seq(Pieces) /\ data # <<>>
  <2> HIDE DEF left
  <2> QED BY <1>3
<1>5. toServer' = us /\ proc' = qr
  <2>1. toServer' = toServer \o <<Data(s, data)>>
    BY DEF ClientReads, Answer
  <2>2. proc' = [proc EXCEPT !.files[s].left = rest]
    BY <1>1 DEF ClientReads, Answer, ProcRecord
  <2> QED BY <1>1, <2>1, <2>2, Joined DEF WithLeft
<1>6. SameBut(State, x, {"toClient", "book"}) /\ Fewer(State.toClient, x.toClient)
  <2> HIDE DEF b
  <2> QED BY LocalIs
<1> HIDE DEF data, rest
<1>7. Sound(State, us, proc, 0, 0, FALSE) /\ Arrived(State, us, s)
  BY <1>1, <1>2, <1>3, <1>4, SendsData
<1>8. /\ ProcRecord(qr) /\ qr.status = proc.status /\ DOMAIN qr.files = DOMAIN proc.files
      /\ qr.files[s].reading = proc.files[s].reading
      /\ \A t \in DOMAIN proc.files : t # s => qr.files[t] = proc.files[t]
  BY <1>1, <1>4, LeftIs
<1> HIDE DEF us, qr
<1>9. Lesser(State, us, proc, qr)
  BY <1>7, <1>8 DEF Lesser
<1>10. Sound(x, us, qr, 0, 0, FALSE)
  <2> HIDE DEF x
  <2> QED BY <1>1, <1>6, <1>7, <1>8, <1>9, LessSound
<1>11. Local
  BY DEF ClientReads
<1> QED BY <1>5, <1>10, <1>11, LocalStep

LEMMA ReadsEnd ==
  ASSUME FInv, proc.status = "running", NEW s \in DOMAIN proc.files, NEW error \in {"ok", "EIO"},
         ClientReadsEnd(s, error)
  PROVE  FInv'
<1> DEFINE b == book'
           x == After(toClient, b)
           m == Reply("READ_DONE", s, error)
           us == Append(toServer, m)
           qr == Closed(proc, s)
<1>1. /\ Sound(State, toServer, proc, 0, 0, FALSE) /\ Live(State) /\ ProcRecord(proc)
      /\ toServer \in Seq(ToServer)
      /\ Base(State, toServer, proc)
      /\ \A t \in Streams : IsTarget(State, t) =>
           /\ "fails" \notin Uses
           /\ Reading(proc, t) /\ proc.files[t].left = <<>> => Arrived(State, toServer, t)
  BY Running
<1>2. s \in Streams
  BY <1>1 DEF ProcRecord
<1>3. Reading(proc, s) /\ (IsTarget(State, s) => error = "ok" /\ Arrived(State, toServer, s))
  BY <1>1, <1>2 DEF ClientReadsEnd, MayFail, Reading
<1>4. /\ SameBut(State, x, {"toClient", "book"}) /\ Fewer(State.toClient, x.toClient)
      /\ x.toClient = State.toClient
  <2> HIDE DEF b
  <2> QED BY LocalIs
<1>5. toServer' = us /\ proc' = qr
  BY <1>1, Joined DEF ClientReadsEnd, Answer
<1>6. /\ ProcRecord(qr) /\ qr.status = proc.status /\ DOMAIN qr.files = DOMAIN proc.files \ {s}
      /\ \A t \in DOMAIN qr.files : qr.files[t] = proc.files[t]
  BY <1>1, ClosedIs
<1>7. error \in Errors /\ "READ_DONE" \in {"READ_DONE", "WRITE_READY"}
  BY DEF Errors
<1> HIDE DEF qr
<1>8. /\ ~Reading(qr, s)
      /\ \A t \in DOMAIN qr.files :
           \/ t \in DOMAIN proc.files /\ qr.files[t].reading = proc.files[t].reading /\ qr.files[t].left = proc.files[t].left
           \/ t = s /\ ~qr.files[t].reading /\ "READ_DONE" = "WRITE_READY"
  BY <1>6 DEF Reading
<1>9. ~Opening(State, s)
  BY <1>1, <1>2, <1>3 DEF Base, OnePlace
<1>10. ~Opening(x, s)
  <2> HIDE DEF x
  <2> QED BY <1>4, <1>9 DEF Opening
<1>11. AnswersFor(State, toServer, proc, x, qr, m)
  <2> HIDE DEF x
  <2> QED BY <1>2, <1>3, <1>6, <1>7, <1>8, <1>10, AnswerIs
<1>12. Sound(x, us, qr, 0, 0, FALSE)
  <2> HIDE DEF x, m
  <2> QED BY <1>1, <1>4, <1>6, <1>11, AnswersSound
<1>13. Local
  BY DEF ClientReadsEnd
<1> HIDE DEF us
<1> QED BY <1>5, <1>12, <1>13, LocalStep

\* The client writes, or cannot.
LEMMA WritesOn ==
  ASSUME FInv, proc.status = "running", NEW s \in DOMAIN proc.files,
         ClientWriteFails(s) \/ \E n \in 1..Len(proc.files[s].left) : ClientWrites(s, n)
  PROVE  FInv'
<1> DEFINE b == book'
           x == After(toClient, b)
           left == proc.files[s].left
           Rest(data) == WithLeft(proc, s, data)
<1>1. /\ Sound(State, toServer, proc, 0, 0, FALSE) /\ Live(State) /\ ProcRecord(proc)
      /\ toServer \in Seq(ToServer)
  BY Running
<1>2. proc.files[s] \in OpenFile(proc.files[s].fd) /\ ~proc.files[s].reading /\ Local
  BY <1>1 DEF ProcRecord, ClientWriteFails, ClientWrites
<1>3. left \in Seq(Pieces)
  BY <1>2 DEF OpenFile
<1>4. SameBut(State, x, {"toClient", "book"}) /\ Fewer(State.toClient, x.toClient)
  <2> HIDE DEF b
  <2> QED BY LocalIs
<1>5. ASSUME NEW qr, ProcRecord(qr), Lesser(State, toServer, proc, qr), Answer(qr, <<>>)
      PROVE  FInv'
  <2>1. Sound(x, toServer, qr, 0, 0, FALSE)
    <3> HIDE DEF x
    <3> QED BY <1>1, <1>4, <1>5, LessSound
  <2>2. toServer' = toServer /\ proc' = qr
    BY <1>1, <1>5, Joined DEF Answer
  <2> QED BY <1>2, <2>1, <2>2, LocalStep
<1>6. CASE ClientWriteFails(s)
  <2> DEFINE qr == Check(Broken(proc, s))
  <2>1. ProcRecord(qr) /\ Lesser(State, toServer, proc, qr)
    BY <1>1, <1>2, WrittenLesser
  <2> QED BY <1>5, <1>6, <2>1 DEF ClientWriteFails
<1>7. ASSUME NEW n \in 1..Len(left), ClientWrites(s, n) PROVE FInv'
  <2> DEFINE rest == SubSeq(left, n + 1, Len(left))
             qr == Rest(rest)
  <2>1. rest \in Seq(Pieces)
    <3> HIDE DEF left
    <3> QED BY <1>3, <1>7
  <2>2. [proc EXCEPT !.files[s].left = SubSeq(@, n + 1, Len(@))] = qr
    BY <1>1 DEF ProcRecord, WithLeft
  <2>3. Answer(Check(qr), <<>>) \/ Answer(qr, <<>>)
    <3> DEFINE d == [proc EXCEPT !.files[s].left = SubSeq(@, n + 1, Len(@))]
    <3>1. Answer(Check(d), <<>>) \/ Answer(d, <<>>)
      <4> HIDE DEF d
      <4> QED BY <1>7 DEF ClientWrites, d
    <3> QED BY <2>2, <3>1
  <2>4. ProcRecord(qr) /\ Lesser(State, toServer, proc, qr)
    <3> HIDE DEF rest
    <3> QED BY <1>1, <1>2, <2>1, WrittenLesser
  <2> HIDE DEF qr
  <2>5. ProcRecord(Check(qr)) /\ Check(qr).files = qr.files /\ (Check(qr).status = "running" => qr.status = "running")
    BY <2>4, StatusIs
  <2>6. Lesser(State, toServer, proc, Check(qr))
    <3> DEFINE d == Check(qr)
    <3> HIDE DEF d
    <3> SUFFICES Lesser(State, toServer, proc, d)
      BY DEF d
    <3>1. d.files = qr.files /\ (d.status = "running" => qr.status = "running")
      BY <2>5 DEF d
    <3> QED BY <2>4, <3>1 DEF Lesser
  <2> QED BY <1>5, <2>3, <2>4, <2>5, <2>6
<1> QED BY <1>6, <1>7

\* The process goes, with some of what it was sending; data that has left it
\* comes before the answer.
LEMMA KilledSound == FInv /\ ClientKilled => FInv'
<1> SUFFICES ASSUME FInv, ClientKilled PROVE FInv'
  OBVIOUS
<1> DEFINE b == book'
           x == After(toClient, b)
           qr == [proc EXCEPT !.status = "killed"]
<1>1. proc.status = "running" /\ proc' = qr /\ Local
  BY DEF ClientKilled
<1>2. /\ Sound(State, toServer, proc, 0, 0, FALSE) /\ Live(State) /\ ProcRecord(proc)
      /\ toServer \in Seq(ToServer)
      /\ Base(State, toServer, proc) /\ Target(State, toServer, proc)
  BY <1>1, Running
<1>3. PICK n \in 0..Len(toServer) : toServer' = SubSeq(toServer, 1, n)
  BY DEF ClientKilled
<1> DEFINE us == SubSeq(toServer, 1, n)
<1>4. /\ us \in Seq(ToServer)
      /\ \A S : Some(us, S) => Some(toServer, S)
      /\ \A S : Once(toServer, S) => Once(us, S)
      /\ \A S, T : Before(toServer, S, T) =>
           /\ Before(us, S, T)
           /\ Some(toServer, S) /\ Some(us, T) => Some(us, S)
  BY <1>2, Parted
<1> HIDE DEF us
<1>5. /\ SameBut(State, x, {"toClient", "book"}) /\ Fewer(State.toClient, x.toClient)
      /\ x.toClient = State.toClient
  <2> HIDE DEF b
  <2> QED BY <1>1, LocalIs
<1> HIDE DEF x
<1>6. ProcRecord(qr) /\ qr.files = proc.files /\ qr.status # "running"
  BY <1>2 DEF ProcRecord
<1> HIDE DEF qr
<1>7. \A t \in Streams : Goes(State, toServer, proc, x, us, qr, t)
  BY <1>2, <1>4, <1>5, <1>6 DEF Goes, Base, OnePlace, OneWay, Opening, Reading, Answered, Reads, Writes
<1>8. \A t \in Streams : Before(toServer, DataFor(t), AnswerOf(t)) => Before(toServer, SomeFor(t), AnswerOf(t))
  BY DEF Before, SomeFor
<1>9. \A t \in Streams : IsTarget(State, t) /\ Answered(us, t) => Arrived(State, us, t)
  <2> SUFFICES ASSUME NEW t \in Streams, IsTarget(State, t), Answered(us, t)
    PROVE Arrived(State, us, t)
    OBVIOUS
  <2>1. Arrived(State, toServer, t)
    BY <1>2, <1>4 DEF IsTarget, RemoteOf, Target, Answered
  <2>2. Before(toServer, SomeFor(t), AnswerOf(t))
    BY <1>2, <1>8 DEF Base, OneWay
  <2> QED BY <1>4, <2>1, <2>2 DEF Arrived, Answered
<1>10. \A t \in Streams : IsTarget(State, t) => TargetGoes(State, x, us, qr, t)
  BY <1>2, <1>4, <1>5, <1>6, <1>9 DEF TargetGoes, IsTarget, RemoteOf, Target
<1>11. Sound(x, us, qr, 0, 0, FALSE)
  BY <1>2, <1>4, <1>5, <1>6, <1>7, <1>10, MovedSound
<1>12. toServer' = us
  BY <1>3 DEF us
<1> QED BY <1>1, <1>11, <1>12, LocalStep DEF x

-----------------------------------------------------------------------------
(***************************************************************************)
(* All together.                                                           *)
(***************************************************************************)
LEMMA Empty == <<>> \in Tables /\ DOMAIN <<>> = {}
<1>1. <<>> \in [{} -> FileRecord]
  OBVIOUS
<1>2. {} \in SUBSET Streams
  OBVIOUS
<1> QED BY <1>1, <1>2 DEF Tables

LEMMA InitSound == FilesInit /\ Calm => FInv
<1> SUFFICES ASSUME FilesInit, Calm PROVE FInv
  OBVIOUS
<1> DEFINE st == State
<1>1. /\ c.flags \in SUBSET {"ATTACHED", "CONTROL"} /\ c.refs = 1 /\ c.next = 3 /\ c \in ClientRecord
      /\ files = <<>> /\ once = <<>> /\ item = NoItem /\ toClient = <<>> /\ toServer = <<>>
      /\ book = <<>>
      /\ commands = 0 /\ pane = TRUE
  BY DEF FilesInit, ClientRecord, Streams
<1>2. /\ proc.status = "running" /\ proc.files = <<>>
      /\ ProcRecord(proc)
  BY Empty DEF FilesInit, ProcRecord
<1>3. /\ st.c = c /\ st.files = <<>> /\ st.once = <<>> /\ st.item = NoItem /\ st.toClient = <<>>
      /\ st.pane = TRUE
      /\ st.book = book /\ DOMAIN st.files = {} /\ Live(st)
  BY <1>1, StateIs, Empty DEF Live
<1>4. st \in States(st.book)
  BY <1>1, Empty DEF States, State
<1> HIDE DEF st
<1>5. Typed(st, toServer, proc)
  <2>1. IsFiniteSet(DOMAIN st.files)
    BY <1>3, FS_EmptySet
  <2>2. toServer \in Seq(ToServer)
    BY <1>1
  <2> QED BY <1>1, <1>2, <1>3, <1>4, <2>1, <2>2 DEF Typed
<1>6. \A s : ~Opening(st, s) /\ ~Reading(proc, s) /\ ~Answered(toServer, s) /\ ~Telling(st, s)
  BY <1>1, <1>2, <1>3, Empty, Nobody DEF Opening, Reading, Answered, Telling
<1>7. \A s : ~Reads(st, proc, s) /\ ~Writes(st, toServer, proc, s)
  BY <1>1, <1>2, <1>3, <1>6, Empty, Nobody DEF Reads, Writes
<1>8. OnePlace(st, toServer, proc) /\ OneWay(st, toServer, proc) /\ Quiet(st, toServer, proc)
  BY <1>1, <1>3, <1>6, <1>7, Nobody DEF OnePlace, OneWay, Quiet
<1>9. Counted(st, 0)
  <2>1. RemoteOf(st) = {}
    BY <1>3 DEF RemoteOf
  <2>2. Cardinality(RemoteOf(st)) = 0 /\ Share(st.item) = 0 /\ Number(Live(st)) = 1
    BY <1>3, <2>1, FS_EmptySet DEF Share, Number
  <2>4. st.c.refs = 1
    BY <1>1, <1>3
  <2>3. st.c.refs = 0 + Number(Live(st)) + Cardinality(RemoteOf(st)) + Share(st.item)
    BY <2>2, <2>4
  <2> QED BY <1>3, <2>3 DEF Counted
<1>10. Items(st, toServer, proc, 0, FALSE) /\ Target(st, toServer, proc)
  BY <1>3 DEF Items, Target
<1> QED BY <1>1, <1>3, <1>5, <1>8, <1>9, <1>10 DEF FInv, Sound, Base, st

LEMMA NextSound == FInv /\ FilesNext => FInv'
<1> SUFFICES ASSUME FInv, FilesNext PROVE FInv'
  OBVIOUS
<1>1. ASSUME NEW path \in Where, NEW fails \in {z \in BOOLEAN : MayFail(z)},
             NEW target \in BOOLEAN, LoadBuffer(path, fails, target)
      PROVE  FInv'
  BY <1>1, LoadBufferSound
<1>2. ASSUME NEW path \in Where, NEW fails \in {z \in BOOLEAN : MayFail(z)}, SaveBuffer(path, fails) \/ SourceFile(path, fails)
      PROVE  FInv'
  BY <1>2, SaveBufferSound, SourceFileSound
<1>3. CASE StartInput
  BY <1>3, StartInputSound
<1>4. ASSUME NEW twice \in BOOLEAN, PrintLines(twice) PROVE FInv'
  BY <1>4, PrintLinesSound
<1>5. CASE FilesServer
  BY <1>5, FireSound, ReceiveSound, LoseSound, CheckExitSound, RetireSound, CommandDoneSound DEF FilesServer
<1>6. CASE PaneGoes
  BY <1>6, PaneGoesSound
<1>7. CASE Client
  <2>1. ASSUME NEW fails \in BOOLEAN, ClientReceives(fails) PROVE FInv'
    BY <2>1, ClientReceivesSound
  <2>2. ASSUME proc.status = "running", NEW s \in DOMAIN proc.files, NEW n \in 1..Len(proc.files[s].left),
               ClientReads(s, n) \/ ClientWrites(s, n)
        PROVE  FInv'
    BY <2>2, ReadsOn, WritesOn
  <2>3. ASSUME proc.status = "running", NEW s \in DOMAIN proc.files, NEW error \in {"ok", "EIO"}, ClientReadsEnd(s, error)
        PROVE  FInv'
    BY <2>3, ReadsEnd
  <2> QED BY <1>7, <2>1, <2>2, <2>3 DEF Client
<1>8. CASE ClientKilled
  BY <1>8, KilledSound
<1>9. CASE proc.status = "running" /\ \E s \in DOMAIN proc.files : ClientWriteFails(s)
  BY <1>9, WritesOn
<1> QED BY <1>1, <1>2, <1>3, <1>4, <1>5, <1>6, <1>7, <1>8, <1>9 DEF FilesNext

LEMMA FInvMeans == FInv => FilesSound
<1> SUFFICES ASSUME FInv PROVE FilesSound
  OBVIOUS
<1> DEFINE st == State
<1>1. /\ Sound(st, toServer, proc, 0, 0, FALSE) /\ ("FREED" \in c.flags => c.refs = 0)
  BY DEF FInv
<1>2. /\ st.c = c /\ st.files = files /\ st.once = once /\ st.item = item
      /\ st.toClient = toClient /\ st.pane = pane
  BY StateIs
<1> HIDE DEF st
<1>3. /\ st \in States(st.book) /\ Base(st, toServer, proc) /\ Typed(st, toServer, proc)
      /\ Counted(st, 0)
      /\ Items(st, toServer, proc, 0, FALSE) /\ once \in Seq(Told) /\ DOMAIN files \subseteq Streams
      /\ c.refs \in Int /\ (item # NoItem => item \in ItemRecord)
  BY <1>1, <1>2, Facts
<1>4. \A s \in DOMAIN files : files[s].refs = 1
  <2>1. \A s \in DOMAIN files : files[s] \in FileRecord
    BY <1>2, <1>3, TableIs
  <2> QED BY <2>1 DEF FileRecord
<1>5. \A i \in DOMAIN once : once[i][1] = "done" =>
        once[i][2] \in DOMAIN files /\ \A j \in DOMAIN once : once[j] = once[i] => i = j
  <2> SUFFICES ASSUME NEW i \in DOMAIN once, once[i][1] = "done"
               PROVE  once[i][2] \in DOMAIN files /\ \A j \in DOMAIN once : once[j] = once[i] => i = j
    OBVIOUS
  <2>1. once[i] \in Told
    BY <1>3
  <2>2. PICK s \in Streams : once[i] = <<"done", s>>
    BY <2>1 DEF Told, None
  <2>3. once[i] \in DoneOf(s) /\ once[i][2] = s
    BY <2>2 DEF DoneOf
  <2>4. Telling(st, s) /\ Once(once, DoneOf(s))
    BY <1>2, <1>3, <2>3 DEF Telling, Some, Base, OnePlace
  <2>5. s \in DOMAIN files
    BY <1>2, <1>3, <2>4 DEF Base, OnePlace
  <2> QED BY <2>3, <2>4, <2>5 DEF Once
<1>6. c.refs = Number("DEAD" \notin c.flags) + Cardinality(Remote) + Number(item # NoItem)
                 + (IF item = NoItem THEN 0 ELSE Number(item.target) + Number(item.holds))
  <2>1. RemoteOf(st) = Remote /\ Number(Live(st)) = Number("DEAD" \notin c.flags)
    BY <1>2 DEF RemoteOf, Remote, Live
  <2>2. Cardinality(RemoteOf(st)) \in Nat /\ Number(Live(st)) \in Nat
    BY <1>3, RemotesAre
  <2>3. c.refs = 0 + Number(Live(st)) + Cardinality(RemoteOf(st)) + Share(item)
    BY <1>2, <1>3 DEF Counted
  <2>4. CASE item = NoItem
    <3>1. Share(item) = 0 /\ Number(item # NoItem) = 0
      BY <2>4 DEF Share, Number
    <3> QED BY <2>1, <2>2, <2>3, <2>4, <3>1
  <2>5. CASE item # NoItem
    <3>1. Share(item) = 1 + Number(item.target) + Number(item.holds) /\ Number(item # NoItem) = 1
      BY <2>5 DEF Share, Number
    <3>2. Number(item.target) \in Nat /\ Number(item.holds) \in Nat
      BY DEF Number
    <3> QED BY <2>1, <2>2, <2>3, <2>5, <3>1, <3>2
  <2> QED BY <2>4, <2>5
<1>7. WaitsAreHeld
  <2>1. \A s \in DOMAIN files : s > 2 => item # NoItem /\ item.waiting /\ item.stream = s
    <3>1. DOMAIN files \ {0} = DOMAIN files
      BY <1>3 DEF Streams
    <3> QED BY <1>2, <1>3, <3>1 DEF Items
  <2>2. ASSUME item # NoItem, item.waiting, "DEAD" \notin c.flags
        PROVE  \/ item.stream \in DOMAIN files
               \/ item.kind = "input" /\ ~pane /\ "EXIT" \in c.flags
    <3>1. Live(st)
      BY <1>2, <2>2 DEF Live
    <3> QED BY <1>2, <1>3, <2>2, <3>1 DEF Items
  <2> QED BY <2>1, <2>2 DEF WaitsAreHeld
<1> QED BY <1>1, <1>4, <1>5, <1>6, <1>7 DEF FilesSound, FilesCounted

LEMMA SameSound == FInv /\ UNCHANGED filesVars => FInv'
<1> SUFFICES ASSUME FInv, UNCHANGED filesVars PROVE FInv'
  OBVIOUS
<1> DEFINE st == State
           ts == toServer
           pr == proc
<1>1. /\ c' = c /\ files' = files /\ once' = once /\ item' = item /\ toClient' = toClient
      /\ toServer' = ts
      /\ proc' = pr /\ pane' = pane /\ book' = book /\ commands' = commands /\ instance' = instance
  BY DEF filesVars
<1>2. State' = st
  BY <1>1 DEF State
<1>3. st.c = c
  BY StateIs
<1>4. /\ Calm /\ Sound(st, ts, pr, 0, 0, FALSE) /\ commands' \in Nat
      /\ ("FREED" \in st.c.flags => st.c.refs = 0)
  BY <1>1, <1>3 DEF FInv
<1> HIDE DEF st, ts, pr
<1> QED BY <1>1, <1>2, <1>4, Preserves

\* Files, references to the client and commands that wait agree, in all that
\* the server and the process of a client do with the files of commands: if
\* the client is not lost while events are pending for its files, and what a
\* target client is to get is a file with something in it that can be read
\* (file.c, server_client_unref, the callbacks of the commands).
THEOREM FilesAndCommandsAgree == FilesSpec /\ Calm => []FilesSound
<1>1. FilesInit /\ Calm => FInv
  BY InitSound
<1>2. FInv /\ [FilesNext]_filesVars => FInv'
  BY NextSound, SameSound
<1>3. FInv => FilesSound
  BY FInvMeans
<1> QED BY <1>1, <1>2, <1>3, PTL DEF FilesSpec
=============================================================================
