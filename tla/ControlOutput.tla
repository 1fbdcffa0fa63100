--------------------------- MODULE ControlOutput ---------------------------
(***************************************************************************)
(* How the output of panes reaches control mode clients (control.c, the    *)
(* pane buffer in window.c and server-client.c).                           *)
(*                                                                         *)
(* What a pane writes stays in one buffer until the terminal emulation and *)
(* every control client have used it: wp->offset and, for each client and  *)
(* pane, offset (written) and queued (put into blocks) say how far. Blocks *)
(* and lines wait in all_blocks until the client can take more.            *)
(*                                                                         *)
(* An offset is kept here relative to wp->base_offset, the position of the *)
(* first byte in the buffer; Behind stands for all positions before it.    *)
(* Bytes are counted, not named. base_offset does not wrap around.         *)
(*                                                                         *)
(* The server does events (callbacks of libevent), then commands, then     *)
(* server_client_loop, and so on: phase.                                   *)
(***************************************************************************)
EXTENDS Integers, SequencesExt

CONSTANTS Pane, Client,
          None,
          PauseAfter, \* clients with the flag pause-after
          Low, High,  \* CONTROL_BUFFER_LOW and _HIGH
          Minimum,    \* CONTROL_WRITE_MINIMUM
          MaxBuffer,  \* bound: bytes in the buffer of a pane
          MaxBlocks,  \* bound: blocks and lines a client is waiting for
          MaxOut,     \* bound: bytes in a write buffer when a line is added
          ControlUses \* optional behaviours, see ControlFeatures

ControlFeatures ==
  {"refresh",  \* refresh-client -A and -f no-output
   "exit",     \* a client asks to go, or its connection fails
   "switch",   \* a client is switched to another session
   "age",      \* blocks get too old
   "respawn",  \* respawn-pane
   \* The last two while there is output to write, where they go wrong.
   "switch early", "respawn early"}

ControlAssumption ==
  /\ PauseAfter \subseteq Client
  /\ {Low, High, Minimum, MaxBuffer, MaxBlocks, MaxOut} \subseteq Nat \ {0}
  /\ Low < High
  /\ IsFiniteSet(Pane) /\ IsFiniteSet(Client) /\ None \notin Pane
  /\ None \notin [offset : Int, queued : Int, off : BOOLEAN, paused : BOOLEAN]
  /\ ControlUses \subseteq ControlFeatures

VARIABLES pane,  \* buffers of panes
          cl,    \* control clients
          phase, \* "events" or "commands"
          fatal  \* the server has stopped with "not enough data"

controlVars == <<pane, cl, phase, fatal>>

Behind == -1

\* A block of output has the pane and the bytes that are left; a line none.
Line == [pane |-> None, size |-> 0]

\* panes: struct control_pane. all: all_blocks; the blocks of a pane are in
\* the same order there. out: length of the output of write_event. armed:
\* write_event waits for the client. sees: panes of windows in c->session.
NewClient ==
  [panes |-> [p \in Pane |-> None], all |-> <<>>, pending |-> <<>>, out |-> 0,
   armed |-> FALSE, quiet |-> FALSE, exit |-> FALSE, exited |-> FALSE, sees |-> Pane]

ControlInit ==
  /\ pane = [p \in Pane |-> [len |-> 0, parsed |-> 0, reading |-> TRUE,
                             open |-> TRUE, exited |-> FALSE]]
  /\ cl = [c \in Client |-> NewClient]
  /\ phase = "events"
  /\ fatal = FALSE

-----------------------------------------------------------------------------
\* What q has at the places D, in their order.
Sorted(D) == [n \in 1..Cardinality(D) |-> CHOOSE k \in D : Cardinality({j \in D : j <= k}) = n]
Kept(q, D) == [n \in 1..Cardinality(D) |-> q[Sorted(D)[n]]]

(***************************************************************************)
(* The state r of one client.                                              *)
(***************************************************************************)
\* The places in all_blocks of the blocks of pane p, and of lines with
\* nothing in front of them.
Blocks(r, p) == {k \in DOMAIN r.all : r.all[k].pane = p}
Ready(r) == {k \in DOMAIN r.all : \A j \in 1..k : r.all[j] = Line}
LineFirst(r) == r.all # <<>> /\ Head(r.all) = Line

\* window_pane_exited.
Exited(p) == ~pane[p].open \/ pane[p].exited

\* control_pane_offset: the offset that holds the buffer, and "off".
Counts(r, p) == ~r.quiet /\ r.panes[p] # None /\ ~r.panes[p].paused /\ ~r.panes[p].off
Refuses(r, p) ==
  /\ ~r.quiet /\ r.panes[p] # None /\ ~r.panes[p].paused
  /\ r.panes[p].off \/ r.out >= Low

\* memcpy of wp->offset to both offsets.
AtParsed(cp, p) == [cp EXCEPT !.offset = pane[p].parsed, !.queued = pane[p].parsed]

\* control_add_pane.
AddPane(r, p) ==
  IF r.panes[p] # None THEN r
  ELSE [r EXCEPT !.panes[p] = [offset |-> pane[p].parsed, queued |-> pane[p].parsed,
                               off |-> FALSE, paused |-> FALSE]]

DiscardPane(r, p) == [r EXCEPT !.all = Kept(@, DOMAIN @ \ Blocks(r, p))]
DiscardAll(r) == [r EXCEPT !.all = Kept(@, {k \in DOMAIN @ : @[k] = Line})]

\* control_write.
ControlWrite(r) ==
  IF r.all = <<>> THEN [r EXCEPT !.out = @ + 1, !.armed = TRUE]
  ELSE [r EXCEPT !.all = Append(@, Line), !.armed = TRUE]

\* Variant: the blocks of a paused pane stay.
PausedKeepsBlocks(r, p) == ControlWrite([r EXCEPT !.panes[p].paused = TRUE])

\* control_set_pane_on and _off, control_continue_pane, control_pause_pane.
SetPaneOn(r, p) ==
  IF r.panes[p] = None \/ ~r.panes[p].off THEN r
  ELSE [r EXCEPT !.panes[p] = [AtParsed(@, p) EXCEPT !.off = FALSE]]

SetPaneOff(r, p) ==
  [DiscardPane(AddPane(r, p), p) EXCEPT !.panes[p] = [AtParsed(@, p) EXCEPT !.off = TRUE]]

ContinuePane(r, p) ==
  IF r.panes[p] = None \/ ~r.panes[p].paused THEN r
  ELSE ControlWrite([r EXCEPT !.panes[p] = [AtParsed(@, p) EXCEPT !.paused = FALSE]])

Paused(r, p) == ControlWrite([DiscardPane(r, p) EXCEPT !.panes[p].paused = TRUE])

PausePane(r, p) == LET x == AddPane(r, p) IN IF x.panes[p].paused THEN x ELSE Paused(x, p)

\* control_reset_offsets.
ResetOffsets(r) ==
  [DiscardAll(r) EXCEPT !.panes = [p \in Pane |-> None], !.pending = <<>>]

\* control_check_age when the first block of pane p is too old.
TooOld(r, c, p) == IF c \in PauseAfter THEN Paused(r, p) ELSE [DiscardAll(r) EXCEPT !.exit = TRUE]

\* control_flush_all_blocks: the lines in front of the first block of output.
Flush(r) ==
  [r EXCEPT !.out = @ + Cardinality(Ready(r)), !.all = Kept(@, DOMAIN @ \ Ready(r))]

(***************************************************************************)
(* control_write_output, when a pane has new data. The buffer has len      *)
(* bytes then. old: the first block that waits is too old.                 *)
(***************************************************************************)
WriteOutput(r, c, p, len, old) ==
  LET cp == AddPane(r, p).panes[p]
      Ignore(x) == [x EXCEPT !.panes[p].offset = len, !.panes[p].queued = len]
      block == [pane |-> p, size |-> len - cp.queued]
  IN IF p \notin r.sees THEN r
     ELSE IF r.quiet \/ r.exit THEN IF r.panes[p] = None THEN r ELSE Ignore(r)
     ELSE IF cp.off \/ cp.paused THEN Ignore(AddPane(r, p))
     ELSE IF old /\ Blocks(r, p) # {} THEN TooOld(r, c, p)
     ELSE IF block.size = 0 THEN AddPane(r, p)
     ELSE [AddPane(r, p) EXCEPT
             !.panes[p].queued = len,
             !.all = Append(@, block),
             !.pending = IF Contains(@, p) THEN @ ELSE Append(@, p),
             !.armed = TRUE]

(***************************************************************************)
(* control_write_pending: at most limit bytes of the blocks of pane p go   *)
(* into one message, which is written before lines that were held. old:    *)
(* the number of the block that is found to be too old, 0 for none; the    *)
(* message begun is dropped then. st is                                    *)
(* [r |-> client, used |-> bytes, message |-> bytes, n |-> blocks seen,    *)
(*  stop |-> too old, fatal |-> not enough data].                          *)
(***************************************************************************)
WriteMessage(r, n) == [r EXCEPT !.out = @ + n]

\* control_append_data and what follows it, for the block at index k of all:
\* the offset, and the block that is left or gone.
Shorter(q, k, size) == [q EXCEPT ![k].size = @ - size]
Without(q, k) == Kept(q, DOMAIN q \ {k})
Moved(r, p, size, q) == [r EXCEPT !.panes[p].offset = @ + size, !.all = q]
Written(st, size, r, n) ==
  [st EXCEPT !.r = r, !.used = @ + size, !.n = @ + 1, !.message = n]

AppendBlock(st, p, k, size) ==
  LET rest == Moved(st.r, p, size, Shorter(st.r.all, k, size))
      done == Moved(st.r, p, size, Without(st.r.all, k))
      n == st.message + size
  IN IF st.r.all[k].size > size THEN Written(st, size, rest, n)
     ELSE IF LineFirst(done) THEN Written(st, size, Flush(WriteMessage(done, n)), 0)
     ELSE Written(st, size, done, n)

NextBlock(st, c, p, limit, old) ==
  LET k == Min(Blocks(st.r, p))
      size == Min({st.r.all[k].size, limit - st.used})
  IN IF st.stop \/ st.fatal \/ st.used = limit \/ Blocks(st.r, p) = {} THEN st
     ELSE IF old = st.n + 1
       THEN [st EXCEPT !.r = TooOld(@, c, p), !.message = 0, !.stop = TRUE]
     ELSE IF pane[p].len - st.r.panes[p].offset < size THEN [st EXCEPT !.fatal = TRUE]
     ELSE AppendBlock(st, p, k, size)

\* Variant: lines behind the blocks of a pane that has gone are not flushed.
WritePendingGone(r, c, p, limit, old) ==
  LET start == [r |-> r, used |-> 0, message |-> 0, n |-> 0, stop |-> FALSE, fatal |-> FALSE]
      end == FoldLeft(LAMBDA st, b : NextBlock(st, c, p, limit, old), start, r.all)
  IN IF p \notin r.sees \/ Exited(p)
       THEN [start EXCEPT !.r = DiscardPane(r, p)]
     ELSE [end EXCEPT !.r = WriteMessage(@, end.message)]

WritePending(r, c, p, limit, old) ==
  LET start == [r |-> r, used |-> 0, message |-> 0, n |-> 0, stop |-> FALSE, fatal |-> FALSE]
      end == FoldLeft(LAMBDA st, b : NextBlock(st, c, p, limit, old), start, r.all)
  IN IF p \notin r.sees \/ Exited(p)
       THEN [start EXCEPT !.r = Flush(DiscardPane(r, p))]
     ELSE [end EXCEPT !.r = WriteMessage(@, end.message)]

(***************************************************************************)
(* control_write_callback: rounds over the pending panes until the buffer  *)
(* is full or none is pending. Every round writes or ends something, so    *)
(* there are at most as many as there are bytes and panes.                 *)
(***************************************************************************)
WriteLimit(r) == Max({Minimum, (High - r.out) \div (3 * Len(r.pending))})

PendingPane(st, c, p, limit, old) ==
  LET x == WritePending(st.r, c, p, limit, old[p])
      y == IF Blocks(x.r, p) = {}
             THEN [x.r EXCEPT !.pending = Kept(@, {k \in DOMAIN @ : @[k] # p})] ELSE x.r
  IN IF st.fatal \/ st.r.out >= High THEN st ELSE [r |-> y, fatal |-> x.fatal]

Round(st, c, old) ==
  IF st.fatal \/ st.r.out >= High \/ st.r.pending = <<>> THEN st
  ELSE LET limit == WriteLimit(st.r)
       IN FoldLeft(LAMBDA x, p : PendingPane(x, c, p, limit, old), st, st.r.pending)

WriteCallback(r, c, old) ==
  LET st == FoldLeft(LAMBDA x, n : Round(x, c, old), [r |-> Flush(r), fatal |-> FALSE],
                     [n \in 1..High + Cardinality(Pane) |-> n])
  IN [st EXCEPT !.r.armed = st.r.out > 0]

-----------------------------------------------------------------------------
(***************************************************************************)
(* Events.                                                                 *)
(***************************************************************************)
Ages == IF "age" \in ControlUses THEN {0, 1, 2} ELSE {0}

\* Positions in the buffer of pane p. What happens to data with a position
\* behind the end of the buffer (size_t underflows) is not followed.
InBuffer(p) ==
  /\ pane[p].parsed <= pane[p].len
  /\ \A c \in Client : cl[c].panes[p] # None => cl[c].panes[p].queued <= pane[p].len

\* window_pane_read_callback: n bytes have been added to the buffer.
PaneReads(p, n) ==
  /\ phase = "events" /\ ~fatal
  /\ pane[p].open /\ pane[p].reading /\ InBuffer(p)
  /\ pane[p].len + n <= MaxBuffer
  /\ \A c \in Client : Len(cl[c].all) < MaxBlocks
  /\ LET len == pane[p].len + n
     IN /\ \E old \in [Client -> {FALSE, "age" \in ControlUses}] :
             cl' = [c \in Client |-> WriteOutput(cl[c], c, p, len, old[c])]
        /\ pane' = [pane EXCEPT ![p].len = len, ![p].parsed = len, ![p].reading = FALSE]
  /\ UNCHANGED <<phase, fatal>>

\* window_pane_error_callback or server_child_exited. The pane is closed at
\* once or, with data still to read, by another call.
PaneExits(p) ==
  /\ phase = "events" /\ ~fatal
  /\ pane[p].open
  /\ \E open \in BOOLEAN : pane' = [pane EXCEPT ![p].exited = TRUE, ![p].open = open]
  /\ UNCHANGED <<cl, phase, fatal>>

\* The bufferevent has written n bytes to client c; at the low watermark it
\* calls control_write_callback.
ClientTakes(c, n) ==
  /\ phase = "events" /\ ~fatal
  /\ cl[c].armed
  /\ \A p \in ToSet(cl[c].pending) : InBuffer(p)
  /\ n \in IF cl[c].out = 0 THEN {0} ELSE 1..cl[c].out
  /\ LET r == [cl[c] EXCEPT !.out = @ - n, !.armed = cl[c].out > n]
     IN IF r.out > Low
          THEN cl' = [cl EXCEPT ![c] = r] /\ UNCHANGED fatal
          ELSE \E old \in [Pane -> Ages] :
                 LET st == WriteCallback(r, c, old)
                 IN cl' = [cl EXCEPT ![c] = st.r] /\ fatal' = st.fatal
  /\ UNCHANGED <<pane, phase>>

\* control_read_callback with an empty line, control_error_callback.
ClientExits(c) ==
  /\ phase = "events" /\ ~fatal
  /\ "exit" \in ControlUses
  /\ ~cl[c].exit
  /\ cl' = [cl EXCEPT ![c].exit = TRUE]
  /\ UNCHANGED <<pane, phase, fatal>>

\* server_client_lost and control_stop; another client takes its place.
ClientLost(c) ==
  /\ phase = "events" /\ ~fatal
  /\ "exit" \in ControlUses
  /\ cl' = [cl EXCEPT ![c] = NewClient]
  /\ UNCHANGED <<pane, phase, fatal>>

(***************************************************************************)
(* Commands and notifications, run from the command queues.                *)
(***************************************************************************)
Becomes(c, r) ==
  /\ ~fatal
  /\ phase' = "commands"
  /\ cl' = [cl EXCEPT ![c] = r]
  /\ UNCHANGED <<pane, fatal>>

\* Any line for the client: a notification or the output of a command.
Notify(c) ==
  /\ Len(cl[c].all) < MaxBlocks /\ cl[c].out < MaxOut
  /\ Becomes(c, ControlWrite(cl[c]))

\* refresh-client -A (pane state), for panes that exist.
Refresh(c) ==
  /\ "refresh" \in ControlUses
  /\ Len(cl[c].all) < MaxBlocks /\ cl[c].out < MaxOut
  /\ \E p \in Pane : \E r \in {SetPaneOn(cl[c], p), SetPaneOff(cl[c], p),
                               ContinuePane(cl[c], p), PausePane(cl[c], p)} :
       Becomes(c, r)

\* refresh-client -f no-output and !no-output.
SetNoOutput(c) ==
  /\ "refresh" \in ControlUses
  /\ \E quiet \in BOOLEAN : Becomes(c, [ResetOffsets(cl[c]) EXCEPT !.quiet = quiet])

\* switch-client: other windows are in the session of the client.
SwitchSession(c) ==
  /\ "switch" \in ControlUses
  /\ \E S \in SUBSET Pane :
       /\ "switch early" \in ControlUses \/ \A p \in Pane \ S : Blocks(cl[c], p) = {}
       /\ Becomes(c, [cl[c] EXCEPT !.sees = S])

\* respawn-pane (-k if the pane is open): a new and empty buffer, and the
\* offsets into the old one.
Respawn(p) ==
  /\ "respawn" \in ControlUses
  /\ "respawn early" \in ControlUses
     \/ /\ pane[p].parsed = 0
        /\ \A c \in Client : cl[c].panes[p] # None => cl[c].panes[p].queued <= 0
  /\ ~fatal
  /\ phase' = "commands"
  /\ pane' = [pane EXCEPT ![p].len = 0, ![p].reading = TRUE, ![p].open = TRUE,
                          ![p].exited = FALSE]
  /\ UNCHANGED <<cl, fatal>>

(***************************************************************************)
(* server_client_loop: server_client_check_exit for the clients, then      *)
(* server_client_check_pane_buffer for the panes that are open.            *)
(***************************************************************************)
CheckExit(r) ==
  IF ~r.exit \/ r.exited THEN r
  ELSE LET x == DiscardAll(r) IN [x EXCEPT !.exited = x.all = <<>> /\ x.out = 0]

\* Variant: clients that have not written the data are forgotten.
DrainedParsed(p) == IF pane[p].open THEN pane[p].parsed ELSE 0

\* The most that can be removed from the buffer.
Drained(p) ==
  IF ~pane[p].open THEN 0
  ELSE Min({pane[p].parsed} \cup
           {cl[c].panes[p].offset : c \in {c \in Client : Counts(cl[c], p)}})

Reads(p, clients) == \E c \in Client : ~Refuses(clients[c], p)

\* window_pane_update_used_data as the offsets see it: D[p] bytes are gone.
Shift(offset, n) == Max({Behind, offset - n})
Less(cp, n) == [cp EXCEPT !.offset = Shift(@, n), !.queued = Shift(@, n)]
Shifted(r, D) ==
  [r EXCEPT !.panes =
     [p \in Pane |-> IF r.panes[p] = None THEN None ELSE Less(r.panes[p], D[p])]]

Loop ==
  LET checked == [c \in Client |-> CheckExit(cl[c])]
      drained == [p \in Pane |-> Drained(p)]
  IN /\ ~fatal
     /\ phase' = "events"
     /\ pane' = [p \in Pane |->
          [pane[p] EXCEPT !.len = Max({0, @ - drained[p]}), !.parsed = @ - drained[p],
                          !.reading = IF pane[p].open THEN Reads(p, checked) ELSE @]]
     /\ cl' = [c \in Client |-> Shifted(checked[c], drained)]
     /\ UNCHANGED fatal

ControlNext ==
  \/ \E p \in Pane :
       \/ \E n \in 1..MaxBuffer : PaneReads(p, n)
       \/ PaneExits(p) \/ Respawn(p)
  \/ \E c \in Client :
       \/ \E n \in 0..MaxOut + High : ClientTakes(c, n)
       \/ ClientExits(c) \/ ClientLost(c)
       \/ Notify(c) \/ Refresh(c) \/ SetNoOutput(c) \/ SwitchSession(c)
  \/ Loop

ControlSpec == ControlInit /\ [][ControlNext]_controlVars

\* Every pass of libevent looks at all files and is followed by the loop, and
\* clients read what is sent to them: strong fairness of ClientTakes with all
\* of the buffer, its ENABLED written out.
CanTake(c) ==
  /\ phase = "events" /\ ~fatal /\ cl[c].armed
  /\ \A p \in ToSet(cl[c].pending) : InBuffer(p)

-----------------------------------------------------------------------------
(***************************************************************************)
(* Properties.                                                             *)
(***************************************************************************)
\* What the variables hold.
Positions == Behind..MaxBuffer

TypeOK ==
  /\ \A p \in Pane :
       /\ {pane[p].len, pane[p].parsed} \subseteq 0..MaxBuffer
       /\ {pane[p].reading, pane[p].open, pane[p].exited} \subseteq BOOLEAN
  /\ \A c \in Client :
       /\ \A p \in Pane : cl[c].panes[p] # None =>
            {cl[c].panes[p].offset, cl[c].panes[p].queued} \subseteq Positions
       /\ \A k \in 1..Len(cl[c].all) :
            cl[c].all[k] = Line \/ (cl[c].all[k].pane \in Pane /\ cl[c].all[k].size > 0)
       /\ cl[c].pending \in Seq(Pane)
       /\ cl[c].out \in Nat
       /\ {cl[c].armed, cl[c].quiet, cl[c].exit, cl[c].exited} \subseteq BOOLEAN
  /\ phase \in {"events", "commands"}
  /\ fatal \in BOOLEAN

\* What a client has been promised is in the buffer: the bytes between the
\* two offsets of an open pane are those of its blocks, and none of them has
\* been drained (comment on struct control_pane).
Bytes(r, p) == UNION {{k} \X (1..r.all[k].size) : k \in Blocks(r, p)}

BlocksMatchOffsets ==
  \A c \in Client, p \in Pane :
    LET cp == cl[c].panes[p]
    IN ~Exited(p) /\ ~cl[c].exit =>
         IF Counts(cl[c], p)
           THEN cp.offset >= 0 /\ cp.queued - cp.offset = Cardinality(Bytes(cl[c], p))
           ELSE Blocks(cl[c], p) = {}

\* A pane with blocks is in the list that control_write_callback goes
\* through, once, and the client is waited for.
BlocksArePending ==
  \A c \in Client :
    /\ \A p \in Pane : Blocks(cl[c], p) # {} =>
         p \in ToSet(cl[c].pending) /\ cl[c].armed
    /\ Len(cl[c].pending) = Cardinality(ToSet(cl[c].pending))

\* Lines that output held up are not left behind by it: when nothing is in
\* front of them any more, the client is waited for. With "age" they are:
\* a pane that the write callback pauses leaves them and waits for nothing.
HeldLinesWait == "age" \notin ControlUses => \A c \in Client : LineFirst(cl[c]) => cl[c].armed

\* Offsets, blocks, the lines held up and the list of pending panes, which the
\* read and the write callback, commands and the loop all change, agree between
\* any two of them.
BlocksSound == TypeOK /\ BlocksMatchOffsets /\ BlocksArePending /\ HeldLinesWait

\* control_append_data never finds less data than the block has.
EnoughData == ~fatal

\* Lines are written once the output in front of them is gone, unless the
\* server stops (comment on the output queues in control.c).
HeldLinesAreWritten == \A c \in Client : LineFirst(cl[c]) ~> ~LineFirst(cl[c]) \/ fatal

\* No more lines for client c.
LinesEnd(c) == <>[][~Notify(c) /\ ~Refresh(c)]_controlVars

\* A client that is to exit does, unless lines for it never end (its own
\* commands are not read any more).
ExitCompletes ==
  \A c \in Client :
    LinesEnd(c) => (cl[c].exit ~> cl[c].exited \/ ~cl[c].exit \/ fatal)

\* A pane that some client wants is read again and again, unless lines for
\* the clients never end: a full write buffer holds up panes only for a time.
Wanted(p) ==
  pane[p].open /\ \E c \in Client : cl[c].panes[p] = None \/ ~cl[c].panes[p].off
PanesAreRead ==
  (\A c \in Client : LinesEnd(c)) =>
    \A p \in Pane : []<>(pane[p].reading \/ ~Wanted(p) \/ fatal)
=============================================================================
