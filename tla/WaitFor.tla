------------------------------ MODULE WaitFor ------------------------------
(***************************************************************************)
(* The wait channels of wait-for (cmd-wait-for.c).                         *)
(*                                                                         *)
(* A channel is a name with two flags, locked and woken, and two FIFO      *)
(* lists of struct wait_item, waiters and lockers. A wait_item points at   *)
(* the command queue item that returned CMD_RETURN_WAIT; that item is      *)
(* always the head of its queue and the only one of the queue that can be  *)
(* waiting, so a wait_item is represented here by its queue. "blocked"     *)
(* holds the queues whose head has CMDQ_WAITING set by wait-for;           *)
(* cmdq_continue takes the queue out of it again.                          *)
(*                                                                         *)
(* The server runs the queue of a client only while the client is on the   *)
(* client list. server_client_lost takes it off the list and does not      *)
(* touch the wait channels.                                                *)
(***************************************************************************)
EXTENDS Naturals, Sequences, FiniteSets

CONSTANTS Channel,  \* names of wait channels
          Client,   \* clients of the server, each with its command queue
          Global,   \* the queue of hooks and configuration, of no client
          Nobody    \* no queue holds the lock

ASSUME GlobalAssumption == Global \notin Client
ASSUME NobodyAssumption == Nobody \notin Client \cup {Global}

Queue == Client \cup {Global}

VARIABLES
  exists,   \* the channels in the wait_channels tree
  locked,   \* wait_channel.locked
  woken,    \* wait_channel.woken
  waiters,  \* wait_channel.waiters
  lockers,  \* wait_channel.lockers
  blocked,  \* queues stopped at a wait-for
  lost,     \* clients gone through server_client_lost
  holder    \* history: the queue whose wait-for -L last succeeded

chanVars == <<exists, locked, woken, waiters, lockers>>
vars == <<chanVars, blocked, lost, holder>>

Elements(s) == {s[k] : k \in 1..Len(s)}

\* A queue the server can fire the head of: cmdq_next is called for it and
\* its head is not waiting.
CanRun(q) == q \notin blocked /\ q \notin lost

Init ==
  /\ exists = {}
  /\ locked = [ch \in Channel |-> FALSE]
  /\ woken = [ch \in Channel |-> FALSE]
  /\ waiters = [ch \in Channel |-> <<>>]
  /\ lockers = [ch \in Channel |-> <<>>]
  /\ blocked = {}
  /\ lost = {}
  /\ holder = [ch \in Channel |-> Nobody]

-----------------------------------------------------------------------------
(***************************************************************************)
(* Mistakes the code could have made; each breaks a property below.        *)
(***************************************************************************)
\* The waiters are continued but stay on the list.
SignalAllKeepsList(ch) ==
  /\ waiters[ch] # <<>> \/ woken[ch]
  /\ blocked' = blocked \ Elements(waiters[ch])
  /\ UNCHANGED <<exists, woken, locked, waiters, lockers>>

\* Lockers are pushed on the front of the list.
LockBlocksFront(q, ch) ==
  /\ locked[ch]
  /\ lockers' = [lockers EXCEPT ![ch] = <<q>> \o @]
  /\ blocked' = blocked \cup {q}
  /\ UNCHANGED <<exists, locked, woken, waiters, holder>>

\* The lock is let go although lockers wait.
UnlockFreesAlways(ch) ==
  /\ locked' = [locked EXCEPT ![ch] = FALSE]
  /\ holder' = [holder EXCEPT ![ch] = Nobody]
  /\ UNCHANGED <<exists, woken, waiters, lockers, blocked>>

-----------------------------------------------------------------------------
\* cmd_wait_for_remove refuses unless this holds of the channel.
Removable(lk, wk, ws) == ~lk /\ wk /\ ws = <<>>

(***************************************************************************)
(* wait-for -S. With nobody waiting and no wakeup recorded the signal is   *)
(* recorded; otherwise every waiter is continued, and the channel is       *)
(* removed if a wakeup was recorded and it is not locked.                  *)
(***************************************************************************)
SignalRecorded(ch) ==
  /\ waiters[ch] = <<>>
  /\ ~woken[ch]
  /\ exists' = exists \cup {ch}
  /\ woken' = [woken EXCEPT ![ch] = TRUE]
  /\ UNCHANGED <<locked, waiters, lockers, blocked>>

SignalAll(ch) ==
  /\ waiters[ch] # <<>> \/ woken[ch]
  /\ blocked' = blocked \ Elements(waiters[ch])
  /\ waiters' = [waiters EXCEPT ![ch] = <<>>]
  /\ IF Removable(locked[ch], woken[ch], <<>>)
       THEN /\ exists' = exists \ {ch}
            /\ woken' = [woken EXCEPT ![ch] = FALSE]
       ELSE UNCHANGED <<exists, woken>>
  /\ UNCHANGED <<locked, lockers>>

Signal(q, ch) ==
  /\ CanRun(q)
  /\ SignalRecorded(ch) \/ SignalAll(ch)
  /\ UNCHANGED <<lost, holder>>

(***************************************************************************)
(* wait-for with no flag: a recorded wakeup is used at once (and the       *)
(* channel removed unless it is locked), otherwise the item waits.         *)
(***************************************************************************)
WaitWoken(ch) ==
  /\ woken[ch]
  /\ IF Removable(locked[ch], woken[ch], waiters[ch])
       THEN /\ exists' = exists \ {ch}
            /\ woken' = [woken EXCEPT ![ch] = FALSE]
       ELSE UNCHANGED <<exists, woken>>
  /\ UNCHANGED <<locked, waiters, lockers, blocked>>

WaitBlocks(q, ch) ==
  /\ ~woken[ch]
  /\ exists' = exists \cup {ch}
  /\ waiters' = [waiters EXCEPT ![ch] = Append(@, q)]
  /\ blocked' = blocked \cup {q}
  /\ UNCHANGED <<locked, woken, lockers>>

Wait(q, ch) ==
  /\ CanRun(q)
  /\ WaitWoken(ch) \/ WaitBlocks(q, ch)
  /\ UNCHANGED <<lost, holder>>

(***************************************************************************)
(* wait-for -L.                                                            *)
(***************************************************************************)
LockTaken(q, ch) ==
  /\ ~locked[ch]
  /\ exists' = exists \cup {ch}
  /\ locked' = [locked EXCEPT ![ch] = TRUE]
  /\ holder' = [holder EXCEPT ![ch] = q]
  /\ UNCHANGED <<woken, waiters, lockers, blocked>>

LockBlocks(q, ch) ==
  /\ locked[ch]
  /\ lockers' = [lockers EXCEPT ![ch] = Append(@, q)]
  /\ blocked' = blocked \cup {q}
  /\ UNCHANGED <<exists, locked, woken, waiters, holder>>

Lock(q, ch) ==
  /\ CanRun(q)
  /\ LockTaken(q, ch) \/ LockBlocks(q, ch)
  /\ UNCHANGED lost

(***************************************************************************)
(* wait-for -U. Any queue may unlock, holder or not; on a channel that is  *)
(* not locked it is an error and nothing changes. With lockers waiting the *)
(* channel stays locked and the first of them is continued.                *)
(***************************************************************************)
UnlockHandsOver(ch) ==
  /\ lockers[ch] # <<>>
  /\ blocked' = blocked \ {Head(lockers[ch])}
  /\ lockers' = [lockers EXCEPT ![ch] = Tail(@)]
  /\ holder' = [holder EXCEPT ![ch] = Head(lockers[ch])]
  /\ UNCHANGED <<exists, locked, woken, waiters>>

UnlockFrees(ch) ==
  /\ lockers[ch] = <<>>
  /\ locked' = [locked EXCEPT ![ch] = FALSE]
  /\ holder' = [holder EXCEPT ![ch] = Nobody]
  /\ IF Removable(FALSE, woken[ch], waiters[ch])
       THEN /\ exists' = exists \ {ch}
            /\ woken' = [woken EXCEPT ![ch] = FALSE]
       ELSE UNCHANGED <<exists, woken>>
  /\ UNCHANGED <<waiters, lockers, blocked>>

Unlock(q, ch) ==
  /\ CanRun(q)
  /\ locked[ch]
  /\ UnlockHandsOver(ch) \/ UnlockFrees(ch)
  /\ UNCHANGED lost

(***************************************************************************)
(* cmd_wait_for_flush, from server_loop when no client is attached and     *)
(* from server_send_exit: every channel is emptied, unlocked and removed.  *)
(***************************************************************************)
OnChannel(ch) == Elements(waiters[ch]) \cup Elements(lockers[ch])

Flush ==
  /\ exists # {}
  /\ blocked' = blocked \ UNION {OnChannel(ch) : ch \in exists}
  /\ waiters' = [ch \in Channel |-> IF ch \in exists THEN <<>> ELSE waiters[ch]]
  /\ lockers' = [ch \in Channel |-> IF ch \in exists THEN <<>> ELSE lockers[ch]]
  /\ locked' = [ch \in Channel |-> IF ch \in exists THEN FALSE ELSE locked[ch]]
  /\ woken' = [ch \in Channel |-> IF ch \in exists THEN FALSE ELSE woken[ch]]
  /\ exists' = {}
  /\ holder' = [ch \in Channel |-> Nobody]
  /\ UNCHANGED lost

\* server_client_lost: the wait_items of the client stay on their lists.
Lose(c) ==
  /\ c \notin lost
  /\ lost' = lost \cup {c}
  /\ UNCHANGED <<chanVars, blocked, holder>>

Command(q) ==
  \E ch \in Channel : Signal(q, ch) \/ Wait(q, ch) \/ Lock(q, ch) \/ Unlock(q, ch)

Next ==
  \/ \E q \in Queue : Command(q)
  \/ Flush
  \/ \E c \in Client : Lose(c)

Spec == Init /\ [][Next]_vars

-----------------------------------------------------------------------------
(***************************************************************************)
(* Properties.                                                             *)
(***************************************************************************)
TypeOK ==
  /\ exists \in SUBSET Channel
  /\ locked \in [Channel -> BOOLEAN]
  /\ woken \in [Channel -> BOOLEAN]
  /\ waiters \in [Channel -> Seq(Queue)]
  /\ lockers \in [Channel -> Seq(Queue)]
  /\ blocked \in SUBSET Queue
  /\ lost \in SUBSET Client
  /\ holder \in [Channel -> Queue \cup {Nobody}]

NoDuplicates(s) == \A i, j \in 1..Len(s) : s[i] = s[j] => i = j

(***************************************************************************)
(* A queue stopped by wait-for is on exactly one list of exactly one       *)
(* channel, once, and every wait_item points at a queue that is stopped.   *)
(* Otherwise the item is never continued, or cmdq_continue is called on an *)
(* item that has run on and been freed.                                    *)
(***************************************************************************)
Parked ==
  /\ \A q \in Queue : q \in blocked <=> \E ch \in Channel : q \in OnChannel(ch)
  /\ \A ch \in Channel : NoDuplicates(waiters[ch]) /\ NoDuplicates(lockers[ch])
  /\ \A ch \in Channel, q \in Queue :
       ~(q \in Elements(waiters[ch]) /\ q \in Elements(lockers[ch]))
  /\ \A ch, d \in Channel, q \in Queue :
       q \in OnChannel(ch) /\ q \in OnChannel(d) => ch = d

(***************************************************************************)
(* A channel that is not in the tree has nothing on it. cmd_wait_for_remove *)
(* frees a channel without looking at its lockers, so this is what keeps   *)
(* the lockers of a freed channel from being forgotten.                    *)
(***************************************************************************)
FreedIsEmpty ==
  \A ch \in Channel \ exists :
    ~locked[ch] /\ ~woken[ch] /\ waiters[ch] = <<>> /\ lockers[ch] = <<>>

(***************************************************************************)
(* Lockers wait only for a lock that is held, waiters only on a channel    *)
(* with no wakeup recorded: nobody waits for what is there to be taken.    *)
(***************************************************************************)
NobodyWaitsInVain ==
  \A ch \in Channel :
    /\ lockers[ch] # <<>> => locked[ch]
    /\ waiters[ch] # <<>> => ~woken[ch]
    /\ locked[ch] <=> holder[ch] # Nobody

(***************************************************************************)
(* All of it together. Parked alone is not inductive: that a channel about *)
(* to be freed has no lockers needs FreedIsEmpty and NobodyWaitsInVain.    *)
(***************************************************************************)
IInv == TypeOK /\ Parked /\ FreedIsEmpty /\ NobodyWaitsInVain

(***************************************************************************)
(* The lock half of the channels is a lock service: one holder at a time,  *)
(* the lock passed on to one of those asking for it and never let go while *)
(* somebody asks, except by cmd_wait_for_flush.                            *)
(***************************************************************************)
Service ==
  INSTANCE LockService
    WITH asking <- [ch \in Channel |-> Elements(lockers[ch])],
         owner <- holder
LocksAreALockService == Service!Spec

(***************************************************************************)
(* Starvation freedom. If every lock is released some time after it was    *)
(* taken or passed on, everybody who asks for the lock is served (or       *)
(* flushed). Only the first in, first out order of the lockers gives this. *)
(***************************************************************************)
Released(ch) == \A q \in Queue : holder[ch] = q ~> holder[ch] # q

NoStarvation ==
  \A ch \in Channel :
    Released(ch) =>
      \A q \in Queue : q \in Elements(lockers[ch]) ~> q \notin Elements(lockers[ch])
=============================================================================
