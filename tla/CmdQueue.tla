------------------------------ MODULE CmdQueue -----------------------------
(***************************************************************************)
(* The command queues of the server (cmd-queue.c), the loop that drains    *)
(* them (server_loop in server.c), notifications (notify.c), the commands  *)
(* that wait for a job (cmd-run-shell.c, cmd-if-shell.c) and the lifetime  *)
(* of clients as far as it depends on queues (server-client.c).            *)
(*                                                                         *)
(* There is a queue for each client and the global queue. An item is a     *)
(* struct cmdq_item, allocated from the pool Item so that pointers to      *)
(* items (queue->item, cdata->item) can be modelled as pointers. What a    *)
(* command does is chosen when it fires: it may insert commands after      *)
(* itself, raise a notification, start a job, wait for it, or fail.        *)
(*                                                                         *)
(* The server is one thread. "at" says where it is: in libevent, where     *)
(* callbacks run one after the other in any order, or in cmdq_next for one *)
(* queue. A callback and the firing of an item are atomic.                 *)
(***************************************************************************)
EXTENDS Naturals, Sequences, FiniteSets

CONSTANTS Client,   \* clients that may connect
          Global,   \* the global queue
          Item,     \* pool of queue items (bounds how many exist at once)
          Job,      \* pool of background work (bounds how much runs at once)
          None,     \* NULL
          Groups,   \* numbers of the lines of commands, from 1
          LineSizes,  \* how many commands a line of a client or a key may have
          InsertSizes \* how many a line that a command or a job inserts may have

ASSUME PoolAssumption == IsFiniteSet(Item) /\ IsFiniteSet(Job) /\ Item \cap Job = {}
ASSUME NamesAssumption ==
  /\ Global \notin Client
  /\ None \notin Client \cup {Global} \cup Item
  /\ "events" \notin Client \cup {Global}
ASSUME GroupAssumption == Groups \cup LineSizes \cup InsertSizes \subseteq Nat \ {0}

Queue == Client \cup {Global}

VARIABLES
  order,    \* queue->list: the items of each queue, head first
  it,       \* the items themselves
  running,  \* queue->item
  job,      \* cdata of each running job
  conn,     \* where each client is in its life
  refs,     \* c->references
  freeing,  \* clients with a server_client_free event pending
  at,       \* "events", or the queue cmdq_next is draining
  todo,     \* clients server_loop has yet to visit in this pass
  busy      \* items # 0 in server_loop

qVars == <<order, it, running>>
cVars == <<conn, refs, freeing>>
loopVars == <<at, todo, busy>>
vars == <<qVars, job, cVars, loopVars>>

-----------------------------------------------------------------------------
(***************************************************************************)
(* Items and jobs.                                                         *)
(***************************************************************************)
FreeItem == [kind |-> "free", queue |-> None, client |-> None, group |-> 0,
             hook |-> FALSE, fired |-> FALSE, waiting |-> FALSE, depth |-> 0,
             about |-> None]

\* kind: a command, a plain callback, or the callback of a notification.
\* hook: CMDQ_STATE_NOHOOKS is set in the state of the item.
\* depth: history, how many hooks deep the item was made.
\* about: the client a notify_entry holds.
NewItem(kind, q, c, g, h, d, a) ==
  [kind |-> kind, queue |-> q, client |-> c, group |-> g, hook |-> h,
   fired |-> FALSE, waiting |-> FALSE, depth |-> d, about |-> a]

FreeJob == [busy |-> FALSE, item |-> None, client |-> None]

\* item: the item that waits for the job, None for a job started with -b.
\* client: the client the job holds a reference to.
NewJob(i, c) == [busy |-> TRUE, item |-> i, client |-> c]

Unused == {i \in Item : it[i].kind = "free"}
Idle == {j \in Job : ~job[j].busy}
Live == {c \in Client : conn[c] = "live"}
FreshGroups == {g \in Groups : \A i \in Item : it[i].group # g}

\* A line of commands is its size and the number of its group: the commands
\* parsed from one line are one group. The line of size 0 is no line.
Lines(sizes) == {<<0, 0>>} \cup (sizes \X FreshGroups)

\* The sequences of n different unused items.
Slots(n) ==
  {s \in [1..n -> Unused] : \A j, k \in 1..n : s[j] = s[k] => j = k}

Elements(s) == {s[k] : k \in 1..Len(s)}

Init ==
  /\ order = [q \in Queue |-> <<>>]
  /\ it = [i \in Item |-> FreeItem]
  /\ running = [q \in Queue |-> None]
  /\ job = [j \in Job |-> FreeJob]
  /\ conn = [c \in Client |-> "new"]
  /\ refs = [c \in Client |-> 0]
  /\ freeing = {}
  /\ at = "events"
  /\ todo = {}
  /\ busy = FALSE

\* Head of the queue cmdq_next is working on.
Current == Head(order[at])

Count(pairs, c) == Cardinality({x \in pairs : x[2] = c})

-----------------------------------------------------------------------------
(***************************************************************************)
(* Mistakes the code could have made; the checks must notice each of them. *)
(***************************************************************************)

\* The new items go in front of the item, not after it.
InsertBefore(q, i, s) ==
  LET k == CHOOSE k \in 1..Len(q) : q[k] = i
  IN SubSeq(q, 1, k - 1) \o s \o SubSeq(q, k, Len(q))

\* The references of what goes are dropped before what comes has its own.
ReferenceDropsFirst(gained, dropped) ==
  /\ refs' = [c \in Client |-> (refs[c] + Count(gained, c)) - Count(dropped, c)]
  /\ freeing' = freeing \cup
       {c \in Client : refs[c] # 0 /\ refs[c] = Count(dropped, c)}

\* cmdq_next goes on to remove an item that waits.
GoneAlways(removed, waits) == removed \cup {Current}

\* A hook gets a state without CMDQ_STATE_NOHOOKS.
HookWithHooks(c) == NewItem("command", at, c, 0, FALSE, it[Current].depth + 1, None)

\* server_loop runs one pass.
LastPassAlways == todo = {}

\* The item is not continued.
NotContinued(i) == i

\* The data of the job keeps its reference.
NothingDropped(j) == {}

-----------------------------------------------------------------------------
\* cmdq_remove of every item of S in turn: what is left of a queue.
Without(q, S) ==
  LET kept[k \in 0..Len(q)] ==
        IF k = 0 THEN <<>>
        ELSE IF q[k] \in S THEN kept[k - 1] ELSE Append(kept[k - 1], q[k])
  IN kept[Len(q)]

\* cmdq_insert_after: the items s after item i.
InsertAfter(q, i, s) ==
  LET k == CHOOSE k \in 1..Len(q) : q[k] = i
  IN SubSeq(q, 1, k) \o s \o SubSeq(q, k + 1, Len(q))

(***************************************************************************)
(* c->references rises by one for every item, job and notification that    *)
(* comes to point at the client and falls by one for every one that goes   *)
(* (server_client_unref); at zero an event is queued to free the client.   *)
(* "gained" and "dropped" are sets of pairs of a holder and a client. What *)
(* is gained is always gained first.                                       *)
(***************************************************************************)
Reference(gained, dropped) ==
  /\ refs' = [c \in Client |-> (refs[c] + Count(gained, c)) - Count(dropped, c)]
  /\ freeing' = freeing \cup {c \in Client : refs[c] # 0 /\ refs'[c] = 0}

ByItems(f, S) == {<<i, f[i].client>> : i \in S}
ByNotices(f, S) == {<<i, f[i].about>> : i \in S}

(***************************************************************************)
(* notify_add drops a notification when cmdq_running(NULL) is an item with *)
(* CMDQ_STATE_NOHOOKS. cmdq_running reads queue->item, which cmdq_next     *)
(* leaves in place when it stops at a waiting item.                        *)
(***************************************************************************)
RunningGlobal == IF at = Global THEN Current ELSE running[Global]

Suppressed ==
  /\ RunningGlobal # None
  /\ ~it[RunningGlobal].waiting
  /\ it[RunningGlobal].hook

\* The slots for the notification a step raises: none if it raises none.
NoticeSlots == {<<>>} \cup (IF Suppressed THEN {} ELSE Slots(1))

Notice(a, d) == NewItem("notice", Global, None, 0, FALSE, d, a)

(***************************************************************************)
(* Firing the head of a queue and what cmdq_next does with it after that.  *)
(* s: the new items inserted after the head, each with contents rec; n:    *)
(* the notification raised, about client a; removed: items of the same     *)
(* group, when the head failed; waits: the head returned CMD_RETURN_WAIT,  *)
(* so it stays and cmdq_next returns, without counting it.                 *)
(***************************************************************************)
\* queue->item = TAILQ_FIRST, at the top of the loop and NULL at its end.
NextRunning(q) == IF order'[q] = <<>> THEN None ELSE Head(order'[q])

Gone(removed, waits) == removed \cup (IF waits THEN {} ELSE {Current})

FireItems(s, rec, n, a, removed, waits) ==
  /\ it' = [i \in Item |->
       CASE i \in Gone(removed, waits) -> FreeItem
         [] i \in Elements(s) -> rec
         [] i \in Elements(n) -> Notice(a, it[Current].depth)
         [] i = Current /\ waits -> [it[i] EXCEPT !.fired = TRUE, !.waiting = TRUE]
         [] OTHER -> it[i]]
  /\ order' = [q \in Queue |->
       (IF q = at
          THEN Without(InsertAfter(order[q], Current, s), Gone(removed, waits))
          ELSE order[q])
       \o (IF q = Global THEN n ELSE <<>>)]
  /\ running' = [running EXCEPT ![at] = NextRunning(at)]
  /\ busy' = (busy \/ ~waits)
  /\ UNCHANGED <<conn, at, todo>>

Fire(s, rec, n, a, removed, waits, jobRefs) ==
  /\ FireItems(s, rec, n, a, removed, waits)
  /\ Reference(ByItems(it', Elements(s)) \cup ByNotices(it', Elements(n)) \cup jobRefs,
               ByItems(it, Gone(removed, waits)) \cup ByNotices(it, Gone(removed, waits)))

\* cmdq_next has a head to fire: not fired yet, so not waiting either.
CanFire(kind) ==
  /\ at # "events"
  /\ order[at] # <<>>
  /\ ~it[Current].fired
  /\ it[Current].kind = kind

\* cmdq_fire_command gives an item of no client the best attached client for
\* as long as the command runs, if there is one.
ClientsFor(i) == IF it[i].client # None THEN {it[i].client} ELSE Live \cup {None}

\* cmdq_insert_hook: the slot for a hook, none if the hook is not set or the
\* item is part of a hook.
HookSlots(i) == {<<>>} \cup (IF it[i].hook THEN {} ELSE Slots(1))

Hook(c) == NewItem("command", at, c, 0, TRUE, it[Current].depth + 1, None)

\* The command succeeds; it may raise a notification and have an after hook.
CommandSucceeds(c) ==
  \E s \in HookSlots(Current), n \in NoticeSlots, a \in Live \cup {None} :
    /\ Elements(s) \cap Elements(n) = {}
    /\ n = <<>> => a = None
    /\ Fire(s, Hook(c), n, a, {}, FALSE, {})
    /\ UNCHANGED job

\* if-shell -F and the like: the command inserts a line with its own state.
CommandInserts(c) ==
  \E l \in InsertSizes \X FreshGroups : \E s \in Slots(l[1]) :
    /\ Fire(s, NewItem("command", at, c, l[2], it[Current].hook, it[Current].depth, None),
            <<>>, None, {}, FALSE, {})
    /\ UNCHANGED job

\* cmdq_remove_group: the later items of the queue in the same group.
SameGroup ==
  IF it[Current].group = 0 THEN {}
  ELSE {i \in Elements(Tail(order[at])) : it[i].group = it[Current].group}

\* The command fails: command-error hook, for the client the item had, and
\* the rest of its line is removed.
CommandFails ==
  \E s \in HookSlots(Current) :
    /\ Fire(s, Hook(it[Current].client), <<>>, None, SameGroup, FALSE, {})
    /\ UNCHANGED job

\* run-shell, if-shell, load-buffer and save-buffer: a job, or the client that
\* reads or writes the file, is started and the item waits for it. An overlay
\* may raise a notification besides, and those that have an after hook have it
\* put after the item that waits.
CommandWaits(c) ==
  \E j \in Idle, s \in HookSlots(Current), n \in NoticeSlots :
    /\ Elements(s) \cap Elements(n) = {}
    /\ Fire(s, Hook(c), n, None, {}, TRUE, {<<j, c>>})
    /\ job' = [job EXCEPT ![j] = NewJob(Current, c)]

\* run-shell -b, if-shell -b: the job belongs to the target client, which is
\* the client of the item or another attached one.
CommandStarts(c) ==
  \E j \in Idle, t \in {c} \cup Live \cup {None} :
    /\ Fire(<<>>, FreeItem, <<>>, None, {}, FALSE, {<<j, t>>})
    /\ job' = [job EXCEPT ![j] = NewJob(None, t)]

FireCommand ==
  /\ CanFire("command")
  /\ \/ \E c \in ClientsFor(Current) :
          CommandSucceeds(c) \/ CommandInserts(c) \/ CommandWaits(c) \/ CommandStarts(c)
     \/ CommandFails

\* A callback may insert a line with a state of its own (the commands of a
\* key binding, default-client-command) or nothing (command done, an error).
FireCallback ==
  /\ CanFire("callback")
  /\ \E l \in Lines(LineSizes) : \E s \in Slots(l[1]) :
       Fire(s, NewItem("command", at, it[Current].client, l[2], FALSE, 0, None),
            <<>>, None, {}, FALSE, {})
  /\ UNCHANGED job

\* notify_callback: the hook of the notification, if set, after the item.
FireNotice ==
  /\ CanFire("notice")
  /\ \E k \in {0, 1} : \E s \in Slots(k) :
       Fire(s, Hook(it[Current].client), <<>>, None, {}, FALSE, {})
  /\ UNCHANGED job

\* An item that waited and has been continued is removed without firing.
Retire ==
  /\ at # "events"
  /\ order[at] # <<>>
  /\ it[Current].fired
  /\ ~it[Current].waiting
  /\ it' = [it EXCEPT ![Current] = FreeItem]
  /\ order' = [order EXCEPT ![at] = Tail(@)]
  /\ running' = [running EXCEPT ![at] = NextRunning(at)]
  /\ Reference({}, ByItems(it, {Current}))
  /\ UNCHANGED <<job, conn, loopVars>>

-----------------------------------------------------------------------------
(***************************************************************************)
(* server_loop: the global queue, then the queue of every client, again    *)
(* and again until a pass fires nothing.                                   *)
(***************************************************************************)
StartPass ==
  /\ at' = Global
  /\ todo' = Live
  /\ busy' = FALSE

LoopStart ==
  /\ at = "events"
  /\ StartPass
  /\ UNCHANGED <<qVars, job, cVars>>

\* cmdq_next returns: the queue is empty or its head waits.
QueueDone ==
  /\ at # "events"
  /\ order[at] # <<>> => it[Current].waiting
  /\ UNCHANGED <<qVars, job, cVars>>

NextClient ==
  /\ QueueDone
  /\ \E c \in todo : at' = c /\ todo' = todo \ {c}
  /\ UNCHANGED busy

NextPass ==
  /\ QueueDone
  /\ todo = {} /\ busy
  /\ StartPass

LastPass == todo = {} /\ ~busy

LeaveLoop ==
  /\ QueueDone
  /\ LastPass
  /\ at' = "events"
  /\ UNCHANGED <<todo, busy>>

-----------------------------------------------------------------------------
(***************************************************************************)
(* Callbacks of the event loop.                                            *)
(***************************************************************************)
Connect(c) ==
  /\ at = "events"
  /\ conn[c] = "new"
  /\ conn' = [conn EXCEPT ![c] = "live"]
  /\ refs' = [refs EXCEPT ![c] = 1]
  /\ UNCHANGED <<qVars, job, freeing, loopVars>>

\* New items are put at the end of a queue (cmdq_append).
Append2(q, s, f) ==
  /\ order' = [order EXCEPT ![q] = @ \o s]
  /\ it' = [i \in Item |-> IF i \in Elements(s) THEN f[i] ELSE it[i]]

\* MSG_COMMAND: the commands of the client and the callback that says they
\* are done; without commands, a key pressed at the client.
Request(c) ==
  /\ at = "events"
  /\ conn[c] = "live"
  /\ \E l \in Lines(LineSizes) : \E s \in Slots(l[1] + 1) :
       Append2(c, s, [i \in Elements(s) |->
         IF i = s[l[1] + 1] THEN NewItem("callback", c, c, 0, FALSE, 0, None)
                         ELSE NewItem("command", c, c, l[2], FALSE, 0, None)])
       /\ Reference(ByItems(it', Elements(s)), {})
  /\ UNCHANGED <<running, job, conn, loopVars>>

\* A pane, a window or a client changed: a notification about a client.
Raise ==
  /\ at = "events"
  /\ ~Suppressed
  /\ \E s \in Slots(1), a \in Live \cup {None} :
       Append2(Global, s, [i \in Elements(s) |-> Notice(a, 0)])
       /\ Reference(ByNotices(it', Elements(s)), {})
  /\ UNCHANGED <<running, job, conn, loopVars>>

\* cmdq_continue.
Continued(i) == [i EXCEPT !.waiting = FALSE]

\* The reference the job holds is dropped when its data is freed.
Dropped(j) == {<<j, job[j].client>>}

\* The job of an item ends: it may insert a line after the item, with the
\* state of the item, and continues it.
JobEnds(j) ==
  /\ at = "events"
  /\ job[j].busy
  /\ job[j].item # None
  /\ LET i == job[j].item  q == it[i].queue IN
     \E l \in Lines(InsertSizes) : \E s \in Slots(l[1]) :
       /\ order' = [order EXCEPT ![q] = InsertAfter(@, i, s)]
       /\ it' = [x \in Item |->
            CASE x \in Elements(s) ->
                   NewItem("command", q, it[i].client, l[2], it[i].hook, it[i].depth, None)
              [] x = i -> Continued(it[i])
              [] OTHER -> it[x]]
       /\ Reference(ByItems(it', Elements(s)), Dropped(j))
  /\ job' = [job EXCEPT ![j] = FreeJob]
  /\ UNCHANGED <<running, conn, loopVars>>

\* A background job ends: it may append a line to the queue of its client,
\* with a new state, which also starts its history anew.
BackgroundEnds(j) ==
  /\ at = "events"
  /\ job[j].busy
  /\ job[j].item = None
  /\ LET c == job[j].client
         q == IF c = None THEN Global ELSE c IN
     \E l \in Lines(InsertSizes) : \E s \in Slots(l[1]) :
       /\ Append2(q, s, [i \in Elements(s) |->
            NewItem("command", q, c, l[2], FALSE, 0, None)])
       /\ Reference(ByItems(it', Elements(s)), Dropped(j))
  /\ job' = [job EXCEPT ![j] = FreeJob]
  /\ UNCHANGED <<running, conn, loopVars>>

Losable(c) == conn[c] = "live"

\* server_client_lost: off the client list, client-detached if it was
\* attached, and the reference of the list dropped. Its queue stays.
Lose(c) ==
  /\ at = "events"
  /\ Losable(c)
  /\ conn' = [conn EXCEPT ![c] = "lost"]
  /\ \E n \in NoticeSlots :
       /\ Append2(Global, n, [i \in Elements(n) |-> Notice(c, 0)])
       /\ Reference(ByNotices(it', Elements(n)), {<<None, c>>})
  /\ UNCHANGED <<running, job, loopVars>>

\* server_client_free. cmdq_free stops the server if the queue has items.
Free(c) ==
  /\ at = "events"
  /\ c \in freeing
  /\ freeing' = freeing \ {c}
  /\ conn' = [conn EXCEPT ![c] = IF refs[c] = 0 THEN "freed" ELSE @]
  /\ UNCHANGED <<qVars, job, refs, loopVars>>

Next ==
  \/ FireCommand \/ FireCallback \/ FireNotice \/ Retire
  \/ LoopStart \/ NextClient \/ NextPass \/ LeaveLoop
  \/ Raise
  \/ \E c \in Client : Connect(c) \/ Request(c) \/ Lose(c) \/ Free(c)
  \/ \E j \in Job : JobEnds(j) \/ BackgroundEnds(j)

Spec == Init /\ [][Next]_vars

(***************************************************************************)
(* The loop never stops, and event_loop(EVLOOP_ONCE) runs every callback   *)
(* that is due before the next pass: a job that has ended or a free that   *)
(* is pending has its turn whenever the server is back in the event loop   *)
(* often enough, hence strong fairness. That jobs end is assumed.          *)
(***************************************************************************)
Server == FireCommand \/ FireCallback \/ FireNotice \/ Retire
          \/ LoopStart \/ NextClient \/ NextPass \/ LeaveLoop

-----------------------------------------------------------------------------
(***************************************************************************)
(* Properties.                                                             *)
(***************************************************************************)
\* The list of every queue holds the items that name it, each once.
Lists ==
  /\ \A q \in Queue :
       /\ Elements(order[q]) = {i \in Item : it[i].queue = q}
       /\ Cardinality(Elements(order[q])) = Len(order[q])
  /\ \A i \in Item : it[i].kind = "free" <=> it[i].queue = None

TypeOK ==
  /\ order \in [Queue -> Seq(Item)]
  /\ Lists
  /\ \A i \in Item :
       /\ it[i].kind \in {"free", "command", "callback", "notice"}
       /\ it[i].queue \in Queue \cup {None}
       /\ it[i].client \in Client \cup {None}
       /\ it[i].about \in Client \cup {None}
       /\ it[i].group \in Groups \cup {0}
       /\ it[i].depth \in Nat
       /\ {it[i].hook, it[i].fired, it[i].waiting} \subseteq BOOLEAN
  /\ running \in [Queue -> Item \cup {None}]
  /\ job \in [Job -> [busy : BOOLEAN, item : Item \cup {None},
                      client : Client \cup {None}]]
  /\ conn \in [Client -> {"new", "live", "lost", "freed"}]
  /\ refs \in [Client -> Nat]
  /\ freeing \in SUBSET Client
  /\ at \in Queue \cup {"events"}
  /\ todo \in SUBSET Client
  /\ busy \in BOOLEAN

(***************************************************************************)
(* c->references counts exactly the pointers at the client: the client     *)
(* list, the items, the notifications and the jobs.                        *)
(***************************************************************************)
Pointers(c) ==
  (IF conn[c] = "live" THEN 1 ELSE 0)
  + Cardinality({i \in Item : it[i].client = c})
  + Cardinality({i \in Item : it[i].about = c})
  + Cardinality({j \in Job : job[j].client = c})

ReferencesExact == \A c \in Client : refs[c] = Pointers(c)

(***************************************************************************)
(* A client is freed once nothing points at it, with an empty queue (else  *)
(* cmdq_free calls fatalx), and the client whose free is pending is not    *)
(* pointed at again in the meantime.                                       *)
(***************************************************************************)
FreedForGood ==
  /\ \A c \in freeing : refs[c] = 0 /\ order[c] = <<>> /\ conn[c] = "lost"
  /\ \A c \in Client : conn[c] = "freed" => refs[c] = 0 /\ order[c] = <<>>

(***************************************************************************)
(* Clients live as long as something points at them and not longer, over   *)
(* all the callbacks, jobs and hooks that may still hold one when it is    *)
(* lost (server_client_lost, server_client_unref, server_client_free).     *)
(***************************************************************************)
Lifetimes == TypeOK /\ ReferencesExact /\ FreedForGood

(***************************************************************************)
(* Only the head of a queue has fired; so items fire in the order they     *)
(* have in the queue and an item that waits holds up all that follow.      *)
(***************************************************************************)
OnlyHeadFired ==
  \A q \in Queue : \A k \in 2..Len(order[q]) :
    ~it[order[q][k]].fired /\ ~it[order[q][k]].waiting

(***************************************************************************)
(* Every waiting item has one job that will continue it and every job with *)
(* an item points at one that exists and waits, so cmdq_continue and       *)
(* cmdq_insert_after never see an item that has been freed, and no item    *)
(* waits for ever.                                                         *)
(***************************************************************************)
JobsMatchWaiters ==
  /\ \A j \in Job : job[j].item # None =>
       /\ it[job[j].item].waiting
       /\ it[job[j].item] # FreeItem
       /\ job[j].item = Head(order[it[job[j].item].queue])
  /\ \A i \in Item : it[i].waiting =>
       Cardinality({j \in Job : job[j].item = i}) = 1

(***************************************************************************)
(* queue->item never dangles: between passes it is NULL or the head, which *)
(* is an item at which cmdq_next stopped.                                  *)
(***************************************************************************)
RunningIsHead ==
  \A q \in Queue : running[q] # None =>
    order[q] # <<>> /\ running[q] = Head(order[q])

(***************************************************************************)
(* Items fire in order and a pointer at an item that has fired is good     *)
(* until it is used: by cmdq_next (queue->item), by a job (cdata->item).   *)
(***************************************************************************)
FiringInOrder == OnlyHeadFired /\ JobsMatchWaiters /\ RunningIsHead

(***************************************************************************)
(* Hooks do not feed on themselves: a command of a client has an after     *)
(* hook, that may raise a notification, which has a hook again, and there  *)
(* it ends. A command run for a hook always has CMDQ_STATE_NOHOOKS.        *)
(***************************************************************************)
HooksEnd ==
  \A i \in Item :
    /\ it[i].depth <= 2
    /\ it[i].kind = "command" /\ it[i].depth > 0 => it[i].hook
    /\ it[i].queue # Global /\ it[i].hook => it[i].depth <= 1

(***************************************************************************)
(* When server_loop goes back to the event loop no client has an item that *)
(* could run. The global queue may have a notification that could, and     *)
(* then some client has an item that waits: it raised it before it waited, *)
(* and server_loop does not count such an item.                            *)
(***************************************************************************)
HeadWaits(q) == order[q] # <<>> /\ it[Head(order[q])].waiting
Runnable(q) == order[q] # <<>> /\ ~it[Head(order[q])].waiting

LoopLeavesNothing ==
  [][at # "events" /\ at' = "events" =>
       /\ \A c \in Live : ~Runnable(c)
       /\ Runnable(Global) =>
            /\ it[Head(order[Global])].kind = "notice"
            /\ \E c \in Live : HeadWaits(c)]_vars

(***************************************************************************)
(* Every item of a client that stays, and every item of the global queue,  *)
(* runs and goes, as long as commands and jobs do not insert others for    *)
(* ever.                                                                   *)
(***************************************************************************)
EveryItemRuns ==
  /\ \A i \in Item : it[i].queue = Global ~> it[i].kind = "free"
  /\ \A i \in Item, c \in Client :
       it[i].queue = c ~> it[i].kind = "free" \/ conn[c] = "lost"

(***************************************************************************)
(* A client that is lost is freed in the end. Only items left on its own   *)
(* queue, which server_loop does not visit any more, can prevent that.     *)
(***************************************************************************)
LostClientsGo ==
  \A c \in Client : conn[c] = "lost" ~> conn[c] = "freed" \/ order[c] # <<>>
=============================================================================
