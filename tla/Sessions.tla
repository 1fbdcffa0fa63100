------------------------------ MODULE Sessions -----------------------------
(***************************************************************************)
(* Sessions, the links to windows they hold (winlinks), session groups and *)
(* the clients attached to sessions (session.c, server-fn.c, the winlinks  *)
(* of window.c, spawn_window in spawn.c and the commands that call them).  *)
(*                                                                         *)
(* A winlink is an index of a session and the window linked there. Inside  *)
(* a session a winlink is named by its index, also by the pointers to it   *)
(* (curw, lastw); a pointer to a winlink that has been freed is Freed.     *)
(* A window exists as long as a winlink or a notification refers to it.    *)
(*                                                                         *)
(* The server has one thread and every command runs to its end, so each    *)
(* command is one step: an operator from a state of all the sessions to    *)
(* the next, made of the functions of the source in their order.           *)
(***************************************************************************)
EXTENDS Integers, SequencesExt

CONSTANTS Session,    \* numbers: RB_FOREACH visits sessions in this order
          Base,       \* base-index
          None,       \* NULL
          Freed,      \* a pointer to freed memory
          Policies,   \* values of detach-on-destroy that are in use
          Instances   \* what a behaviour has: sessions and windows there may
                      \* be at once, the highest index of one (a bound),
                      \* clients, destroy-unattached, and the features it
                      \* uses, see Features

Features == {"group",    \* new-session -t
             "again",    \* link a window to a session that has it
             "swap",     \* swap-window
             "-a",       \* new-window and move-window -a and -b
             "-r",       \* move-window -r
             "renumber-windows", \* this option may be on
             "later",    \* commands run while notifications are still queued
             \* Where the commands above go wrong: for sessions of a group ...
             "-a in groups", "-r in groups",
             "-r twice", \* ... and for a session that has a window twice;
             "fail -k",  \* new-window -k fails on the current window or in a group;
             "name again", \* new-session -t with a session in no group whose
                           \* name is that of a group;
             "some kept"}  \* clients of a session, some with the flag
                           \* no-detach-on-destroy, with destroy-unattached

ASSUME SessionsAssumption == Session \subseteq Nat /\ IsFiniteSet(Session)
ASSUME PointersAssumption == None \notin Nat /\ Freed \notin Nat /\ None # Freed
ASSUME OptionsAssumption ==
  /\ Base \in Nat
  /\ Policies # {} /\ Policies \subseteq {"off", "on", "no-detached", "previous", "next"}
  /\ \A u \in Instances :
       /\ u.sessions # {} /\ u.sessions \subseteq Session
       /\ u.unattached \in {"off", "on", "keep-last", "keep-group"}
       /\ IsFiniteSet(u.windows) /\ IsFiniteSet(u.clients) /\ u.top \in Nat
       /\ u.uses \subseteq Features

VARIABLES sess,   \* the sessions
          groups, \* session_groups: the sessions of each in order, by its
                  \* name, <<>> for no such group
          att,    \* c->session
          noted,  \* windows that queued notifications hold references to
          instance

vars == <<sess, groups, att, noted, instance>>

Window == instance.windows
Client == instance.clients
MaxIndex == instance.top
Unattached == instance.unattached
Uses == instance.uses
Indexes == 0..MaxIndex

\* win: RB tree of winlinks, from index to window. cur: curw. last: lastw.
Dead == [alive |-> FALSE, win |-> <<>>, cur |-> None, last |-> <<>>]

State == [sess |-> sess, groups |-> groups, att |-> att, noted |-> noted]

Become(st) ==
  /\ sess' = st.sess
  /\ groups' = st.groups
  /\ att' = st.att
  /\ noted' = st.noted
  /\ UNCHANGED instance

Init ==
  /\ instance \in Instances
  /\ sess = [s \in Session |-> Dead]
  /\ groups = [n \in Session |-> <<>>]
  /\ att = [c \in Client |-> None]
  /\ noted = {}

-----------------------------------------------------------------------------
(***************************************************************************)
(* One session r and its winlinks.                                         *)
(***************************************************************************)
Linked(r) == DOMAIN r.win
Links(r, w) == {i \in Linked(r) : r.win[i] = w}

\* The finite set I of numbers in increasing order.
Sorted(I) == [n \in 1..Cardinality(I) |-> CHOOSE i \in I : Cardinality({j \in I : j <= i}) = n]

\* What q has at the places D; q without what is not in S, and without x.
Kept(q, D) == [n \in 1..Cardinality(D) |-> q[Sorted(D)[n]]]
Only(q, S) == Kept(q, {k \in DOMAIN q : q[k] \in S})
Drop(q, x) == Kept(q, {k \in DOMAIN q : q[k] # x})

\* winlink_stack_push, which does nothing with NULL.
Push(stack, i) == IF i = None THEN stack ELSE <<i>> \o Drop(stack, i)

\* session_set_current.
SetCurrent(r, i) ==
  IF i = r.cur THEN r
  ELSE [r EXCEPT !.cur = i, !.last = Push(Drop(r.last, i), r.cur)]

\* session_previous: the winlink before i, the last one if there is none.
Before(r, i) ==
  LET lower == {j \in Linked(r) : j < i}
  IN IF lower = {} THEN Max(Linked(r)) ELSE Max(lower)

\* session_last, else session_previous, else session_next; the third never
\* finds what the second does not.
MoveOff(r) ==
  SetCurrent(r, IF r.last # <<>> /\ Head(r.last) # r.cur
                  THEN Head(r.last) ELSE Before(r, r.cur))

\* winlink_set_window for a new winlink.
Link(r, i, w) == [r EXCEPT !.win = [j \in Linked(r) \cup {i} |-> IF j = i THEN w ELSE @[j]]]

\* winlink_stack_remove and winlink_remove.
Unlink(r, i) ==
  [r EXCEPT !.win = Restrict(@, Linked(r) \ {i}),
            !.last = Drop(@, i),
            !.cur = IF @ = i THEN Freed ELSE @]

-----------------------------------------------------------------------------
\* Variants: a current window that has vanished is not left first; the
\* current window of the target is taken over.
SynchronizeInPlace(t, r) ==
  IF Linked(t) = {} THEN r
  ELSE [r EXCEPT !.win = t.win,
                 !.cur = IF @ \in Linked(t) THEN @ ELSE None,
                 !.last = Only(@, Linked(t))]

SynchronizeCurrent(t, r) ==
  IF Linked(t) = {} THEN r
  ELSE [r EXCEPT !.win = t.win, !.cur = t.cur,
                 !.last = Only(@, Linked(t) \ {t.cur})]

(***************************************************************************)
(* session_group_synchronize1: r takes over the winlinks of t.             *)
(***************************************************************************)
Synchronize1(t, r) ==
  LET m == IF r.cur # None /\ r.cur \notin Linked(t) THEN MoveOff(r) ELSE r
      c == IF m.cur # None THEN m.cur ELSE t.cur
  IN IF Linked(t) = {} THEN r
     ELSE [m EXCEPT !.win = t.win,
                    !.cur = IF c \in Linked(t) THEN c ELSE None,
                    !.last = Only(@, Linked(t))]

\* session_group_contains, None or <<>> for NULL.
NameOf(st, s) ==
  IF \E n \in Session : Contains(st.groups[n], s)
    THEN CHOOSE n \in Session : Contains(st.groups[n], s) ELSE None

GroupOf(st, s) == IF NameOf(st, s) = None THEN <<>> ELSE st.groups[NameOf(st, s)]

Mates(st, s) == ToSet(GroupOf(st, s)) \ {s}

Put(st, s, r) == [st EXCEPT !.sess[s] = r]

\* Notifications about windows W are queued, or delivered before the next
\* command.
Note(st, W) == IF "later" \in Uses THEN [st EXCEPT !.noted = @ \cup W] ELSE st

\* session_group_synchronize_from. Every window linked or unlinked is noted.
SynchronizeFrom(st, s) ==
  LET mates == Mates(st, s)
      all == {s} \cup mates
      x == [st EXCEPT !.sess = [y \in Session |->
                        IF y \in mates THEN Synchronize1(@[s], @[y]) ELSE @[y]]]
  IN IF mates = {} THEN st
     ELSE IF Linked(st.sess[s]) = {} THEN x
     ELSE Note(x, UNION {Range(st.sess[y].win) : y \in all})

\* session_attach.
Attach(st, s, i, w) ==
  SynchronizeFrom(Note(Put(st, s, Link(st.sess[s], i, w)), {w}), s)

\* session_detach.
Detach(st, s, i) ==
  LET r == st.sess[s]
      m == IF r.cur = i THEN MoveOff(r) ELSE r
  IN SynchronizeFrom(Note(Put(st, s, Unlink(m, i)), {r.win[i]}), s)

(***************************************************************************)
(* session_renumber_windows. The stack of last windows is rebuilt by       *)
(* window, so from a window that is linked twice comes the first winlink.  *)
(***************************************************************************)
Renumber(r) ==
  LET old == Sorted(Linked(r))
      new == [k \in 1..Len(old) |-> Base + k - 1]
      Moved(i) == new[CHOOSE k \in 1..Len(old) : old[k] = i]
      First(i) == Moved(Min(Links(r, r.win[i])))
  IN [r EXCEPT !.win = [i \in Range(new) |-> r.win[old[i - Base + 1]]],
               !.cur = IF @ \in Linked(r) THEN Moved(@)
                       ELSE IF 0 \in Range(new) THEN 0 ELSE None,
               !.last = [k \in 1..Len(@) |-> First(@[k])]]

\* server_renumber_session, with renumber-windows set.
RenumberGroup(st, s) ==
  [st EXCEPT !.sess = [x \in Session |-> IF x \in {s} \cup Mates(st, s)
                                           THEN Renumber(@[x]) ELSE @[x]]]

(***************************************************************************)
(* winlink_shuffle_up to make room at index i: the winlinks from i to the  *)
(* next free index move up by one, and the pointers with them.             *)
(***************************************************************************)
Room(r, i) == \E j \in i..MaxIndex : j \notin Linked(r)

Up(r, i, j) ==
  LET free == Min({k \in i..MaxIndex : k \notin Linked(r)})
  IN IF j \in i..free THEN j + 1 ELSE j

ShuffleUp(r, i) ==
  [r EXCEPT !.win = [k \in {Up(r, i, j) : j \in Linked(r)} |->
                       r.win[CHOOSE j \in Linked(r) : Up(r, i, j) = k]],
            !.cur = IF @ = None THEN None ELSE Up(r, i, @),
            !.last = [k \in 1..Len(@) |-> Up(r, i, @[k])]]
-----------------------------------------------------------------------------
(***************************************************************************)
(* The end of a session and what happens to its clients.                   *)
(***************************************************************************)
Alive(st) == {s \in Session : st.sess[s].alive}
Attached(homes, s) == \E c \in Client : homes[c] = s

\* Variant: the session stays in its group.
DestroyInGroup(st, s) ==
  IF st.sess[s].cur = None THEN st
  ELSE Note([st EXCEPT !.sess[s] = Dead], Range(st.sess[s].win))

\* session_destroy. It does nothing without a current window: then it has
\* been called before.
Destroy(st, s) ==
  IF st.sess[s].cur = None THEN st
  ELSE Note([st EXCEPT !.sess[s] = Dead,
                       !.groups = [n \in Session |-> Drop(@[n], s)]],
            Range(st.sess[s].win))

\* server_check_unattached. homes: the sessions of the clients when
\* s->attached was last counted.
Expendable(st, homes, s) ==
  /\ st.sess[s].alive
  /\ ~Attached(homes, s)
  /\ CASE Unattached = "off" -> FALSE
       [] Unattached = "on" -> TRUE
       [] Unattached = "keep-last" -> Len(GroupOf(st, s)) > 1
       [] Unattached = "keep-group" -> Len(GroupOf(st, s)) # 1

CheckUnattached(st, homes) ==
  FoldLeft(LAMBDA x, s : IF Expendable(x, homes, s) THEN Destroy(x, s) ELSE x,
           st, Sorted(Session))

\* server_client_set_session, which counts only for a session.
SetSession(st, c, s) ==
  LET x == [st EXCEPT !.att[c] = s]
  IN CheckUnattached(x, IF s = None THEN st.att ELSE x.att)

(***************************************************************************)
(* How clients are moved when their session ends. policy: the option       *)
(* detach-on-destroy; newest: the session active most recently; keep: the  *)
(* clients that have the flag no-detach-on-destroy.                        *)
(***************************************************************************)
Moves == [policy : Policies, newest : instance.sessions, keep : SUBSET Client]

SomeKept(d) == d.policy = "on" /\ Unattached # "off" /\ d.keep \notin {{}, Client}

\* The choice makes no difference without a client.
Fates ==
  IF \E c \in Client : att[c] # None
    THEN {d \in Moves : SomeKept(d) => "some kept" \in Uses} ELSE {CHOOSE d \in Moves : d.keep = {}}

Newest(S, d) ==
  IF S = {} THEN None ELSE IF d.newest \in S THEN d.newest ELSE Min(S)

\* session_previous_session and session_next_session, in order of names.
PreviousSession(S, s) ==
  LET lower == {x \in S : x < s} IN IF lower = {} THEN Max(S) ELSE Max(lower)
NextSession(S, s) ==
  LET higher == {x \in S : x > s} IN IF higher = {} THEN Min(S) ELSE Min(higher)

\* Variant: the session itself is not excluded.
NewHomeAnywhere(st, s, d) == IF d.policy = "on" THEN None ELSE Newest(Alive(st), d)

\* s_new: the session for all the clients of s.
NewHome(st, s, d) ==
  LET others == Alive(st) \ {s}
      detached == {x \in others : ~Attached(st.att, x)}
  IN CASE d.policy = "off" -> Newest(others, d)
       [] d.policy = "on" -> None
       [] d.policy = "no-detached" -> Newest(detached, d)
       [] d.policy = "previous" -> PreviousSession(Alive(st), s)
       [] d.policy = "next" -> NextSession(Alive(st), s)

\* cs_new: a session for those of them that are not to be detached.
SpareHome(st, s, d) ==
  IF d.policy \in {"on", "no-detached"} THEN Newest(Alive(st) \ {s}, d) ELSE None

HomeFor(st, s, d, c) ==
  IF NewHome(st, s, d) = None /\ c \in d.keep THEN SpareHome(st, s, d) ELSE NewHome(st, s, d)

\* server_destroy_session: every client of the session goes elsewhere.
ClientsLeave(st, s, d) ==
  FoldLeft(LAMBDA x, c : IF x.att[c] = s THEN SetSession(x, c, HomeFor(st, s, d, c)) ELSE x,
           st, SetToSeq(Client))

DestroySession(st, s, d) == Destroy(ClientsLeave(st, s, d), s)

\* server_destroy_session_group.
DestroyGroup(st, s, d) ==
  IF GroupOf(st, s) = <<>> THEN DestroySession(st, s, d)
  ELSE FoldLeft(LAMBDA x, y : DestroySession(x, y, d), st, GroupOf(st, s))

\* server_unlink_window.
UnlinkOrDestroy(st, s, i, d) ==
  LET x == Detach(st, s, i)
  IN IF Linked(x.sess[s]) = {} THEN DestroyGroup(x, s, d) ELSE x

(***************************************************************************)
(* server_kill_window: in every session that has the window all the links  *)
(* to it are detached; when a session is empty it is destroyed with its    *)
(* group.                                                                  *)
(***************************************************************************)
KillIn(st, s, w, renumber, d) ==
  LET x == FoldLeft(LAMBDA y, i : IF i \in Links(y.sess[s], w)
                                    THEN UnlinkOrDestroy(y, s, i, d) ELSE y,
                    st, Sorted(Links(st.sess[s], w)))
  IN IF Links(st.sess[s], w) # {} /\ renumber THEN RenumberGroup(x, s) ELSE x

Kill(st, w, renumber, d) ==
  FoldLeft(LAMBDA x, s : KillIn(x, s, w, renumber, d), st, Sorted(Session))
-----------------------------------------------------------------------------
(***************************************************************************)
(* The commands.                                                           *)
(***************************************************************************)
Living == {s \in Session : sess[s].alive}

\* Windows that could be created: nothing refers to them.
Fresh == {w \in Window \ noted : \A s \in Session : Links(sess[s], w) = {}}

Alone(s) == Mates(State, s) = {}
HasTwice(s) == Cardinality(Range(sess[s].win)) < Cardinality(Linked(sess[s]))

MayShuffle(s) == "-a" \in Uses /\ (Alone(s) \/ "-a in groups" \in Uses)
MayRenumber(s) ==
  /\ "-r" \in Uses
  /\ Alone(s) \/ "-r in groups" \in Uses
  /\ HasTwice(s) => "-r twice" \in Uses

\* renumber-windows, which may be set at any time.
Renumbering == {FALSE, "renumber-windows" \in Uses}

(***************************************************************************)
(* new-session -t: session s is put into the group of the session named t  *)
(* and synchronized to it. Without such a session, t is the name of a      *)
(* group; where the session is in no group, it is put first into one of    *)
(* its name, which session_group_new may find to be there. Session number  *)
(* s has s for its name.                                                   *)
(***************************************************************************)
Grouped(st, s, t) ==
  LET with == t # s /\ st.sess[t].alive
      n == IF with /\ NameOf(st, t) # None THEN NameOf(st, t) ELSE t
      old == IF with /\ NameOf(st, t) = None THEN Append(st.groups[n], t) ELSE st.groups[n]
      x == [st EXCEPT !.groups[n] = Append(old, s)]
      y == Put(x, s, Synchronize1(x.sess[Head(old)], x.sess[s]))
      z == Note(y, Range(st.sess[s].win) \cup Range(y.sess[s].win))
  IN IF old = <<>> THEN x ELSE Put(z, s, SetCurrent(z.sess[s], Min(Linked(z.sess[s]))))

\* What may be given with -t.
Targets ==
  {t \in instance.sessions :
     /\ "group" \in Uses
     /\ sess[t].alive /\ NameOf(State, t) = None /\ groups[t] # <<>> => "name again" \in Uses}

(***************************************************************************)
(* new-session: the first window is spawned, then the session is put into  *)
(* a group with -t. c is the client that attaches, None with -d. If the    *)
(* window cannot be spawned nothing is left of the session.                *)
(***************************************************************************)
NewSession(s, c) ==
  /\ s \in instance.sessions
  /\ ~sess[s].alive
  /\ Base \in Indexes
  /\ \E w \in Fresh, t \in Targets \cup {None} :
       LET r == [alive |-> TRUE, win |-> [i \in {Base} |-> w], cur |-> Base, last |-> <<>>]
           x == Note(Put(State, s, r), {w})
           y == IF t = None THEN x ELSE Grouped(x, s, t)
       IN Become(IF c = None THEN y ELSE SetSession(y, c, s))

(***************************************************************************)
(* new-window: spawn_window at index i, after winlink_shuffle_up with -a   *)
(* or -b, or at the next free index. With -k the window at i goes first.   *)
(* If the process cannot be started the new winlink is removed again.      *)
(***************************************************************************)
\* r with the link at i gone, as spawn_window and server_link_window do it.
Cleared(r, i) ==
  IF i \notin Linked(r) THEN r
  ELSE LET x == Unlink(r, i)
       IN [x EXCEPT !.cur = IF @ = Freed THEN None ELSE @]

Spawned(st, s, i, w, select) ==
  LET r == Cleared(st.sess[s], i)
      x == Link(r, i, w)
      y == IF r.cur = None THEN [x EXCEPT !.cur = i] ELSE x
      z == IF select THEN SetCurrent(y, i) ELSE y
  IN SynchronizeFrom(Note(Put(st, s, z), {w} \cup Range(st.sess[s].win)), s)

SpawnFailed(st, s, i) ==
  LET r == Cleared(st.sess[s], i)
  IN Note(Put(st, s, [r EXCEPT !.cur = IF @ = None THEN Freed ELSE @]),
          {st.sess[s].win[i]})

NewWindow(s) ==
  /\ sess[s].alive
  /\ \E w \in Fresh, select \in BOOLEAN :
       \/ \E i \in Indexes \ Linked(sess[s]) : Become(Spawned(State, s, i, w, select))
       \/ \E i \in Linked(sess[s]) : Become(Spawned(State, s, i, w, select))
       \/ /\ MayShuffle(s)
          /\ \E i \in Linked(sess[s]) : \E k \in {i, i + 1} :
               /\ Room(sess[s], k)
               /\ Become(Spawned(Put(State, s, ShuffleUp(sess[s], k)), s, k, w, select))

NewWindowFails(s) ==
  /\ sess[s].alive
  /\ ~Alone(s) => "fail -k" \in Uses
  /\ \/ \E i \in Linked(sess[s]) :
          /\ i = sess[s].cur => "fail -k" \in Uses
          /\ Become(SpawnFailed(State, s, i))
     \/ /\ MayShuffle(s)
        /\ \E i \in Linked(sess[s]) : \E k \in {i, i + 1} :
             Room(sess[s], k) /\ Become(Put(State, s, ShuffleUp(sess[s], k)))

\* winlink_shuffle_up for the commands that put a window at k with -a or -b.
Shuffled(s, k, shuffle) == IF shuffle THEN Put(State, s, ShuffleUp(sess[s], k)) ELSE State

CanShuffle(s, k) ==
  /\ MayShuffle(s) /\ Room(sess[s], k)
  /\ k \in Linked(sess[s]) \/ k - 1 \in Linked(sess[s])

\* break-pane: a pane becomes a window of its own, attached to session s. A
\* window's only pane takes the window with it, as move-window does.
BreakPane(s) ==
  /\ sess[s].alive
  /\ \E w \in Fresh, k \in Indexes, select, shuffle \in BOOLEAN :
       LET st == Shuffled(s, k, shuffle)
           x == Attach(st, s, k, w)
       IN /\ shuffle => CanShuffle(s, k)
          /\ k \notin Linked(st.sess[s])
          /\ Become(IF select THEN Put(x, s, SetCurrent(x.sess[s], k)) ELSE x)

(***************************************************************************)
(* link-window and move-window: server_link_window links the window at     *)
(* index i of session s at index k of session t. With -k the window at k   *)
(* goes first; with -a or -b winlink_shuffle_up has made room at k, also   *)
(* when the sessions turn out to be of one group, which is an error.       *)
(***************************************************************************)
SameGroup(st, s, t) == s # t /\ s \in Mates(st, t)

CanLink(st, s, i, t, k) ==
  /\ ~SameGroup(st, s, t)
  /\ k \in Linked(st.sess[t]) => st.sess[t].win[k] # st.sess[s].win[i]

LinkWindow(st, s, i, t, k, select) ==
  LET r == Cleared(st.sess[t], k)
      gone == IF k \in Linked(st.sess[t]) THEN {st.sess[t].win[k]} ELSE {}
      x == Attach(Note(Put(st, t, r), gone), t, k, st.sess[s].win[i])
  IN IF select \/ r.cur = None THEN Put(x, t, SetCurrent(x.sess[t], k)) ELSE x

\* Without -s the session the window is from is renumbered, but not the other
\* ones of its group.
RenumberOne(st, s, renumber) ==
  IF renumber /\ st.sess[s].alive THEN Put(st, s, Renumber(st.sess[s])) ELSE st

LinkOrMove(s, t) ==
  /\ sess[s].alive /\ sess[t].alive
  /\ \E i \in Linked(sess[s]), k \in Indexes, shuffle \in BOOLEAN :
       LET st == Shuffled(t, k, shuffle)
           j == IF shuffle /\ s = t THEN Up(sess[s], k, i) ELSE i
       IN /\ shuffle => CanShuffle(t, k)
          /\ \/ ~CanLink(st, s, j, t, k) /\ Become(st)
             \/ /\ CanLink(st, s, j, t, k)
                /\ \E select, move \in BOOLEAN, renumber \in Renumbering, d \in Fates :
                     LET x == LinkWindow(st, s, j, t, k, select)
                         y == IF move THEN UnlinkOrDestroy(x, s, j, d) ELSE x
                     IN /\ \/ "again" \in Uses \/ (move /\ s = t)
                           \/ sess[s].win[i] \notin Range(sess[t].win)
                        /\ renumber => MayRenumber(s)
                        /\ Become(RenumberOne(y, s, renumber))

\* move-window -r: session_renumber_windows for one session.
MoveWindowR(s) ==
  /\ sess[s].alive
  /\ MayRenumber(s)
  /\ Become(Put(State, s, Renumber(sess[s])))

\* Variant: as for a session without a group.
IsLinkedTwice(s, w) ==
  \/ w \in noted
  \/ Cardinality({l \in Session \X Indexes : l[2] \in Links(sess[l[1]], w)}) # 1

(***************************************************************************)
(* unlink-window: without -k the window must be linked elsewhere           *)
(* (session_is_linked), judged by the references to it, which              *)
(* notifications hold as well.                                             *)
(***************************************************************************)
IsLinked(s, w) ==
  \/ w \in noted
  \/ Cardinality({l \in Session \X Indexes : l[2] \in Links(sess[l[1]], w)})
       # Max({1, Len(GroupOf(State, s))})

UnlinkWindow(s, i, kill) ==
  /\ i \in Linked(sess[s])
  /\ kill \/ IsLinked(s, sess[s].win[i])
  /\ \E d \in Fates : Become(UnlinkOrDestroy(State, s, i, d))

\* kill-window, also what follows when the last pane of a window is gone.
KillWindow(s) ==
  /\ sess[s].alive
  /\ \E w \in Range(sess[s].win), renumber \in Renumbering, d \in Fates :
       Become(Kill(State, w, renumber, d))

\* kill-window -a, with server_renumber_all.
KillOtherWindows(s) ==
  /\ Cardinality(Linked(sess[s])) > 1
  /\ \E w \in Range(sess[s].win), renumber \in Renumbering, d \in Fates :
       LET others == FoldLeft(LAMBDA x, i : IF sess[s].win[i] = w THEN x
                                            ELSE Kill(x, sess[s].win[i], FALSE, d),
                              State, Sorted(Linked(sess[s])))
           x == IF Cardinality(Links(sess[s], w)) > 1 THEN Kill(others, w, FALSE, d) ELSE others
       IN Become(IF renumber
                   THEN FoldLeft(LAMBDA y, z : RenumberGroup(y, z), x, Sorted(Alive(x))) ELSE x)

(***************************************************************************)
(* swap-window, where -d selects the windows, and the swap of the tree     *)
(* mode, after which the session stays on its window.                      *)
(***************************************************************************)
Exchanged(st, s, i, t, j) ==
  LET x == Put(st, s, [st.sess[s] EXCEPT !.win[i] = st.sess[t].win[j]])
  IN Put(x, t, [x.sess[t] EXCEPT !.win[j] = st.sess[s].win[i]])

SwapWindow(s, t) ==
  /\ "swap" \in Uses
  /\ ~SameGroup(State, s, t)
  /\ \E i \in Linked(sess[s]), j \in Linked(sess[t]), d \in BOOLEAN :
       LET v == sess[s].win[i]
           w == sess[t].win[j]
           x == Exchanged(State, s, i, t, j)
           y == Put(x, t, SetCurrent(x.sess[t], j))
           z == IF s = t THEN y ELSE Put(y, s, SetCurrent(y.sess[s], i))
           from == SynchronizeFrom(IF d THEN z ELSE x, s)
       IN /\ v # w
          /\ "again" \in Uses \/ s = t
             \/ (v \notin Range(sess[t].win) /\ w \notin Range(sess[s].win))
          /\ Become(IF s = t THEN from ELSE SynchronizeFrom(from, t))

TreeSwap(s) ==
  /\ "swap" \in Uses
  /\ \E i, j \in Linked(sess[s]) :
       LET x == Exchanged(State, s, i, s, j).sess[s]
           y == IF x.cur = i THEN SetCurrent(x, j)
                ELSE IF x.cur = j THEN SetCurrent(x, i) ELSE x
       IN Become(SynchronizeFrom(Put(State, s, y), s))

\* select-window, next-window and previous-window; then last-window.
SelectWindow(s) ==
  \/ \E i \in Linked(sess[s]) : Become(Put(State, s, SetCurrent(sess[s], i)))
  \/ sess[s].last # <<>> /\ Become(Put(State, s, SetCurrent(sess[s], Head(sess[s].last))))

KillSession(s) ==
  /\ sess[s].alive
  /\ \E d \in Fates : Become(DestroySession(State, s, d))

\* kill-session -a.
KillOtherSessions(s) ==
  /\ sess[s].alive
  /\ \E d \in Fates :
       Become(FoldLeft(LAMBDA x, y : DestroySession(x, y, d), State, Sorted(Living \ {s})))

\* attach-session and switch-client.
SwitchClient(c, s) == sess[s].alive /\ Become(SetSession(State, c, s))

\* server_client_lost.
Lose(c) ==
  /\ att[c] # None
  /\ LET x == [State EXCEPT !.att[c] = None]
     IN Become(CheckUnattached(x, x.att))

\* A notification that refers to window w has been delivered.
Notified(w) ==
  /\ w \in noted
  /\ noted' = noted \ {w}
  /\ UNCHANGED <<sess, groups, att, instance>>

Next ==
  \/ \E s \in Session, c \in Client \cup {None} : NewSession(s, c)
  \/ \E s \in Session :
       \/ NewWindow(s) \/ NewWindowFails(s) \/ BreakPane(s) \/ MoveWindowR(s)
       \/ KillWindow(s) \/ KillOtherWindows(s) \/ TreeSwap(s) \/ SelectWindow(s)
       \/ KillSession(s) \/ KillOtherSessions(s)
       \/ \E t \in Session : LinkOrMove(s, t) \/ SwapWindow(s, t)
       \/ \E i \in Indexes, kill \in BOOLEAN : UnlinkWindow(s, i, kill)
       \/ \E c \in Client : SwitchClient(c, s)
  \/ \E c \in Client : Lose(c)
  \/ \E w \in Window : Notified(w)

Spec == Init /\ [][Next]_vars

-----------------------------------------------------------------------------
(***************************************************************************)
(* Properties.                                                             *)
(***************************************************************************)
\* The sessions and their groups are what the structures of tmux.h allow.
TypeOK ==
  /\ \A s \in Session : LET r == sess[s] IN
       /\ r.alive \in BOOLEAN
       /\ Linked(r) \subseteq Indexes /\ Range(r.win) \subseteq Window
       /\ r.cur \in Indexes \cup {None, Freed}
       /\ r.last \in Seq(Indexes)
       /\ ~r.alive => r = Dead
  /\ \A n \in Session : groups[n] \in Seq(Session)
  /\ att \in [Client -> Session \cup {None}]
  /\ noted \subseteq Window

\* A session that is alive has a current window, which is one of its
\* winlinks: s->curw is used without a check nearly everywhere.
CurrentExists == \A s \in Living : sess[s].cur \in Linked(sess[s])

\* The last windows of a session are different winlinks that it has, and
\* not the current one: lastw is an intrusive list, which a winlink that is
\* put into it twice or freed inside it corrupts.
LastStackSound ==
  \A s \in Living : LET r == sess[s] IN
    /\ ToSet(r.last) \subseteq Linked(r) \ {r.cur}
    /\ Len(r.last) = Cardinality(ToSet(r.last))

\* What the pointers of each session say is there, after any sequence of
\* commands and whatever of them failed half-way.
SessionsSound == TypeOK /\ CurrentExists /\ LastStackSound

\* The sessions of a group have the same windows at the same indexes after
\* every command, also where a session joins a group by its name; a session
\* is in one group at most, and all the sessions of a group are alive
\* (session_group_synchronize1).
GroupsShare ==
  /\ \A n \in Session : LET g == groups[n] IN
       /\ ToSet(g) \subseteq Living /\ Cardinality(ToSet(g)) = Len(g)
       /\ \A s \in ToSet(g) : sess[s].win = sess[Head(g)].win
  /\ \A m, n \in Session : m # n => ToSet(groups[m]) \cap ToSet(groups[n]) = {}

\* No client is left on a session that has been destroyed, whichever way it
\* went: by kill-session, with its last window, with its group or by
\* destroy-unattached (server_destroy_session).
ClientsOnLiveSessions == \A c \in Client : att[c] # None => att[c] \in Living

\* The sessions of a group keep their own current window: a command changes
\* it for one of them at most, and that one remembers that it went elsewhere.
\* The others stay on the window they show as long as their winlink and the
\* window are there. (swap-window is meant to change what an index shows, and
\* so is -k where the window is linked again elsewhere.)
KeepsWindow(s) ==
  LET r == sess[s]
      w == r.win[r.cur]
  IN r.cur \in Linked(sess'[s]) /\ w \in Range(sess'[s].win)
       => sess'[s].win[sess'[s].cur] = w

MatesKept ==
  Uses \cap {"swap", "again"} = {} => \A s \in Session : \A x \in Mates(State, s) :
    /\ KeepsWindow(s) \/ KeepsWindow(x)
    /\ sess'[s].cur = sess[s].cur /\ sess'[s].last = sess[s].last => KeepsWindow(s)
MatesUndisturbed == [][MatesKept]_vars

StaysLinked(s, i) ==
  \E x \in Session : \E j \in Links(sess[x], sess[s].win[i]) :
    j # i \/ x \notin {s} \cup Mates(State, s)

\* unlink-window without -k never takes a window from its only session or
\* group: where it is allowed (session_is_linked), there is a link to the
\* window that stays, at another index or outside the group. This needs that
\* no queued notification refers to the window, whose reference the code
\* would take for a link.
QuietUnlinkKeepsWindows ==
  \A s \in Living : \A i \in Linked(sess[s]) :
    IsLinked(s, sess[s].win[i]) /\ sess[s].win[i] \notin noted => StaysLinked(s, i)
=============================================================================
