-------------------------------- MODULE Panes ------------------------------
(***************************************************************************)
(* The panes of windows: their order, the active one, the stack of last    *)
(* panes, zoom, and the layout they are placed by (the panes of window.c,  *)
(* spawn_pane and spawn_window for a respawn, server_kill_pane and         *)
(* server_destroy_pane, resize_window, and the commands on panes). The     *)
(* trees are those of Layout.                                              *)
(*                                                                         *)
(* A command runs to its end, so it is one step: an operator from a state  *)
(* of all windows and panes to the next, made of the functions of the      *)
(* source in their order. A pane knows its cell through the tree: the leaf *)
(* with its name is wp->layout_cell.                                       *)
(***************************************************************************)
EXTENDS Layout

CONSTANTS Pane,
          Window,
          Widths,   \* sizes that clients give to windows
          Heights,
          Splits,   \* sizes asked of a split, -1 for half
          Layouts,  \* names of layouts that are used
          Instances \* combinations of commands that are used, see Features

Features == {"split", "sizes", "popup", "fail", "full", "zoom", "kill", "swap",
             "rotate", "join", "resize", "mouse", "window size", "layout", "spread", "undo", "respawn",
             "last",
             \* Where the commands above go wrong:
             "respawn zoomed", "undo alone"}

ASSUME PanesAssumption ==
  /\ None \notin Pane
  /\ Widths \subseteq Nat \ {0} /\ Heights \subseteq Nat \ {0}
  /\ Splits \subseteq Nat \cup {-1}
  /\ Layouts \subseteq Range(LayoutSets) /\ Instances \subseteq SUBSET Features

VARIABLES win,  \* windows
          size, \* wp->sx and wp->sy of each pane, None if there is no such pane
          marks, \* panes with PANE_ZOOMED
          hung, \* the server is in a loop that does not end
          uses  \* the commands that are used

vars == <<win, size, marks, hung, uses>>

\* panes: the list of panes. root: layout_root. saved: saved_layout_root,
\* also where the saved cells of the panes are. last: last_panes. old:
\* old_layout. name: lastlayout.
Gone == [panes |-> <<>>, root |-> None, saved |-> None, zoomed |-> FALSE,
         active |-> None, last |-> <<>>, sx |-> 0, sy |-> 0, old |-> None,
         name |-> None]

State == [win |-> win, size |-> size, marks |-> marks, hung |-> hung]

Become(st) ==
  /\ win' = st.win
  /\ size' = st.size
  /\ marks' = st.marks
  /\ hung' = st.hung
  /\ UNCHANGED uses

PanesOf(st, w) == Range(st.win[w].panes)
Alive(st, w) == st.win[w].panes # <<>>
Index(s, p) == CHOOSE i \in DOMAIN s : s[i] = p
NextOf(s, p) == IF p = Last(s) THEN Head(s) ELSE s[Index(s, p) + 1]
PreviousOf(s, p) == IF p = Head(s) THEN Last(s) ELSE s[Index(s, p) - 1]
InsertBefore(s, p, q) ==
  SubSeq(s, 1, Index(s, p) - 1) \o <<q>> \o SubSeq(s, Index(s, p), Len(s))
InsertAfter(s, p, q) ==
  SubSeq(s, 1, Index(s, p)) \o <<q>> \o SubSeq(s, Index(s, p) + 1, Len(s))
NewPanes == {p \in Pane : size[p] = None}

Init ==
  LET x == Max(Widths)
      y == Max(Heights)
  IN \E w \in Window, p \in Pane :
    /\ win = [v \in Window |-> IF v # w THEN Gone
                ELSE [Gone EXCEPT !.panes = <<p>>, !.root = Leaf(p, x, y),
                                  !.active = p, !.sx = x, !.sy = y]]
    /\ size = [q \in Pane |->
                 IF q = p THEN <<x, IF Status = "off" THEN y ELSE y - 1>> ELSE None]
    /\ marks = {}
    /\ hung = FALSE
    /\ uses \in Instances

-----------------------------------------------------------------------------
(***************************************************************************)
(* window.c and layout_fix_panes.                                          *)
(***************************************************************************)
\* layout_fix_panes: the panes with a cell get its size, less the line for
\* pane-border-status.
FixPanes(st, w, skip) ==
  LET root == st.win[w].root
      Fit(p) == LET path == Path(root, p)
                    c == At(root, path)
                IN <<c.sx, IF EdgeAt(root, path, RootEdge) THEN c.sy - 1 ELSE c.sy>>
      placed == (PanesOf(st, w) \cap Leaves(root)) \ {skip}
  IN [st EXCEPT !.size = [p \in placed |-> Fit(p)] @@ @]

\* window_pane_stack_push and _remove. A pane is on one stack only and
\* removed from the one it is on.
StackRemove(st, p) ==
  [st EXCEPT !.win = [w \in Window |-> [@[w] EXCEPT !.last = Remove(@, p)]]]

\* window_pane_stack_push.
StackPush(st, w, p) ==
  IF p = None THEN st
  ELSE [StackRemove(st, p) EXCEPT !.win[w].last = <<p>> \o @]

\* Variant: the layout that was saved is dropped.
UnzoomKeepsRoot(st, w) ==
  IF ~st.win[w].zoomed THEN st
  ELSE FixPanes([st EXCEPT !.win[w].zoomed = FALSE, !.win[w].saved = None,
                           !.marks = SymDiff(@, PanesOf(st, w))], w, None)

\* window_unzoom.
Unzoom(st, w) ==
  IF ~st.win[w].zoomed THEN st
  ELSE FixPanes([st EXCEPT !.win[w].zoomed = FALSE,
                           !.win[w].root = st.win[w].saved,
                           !.win[w].saved = None,
                           !.marks = SymDiff(@, PanesOf(st, w))], w, None)

\* Variant: the pane that becomes active stays on the stack.
SetActiveKeepsStack(st, w, p) ==
  LET now == Unzoom(st, w)
  IN IF p = st.win[w].active THEN st
     ELSE [StackPush(now, w, st.win[w].active) EXCEPT !.win[w].active = p]

\* window_set_active_pane.
SetActive(st, w, p) ==
  LET now == Unzoom(st, w)
  IN IF p = st.win[w].active THEN st
     ELSE [StackPush(StackRemove(now, p), w, st.win[w].active)
             EXCEPT !.win[w].active = p]

\* window_zoom.
Zoom(st, w, p) ==
  LET now == SetActive(st, w, p)
      v == now.win[w]
  IN IF v.zoomed \/ Len(v.panes) = 1 THEN st
     ELSE FixPanes([now EXCEPT !.win[w].saved = v.root,
                               !.win[w].root = Leaf(p, v.sx, v.sy),
                               !.win[w].zoomed = TRUE,
                               !.marks = @ \cup {p}], w, None)

\* window_push_zoom and window_pop_zoom around a command. again says whether
\* WINDOW_WASZOOMED is set in between.
PushedZoom(st, w, always, flag) == flag /\ (always \/ st.win[w].zoomed)
PopZoom(st, w, again) ==
  IF again THEN Zoom(st, w, st.win[w].active) ELSE st

\* window_lost_pane.
LostPane(st, w, p) ==
  LET v == st.win[w]
      rest == Remove(v.last, p)
      next == IF rest # <<>> THEN Head(rest)
              ELSE IF p # Head(v.panes) THEN PreviousOf(v.panes, p)
              ELSE IF Len(v.panes) > 1 THEN NextOf(v.panes, p) ELSE None
  IN IF p # v.active THEN StackRemove(st, p)
     ELSE [st EXCEPT !.win[w].last = Remove(rest, next), !.win[w].active = next]

\* layout_close_pane.
ClosePane(st, w, p) ==
  LET root == st.win[w].root
      left == DestroyCell(root, Path(root, p))
      closed == [st EXCEPT !.win[w].root = left]
  IN IF root = None \/ p \notin Leaves(root) THEN st
     ELSE IF left = None THEN closed ELSE FixPanes(closed, w, None)

\* window_remove_pane: window_lost_pane, then the pane is destroyed.
RemovePane(st, w, p) ==
  LET lost == LostPane(st, w, p)
  IN [lost EXCEPT !.win[w].panes = Remove(@, p), !.size[p] = None,
                  !.marks = @ \ {p}]

\* server_kill_window, as far as panes go, and window_destroy.
KillWindow(st, w) ==
  LET panes == PanesOf(st, w)
  IN [st EXCEPT !.win[w] = Gone, !.marks = @ \ panes,
                !.size = [p \in Pane |-> IF p \in panes THEN None ELSE @[p]]]

\* window_add_pane.
AddPane(st, w, other, p, before, full) ==
  LET v == st.win[w]
      panes == IF before
                 THEN IF full THEN <<p>> \o v.panes ELSE InsertBefore(v.panes, other, p)
                 ELSE IF full THEN Append(v.panes, p) ELSE InsertAfter(v.panes, other, p)
  IN [st EXCEPT !.win[w].panes = panes, !.size[p] = <<v.sx, v.sy>>]

-----------------------------------------------------------------------------
(***************************************************************************)
(* The commands.                                                           *)
(***************************************************************************)
\* split-window -v or -h, -b, -f, -d, -Z and -l, up to the new process
\* (spawn_pane), which may fail to start.
Split(w, p, q, t, n, before, full, detached, zoom, starts) ==
  \E open \in {Unzoom(State, w)} :
  \E root \in {SplitPane(open.win[w].root, p, q, t, n, before, full)} :
    IF root = None THEN Become(open)
    ELSE \E placed \in {FixPanes(AddPane([open EXCEPT !.win[w].root = root],
                                         w, p, q, before, full),
                                 w, IF zoom THEN q ELSE None)} :
           Become(IF ~starts THEN RemovePane(ClosePane(placed, w, q), w, q)
                  ELSE PopZoom(IF detached THEN placed ELSE SetActive(placed, w, q),
                               w, PushedZoom(State, w, TRUE, zoom)))

\* popup_make_pane.
PopupToPane(w, q, t) ==
  \E open \in {Unzoom(State, w)} :
  \E p \in {open.win[w].active} :
  \E root \in {SplitPane(open.win[w].root, p, q, t, -1, FALSE, FALSE)} :
    Become(IF root = None THEN open
           ELSE SetActive(FixPanes(AddPane([open EXCEPT !.win[w].root = root],
                                           w, p, q, FALSE, FALSE), w, None), w, q))

\* server_destroy_pane without remain-on-exit, and server_kill_pane, which
\* kills the window with the last pane.
KillPane(st, w, p) ==
  LET open == Unzoom(st, w)
  IN IF Len(st.win[w].panes) = 1 THEN KillWindow(st, w)
     ELSE RemovePane(ClosePane(open, w, p), w, p)

\* kill-pane, and a pane whose process ends.
Kill(w, p) == Become(KillPane(State, w, p))

\* kill-pane -a.
KillOthers(w, p) ==
  LET One(st, q) == IF q = p THEN st ELSE RemovePane(ClosePane(st, w, q), w, q)
  IN Become(FoldLeft(One, Unzoom(State, w), win[w].panes))

\* join-pane: the cell for the pane is split from the target before the pane
\* leaves its own; its wp is NULL meanwhile.
Join(v, p, w, q, t, n, before, full, detached) ==
  \E open \in {Unzoom(Unzoom(State, w), v)} :
  \E root \in {SplitPane(open.win[w].root, q, None, t, n, before, full)} :
    IF p = q \/ root = None THEN Become(open)
    ELSE \E lost \in {LostPane(ClosePane([open EXCEPT !.win[w].root = root], v, p), v, p)} :
         \E gone \in {[lost EXCEPT !.win[v].panes = Remove(@, p)]} :
         \E there \in {[gone EXCEPT
             !.win[w].panes = IF before THEN InsertBefore(@, q, p) ELSE InsertAfter(@, q, p),
             !.win[w].root = Relabel(@, [x \in {None} |-> p])]} :
         \E placed \in {FixPanes(there, w, None)} :
         \E active \in {IF detached THEN placed ELSE SetActive(placed, w, p)} :
           Become(IF active.win[v].panes = <<>> THEN KillWindow(active, v) ELSE active)

\* break-pane, to a window that does not exist yet. A window with one pane
\* is linked at another index, which is nothing here.
Break(v, p, w) ==
  /\ ~Alive(State, w) /\ Len(win[v].panes) > 1
  /\ \E open \in {Unzoom(State, v)} :
     \E lost \in {LostPane(open, v, p)} :
     \E closed \in {ClosePane([lost EXCEPT !.win[v].panes = Remove(@, p)], v, p)} :
       Become(FixPanes([closed EXCEPT !.win[w] =
         [Gone EXCEPT !.panes = <<p>>, !.active = p, !.sx = open.win[v].sx,
                      !.sy = open.win[v].sy,
                      !.root = Leaf(p, open.win[v].sx, open.win[v].sy)]], w, None))

\* Variant: the cells stay with the panes.
SwapPanesKeepsCells(st, v, p, w, q) ==
  LET f == (p :> q) @@ (q :> p)
      Swap(s) == Each(s, LAMBDA i : IF s[i] \in {p, q} THEN f[s[i]] ELSE s[i])
  IN [st EXCEPT !.win = [u \in Window |-> [@[u] EXCEPT !.panes = Swap(@)]],
                !.size[p] = st.size[q], !.size[q] = st.size[p]]

\* The part of swap-pane that exchanges places, cells and sizes.
SwapPanes(st, v, p, w, q) ==
  LET f == (p :> q) @@ (q :> p)
      Swap(s) == Each(s, LAMBDA i : IF s[i] \in {p, q} THEN f[s[i]] ELSE s[i])
      One(u) == IF u.root = None THEN u
                ELSE [u EXCEPT !.panes = Swap(@), !.root = Relabel(@, f)]
  IN [st EXCEPT !.win = [u \in Window |-> One(@[u])],
                !.size[p] = st.size[q], !.size[q] = st.size[p]]

\* Which panes are active after swap-pane, with -d or not.
SwapActive(st, v, p, w, q, detached) ==
  IF ~detached THEN SetActive(IF v = w THEN st ELSE SetActive(st, v, q), w,
                              IF v = w THEN q ELSE p)
  ELSE LET Follow(x, u, from, to) ==
             IF x.win[u].active = from THEN SetActive(x, u, to) ELSE x
       IN Follow(Follow(st, v, p, q), w, q, p)

\* swap-pane of p in v with the target q in w, with -d and -Z.
Swap(v, p, w, q, detached, zoom) ==
  \E open \in {Unzoom(Unzoom(State, w), v)} :
  \E active \in {SwapActive(SwapPanes(open, v, p, w, q), v, p, w, q, detached)} :
  \E parted \in {IF v = w THEN active
                 ELSE FixPanes([active EXCEPT !.win[v].last = Remove(@, p),
                                              !.win[w].last = Remove(@, q)], v, None)} :
  \E popped \in {PopZoom(IF p = q THEN open ELSE FixPanes(parted, w, None), v,
                         PushedZoom(State, v, FALSE, zoom))} :
    Become(IF v = w THEN popped ELSE PopZoom(popped, w, PushedZoom(State, w, FALSE, zoom)))

\* rotate-window -D (down) or -U: each pane takes the cell and the size of
\* the next one in the list.
Rotate(w, down, zoom) ==
  \E open \in {Unzoom(State, w)} :
  \E old \in {open.win[w].panes}, a \in {open.win[w].active} :
  \E new \in {IF down THEN <<Last(old)>> \o Front(old) ELSE Append(Tail(old), Head(old))} :
  \E turned \in {[open EXCEPT
      !.win[w].panes = new,
      !.win[w].root = Relabel(@, [p \in Range(old) |-> new[Index(old, p)]]),
      !.size = [p \in Range(old) |-> @[old[Index(new, p)]]] @@ @]} :
    Become(PopZoom(SetActive(turned, w, IF down THEN PreviousOf(new, a) ELSE NextOf(new, a)),
                   w, PushedZoom(State, w, FALSE, zoom)))

\* select-pane with a target, or with a direction once it is found.
Select(w, p, zoom) ==
  LET again == PushedZoom(State, w, FALSE, zoom)
  IN /\ p # win[w].active
     /\ Become(PopZoom(SetActive(Unzoom(State, w), w, p), w, again))

\* last-pane.
LastPane(w, zoom) ==
  LET v == win[w]
      again == PushedZoom(State, w, FALSE, zoom)
      p == IF v.last # <<>> THEN Head(v.last)
           ELSE IF v.active # Head(v.panes) THEN PreviousOf(v.panes, v.active)
           ELSE NextOf(v.panes, v.active)
  IN /\ v.last # <<>> \/ Len(v.panes) = 2
     /\ Become(PopZoom(SetActive(Unzoom(State, w), w, p), w, again))

\* Variant: the line of pane-border-status is not taken off.
BoxWithLine(w, q, sideways) ==
  LET r == CHOOSE x \in Placed(win[w].root, 0, 0) : x.wp = q
      Span(first, n) == [first |-> first, end |-> first + n]
  IN IF sideways THEN [along |-> Span(r.x, size[q][1]), across |-> Span(r.y, size[q][2])]
     ELSE [along |-> Span(r.y, size[q][2]), across |-> Span(r.x, size[q][1])]

\* Where a pane is, along a way and across it, the line of
\* pane-border-status taken off.
Box(w, q, sideways) ==
  LET line == Status = "top" /\ EdgeAt(win[w].root, Path(win[w].root, q), RootEdge)
      r == CHOOSE x \in Placed(win[w].root, 0, 0) : x.wp = q
      y == IF line THEN r.y + 1 ELSE r.y
      Span(first, n) == [first |-> first, end |-> first + n]
  IN IF sideways THEN [along |-> Span(r.x, size[q][1]), across |-> Span(y, size[q][2])]
     ELSE [along |-> Span(y, size[q][2]), across |-> Span(r.x, size[q][1])]

\* window_pane_find_up and the other three: q may be found next to p. Of
\* several panes the one that was active last is taken; that is left out.
Beside(p, q) ==
  \/ q.first < p.first /\ q.end - 1 > p.end
  \/ q.first >= p.first /\ q.first <= p.end
  \/ q.end - 1 >= p.first /\ q.end - 1 <= p.end
Adjacent(w, p, q, way) ==
  LET sideways == way \in {"left", "right"}
      low == IF Status = "top" /\ ~sideways THEN 1 ELSE 0
      high == IF sideways THEN win[w].sx
              ELSE IF Status = "bottom" THEN win[w].sy - 1 ELSE win[w].sy
  IN \E a \in {Box(w, p, sideways)}, b \in {Box(w, q, sideways)} :
       /\ IF way \in {"up", "left"}
            THEN b.along.end + 1 = (IF a.along.first = low THEN high + 1 ELSE a.along.first)
            ELSE b.along.first = (IF a.along.end + 1 >= high THEN low ELSE a.along.end + 1)
       /\ Beside(a.across, b.across)

\* resize-pane -Z.
ZoomToggle(w, p) ==
  Become(IF win[w].zoomed THEN Unzoom(State, w) ELSE Zoom(State, w, p))

Rooted(st, w, root) == FixPanes([st EXCEPT !.win[w].root = root], w, None)

\* resize-pane -x or -y.
ResizeTo(w, p, t, n) ==
  \E open \in {Unzoom(State, w)} : \E root \in {open.win[w].root} :
    LET line == t = "TOPBOTTOM" /\ EdgeAt(root, Path(root, p), RootEdge)
    IN Become(Rooted(open, w, ResizePaneTo(root, p, t, IF line THEN n + 1 ELSE n)))

\* resize-pane -L, -R, -U, -D.
ResizeBy(w, p, t, n) ==
  \E open \in {Unzoom(State, w)} :
    Become(Rooted(open, w, ResizePane(open.win[w].root, p, t, n)))

\* cmd_resize_pane_mouse_update: the borders at the place where the mouse
\* was and around it follow the mouse.
MouseDrag(w, lx, ly, dx, dy) ==
  LET root == win[w].root
      around == <<<<0, 0>>, <<0, 1>>, <<1, 0>>, <<0, -1>>, <<-1, 0>>>>
      found == [i \in DOMAIN around |->
                  SearchByBorder(root, lx + around[i][1], ly + around[i][2])]
      Once(s, c) == IF c = <<0>> \/ c \in Range(s) THEN s ELSE Append(s, c)
      cells == FoldLeft(Once, <<>>, found)
      One(c, path) ==
        LET t == At(c, Front(path)).type
        IN IF t = "TOPBOTTOM" THEN ResizeLayout(c, path, dy, FALSE)
           ELSE ResizeLayout(c, path, dx, FALSE)
  IN /\ cells # <<>>
     /\ Become(Rooted(State, w, FoldLeft(One, root, cells)))

\* layout_set_select and its callers: arrange the panes; the window gets the
\* size of the layout. For one pane nothing happens.
Resized(st, w, root) ==
  Rooted([st EXCEPT !.win[w].sx = root.sx, !.win[w].sy = root.sy], w, root)
SetLayout(st, w, name) ==
  LET v == st.win[w]
      named == [st EXCEPT !.win[w].name = name]
  IN IF Len(v.panes) <= 1 THEN named
     ELSE Resized(named, w, Arrange(name, v.panes, v.sx, v.sy))

\* cmd_select_layout_exec keeps the layout for -o.
KeepOld(st, w) == IF "undo" \in uses THEN [st EXCEPT !.win[w].old = st.win[w].root] ELSE st

\* select-layout and next-layout.
SelectLayout(w, name) == Become(SetLayout(KeepOld(Unzoom(State, w), w), w, name))

NextLayout(w, step) ==
  LET k == Len(LayoutSets)
      name == win[w].name
      i == IF name = None THEN IF step = 1 THEN 1 ELSE k
           ELSE ((Index(LayoutSets, name) + step - 1 + k) % k) + 1
  IN SelectLayout(w, LayoutSets[i])

\* select-layout -E.
SpreadOut(w, p) ==
  \E open \in {Unzoom(State, w)} :
  \E root \in {open.win[w].root}, kept \in {KeepOld(open, w)} :
  \E at \in {SpreadAt(root, Path(root, p))} : \E e \in {EdgeAt(root, at, RootEdge)} :
    Become(IF at = <<0>> THEN kept
           ELSE IF ~SpreadBounded(At(root, at), e) THEN [kept EXCEPT !.hung = TRUE]
           ELSE Rooted(kept, w, Put(root, at, SpreadCell(At(root, at), e))))

\* select-layout -o, and a layout given as text: layout_parse of what
\* layout_dump has written. A layout with one cell does not change the size
\* of the window.
UndoLayout(w) ==
  /\ win[w].old # None
  /\ Len(win[w].panes) > 1 \/ "undo alone" \in uses
  /\ \E open \in {Unzoom(State, w)} :
     \E v \in {open.win[w]}, kept \in {[open EXCEPT !.win[w].old = open.win[w].root]} :
     \E root \in {Parse(v.old, v.panes)} :
       Become(IF root = None THEN open
              ELSE IF root.type = "WINDOWPANE" THEN Rooted(kept, w, root)
              ELSE Resized(kept, w, root))

\* resize_window: the layout first; the window is never smaller than it.
ResizeWindow(w, x, y) ==
  \E open \in {Unzoom(State, w)} :
  \E root \in {LayoutResize(open.win[w].root, x, y)} :
    Become(PopZoom([Rooted(open, w, root) EXCEPT !.win[w].sx = Larger(x, root.sx),
                                                !.win[w].sy = Larger(y, root.sy)],
                   w, win[w].zoomed))

\* respawn-window -k: spawn_window keeps the first pane and destroys the
\* others. window_set_active_pane unzooms the window that is zoomed still.
RespawnWindow(w) ==
  LET v == win[w]
      p == Head(v.panes)
      others == Range(Tail(v.panes))
      alone == [State EXCEPT
        !.win[w].panes = <<p>>, !.win[w].last = <<>>, !.win[w].active = None,
        !.win[w].root = Leaf(p, v.sx, v.sy), !.marks = @ \ others,
        !.size = [q \in Pane |-> IF q \in others THEN None ELSE @[q]]]
  IN /\ v.zoomed => "respawn zoomed" \in uses
     /\ Become(SetActive(FixPanes(alone, w, None), w, p))

-----------------------------------------------------------------------------
\* Bound: how far the mouse is dragged at once.
Drags == {<<-1, 0>>, <<0, -1>>, <<2, 2>>}
Here == {<<w, p>> \in Window \X Pane : p \in PanesOf(State, w)}

\* What needs a feature to be used.
If(feature) == IF feature \in uses THEN BOOLEAN ELSE {FALSE}

Asked == IF "sizes" \in uses THEN Splits ELSE {-1}

Next ==
  /\ ~hung
  /\ \E h \in Here :
       LET w == h[1]  p == h[2]  v == win[w]
       IN \/ /\ "split" \in uses
             /\ \E q \in NewPanes, t \in Types, n \in Asked, before, detached \in BOOLEAN :
                  \E fails \in If("fail"), full \in If("full"), zoom \in If("zoom") :
                    Split(w, p, q, t, n, before, full, detached, zoom, ~fails)
          \/ /\ "popup" \in uses /\ p = v.active
             /\ \E q \in NewPanes, t \in Types : PopupToPane(w, q, t)
          \/ "kill" \in uses /\ Kill(w, p)
          \/ "kill" \in uses /\ KillOthers(w, p)
          \/ /\ "join" \in uses
             /\ \E g \in Here, t \in Types, n \in Asked, before, detached \in BOOLEAN :
                  \E full \in If("full") :
                    Join(g[1], g[2], w, p, t, n, before, full, detached)
          \/ "join" \in uses /\ \E u \in Window : Break(w, p, u)
          \/ /\ "swap" \in uses
             /\ \E g \in Here, detached \in BOOLEAN, zoom \in If("zoom") :
                  Swap(g[1], g[2], w, p, detached, zoom)
          \/ /\ "rotate" \in uses /\ p = v.active
             /\ \E down, zoom \in BOOLEAN : Rotate(w, down, zoom)
          \/ "last" \in uses /\ \E zoom \in If("zoom") : Select(w, p, zoom)
          \/ /\ "last" \in uses /\ p = v.active
             /\ \E zoom \in If("zoom") : LastPane(w, zoom)
          \/ "zoom" \in uses /\ ZoomToggle(w, p)
          \/ /\ "resize" \in uses
             /\ \E t \in Types, n \in Splits \ {-1} : ResizeTo(w, p, t, n)
          \/ /\ "resize" \in uses
             /\ \E t \in Types, n \in {-2, -1, 1, 2} : ResizeBy(w, p, t, n)
          \/ /\ "mouse" \in uses /\ p = v.active
             /\ \E lx \in 0..v.sx - 1, ly \in 0..v.sy - 1, d \in Drags :
                  MouseDrag(w, lx, ly, d[1], d[2])
          \/ /\ "layout" \in uses /\ p = v.active
             /\ \E name \in Layouts : SelectLayout(w, name)
          \/ /\ "layout" \in uses /\ p = v.active
             /\ \E step \in {-1, 1} : NextLayout(w, step)
          \/ "spread" \in uses /\ SpreadOut(w, p)
          \/ "undo" \in uses /\ p = v.active /\ UndoLayout(w)
          \/ /\ "window size" \in uses /\ p = v.active
             /\ \E x \in Widths, y \in Heights : ResizeWindow(w, x, y)
          \/ "respawn" \in uses /\ p = v.active /\ RespawnWindow(w)

Spec == Init /\ [][Next]_vars

-----------------------------------------------------------------------------
\* The tree of a window with all of its panes.
Tree(v) == IF v.zoomed THEN v.saved ELSE v.root
RECURSIVE CellsFit(_)
CellsFit(c) == /\ c.sx >= PaneMinimum /\ c.sy >= PaneMinimum
               /\ \A i \in DOMAIN c.cells : CellsFit(c.cells[i])

\* The types. A pane may have no line at all: pane-border-status takes the only
\* line of a cell that a split -b made one line high.
TypeOK ==
  /\ \A w \in Window : /\ win[w].panes \in Seq(Pane) /\ IsInjective(win[w].panes)
                       /\ win[w].last \in Seq(Pane) /\ win[w].zoomed \in BOOLEAN
  /\ size \in [Pane -> (Nat \X Nat) \cup {None}] /\ marks \subseteq Pane
  /\ hung \in BOOLEAN /\ uses \in Instances

\* Every window that is alive has its layout: each pane of the list is in
\* exactly one cell, the cells fill their parents and the root fills the
\* window, a zoomed window shows the active pane alone, and the size a pane
\* was told is that of its cell (layout_fix_panes after every command).
LayoutSound ==
  \A w \in Window : Alive(State, w) =>
    LET v == win[w]
        tree == Tree(v)
    IN /\ LayoutCheck(tree) /\ CellsFit(tree)
       /\ IsInjective(LeafSeq(tree)) /\ Leaves(tree) = Range(v.panes)
       /\ v.zoomed => v.root = Leaf(v.active, v.sx, v.sy) /\ Len(v.panes) > 1
       /\ v.root.sx = v.sx /\ v.root.sy = v.sy
       /\ size = FixPanes(State, w, None).size

PanesSound == TypeOK /\ LayoutSound

\* A window that is alive has one of its panes as the active one; its last
\* panes are other panes of its own, none twice, and a pane is in one window
\* (window_lost_pane, window_pane_stack_push, join-pane, swap-pane).
ActiveSound ==
  \A w \in Window :
    /\ Alive(State, w) => win[w].active \in Range(win[w].panes)
    /\ IsInjective(win[w].last)
    /\ Range(win[w].last) \subseteq Range(win[w].panes) \ {win[w].active}
    /\ \A p \in Range(win[w].panes) :
         /\ size[p] # None
         /\ \A v \in Window \ {w} : p \notin Range(win[v].panes)

\* From every pane every direction leads to another one (in a window that is
\* not zoomed: the commands unzoom first), around the edge if need be, unless the pane reaches from edge to edge
\* (window_pane_find_up and the other three: their arithmetic on the lines
\* between panes).
EveryDirectionLeads ==
  \A w \in {u \in Window : Alive(State, u) /\ ~win[u].zoomed} :
    \A p \in Range(win[w].panes), way \in {"up", "down", "left", "right"} :
      \/ \E q \in Range(win[w].panes) \ {p} : Adjacent(w, p, q, way)
      \/ LET t == IF way \in {"left", "right"} THEN "LEFTRIGHT" ELSE "TOPBOTTOM"
         IN Size(At(win[w].root, Path(win[w].root, p)), t) = Size(win[w].root, t)

\* layout_spread_out always ends (layout.c:459): no cell is asked for more than it has
\* (layout_spread_cell hands layout_resize_adjust a change that nothing has
\* bounded).
NeverHangs == ~hung

\* A command that neither adds nor removes a pane leaves the cells of every
\* window as they were, those that zoom and unzoom on the way included
\* (window_push_zoom, window_pop_zoom, swap-pane, rotate-window). Commands that
\* change sizes are left out, and so is a split -b whose process fails to
\* start: the space goes back to the cell before and not where it came from.
Shape(v) == LET f == [p \in Pane |-> None] IN Relabel(Tree(v), f)
ShapeStep ==
  (/\ uses \subseteq {"split", "kill", "zoom", "swap", "rotate", "last"}
   /\ \A w \in Window : Len(win'[w].panes) = Len(win[w].panes))
  => \A w \in Window : Alive(State, w) => Shape(win'[w]) = Shape(win[w])
ShapeKept == [][ShapeStep]_vars
=============================================================================
