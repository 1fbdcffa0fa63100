---------------------------- MODULE ScreenWrite ----------------------------
(***************************************************************************)
(* What the program in a pane writes, on its way to the terminals          *)
(* (screen-write.c, grid-view.c and the part of input.c that calls them).  *)
(*                                                                         *)
(* A character or a sequence changes the screen at once; what the          *)
(* terminals are sent is put off. Printed characters are collected in an   *)
(* item, finished items and erased parts of lines wait in a list for every *)
(* line, scrolling waits as a count, and a flush sends the count and then  *)
(* the items. Other sequences go out directly, after a flush, as commands  *)
(* that every client is given in order (Tty). When a client cannot be      *)
(* given a command the pane is redrawn as a whole, when the client has     *)
(* taken what was sent before (server_client_loop).                        *)
(*                                                                         *)
(* screen is the screen (lines, cursor cx, cy, region ru to rl, modes, the *)
(* saved screen of the alternate one, whether there is history) and what   *)
(* is put off: the list, the characters data of its items, the item being  *)
(* collected, scrolled lines and their background bg. flags are the redraw *)
(* flags of the clients, redraw is PANE_REDRAW.                            *)
(*                                                                         *)
(* Some sequences are known to leave the grid and the terminals different  *)
(* (the README lists them): astray, which is not in the code, keeps what   *)
(* they do out of the properties until the pane is redrawn.                *)
(*                                                                         *)
(* Left out: tabs, combining characters, origin mode, the selection, panes *)
(* in a mode, images, other attributes than a background.                  *)
(***************************************************************************)
EXTENDS Tty

CONSTANTS Instances   \* What a behaviour starts from, and what happens in it.

VARIABLES screen, ttys, flags, redraw, reading,
          instance, steps   \* Bound: instance.most sequences and events.

vars == <<screen, ttys, flags, redraw, reading, instance, steps>>

Clients == DOMAIN ttys
Redraws == {"WINDOW", "BORDERS", "PANES"}
FirstOf(S) == CHOOSE i \in S : \A j \in S : i <= j
LastOf(S) == CHOOSE i \in S : \A j \in S : i >= j

(***************************************************************************)
(* The grid, the lines of which keep only the cells written so far.        *)
(***************************************************************************)
EmptyLine(bg) ==
  [cells |-> IF bg = "" THEN <<>> ELSE Each(Sx, LAMBDA i : BlankOf(bg)),
   wrapped |-> FALSE]
Unwrapped(lines, y) ==
  IF y < 0 THEN lines ELSE [lines EXCEPT ![y + 1].wrapped = FALSE]

\* grid_expand_line: to a quarter, a half or all of the width.
Expand(line, n) ==
  LET size == IF n < Sx \div 4 THEN Sx \div 4
              ELSE IF n < Sx \div 2 THEN Sx \div 2 ELSE Sx
  IN IF n <= Len(line.cells) THEN line
     ELSE [line EXCEPT !.cells = Each(size, LAMBDA i : CellAt(line, i - 1))]

\* grid_set_cell and grid_set_cells.
Write(lines, px, py, cells) ==
  LET line == Expand(lines[py + 1], px + Len(cells))
  IN [lines EXCEPT ![py + 1] = [line EXCEPT !.cells = Each(Len(@), LAMBDA i :
        IF i - px \in 1..Len(cells) THEN cells[i - px] ELSE line.cells[i])]]
Blank(lines, first, last, py) ==
  IF first > last THEN lines
  ELSE Write(lines, first, py, Each(last + 1 - first, LAMBDA i : " "))

\* grid_clear: whole lines are emptied, and so are not joined to the line
\* above; a default background only reaches the cells there are.
Clear(lines, px, py, nx, ny, bg) ==
  LET n == IF bg # "" THEN nx ELSE Lesser(nx, Len(lines[py + 1].cells) - px)
  IN IF nx = 0 \/ ny = 0 THEN lines
     ELSE IF px = 0 /\ nx = Sx
       THEN Unwrapped(Each(Sy, LAMBDA i : IF i - 1 \in py..(py + ny - 1)
                                          THEN EmptyLine(bg) ELSE lines[i]),
                      py - 1)
     ELSE IF n <= 0 THEN lines
     ELSE Write(lines, px, py, Each(n, LAMBDA i : BlankOf(bg)))

\* grid_move_lines and grid_move_cells.
MoveLines(lines, dy, py, ny, bg) ==
  LET from == Unwrapped(lines, dy - 1)
      moved == Each(Sy, LAMBDA i :
                 IF i - 1 \in dy..(dy + ny - 1) THEN from[i + py - dy]
                 ELSE IF i - 1 \in py..(py + ny - 1) THEN EmptyLine(bg)
                 ELSE from[i])
  IN IF ny = 0 \/ py = dy THEN lines
     ELSE IF py \in dy..(dy + ny - 1) THEN moved
     ELSE Unwrapped(moved, py - 1)
MoveCells(lines, dx, px, py, nx, bg) ==
  LET there == Expand(lines[py + 1], px + nx)
      line == Expand(there, dx + nx)
  IN IF nx = 0 \/ px = dx THEN lines
     ELSE [lines EXCEPT ![py + 1] = [line EXCEPT !.cells = Each(Len(@), LAMBDA i :
             IF i - 1 \in dx..(dx + nx - 1) THEN line.cells[i + px - dx]
             ELSE IF i - 1 \in px..(px + nx - 1) THEN BlankOf(bg)
             ELSE line.cells[i])]]

\* grid_view_insert_cells, grid_view_delete_cells.
InsertCells(lines, px, py, nx, bg) ==
  IF px >= Sx - 1 THEN Clear(lines, px, py, 1, 1, bg)
  ELSE MoveCells(lines, px + nx, px, py, Sx - px - nx, bg)
DeleteCells(lines, px, py, nx, bg) ==
  Clear(MoveCells(lines, px, px + nx, py, Sx - px - nx, bg), Sx - nx, py, nx, 1, bg)

\* grid_view_insert_lines, grid_view_insert_lines_region and the same for
\* deleting. In the region the count of lines left to clear may be negative:
\* then only the line above loses its flag.
InsertLines(lines, py, ny, bg) == MoveLines(lines, py + ny, py, Sy - py - ny, bg)
InsertLinesRegion(lines, rlower, py, ny, bg) ==
  LET ny2 == rlower + 1 - py - ny
  IN Clear(MoveLines(lines, rlower + 1 - ny2, py, ny2, bg),
           0, py + ny2, Sx, ny - ny2, bg)
DeleteLines(lines, py, ny, bg) ==
  Clear(MoveLines(lines, py, py + ny, Sy - py - ny, bg), 0, Sy - ny, Sx, ny, bg)
DeleteLinesRegion(lines, rlower, py, ny, bg) ==
  LET ny2 == rlower + 1 - py - ny
  IN Clear(MoveLines(lines, py, py + ny, ny2, bg), 0, py + ny2, Sx, ny - ny2, bg)

\* grid_view_scroll_region_up: with history the lines move with their flags.
ScrollRegionUp(s, bg) ==
  IF ~s.history THEN MoveLines(s.lines, s.ru, s.ru + 1, s.rl - s.ru, bg)
  ELSE Each(Sy, LAMBDA i : IF i - 1 \in s.ru..(s.rl - 1) THEN s.lines[i + 1]
                           ELSE IF i - 1 = s.rl THEN EmptyLine(bg)
                           ELSE s.lines[i])
ScrollRegionDown(s, bg) == MoveLines(s.lines, s.ru + 1, s.ru, s.rl - s.ru, bg)

(***************************************************************************)
(* What is put off.                                                        *)
(***************************************************************************)
NewItem == [x |-> 0, used |-> 0, type |-> "TEXT", bg |-> "", wrapped |-> FALSE]
ClearItem(px, used, bg) ==
  [NewItem EXCEPT !.x = px, !.used = used, !.type = "CLEAR", !.bg = bg]
NoItems == [i \in 1..Sy |-> <<>>]

\* screen_write_initctx and tty_write: a command, with the screen as it is.
Command(s, fn, cx, cy, n, bg, wrapped, cells) ==
  [fn |-> fn, cx |-> cx, cy |-> cy, ru |-> s.ru, rl |-> s.rl, n |-> n, bg |-> bg,
   wrapped |-> wrapped, cells |-> cells, lines |-> s.lines]
Send(s, fn, n, bg) ==
  [s EXCEPT !.out = Append(@, Command(s, fn, s.cx, s.cy, n, bg, FALSE, <<>>))]
Redrawn(s) == Send(s, "redraw", 0, "")

\* Not in the code: the terminals will not show the screen, see ToAstray.
Astray(r, where, condition) ==
  IF condition THEN [r EXCEPT !.astray = @ \cup {where}] ELSE r

Move(s, cx, cy) == [s EXCEPT !.cx = Lesser(cx, Sx), !.cy = Lesser(cy, Sy - 1)]

\* Variant: what is under the new item stays in the list.
CollectInsertOver(s, ci) ==
  [s EXCEPT !.list[s.cy + 1] = Append(@, ci), !.item = NewItem]

\* screen_write_collect_trim and screen_write_collect_insert: nothing in the
\* list may overlap the new item, which takes its place by column.
Parts(ci, x, used) ==
  LET after == x + used
      left == [ci EXCEPT !.used = Lesser(@, x - ci.x)]
      right == [ci EXCEPT !.x = after, !.used = ci.x + ci.used - after,
                          !.wrapped = @ /\ ci.x >= x]
  IN IF ci.x >= after \/ ci.x + ci.used <= x THEN <<ci>>
     ELSE (IF ci.x < x THEN <<left>> ELSE <<>>) \o
          (IF ci.x + ci.used > after THEN <<right>> ELSE <<>>)
CollectInsert(s, ci) ==
  LET items == s.list[s.cy + 1]
      rest == FlattenSeq([i \in 1..Len(items) |-> Parts(items[i], ci.x, ci.used)])
      joined == \E i \in 1..Len(items) :
                  /\ items[i].x = 0 /\ items[i].wrapped
                  /\ ci.x = 0 /\ items[i].used <= ci.used
      new == [ci EXCEPT !.wrapped = @ \/ joined]
  IN [s EXCEPT !.list[s.cy + 1] = SelectSeq(rest, LAMBDA i : i.x < ci.x)
                                  \o <<new>> \o SelectSeq(rest, LAMBDA i : i.x > ci.x),
               !.item = NewItem]

CollectClear(s, y, n) ==
  [s EXCEPT !.list = Each(Sy, LAMBDA i : IF i - 1 \in y..(y + n - 1) THEN <<>>
                                         ELSE s.list[i])]

\* Variant: the characters stay where they are.
CollectScrollItems(s, bg) ==
  [s EXCEPT !.list = Each(Sy, LAMBDA i :
                       IF i - 1 \in s.ru..(s.rl - 1) THEN s.list[i + 1]
                       ELSE IF i - 1 = s.rl THEN <<ClearItem(0, Sx, bg)>>
                       ELSE s.list[i])]

\* screen_write_collect_scroll: the items and their characters move up.
CollectScroll(s, bg) ==
  [s EXCEPT !.list = Each(Sy, LAMBDA i :
                       IF i - 1 \in s.ru..(s.rl - 1) THEN s.list[i + 1]
                       ELSE IF i - 1 = s.rl THEN <<ClearItem(0, Sx, bg)>>
                       ELSE s.list[i]),
            !.data = Each(Sy, LAMBDA i :
                       IF i - 1 \in s.ru..(s.rl - 1) THEN s.data[i + 1]
                       ELSE IF i - 1 = s.rl THEN s.data[s.ru + 1]
                       ELSE s.data[i])]

\* screen_write_collect_flush: while updates are synchronized all is dropped,
\* the redraw at their end shows it.
ItemCommand(s, y, ci) ==
  IF ci.type = "CLEAR"
    THEN Command(s, "clearcharacter", ci.x, y, ci.used, ci.bg, FALSE, <<>>)
    ELSE Command(s, "cells", ci.x, y, ci.used, ci.bg, ci.wrapped,
                 SubSeq(s.data[y + 1], ci.x + 1, ci.x + ci.used))
Flush(s, scrollOnly) ==
  LET lines == Lesser(s.scrolled, s.rl - s.ru + 1)
      up == IF lines = 0 THEN s ELSE Send(s, "scrollup", lines, s.bg)
      commands == FlattenSeq([y \in 1..Sy |->
                    [i \in 1..Len(s.list[y]) |-> ItemCommand(s, y - 1, s.list[y][i])]])
  IN IF "SYNC" \in s.mode THEN [s EXCEPT !.list = NoItems]
     ELSE IF scrollOnly THEN [up EXCEPT !.scrolled = 0, !.bg = ""]
     ELSE [up EXCEPT !.scrolled = 0, !.bg = "", !.list = NoItems,
                     !.out = @ \o commands]

\* screen_write_collect_end: the item goes to the list and the grid, and what
\* it leaves of a wide character on either side is erased.
CollectEnd(s) ==
  LET ci == [s.item EXCEPT !.x = s.cx]
      CellOf(x) == CellAt(s.lines[s.cy + 1], x)
      end == s.cx + ci.used
      first == LastOf({0} \cup {k \in 0..s.cx : CellOf(k) # "P"})
      last == FirstOf({Sx} \cup {k \in end..Sx : CellOf(k) # "P"})
      halves == (IF first # s.cx THEN <<ClearItem(first, s.cx - first, "")>> ELSE <<>>) \o
                (IF last > end THEN <<ClearItem(end, last - end, "")>> ELSE <<>>)
      text == SubSeq(s.data[s.cy + 1], s.cx + 1, end)
      from == IF CellOf(first) \in {"W", "P"} THEN first ELSE first + 1
      old == IF first = s.cx THEN s.lines ELSE Blank(s.lines, from, s.cx, s.cy)
      items == <<ci>> \o halves
      after[n \in 0..3] == IF n = 0 THEN s ELSE CollectInsert(after[n - 1], items[n])
  IN IF s.item.used = 0 THEN s
     ELSE [after[Len(items)] EXCEPT
             !.lines = Blank(Write(old, s.cx, s.cy, text), end, last - 1, s.cy),
             !.cx = end]

(***************************************************************************)
(* The operations of screen-write.c. Those with a background are given     *)
(* that of the pen.                                                        *)
(***************************************************************************)
ScrolledUp(s, bg) ==
  Only({CollectScroll(u, bg) :
          u \in {[s EXCEPT !.lines = ScrollRegionUp(s, bg), !.scrolled = @ + 1]}})
Backgrounded(s, bg) ==
  IF bg = s.bg THEN s ELSE [Flush(s, TRUE) EXCEPT !.bg = bg]

Linefeed(s, wrapped, bg) ==
  Only({IF s.cy = s.rl THEN ScrolledUp(u, bg) ELSE Move(u, s.cx, s.cy + 1) :
          u \in {Backgrounded(m, bg) :
                 m \in {[s EXCEPT !.lines[s.cy + 1].wrapped = @ \/ wrapped]}}})

\* screen_write_overwrite: the halves of what the character is written over.
Overwrite(s, width) ==
  LET At(x) == CellAt(s.lines[s.cy + 1], x)
      first == LastOf({0} \cup {k \in 0..s.cx : At(k) # "P"})
      last == FirstOf({Sx} \cup {k \in (s.cx + width)..Sx : At(k) # "P"}) - 1
      over == IF At(s.cx) = "P" THEN Blank(s.lines, first, s.cx, s.cy) ELSE s.lines
  IN IF width = 1 /\ At(s.cx) \notin {"W", "P"} THEN over
     ELSE Blank(over, s.cx + width, last, s.cy)

\* screen_write_cell: room for the character in insert mode, a wrap, and then it
\* is put and told to the clients.
Room(s, width) ==
  LET f == Flush(s, TRUE)
      far == "WRAP" \in s.mode /\ s.cx > Sx - width
  IN IF "INSERT" \notin s.mode THEN f
     ELSE [Astray(f, "pane", far) EXCEPT
             !.lines = InsertCells(@, s.cx, s.cy, width, "")]
Wrap(s, width) ==
  IF "WRAP" \notin s.mode \/ s.cx <= Sx - width THEN s
  ELSE Only({Flush(Move(u, 0, u.cy), FALSE) : u \in {Linefeed(s, TRUE, "")}})
PutCell(s, cell) ==
  LET width == Width(cell)
      inserts == "INSERT" \in s.mode
      over == Overwrite(s, width)
      again == over # s.lines
      same == /\ ~again /\ ~inserts /\ width = 1
              /\ CellAt(s.lines[s.cy + 1], s.cx) = cell
      to == IF "WRAP" \in s.mode THEN Sx ELSE Sx - 1
      put == [s EXCEPT
                !.lines = IF same THEN over
                          ELSE Write(over, s.cx, s.cy,
                                     IF width = 2 THEN <<"W", "P">> ELSE <<cell>>),
                !.cx = IF s.cx <= to - width THEN s.cx + width ELSE to]
      Told(u, fn, n, bg) ==
        [u EXCEPT !.out = Append(@, Command(u, fn, s.cx, s.cy, n, bg, FALSE, <<cell>>))]
  IN Only({IF same \/ "SYNC" \in s.mode THEN u
           ELSE Told(u, "cell", IF again THEN 2 ELSE 0, "") :
             u \in {IF inserts THEN Told(v, "insertcharacter", width, "*") ELSE v :
                    v \in {IF inserts THEN Flush(put, FALSE) ELSE put}}})
Cell(s, cell) ==
  LET width == Width(cell)
  IN IF "WRAP" \notin s.mode /\ width > 1 /\ s.cx # Sx /\ s.cx > Sx - width
       THEN Flush(s, TRUE)
     ELSE Only({IF u.cx > Sx - width THEN u ELSE PutCell(u, cell) :
                  u \in {Wrap(v, width) : v \in {Room(s, width)}}})

FlushSend(s, fn, n, bg) == LET f == Flush(s, FALSE) IN Send(f, fn, n, bg)

\* grid_view_insert_cells moves as many cells as are left after the new ones even
\* when that is fewer than the new ones: then cells before them move as well.
InsertCharacter(s, n, bg) ==
  LET nx == Lesser(n, Sx - s.cx)
      far == s.cx < Sx - 1 /\ nx > Sx - s.cx - nx
      u == Astray([s EXCEPT !.lines = InsertCells(@, s.cx, s.cy, nx, bg)], "pane", far)
  IN IF nx = 0 THEN s ELSE FlushSend(u, "insertcharacter", nx, bg)
DeleteCharacter(s, n, bg) ==
  LET nx == Lesser(n, Sx - s.cx)
      u == [s EXCEPT !.lines = DeleteCells(@, s.cx, s.cy, nx, bg)]
  IN IF nx = 0 THEN s ELSE FlushSend(u, "deletecharacter", nx, bg)
ClearCharacter(s, n, bg) ==
  LET nx == Lesser(n, Sx - s.cx)
      u == [s EXCEPT !.lines = Clear(@, s.cx, s.cy, nx, 1, bg)]
  IN IF nx = 0 THEN s ELSE FlushSend(u, "clearcharacter", nx, bg)

\* With the cursor outside of the region the grid moves lines, but terminals do
\* not obey the sequence there.
InRegion(s) == s.cy \in s.ru..s.rl
InsertLine(s, n, bg) ==
  LET ny == Lesser(n, (IF InRegion(s) THEN s.rl + 1 ELSE Sy) - s.cy)
      u == [s EXCEPT !.lines = IF InRegion(s)
                                 THEN InsertLinesRegion(@, s.rl, s.cy, ny, bg)
                                 ELSE InsertLines(@, s.cy, ny, bg)]
  IN FlushSend(Astray(u, "pane", ~InRegion(s)), "insertline", ny, bg)
DeleteLine(s, n, bg) ==
  LET ny == Lesser(n, (IF InRegion(s) THEN s.rl + 1 ELSE Sy) - s.cy)
      u == [s EXCEPT !.lines = IF InRegion(s)
                                 THEN DeleteLinesRegion(@, s.rl, s.cy, ny, bg)
                                 ELSE DeleteLines(@, s.cy, ny, bg)]
  IN FlushSend(Astray(u, "pane", ~InRegion(s)), "deleteline", ny, bg)

ClearLineAt(s, bg) ==
  LET u == [s EXCEPT !.lines = Clear(@, 0, s.cy, Sx, 1, bg),
                     !.list[s.cy + 1] = <<ClearItem(0, Sx, bg)>>]
  IN IF s.lines[s.cy + 1].cells = <<>> /\ bg = "" THEN s ELSE u
ClearEndOfLine(s, bg) ==
  LET u == [s EXCEPT !.lines = Clear(@, s.cx, s.cy, Sx - s.cx, 1, bg)]
  IN IF s.cx = 0 THEN ClearLineAt(s, bg)
     ELSE IF s.cx > Sx - 1 \/ (s.cx >= Len(s.lines[s.cy + 1].cells) /\ bg = "") THEN s
     ELSE CollectInsert(u, ClearItem(s.cx, Sx - s.cx, bg))
ClearStartOfLine(s, bg) ==
  LET u == [s EXCEPT !.lines = Clear(@, 0, s.cy, s.cx + 1, 1, bg)]
  IN IF s.cx >= Sx - 1 THEN ClearLineAt(s, bg)
     ELSE CollectInsert(u, ClearItem(0, s.cx + 1, bg))

\* A clear screen goes into the history, where there is one.
AllClear(s, bg) == [s EXCEPT !.lines = [i \in 1..Sy |-> EmptyLine(bg)]]
ClearEndOfScreen(s, bg) ==
  LET part == Clear(s.lines, s.cx, s.cy, Sx - s.cx, 1, bg)
      all == Clear(part, 0, s.cy + 1, Sx, Sy - (s.cy + 1), bg)
      u == IF s.cx = 0 /\ s.cy = 0 /\ s.history THEN AllClear(s, bg)
           ELSE [s EXCEPT !.lines = all]
      v == CollectClear(u, s.cy + 1, Sy - (s.cy + 1))
  IN FlushSend(v, "clearendofscreen", 0, bg)
ClearStartOfScreen(s, bg) ==
  LET above == Clear(s.lines, 0, 0, Sx, s.cy, bg)
      u == [s EXCEPT !.lines = Clear(above, 0, s.cy, Lesser(s.cx + 1, Sx), 1, bg)]
      v == CollectClear(u, 0, s.cy)
  IN FlushSend(v, "clearstartofscreen", 0, bg)

\* No flush: what is scrolled before is sent after the screen is cleared.
ClearScreen(s, bg) ==
  LET u == Astray(AllClear(s, bg), "pane", s.scrolled > 0 /\ s.bg # bg)
  IN Send(CollectClear(u, 0, Sy), "clearscreen", 0, bg)

ReverseIndexAt(s, bg) ==
  LET u == [s EXCEPT !.lines = ScrollRegionDown(s, bg)]
  IN IF s.cy = s.ru THEN FlushSend(u, "reverseindex", 1, bg)
     ELSE Move(s, s.cx, Greater(s.cy - 1, 0))
ScrollUp(s, n, bg) ==
  LET lines == Lesser(n, s.rl - s.ru + 1)
  IN FoldLeft(LAMBDA u, i : ScrolledUp(u, bg), Backgrounded(s, bg),
              [i \in 1..lines |-> i])
ScrollDown(s, n, bg) ==
  LET lines == Lesser(n, s.rl - s.ru + 1)
      u == FoldLeft(LAMBDA v, i : [v EXCEPT !.lines = ScrollRegionDown(v, bg)], s,
                    [i \in 1..lines |-> i])
  IN FlushSend(u, "scrolldown", lines, bg)
ScrollRegion(s, upper, lower) ==
  LET u == Move(Flush(s, FALSE), 0, 0)
  IN IF upper >= lower THEN s ELSE [u EXCEPT !.ru = upper, !.rl = lower]

\* Nor here, and the items of the last line are not dropped.
AlignmentTest(s) ==
  LET u == [s EXCEPT !.lines = [i \in 1..Sy |-> [@[i] EXCEPT !.cells =
                                                  [j \in 1..Sx |-> "E"]]],
                     !.cx = 0, !.cy = 0, !.ru = 0, !.rl = Sy - 1]
      v == CollectClear(u, 0, Sy - 1)
      left == s.scrolled > 0 \/ s.list[Sy] # <<>>
  IN Send(Astray(v, "pane", left), "alignmenttest", 0, "")

\* screen_alternate_on and screen_alternate_off, with the cursor.
AlternateOn(s) ==
  LET f == Flush(s, FALSE)
      u == [f EXCEPT !.saved = [lines |-> s.lines, cx |-> s.cx, cy |-> s.cy],
                     !.lines = Clear(@, 0, 0, Sx, Sy, ""), !.history = FALSE]
  IN Redrawn(Send(IF s.history THEN u ELSE f, "borders", 0, ""))
AlternateOff(s) ==
  LET f == Flush(s, FALSE)
      at == IF s.saved.cx = Unknown THEN s ELSE s.saved
      u == Move(f, Lesser(at.cx, Sx - 1), at.cy)
  IN Redrawn(Send(IF s.history THEN u
                  ELSE [u EXCEPT !.lines = s.saved.lines, !.saved.lines = <<>>,
                                 !.history = TRUE], "borders", 0, ""))

\* screen_write_reset and screen_write_fullredraw.
Reset(s) ==
  LET u == [ScrollRegion(s, 0, Sy - 1) EXCEPT !.mode = {"WRAP"}]
      v == Move(ClearScreen(u, ""), 0, 0)
      w == Flush(v, FALSE)
  IN Redrawn(w)

Backspace(s) ==
  IF s.cx > 0 THEN Move(s, s.cx - 1, s.cy)
  ELSE IF s.cy > 0 /\ s.lines[s.cy].wrapped THEN Move(s, Sx - 1, s.cy - 1)
  ELSE s
CursorUp(s, n) ==
  Move(s, Lesser(s.cx, Sx - 1),
       s.cy - Lesser(n, IF s.cy < s.ru THEN s.cy ELSE s.cy - s.ru))
CursorDown(s, n) ==
  Move(s, Lesser(s.cx, Sx - 1),
       s.cy + Lesser(n, (IF s.cy > s.rl THEN Sy - 1 ELSE s.rl) - s.cy))
CursorRight(s, n) == Move(s, Lesser(s.cx + n, Sx - 1), s.cy)
CursorLeft(s, n) == Move(s, Greater(s.cx - n, 0), s.cy)

(***************************************************************************)
(* The clients.                                                            *)
(***************************************************************************)
\* tty_write, tty_client_ready and screen_write_set_client_cb: one client after
\* the other, until the pane has to be redrawn anyway.
Given(r, i, c) ==
  IF r.redraw \/ "WINDOW" \in r.flags[i] \/ \E j \in Clients : r.ttys[j].again THEN r
  ELSE IF "PANES" \in r.flags[i] THEN [r EXCEPT !.redraw = TRUE]
  ELSE [r EXCEPT !.ttys[i] = Cmd(@, c)]
Delivered(out) ==
  LET n == Len(ttys)
      after[k \in 0..(n * Len(out))] ==
        IF k = 0 THEN [ttys |-> ttys, flags |-> flags, redraw |-> redraw]
        ELSE LET c == out[((k - 1) \div n) + 1]
                 r == after[k - 1]
             IN CASE c.fn = "redraw" -> [r EXCEPT !.redraw = TRUE]
                  [] c.fn = "borders" ->
                       [r EXCEPT !.flags = [i \in Clients |-> @[i] \cup {"BORDERS"}]]
                  [] OTHER -> Given(r, ((k - 1) % n) + 1, c)
  IN after[n * Len(out)]

\* All that a step of the program has sent goes to the clients in that step.
Deliver ==
  \E r \in {Delivered(screen'.out)} :
    /\ ttys' = [i \in Clients |-> [r.ttys[i] EXCEPT !.again = FALSE,
                                                    !.astray = @ \cup screen'.astray]]
    /\ flags' = r.flags
    /\ redraw' = (r.redraw \/ \E i \in Clients : r.ttys[i].again)

\* screen_redraw_draw_pane, screen_redraw_draw_borders and the status line, which
\* are all the terminal has beside the pane.
DrawPane(d) == DrawLines(d, screen.lines, 0, Sy - 1)
OfPane(d, x, y) == x \in d.xoff..(d.xoff + Sx - 1) /\ y \in d.yoff..(d.yoff + Sy - 1)
DrawBorders(d) ==
  LET Draw(x, y) == IF OfPane(d, x, y) THEN <<>> ELSE <<ToCursor(x, y), ToPutc("|")>>
  IN FlattenSeq([i \in 1..(d.sx * d.sy) |-> Draw((i - 1) % d.sx, (i - 1) \div d.sx)])

Open(d) == [d EXCEPT !.flags = @ \ {"BLOCK"}]
Blocked(d, was) == [d EXCEPT !.flags = was.flags]

\* server_client_check_redraw: put off while the client is busy. What is drawn
\* is sent even to a client that cannot keep up.
CheckRedraw(d, fs, busy) ==
  LET needed == fs # {} \/ redraw
      window == "WINDOW" \in fs
      pane == redraw \/ "PANES" \in fs \/ window
      all == (IF pane /\ ~window THEN DrawPane(d) ELSE <<>>) \o
             (IF fs \cap {"WINDOW", "BORDERS"} # {} THEN DrawBorders(d) ELSE <<>>) \o
             (IF window THEN DrawPane(d) ELSE <<>>)
  IN IF ~needed THEN [tty |-> d, flags |-> fs, drawn |-> FALSE]
     ELSE IF busy THEN [tty |-> d, drawn |-> FALSE,
                        flags |-> IF redraw /\ ~window THEN fs \cup {"PANES"} ELSE fs]
     ELSE [tty |-> Only({Blocked(Do(Open(d), every), d) : every \in {all}}),
           flags |-> {}, drawn |-> pane]

\* server_client_reset_state: the cursor of the terminal to that of the pane.
ResetState(d) ==
  Blocked(Do(Open(d), <<RegionOff(d), MarginOff(d), ToPane(d, screen.cx, screen.cy)>>), d)

(***************************************************************************)
(* What happens.                                                           *)
(***************************************************************************)
Init ==
  /\ instance \in Instances
  /\ steps = 0 /\ reading = FALSE /\ redraw = FALSE
  /\ screen = [lines |-> instance.lines, cx |-> 0, cy |-> 0, ru |-> 0, rl |-> Sy - 1,
               mode |-> {"WRAP"}, history |-> TRUE,
               saved |-> [lines |-> <<>>, cx |-> Unknown, cy |-> Unknown],
               list |-> NoItems, item |-> NewItem, scrolled |-> 0, bg |-> "",
               data |-> [i \in 1..Sy |-> Each(Sx, LAMBDA j : " ")], out |-> <<>>,
               astray |-> {}]
  /\ ttys = [i \in 1..Len(instance.ttys) |-> Invalidate(instance.ttys[i])]
  /\ flags = [i \in 1..Len(instance.ttys) |-> Redraws]

May(kind) == kind \in instance.kinds
Spend == steps < instance.most /\ steps' = steps + 1
Quiet(s) == [s EXCEPT !.out = <<>>, !.astray = {}]

\* input_parse_buffer: the start and the end of what one read has brought.
Start ==
  /\ ~reading /\ steps < instance.most /\ reading' = TRUE
  /\ screen' = [Quiet(screen) EXCEPT !.item = NewItem, !.scrolled = 0, !.bg = ""]
  /\ UNCHANGED <<ttys, flags, redraw, instance, steps>>
Stop ==
  /\ reading' = FALSE
  /\ \E q \in {Quiet(screen)} : \E s \in {CollectEnd(q)} : screen' = Flush(s, FALSE)
  /\ UNCHANGED steps

\* A change of colour ends the item. screen_write_collect_add: a character that
\* cannot be collected is written at once (screen_write_collect_add to
\* screen_write_cell), at the end of the line it goes to the next one.
Full(s) == s.cx > Sx - 1 \/ s.item.used > Sx - 1 - s.cx
Collect(s, cell) ==
  [s EXCEPT !.data[s.cy + 1][s.cx + s.item.used + 1] = cell,
            !.item.used = @ + 1, !.item.bg = BgOf(cell)]
InputPrint(cell) ==
  LET direct == Width(cell) > 1 \/ "WRAP" \notin screen.mode \/ "INSERT" \in screen.mode
      changes == screen.item.used > 0 /\ screen.item.bg # BgOf(cell)
  IN /\ Spend /\ UNCHANGED reading
     /\ \E q \in {Quiet(screen)} :
        \E e \in {IF direct \/ changes \/ Full(q) THEN CollectEnd(q) ELSE q} :
          IF direct THEN \E f \in {Flush(e, FALSE)} : screen' = Cell(f, cell)
          ELSE \E u \in {IF e.cx > Sx - 1
                           THEN Linefeed([e EXCEPT !.item.wrapped = TRUE], TRUE, "") ELSE e} :
                 screen' = Collect(IF e.cx > Sx - 1 THEN Move(u, 0, u.cy) ELSE u, cell)

\* input_parse: anything but printing ends the item first, so s is the screen
\* with the item ended.
Sequence(kind, u) == May(kind) /\ Spend /\ screen' = u /\ UNCHANGED reading
LineFeed(s, bg) == Sequence("text", Linefeed(s, FALSE, bg))
CarriageReturn(s) == Sequence("text", Move(s, 0, s.cy))
BackSpace(s) == Sequence("cursor", Backspace(s))
CursorTo(s, x, y) == Sequence("to", Move(s, x, y))
MoveUp(s, n) == Sequence("cursor", CursorUp(s, n))
MoveDown(s, n) == Sequence("cursor", CursorDown(s, n))
MoveRight(s, n) == Sequence("cursor", CursorRight(s, n))
MoveLeft(s, n) == Sequence("cursor", CursorLeft(s, n))
InsertCharacters(s, n, bg) == Sequence("characters", InsertCharacter(s, n, bg))
DeleteCharacters(s, n, bg) == Sequence("characters", DeleteCharacter(s, n, bg))
ClearCharacters(s, n, bg) == Sequence("characters", ClearCharacter(s, n, bg))
InsertNewLines(s, n, bg) == Sequence("lines", InsertLine(s, n, bg))
DeleteOldLines(s, n, bg) == Sequence("lines", DeleteLine(s, n, bg))
ClearToEndOfLine(s, bg) == Sequence("clear line", ClearEndOfLine(s, bg))
ClearToStartOfLine(s, bg) == Sequence("clear line", ClearStartOfLine(s, bg))
ClearWholeLine(s, bg) == Sequence("clear line", ClearLineAt(s, bg))
ClearToEndOfScreen(s, bg) == Sequence("clear screen", ClearEndOfScreen(s, bg))
ClearToStartOfScreen(s, bg) == Sequence("clear screen", ClearStartOfScreen(s, bg))
ClearWholeScreen(s, bg) == Sequence("clear screen", ClearScreen(s, bg))
ReverseLineFeed(s, bg) == Sequence("scroll", ReverseIndexAt(s, bg))
ScrollLinesUp(s, n, bg) == Sequence("scroll", ScrollUp(s, n, bg))
ScrollLinesDown(s, n, bg) == Sequence("scroll", ScrollDown(s, n, bg))
SetScrollRegion(s, upper, lower) == Sequence("region", ScrollRegion(s, upper, lower))
Align(s) == Sequence("align", AlignmentTest(s))
ResetAll(s) == Sequence("reset", Reset(s))
AlternateScreen(s) == Sequence("alternate", AlternateOn(s))
MainScreen(s) == Sequence("alternate", AlternateOff(s))
SetMode(s, mode) == Sequence(mode, [s EXCEPT !.mode = @ \cup {mode}])
ResetMode(s, mode) == Sequence(mode, [s EXCEPT !.mode = @ \ {mode}])

\* screen_write_start_sync, screen_write_stop_sync and the timer that ends what
\* the program does not: the pane is redrawn.
SyncOn(s) == Sequence("SYNC", [s EXCEPT !.mode = @ \cup {"SYNC"}])
SyncOff(s) == Sequence("SYNC", Redrawn([s EXCEPT !.mode = @ \ {"SYNC"}]))
SyncTimer ==
  /\ ~reading /\ "SYNC" \in screen.mode
  /\ screen' = [Quiet(screen) EXCEPT !.mode = @ \ {"SYNC"}] /\ redraw' = TRUE
  /\ UNCHANGED <<ttys, flags, reading, instance, steps>>

\* refresh-client and all that asks for a redraw of a whole client.
RedrawClient(i) ==
  /\ ~reading /\ May("clients") /\ Spend
  /\ flags' = [flags EXCEPT ![i] = Redraws]
  /\ UNCHANGED <<screen, ttys, redraw, reading, instance>>

\* tty_block_maybe: what waits to be written is dropped, so nobody knows what
\* the terminal shows. tty_timer_callback: it is set up again and redrawn.
CannotKeepUp(i) ==
  /\ ~reading /\ May("clients") /\ Spend /\ "BLOCK" \notin ttys[i].flags
  /\ ttys' = [ttys EXCEPT ![i].flags = @ \cup {"BLOCK"},
                          ![i].t = [@ EXCEPT !.rows = instance.ttys[i].t.rows,
                                             !.rl = @ - 1, !.cx = 0, !.cy = 0]]
  /\ UNCHANGED <<screen, flags, redraw, reading, instance>>
BlockTimer(i, more) ==
  /\ ~reading /\ "BLOCK" \in ttys[i].flags
  /\ flags' = [flags EXCEPT ![i] = Redraws]
  /\ ttys' = IF more THEN ttys
             ELSE [ttys EXCEPT ![i] = [Invalidate(Open(@)) EXCEPT !.astray = {}]]
  /\ UNCHANGED <<screen, redraw, reading, instance, steps>>

\* server_client_loop, with the clients that have not taken what they were sent.
\* Drawing the pane ends synchronized updates.
Loop(busy) ==
  /\ ~reading /\ busy \subseteq Clients
  /\ \E r \in {[i \in Clients |-> CheckRedraw(ttys[i], flags[i], i \in busy)]} :
       /\ ttys' = [i \in Clients |->
                    LET d == ResetState(r[i].tty)
                        behind == /\ "SYNC" \in screen.mode
                                  /\ \E j \in Clients : r[j].drawn
                    IN IF r[i].drawn THEN [d EXCEPT !.astray = @ \ {"pane"}]
                       ELSE Astray(d, "pane", behind)]
       /\ flags' = [i \in Clients |-> r[i].flags]
       /\ screen' = IF \E i \in Clients : r[i].drawn
                      THEN [Quiet(screen) EXCEPT !.mode = @ \ {"SYNC"}]
                      ELSE Quiet(screen)
  /\ redraw' = FALSE
  /\ UNCHANGED <<reading, instance, steps>>

Sequences(s) ==
  \/ CarriageReturn(s) \/ BackSpace(s)
  \/ \E at \in instance.places : CursorTo(s, at[1], at[2])
  \/ \E n \in 1..2 : MoveUp(s, n) \/ MoveDown(s, n) \/ MoveRight(s, n) \/ MoveLeft(s, n)
  \/ \E bg \in instance.colours :
       \/ LineFeed(s, bg) \/ ReverseLineFeed(s, bg)
       \/ ClearToEndOfLine(s, bg) \/ ClearToStartOfLine(s, bg) \/ ClearWholeLine(s, bg)
       \/ ClearToEndOfScreen(s, bg) \/ ClearToStartOfScreen(s, bg) \/ ClearWholeScreen(s, bg)
       \/ \E n \in 1..2 :
            \/ InsertCharacters(s, n, bg) \/ DeleteCharacters(s, n, bg)
            \/ ClearCharacters(s, n, bg)
            \/ InsertNewLines(s, n, bg) \/ DeleteOldLines(s, n, bg)
            \/ ScrollLinesUp(s, n, bg) \/ ScrollLinesDown(s, n, bg)
  \/ \E upper, lower \in 0..(Sy - 1) : SetScrollRegion(s, upper, lower)
  \/ Align(s) \/ ResetAll(s) \/ AlternateScreen(s) \/ MainScreen(s)
  \/ \E mode \in {"INSERT", "WRAP"} : SetMode(s, mode) \/ ResetMode(s, mode)
  \/ SyncOn(s) \/ SyncOff(s)

Reads ==
  /\ reading /\ UNCHANGED instance
  /\ \/ \E cell \in instance.cells : InputPrint(cell)
     \/ \E q \in {Quiet(screen)} : \E s \in {CollectEnd(q)} : Sequences(s)
     \/ Stop
  /\ Deliver

Next ==
  \/ Start \/ Reads \/ SyncTimer
  \/ \E i \in Clients : RedrawClient(i) \/ CannotKeepUp(i)
                         \/ \E more \in BOOLEAN : BlockTimer(i, more)
  \/ \E busy \in SUBSET Clients : Loop(busy)

Spec == Init /\ [][Next]_vars

(***************************************************************************)
(* What should be true.                                                    *)
(***************************************************************************)
\* Types; and what waits for a line is in order and does not overlap, as
\* screen_write_collect_flush_scrolled and the flush take it to be.
TypeOK ==
  /\ screen.cx \in 0..Sx /\ screen.cy \in 0..(Sy - 1)
  /\ screen.ru \in 0..(Sy - 1) /\ screen.rl \in (screen.ru + 1)..(Sy - 1)
  /\ \A y \in 1..Sy : Len(screen.lines[y].cells) <= Sx /\ Len(screen.data[y]) = Sx
  /\ \A y \in 1..Sy : \A i \in 1..Len(screen.list[y]) :
       LET ci == screen.list[y][i]
       IN /\ ci.used > 0 /\ ci.x + ci.used <= Sx
          /\ i > 1 => LET before == screen.list[y][i - 1]
                      IN before.x + before.used <= ci.x
  /\ redraw \in BOOLEAN /\ reading \in BOOLEAN
  /\ \A i \in Clients : flags[i] \subseteq Redraws /\ ~ttys[i].again

Follows(i) == "BLOCK" \notin ttys[i].flags /\ "terminal" \notin ttys[i].astray
Displayed(line, x) ==
  IF CellAt(line, x) = "W" /\ x = Sx - 1 THEN " " ELSE CellAt(line, x)

\* When nothing is left to draw, every terminal shows the screen: what the put
\* off items, the scrolled lines, the direct commands and the redraws have sent to
\* it comes to the same as what the sequences did to the grid, in whatever order
\* they came, and clients that were busy or blocked have caught up.
Shown ==
  ~reading /\ ~redraw /\ "SYNC" \notin screen.mode =>
    \A i \in Clients : Follows(i) /\ flags[i] = {} /\ ttys[i].astray = {} =>
      \A x \in 0..(Sx - 1), y \in 0..(Sy - 1) :
        ttys[i].t.rows[ttys[i].yoff + y + 1][ttys[i].xoff + x + 1]
          = Displayed(screen.lines[y + 1], x)

\* No command for the pane reaches beyond it on a terminal: the borders, other panes
\* and the status line stay, whatever is scrolled, cleared or wrapped (the region
\* and the margins are set and left again around it, tty_region_pane,
\* tty_margin_pane, tty_region_off, tty_margin_off).
BordersKept ==
  \A i \in Clients : Follows(i) /\ "WINDOW" \notin flags[i] =>
    \A x \in 0..(ttys[i].sx - 1), y \in 0..(ttys[i].sy - 1) :
      OfPane(ttys[i], x, y) \/ ttys[i].t.rows[y + 1][x + 1] = "|"

\* What tmux believes of a terminal is so: cursor (tty_cursor sends the shortest
\* move from there, tty_putn works out where the characters leave it), region and
\* margins (which are not sent again when they have not changed).
TtyKnowsTerminal ==
  \A i \in Clients : Follows(i) =>
    LET d == ttys[i]
        t == d.t
    IN /\ d.cx # Unknown => d.cy = t.cy /\ d.cx = t.cx + (IF t.wrap THEN 1 ELSE 0)
       /\ d.ru # Unknown => d.ru = t.ru /\ d.rl = t.rl
       /\ d.ml # Unknown => ~Has(d, "margins") \/ (d.ml = t.ml /\ d.mr = t.mr)

\* A wide character in the grid has both its columns, whatever is printed over it
\* (screen_write_collect_end, screen_write_overwrite). Sequences that clear or move
\* half of one are not among the instances with wide characters: they split it.
WideWhole ==
  \A y \in 1..Sy : LET cells == screen.lines[y].cells IN
    \A i \in 1..Len(cells) :
      /\ cells[i] = "W" => i < Len(cells) /\ cells[i + 1] = "P"
      /\ cells[i] = "P" => i > 1 /\ cells[i - 1] = "W"

\* What is put off and what is in the grid are well formed.
ScreenSound == TypeOK /\ WideWhole
=============================================================================
