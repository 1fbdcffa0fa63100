------------------------------- MODULE CopyMode -------------------------------
(***************************************************************************)
(* Copy mode (window-copy.c): a cursor and a selection over a copy of the  *)
(* lines of a pane.  All its data is one record d, named as in struct      *)
(* window_copy_mode_data; d.g is the grid of the backing screen, which     *)
(* always has the size of the screen on show.  Positions of the selection, *)
(* of the mark and of a drag count lines from the first of the history;    *)
(* cx and cy are on the screen, and oy lines of the history are below its  *)
(* top line.                                                               *)
(*                                                                         *)
(* Left out: drawing, line numbers, colours, the formats, and a prefix     *)
(* that only repeats a movement, which is the movement made again.  The    *)
(* commands that copy and pipe, copy and cancel and so on differ in what   *)
(* they do with the text, which is left out too.                           *)
(***************************************************************************)
EXTENDS GridReader
LOCAL INSTANCE FiniteSetsExt
LOCAL INSTANCE FiniteSets

CONSTANTS Separators,     \* cells in the option word-separators
          Char,           \* the character of the commands that jump to one
          Output,         \* lines of output
          Sizes,          \* sizes the pane may be given
          Instances       \* screens with the commands used on them and how many

VARIABLES d,              \* the mode
          pane,           \* the screen of the pane: its grid and cursor
          use,            \* the instance
          commands        \* commands so far

vars == <<d, pane, use, commands>>

NoSelection == [present |-> FALSE]

-----------------------------------------------------------------------------
(* Positions.                                                              *)

H(e) == HSize(e.g)
Top(e) == H(e) - e.oy
CursorLine(e) == Top(e) + e.cy
CursorAt(e) == At(e.cx, CursorLine(e))
\* grid_line_length; a line that is not in the grid is an empty one.
FindLength(e, y) == IF y \in 0..LastLine(e.g) THEN LineLength(e.g, y) ELSE 0

CursorLimit(e, y, allow_onemore) ==
  IF allow_onemore \/ ~e.vi THEN FindLength(e, y) ELSE Max({FindLength(e, y) - 1, 0})

Rectangle(e) == e.sel.present /\ e.rectflag

\* window_copy_update_cursor: only a line of the screen limits the column.
UpdateCursor(e, cx, cy) ==
  [e EXCEPT !.cy = cy,
            !.cx = IF cy < e.g.sy THEN Min({cx, CursorLimit(e, Top(e) + cy, Rectangle(e))}) ELSE cx]

-----------------------------------------------------------------------------
(* The words around the cursor.                                            *)

\* Under vi the end of a word is its last cell, otherwise the cell after it.
WordEndFrom(e) ==
  IF e.vi THEN ReaderRight(e.g, CursorAt(e), FALSE, FALSE, FALSE) ELSE CursorAt(e)
OnLastCell(e, p) == IF e.vi THEN ReaderLeft(e.g, p, TRUE) ELSE p
NextWordEndPos(e, separators) ==
  OnLastCell(e, ReaderNextWordEnd(e.g, IF Kind(e.g, separators, CursorAt(e)) = "white" THEN CursorAt(e)
                                       ELSE WordEndFrom(e), separators))

PreviousWordPos(e, separators) == ReaderPreviousWord(e.g, CursorAt(e), separators, FALSE, TRUE)

-----------------------------------------------------------------------------
(* The selection follows the cursor with one of its ends.  Words and lines *)
(* grow to whole ones, away from the place where the drag began.           *)

WithStart(e, p) == [e EXCEPT !.selx = p.x, !.sely = p.y]
WithEnd(e, p) == [e EXCEPT !.endselx = p.x, !.endsely = p.y]
StartReset(e) == [e EXCEPT !.selx = e.selrx, !.sely = e.selry]
EndReset(e) == [e EXCEPT !.endselx = e.endselrx, !.endsely = e.endselry]

SyncWord(e) ==
  LET p == CursorAt(e)
      grows == p.x >= FindLength(e, p.y) \/ Cell(e.g, p.x + 1, p.y) \notin WhiteSpace
  IN  IF e.dy > p.y \/ (e.dy = p.y /\ e.dx > p.x)
      THEN WithStart(EndReset(e), PreviousWordPos(e, e.separators))
      ELSE WithEnd(StartReset(e), IF grows THEN NextWordEndPos(e, e.separators) ELSE p)

\* A mutant: the end follows the cursor into a line that is wrapped.
SyncLineShort(e) ==
  LET y == CursorLine(e)
  IN  IF e.dy > y THEN WithStart(EndReset(e), At(0, y))
      ELSE WithEnd(StartReset(e), At(FindLength(e, y), y))

SyncLine(e) ==
  LET y == CursorLine(e)
      last == Max({y, e.endselry})
  IN  IF e.dy > y THEN WithStart(EndReset(e), At(0, y))
      ELSE WithEnd(StartReset(e), At(FindLength(e, last), last))

SynchronizeCursor(e, no_reset) ==
  IF e.cursordrag = "none" THEN e
  ELSE IF e.selflag = "word" /\ ~no_reset THEN SyncWord(e)
  ELSE IF e.selflag = "line" /\ ~no_reset THEN SyncLine(e)
  ELSE IF e.cursordrag = "sel" THEN WithStart(e, CursorAt(e))
  ELSE WithEnd(e, CursorAt(e))

\* Where an end of the selection is on the screen, or its edge.
RelPos(e, y) == IF y < Top(e) THEN "above" ELSE IF y > Top(e) + e.g.sy - 1 THEN "below" ELSE "on screen"
\* A mutant: the column of an end that is off the screen is kept.
AdjustSelectionLine(e, x, y) == At(x, Max({0, Min({y - Top(e), e.g.sy - 1})}))

AdjustSelection(e, x, y) ==
  CASE RelPos(e, y) = "above" -> At(IF e.rectflag THEN x ELSE 0, 0)
    [] RelPos(e, y) = "below" -> At(IF e.rectflag THEN x ELSE e.g.sx - 1, e.g.sy - 1)
    [] OTHER -> At(x, y - Top(e))

\* What is highlighted (screen_set_selection), between two positions of the
\* screen; hidden when both ends are off the screen on the same side.
Marked(e, s, t) ==
  [present |-> TRUE, hidden |-> FALSE, rectangle |-> e.rectflag, sx |-> s.x, sy |-> s.y, ex |-> t.x, ey |-> t.y]
OffScreen(e) == RelPos(e, e.sely) = RelPos(e, e.endsely) /\ RelPos(e, e.sely) # "on screen"
Highlight(e) ==
  IF OffScreen(e)
  THEN [e EXCEPT !.sel = IF @.present THEN [@ EXCEPT !.hidden = TRUE] ELSE @]
  ELSE [e EXCEPT !.sel = Marked(e, AdjustSelection(e, e.selx, e.sely), AdjustSelection(e, e.endselx, e.endsely))]

SetSelection(e, no_reset) == Highlight(SynchronizeCursor(e, no_reset))

UpdateSelectionNoReset(e, no_reset) ==
  IF ~e.sel.present /\ e.lineflag = "none" THEN e ELSE SetSelection(e, no_reset)
UpdateSelection(e) == UpdateSelectionNoReset(e, FALSE)

StartSelection(e) ==
  SetSelection([WithEnd(WithStart(e, CursorAt(e)), CursorAt(e)) EXCEPT !.cursordrag = "endsel"], FALSE)

LimitedCursor(e) ==
  LET limit == CursorLimit(e, CursorLine(e), e.rectflag)
  IN  IF e.cx > limit THEN UpdateCursor(e, limit, e.cy) ELSE e

ClearSelection(e) ==
  LimitedCursor([e EXCEPT !.sel = NoSelection, !.cursordrag = "none", !.lineflag = "none", !.selflag = "char"])

\* Exchange the end that moves; the screen follows it when it is off it.
Turned(e, to) ==
  [e EXCEPT !.cx = to.x, !.cursordrag = IF @ = "endsel" THEN "sel" ELSE "endsel",
            !.lineflag = CASE @ = "left right" -> "right left" [] @ = "right left" -> "left right" [] OTHER -> @]
Follow(e, y) ==
  IF y < Top(e) THEN [e EXCEPT !.oy = H(e) - y, !.cy = 0]
  ELSE IF y > Top(e) + e.g.sy THEN [e EXCEPT !.oy = H(e) - y + e.g.sy - 1, !.cy = e.g.sy - 1]
  ELSE [e EXCEPT !.cy = y - Top(e)]
KeepInLine(e) == [e EXCEPT !.cx = Min({@, CursorLimit(e, CursorLine(e), e.rectflag)})]
OtherEnd(e) ==
  LET to == IF e.cursordrag = "endsel" THEN At(e.selx, e.sely) ELSE At(e.endselx, e.endsely)
  IN  IF ~e.sel.present /\ e.lineflag = "none" THEN e
      ELSE UpdateSelectionNoReset(KeepInLine(Follow(Turned(e, to), to.y)), TRUE)

-----------------------------------------------------------------------------
(* Up (dy = -1) and down (dy = 1).  Outside a rectangle the column of the  *)
(* last line that had room for it comes back; line selections keep whole   *)
(* lines.  At an end of the history nothing scrolls and the selection is   *)
(* left as it is.                                                          *)

ScrolledUp(e, ny) == [e EXCEPT !.oy = @ - Min({@, ny})]
ScrolledDown(e, ny) == IF ny > H(e) THEN e ELSE [e EXCEPT !.oy = Min({@ + ny, H(e)})]
Scrolled(e, dy) == IF dy = 1 THEN ScrolledUp(e, 1) ELSE ScrolledDown(e, 1)

KeepLast(e) ==
  LET length == FindLength(e, CursorLine(e))
  IN  IF ~Rectangle(e) /\ e.cx # length THEN [e EXCEPT !.lastcx = e.cx, !.lastsx = length] ELSE e

\* At the end of its line if it was there before, or past it.
PastLength(e) ==
  LET length == FindLength(e, CursorLine(e))
  IN  (e.cx >= e.lastsx /\ e.cx # length) \/ e.cx > length

\* A line selection that the cursor is about to leave at its other end turns.
TurnedAtEnd(e, dy) ==
  IF \/ dy = -1 /\ e.lineflag = "left right" /\ CursorLine(e) = e.sely
     \/ dy = 1 /\ e.lineflag = "right left" /\ CursorLine(e) = e.endsely
  THEN OtherEnd(e) ELSE e

AtColumn(e) == IF Rectangle(e) THEN e ELSE [e EXCEPT !.cx = e.lastcx]
Step(e, scrolls, dy) ==
  IF scrolls /\ Scrolled(e, dy) = e THEN AtColumn(e)
  ELSE UpdateSelection(IF scrolls THEN AtColumn(Scrolled(e, dy)) ELSE UpdateCursor(e, AtColumn(e).cx, e.cy + dy))

EndColumn(e) ==
  CASE e.lineflag = "right left" -> 0
    [] e.lineflag = "left right" /\ e.rectflag -> e.g.sx
    [] OTHER -> FindLength(e, CursorLine(e))
EndOfStep(e) ==
  IF e.lineflag # "none" \/ (~Rectangle(e) /\ PastLength(e))
  THEN UpdateSelection(UpdateCursor(e, EndColumn(e), e.cy)) ELSE e

AtEdge(e, dy) == e.cy = IF dy = 1 THEN e.g.sy - 1 ELSE 0
StepOrScroll(e, scroll_only, dy) == Step(e, scroll_only \/ AtEdge(e, dy), dy)
MoveVertically(e, scroll_only, dy) ==
  EndOfStep(StepOrScroll(TurnedAtEnd(KeepLast(e), dy), scroll_only, dy))
CursorUp(e, scroll_only) == MoveVertically(e, scroll_only, -1)
CursorDown(e, scroll_only) == MoveVertically(e, scroll_only, 1)

\* Scroll until the line is on the screen and put the cursor there.
AcquireCursorUp(e, p) ==
  LET n == Max({Top(e) - p.y, 0})
      scrolled[i \in 0..n] == IF i = 0 THEN e ELSE CursorUp(scrolled[i - 1], TRUE)
  IN  UpdateSelection(UpdateCursor(scrolled[n], p.x, Max({p.y - Top(e), 0})))

AcquireCursorDown(e, p, no_reset) ==
  LET cy == p.y - Top(e)
      n == Max({cy - (e.g.sy - 1), 0})
      scrolled[i \in 0..n] == IF i = 0 THEN e ELSE CursorDown(scrolled[i - 1], TRUE)
  IN  UpdateSelectionNoReset(UpdateCursor(scrolled[n], p.x, Min({cy, e.g.sy - 1})), no_reset)

CursorEndOfLine(e) ==
  LET p == ReaderEndOfLine(e.g, CursorAt(e), TRUE, Rectangle(e))
  IN  AcquireCursorDown(e, IF Rectangle(e) THEN p ELSE At(CursorLimit(e, p.y, FALSE), p.y), FALSE)

\* The end of the line when the column kept is past it.
EndOfLineIfPast(e) == IF ~Rectangle(e) /\ PastLength(e) THEN CursorEndOfLine(e) ELSE e

-----------------------------------------------------------------------------
(* Pages, and the slider of the scroll bar.  The column kept comes back    *)
(* here in a rectangle too.                                                *)

Kept(e) ==
  LET length == FindLength(e, CursorLine(e))
  IN  IF e.cx # length THEN [e EXCEPT !.lastcx = e.cx, !.lastsx = length] ELSE [e EXCEPT !.cx = e.lastcx]

Page(e, half_page) == IF e.g.sy <= 2 THEN 1 ELSE IF half_page THEN e.g.sy \div 2 ELSE e.g.sy - 2

\* A mutant: the view goes above the history.
ViewUpTooFar(e, n) == [e EXCEPT !.oy = @ + n]

ViewUp(e, n) ==
  IF e.oy + n > H(e) THEN [e EXCEPT !.oy = H(e), !.cy = Max({@ - n, 0})] ELSE [e EXCEPT !.oy = @ + n]
ViewDown(e, n) ==
  IF e.oy < n THEN [e EXCEPT !.oy = 0, !.cy = Min({@ + n, e.g.sy - 1})] ELSE [e EXCEPT !.oy = @ - n]

PageUp(e, half_page) == ViewUp(Kept(e), Page(e, half_page))
PageDown(e, half_page) == ViewDown(Kept(e), Page(e, half_page))

\* The slider is dragged to show the lines from new_offset (window_copy_scroll1).
ScrollTo1(e, new_offset) ==
  LET delta == Top(e) - new_offset
  IN  [IF delta >= 0 THEN ViewUp(Kept(e), delta) ELSE ViewDown(Kept(e), -delta) EXCEPT !.cursordrag = "none"]

\* With an exit at the end of the history the mode is left.
Exit(e) == [e EXCEPT !.ended = TRUE]
UpdateOrExit(e, scroll_exit) == IF scroll_exit /\ e.oy = 0 THEN Exit(e) ELSE UpdateSelection(e)
View(moved, scroll_exit) == UpdateOrExit(EndOfLineIfPast(moved), scroll_exit)

\* window_copy_scroll_to: show line p.y, a quarter of the screen from the bottom.
ScrollTo(e, p) ==
  LET gap == e.g.sy \div 4
      at(offset) == [e EXCEPT !.cx = p.x, !.cy = p.y - offset, !.oy = H(e) - offset]
  IN  UpdateSelection(IF p.y \in Top(e)..(Top(e) + e.g.sy - 1) THEN at(Top(e))
                      ELSE IF p.y < e.g.sy THEN at(0)
                      ELSE IF p.y > H(e) + e.g.sy - gap THEN at(H(e))
                      ELSE at(p.y + gap - e.g.sy))

PreviousParagraph(e) ==
  LET blank(y) == FindLength(e, y) = 0
      from == Max({0} \cup {y \in 0..CursorLine(e) : ~blank(y)})
  IN  At(0, Max({0} \cup {y \in 0..from : blank(y)}))

NextParagraph(e) ==
  LET blank(y) == FindLength(e, y) = 0
      last == LastLine(e.g)
      from == Min({last} \cup {y \in CursorLine(e)..last : ~blank(y)})
      to == Min({last} \cup {y \in from..last : blank(y)})
  IN  At(FindLength(e, to), to)

-----------------------------------------------------------------------------
(* Where the commands that move with the reader go.  Those that go back    *)
(* acquire their position upwards, the others downwards.  A jump may find  *)
(* nothing.                                                                *)

CursorLeft(e) == ReaderLeft(e.g, CursorAt(e), TRUE)
BackToIndentation(e) == ReaderBackToIndentation(e.g, CursorAt(e))
StartOfLine(e) == ReaderStartOfLine(e.g, CursorAt(e), TRUE)
PreviousWord(e, separators, already) == ReaderPreviousWord(e.g, CursorAt(e), separators, already, ~e.vi)
JumpBack(e) == ReaderJumpBack(e.g, ReaderLeft(e.g, CursorAt(e), FALSE), Char)
JumpToBack(e) ==
  {ReaderRight(e.g, p, TRUE, FALSE, ~e.vi) :
     p \in ReaderJumpBack(e.g, ReaderLeft(e.g, ReaderLeft(e.g, CursorAt(e), FALSE), FALSE), Char)}

CursorRight(e) == ReaderRight(e.g, CursorAt(e), TRUE, Rectangle(e), ~e.vi)
NextWord(e, separators) == ReaderNextWord(e.g, CursorAt(e), separators)
Jump(e) == ReaderJump(e.g, At(e.cx + 1, CursorLine(e)), Char)
JumpTo(e) == {ReaderLeft(e.g, p, TRUE) : p \in ReaderJump(e.g, At(e.cx + 2, CursorLine(e)), Char)}

Upwards(e) ==
  {StartOfLine(e), CursorLeft(e), BackToIndentation(e)} \cup JumpBack(e) \cup JumpToBack(e)
  \cup {PreviousWord(e, separators, TRUE) : separators \in {Separators, {}}}
Downwards(e) ==
  {CursorRight(e)} \cup Jump(e) \cup JumpTo(e)
  \cup UNION {{NextWord(e, separators), NextWordEndPos(e, separators)} : separators \in {Separators, {}}}

CursorStartOfLine(e) == AcquireCursorUp(e, StartOfLine(e))

-----------------------------------------------------------------------------
(* Commands that place the cursor on the screen.                           *)

Placed(e, cx, cy) == [e EXCEPT !.cx = cx, !.cy = cy]
TopLine(e) == Placed(e, 0, 0)
MiddleLine(e) == Placed(e, 0, (e.g.sy - 1) \div 2)
BottomLine(e) == Placed(e, 0, e.g.sy - 1)
CentreVertical(e) == UpdateCursor(e, e.cx, e.g.sy \div 2)
CentreHorizontal(e) == UpdateCursor(e, e.g.sx \div 2, e.cy)
GotoLine(e, lineno) == [e EXCEPT !.oy = Min({lineno, H(e)})]

HistoryTop(e) == [e EXCEPT !.cx = 0, !.cy = 0, !.oy = H(e)]
HistoryBottom(e) == [e EXCEPT !.cx = CursorLimit(e, LastLine(e.g), FALSE), !.cy = e.g.sy - 1, !.oy = 0]

\* window_copy_cmd_scroll_to: the line with the cursor goes to line to of the screen.
ScrollLineTo(e, to) ==
  LET delta == e.cy - to
  IN  IF delta > 0 /\ e.oy >= delta THEN [ScrolledUp(e, delta) EXCEPT !.cy = @ - delta]
      ELSE IF delta < 0 /\ Top(e) >= -delta THEN [ScrolledDown(e, -delta) EXCEPT !.cy = @ - delta]
      ELSE e

\* The cursor goes to the middle, the top and the bottom in turn.
RecentreState(e) == IF e.recentre_line # CursorLine(e) THEN "middle" ELSE e.recentre_state
Recentre(e) ==
  LET sy == e.g.sy - 1
      sm == sy \div 2
      state == RecentreState(e)
      to == CASE state = "middle" -> sm [] state = "top" -> 0 [] OTHER -> sy
      oy == IF e.cy < to THEN ScrolledDown(e, to - e.cy).oy ELSE ScrolledUp(e, e.cy - to).oy
      next == CASE state = "middle" -> "top" [] state = "top" -> "bottom" [] OTHER -> "middle"
  IN  [e EXCEPT !.oy = oy, !.cy = @ + oy - e.oy, !.recentre_state = next, !.recentre_line = CursorLine(e)]

\* The mode is left when the cursor cannot go further down.
CursorDownAndCancel(e, down) == IF down.cy = e.cy /\ down.oy = 0 THEN Exit(down) ELSE down

SetMark(e) == [e EXCEPT !.mx = e.cx, !.my = CursorLine(e)]
JumpToMark(e) ==
  [e EXCEPT !.cx = e.mx, !.cy = Max({e.my - H(e), 0}), !.oy = Max({H(e) - e.my, 0}),
            !.mx = e.cx, !.my = CursorLine(e)]

-----------------------------------------------------------------------------
(* Selecting and copying.                                                  *)

BeginSelection(e) == StartSelection([e EXCEPT !.lineflag = "none", !.selflag = "char"])
StopSelection(e) == [e EXCEPT !.cursordrag = "none", !.lineflag = "none", !.selflag = "char"]

Choosing(e, flag) ==
  [e EXCEPT !.lineflag = "left right", !.rectflag = FALSE, !.selflag = flag, !.dx = e.cx, !.dy = CursorLine(e)]

AnchoredLine(e) == [e EXCEPT !.selrx = e.cx, !.selry = CursorLine(e), !.endselry = CursorLine(e)]
ToEndOfLine(e) == CursorEndOfLine(StartSelection(e))
WholeLine(e) == [e EXCEPT !.endselry = CursorLine(e), !.endselrx = FindLength(e, CursorLine(e))]
FurtherLines(e, n) == IF n > 1 THEN CursorEndOfLine(CursorDown(e, FALSE)) ELSE e
SelectLine(e, n) ==
  FurtherLines(WholeLine(ToEndOfLine(AnchoredLine(CursorStartOfLine(Choosing(e, "line"))))), n)

\* A word of one cell ends where it begins.
OneCell(e, p) ==
  LET next == IF IsWrapped(e.g, p.y) /\ p.x + 1 > e.g.sx - 1 THEN At(0, p.y + 1) ELSE At(p.x + 1, p.y)
  IN  p.x < FindLength(e, p.y) /\ (next.y > LastLine(e.g) \/ Cell(e.g, next.x, next.y) \in WhiteSpace)
AnchoredWord(e) == [e EXCEPT !.selrx = e.cx, !.selry = CursorLine(e)]
ToEndOfWord(e) ==
  IF OneCell(e, CursorAt(e)) THEN UpdateSelectionNoReset(UpdateCursor(e, e.cx, e.cy), TRUE)
  ELSE AcquireCursorDown(e, NextWordEndPos(e, Separators), TRUE)

\* The drag begins within the word.
WholeWord(e) ==
  LET q == CursorAt(e)
      within == IF e.dy > q.y THEN q ELSE At(Min({e.dx, q.x}), e.dy)
  IN  [e EXCEPT !.endselrx = q.x, !.endselry = q.y, !.dx = within.x, !.dy = within.y]
FromWordStart(e) == AcquireCursorUp(e, PreviousWord(e, Separators, FALSE))
SelectWord(e) ==
  WholeWord(ToEndOfWord(StartSelection(AnchoredWord(FromWordStart(
    [Choosing(e, "word") EXCEPT !.separators = Separators])))))

RectangleSet(e, rectflag) == LimitedCursor([e EXCEPT !.lineflag = "none", !.rectflag = rectflag])

SelectionMode(e, flag) ==
  [e EXCEPT !.selflag = flag, !.separators = IF flag = "word" THEN Separators ELSE @]

OtherEndCommand(e) == OtherEnd([e EXCEPT !.selflag = "char"])

\* What window_copy_get_selection takes from line y, between two columns: to the
\* end of the line without blanks, or with them when the line is wrapped.
CopyLine(e, y, from, to) ==
  LET length == IF IsWrapped(e.g, y) /\ Len(Text(e.g, y)) <= e.g.sx THEN Len(Text(e.g, y)) ELSE FindLength(e, y)
  IN  {p \in [x : from..(Min({to, length}) - 1), y : {y}] : Cell(e.g, p.x, y) # "P"}

GetSelection(e) ==
  LET start == At(e.selx, e.sely)
      end == At(e.endselx, e.endsely)
      s == IF Before(end, start) THEN end ELSE start
      t == IF Before(end, start) THEN start ELSE end
      ex == Min({t.x, FindLength(e, t.y)})
      selx == IF e.cursordrag = "endsel" THEN e.selx ELSE e.endselx
      firstsx == IF ~e.rectflag THEN s.x ELSE Min({selx, e.cx})
      restsx == IF e.rectflag THEN firstsx ELSE 0
      lastex == IF e.rectflag THEN IF selx < e.cx THEN (IF e.vi THEN e.cx + 1 ELSE e.cx) ELSE selx + 1
                ELSE IF e.vi THEN ex + 1 ELSE ex
      restex == IF e.rectflag THEN lastex ELSE e.g.sx
  IN  UNION {CopyLine(e, y, IF y = s.y THEN firstsx ELSE restsx, IF y = t.y THEN lastex ELSE restex) : y \in s.y..t.y}

\* Copy a line, or the rest of one, and with a prefix n - 1 more, and come back.
Restored(e, old) == [e EXCEPT !.cx = old.cx, !.cy = old.cy, !.oy = old.oy]
CopiedLines(e, n) == CursorEndOfLine(IF n > 1 THEN CursorDown(StartSelection(e), FALSE) ELSE StartSelection(e))
CopyLines(e, from, n) == Restored(ClearSelection(CopiedLines(from, n)), e)
CopyWholeLine(e) == CursorStartOfLine([e EXCEPT !.selflag = "char"])

-----------------------------------------------------------------------------
(* The mouse.  A drag near the top or bottom line scrolls, again and again *)
(* with a timer until the button is released.                              *)

ScrollEdge(e, y) ==
  IF y \in {0, e.g.sy - 1} THEN MoveVertically(e, TRUE, IF y = 0 THEN -1 ELSE 1) ELSE e
DragMoved(e, moved, y) ==
  IF (e.cy = moved.cy /\ e.cx # moved.cx) \/ y \notin {0, e.g.sy - 1} THEN moved
  ELSE ScrollEdge([moved EXCEPT !.timer = TRUE], y)
DragUpdate(e, x, y) ==
  DragMoved(e, UpdateSelection(UpdateCursor([e EXCEPT !.timer = FALSE], x, y)), y)

\* A drag that begins outside the word or line chosen before selects characters.
DragFlag(e, x, y) ==
  IF x < e.selrx \/ x > e.endselrx \/ Top(e) + y # e.selry THEN "char" ELSE e.selflag
DragBegun(e, there, x, y) ==
  CASE e.selflag = "word" -> LET word == PreviousWordPos(there, e.separators)
                             IN  UpdateCursor(there, word.x, word.y - Top(e))
    [] e.selflag = "line" -> UpdateCursor(e, 0, y)
    [] OTHER -> StartSelection(there)
DragIn(e, x, y) == DragBegun(e, UpdateCursor(e, x, y), x, y)
StartDrag(e, x, y) == DragIn([e EXCEPT !.selflag = DragFlag(e, x, y)], x, y)

ScrollTimer(e) == IF e.cy \in {0, e.g.sy - 1} THEN ScrollEdge(e, e.cy) ELSE [e EXCEPT !.timer = FALSE]

DragRelease(e) == [e EXCEPT !.timer = FALSE]

-----------------------------------------------------------------------------
(* Matching brackets, from the cell under the cursor.                      *)

\* The cells that close what is open, in an order of walking.
Matching(g, cells, nearer(_, _), found, other) ==
  LET count(q, c) == Cardinality({r \in cells : Cell(g, r.x, r.y) = c /\ (r = q \/ nearer(r, q))})
  IN  {q \in cells : Cell(g, q.x, q.y) = other /\ count(q, other) = count(q, found) + 1}

Cells(g, from, to) == UNION {[x : 0..(LineLength(g, y) - 1), y : {y}] : y \in from..to}

\* Where the bracket that opens what is closed at the cursor, or before it, is.
ClosingAt(e) ==
  {x \in {e.cx} \cup (IF e.vi \/ e.cx = 0 THEN {} ELSE {e.cx - 1}) : Cell(e.g, x, CursorLine(e)) = ")"}
OpeningOf(e, p) ==
  Matching(e.g, {q \in Cells(e.g, 0, p.y) : Before(q, p)}, LAMBDA r, q : Before(q, r), ")", "(")
PreviousBracket(e) ==
  IF FindLength(e, CursorLine(e)) = 0 \/ ClosingAt(e) = {} THEN {}
  ELSE {Last(S) : S \in {OpeningOf(e, At(Max(ClosingAt(e)), CursorLine(e)))} \ {{}}}
ToPreviousBracket(e) ==
  IF FindLength(e, CursorLine(e)) # 0 /\ ~e.vi /\ ClosingAt(e) = {}
  THEN AcquireCursorUp(e, ReaderPreviousWord(e.g, CursorAt(e), {")"}, TRUE, TRUE))
  ELSE IF PreviousBracket(e) = {} THEN e ELSE ScrollTo(e, First(PreviousBracket(e)))

\* Under vi a closing bracket takes the cursor back, and an opening one is
\* looked for up to the end of the line.
BracketsAt(e) ==
  LET line == CursorLine(e)
      end == Min({l \in line..LastLine(e.g) : l = LastLine(e.g) \/ ~IsWrapped(e.g, l)})
      tries == IF e.vi THEN {q \in Cells(e.g, line, end) : ~Before(q, CursorAt(e))}
               ELSE {At(x, line) : x \in {e.cx} \cup (IF e.cx <= FindLength(e, line) THEN {e.cx + 1} ELSE {})}
  IN  {q \in tries : Cell(e.g, q.x, q.y) \in (IF e.vi THEN {"(", ")"} ELSE {"("})}
ClosingOf(e, p) ==
  Matching(e.g, {q \in Cells(e.g, p.y, LastLine(e.g)) : Before(p, q)}, Before, "(", ")")
BackFromClosing(e, there) == ScrollTo(there, FirstOr(PreviousBracket(there), CursorAt(e)))
NextBracketFrom(e, p) ==
  IF Cell(e.g, p.x, p.y) = ")" THEN BackFromClosing(e, ScrollTo(e, p))
  ELSE IF ClosingOf(e, p) = {} THEN e ELSE ScrollTo(e, First(ClosingOf(e, p)))
ToNextBracket(e) ==
  IF FindLength(e, CursorLine(e)) = 0 THEN e
  ELSE IF BracketsAt(e) # {} THEN NextBracketFrom(e, First(BracketsAt(e)))
  ELSE IF e.vi THEN e ELSE AcquireCursorDown(e, NextWordEndPos(e, {"("}), FALSE)

-----------------------------------------------------------------------------
(* The mode begins with a copy of the pane, is copied again on refresh, and *)
(* changes its size with the pane.  b is the screen of the pane, with its   *)
(* cursor at b.cx and b.cy.                                                 *)

Clone(b) == [b.g EXCEPT !.history = TRUE]

Entered(b, vi) ==
  [vi |-> vi, g |-> Clone(b), cx |-> b.cx, cy |-> b.cy, oy |-> 0, sel |-> NoSelection,
   selx |-> 0, sely |-> 0, endselx |-> 0, endsely |-> 0,
   selrx |-> 0, selry |-> 0, endselrx |-> 0, endselry |-> 0, dx |-> 0, dy |-> 0,
   cursordrag |-> "none", lineflag |-> "none", selflag |-> "char", rectflag |-> FALSE,
   separators |-> {}, lastcx |-> 0, lastsx |-> 0, mx |-> b.cx, my |-> HSize(b.g) + b.cy,
   recentre_state |-> "middle", recentre_line |-> 0, scroll_exit |-> FALSE,
   timer |-> FALSE, ended |-> FALSE]

RefreshFromPane(e, b) ==
  LET top == H(e) - Min({e.oy, H(e)})
      h == HSize(b.g)
      cloned == [e EXCEPT !.g = Clone(b)]
  IN  ClearSelection(IF top <= h THEN [cloned EXCEPT !.oy = h - top] ELSE [cloned EXCEPT !.cy = 0, !.oy = h])

Taller(e, sx, sy) == ResizeY([e.g EXCEPT !.sx = sx], sy, FALSE, 0)
AtLine(e, g, q) ==
  ClearSelection([e EXCEPT !.g = g, !.cx = q.x, !.cy = Max({q.y - HSize(g), 0}), !.oy = Max({HSize(g) - q.y, 0})])
\* A mutant: the position is looked for in the lines before the reflow.
ReflowedCursor(e, g, p) == AtLine(e, g, UnwrapPosition(e.g, WrapPosition(e.g, p)))

Reflowed(e, g, p) == AtLine(e, g, UnwrapPosition(g, WrapPosition(e.g, p)))
ResizeFrom(e, sx, tall, p) ==
  IF sx = e.g.sx THEN AtLine(e, tall, p) ELSE Reflowed(e, Reflow(tall, sx), p)
Resize(e, sx, sy) ==
  ResizeFrom(e, sx, Taller(e, sx, sy), At(e.cx, H(e) + e.cy - Min({e.oy, H(e) + e.cy})))

\* A mutant: the view follows the output.
ViewAddFollows(e, text) ==
  LET g == ScrollHistory(CollectHistory(e.g, FALSE))
  IN  [e EXCEPT !.g = SetCells(g, 0, LastLine(g), text)]

\* view-mode: output of a command is added below, without moving the view.
ViewAdd(e, text) ==
  LET last == Max({-1} \cup {i \in 0..(e.g.sy - 1) : Text(e.g, H(e) + i) # <<>>})
      g == IF last = e.g.sy - 1 THEN ScrollHistory(CollectHistory(e.g, FALSE)) ELSE e.g
      y == HSize(g) + Min({last + 1, g.sy - 1})
  IN  [e EXCEPT !.g = SetCells(g, 0, y, text), !.oy = @ + HSize(g) - H(e)]

\* A line of output of the pane itself, at the bottom of its screen.
PaneOutput(b, text) ==
  LET g == ViewScrollRegionUp(b.g, 0, b.g.sy - 1)
  IN  [b EXCEPT !.g = SetCells(g, 0, LastLine(g), text)]

-----------------------------------------------------------------------------
(* window_copy_command and the callbacks of the mode.                      *)

Init ==
  /\ use \in Instances
  /\ pane = use.pane
  /\ d = Entered(use.pane, use.vi)
  /\ commands = 0

\* A cursor that other-end or scroll_to put below the screen is not followed.
Given(kind) == ~d.ended /\ kind \in use.kinds /\ commands < use.most /\ d.cy < d.g.sy
Becomes(results) ==
  /\ d' \in results
  /\ commands' = commands + 1
  /\ UNCHANGED <<pane, use>>

\* The commands that move with the reader.
MoveCursor ==
  \/ /\ Given("move")
     /\ \E p \in Upwards(d) : Becomes({AcquireCursorUp(d, p)})
  \/ /\ Given("move")
     /\ \E p \in Downwards(d) : Becomes({AcquireCursorDown(d, p, FALSE)})
  \/ Given("move") /\ Becomes({CursorEndOfLine(d)})

MoveUpOrDown ==
  /\ Given("move")
  /\ \E dy \in {-1, 1}, scroll_only \in BOOLEAN : \E moved \in {MoveVertically(d, scroll_only, dy)} :
       \/ Becomes({moved})
       \/ dy = 1 /\ Becomes({IF scroll_only THEN UpdateOrExit(moved, TRUE) ELSE CursorDownAndCancel(d, moved)})

\* The commands that place the cursor or the view and then the selection.
MoveToLine ==
  \/ /\ Given("line")
     /\ \E moved \in {TopLine(d), MiddleLine(d), BottomLine(d), CentreVertical(d), CentreHorizontal(d)} :
          Becomes({UpdateSelection(moved)})
  \/ /\ Given("line")
     /\ \E dy \in {-1, 1} : \E turned \in {TurnedAtEnd(d, dy)} :
          Becomes({UpdateSelection(IF dy = -1 THEN HistoryTop(turned) ELSE HistoryBottom(turned))})

MoveByText ==
  \/ /\ Given("text")
     /\ \E p \in {PreviousParagraph(d), NextParagraph(d)} : Becomes({ScrollTo(d, p)})
  \/ Given("text") /\ Becomes({ToPreviousBracket(d)})
  \/ Given("text") /\ Becomes({ToNextBracket(d)})

ScrollView ==
  \/ /\ Given("scroll")
     /\ \E half_page \in BOOLEAN :
        \E to \in {[view |-> PageUp(d, half_page), exit |-> FALSE], [view |-> PageDown(d, half_page), exit |-> d.scroll_exit],
                  [view |-> PageDown(d, half_page), exit |-> TRUE]}
                 \cup {[view |-> ScrollTo1(d, line), exit |-> exit] : line \in 0..H(d), exit \in BOOLEAN} :
          Becomes({View(to.view, to.exit)})
  \/ /\ Given("scroll")
     /\ \E moved \in {Recentre(d)} \cup {ScrollLineTo(d, to) : to \in {0, (d.g.sy - 1) \div 2, d.g.sy - 1}}
                     \cup {GotoLine(d, line) : line \in 0..H(d)} :
          Becomes({UpdateSelection(moved)})
  \/ Given("scroll") /\ Becomes({[d EXCEPT !.scroll_exit = ~@]})

Select ==
  /\ Given("select")
  /\ Becomes({BeginSelection(d), StopSelection(d), ClearSelection(d), UpdateSelection(RectangleSet(d, ~d.rectflag))})

\* At the cursor, or where the mouse was clicked twice or three times.
SelectWordOrLine ==
  /\ Given("select") \/ Given("mouse")
  /\ \E start \in IF "select" \in use.kinds THEN {d}
                  ELSE {UpdateCursor(d, x, y) : x \in 0..(d.g.sx - 1), y \in 0..(d.g.sy - 1)} :
       \/ Becomes({SelectWord(start)})
       \/ \E n \in 1..2 : Becomes({SelectLine(start, n)})

SetSelectionMode ==
  /\ Given("mode")
  /\ \E flag \in {"char", "word", "line"} : Becomes({SelectionMode(d, flag)})

ExchangeEnds == Given("other end") /\ Becomes({OtherEndCommand(d)})

\* Copying the selection only clears it, if the command does.
Copy ==
  \/ Given("copy") /\ Becomes({ClearSelection(d), Exit(ClearSelection(d))})
  \/ /\ Given("copy")
     /\ \E n \in 1..2 : \E from \in {d, CopyWholeLine(d)} : Becomes({CopyLines(d, from, n)})

Drag ==
  /\ Given("mouse")
  /\ \E x \in 0..(d.g.sx - 1), y \in 0..(d.g.sy - 1) :
     \E begun \in {StartDrag(d, x, y)} \cup {e \in {d} : e.cursordrag # "none"} : Becomes({DragUpdate(begun, x, y)})

MouseReleased == Given("mouse") /\ Becomes({DragRelease(d)})
TimerFires == d.timer /\ Given("mouse") /\ Becomes({ScrollTimer(d)})

Mark == Given("mark") /\ Becomes({SetMark(d), UpdateSelection(JumpToMark(d))})

AddOutput == Given("view") /\ \E text \in Output : Becomes({ViewAdd(d, text)})

PaneWrites ==
  /\ Given("pane")
  /\ \E text \in Output : pane' = PaneOutput(pane, text)
  /\ commands' = commands + 1
  /\ UNCHANGED <<d, use>>

Refresh == Given("pane") /\ Becomes({RefreshFromPane(d, pane)})

ResizePane ==
  /\ Given("resize")
  /\ \E size \in Sizes : size # <<d.g.sx, d.g.sy>> /\ Becomes({Resize(d, size[1], size[2])})

EnterAgain ==
  /\ d.ended /\ commands < use.most
  /\ d' = Entered(pane, use.vi)
  /\ commands' = commands + 1
  /\ UNCHANGED <<pane, use>>

Next ==
  \/ MoveCursor \/ MoveUpOrDown \/ MoveToLine \/ MoveByText \/ ScrollView
  \/ Select \/ SelectWordOrLine \/ SetSelectionMode \/ ExchangeEnds \/ Copy
  \/ Drag \/ MouseReleased \/ TimerFires
  \/ Mark \/ AddOutput \/ PaneWrites \/ Refresh \/ ResizePane \/ EnterAgain

Spec == Init /\ [][Next]_vars

-----------------------------------------------------------------------------
(* Properties.                                                             *)

\* The view lies in the history, and the cursor on the screen or, until the
\* model stops following it, on the line below.  No line is wider than the grid.
TypeOK ==
  /\ d.oy \in 0..H(d)
  /\ d.cx \in 0..(d.g.sx + 1)
  /\ d.cy \in 0..d.g.sy
  /\ d.g.hscrolled \in 0..H(d)
  /\ \A n \in DOMAIN d.g.lines : Len(d.g.lines[n].text) <= d.g.sx

\* Whether a cell of the screen is highlighted (screen_check_selection).
Between(x, from, to) == from <= x /\ x <= to
CheckSelection(e, px, py) ==
  LET s == e.sel
      last(x) == IF e.vi THEN x ELSE Max({x - 1, 0})
  IN  /\ s.present /\ ~s.hidden
      /\ IF s.rectangle
         THEN /\ Between(py, Min({s.sy, s.ey}), Max({s.sy, s.ey}))
              /\ Between(px, Min({s.sx, s.ex}), Max({s.sx, s.ex}))
         ELSE IF s.sy < s.ey
         THEN /\ Between(py, s.sy, s.ey)
              /\ py = s.sy => px >= s.sx
              /\ py = s.ey => px <= last(s.ex)
         ELSE IF s.sy > s.ey
         THEN /\ Between(py, s.ey, s.sy)
              /\ py = s.ey => px >= s.ex
              /\ py = s.sy => s.sx # 0 /\ px <= last(s.sx)
         ELSE /\ py = s.sy
              /\ IF s.ex < s.sx THEN Between(px, s.ex, last(s.sx)) ELSE Between(px, s.sx, last(s.ex))

Shown(e) == {p \in [x : 0..(e.g.sx - 1), y : Top(e)..(Top(e) + e.g.sy - 1)] :
               Cell(e.g, p.x, p.y) # "P" /\ p.x < Len(Text(e.g, p.y))}

\* Where the two computations are known to differ: a lower end at the first
\* column, and under emacs a selection that goes on below the screen.
HighlightDiffers(e) ==
  \/ e.sel.sy > e.sel.ey /\ e.sel.sx = 0
  \/ ~e.vi /\ e.sel.ex = 0
  \/ ~e.vi /\ "below" \in {RelPos(e, e.sely), RelPos(e, e.endsely)}

\* The text that would be copied is what the screen highlights: two independent
\* computations, window_copy_get_selection on the lines of the history and
\* screen_check_selection on clipped positions of the screen, agree after any
\* movement, scroll, exchange of the ends and drag.
CopiesWhatIsShown ==
  d.sel.present /\ ~d.sel.hidden /\ ~d.sel.rectangle /\ ~HighlightDiffers(d) /\ ~d.ended /\ d.cy < d.g.sy =>
     GetSelection(d) \cap Shown(d) = {p \in Shown(d) : CheckSelection(d, p.x, p.y - Top(d))}

SelectionBegins(e) == FirstOr({At(e.selx, e.sely), At(e.endselx, e.endsely)}, CursorAt(e))
SelectionEnds(e) == Last({At(e.selx, e.sely), At(e.endselx, e.endsely)})
Dragging(e, flag) ==
  /\ e.selflag = flag /\ e.lineflag # "none" /\ e.cursordrag # "none"
  /\ e.sel.present /\ ~e.ended /\ "mode" \notin use.kinds

\* After select-line the selection always is whole lines: the line chosen, the
\* line of the cursor and those between, however the cursor moves and whichever
\* end it drags (window_copy_synchronize_cursor_end, the turns of cursor_up and
\* cursor_down).
LinesSelected ==
  Dragging(d, "line") =>
    /\ SelectionBegins(d).x = 0
    /\ SelectionBegins(d).y <= Min({d.selry, CursorLine(d)})
    /\ SelectionEnds(d).y >= Max({d.endselry, CursorLine(d)})
    /\ SelectionEnds(d).x = FindLength(d, SelectionEnds(d).y)

\* After select-word under vi the selection always covers the word chosen, and
\* reaches the cursor, on whichever side of the word it is (for a word on one
\* line: on two lines the code compares columns of different lines).
WordSelected ==
  Dragging(d, "word") /\ d.vi /\ d.selry = d.endselry =>
    /\ ~Before(At(d.selrx, d.selry), SelectionBegins(d))
    /\ ~Before(SelectionEnds(d), At(d.endselrx, d.endselry))
    /\ ~Before(CursorAt(d), SelectionBegins(d))
    /\ ~Before(SelectionEnds(d), At(Min({d.cx, FindLength(d, CursorLine(d))}), CursorLine(d)))

\* What was selected as lines or as a word stays selected as that.
UnitsSelected == LinesSelected /\ WordSelected

WordBegins(g, separators) ==
  {p \in Forward(g) :
     /\ Kind(g, separators, p) # "white"
     /\ \A q \in Forward(g) : Before(q, p) /\ (\A r \in Forward(g) : ~(Before(q, r) /\ Before(r, p)))
                               => Kind(g, separators, q) # Kind(g, separators, p)}

\* From the beginning of a word next-word goes to the beginning of the word
\* after it and previous-word from there comes back, over wrapped lines, blank
\* lines, separators and wide characters, however the lines were reflowed.
WordsFound ==
  "resize" \in use.kinds => \A separators \in {Separators, {}} : \A p \in WordBegins(d.g, separators) :
    LET after == {q \in WordBegins(d.g, separators) : Before(p, q)}
    IN  after # {} => /\ ReaderNextWord(d.g, p, separators) = First(after)
                      /\ ReaderPreviousWord(d.g, First(after), separators, TRUE, FALSE) = p

\* The number of a cell counted from the first one, and the text between ends
\* of lines that are not wrapped.
CellNumber(g, p) ==
  LET above[l \in 0..p.y] == IF l = 0 THEN 0 ELSE above[l - 1] + Len(Text(g, l - 1))
  IN  above[p.y] + p.x
Paragraphs(g) ==
  LET read[y \in 0..Len(g.lines)] ==
        IF y = 0 THEN <<<<>>>>
        ELSE LET l == read[y - 1]
                 longer == [l EXCEPT ![Len(l)] = @ \o Text(g, y - 1)]
             IN  IF IsWrapped(g, y - 1) THEN longer ELSE Append(longer, <<>>)
      all == read[Len(g.lines)]
  IN  SubSeq(all, 1, Max({0} \cup {n \in DOMAIN all : all[n] # <<>>}))

\* A change of size loses, joins and cuts no paragraph, however often the lines
\* are split and joined again (grid_reflow).
ParagraphsKept ==
  [][~d.ended /\ d.g # d'.g /\ "resize" \in use.kinds => Paragraphs(d.g) = Paragraphs(d'.g)]_vars

\* A change of size leaves the cursor of copy mode on the cell it was on, in
\* the history as on the screen (window_copy_resize, grid_wrap_position).
CursorKeepsItsCell ==
  [][~d.ended /\ d.g # d'.g /\ "resize" \in use.kinds /\ Cell(d.g, d.cx, CursorLine(d)) # " " =>
       CellNumber(d'.g, CursorAt(d')) = CellNumber(d.g, CursorAt(d))]_vars

\* Output added in view-mode moves neither the view nor the selection.
OutputLeavesView ==
  [][~d.ended /\ d.g # d'.g /\ "view" \in use.kinds =>
       /\ Top(d') = Top(d)
       /\ d.oy > 0 /\ d.sel.present => GetSelection(d') = GetSelection(d)
       /\ \A p \in Shown(d) : Cell(d'.g, p.x, p.y) = Cell(d.g, p.x, p.y)]_vars
=============================================================================
