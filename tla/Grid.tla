--------------------------------- MODULE Grid ---------------------------------
(***************************************************************************)
(* The grid that holds the lines of a screen and its history (grid.c,      *)
(* grid-view.c) and its change of size (screen.c).  A grid is a record     *)
(*    sx, sy      size of the screen,                                      *)
(*    lines       history and screen, a sequence of [text, wrapped],       *)
(*    hscrolled   lines of the history that may come back when the screen  *)
(*                grows,                                                   *)
(*    hlimit      most lines of history,                                   *)
(*    history     whether lines go to the history at all.                  *)
(* A cell is a blank " ", a tab "T" of one column, a separator ".", a      *)
(* letter, the wide "W" or the padding "P" after it.  Colours, attributes  *)
(* and links are left out, and so is the space allocated beyond the cells  *)
(* a line uses, which reads as blank.  Lines and columns count from zero.  *)
(***************************************************************************)
EXTENDS Integers, Sequences
LOCAL INSTANCE FiniteSetsExt
LOCAL INSTANCE FiniteSets

EmptyLine == [text |-> <<>>, wrapped |-> FALSE]
Each(n, Value(_)) == SubSeq([i \in 1..n |-> Value(i)], 1, n)
Empties(n) == Each(n, LAMBDA i : EmptyLine)

HSize(g) == Len(g.lines) - g.sy
LastLine(g) == Len(g.lines) - 1
\* A line that is not in the grid reads as an empty one.
IsWrapped(g, y) == y \in 0..LastLine(g) /\ g.lines[y + 1].wrapped
Text(g, y) == IF y \in 0..LastLine(g) THEN g.lines[y + 1].text ELSE <<>>
CellOf(t, x) == IF x < Len(t) THEN t[x + 1] ELSE " "
Cell(g, x, y) == CellOf(Text(g, y), x)

\* The length of a line without the blanks at its end.
LineLength(g, y) ==
  Max({0} \cup {x \in 1..Min({Len(Text(g, y)), g.sx}) : Text(g, y)[x] # " "})

-----------------------------------------------------------------------------
(* History.                                                                *)

TrimHistory(g, n) ==
  [g EXCEPT !.lines = SubSeq(@, n + 1, Len(@)), !.hscrolled = Min({@, HSize(g) - n})]

\* A tenth of the limit, or all above it, goes when the limit is reached.
CollectHistory(g, all) ==
  LET many == IF all THEN HSize(g) - g.hlimit ELSE g.hlimit \div 10
  IN  IF HSize(g) = 0 \/ HSize(g) < g.hlimit THEN g
      ELSE TrimHistory(g, Min({Max({many, 1}), HSize(g)}))

ScrollHistory(g) == [g EXCEPT !.lines = Append(@, EmptyLine), !.hscrolled = @ + 1]

\* The top line of a region goes to the end of the history, above the screen.
ScrollHistoryRegion(g, upper, lower) ==
  LET h == HSize(g)
      l == g.lines
  IN  [g EXCEPT !.hscrolled = @ + 1,
                !.lines = SubSeq(l, 1, h) \o <<l[upper + 1]>> \o SubSeq(l, h + 1, upper)
                          \o SubSeq(l, upper + 2, lower + 1) \o <<EmptyLine>> \o SubSeq(l, lower + 2, Len(l))]

-----------------------------------------------------------------------------
(* Lines.  What is replaced, and the line above it, stops being wrapped.   *)

Unwrapped(g, y) == [g EXCEPT !.lines[y + 1].wrapped = FALSE]
UnwrappedAbove(g, y) == IF y = 0 THEN g ELSE Unwrapped(g, y - 1)

\* Lines py to py + ny - 1.  The callers below may ask for a negative number,
\* which wraps around: no line is cleared but the one above is unwrapped.
ClearLines(g, py, ny) ==
  IF ny = 0 THEN g
  ELSE UnwrappedAbove([g EXCEPT !.lines = Each(Len(@), LAMBDA i : IF i - 1 \in py..(py + ny - 1) THEN EmptyLine ELSE g.lines[i])], py)

MoveLines(g, dy, py, ny) ==
  LET unwrapped == UnwrappedAbove(g, dy).lines
      moved(i) == IF i - 1 \in dy..(dy + ny - 1) THEN unwrapped[i - dy + py]
                  ELSE IF i - 1 \in py..(py + ny - 1) THEN EmptyLine ELSE unwrapped[i]
      to == [g EXCEPT !.lines = Each(Len(@), moved)]
  IN  IF ny <= 0 \/ py = dy THEN g
      ELSE IF py < dy \/ py >= dy + ny THEN UnwrappedAbove(to, py) ELSE to

SetCells(g, x, y, cells) ==
  LET t == Text(g, y)
      n == Len(cells)
  IN  [g EXCEPT !.lines[y + 1].text =
         Each(Max({Len(t), x + n}), LAMBDA i : IF i - 1 \in x..(x + n - 1) THEN cells[i - x] ELSE CellOf(t, i - 1))]

-----------------------------------------------------------------------------
(* The same in coordinates of the screen (grid-view.c).                    *)

ViewScrollRegionUp(g, upper, lower) ==
  LET h == HSize(g)
      c == CollectHistory(g, FALSE)
  IN  IF ~g.history THEN MoveLines(g, h + upper, h + upper + 1, lower - upper)
      ELSE IF upper = 0 /\ lower = g.sy - 1 THEN ScrollHistory(c)
      ELSE ScrollHistoryRegion(c, HSize(c) + upper, HSize(c) + lower)

ViewDeleteLines(g, py, ny) ==
  LET y == HSize(g) + py
  IN  ClearLines(MoveLines(g, y, y + ny, g.sy - py - ny), HSize(g) + g.sy - ny, ny)

-----------------------------------------------------------------------------
(* Height (screen_resize_y).  cy is the line of the cursor on the screen.  *)

ShrinkY(g, sy, eat_empty, cy) ==
  LET spare == IF eat_empty THEN Min({g.sy - 1 - cy, g.sy - sy}) ELSE 0
      e == IF spare > 0 THEN ViewDeleteLines(g, g.sy - spare, spare) ELSE g
      needed == g.sy - sy - spare
      top == Min({cy, needed})
      d == IF ~g.history /\ top > 0 THEN ViewDeleteLines(e, 0, top) ELSE e
      h == IF g.history THEN HSize(g) + needed ELSE HSize(g)
  IN  [d EXCEPT !.sy = sy, !.lines = SubSeq(@, 1, h + sy), !.hscrolled = IF g.history THEN @ + needed ELSE @]

GrowY(g, sy) ==
  LET back == IF g.history THEN Min({g.hscrolled, sy - g.sy}) ELSE 0
  IN  [g EXCEPT !.sy = sy, !.hscrolled = @ - back, !.lines = @ \o Empties(sy - g.sy - back)]

ResizeY(g, sy, eat_empty, cy) ==
  IF sy < g.sy THEN ShrinkY(g, sy, eat_empty, cy) ELSE IF sy > g.sy THEN GrowY(g, sy) ELSE g

-----------------------------------------------------------------------------
(* Width (grid_reflow): wrapped lines are split and joined again.  The     *)
(* state of the loop is the lines to come, from, the lines made, to, and   *)
(* hscrolled; the lines that are consumed are dead.                        *)

TextWidth(t) == Len(SelectSeq(t, LAMBDA c : c # "P")) + Len(SelectSeq(t, LAMBDA c : c = "W"))

\* How many cells of a text fit when this width is taken already.
Fit(t, width, sx) ==
  Max({n \in 0..Len(t) : width + TextWidth(SubSeq(t, 1, n)) <= sx})

Dead == [text |-> <<>>, wrapped |-> FALSE, dead |-> TRUE]

\* What the line after yy gives: j is the number of lines taken, whether all
\* of them are wrapped, the width and text so far, the line last taken from and
\* how much of it was.
RECURSIVE JoinMore(_, _, _, _)
JoinMore(from, sx, yy, j) ==
  LET line == from[yy + j.lines + 2]
      wrapped == j.wrapped /\ line.wrapped
      n == Fit(line.text, j.width, sx)
      taken == [lines |-> j.lines + 1, wrapped |-> wrapped, width |-> j.width + TextWidth(SubSeq(line.text, 1, n)),
                text |-> j.text \o SubSeq(line.text, 1, n), from |-> yy + j.lines + 1, want |-> n]
  IN  IF yy + 1 + j.lines = Len(from) THEN j
      ELSE IF line.text = <<>>
      THEN IF wrapped THEN JoinMore(from, sx, yy, [j EXCEPT !.lines = @ + 1]) ELSE [j EXCEPT !.wrapped = FALSE]
      ELSE IF n = 0 THEN [j EXCEPT !.wrapped = wrapped]
      ELSE IF ~wrapped \/ n # Len(line.text) \/ taken.width = sx THEN taken
      ELSE JoinMore(from, sx, yy, taken)

\* Join the lines after yy to the last line made.
Join(r, sx, yy) ==
  LET to == Len(r.to) - 1
      start == r.to[to + 1]
      j == JoinMore(r.from, sx, yy, [lines |-> 0, wrapped |-> TRUE, width |-> TextWidth(start.text),
                                    text |-> start.text, from |-> -1, want |-> 0])
      left == IF j.from = -1 THEN <<>> ELSE SubSeq(r.from[j.from + 1].text, j.want + 1, Len(r.from[j.from + 1].text))
      lines == IF left = <<>> THEN j.lines ELSE j.lines - 1
      rest(i) == IF left # <<>> /\ i = yy + j.lines + 1 THEN [r.from[i] EXCEPT !.text = left]
                 ELSE IF i \in (yy + 2)..(yy + lines + 1) THEN Dead ELSE r.from[i]
  IN  IF j.from = -1 THEN r
      ELSE [from |-> Each(Len(r.from), rest),
            to |-> [r.to EXCEPT ![to + 1] = [text |-> j.text,
                      wrapped |-> start.wrapped /\ (left # <<>> \/ j.wrapped)]],
            hscrolled |-> IF r.hscrolled > to + lines THEN r.hscrolled - lines
                          ELSE Min({r.hscrolled, to})]

\* The lines that a text of a given width is cut into.
RECURSIVE Cut(_, _)
Cut(t, sx) ==
  LET n == Fit(t, 0, sx)
  IN  IF n = Len(t) THEN <<t>> ELSE <<SubSeq(t, 1, n)>> \o Cut(SubSeq(t, n + 1, Len(t)), sx)

\* A mutant: what remains of the last part is not joined with the lines after.
SplitOnly(r, sx, yy) ==
  LET line == r.from[yy + 1]
      parts == Cut(line.text, sx)
      n == Len(parts)
  IN  [r EXCEPT !.to = @ \o Each(n, LAMBDA i : [text |-> parts[i], wrapped |-> i < n])]

Split(r, sx, yy) ==
  LET line == r.from[yy + 1]
      parts == Cut(line.text, sx)
      n == Len(parts)
      s == [r EXCEPT !.to = @ \o Each(n, LAMBDA i : [text |-> parts[i], wrapped |-> i < n \/ line.wrapped]),
                     !.hscrolled = IF yy <= @ THEN @ + n - 1 ELSE @]
  IN  IF TextWidth(parts[n]) < sx /\ line.wrapped THEN Join(s, sx, yy) ELSE s

ReflowLine(r, sx, yy) ==
  LET line == r.from[yy + 1]
      moved == [r EXCEPT !.to = Append(@, [text |-> line.text, wrapped |-> line.wrapped])]
      width == TextWidth(line.text)
  IN  IF "dead" \in DOMAIN line THEN r
      ELSE IF width > sx THEN Split(r, sx, yy)
      ELSE IF width < sx /\ line.wrapped THEN Join(moved, sx, yy)
      ELSE moved

Reflow(g, sx) ==
  LET r[n \in 0..Len(g.lines)] ==
        IF n = 0 THEN [from |-> g.lines, to |-> <<>>, hscrolled |-> g.hscrolled] ELSE ReflowLine(r[n - 1], sx, n - 1)
      done == r[Len(g.lines)]
      lines == done.to \o Empties(Max({g.sy - Len(done.to), 0}))
  IN  [g EXCEPT !.lines = lines, !.sx = sx, !.hscrolled = Min({done.hscrolled, Len(lines) - g.sy})]

\* A position kept over a reflow: the number of the unwrapped line and the
\* offset in it, -1 past its end.
WrapPosition(g, p) ==
  LET above == {l \in 0..(p.y - 1) : ~IsWrapped(g, l)}
      from == Max({0} \cup {l + 1 : l \in above})
      offset[l \in from..p.y] == IF l = from THEN 0 ELSE offset[l - 1] + Len(Text(g, l - 1))
  IN  [line |-> Cardinality(above), offset |-> IF p.x >= Len(Text(g, p.y)) THEN -1 ELSE offset[p.y] + p.x]

\* From the start of the line, over as many as hold it.  The code reads what
\* follows the last line if that one is wrapped; there is no position then.
UnwrapPosition(g, w) ==
  LET starts == {l \in 0..LastLine(g) : l = 0 \/ ~IsWrapped(g, l - 1)}
      from == IF w.line >= Cardinality(starts) THEN LastLine(g)
              ELSE CHOOSE l \in starts : Cardinality({k \in starts : k < l}) = w.line
      end == Min({l \in from..LastLine(g) : ~IsWrapped(g, l)})
      offset[l \in from..end] == IF l = from THEN 0 ELSE offset[l - 1] + Len(Text(g, l - 1))
      there == {l \in from..end : l = end \/ w.offset < offset[l] + Len(Text(g, l))}
      y == Min(there)
  IN  IF w.offset = -1 THEN [x |-> Len(Text(g, end)), y |-> end]
      ELSE [x |-> w.offset - offset[y], y |-> y]
=============================================================================
