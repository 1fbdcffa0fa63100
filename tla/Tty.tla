-------------------------------- MODULE Tty --------------------------------
(***************************************************************************)
(* Output to a terminal (tty.c, tty-draw.c): what tmux believes of the     *)
(* terminal of a client and the sequences it sends on that belief.         *)
(*                                                                         *)
(* A tty is a record d with the cursor, region and margins tmux remembers  *)
(* (cx, cy, ru, rl, ml, mr; Unknown stands for UINT_MAX), the background   *)
(* of its pen, the flags, where the pane is on it (xoff, yoff), its size   *)
(* and what it can do (caps). t is the terminal itself, a VT that is not   *)
(* part of the program: every sequence sent is carried out on it, whatever *)
(* tmux believes.                                                          *)
(*                                                                         *)
(* A cell is a character: " " and " *" are blank, the second one coloured, *)
(* "W" is two columns wide and "P" its second column. Other attributes,    *)
(* overlays, windows larger than the terminal and codesets are left out.   *)
(***************************************************************************)
EXTENDS Integers, SequencesExt

CONSTANTS Sx, Sy,    \* The size of the pane.
          LongBlank  \* From how many columns a sequence clears (10 in the code).

ASSUME TtyAssumption ==
  /\ Sx \in Nat /\ Sx > 1 /\ Sy \in Nat /\ Sy > 1 /\ LongBlank \in Nat

Unknown == -1
Only(S) == CHOOSE x \in S : TRUE   \* Of a set of one: a value worked out once.
Lesser(a, b) == IF a < b THEN a ELSE b
Greater(a, b) == IF a > b THEN a ELSE b
Each(n, Value(_)) == SubSeq([i \in 1..n |-> Value(i)], 1, n)
BlankOf(bg) == IF bg = "*" THEN " *" ELSE " "
BgOf(cell) == IF cell = " *" THEN "*" ELSE ""
Width(cell) == IF cell = "W" THEN 2 ELSE 1
Columns(cells) == FoldLeft(LAMBDA n, c : n + Width(c), 0, cells)

(***************************************************************************)
(* The terminal: rows of cells, a cursor that may be waiting to wrap, a    *)
(* scroll region and margins, the background of its pen.                   *)
(***************************************************************************)
\* A half of a wide character without the other one is a blank.
Mended(row) ==
  Each(Len(row), LAMBDA i :
    IF \/ row[i] = "W" /\ (i = Len(row) \/ row[i + 1] # "P")
       \/ row[i] = "P" /\ (i = 1 \/ row[i - 1] # "W")
    THEN " " ELSE row[i])

\* Fill columns of a line; Shift them right (left for n < 0), up to the end.
Fill(t, y, first, last) ==
  [t EXCEPT !.rows[y + 1] = Mended(Each(Len(@), LAMBDA i :
     IF i - 1 \in first..last THEN BlankOf(t.bg) ELSE t.rows[y + 1][i]))]
Shift(t, n) ==
  LET row == t.rows[t.cy + 1]
      From(i) == IF i - 1 < t.cx THEN i ELSE i - n
  IN [t EXCEPT !.rows[t.cy + 1] = Mended(Each(Len(row), LAMBDA i :
        IF From(i) \in (IF i - 1 < t.cx THEN 1 ELSE t.cx + 1)..Len(row)
        THEN row[From(i)] ELSE BlankOf(t.bg)))]

\* Scroll the lines from a line to the end of the region, between the margins.
ScrollFrom(t, y, n) ==
  [t EXCEPT !.rows = Each(Len(@), LAMBDA i :
     IF i - 1 \notin y..t.rl THEN t.rows[i]
     ELSE Mended(Each(Len(t.rows[i]), LAMBDA j :
            IF j - 1 \notin t.ml..t.mr THEN t.rows[i][j]
            ELSE IF i - 1 + n \in y..t.rl THEN t.rows[i + n][j]
            ELSE BlankOf(t.bg))))]

Goto(t, x, y) ==
  [t EXCEPT !.cx = Lesser(x, t.sx - 1), !.cy = Lesser(y, t.sy - 1), !.wrap = FALSE]
Return(t) == Goto(t, IF t.cx < t.ml THEN 0 ELSE t.ml, t.cy)
Inside(t) == t.cx \in t.ml..t.mr
Down(t, n) == Goto(t, t.cx, IF t.cy <= t.rl THEN Lesser(t.cy + n, t.rl) ELSE t.cy + n)
Up(t, n) == Goto(t, t.cx, Greater(t.cy - n, IF t.cy >= t.ru THEN t.ru ELSE 0))
Right(t, n) == Goto(t, IF t.cx <= t.mr THEN Lesser(t.cx + n, t.mr) ELSE t.cx + n, t.cy)
Left(t, n) == Goto(t, Greater(t.cx - n, IF t.cx >= t.ml THEN t.ml ELSE 0), t.cy)
Index(t) ==
  IF t.cy # t.rl THEN Goto(t, t.cx, t.cy + 1)
  ELSE IF Inside(t) THEN [ScrollFrom(t, t.ru, 1) EXCEPT !.wrap = FALSE]
  ELSE t
ReverseIndex(t) ==
  IF t.cy # t.ru THEN Goto(t, t.cx, Greater(t.cy - 1, 0))
  ELSE IF Inside(t) THEN ScrollFrom(t, t.ru, -1)
  ELSE t
Lines(t, n) == IF t.cy \in t.ru..t.rl THEN ScrollFrom(t, t.cy, n) ELSE t
SetRegion(t, u, l) == Goto([t EXCEPT !.ru = u, !.rl = l], 0, 0)
SetMargins(t, l, r) == Goto([t EXCEPT !.ml = l, !.mr = r], 0, 0)

\* Put a character: at the end of the line the cursor waits there.
Put(t, cell) ==
  LET end == IF t.cx <= t.mr THEN t.mr ELSE t.sx - 1
      over == t.wrap \/ t.cx + Width(cell) - 1 > end
      Cell(at, i) == IF i = at.cx + 1 THEN cell
                     ELSE IF i = at.cx + 2 /\ cell = "W" THEN "P"
                     ELSE at.rows[at.cy + 1][i]
  IN Only({[at EXCEPT !.rows[at.cy + 1] = Mended(Each(Len(@), LAMBDA i : Cell(at, i))),
                      !.cx = Lesser(at.cx + Width(cell), end),
                      !.wrap = at.cx + Width(cell) > end] :
             at \in IF over THEN {Return(u) : u \in {Index(t)}} ELSE {t}})
PutAll(t, cells) ==
  LET after[n \in 0..Len(cells)] == IF n = 0 THEN t ELSE Put(after[n - 1], cells[n])
  IN after[Len(cells)]

(***************************************************************************)
(* tty.c.                                                                  *)
(***************************************************************************)
\* tty_add: what is sent while the terminal cannot keep up is thrown away.
Sent(d, t) == IF "BLOCK" \in d.flags THEN d ELSE [d EXCEPT !.t = t]
Forget(d) == [d EXCEPT !.cx = Unknown, !.cy = Unknown]
Has(d, cap) == cap \in d.caps
FullWidth(d) == d.xoff = 0 /\ Sx >= d.sx
FakeBce(d, bg) == ~Has(d, "bce") /\ bg # ""
\* tty_attributes: the background of the pen.
Pen(d, bg) == Sent(d, [d.t EXCEPT !.bg = bg])

\* Beyond the last column or unknown, both of which UINT_MAX is.
Beyond(d) == d.cx = Unknown \/ d.cx >= d.sx

\* How the cursor moves along its line and along its column.
AlongLine(d, t, x, y, edge) ==
  LET n == d.cx - x
  IN IF x = 0 /\ edge THEN Return(t)
     ELSE IF n = 1 THEN Left(t, 1)
     ELSE IF n = -1 THEN Right(t, 1)
     ELSE IF Greater(n, -n) > x THEN Goto(t, x, t.cy)
     ELSE IF Has(d, "margins") THEN Goto(t, x, y)
     ELSE IF n > 0 THEN Left(t, n)
     ELSE Right(t, -n)
AlongColumn(d, t, y) ==
  LET n == d.cy - y
      lower == IF d.rl = Unknown THEN d.sy ELSE d.rl
  IN IF n = 1 /\ d.cy # d.ru THEN Up(t, 1)
     ELSE IF n = -1 /\ d.cy # d.rl THEN Down(t, 1)
     ELSE IF \/ Greater(n, -n) > y
             \/ n < 0 /\ y - n > lower
             \/ n > 0 /\ y - n < d.ru
       THEN Goto(t, t.cx, y)
     ELSE IF n > 0 THEN Up(t, n)
     ELSE Down(t, -n)

\* tty_cursor: the shortest way from where the cursor is believed to be.
Cursor(d, x0, y) ==
  LET x == Lesser(x0, d.sx - 1)
      t == d.t
      edge == ~Has(d, "margins") \/ d.ml = 0
      Moved == IF Beyond(d) \/ (x = 0 /\ y = 0) THEN Goto(t, x, y)
               ELSE IF x = 0 /\ y = d.cy + 1 /\ d.cy # d.rl /\ edge
                 THEN LET u == Return(t) IN Index(u)
               ELSE IF y = d.cy THEN AlongLine(d, t, x, y, edge)
               ELSE IF x = d.cx THEN AlongColumn(d, t, y)
               ELSE Goto(t, x, y)
  IN IF \/ "BLOCK" \in d.flags
        \/ x0 = d.cx /\ y = d.cy /\ x0 = d.sx
        \/ x = d.cx /\ y = d.cy
     THEN d
     ELSE Sent([d EXCEPT !.cx = x, !.cy = y], Moved)

\* Variant: the cursor is believed to be where it was.
RegionKeepsCursor(d, upper, lower) ==
  IF d.rl = lower /\ d.ru = upper THEN d
  ELSE Sent([d EXCEPT !.ru = upper, !.rl = lower], SetRegion(d.t, upper, lower))

\* tty_region and tty_margin: both leave the cursor in an unknown place.
Region(d, upper, lower) ==
  LET set == [d EXCEPT !.ru = upper, !.rl = lower]
  IN IF d.rl = lower /\ d.ru = upper THEN d
     ELSE Only({Sent(Forget(left), SetRegion(left.t, upper, lower)) :
                  left \in {IF Beyond(d) THEN Cursor(set, 0, Greater(d.cy, 0)) ELSE set}})
Margin(d, l, r) ==
  IF ~Has(d, "margins") \/ (d.ml = l /\ d.mr = r) THEN d
  ELSE Sent(Forget([d EXCEPT !.ml = l, !.mr = r]),
            LET t == SetRegion(d.t, d.ru, d.rl) IN SetMargins(t, l, r))

\* tty_putc and tty_putn: where the cursor should be after the characters.
Putc(d, cell) ==
  LET wraps == Beyond(d)
  IN Sent([d EXCEPT !.cx = IF wraps THEN 1 ELSE @ + 1,
                    !.cy = IF wraps /\ @ # d.rl THEN @ + 1 ELSE @],
          Put(d.t, cell))
Putn(d, cells) ==
  LET end == d.cx + Columns(cells)
      there == IF end <= d.sx THEN [d EXCEPT !.cx = end]
               ELSE IF end <= 2 * d.sx THEN [d EXCEPT !.cx = end - d.sx, !.cy = @ + 1]
               ELSE Forget(d)
  IN Sent(there, PutAll(d.t, cells))

\* tty_cursor_pane_unless_wrap.
CursorUnlessWrap(d, c) ==
  IF /\ c.wrapped /\ FullWidth(d) /\ d.xoff + c.cx = 0
     /\ d.yoff + c.cy = d.cy + 1 /\ Beyond(d) /\ d.cy # d.rl
  THEN d ELSE Cursor(d, d.xoff + c.cx, d.yoff + c.cy)

(***************************************************************************)
(* What a command does is a sequence of steps, each of which is the call   *)
(* of a function above or a sequence sent as it is (vt).                   *)
(***************************************************************************)
ToPen(bg) == [do |-> "pen", bg |-> bg]
ToCursor(x, y) == [do |-> "cursor", x |-> x, y |-> y]
ToPane(d, x, y) == ToCursor(d.xoff + x, d.yoff + y)
ToRegion(upper, lower) == [do |-> "region", upper |-> upper, lower |-> lower]
ToMargin(l, r) == [do |-> "margin", l |-> l, r |-> r]
RegionOff(d) == ToRegion(0, d.sy - 1)
MarginOff(d) == ToMargin(0, d.sx - 1)
RegionPane(d, upper, lower) == ToRegion(d.yoff + upper, d.yoff + lower)
MarginPane(d) == ToMargin(d.xoff, d.xoff + Sx - 1)
ToPutc(cell) == [do |-> "putc", cell |-> cell]
ToPutn(cells) == [do |-> "putn", cells |-> cells]
ToSend(vt, n) == [do |-> "send", vt |-> vt, n |-> n]
Spaces(n, bg) == ToPutn(Each(n, LAMBDA i : BlankOf(bg)))

\* Not in the code: from here on the terminal does not show what it should, in
\* the pane or anywhere.
ToAstray(where, condition) ==
  [do |-> "astray", where |-> IF condition THEN {where} ELSE {}]

Vt(t, vt, n) ==
  CASE vt = "clear right" -> Fill(t, t.cy, t.cx, t.sx - 1)
    [] vt = "clear left" -> Fill(t, t.cy, 0, t.cx)
    [] vt = "clear some" -> Fill(t, t.cy, t.cx, t.cx + n - 1)
    [] vt = "clear below" ->
         [t EXCEPT !.rows = Each(Len(@), LAMBDA i :
            IF i <= t.cy THEN t.rows[i] ELSE Each(t.sx, LAMBDA j : BlankOf(t.bg)))]
    [] vt = "scroll" -> ScrollFrom(t, t.ru, n)
    [] vt = "shift" -> Shift(t, n)
    [] vt = "lines" -> Lines(t, n)
    [] vt = "index" -> Index(t)
    [] vt = "reverse index" -> FoldLeft(LAMBDA v, i : ReverseIndex(v), t, [i \in 1..n |-> i])

Basic(d, step) ==
  CASE step.do = "pen" -> Pen(d, step.bg)
    [] step.do = "cursor" -> Cursor(d, step.x, step.y)
    [] step.do = "region" -> Region(d, step.upper, step.lower)
    [] step.do = "margin" -> Margin(d, step.l, step.r)
    [] step.do = "putc" -> Putc(d, step.cell)
    [] step.do = "putn" -> Putn(d, step.cells)
    [] step.do = "send" -> Sent(d, Vt(d.t, step.vt, step.n))
    [] step.do = "line start" -> Cursor(d, 0, Greater(d.cy, 0))
    [] step.do = "forget" -> [d EXCEPT !.cx = Unknown, !.cy = Unknown]
    [] step.do = "unless wrap" -> CursorUnlessWrap(d, step.c)
    [] step.do = "again" -> [d EXCEPT !.again = TRUE]
    [] step.do = "astray" -> [d EXCEPT !.astray = @ \cup step.where]

\* tty_clear_line and tty_draw_line_clear: a sequence that clears if there is
\* one, else spaces.
Erase(d, x, y, n, blanks) ==
  IF x + n >= d.sx /\ Has(d, "el") THEN <<ToCursor(x, y), ToSend("clear right", 0)>>
  ELSE IF x = 0 /\ Has(d, "el") THEN <<ToCursor(x + n - 1, y), ToSend("clear left", 0)>>
  ELSE IF Has(d, "ech") THEN <<ToCursor(x, y), ToSend("clear some", n)>>
  ELSE blanks
ClearLine(d, x, y, n, bg) ==
  LET blanks == <<ToCursor(x, y), Spaces(n, bg)>>
  IN IF n = 0 THEN <<>>
     ELSE IF FakeBce(d, bg) THEN blanks
     ELSE Erase(d, x, y, n, blanks)
DrawLineClear(d, x, y, n, bg, wrapped) ==
  LET blanks == (IF x # 0 \/ ~wrapped THEN <<ToCursor(x, y)>> ELSE <<>>)
                \o <<IF n = 1 THEN ToPutc(BlankOf(bg)) ELSE Spaces(n, bg)>>
  IN IF n = 0 THEN <<>>
     ELSE IF wrapped \/ n < LongBlank \/ FakeBce(d, bg) THEN blanks
     ELSE Erase(d, x, y, n, blanks)

\* tty_clear_area: the lines are scrolled away if they are whole or there are
\* margins, else cleared one by one.
ClearArea(d, y, ny, x, nx, bg) ==
  LET whole == x = 0 /\ nx >= d.sx
  IN IF nx = 0 \/ ny = 0 THEN <<>>
     ELSE IF ~FakeBce(d, bg) /\ whole /\ y + ny >= d.sy /\ Has(d, "el")
       THEN <<ToCursor(0, y), ToSend("clear below", 0)>>
     ELSE IF /\ ~FakeBce(d, bg) /\ ny > 2
             /\ whole \/ (nx > 2 /\ Has(d, "margins"))
       THEN <<ToRegion(y, y + ny - 1),
              IF whole THEN MarginOff(d) ELSE ToMargin(x, x + nx - 1),
              ToSend("scroll", ny)>>
     ELSE FlattenSeq([i \in 1..ny |-> ClearLine(d, x, y + i - 1, nx, bg)])

(***************************************************************************)
(* tty_draw_line.                                                          *)
(***************************************************************************)
CellAt(line, x) == IF x < Len(line.cells) THEN line.cells[x + 1] ELSE " "

\* A line as the runs to draw: blank ones, and characters of one background.
\* A run of blanks goes on beyond the cells of the line, in the colour that the
\* last of its cells has.
Runs(line) ==
  LET Extend(acc, i) ==
        LET cell == CellAt(line, i - 1)
            blank == \/ i > Len(line.cells) \/ cell = "P" \/ cell = BlankOf(acc.bg)
                     \/ cell = "W" /\ i = Sx
            n == IF cell = "W" /\ ~blank THEN 2 ELSE 1
            new == IF blank THEN [j \in 1..n |-> " "] ELSE <<cell>>
            k == Len(acc.runs)
            joins == k > 0 /\ acc.runs[k].blank = blank
                     /\ (blank \/ acc.runs[k].bg = BgOf(cell))
        IN IF i < acc.next THEN acc
           ELSE [next |-> i + n, bg |-> BgOf(cell),
                 runs |-> IF joins THEN [acc.runs EXCEPT ![k].bg = BgOf(cell),
                                                         ![k].cells = @ \o new]
                          ELSE Append(acc.runs, [x |-> i - 1, blank |-> blank,
                                                 bg |-> BgOf(cell), cells |-> new])]
      upTo[i \in 0..Sx] ==
        IF i = 0 THEN [next |-> 1, bg |-> "", runs |-> <<>>] ELSE Extend(upTo[i - 1], i)
  IN upTo[Sx].runs

\* A line that is known to follow from the one above is not moved to.
DrawRuns(d, lines, y) ==
  LET wrapped == /\ y # 0 /\ d.xoff = 0 /\ Beyond(d) /\ Sx >= d.sx
                 /\ lines[y].wrapped
      Draw(run) ==
        LET x == d.xoff + run.x
            follows == wrapped /\ run.x = 0
            there == IF follows THEN <<>> ELSE <<ToCursor(x, d.yoff + y)>>
        IN <<ToPen(run.bg)>> \o
           (IF run.blank
              THEN DrawLineClear(d, x, d.yoff + y, Len(run.cells), run.bg, follows)
              ELSE Append(there, ToPutn(run.cells)))
      After(steps) ==
        LET after[n \in 0..Len(steps)] ==
              IF n = 0 THEN d
              ELSE Only({Basic(e, s) : e \in {after[n - 1]}, s \in {steps[n]}})
        IN after[Len(steps)]
      astray == ToAstray("pane", wrapped /\ d.cy + 1 # d.yoff + y)
  IN Only({After(<<astray>> \o FlattenSeq(draws)) :
             draws \in {[i \in 1..Len(runs) |-> Draw(runs[i])] :
                         runs \in {Runs(lines[y + 1])}}})
DrawLine(d, lines, y) ==
  <<RegionOff(d), MarginOff(d), ToPen(""), [do |-> "runs", lines |-> lines, y |-> y]>>
DrawLines(d, lines, first, last) ==
  LET upTo[y \in (first - 1)..last] ==
        IF y < first THEN <<>> ELSE upTo[y - 1] \o DrawLine(d, lines, y)
  IN upTo[last]

Step(d, step) ==
  IF step.do = "runs" THEN DrawRuns(d, step.lines, step.y) ELSE Basic(d, step)
Do(d, all) ==
  LET after[n \in 0..Len(all)] ==
        IF n = 0 THEN d
        ELSE Only({Step(e, s) : e \in {after[n - 1]}, s \in {all[n]}})
  IN after[Len(all)]

(***************************************************************************)
(* The commands, tty_cmd_xxx: c has the cursor, region, count, background   *)
(* and lines of the screen it was made from. "again" asks for a redraw of  *)
(* the whole pane (redraw_cb).                                             *)
(***************************************************************************)
\* tty_redraw_region: a large region is left to the redraw of the pane.
RedrawRegion(d, c) ==
  IF c.rl - c.ru >= Sy \div 2 THEN <<[do |-> "again"]>>
  ELSE DrawLines(d, c.lines, c.ru, c.rl)

\* tty_cmd_insertcharacter and tty_cmd_deletecharacter.
CmdShift(d, c, n) ==
  IF ~FullWidth(d) \/ FakeBce(d, c.bg) THEN DrawLine(d, c.lines, c.cy)
  ELSE <<ToPen(c.bg), ToPane(d, c.cx, c.cy), ToSend("shift", n)>>

\* tty_cmd_insertline and tty_cmd_deleteline.
CmdLines(d, c, n) ==
  IF ~FullWidth(d) \/ FakeBce(d, c.bg) \/ ~Has(d, "csr") THEN RedrawRegion(d, c)
  ELSE <<ToPen(c.bg), RegionPane(d, c.ru, c.rl), MarginOff(d), ToPane(d, c.cx, c.cy),
         ToSend("lines", n), [do |-> "forget"]>>

Scrolls(d) == (FullWidth(d) \/ Has(d, "margins")) /\ Has(d, "csr")
Within(d, c) == <<ToPen(c.bg), RegionPane(d, c.ru, c.rl), MarginPane(d)>>

\* tty_cmd_reverseindex and tty_cmd_scrolldown. With the cursor past the last
\* column it is set beside the margins.
CmdDown(d, c) ==
  LET beside == Has(d, "margins") /\ c.cx = Sx /\ ~FullWidth(d)
  IN IF c.fn = "reverseindex" /\ c.cy # c.ru THEN <<>>
     ELSE IF ~Scrolls(d) THEN RedrawRegion(d, c)
     ELSE Within(d, c) \o <<ToAstray("pane", beside), ToPane(d, c.cx, c.ru),
                            ToSend("reverse index", c.n)>>

\* Variant: the region is not set.
CmdScrollUpAnywhere(d, c) ==
  <<ToPen(c.bg), ToCursor(0, d.sy - 1), ToSend("index", 1)>>

\* tty_cmd_scrollup: a line feed on the last line, or one sequence for many.
CmdScrollUp(d, c) ==
  IF ~Scrolls(d) THEN RedrawRegion(d, c)
  ELSE Within(d, c) \o
       (IF c.n = 1
          THEN <<ToCursor(IF Has(d, "margins") THEN d.xoff + Sx - 1 ELSE 0, d.yoff + c.rl),
                 ToSend("index", 1)>>
          ELSE <<[do |-> "line start"], ToSend("scroll", c.n)>>)

\* tty_cmd_clearendofscreen, tty_cmd_clearstartofscreen, tty_cmd_clearscreen: the
\* other lines and then the one with the cursor.
CmdClearScreen(d, c) ==
  LET start == c.fn = "clearstartofscreen"
      end == c.fn = "clearendofscreen"
      first == IF end THEN c.cy + 1 ELSE 0
      n == CASE end -> Sy - c.cy - 1 [] start -> c.cy [] OTHER -> Sy
      x == IF end THEN c.cx ELSE 0
      nx == CASE end -> Sx - c.cx [] start -> c.cx + 1 [] OTHER -> 0
  IN <<ToAstray("terminal", start /\ c.cx = Sx), ToPen(c.bg), RegionPane(d, 0, Sy - 1),
       MarginOff(d)>>
     \o ClearArea(d, d.yoff + first, n, d.xoff, Sx, c.bg)
     \o ClearLine(d, d.xoff + x, d.yoff + c.cy, nx, c.bg)

\* tty_cmd_cell and tty_cmd_cells.
CmdCell(d, c) ==
  LET wraps == d.xoff + c.cx > d.sx - 1 /\ c.cy = c.rl /\ FullWidth(d)
      redraw == DrawLine(d, c.lines, c.cy)
  IN (IF wraps THEN <<RegionPane(d, c.ru, c.rl)>> ELSE <<>>)
     \o <<MarginOff(d), [do |-> "unless wrap", c |-> c]>>
     \o (IF c.n = 2 THEN redraw
         ELSE <<ToPen(""), IF c.cells = <<"W">> THEN ToPutn(c.cells) ELSE ToPutc(c.cells[1])>>)
CmdCells(d, c) ==
  <<MarginOff(d), [do |-> "unless wrap", c |-> c], ToPen(""), ToPutn(c.cells)>>

\* tty_cmd_alignmenttest.
CmdAlignmentTest(d, c) ==
  <<ToPen(""), RegionPane(d, 0, Sy - 1), MarginOff(d)>>
  \o FlattenSeq([i \in 1..Sy |-> <<ToPane(d, 0, i - 1)>>
                                 \o [j \in 1..Sx |-> ToPutc("E")]])

Steps(d, c) ==
  CASE c.fn \in {"insertcharacter", "deletecharacter"} ->
         CmdShift(d, c, IF c.fn = "insertcharacter" THEN c.n ELSE -c.n)
    [] c.fn \in {"insertline", "deleteline"} ->
         CmdLines(d, c, IF c.fn = "deleteline" THEN c.n ELSE -c.n)
    [] c.fn \in {"reverseindex", "scrolldown"} -> CmdDown(d, c)
    [] c.fn = "scrollup" -> CmdScrollUp(d, c)
    [] c.fn = "clearcharacter" ->
         <<ToPen(c.bg)>> \o ClearLine(d, d.xoff + c.cx, d.yoff + c.cy, c.n, c.bg)
    [] c.fn \in {"clearendofscreen", "clearstartofscreen", "clearscreen"} ->
         CmdClearScreen(d, c)
    [] c.fn = "alignmenttest" -> CmdAlignmentTest(d, c)
    [] c.fn = "cell" -> CmdCell(d, c)
    [] c.fn = "cells" -> CmdCells(d, c)
Cmd(d, c) == Only({Do(d, steps) : steps \in {Steps(d, c)}})

\* tty_invalidate: nothing is known of the terminal, so all of it is set again.
Invalidate(d) ==
  LET blank == [d EXCEPT !.cx = Unknown, !.cy = Unknown, !.ru = Unknown,
                         !.rl = Unknown, !.ml = Unknown, !.mr = Unknown]
  IN Do(blank, <<ToPen(""), ToCursor(0, 0), RegionOff(d), MarginOff(d)>>)
=============================================================================
