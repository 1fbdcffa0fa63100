------------------------------ MODULE GridReader ------------------------------
(***************************************************************************)
(* The cursor of copy mode over the lines of a grid (grid-reader.c).  A    *)
(* position has a column x and a line y counted from the first line of the *)
(* history.  Loops of the code that walk until a cell of another kind are  *)
(* written as the first or last such position in the order of reading.     *)
(***************************************************************************)
EXTENDS Grid
LOCAL INSTANCE FiniteSetsExt

WhiteSpace == {" ", "T"}

At(x, y) == [x |-> x, y |-> y]

\* The kind of a cell: blank, separator or part of a word; with no separators
\* (next-space and its like) everything that is not blank is a word.
KindOf(c, separators) == IF c \in WhiteSpace THEN "white" ELSE IF c \in separators THEN "separator" ELSE "word"
Kind(g, separators, p) == KindOf(Cell(g, p.x, p.y), separators)

Before(p, q) == p.y < q.y \/ (p.y = q.y /\ p.x < q.x)
First(S) == CHOOSE p \in S : \A q \in S : p = q \/ Before(p, q)
Last(S) == CHOOSE p \in S : \A q \in S : p = q \/ Before(q, p)
FirstOr(S, p) == IF S = {} THEN p ELSE First(S)

-----------------------------------------------------------------------------
(* Single steps.                                                           *)

\* Leave the padding of a wide character.
Unpadded(g, p) ==
  At(Max({x \in 0..p.x : x = 0 \/ Cell(g, x, p.y) # "P"}), p.y)

RightTo(g, p, wrap, px) ==
  IF wrap /\ p.x >= px /\ p.y < LastLine(g) THEN At(0, p.y + 1)
  ELSE IF p.x >= px THEN p
  ELSE At(Min({x \in (p.x + 1)..px : x = px \/ Cell(g, x, p.y) # "P"}), p.y)

ReaderRight(g, p, wrap, all, onemore) ==
  RightTo(g, p, wrap, IF all THEN g.sx ELSE IF onemore THEN LineLength(g, p.y) ELSE Max({LineLength(g, p.y) - 1, 0}))

ReaderEndOfLine(g, p, wrap, all) ==
  LET y == IF wrap THEN Min({l \in p.y..LastLine(g) : l = LastLine(g) \/ ~IsWrapped(g, l)}) ELSE p.y
  IN  At(IF all THEN g.sx ELSE LineLength(g, y), y)

LeftOf(g, p, wrap) ==
  IF p.x = 0 /\ p.y > 0 /\ (wrap \/ IsWrapped(g, p.y - 1)) THEN At(LineLength(g, p.y - 1), p.y - 1)
  ELSE At(Max({p.x - 1, 0}), p.y)
ReaderLeft(g, p, wrap) == LeftOf(g, Unpadded(g, p), wrap)

\* The first line of the wrapped line that line y belongs to.
FirstOfWrapped(g, y) == Min({l \in 0..y : \A k \in l..(y - 1) : IsWrapped(g, k)})

ReaderStartOfLine(g, p, wrap) == At(0, IF wrap THEN FirstOfWrapped(g, p.y) ELSE p.y)

\* The first cell of the line that is not blank, or no move.
ReaderBackToIndentation(g, p) ==
  LET from == FirstOfWrapped(g, p.y)
      to == Min({l \in from..LastLine(g) : l = LastLine(g) \/ ~IsWrapped(g, l)})
  IN  FirstOr(UNION {{q \in [x : 0..(LineLength(g, l) - 1), y : {l}] :
                        Cell(g, q.x, q.y) \notin {" ", "T", "P"}} : l \in from..to}, p)

-----------------------------------------------------------------------------
(* Words.  Going forward the positions of a line end with its length, so   *)
(* that the end of a line counts as a blank, or with its last column when  *)
(* the line is wrapped.                                                    *)

LastColumn(g, y) == IF IsWrapped(g, y) THEN g.sx - 1 ELSE LineLength(g, y)
Forward(g) == UNION {[x : 0..LastColumn(g, y), y : {y}] : y \in 0..LastLine(g)}

\* Where grid_reader_handle_wrap gives up, past the end of the last line.
PastEnd(g, p) ==
  LET y == LastLine(g)
  IN  At(Max({LastColumn(g, y) + 1, IF p.y = y THEN p.x ELSE 0}), y)

\* The first position at or after p that is not of these kinds.
SkipKinds(g, separators, p, kinds) ==
  FirstOr({q \in Forward(g) : ~Before(q, p) /\ Kind(g, separators, q) \notin kinds}, PastEnd(g, p))

\* Past the rest of the word, or of the separators, at p.
PastWord(g, separators, p) ==
  IF p.x > LastColumn(g, p.y) \/ Kind(g, separators, p) = "white" THEN p
  ELSE SkipKinds(g, separators, At(p.x + 1, p.y), {Kind(g, separators, p)})

ReaderNextWord(g, p, separators) ==
  SkipKinds(g, separators, PastWord(g, separators, SkipKinds(g, separators, p, {})), {"white"})
ReaderNextWordEnd(g, p, separators) ==
  PastWord(g, separators, SkipKinds(g, separators, p, {"white"}))

\* A mutant: a word that begins on a line begins after the end of the one above.
CellAfterOnLine(g, q, p) == At(q.x + 1, q.y)

\* The cell of the word at p that comes first in its wrapped line.
CellAfter(g, q, p) ==
  IF q.x + 1 < g.sx \/ q.y = p.y THEN At(q.x + 1, q.y) ELSE At(0, q.y + 1)
WordStart(g, separators, p) ==
  Last({At(0, FirstOfWrapped(g, p.y))} \cup
       {CellAfter(g, q, p) : q \in {r \in [x : 0..(g.sx - 1), y : FirstOfWrapped(g, p.y)..p.y] :
                                   Before(r, p) /\ Kind(g, separators, r) # Kind(g, separators, p)}})

\* Where a step back to a word may end: at a cell that is not blank or, for
\* words selected with the mouse, at the end of a line with a tab at its end.
BackFrom(g, separators, p, already, stop_at_eol) ==
  {q \in {p} : ~already /\ Kind(g, separators, p) # "white"}
  \cup UNION {{q \in [x : 0..(IF y = p.y THEN p.x - 1 ELSE LineLength(g, y)), y : {y}] :
                 IF y < p.y /\ q.x = LineLength(g, y)
                 THEN stop_at_eol /\ q.x > 0 /\ Cell(g, q.x - 1, q.y) \in WhiteSpace
                 ELSE Kind(g, separators, q) # "white"} : y \in 0..p.y}
WordAt(g, separators, q) ==
  IF q.x >= LineLength(g, q.y) THEN q ELSE WordStart(g, separators, q)
ReaderPreviousWord(g, p, separators, already, stop_at_eol) ==
  WordAt(g, separators, Last({At(0, 0)} \cup BackFrom(g, separators, p, already, stop_at_eol)))

-----------------------------------------------------------------------------
(* Jumps to a character inside a wrapped line: a set with the position, or *)
(* empty.                                                                  *)

ReaderJump(g, p, char) ==
  LET to == Min({l \in p.y..LastLine(g) : l = LastLine(g) \/ ~IsWrapped(g, l)})
      there == UNION {{q \in [x : 0..(LineLength(g, y) - 1), y : {y}] :
                         ~Before(q, p) /\ Cell(g, q.x, q.y) = char} : y \in p.y..to}
  IN  IF there = {} THEN {} ELSE {First(there)}

ReaderJumpBack(g, p, char) ==
  LET there == UNION {{q \in [x : 0..(IF y = p.y THEN p.x ELSE LineLength(g, y) - 1), y : {y}] :
                         Cell(g, q.x, q.y) = char} : y \in FirstOfWrapped(g, p.y)..p.y}
  IN  IF there = {} THEN {} ELSE {Last(there)}
=============================================================================
