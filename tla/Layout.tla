------------------------------- MODULE Layout ------------------------------
(***************************************************************************)
(* The layout of a window (layout.c, layout-set.c, layout-custom.c): a     *)
(* tree of cells. A leaf holds a pane; a node has its cells next to each   *)
(* other (LEFTRIGHT) or below each other (TOPBOTTOM) with one column or    *)
(* line for the border between two.                                        *)
(*                                                                         *)
(* A tree is a value here and a cell of it is named by its path: the       *)
(* indexes of the cells that lead to it from the root. Offsets are a       *)
(* function of the sizes, since everything that changes a tree ends in     *)
(* layout_fix_offsets, and Placed gives them. Floating panes are left out: *)
(* nothing in the code makes one.                                          *)
(***************************************************************************)
EXTENDS Integers, SequencesExt

CONSTANTS None,    \* NULL
          Status,  \* pane-border-status
          Main,    \* main-pane-width and main-pane-height
          Columns  \* tiled-layout-max-columns

ASSUME LayoutAssumption ==
  /\ Status \in {"off", "top", "bottom"}
  /\ Main \in Nat \ {0} /\ Columns \in Nat

\* Bound: stands for the number of values of a u_int.
UInt == 100000
Unsigned(n) == IF n < 0 THEN n + UInt ELSE n
Smaller(a, b) == IF a < b THEN a ELSE b
Larger(a, b) == IF a > b THEN a ELSE b

\* PANE_MINIMUM.
PaneMinimum == 1

Leaf(p, sx, sy) ==
  [type |-> "WINDOWPANE", sx |-> sx, sy |-> sy, cells |-> <<>>, wp |-> p]
Node(t, sx, sy, cells) ==
  [type |-> t, sx |-> sx, sy |-> sy, cells |-> cells, wp |-> None]

Types == {"LEFTRIGHT", "TOPBOTTOM"}
Across(t) == IF t = "LEFTRIGHT" THEN "TOPBOTTOM" ELSE "LEFTRIGHT"
Size(c, t) == IF t = "LEFTRIGHT" THEN c.sx ELSE c.sy
Sized(c, t, n) ==
  IF t = "LEFTRIGHT" THEN [c EXCEPT !.sx = n] ELSE [c EXCEPT !.sy = n]
Sum(s) == FoldLeft(+, 0, s)
\* The sequence of F(i) for the indexes i of s.
Each(s, F(_)) == SubSeq([i \in DOMAIN s |-> F(i)], 1, Len(s))
Sizes(c) == [i \in DOMAIN c.cells |-> Size(c.cells[i], c.type)]

RECURSIVE At(_, _), Put(_, _, _), Path(_, _), LeafSeq(_)
At(c, path) == IF path = <<>> THEN c ELSE At(c.cells[Head(path)], Tail(path))
Put(c, path, new) ==
  IF path = <<>> THEN new
  ELSE [c EXCEPT !.cells[Head(path)] = Put(@, Tail(path), new)]

\* The panes of a tree in its order, and the cells of which count is made.
LeafSeq(c) ==
  IF c.type = "WINDOWPANE" THEN <<c.wp>>
  ELSE FlattenSeq([i \in DOMAIN c.cells |-> LeafSeq(c.cells[i])])
Leaves(c) == Range(LeafSeq(c))

Path(c, p) ==
  IF c.type = "WINDOWPANE" THEN <<>>
  ELSE LET i == CHOOSE j \in DOMAIN c.cells : p \in Leaves(c.cells[j])
       IN <<i>> \o Path(c.cells[i], p)

RECURSIVE Relabel(_, _)
Relabel(c, f) ==
  IF c.type = "WINDOWPANE"
  THEN [c EXCEPT !.wp = IF @ \in DOMAIN f THEN f[@] ELSE @]
  ELSE [c EXCEPT !.cells = Each(@, LAMBDA i : Relabel(c.cells[i], f))]

-----------------------------------------------------------------------------
(***************************************************************************)
(* The cells at the edge of the window where pane-border-status puts a     *)
(* line (layout_cell_is_top and _is_bottom). e says of a cell that it is   *)
(* one of them; EdgeChild says it of the i-th of its cells.                *)
(***************************************************************************)
EdgeChild(c, i, e) ==
  /\ e
  /\ \/ c.type = "LEFTRIGHT"
     \/ i = (IF Status = "top" THEN 1 ELSE Len(c.cells))

RootEdge == Status # "off"

RECURSIVE EdgeAt(_, _, _)
EdgeAt(c, path, e) ==
  IF path = <<>> THEN e
  ELSE EdgeAt(c.cells[Head(path)], Tail(path), EdgeChild(c, Head(path), e))

\* layout_resize_check: how much can be taken from a cell.
RECURSIVE ResizeCheck(_, _, _)
ResizeCheck(c, t, e) ==
  LET checks == [i \in DOMAIN c.cells |->
                   ResizeCheck(c.cells[i], t, EdgeChild(c, i, e))]
      minimum == IF t = "TOPBOTTOM" /\ e THEN PaneMinimum + 1 ELSE PaneMinimum
  IN IF c.type = "WINDOWPANE" THEN Larger(Size(c, t) - minimum, 0)
     ELSE IF c.type = t THEN Sum(checks)
     ELSE Min(Range(checks))

\* Whether the loop of layout_resize_adjust ends for a change by n.
RECURSIVE Bounded(_, _, _, _)
Bounded(c, t, n, e) ==
  \/ n >= 0 \/ c.type = "WINDOWPANE"
  \/ c.type = t /\ -n <= ResizeCheck(c, t, e)
  \/ /\ c.type # t
     /\ \A i \in DOMAIN c.cells : Bounded(c.cells[i], t, n, EdgeChild(c, i, e))

\* layout_resize_adjust: change the size of a cell, evenly for the cells in
\* it, one by one as long as they can.
RECURSIVE ResizeAdjust(_, _, _, _), Spread(_, _, _, _)
ResizeAdjust(c, t, n, e) ==
  LET sized == Sized(c, t, Size(c, t) + n)
  IN IF c.type = t THEN Spread(sized, 1, n, e)
     ELSE [sized EXCEPT !.cells = Each(@, LAMBDA i :
             ResizeAdjust(c.cells[i], t, n, EdgeChild(c, i, e)))]

Spread(c, i, n, e) ==
  LET next == IF i = Len(c.cells) THEN 1 ELSE i + 1
      edge == EdgeChild(c, i, e)
      By(k) == [c EXCEPT !.cells[i] = ResizeAdjust(@, c.type, k, edge)]
  IN IF n = 0 THEN c
     ELSE IF n > 0 THEN Spread(By(1), next, n - 1, e)
     ELSE IF ResizeCheck(c.cells[i], c.type, edge) > 0
       THEN Spread(By(-1), next, n + 1, e)
     ELSE Spread(c, next, n, e)

\* layout_destroy_cell: the space goes to the cell before, to the cell after
\* for the first; a parent with one cell left is replaced by it.
DestroyCell(root, path) ==
  LET up == Front(path)
      parent == At(root, up)
      i == Last(path)
      other == IF i = 1 THEN 2 ELSE i - 1
      space == Size(parent.cells[i], parent.type) + 1
      grown == [parent EXCEPT !.cells[other] =
                  ResizeAdjust(@, parent.type, space, FALSE)]
      rest == RemoveAt(grown.cells, i)
  IN IF path = <<>> THEN None
     ELSE Put(root, up, IF Len(rest) = 1 THEN rest[1]
                        ELSE [grown EXCEPT !.cells = rest])

\* layout_resize. Never below the minimum; a layout at its minimum grows as
\* a whole.
LayoutResize(root, sx, sy) ==
  LET Change(c, t, n) ==
        Larger(n - Size(c, t), -ResizeCheck(c, t, RootEdge))
      x == ResizeAdjust(root, "LEFTRIGHT", Change(root, "LEFTRIGHT", sx), RootEdge)
  IN ResizeAdjust(x, "TOPBOTTOM", Change(x, "TOPBOTTOM", sy), RootEdge)

-----------------------------------------------------------------------------
\* The nearest node of a type above a cell; <<0>> if there is none.
RECURSIVE AncestorOf(_, _, _)
AncestorOf(root, path, t) ==
  IF path = <<>> THEN <<0>>
  ELSE IF At(root, Front(path)).type = t THEN Front(path)
  ELSE AncestorOf(root, Front(path), t)

\* layout_resize_pane_grow: from the first cell after it that can give, else
\* from the first one before it.
RECURSIVE Grow(_, _, _, _, _)
Grow(c, i, needed, opposite, e) ==
  LET check == [j \in DOMAIN c.cells |->
                  ResizeCheck(c.cells[j], c.type, EdgeChild(c, j, e))]
      after == {j \in DOMAIN c.cells : j > i /\ check[j] > 0}
      before == {j \in DOMAIN c.cells : j < i /\ check[j] > 0 /\ opposite}
      from == IF after # {} THEN Min(after) ELSE Max(before)
      size == Smaller(check[from], needed)
      changed == [c EXCEPT
        !.cells[i] = ResizeAdjust(@, c.type, size, EdgeChild(c, i, e)),
        !.cells[from] = ResizeAdjust(@, c.type, -size, EdgeChild(c, from, e))]
  IN IF needed = 0 \/ after \cup before = {} THEN c
     ELSE Grow(changed, i, needed - size, opposite, e)

\* layout_resize_pane_shrink: from the cell or the nearest before it that
\* can give, to the next one.
RECURSIVE Shrink(_, _, _, _)
Shrink(c, i, needed, e) ==
  LET check == [j \in DOMAIN c.cells |->
                  ResizeCheck(c.cells[j], c.type, EdgeChild(c, j, e))]
      giving == {j \in DOMAIN c.cells : j <= i /\ check[j] > 0}
      from == Max(giving)
      size == Smaller(check[from], needed)
      changed == [c EXCEPT
        !.cells[i + 1] = ResizeAdjust(@, c.type, size, EdgeChild(c, i + 1, e)),
        !.cells[from] = ResizeAdjust(@, c.type, -size, EdgeChild(c, from, e))]
  IN IF needed = 0 \/ giving = {} \/ i = Len(c.cells) THEN c
     ELSE Shrink(changed, i, needed - size, e)

\* layout_resize_layout, for the cell at a path.
ResizeLayout(root, path, change, opposite) ==
  LET up == Front(path)
      parent == At(root, up)
      e == EdgeAt(root, up, RootEdge)
  IN Put(root, up, IF change > 0 THEN Grow(parent, Last(path), change, opposite, e)
                   ELSE Shrink(parent, Last(path), -change, e))

\* layout_resize_pane: the border after the cell, or before the last one. up
\* is AncestorOf and path that of the pane.
ResizeBorder(root, up, path, change) ==
  LET i == path[Len(up) + 1]
      moved == IF i = Len(At(root, up).cells) THEN i - 1 ELSE i
  IN IF up = <<0>> THEN root
     ELSE ResizeLayout(root, Append(up, moved), change, TRUE)
ResizePane(root, p, t, change) ==
  ResizeBorder(root, AncestorOf(root, Path(root, p), t), Path(root, p), change)

\* layout_resize_pane_to: what the border is to move by.
ResizeChange(root, up, path, t, size) ==
  LET i == path[Len(up) + 1]
      now == Size(At(root, Append(up, i)), t)
  IN IF up = <<0>> THEN 0
     ELSE IF i = Len(At(root, up).cells) THEN now - size ELSE size - now
ResizePaneTo(root, p, t, size) ==
  ResizePane(root, p, t, ResizeChange(root, AncestorOf(root, Path(root, p), t),
                                      Path(root, p), t, size))

-----------------------------------------------------------------------------
\* layout_new_pane_size.
NewPaneSize(previous, c, t, size, left, available, e) ==
  LET used == Size(c, t) - ResizeCheck(c, t, e)
      minimum == Larger((PaneMinimum + 1) * (left - 1), used)
      new == (Size(c, t) * size) \div previous
  IN IF left = 1 THEN available
     ELSE Larger(Smaller(new, Unsigned(available - minimum)), PaneMinimum)

\* layout_set_size_check: whether a cell can have a size.
RECURSIVE SetSizeCheck(_, _, _, _)
SetSizeCheck(c, t, size, e) ==
  LET k == Len(c.cells)
      Step(acc, i) ==
        LET n == NewPaneSize(Size(c, t), c.cells[i], t, size, k - i + 1,
                             acc.left, EdgeChild(c, i, e))
            taken == IF i = k THEN n ELSE n + 1
        IN [left |-> acc.left - taken,
            ok |-> /\ acc.ok /\ taken <= acc.left
                   /\ SetSizeCheck(c.cells[i], t, n, EdgeChild(c, i, e))]
  IN IF c.type = "WINDOWPANE" THEN size >= PaneMinimum
     ELSE IF c.type = t
       THEN /\ size >= k * 2 - 1
            /\ FoldLeft(Step, [left |-> size, ok |-> TRUE],
                        [i \in 1..k |-> i]).ok
     ELSE \A i \in 1..k : \/ c.cells[i].type = "WINDOWPANE"
                          \/ SetSizeCheck(c.cells[i], t, size, EdgeChild(c, i, e))

\* layout_resize_child_cells: fit the cells of a node into its size.
RECURSIVE ResizeChildCells(_, _)
ResizeChildCells(c, e) ==
  LET k == Len(c.cells)
      previous == Sum(Sizes(c)) + k - 1
      Step(acc, i) ==
        LET child == c.cells[i]
            n == NewPaneSize(previous, child, c.type, Size(c, c.type), k - i + 1,
                             acc.left, EdgeChild(c, i, e))
            fit == Sized(Sized(child, c.type, n), Across(c.type),
                         Size(c, Across(c.type)))
        IN [left |-> Unsigned(acc.left - n - 1),
            cells |-> Append(acc.cells, ResizeChildCells(fit, EdgeChild(c, i, e)))]
  IN IF c.type = "WINDOWPANE" THEN c
     ELSE [c EXCEPT !.cells =
             FoldLeft(Step, [left |-> Size(c, c.type), cells |-> <<>>],
                      [i \in 1..k |-> i]).cells]

\* layout_split_pane: the sizes of the two cells. size is that of the new
\* one, or -1 for half.
SplitSizes(saved, size, before) ==
  LET half == ((saved + 1) \div 2) - 1
      asked == IF size < 0 THEN half
               ELSE IF before THEN Unsigned(saved - size - 1) ELSE size
      second == Smaller(Larger(asked, PaneMinimum), saved - 2)
  IN <<saved - 1 - second, second>>

\* layout_split_pane: the tree with a new leaf for pane q, None if there is
\* no space.
SplitPane(root, p, q, t, size, before, full) ==
  LET path == IF full THEN <<>> ELSE Path(root, p)
      c == At(root, path)
      edge == EdgeAt(root, path, RootEdge)
      needs == IF t = "TOPBOTTOM" /\ edge THEN PaneMinimum * 2 + 2
               ELSE PaneMinimum * 2 + 1
      sizes == SplitSizes(Size(c, t), size, before)
      keeps == sizes[IF before THEN 2 ELSE 1]
      other == sizes[IF before THEN 1 ELSE 2]
      old == Sized(c, t, keeps)
      new == Sized(Leaf(q, c.sx, c.sy), t, other)
      Pair(x) == IF before THEN <<new, x>> ELSE <<x, new>>
      up == Front(path)
      i == Last(path)
      parent == At(root, up)
  IN IF Size(c, t) < needs \/ (full /\ ~SetSizeCheck(c, t, keeps, edge)) THEN None
     ELSE IF path # <<>> /\ parent.type = t
       THEN Put(root, up, [parent EXCEPT !.cells =
              SubSeq(@, 1, i - 1) \o Pair(old) \o SubSeq(@, i + 1, Len(@))])
     ELSE IF full /\ c.type = t
       THEN LET fit == ResizeChildCells(old, edge).cells
            IN [c EXCEPT !.cells = IF before THEN <<new>> \o fit ELSE Append(fit, new)]
     ELSE Put(root, path, Node(t, c.sx, c.sy,
            Pair(IF full THEN ResizeChildCells(old, edge) ELSE old)))

-----------------------------------------------------------------------------
\* layout_spread_cell: what each cell is to change by; <<>> if it fails.
SpreadChanges(c, e) ==
  LET k == Len(c.cells)
      size == IF c.type = "TOPBOTTOM" /\ e THEN c.sy - 1 ELSE Size(c, c.type)
      each == (size - (k - 1)) \div k
      extra == size - k * (each + 1) + 1
      Line(i) == IF c.type = "TOPBOTTOM" /\ EdgeChild(c, i, e) THEN 1 ELSE 0
  IN IF k <= 1 \/ size < k - 1 \/ each = 0 THEN <<>>
     ELSE [i \in 1..k |-> each + Line(i) + (IF i <= extra THEN 1 ELSE 0)
                          - Size(c.cells[i], c.type)]

SpreadBounded(c, e) ==
  LET changes == SpreadChanges(c, e)
  IN \A i \in DOMAIN changes :
       Bounded(c.cells[i], c.type, changes[i], EdgeChild(c, i, e))

SpreadCell(c, e) ==
  LET changes == SpreadChanges(c, e)
  IN IF changes = <<>> THEN c
     ELSE [c EXCEPT !.cells = Each(@, LAMBDA i :
             ResizeAdjust(c.cells[i], c.type, changes[i], EdgeChild(c, i, e)))]

\* layout_spread_out: the nearest node above the pane where something
\* changes; <<0>> if there is none.
RECURSIVE SpreadAt(_, _)
SpreadAt(root, path) ==
  IF path = <<>> THEN <<0>>
  ELSE LET up == Front(path)
           changes == SpreadChanges(At(root, up), EdgeAt(root, up, RootEdge))
       IN IF \E i \in DOMAIN changes : changes[i] # 0 THEN up ELSE SpreadAt(root, up)

-----------------------------------------------------------------------------
(***************************************************************************)
(* The layouts with a name (layout-set.c), for the panes of a window in    *)
(* their order and its size.                                               *)
(***************************************************************************)
\* layout_set_even.
SetEven(t, panes, sx, sy) ==
  LET needs == Len(panes) * (PaneMinimum + 1) - 1
      x == IF t = "LEFTRIGHT" THEN Larger(needs, sx) ELSE sx
      y == IF t = "TOPBOTTOM" THEN Larger(needs, sy) ELSE sy
  IN SpreadCell(Node(t, x, y, Each(panes, LAMBDA i : Leaf(panes[i], sx, sy))),
                RootEdge)

\* layout_set_main_h and _v and the mirrored ones: one pane along t, the
\* others share the rest. Other-pane sizes are the default.
SetMain(t, mirrored, panes, sx, sy) ==
  LET others == Tail(panes)
      space == (IF t = "TOPBOTTOM" THEN sy ELSE sx) - 1
      main == IF Main + PaneMinimum < space THEN Main
              ELSE IF space <= PaneMinimum + PaneMinimum THEN PaneMinimum
              ELSE space - PaneMinimum
      other == IF Main + PaneMinimum < space THEN space - main ELSE PaneMinimum
      wide == Larger(Len(others) * (PaneMinimum + 1) - 1,
                     IF t = "TOPBOTTOM" THEN sx ELSE sy)
      Cell(p, n) == Sized(Sized(Leaf(p, 0, 0), t, n), Across(t), wide)
      Strip(p) == Sized(Sized(Leaf(p, 0, 0), t, other), Across(t), PaneMinimum)
      rest == IF Len(others) = 1 THEN Cell(others[1], other)
              ELSE SpreadCell([Cell(None, other) EXCEPT
                     !.type = Across(t),
                     !.cells = Each(others, LAMBDA i : Strip(others[i]))], RootEdge)
      first == Cell(panes[1], main)
      cells == IF mirrored THEN <<rest, first>> ELSE <<first, rest>>
  IN Sized(Sized(Node(t, 0, 0, cells), t, main + other + 1), Across(t), wide)

\* layout_set_tiled: how many rows and columns.
RECURSIVE Tiling(_, _, _)
Tiling(rows, columns, n) ==
  IF rows * columns >= n THEN <<rows, columns>>
  ELSE IF (rows + 1) * columns < n /\ (Columns = 0 \/ columns < Columns)
    THEN Tiling(rows + 1, columns + 1, n)
  ELSE Tiling(rows + 1, columns, n)

SetTiled(panes, sx, sy) ==
  LET n == Len(panes)
      rows == Tiling(1, 1, n)[1]
      columns == Tiling(1, 1, n)[2]
      width == Larger((sx - (columns - 1)) \div columns, PaneMinimum)
      height == Larger((sy - (rows - 1)) \div rows, PaneMinimum)
      Row(j) ==
        LET ps == SubSeq(panes, j * columns + 1, Smaller((j + 1) * columns, n))
            used == Len(ps) * (width + 1) - 1
            cells == Each(ps, LAMBDA i : Leaf(ps[i],
                       IF i = Len(ps) /\ sx > used THEN width + sx - used ELSE width,
                       height))
        IN IF n - j * columns = 1 \/ columns = 1 THEN Leaf(ps[1], sx, height)
           ELSE Node("LEFTRIGHT", sx, height, cells)
      filled == (n + columns - 1) \div columns
      used == rows * height + rows - 1
      cells == Each(SubSeq(panes, 1, filled), LAMBDA j :
                  IF j = filled /\ sy > used
                    THEN ResizeAdjust(Row(j - 1), "TOPBOTTOM", sy - used, FALSE)
                    ELSE Row(j - 1))
  IN Node("TOPBOTTOM", Larger((width + 1) * columns - 1, sx),
          Larger((height + 1) * rows - 1, sy), cells)

\* layout_sets.
LayoutSets == <<"even-horizontal", "even-vertical", "main-horizontal",
                "main-horizontal-mirrored", "main-vertical",
                "main-vertical-mirrored", "tiled">>

SetEvenH(panes, sx, sy) == SetEven("LEFTRIGHT", panes, sx, sy)
SetEvenV(panes, sx, sy) == SetEven("TOPBOTTOM", panes, sx, sy)
SetMainH(panes, sx, sy) == SetMain("TOPBOTTOM", FALSE, panes, sx, sy)
SetMainHMirrored(panes, sx, sy) == SetMain("TOPBOTTOM", TRUE, panes, sx, sy)
SetMainV(panes, sx, sy) == SetMain("LEFTRIGHT", FALSE, panes, sx, sy)
SetMainVMirrored(panes, sx, sy) == SetMain("LEFTRIGHT", TRUE, panes, sx, sy)

Arrange(name, panes, sx, sy) ==
  CASE name = "even-horizontal" -> SetEvenH(panes, sx, sy)
    [] name = "even-vertical" -> SetEvenV(panes, sx, sy)
    [] name = "main-horizontal" -> SetMainH(panes, sx, sy)
    [] name = "main-horizontal-mirrored" -> SetMainHMirrored(panes, sx, sy)
    [] name = "main-vertical" -> SetMainV(panes, sx, sy)
    [] name = "main-vertical-mirrored" -> SetMainVMirrored(panes, sx, sy)
    [] name = "tiled" -> SetTiled(panes, sx, sy)

-----------------------------------------------------------------------------
(***************************************************************************)
(* layout_dump and layout_parse. What is dumped is the tree; the panes are *)
(* assigned again in the order of the window.                              *)
(***************************************************************************)
RECURSIVE LayoutCheck(_)
LayoutCheck(c) ==
  \/ c.type = "WINDOWPANE"
  \/ /\ Size(c, c.type) = Sum(Sizes(c)) + Len(c.cells) - 1
     /\ \A i \in DOMAIN c.cells : /\ Size(c.cells[i], Across(c.type)) = Size(c, Across(c.type))
                                  /\ LayoutCheck(c.cells[i])

RECURSIVE CloseCells(_, _)
CloseCells(c, n) ==
  IF Len(LeafSeq(c)) = n THEN c
  ELSE CloseCells(DestroyCell(c, Path(c, Last(LeafSeq(c)))), n)

\* The root of a layout that is parsed takes its size from its cells.
Fitted(c) ==
  IF c.type = "WINDOWPANE" THEN c
  ELSE Sized(Sized(c, c.type, Sum(Sizes(c)) + Len(c.cells) - 1),
             Across(c.type), Size(Last(c.cells), Across(c.type)))

\* layout_assign.
Assign(c, order, panes) ==
  Relabel(c, [p \in Range(order) |-> panes[CHOOSE i \in DOMAIN order : order[i] = p]])

\* None if the layout has too few cells or its sizes do not fit.
Parsed(root, panes) ==
  IF LayoutCheck(root) THEN Assign(root, LeafSeq(root), panes) ELSE None
Parse(dumped, panes) ==
  IF Len(panes) > Len(LeafSeq(dumped)) THEN None
  ELSE Parsed(Fitted(CloseCells(dumped, Len(panes))), panes)

-----------------------------------------------------------------------------
\* layout_fix_offsets1: the leaves with their places.
RECURSIVE Placed(_, _, _)
Placed(c, x, y) ==
  LET Before(i) == Sum(SubSeq(Sizes(c), 1, i - 1)) + i - 1
  IN IF c.type = "WINDOWPANE"
       THEN {[wp |-> c.wp, x |-> x, y |-> y, sx |-> c.sx, sy |-> c.sy]}
     ELSE UNION {Placed(c.cells[i],
                        IF c.type = "LEFTRIGHT" THEN x + Before(i) ELSE x,
                        IF c.type = "TOPBOTTOM" THEN y + Before(i) ELSE y)
                 : i \in DOMAIN c.cells}

\* layout_search_by_border: the path of the cell before the border at a
\* position, <<0>> if there is none.
RECURSIVE SearchByBorder(_, _, _)
SearchByBorder(c, x, y) ==
  LET at == IF c.type = "LEFTRIGHT" THEN x ELSE y
      across == IF c.type = "LEFTRIGHT" THEN y ELSE x
      first == [i \in DOMAIN c.cells |-> Sum(SubSeq(Sizes(c), 1, i - 1)) + i - 1]
      inside == {i \in DOMAIN c.cells :
                   /\ at >= first[i] /\ at < first[i] + Sizes(c)[i]
                   /\ across >= 0 /\ across < Size(c.cells[i], Across(c.type))}
      borders == {i \in DOMAIN c.cells : i < Len(c.cells) /\ at = first[i + 1] - 1}
      i == CHOOSE j \in inside : TRUE
      below == IF c.type = "LEFTRIGHT"
                 THEN SearchByBorder(c.cells[i], x - first[i], y)
                 ELSE SearchByBorder(c.cells[i], x, y - first[i])
  IN IF c.type = "WINDOWPANE" THEN <<0>>
     ELSE IF inside # {} THEN IF below = <<0>> THEN <<0>> ELSE <<i>> \o below
     ELSE IF borders # {} THEN <<CHOOSE j \in borders : TRUE>>
     ELSE <<0>>
=============================================================================
