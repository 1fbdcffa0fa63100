------------------------------ MODULE MCCopyMode ------------------------------
EXTENDS CopyMode

Line(text, wrapped) == [text |-> text, wrapped |-> wrapped]
Pane(sx, sy, lines, cx, cy, hlimit) ==
  [g |-> [sx |-> sx, sy |-> sy, lines |-> lines, hscrolled |-> Len(lines) - sy, hlimit |-> hlimit, history |-> hlimit # 0],
   cx |-> cx, cy |-> cy]

Words ==
  Pane(4, 2, <<Line(<<"a", ".", " ", "b">>, TRUE), Line(<<"b", " ", "W", "P">>, FALSE), Line(<<>>, FALSE),
               Line(<<" ", "a", "(", ")">>, FALSE)>>, 1, 1, 9)

MCSizes == {<<4, 2>>, <<3, 2>>, <<4, 3>>, <<2, 2>>, <<6, 3>>}
MCOutput == {<<"a", "b">>}
Still ==
  Pane(4, 3, <<Line(<<"a", ".", " ", "b">>, TRUE), Line(<<"b", " ", "W", "P">>, FALSE), Line(<<"a">>, FALSE)>>, 1, 1, 9)

Text4 ==
  Pane(4, 4, <<Line(<<"(", "a", "(">>, FALSE), Line(<<>>, FALSE), Line(<<"a", ")", " ", "a">>, TRUE), Line(<<")">>, FALSE),
               Line(<<>>, FALSE), Line(<<"b">>, FALSE)>>, 1, 1, 9)
Wraps == Pane(4, 2, <<Line(<<"a", ".", " ", "b">>, TRUE), Line(<<"b", " ", "W", "P">>, TRUE), Line(<<"W", "P">>, FALSE), Line(<<"a">>, FALSE)>>, 1, 1, 9)
Use(kinds, p, most) == {[vi |-> vi, kinds |-> kinds, pane |-> p, most |-> most] : vi \in BOOLEAN}
MCInstances ==
  Use({"move", "line", "scroll"}, Words, 3)
  \cup Use({"move", "line", "select", "other end"}, Still, 3)
  \cup Use({"move", "select", "scroll"}, Words, 3)
  \cup Use({"text", "move"}, Text4, 3)
  \cup Use({"resize", "move"}, Wraps, 3)
  \cup Use({"view", "select", "move", "scroll"}, Words, 3)
  \cup Use({"mouse", "mode"}, Words, 3)
  \cup Use({"mark", "move", "scroll", "copy"}, Words, 3)
  \cup Use({"pane", "scroll"}, Words, 3)
=============================================================================
