---------------------------- MODULE MCScreenWrite ----------------------------
EXTENDS ScreenWrite

(***************************************************************************)
(* A pane of three lines on five terminals: on its own with and without    *)
(* back colour erase, beside another pane, below a status line with        *)
(* margins, to the right of another pane. Every instance may print and use *)
(* the kinds of sequences it names.                                        *)
(***************************************************************************)
Caps == {"el", "ech", "csr"}
Terminal(xoff, yoff, sx, sy, caps) ==
  [cx |-> Unknown, cy |-> Unknown, ru |-> Unknown, rl |-> Unknown, ml |-> Unknown,
   mr |-> Unknown, flags |-> {}, xoff |-> xoff, yoff |-> yoff, sx |-> sx, sy |-> sy,
   caps |-> caps, again |-> FALSE, astray |-> {},
   t |-> [rows |-> [i \in 1..sy |-> Each(sx, LAMBDA j : "?")], cx |-> 0, cy |-> 0,
          wrap |-> FALSE, sx |-> sx, sy |-> sy, ru |-> 0, rl |-> sy - 1, ml |-> 0,
          mr |-> sx - 1, bg |-> ""]]
Line(cells, wrapped) == [cells |-> cells, wrapped |-> wrapped]
Alone == Terminal(0, 0, Sx, Sy, Caps \cup {"bce"})
NoBce == Terminal(0, 0, Sx, Sy, Caps)
LeftPane == Terminal(0, 0, Sx + 1, Sy + 1, Caps \cup {"bce"})
LeftMargins == Terminal(0, 1, Sx + 1, Sy + 1, Caps \cup {"bce", "margins"})
RightPane == Terminal(2, 0, Sx + 2, Sy, Caps \cup {"bce", "margins"})
Text == <<Line(<<"a", "b", "c">>, TRUE), Line(<<"d", " ", " ">>, FALSE),
          Line(<<"e", "f", " ">>, FALSE)>>
Wide == <<Line(<<"a", "W", "P">>, TRUE), Line(<<"W", "P", "b">>, FALSE), Line(<<>>, FALSE)>>

Base == [kinds |-> {"text"}, ttys |-> <<Alone>>, lines |-> Text, cells |-> {"x"},
         colours |-> {""}, places |-> {}, most |-> 3]
MCInstances ==
  LET Places == {<<0, 0>>, <<1, 1>>, <<2, 2>>}
      With(on, kinds, lines, cells, colours, most) ==
        {[Base EXCEPT !.ttys = t, !.kinds = {"text"} \cup kinds, !.lines = lines,
                      !.cells = cells, !.colours = colours, !.places = Places,
                      !.most = most] : t \in on}
  IN With({<<Alone>>, <<LeftMargins>>}, {}, Wide, {"x", "W"}, {""}, 4)
     \cup With({<<NoBce>>, <<LeftPane>>, <<RightPane>>}, {}, Wide, {"x", "W"}, {""}, 3)
     \cup With({<<Alone>>, <<NoBce>>, <<LeftMargins>>}, {"to", "lines", "region"},
               Text, {"x"}, {""}, 3)
     \cup With({<<Alone>>, <<NoBce>>, <<RightPane>>}, {"to", "scroll", "clear screen"},
               Text, {"x"}, {"", "*"}, 3)
     \cup With({<<Alone>>, <<NoBce>>, <<LeftPane>>}, {"to", "characters", "clear line"},
               Text, {"x"}, {"", "*"}, 3)
     \cup With({<<Alone>>}, {"to", "INSERT", "WRAP", "align", "reset"},
               Text, {"x"}, {""}, 3)
     \cup With({<<Alone>>, <<LeftMargins>>}, {"cursor", "alternate", "SYNC"},
               Text, {"x"}, {""}, 3)
     \cup With({<<Alone, LeftMargins>>}, {"clients", "SYNC"}, Text, {"x"}, {""}, 3)
=============================================================================
