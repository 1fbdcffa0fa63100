----------------------------- MODULE PromptLine -----------------------------
(***************************************************************************)
(* The line of a prompt (status_prompt_key in status.c): the cursor, the   *)
(* words, what C-w has taken, the history that all prompts share and the   *)
(* completion of words.                                                    *)
(*                                                                         *)
(* Positions are those of the code, from 0. A character is Space, one of   *)
(* Separators or another; prompts that take one key or digits are in       *)
(* Prompts, where prompts begin and end.                                   *)
(***************************************************************************)
EXTENDS Integers, SequencesExt

CONSTANTS Space, Separators, Letters,
          Commands, Options, \* the names that complete a word, in their order
          MaxLines, \* bound on the lines that have been added to the history
          Instances \* the kinds of keys, see Features

Features == {"move", "kill", "history", "complete",
             "vi",      \* status-keys vi
             \* What goes wrong: the history gets shorter while a prompt is in it
             "shrink"}
Alphabet == {Space} \cup Separators \cup Letters

LineAssumption ==
  /\ Space \notin Separators
  /\ \A u \in Instances : u.uses \subseteq Features /\ {u.limit, u.max} \subseteq Nat

VARIABLES line,    \* [buffer, index, saved, mode, hindex]
          history, \* lines, the oldest first
          added,   \* how many have been
          what     \* the instance: [uses, limit, max]: prompt-history-limit and the
          \* bound on the length of a line

vars == <<line, history, added, what>>

Uses == what.uses
NotSaved == <<>>
Empty == [buffer |-> <<>>, index |-> 0, saved |-> NotSaved, mode |-> "entry", hindex |-> 0]

Init ==
  /\ what \in Instances
  /\ line = Empty /\ history = <<>> /\ added = 0

-----------------------------------------------------------------------------
(***************************************************************************)
(* Words: runs of separators or of other characters that are not spaces.   *)
(***************************************************************************)
Size(b) == Len(b)
At(b, i) == IF i < Len(b) THEN b[i + 1] ELSE "end"
IsSpace(b, i) == At(b, i) = Space
InList(seps, b, i) == At(b, i) \in seps
Slice(b, i, j) == SubSeq(b, i + 1, j) \* from i up to j - 1

\* The first position from i on, or the last back from it, where P is false.
SkipForward(b, i, P(_)) == Min({Size(b)} \cup {j \in i..Size(b) : ~P(j)})
SkipBack(i, P(_)) == Max({0} \cup {j \in 0..i : ~P(j)})
SameRun(b, seps, i, j) == ~IsSpace(b, j) /\ (InList(seps, b, j) <=> InList(seps, b, i))

\* status_prompt_forward_word.
ForwardWord(b, index, vi, seps) ==
  LET Blank(j) == IsSpace(b, j)
      i == IF vi THEN index ELSE SkipForward(b, index, Blank)
      Same(j) == SameRun(b, seps, i, j)
      j == SkipForward(b, i + 1, Same)
  IN IF i = Size(b) THEN i
     ELSE IF vi /\ IsSpace(b, j) THEN SkipForward(b, j, Blank) ELSE j

\* status_prompt_end_word.
EndWord(b, index, seps) ==
  LET Blank(j) == IsSpace(b, j)
      i == SkipForward(b, index + 1, Blank)
      Same(j) == SameRun(b, seps, i, j)
  IN IF index = Size(b) \/ i = Size(b) THEN Size(b) ELSE SkipForward(b, i + 1, Same) - 1

\* Variant: the character before the word as well.
BackwardWordFar(b, index, seps) ==
  LET Blank(j) == IsSpace(b, j)
      i == SkipBack(index - 1, Blank)
      before == {j \in 0..(i - 1) : ~SameRun(b, seps, i, j)}
  IN IF index = 0 \/ before = {} THEN 0 ELSE Max(before)

\* status_prompt_backward_word, and C-w.
BackwardWord(b, index, seps) ==
  LET Blank(j) == IsSpace(b, j)
      i == SkipBack(index - 1, Blank)
      before == {j \in 0..(i - 1) : ~SameRun(b, seps, i, j)}
  IN IF index = 0 \/ before = {} THEN 0 ELSE Max(before) + 1

-----------------------------------------------------------------------------
(***************************************************************************)
(* Completion.                                                             *)
(***************************************************************************)
\* status_prompt_complete_list: names that begin with a word; at_start: only
\* commands.
CompleteList(word, atStart) ==
  SelectSeq(IF atStart THEN Commands ELSE Commands \o Options, LAMBDA n : IsPrefix(word, n))

\* status_prompt_complete_prefix: the first name is cut where another has
\* something else, but not where another ends.
CompletePrefix(names) ==
  LET first == Head(names)
      differ == {j \in 1..Len(first) : \E k \in 2..Len(names) : j <= Len(names[k]) /\ names[k][j] # first[j]}
  IN IF differ = {} THEN first ELSE SubSeq(first, 1, Min(differ) - 1)

\* The word at the cursor: from first up to last.
FirstOf(b, index) ==
  LET i == IF index = 0 THEN 0 ELSE index - 1
      Not(j) == ~IsSpace(b, j)
      Blank(j) == IsSpace(b, j)
  IN SkipForward(b, SkipBack(i, Not), Blank)
LastOf(b, index) ==
  LET i == IF index = 0 THEN 0 ELSE index - 1
      Not(j) == ~IsSpace(b, j)
      Blank(j) == IsSpace(b, j)
      last == SkipBack(SkipForward(b, i, Not), Blank)
      end == SkipForward(b, i, Not)
  IN IF end = Size(b) THEN end ELSE last + 1

\* status_prompt_replace_complete with a word.
Replace(l, word) ==
  LET first == FirstOf(l.buffer, l.index)
      last == LastOf(l.buffer, l.index)
  IN IF last < first THEN l
     ELSE [l EXCEPT !.buffer = Slice(@, 0, first) \o word \o Slice(@, last, Size(@)),
                    !.index = first + Len(word)]

WordAt(l) == Slice(l.buffer, FirstOf(l.buffer, l.index), LastOf(l.buffer, l.index))
Names(l) == CompleteList(WordAt(l), FirstOf(l.buffer, l.index) = 0)

\* status_prompt_complete: what becomes of the line, with a menu if there are
\* several names and nothing to add.
Completions(l) ==
  LET word == WordAt(l)
      names == Names(l)
      out == IF Len(names) = 1 THEN Append(names[1], Space) ELSE CompletePrefix(names)
  IN IF LastOf(l.buffer, l.index) < FirstOf(l.buffer, l.index) \/ word = <<>> \/ names = <<>> THEN {l}
     ELSE IF out # word THEN {Replace(l, out)}
     ELSE {l} \cup {Replace(l, names[i]) : i \in DOMAIN names}

-----------------------------------------------------------------------------
(***************************************************************************)
(* The history.                                                            *)
(***************************************************************************)
\* status_prompt_add_history: a line that is the same as the last is not added,
\* and a limit that has been lowered takes effect.
Remembered(h, new) ==
  LET same == h # <<>> /\ h[Len(h)] = new
      longer == IF same THEN h ELSE Append(h, new)
  IN IF what.limit > Len(h) THEN longer
     ELSE IF h = <<>> THEN h
     ELSE SubSeq(longer, Len(longer) - what.limit + 1, Len(longer))

Shown(l, b) == [l EXCEPT !.buffer = b, !.index = Len(b)]
Recalled(h, n) == h[Len(h) - n + 1]

\* status_prompt_up_history and status_prompt_down_history.
Up(l) ==
  IF history = <<>> \/ l.hindex = Len(history) THEN l
  ELSE Shown([l EXCEPT !.hindex = @ + 1], Recalled(history, l.hindex + 1))
Down(l) ==
  IF history = <<>> \/ l.hindex <= 1 THEN Shown([l EXCEPT !.hindex = IF history = <<>> THEN @ ELSE 0], <<>>)
  ELSE Shown([l EXCEPT !.hindex = @ - 1], Recalled(history, l.hindex - 1))

-----------------------------------------------------------------------------
(***************************************************************************)
(* Keys.                                                                   *)
(***************************************************************************)
Insert(l, word) ==
  [l EXCEPT !.buffer = Slice(@, 0, l.index) \o word \o Slice(@, l.index, Size(@)), !.index = @ + Len(word)]
Cut(l, from, to) == [l EXCEPT !.buffer = Slice(@, 0, from) \o Slice(@, to, Size(@)), !.index = from]

KillWord(l) ==
  LET from == BackwardWord(l.buffer, l.index, Separators)
  IN [Cut(l, from, l.index) EXCEPT !.saved = <<Slice(l.buffer, from, l.index)>>]
\* status_prompt_paste: what has been saved, else the top buffer, which is left out.
Paste(l) == IF l.saved = NotSaved THEN l ELSE Insert(l, l.saved[1])

Transpose(l) ==
  LET i == IF l.index < Size(l.buffer) THEN l.index + 1 ELSE l.index
  IN IF i < 2 THEN l
     ELSE [l EXCEPT !.buffer = [@ EXCEPT ![i - 1] = l.buffer[i], ![i] = l.buffer[i - 1]], !.index = i]

To(l, i) == [l EXCEPT !.index = i]

\* What a key of the emacs keys makes of the line; Tab and Enter are actions.
Edited(l, key) ==
  LET b == l.buffer
      i == l.index
  IN CASE key = "Left" -> IF i > 0 THEN To(l, i - 1) ELSE l
       [] key = "Right" -> IF i < Size(b) THEN To(l, i + 1) ELSE l
       [] key = "Home" -> To(l, 0)
       [] key = "End" -> To(l, Size(b))
       [] key = "BSpace" -> IF i > 0 THEN Cut(l, i - 1, i) ELSE l
       [] key = "Delete" -> IF i < Size(b) THEN Cut(l, i, i + 1) ELSE l
       [] key = "C-u" -> [l EXCEPT !.buffer = <<>>, !.index = 0]
       [] key = "C-k" -> IF i < Size(b) THEN Cut(l, i, Size(b)) ELSE l
       [] key = "C-w" -> KillWord(l)
       [] key = "C-y" -> Paste(l)
       [] key = "C-t" -> Transpose(l)
       [] key = "M-f" -> To(l, ForwardWord(b, i, FALSE, Separators))
       [] key = "M-b" -> To(l, BackwardWord(b, i, Separators))
       [] key = "vi w" -> To(l, ForwardWord(b, i, TRUE, Separators))
       [] key = "vi W" -> To(l, ForwardWord(b, i, TRUE, {}))
       [] key = "vi e" -> To(l, EndWord(b, i, Separators))
       [] key = "vi E" -> To(l, EndWord(b, i, {}))
       [] key = "vi B" -> To(l, BackwardWord(b, i, {}))
       [] key = "Up" -> Up(l)
       [] key = "Down" -> Down(l)

\* status_prompt_translate_key for a prompt in command mode: the key that it
\* stands for, and the keys after which text is entered again.
ViKeys ==
  [A |-> "End", I |-> "Home", C |-> "C-k", D |-> "C-k", X |-> "BSpace", BSpace |-> "Left", b |-> "M-b", B |-> "vi B",
   d |-> "C-u", S |-> "C-u", e |-> "vi e", E |-> "vi E", w |-> "vi w", W |-> "vi W", p |-> "C-y", s |-> "Delete",
   x |-> "Delete", j |-> "Down", k |-> "Up", h |-> "Left", l |-> "Right", a |-> "Right", i |-> "none"]
EntersText == {"A", "I", "C", "S", "s", "a", "i"}

Moves == {"Left", "Right", "Home", "End", "M-f", "M-b"}
Kills == {"BSpace", "Delete", "C-u", "C-k", "C-w", "C-y", "C-t"}
KeysOf(mode) ==
  IF mode = "command" THEN DOMAIN ViKeys
  ELSE UNION {IF "move" \in Uses THEN Moves ELSE {}, IF "kill" \in Uses THEN Kills ELSE {},
              IF "history" \in Uses THEN {"Up", "Down", "C-u"} ELSE {},
              IF "complete" \in Uses THEN {"Left", "BSpace"} ELSE {}}
\* With vi keys M-f and M-b are no keys of an entry.
Known(key) == key \notin {"M-f", "M-b"} \/ "vi" \notin Uses

Unchanged == UNCHANGED <<history, added, what>>
Key(key) ==
  /\ key \in KeysOf(line.mode)
  /\ LET command == line.mode = "command"
         op == IF command THEN ViKeys[key] ELSE key
         x == IF op = "none" THEN line ELSE Edited(line, op)
     IN /\ Known(key)
        /\ Len(x.buffer) <= what.max
        /\ line' = IF command /\ key \in EntersText THEN [x EXCEPT !.mode = "entry"] ELSE x
  /\ Unchanged

Character(ch) ==
  /\ line.mode = "entry" /\ Size(line.buffer) < what.max
  /\ line' = Insert(line, <<ch>>)
  /\ Unchanged

\* Escape goes to command mode.
CommandMode ==
  /\ "vi" \in Uses /\ line.mode = "entry"
  /\ line' = [Edited(line, "Left") EXCEPT !.mode = "command"]
  /\ Unchanged

Tab ==
  /\ "complete" \in Uses /\ line.mode = "entry"
  /\ \E l \in Completions(line) : Len(l.buffer) <= what.max + 1 /\ line' = l
  /\ Unchanged

\* A prompt ends and another begins; the line may have been one of a prompt of
\* another client, whose prompt goes on.
MayBecome(h) ==
  /\ line.hindex > Len(h) => "shrink" \in Uses
  /\ history' = h
Enter ==
  /\ "history" \in Uses /\ line.buffer # <<>> /\ added < MaxLines
  /\ history' = Remembered(history, line.buffer) /\ added' = added + 1
  /\ line' = Empty
  /\ UNCHANGED what
OtherEnters(l) ==
  /\ "history" \in Uses /\ added < MaxLines
  /\ MayBecome(Remembered(history, l)) /\ added' = added + 1
  /\ UNCHANGED <<line, what>>
Cancel == line # Empty /\ line' = Empty /\ Unchanged

\* set-option prompt-history-limit, and clear-prompt-history.
SetLimit(n) ==
  /\ "history" \in Uses /\ n # what.limit /\ what' = [what EXCEPT !.limit = n]
  /\ UNCHANGED <<line, history, added>>
ClearHistory ==
  /\ "history" \in Uses /\ history # <<>> /\ MayBecome(<<>>)
  /\ UNCHANGED <<line, added, what>>

Next ==
  \/ \E key \in KeysOf(line.mode) : Key(key)
  \/ \E ch \in Alphabet : Character(ch)
  \/ CommandMode \/ Tab \/ Enter \/ Cancel
  \/ \E ch \in Letters : OtherEnters(<<ch>>)
  \/ \E n \in 0..2 : SetLimit(n)
  \/ ClearHistory

Spec == Init /\ [][Next]_vars

-----------------------------------------------------------------------------
(***************************************************************************)
(* Properties.                                                             *)
(***************************************************************************)
\* What words are: runs of one class of characters.
Class(b, seps, i) == IF IsSpace(b, i) THEN "space" ELSE IF InList(seps, b, i) THEN "separators" ELSE "word"
Starts(b, seps) ==
  {i \in 0..(Size(b) - 1) : ~IsSpace(b, i) /\ (i = 0 \/ Class(b, seps, i - 1) # Class(b, seps, i))}
Ends(b, seps) ==
  {i \in 1..Size(b) : ~IsSpace(b, i - 1) /\ (i = Size(b) \/ Class(b, seps, i) # Class(b, seps, i - 1))}
NextOf(positions, i, otherwise) == Min({j \in positions : j > i} \cup {otherwise})
PreviousOf(positions, i) == Max({j \in positions : j < i} \cup {0})

\* The cursor is in the line or behind it, and the place in the history is one
\* of its lines (status_prompt_up_history).
PlaceSound ==
  /\ line.index \in 0..Size(line.buffer)
  /\ line.hindex \in 0..Len(history)

\* Words are found for all of the motions and for C-w. "vi w" on a space skips
\* the word after it and is left out.
WordsAreFound ==
  LET b == line.buffer
      i == line.index
      n == Size(b)
  IN /\ ForwardWord(b, i, FALSE, Separators) = NextOf(Ends(b, Separators), i, n)
     /\ \A seps \in {Separators, {}} :
          /\ ~IsSpace(b, i) => ForwardWord(b, i, TRUE, seps) = NextOf(Starts(b, seps), i, n)
          /\ EndWord(b, i, seps) = (LET e == NextOf(Ends(b, seps), i + 1, n + 1) IN IF e > n THEN n ELSE e - 1)
          /\ BackwardWord(b, i, seps) = PreviousOf(Starts(b, seps), i)

\* What C-w has taken comes back with C-y.
KilledComesBack ==
  line.saved # NotSaved => Paste(KillWord(line)).buffer = line.buffer

\* A completion begins with what was typed, is one that all of the names that
\* begin with it have in common, and leaves the other words alone. A name that
\* begins with another one is left out.
CompletionFits ==
  LET word == WordAt(line)
      names == Names(line)
      first == FirstOf(line.buffer, line.index)
      after == Slice(line.buffer, LastOf(line.buffer, line.index), Size(line.buffer))
      distinct == \A i, j \in DOMAIN names : i # j => ~IsPrefix(names[i], names[j])
  IN "complete" \in Uses /\ distinct =>
       \A l \in Completions(line) \ {line} :
         LET new == Slice(l.buffer, first, l.index)
         IN /\ l.buffer = Slice(line.buffer, 0, first) \o new \o after
            /\ first = 0 \/ IsSpace(line.buffer, first - 1)
            /\ after = <<>> \/ after[1] = Space
            /\ IsPrefix(word, new)
            /\ \E i \in DOMAIN names : IsPrefix(new, Append(names[i], Space))

\* Wherever the cursor has been moved, words, what is killed and completions
\* are those of the line.
LineSound == PlaceSound /\ WordsAreFound /\ KilledComesBack /\ CompletionFits
=============================================================================
