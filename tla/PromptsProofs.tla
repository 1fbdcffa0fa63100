---------------------------- MODULE PromptsProofs ---------------------------
(***************************************************************************)
(* Commands that wait for an answer are held by what is shown, for any     *)
(* number of commands and keys (PromptsSound), when nothing known to leave *)
(* one waiting is used.                                                    *)
(*                                                                         *)
(* A handler makes a state from a state, through others in which a command *)
(* waits and is not held, or has been told and is held. Sound is what is   *)
(* true after a handler, Good the part that is true all the time, and the  *)
(* lemmas say what each function does to both.                             *)
(***************************************************************************)
EXTENDS Prompts, FiniteSetTheorems, TLAPS

(***************************************************************************)
(* What is known to leave a command waiting: command-prompt -k or -N with  *)
(* several prompts and -1 with an input, a prompt that is set over another *)
(* one, and status_prompt_accept if it finds another prompt than the one   *)
(* it was queued for, which may not be the last (status_prompt_key,        *)
(* status_prompt_set).                                                     *)
(***************************************************************************)
Calm ==
  /\ how.uses \cap {"replace", "several keys", "given"} = {}
  /\ "mode" \notin how.uses \/ "several" \notin how.uses

Messages == [shown : BOOLEAN, stays : BOOLEAN, timer : BOOLEAN, ignore : BOOLEAN]
AllTypes == {"line", "single", "numeric", "key", "incremental", "bspace"}
AllPrompts ==
  [kind : {"command", "confirm", "mode"}, type : AllTypes, item : Nat, more : Nat, size : Nat,
   freezes : BOOLEAN, under : BOOLEAN]
AllOverlays ==
  [kind : {"panes", "menu", "popup", "tab"}, item : Nat, keys : BOOLEAN, timer : BOOLEAN,
   flags : SUBSET {"E", "EE", "k"}, job : BOOLEAN, status : Nat, menu : BOOLEAN]
Tables == UNION {[1..n -> [waits : BOOLEAN, ran : Nat]] : n \in Nat}
States ==
  [message : Messages, prompt : AllPrompts \cup {NoPrompt}, overlay : AllOverlays \cup {NoOverlay},
   pushed : Int, tty : SUBSET {"FREEZE", "NOCURSOR"}, client : {"attached", "readonly", "dead"},
   accepts : Nat, asked : Tables]

ItemOf(x) == IF x.kind = "none" THEN NoItem ELSE x.item
Waiting(st) == {i \in DOMAIN st.asked : st.asked[i].waits}

\* ShownIsThere, and why a message that goes leaves nothing behind: a prompt
\* that is under a message says so.
Screen(st) ==
  /\ st.pushed = Number(st.message.shown) + Number(st.prompt # NoPrompt)
  /\ st.client = "dead" => st.pushed = 0 /\ st.overlay = NoOverlay
  /\ st.message.shown /\ st.prompt # NoPrompt => st.prompt.under
  /\ ~(st.prompt # NoPrompt /\ st.prompt.under) =>
       /\ "FREEZE" \in st.tty => \/ st.message.shown
                                 \/ st.prompt # NoPrompt /\ st.prompt.freezes
                                 \/ st.overlay.kind \notin {"none", "popup"}
       /\ "NOCURSOR" \in st.tty => st.message.shown \/ st.overlay.kind = "panes"

\* What a prompt that closes at once may be: it is the last one, and empty.
\* The menu of completions is over a line.
Fits(st) ==
  /\ st.prompt # NoPrompt =>
       /\ st.prompt.kind # "command" => st.prompt.more = 0
       /\ st.prompt.type \in {"key", "numeric"} => st.prompt.more = 0
       /\ st.prompt.type = "single" => st.prompt.size = 0
       /\ st.overlay.kind = "tab" => st.prompt.type \notin {"single", "key", "numeric"}
  /\ st.overlay.kind = "tab" => st.overlay.item = NoItem

\* Features u that accept a prompt and that make several.
Limited(u, st) ==
  /\ st.accepts > 0 => "mode" \in u
  /\ st.prompt # NoPrompt /\ st.prompt.more > 0 => "several" \in u

\* The items that are held have a number, and their commands run once.
OnceRun(st) == \A i \in DOMAIN st.asked : st.asked[i].ran <= 1 /\ (st.asked[i].waits => st.asked[i].ran = 0)
Numbered(st) == {ItemOf(st.prompt), ItemOf(st.overlay)} \subseteq DOMAIN st.asked \cup {NoItem}

Good(u, st) == st \in States /\ Screen(st) /\ Fits(st) /\ Limited(u, st) /\ OnceRun(st) /\ Numbered(st)
Agree(st) ==
  /\ Waiting(st) = {ItemOf(st.prompt), ItemOf(st.overlay)} \ {NoItem}
  /\ ItemOf(st.prompt) = ItemOf(st.overlay) => ItemOf(st.prompt) = NoItem
Sound(u, st) == Good(u, st) /\ Agree(st)

PInv == Calm /\ Good(Uses, State) /\ (client # "dead" => Agree(State))

-----------------------------------------------------------------------------
(***************************************************************************)
(* Items.                                                                  *)
(***************************************************************************)
LEMMA TableIs ==
  ASSUME NEW t \in Tables
  PROVE \E n \in Nat : DOMAIN t = 1..n /\ t \in [1..n -> [waits : BOOLEAN, ran : Nat]]
BY DEF Tables

\* A handler that changes nothing but who waits and what has run.
Others(st, x) ==
  /\ x.message = st.message /\ x.prompt = st.prompt /\ x.overlay = st.overlay /\ x.pushed = st.pushed
  /\ x.tty = st.tty /\ x.client = st.client /\ x.accepts = st.accepts

LEMMA OthersGood ==
  ASSUME NEW u, NEW st, Good(u, st), NEW x \in States, Others(st, x),
         DOMAIN x.asked = DOMAIN st.asked,
         OnceRun(x)
  PROVE Good(u, x)
BY DEF Good, Others, Screen, Fits, Limited, Numbered

\* What is known of the entry of an item after it changes.
LEMMA Changed ==
  ASSUME NEW t \in Tables, NEW i, NEW e \in [waits : BOOLEAN, ran : Nat]
  PROVE /\ [t EXCEPT ![i] = e] \in Tables
        /\ DOMAIN [t EXCEPT ![i] = e] = DOMAIN t
        /\ \A j \in DOMAIN t : [t EXCEPT ![i] = e][j] = IF j = i THEN e ELSE t[j]
<1>1. PICK n \in Nat : DOMAIN t = 1..n /\ t \in [1..n -> [waits : BOOLEAN, ran : Nat]] BY TableIs
<1>2. [t EXCEPT ![i] = e] \in [1..n -> [waits : BOOLEAN, ran : Nat]] BY <1>1
<1> QED BY <1>1, <1>2 DEF Tables

LEMMA ContinueIs ==
  ASSUME NEW st \in States, NEW i \in DOMAIN st.asked \cup {NoItem}, NEW x, x = Continue(st, i)
  PROVE /\ x \in States /\ Others(st, x) /\ DOMAIN x.asked = DOMAIN st.asked
        /\ \A j \in DOMAIN st.asked :
             /\ x.asked[j].ran = st.asked[j].ran
             /\ x.asked[j].waits = (st.asked[j].waits /\ j # i)
<1>1. CASE i = NoItem
  <2>1. st.asked \in Tables BY DEF States
  <2>2. PICK n \in Nat : DOMAIN st.asked = 1..n /\ st.asked \in [1..n -> [waits : BOOLEAN, ran : Nat]]
    BY <2>1, TableIs
  <2>3. x = st BY <1>1 DEF Continue
  <2>4. Others(st, x) BY <2>3 DEF Others
  <2>5. \A j \in DOMAIN st.asked : j # NoItem /\ st.asked[j].waits \in BOOLEAN BY <2>2 DEF NoItem
  <2> QED BY <1>1, <2>3, <2>4, <2>5
<1>2. CASE i # NoItem
  <2>1. st.asked \in Tables BY DEF States
  <2>2. PICK n \in Nat : DOMAIN st.asked = 1..n /\ st.asked \in [1..n -> [waits : BOOLEAN, ran : Nat]]
    BY <2>1, TableIs
  <2> DEFINE e == [st.asked[i] EXCEPT !.waits = FALSE]
  <2>3. e \in [waits : BOOLEAN, ran : Nat] /\ e.waits = FALSE /\ e.ran = st.asked[i].ran BY <1>2, <2>2
  <2> DEFINE t == [st.asked EXCEPT ![i] = e]
  <2>4. x = [st EXCEPT !.asked = t] BY <1>2 DEF Continue
  <2>5. /\ t \in Tables /\ DOMAIN t = DOMAIN st.asked
        /\ \A j \in DOMAIN st.asked : t[j] = IF j = i THEN e ELSE st.asked[j]
    BY <2>1, <2>3, Changed
  <2> HIDE DEF t, e
  <2>6. x \in States /\ x.asked = t BY <2>4, <2>5 DEF States
  <2>7. Others(st, x) BY <2>4 DEF Others, States
  <2>8. \A j \in DOMAIN st.asked : st.asked[j].waits \in BOOLEAN BY <2>2
  <2> QED BY <2>3, <2>5, <2>6, <2>7, <2>8
<1> QED BY <1>1, <1>2

LEMMA RunIs ==
  ASSUME NEW st \in States, NEW i \in DOMAIN st.asked \cup {NoItem}, NEW x, x = Run(st, i)
  PROVE /\ x \in States /\ Others(st, x) /\ DOMAIN x.asked = DOMAIN st.asked
        /\ \A j \in DOMAIN st.asked :
             /\ x.asked[j].ran = IF j = i THEN st.asked[j].ran + 1 ELSE st.asked[j].ran
             /\ x.asked[j].waits = st.asked[j].waits
<1>1. CASE i = NoItem
  <2>1. st.asked \in Tables BY DEF States
  <2>2. PICK n \in Nat : DOMAIN st.asked = 1..n BY <2>1, TableIs
  <2>3. x = st BY <1>1 DEF Run
  <2>4. Others(st, x) BY <2>3 DEF Others
  <2>5. \A j \in DOMAIN st.asked : j # NoItem BY <2>2 DEF NoItem
  <2> QED BY <1>1, <2>3, <2>4, <2>5
<1>2. CASE i # NoItem
  <2>1. st.asked \in Tables BY DEF States
  <2>2. PICK n \in Nat : DOMAIN st.asked = 1..n /\ st.asked \in [1..n -> [waits : BOOLEAN, ran : Nat]]
    BY <2>1, TableIs
  <2> DEFINE e == [st.asked[i] EXCEPT !.ran = @ + 1]
  <2>3. /\ e \in [waits : BOOLEAN, ran : Nat] /\ e.waits = st.asked[i].waits
        /\ e.ran = st.asked[i].ran + 1
    BY <1>2, <2>2
  <2> DEFINE t == [st.asked EXCEPT ![i] = e]
  <2>4. x = [st EXCEPT !.asked = t] BY <1>2 DEF Run
  <2>5. /\ t \in Tables /\ DOMAIN t = DOMAIN st.asked
        /\ \A j \in DOMAIN st.asked : t[j] = IF j = i THEN e ELSE st.asked[j]
    BY <2>1, <2>3, Changed
  <2> HIDE DEF t, e
  <2>6. x \in States /\ x.asked = t BY <2>4, <2>5 DEF States
  <2>7. Others(st, x) BY <2>4 DEF Others, States
  <2> QED BY <2>3, <2>5, <2>6, <2>7
<1> QED BY <1>1, <1>2

LEMMA ContinueSound ==
  ASSUME NEW u, NEW st, Good(u, st), NEW i \in DOMAIN st.asked \cup {NoItem}, NEW x,
         x = Continue(st, i)
  PROVE /\ Good(u, x) /\ Others(st, x) /\ Waiting(x) = Waiting(st) \ {i}
        /\ DOMAIN x.asked = DOMAIN st.asked
<1>1. st \in States BY DEF Good
<1>2. /\ x \in States /\ Others(st, x) /\ DOMAIN x.asked = DOMAIN st.asked
      /\ \A j \in DOMAIN st.asked :
           /\ x.asked[j].ran = st.asked[j].ran
           /\ x.asked[j].waits = (st.asked[j].waits /\ j # i)
  BY <1>1, ContinueIs
<1>3. OnceRun(x) BY <1>2 DEF Good, OnceRun
<1>4. Waiting(x) = Waiting(st) \ {i} BY <1>2 DEF Waiting
<1> QED BY <1>2, <1>3, <1>4, OthersGood

\* The commands of an item that waits run, and it goes on.
LEMMA RunAndContinue ==
  ASSUME NEW u, NEW st, Good(u, st), NEW i \in Waiting(st) \cup {NoItem}, NEW x,
         x = Continue(Run(st, i), i)
  PROVE /\ Good(u, x) /\ Others(st, x) /\ Waiting(x) = Waiting(st) \ {i}
        /\ DOMAIN x.asked = DOMAIN st.asked
<1> DEFINE r == Run(st, i)
<1>1. st \in States /\ i \in DOMAIN st.asked \cup {NoItem} BY DEF Good, Waiting
<1>2. /\ r \in States /\ Others(st, r) /\ DOMAIN r.asked = DOMAIN st.asked
      /\ \A j \in DOMAIN st.asked :
           /\ r.asked[j].ran = IF j = i THEN st.asked[j].ran + 1 ELSE st.asked[j].ran
           /\ r.asked[j].waits = st.asked[j].waits
  BY <1>1, RunIs
<1>3. x = Continue(r, i) OBVIOUS
<1> HIDE DEF r
<1>4. /\ x \in States /\ Others(r, x) /\ DOMAIN x.asked = DOMAIN r.asked
      /\ \A j \in DOMAIN r.asked :
           /\ x.asked[j].ran = r.asked[j].ran
           /\ x.asked[j].waits = (r.asked[j].waits /\ j # i)
  BY <1>1, <1>2, <1>3, ContinueIs
<1>5. Others(st, x) BY <1>2, <1>4 DEF Others
<1>6. st.asked \in Tables BY <1>1 DEF States
<1>7. PICK n \in Nat : DOMAIN st.asked = 1..n /\ st.asked \in [1..n -> [waits : BOOLEAN, ran : Nat]]
  BY <1>6, TableIs
<1>a. ASSUME NEW j \in DOMAIN st.asked
  PROVE x.asked[j].ran <= 1 /\ (x.asked[j].waits => x.asked[j].ran = 0)
  <2>1. st.asked[j].ran \in Nat /\ st.asked[j].ran <= 1 /\ (st.asked[j].waits => st.asked[j].ran = 0)
    BY <1>7, <1>a DEF Good, OnceRun
  <2>2. CASE j = i
    <3>1. st.asked[j].waits BY <1>7, <1>a, <2>2 DEF Waiting, NoItem
    <3>2. x.asked[j].ran = st.asked[j].ran + 1 BY <1>2, <1>4, <2>2
    <3>3. x.asked[j].waits = FALSE BY <1>2, <1>4, <2>2
    <3>4. st.asked[j].ran = 0 BY <2>1, <3>1
    <3>5. x.asked[j].ran <= 1 BY <3>2, <3>4
    <3> QED BY <3>3, <3>5
  <2>3. CASE j # i BY <1>2, <1>4, <2>1, <2>3
  <2> QED BY <2>2, <2>3
<1>8. OnceRun(x) BY <1>2, <1>4, <1>a DEF OnceRun
<1>9. Waiting(x) = Waiting(st) \ {i} BY <1>2, <1>4 DEF Waiting
<1> QED BY <1>2, <1>4, <1>5, <1>8, <1>9, OthersGood

-----------------------------------------------------------------------------
(***************************************************************************)
(* What is shown and cleared.                                              *)
(***************************************************************************)
\* No prompt and no overlay is one of those that are there.
LEMMA Nones ==
  /\ \A p \in AllPrompts \cup {NoPrompt} : p.kind = "none" <=> p = NoPrompt
  /\ \A o \in AllOverlays \cup {NoOverlay} : o.kind = "none" <=> o = NoOverlay
BY DEF AllPrompts, AllOverlays, NoPrompt, NoOverlay

LEMMA MessageClearSound ==
  ASSUME NEW u, NEW st, Good(u, st), NEW x, x = MessageClear(st)
  PROVE /\ Good(u, x) /\ ~x.message.shown
        /\ x.prompt = st.prompt /\ x.overlay = st.overlay /\ x.asked = st.asked
        /\ x.client = st.client /\ x.accepts = st.accepts
<1>1. st \in States /\ Screen(st) BY DEF Good
<1>2. CASE ~st.message.shown BY <1>1, <1>2 DEF MessageClear, States, Messages
<1>3. CASE st.message.shown
  <2>1. x = [st EXCEPT !.message.shown = FALSE, !.tty = IF st.prompt = NoPrompt THEN {} ELSE @,
                     !.pushed = @ - 1]
    BY <1>1, <1>3 DEF MessageClear, Pop, States
  <2> DEFINE m == [st.message EXCEPT !.shown = FALSE]
             t == IF st.prompt = NoPrompt THEN {} ELSE st.tty
             n == st.pushed - 1
  <2>1a. st.message \in Messages /\ st.tty \in SUBSET {"FREEZE", "NOCURSOR"} /\ st.pushed \in Int
    BY <1>1 DEF States
  <2>1b. m \in Messages /\ m.shown = FALSE BY <2>1a DEF Messages
  <2>1c. t \in SUBSET {"FREEZE", "NOCURSOR"} BY <2>1a
  <2>1d. n \in Int BY <2>1a
  <2>a. m \in Messages /\ ~m.shown /\ t \in SUBSET {"FREEZE", "NOCURSOR"} /\ n \in Int
    BY <2>1b, <2>1c, <2>1d
  <2>b. x = [st EXCEPT !.message = m, !.tty = t, !.pushed = n] BY <1>1, <2>1 DEF States
  <2> HIDE DEF m, t, n
  <2>c. /\ x \in States /\ x.message = m /\ x.pushed = n /\ x.tty = t
        /\ x.prompt = st.prompt /\ x.overlay = st.overlay /\ x.asked = st.asked
        /\ x.client = st.client /\ x.accepts = st.accepts
    BY <1>1, <2>a, <2>b DEF States
  <2>2. /\ x \in States /\ ~x.message.shown
        /\ x.prompt = st.prompt /\ x.overlay = st.overlay /\ x.asked = st.asked
        /\ x.client = st.client /\ x.accepts = st.accepts
        /\ x.pushed = st.pushed - 1 /\ x.tty = IF st.prompt = NoPrompt THEN {} ELSE st.tty
    BY <2>a, <2>c DEF m, t, n
  <2>3. Screen(x) BY <1>1, <1>3, <2>2 DEF Screen, Number, States
  <2>4. Fits(x) /\ Limited(u, x) /\ OnceRun(x) /\ Numbered(x)
    BY <2>2 DEF Good, Fits, Limited, OnceRun, Numbered
  <2> QED BY <2>2, <2>3, <2>4 DEF Good
<1> QED BY <1>2, <1>3

LEMMA PromptClearSound ==
  ASSUME NEW u, NEW st, Good(u, st), NEW x, x = PromptClear(st)
  PROVE /\ Good(u, x) /\ x.prompt = NoPrompt
        /\ x.message = st.message /\ x.overlay = st.overlay /\ x.asked = st.asked
        /\ x.client = st.client /\ x.accepts = st.accepts
<1>1. st \in States /\ Screen(st) BY DEF Good
<1>2. CASE st.prompt = NoPrompt BY <1>1, <1>2 DEF PromptClear
<1>3. CASE st.prompt # NoPrompt
  <2>1. x = [st EXCEPT !.prompt = NoPrompt, !.tty = {}, !.pushed = @ - 1]
    BY <1>1, <1>3 DEF PromptClear, Pop, States
  <2> DEFINE n == st.pushed - 1
  <2>a. n \in Int BY <1>1 DEF States
  <2>b. x = [st EXCEPT !.prompt = NoPrompt, !.tty = {}, !.pushed = n] BY <1>1, <2>1 DEF States
  <2> HIDE DEF n
  <2>c. /\ x \in States /\ x.prompt = NoPrompt
        /\ x.message = st.message /\ x.overlay = st.overlay /\ x.asked = st.asked
        /\ x.client = st.client /\ x.accepts = st.accepts
        /\ x.pushed = n /\ x.tty = {}
    BY <1>1, <2>a, <2>b DEF States
  <2>2. /\ x \in States /\ x.prompt = NoPrompt
        /\ x.message = st.message /\ x.overlay = st.overlay /\ x.asked = st.asked
        /\ x.client = st.client /\ x.accepts = st.accepts
        /\ x.pushed = st.pushed - 1 /\ x.tty = {}
    BY <2>c DEF n
  <2>3. Screen(x) BY <1>1, <1>3, <2>2 DEF Screen, Number, States
  <2>4. Fits(x) /\ Limited(u, x) /\ OnceRun(x) BY <2>2 DEF Good, Fits, Limited, OnceRun
  <2>5. Numbered(x) BY <2>2 DEF Good, Numbered, ItemOf, NoPrompt
  <2> QED BY <2>2, <2>3, <2>4, <2>5 DEF Good
<1> QED BY <1>2, <1>3

\* An overlay that goes, when its item has been told.
Bare(f) == [f EXCEPT !.overlay = NoOverlay, !.tty = {}]
LEMMA BareSound ==
  ASSUME NEW u, NEW f, Good(u, f), NEW x, x = Bare(f)
  PROVE /\ Good(u, x) /\ x.overlay = NoOverlay
        /\ x.message = f.message /\ x.prompt = f.prompt /\ x.asked = f.asked
        /\ x.client = f.client /\ x.accepts = f.accepts
<1>1. f \in States BY DEF Good
<1>2. /\ x \in States /\ x.overlay = NoOverlay /\ x.tty = {} /\ x.pushed = f.pushed
      /\ x.message = f.message /\ x.prompt = f.prompt /\ x.asked = f.asked
      /\ x.client = f.client /\ x.accepts = f.accepts
  BY <1>1 DEF States, Bare
<1>3. Screen(x) BY <1>2 DEF Good, Screen
<1>4. Fits(x) /\ Limited(u, x) /\ OnceRun(x) BY <1>2 DEF Good, Fits, Limited, OnceRun, NoOverlay
<1>5. Numbered(x) BY <1>2 DEF Good, Numbered, ItemOf, NoOverlay
<1> QED BY <1>2, <1>3, <1>4, <1>5 DEF Good

LEMMA OverlayClearSound ==
  ASSUME NEW u, NEW st, Good(u, st), NEW x, x = OverlayClear(st)
  PROVE /\ Good(u, x) /\ x.overlay = NoOverlay
        /\ x.message = st.message /\ x.prompt = st.prompt
        /\ Waiting(x) = Waiting(st) \ {ItemOf(st.overlay)} /\ DOMAIN x.asked = DOMAIN st.asked
        /\ x.client = st.client /\ x.accepts = st.accepts
<1>1. st \in States /\ Screen(st) BY DEF Good
<1>2. CASE st.overlay = NoOverlay
  <2>1. st.asked \in Tables BY <1>1 DEF States
  <2>2. PICK n \in Nat : DOMAIN st.asked = 1..n BY <2>1, TableIs
  <2>3. NoItem \notin Waiting(st) BY <2>2 DEF Waiting, NoItem
  <2>4. x = st BY <1>2 DEF OverlayClear
  <2>5. ItemOf(st.overlay) = NoItem BY <1>2 DEF ItemOf, NoOverlay
  <2> QED BY <1>2, <2>3, <2>4, <2>5
<1>3. CASE st.overlay # NoOverlay
  <2> DEFINE f == Continue(st, st.overlay.item)
  <2>1. ItemOf(st.overlay) = st.overlay.item /\ st.overlay.item \in DOMAIN st.asked \cup {NoItem}
    BY <1>1, <1>3, Nones DEF Good, Numbered, ItemOf, States
  <2>2. /\ Good(u, f) /\ Others(st, f) /\ Waiting(f) = Waiting(st) \ {ItemOf(st.overlay)}
        /\ DOMAIN f.asked = DOMAIN st.asked
    BY <2>1, ContinueSound
  <2>3. x = Bare(f) BY <1>3 DEF OverlayClear, OverlayFree, Bare
  <2> HIDE DEF f
  <2>4. /\ Good(u, x) /\ x.overlay = NoOverlay
        /\ x.message = f.message /\ x.prompt = f.prompt /\ x.asked = f.asked
        /\ x.client = f.client /\ x.accepts = f.accepts
    BY <2>2, <2>3, BareSound
  <2>5. Waiting(x) = Waiting(f) BY <2>4 DEF Waiting
  <2> QED BY <2>2, <2>4, <2>5 DEF Others
<1> QED BY <1>2, <1>3

LEMMA PushIs ==
  ASSUME NEW st \in States, NEW x, x = Push(st)
  PROVE /\ x \in States /\ x.pushed = st.pushed + 1
        /\ x.message = st.message /\ x.prompt = st.prompt /\ x.overlay = st.overlay /\ x.tty = st.tty
        /\ x.client = st.client /\ x.accepts = st.accepts /\ x.asked = st.asked
<1> DEFINE n == st.pushed + 1
<1>1. st.pushed \in Int BY DEF States
<1>2. n \in Int BY <1>1
<1>3. x = [st EXCEPT !.pushed = n] BY DEF Push, States
<1> HIDE DEF n
<1>4. /\ x \in States /\ x.pushed = n
      /\ x.message = st.message /\ x.prompt = st.prompt /\ x.overlay = st.overlay /\ x.tty = st.tty
      /\ x.client = st.client /\ x.accepts = st.accepts /\ x.asked = st.asked
  BY <1>2, <1>3 DEF States
<1> QED BY <1>4 DEF n

LEMMA MessageSetSound ==
  ASSUME NEW u, NEW st, Good(u, st), st.client # "dead", NEW stays \in BOOLEAN,
         NEW ignore \in BOOLEAN,
         NEW freezes \in BOOLEAN, NEW x, x = MessageSet(st, stays, ignore, freezes)
  PROVE /\ Good(u, x) /\ x.asked = st.asked /\ x.overlay = st.overlay
        /\ ItemOf(x.prompt) = ItemOf(st.prompt) /\ x.client = st.client
<1> DEFINE a == MessageClear(st)
           b == Push(a)
<1>0. a = MessageClear(st) /\ b = Push(a) OBVIOUS
<1> HIDE DEF a, b
<1>1. /\ Good(u, a) /\ ~a.message.shown /\ a.prompt = st.prompt /\ a.overlay = st.overlay
      /\ a.asked = st.asked /\ a.client = st.client
  BY <1>0, MessageClearSound
<1>2. /\ a \in States /\ a.message \in Messages /\ a.prompt \in AllPrompts \cup {NoPrompt}
      /\ a.pushed \in Int
      /\ a.tty \in SUBSET {"FREEZE", "NOCURSOR"}
  BY <1>1 DEF Good, States
<1>3. /\ b \in States /\ b.pushed = a.pushed + 1
      /\ b.message = a.message /\ b.prompt = a.prompt /\ b.overlay = a.overlay /\ b.tty = a.tty
      /\ b.client = a.client /\ b.accepts = a.accepts /\ b.asked = a.asked
  BY <1>0, <1>2, PushIs
<1> DEFINE m == [shown |-> TRUE, stays |-> stays, timer |-> IF stays THEN a.message.timer ELSE TRUE,
                 ignore |-> IF stays THEN a.message.ignore ELSE ignore]
           t == a.tty \cup {"NOCURSOR"} \cup (IF freezes THEN {"FREEZE"} ELSE {})
           p == IF a.prompt = NoPrompt THEN a.prompt ELSE [a.prompt EXCEPT !.under = TRUE]
<1>4. x = [b EXCEPT !.message = m, !.tty = t, !.prompt = p]
  BY <1>0, <1>3 DEF MessageSet, States
<1>5. m \in Messages /\ m.shown = TRUE BY <1>2 DEF Messages
<1>6. t \in SUBSET {"FREEZE", "NOCURSOR"} BY <1>2
<1>7. /\ p \in AllPrompts \cup {NoPrompt} /\ (p = NoPrompt <=> a.prompt = NoPrompt)
      /\ ItemOf(p) = ItemOf(a.prompt)
      /\ p # NoPrompt => /\ p.under = TRUE /\ p.kind = a.prompt.kind /\ p.type = a.prompt.type
                         /\ p.more = a.prompt.more /\ p.size = a.prompt.size
  <2>1. CASE a.prompt = NoPrompt BY <2>1
  <2>2. CASE a.prompt # NoPrompt
    <3>1. /\ p \in AllPrompts /\ p.kind = a.prompt.kind /\ p.item = a.prompt.item /\ p.under = TRUE
          /\ p.type = a.prompt.type /\ p.more = a.prompt.more /\ p.size = a.prompt.size
      BY <1>2, <2>2 DEF AllPrompts
    <3>2. p.kind # "none" /\ a.prompt.kind # "none" /\ p # NoPrompt BY <1>2, <2>2, <3>1, Nones
    <3> HIDE DEF p
    <3> QED BY <2>2, <3>1, <3>2 DEF ItemOf
  <2> QED BY <2>1, <2>2
<1> HIDE DEF m, t, p
<1>8. /\ x \in States /\ x.message = m /\ x.tty = t /\ x.prompt = p /\ x.pushed = b.pushed
      /\ x.overlay = b.overlay
      /\ x.asked = b.asked /\ x.client = b.client /\ x.accepts = b.accepts
  BY <1>3, <1>4, <1>5, <1>6, <1>7 DEF States
<1>9. /\ x \in States /\ x.message = m /\ x.tty = t /\ x.prompt = p /\ x.pushed = a.pushed + 1
      /\ x.overlay = a.overlay
      /\ x.asked = a.asked /\ x.client = a.client /\ x.accepts = a.accepts
  BY <1>3, <1>8
<1>10. Screen(x)
  <2>1. Screen(a) BY <1>1 DEF Good
  <2> QED BY <1>1, <1>5, <1>7, <1>9, <2>1 DEF Screen, Number
<1>11. Fits(x) /\ Limited(u, x) /\ OnceRun(x) /\ Numbered(x)
  BY <1>1, <1>7, <1>9 DEF Good, Fits, Limited, OnceRun, Numbered
<1> QED BY <1>1, <1>7, <1>9, <1>10, <1>11 DEF Good

LEMMA OverlaySetSound ==
  ASSUME NEW u, NEW st, Good(u, st), st.client # "dead", NEW o \in AllOverlays,
         o.item \in DOMAIN st.asked \cup {NoItem},
         o.kind = "tab" =>
           o.item = NoItem /\ (st.prompt # NoPrompt => st.prompt.type \notin {"single", "key", "numeric"}),
         NEW x, x = OverlaySet(st, o)
  PROVE /\ Good(u, x) /\ x.overlay = o /\ x.prompt = st.prompt
        /\ Waiting(x) = Waiting(st) \ {ItemOf(st.overlay)} /\ x.client = st.client
<1> DEFINE a == OverlayClear(st)
<1>0. a = OverlayClear(st) OBVIOUS
<1> HIDE DEF a
<1> DEFINE t == a.tty \cup (IF o.kind # "popup" THEN {"FREEZE"} ELSE {})
                \cup (IF o.kind = "panes" THEN {"NOCURSOR"} ELSE {})
<1>1. /\ Good(u, a) /\ a.overlay = NoOverlay /\ a.prompt = st.prompt /\ a.client = st.client
      /\ Waiting(a) = Waiting(st) \ {ItemOf(st.overlay)} /\ DOMAIN a.asked = DOMAIN st.asked
  BY <1>0, OverlayClearSound
<1>2. a \in States /\ a.tty \in SUBSET {"FREEZE", "NOCURSOR"} BY <1>1 DEF Good, States
<1>3. x = [a EXCEPT !.overlay = o, !.tty = t] BY <1>0, <1>2 DEF OverlaySet, States
<1>4. t \in SUBSET {"FREEZE", "NOCURSOR"} BY <1>2
<1>5. /\ "FREEZE" \in t => "FREEZE" \in a.tty \/ o.kind # "popup"
      /\ "NOCURSOR" \in t => "NOCURSOR" \in a.tty \/ o.kind = "panes"
  OBVIOUS
<1> HIDE DEF t
<1>6. /\ x \in States /\ x.overlay = o /\ x.tty = t /\ x.prompt = a.prompt /\ x.message = a.message
      /\ x.pushed = a.pushed /\ x.asked = a.asked /\ x.client = a.client /\ x.accepts = a.accepts
  BY <1>2, <1>3, <1>4 DEF States
<1>7. Screen(x)
  <2>1. Screen(a) /\ a.overlay.kind = "none" BY <1>1 DEF Good, NoOverlay
  <2>2. o.kind # "none" /\ o # NoOverlay BY DEF AllOverlays, NoOverlay
  <2> QED BY <1>1, <1>5, <1>6, <2>1, <2>2 DEF Screen
<1>8. Fits(x) /\ Limited(u, x) /\ OnceRun(x) BY <1>1, <1>6 DEF Good, Fits, Limited, OnceRun
<1>9. Numbered(x)
  <2>1. ItemOf(o) = o.item BY DEF ItemOf, AllOverlays
  <2> QED BY <1>1, <1>6, <2>1 DEF Good, Numbered
<1>10. Waiting(x) = Waiting(a) BY <1>6 DEF Waiting
<1> QED BY <1>1, <1>6, <1>7, <1>8, <1>9, <1>10 DEF Good

LEMMA PromptSetSound ==
  ASSUME NEW u, NEW st, Good(u, st), st.client # "dead", st.prompt = NoPrompt,
         NEW p \in AllPrompts, ~p.under, p.item \in DOMAIN st.asked \cup {NoItem},
         p.kind # "command" => p.more = 0, p.type \in {"key", "numeric"} => p.more = 0,
         p.type = "single" => p.size = 0, p.more > 0 => "several" \in u,
         NEW x, x = PromptSet(st, p)
  PROVE /\ Good(u, x) /\ x.prompt = p /\ x.overlay = NoOverlay
        /\ Waiting(x) = Waiting(st) \ {ItemOf(st.overlay)}
        /\ x.client = st.client /\ x.accepts = st.accepts
<1> DEFINE a == OverlayClear(st)
           b == MessageClear(a)
           d == Push(b)
<1>0. a = OverlayClear(st) /\ b = MessageClear(a) /\ d = Push(b) OBVIOUS
<1> HIDE DEF a, b, d
<1>1. /\ Good(u, a) /\ a.overlay = NoOverlay /\ a.prompt = st.prompt /\ a.client = st.client
      /\ Waiting(a) = Waiting(st) \ {ItemOf(st.overlay)} /\ DOMAIN a.asked = DOMAIN st.asked
      /\ a.accepts = st.accepts
  BY <1>0, OverlayClearSound
<1>2. /\ Good(u, b) /\ ~b.message.shown /\ b.prompt = NoPrompt /\ b.overlay = NoOverlay
      /\ b.asked = a.asked
      /\ b.client = st.client /\ b.accepts = st.accepts
  BY <1>0, <1>1, MessageClearSound
<1>3. PromptClear(b) = b BY <1>2 DEF PromptClear
<1>4. b \in States /\ b.tty \in SUBSET {"FREEZE", "NOCURSOR"} /\ b.pushed \in Int
  BY <1>2 DEF Good, States
<1>5. /\ d \in States /\ d.pushed = b.pushed + 1
      /\ d.message = b.message /\ d.overlay = b.overlay /\ d.tty = b.tty
      /\ d.client = b.client /\ d.accepts = b.accepts /\ d.asked = b.asked
  BY <1>0, <1>4, PushIs
<1> DEFINE t == IF p.freezes THEN b.tty \cup {"FREEZE"} ELSE b.tty
<1>6. x = [d EXCEPT !.prompt = p, !.tty = t] BY <1>0, <1>3, <1>5 DEF PromptSet, States
<1>7. /\ t \in SUBSET {"FREEZE", "NOCURSOR"}
      /\ "FREEZE" \in t => "FREEZE" \in b.tty \/ p.freezes
      /\ "NOCURSOR" \in t => "NOCURSOR" \in b.tty
  BY <1>4
<1> HIDE DEF t
<1>a. /\ x \in States /\ x.prompt = p /\ x.tty = t /\ x.pushed = d.pushed /\ x.message = d.message
      /\ x.overlay = d.overlay /\ x.asked = d.asked /\ x.client = d.client /\ x.accepts = d.accepts
  BY <1>5, <1>6, <1>7 DEF States
<1>8. /\ x \in States /\ x.prompt = p /\ x.tty = t /\ x.pushed = b.pushed + 1 /\ x.message = b.message
      /\ x.overlay = b.overlay /\ x.asked = b.asked /\ x.client = b.client /\ x.accepts = b.accepts
  BY <1>5, <1>a
<1>9. p # NoPrompt /\ ItemOf(p) = p.item BY DEF AllPrompts, NoPrompt, ItemOf
<1>10. Screen(x)
  <2>1. Screen(b) /\ b.overlay.kind = "none" BY <1>2 DEF Good, NoOverlay
  <2> QED BY <1>2, <1>7, <1>8, <1>9, <2>1 DEF Screen, Number
<1>11. Fits(x) /\ Limited(u, x) /\ OnceRun(x) /\ Numbered(x)
  BY <1>1, <1>2, <1>8, <1>9 DEF Good, Fits, Limited, OnceRun, Numbered, NoOverlay, ItemOf
<1>12. Waiting(x) = Waiting(a) BY <1>2, <1>8 DEF Waiting
<1> QED BY <1>1, <1>2, <1>8, <1>10, <1>11, <1>12 DEF Good

\* An item that begins gets a number that no other has.
LEMMA WaitsSound ==
  ASSUME NEW u, Good(u, State), NEW w \in BOOLEAN, NEW x, x = Waits(w)
  PROVE /\ Good(u, x) /\ Others(State, x)
        /\ New \notin DOMAIN asked /\ New # NoItem /\ New \in Nat
        /\ DOMAIN x.asked = DOMAIN asked \cup {New}
        /\ Waiting(x) = Waiting(State) \cup (IF w THEN {New} ELSE {})
<1> DEFINE st == State
           t == [i \in DOMAIN asked \cup {New} |-> IF i = New THEN [waits |-> w, ran |-> 0] ELSE asked[i]]
<1>1. st \in States /\ st.asked = asked BY DEF Good, State
<1>2. asked \in Tables BY <1>1 DEF States
<1>3. PICK n \in Nat : DOMAIN asked = 1..n /\ asked \in [1..n -> [waits : BOOLEAN, ran : Nat]]
  BY <1>2, TableIs
<1>4. New = n + 1
  <2>1. Cardinality(1..n) = IF 1 > n THEN 0 ELSE n - 1 + 1 BY <1>3, FS_Interval
  <2> QED BY <1>3, <2>1 DEF New
<1>5. New \notin DOMAIN asked /\ New # NoItem /\ New \in Nat BY <1>3, <1>4 DEF NoItem
<1>6. DOMAIN asked \cup {New} = 1..(n + 1) BY <1>3, <1>4
<1>7. t \in Tables
  <2>1. \A i \in 1..(n + 1) : (IF i = New THEN [waits |-> w, ran |-> 0] ELSE asked[i])
                              \in [waits : BOOLEAN, ran : Nat]
    BY <1>3, <1>4
  <2>2. t \in [1..(n + 1) -> [waits : BOOLEAN, ran : Nat]] BY <1>6, <2>1
  <2> QED BY <1>3, <2>2 DEF Tables
<1>8. x = [st EXCEPT !.asked = t] BY <1>1 DEF Waits
<1>9. /\ DOMAIN t = DOMAIN asked \cup {New} /\ t[New].waits = w /\ t[New].ran = 0
      /\ \A i \in DOMAIN asked : t[i] = asked[i]
  BY <1>5
<1> HIDE DEF st, t
<1>10. x \in States /\ x.asked = t BY <1>1, <1>7, <1>8 DEF States
<1>11. Others(st, x) BY <1>1, <1>8 DEF Others, States
<1>12. Good(u, st) BY DEF st
<1>13. Screen(x) /\ Fits(x) /\ Limited(u, x) BY <1>11, <1>12 DEF Good, Others, Screen, Fits, Limited
<1>14. OnceRun(x) BY <1>1, <1>9, <1>10, <1>12 DEF Good, OnceRun
<1>15. Numbered(x) BY <1>1, <1>9, <1>10, <1>11, <1>12 DEF Good, Numbered, Others
<1>16. Waiting(x) = Waiting(st) \cup (IF w THEN {New} ELSE {}) BY <1>1, <1>5, <1>9, <1>10 DEF Waiting
<1> QED BY <1>5, <1>9, <1>10, <1>11, <1>13, <1>14, <1>15, <1>16 DEF Good, st

-----------------------------------------------------------------------------
(***************************************************************************)
(* Keys.                                                                   *)
(***************************************************************************)
\* A prompt that goes after its item has gone on; nobody waits for it then.
LEMMA ToldAndGone ==
  ASSUME NEW u, NEW st, Sound(u, st), NEW x, Good(u, x), x.prompt = st.prompt, x.overlay = st.overlay,
         Waiting(x) = Waiting(st) \ {ItemOf(st.prompt)}, NEW y, y = PromptClear(x)
  PROVE Sound(u, y) /\ y.overlay = st.overlay /\ y.client = x.client
<1>1. /\ Good(u, y) /\ y.prompt = NoPrompt /\ y.overlay = x.overlay /\ y.asked = x.asked
      /\ y.client = x.client
  BY PromptClearSound
<1>2. ItemOf(y.prompt) = NoItem BY <1>1 DEF ItemOf, NoPrompt
<1>3. Waiting(y) = Waiting(x) BY <1>1 DEF Waiting
<1>4. Agree(y) BY <1>1, <1>2, <1>3 DEF Sound, Agree
<1> QED BY <1>1, <1>4 DEF Sound

LEMMA OverlayGone ==
  ASSUME NEW u, NEW st, Sound(u, st), NEW x, x = OverlayClear(st)
  PROVE Sound(u, x) /\ x.client = st.client /\ x.prompt = st.prompt
<1>1. /\ Good(u, x) /\ x.overlay = NoOverlay /\ x.prompt = st.prompt
      /\ Waiting(x) = Waiting(st) \ {ItemOf(st.overlay)} /\ x.client = st.client
  BY OverlayClearSound DEF Sound
<1>2. ItemOf(x.overlay) = NoItem BY <1>1 DEF ItemOf, NoOverlay
<1>3. Agree(x) BY <1>1, <1>2 DEF Sound, Agree
<1> QED BY <1>1, <1>3 DEF Sound

\* The same prompt with more or less in it, or with fewer to come.
LEMMA PromptChanges ==
  ASSUME NEW u, NEW st, Sound(u, st), st.prompt # NoPrompt, NEW q \in AllPrompts,
         q.kind = st.prompt.kind, q.type = st.prompt.type, q.item = st.prompt.item,
         q.freezes = st.prompt.freezes, q.under = st.prompt.under, q.more <= st.prompt.more,
         q.type = "single" => q.size = 0,
         NEW x, x = [st EXCEPT !.prompt = q]
  PROVE Sound(u, x) /\ x.client = st.client
<1>1. st \in States /\ st.prompt \in AllPrompts BY DEF Sound, Good, States
<1>2. /\ x \in States /\ x.prompt = q /\ x.overlay = st.overlay /\ x.message = st.message
      /\ x.asked = st.asked
      /\ x.tty = st.tty /\ x.pushed = st.pushed /\ x.client = st.client /\ x.accepts = st.accepts
  BY <1>1 DEF States
<1>3. q # NoPrompt /\ ItemOf(q) = ItemOf(st.prompt) BY <1>1 DEF AllPrompts, NoPrompt, ItemOf
<1>4. Screen(x) BY <1>2, <1>3 DEF Sound, Good, Screen
<1>5. q.more \in Nat /\ st.prompt.more \in Nat BY <1>1 DEF AllPrompts
<1>6. st.prompt.more = 0 => q.more = 0 BY <1>5
<1>7. q.more > 0 => st.prompt.more > 0 BY <1>5
<1>8. Fits(x) BY <1>2, <1>3, <1>6 DEF Sound, Good, Fits
<1>9. Limited(u, x) BY <1>2, <1>3, <1>7 DEF Sound, Good, Limited
<1>10. OnceRun(x) /\ Numbered(x) BY <1>2, <1>3 DEF Sound, Good, OnceRun, Numbered
<1>11. Agree(x) BY <1>2, <1>3 DEF Sound, Agree, Waiting
<1> QED BY <1>2, <1>4, <1>8, <1>9, <1>10, <1>11 DEF Sound, Good

LEMMA TypedSound ==
  ASSUME NEW u, NEW st, Sound(u, st), st.prompt # NoPrompt, st.prompt.type # "single", NEW x,
         x = Typed(st)
  PROVE Sound(u, x) /\ x.client = st.client
<1>1. st \in States /\ st.prompt \in AllPrompts BY DEF Sound, Good, States
<1> DEFINE n == IF st.prompt.size < 2 THEN st.prompt.size + 1 ELSE st.prompt.size
<1>2. n \in Nat BY <1>1 DEF AllPrompts
<1> HIDE DEF n
<1> DEFINE q == [st.prompt EXCEPT !.size = n]
<1>3. /\ q \in AllPrompts /\ q.kind = st.prompt.kind /\ q.type = st.prompt.type
      /\ q.item = st.prompt.item
      /\ q.freezes = st.prompt.freezes /\ q.under = st.prompt.under /\ q.more = st.prompt.more
  BY <1>1, <1>2 DEF AllPrompts
<1>4. x = [st EXCEPT !.prompt = q] BY DEF Typed, n
<1>5. q.more <= st.prompt.more BY <1>1, <1>3 DEF AllPrompts
<1> HIDE DEF q
<1> QED BY <1>3, <1>4, <1>5, PromptChanges

LEMMA BackspaceSound ==
  ASSUME NEW u, NEW st, Sound(u, st), st.prompt # NoPrompt, st.prompt.type # "single",
         st.prompt.size > 0,
         NEW x, x = [st EXCEPT !.prompt.size = @ - 1]
  PROVE Sound(u, x)
<1>1. st \in States /\ st.prompt \in AllPrompts BY DEF Sound, Good, States
<1> DEFINE n == st.prompt.size - 1
<1>2. n \in Nat BY <1>1 DEF AllPrompts
<1> HIDE DEF n
<1> DEFINE q == [st.prompt EXCEPT !.size = n]
<1>3. /\ q \in AllPrompts /\ q.kind = st.prompt.kind /\ q.type = st.prompt.type
      /\ q.item = st.prompt.item
      /\ q.freezes = st.prompt.freezes /\ q.under = st.prompt.under /\ q.more = st.prompt.more
  BY <1>1, <1>2 DEF AllPrompts
<1>4. x = [st EXCEPT !.prompt = q] BY DEF n
<1>5. q.more <= st.prompt.more BY <1>1, <1>3 DEF AllPrompts
<1> HIDE DEF q
<1> QED BY <1>3, <1>4, <1>5, PromptChanges

\* The callback of a prompt that is not the last one.
LEMMA AnswerStays ==
  ASSUME NEW u, NEW st, Sound(u, st), st.prompt # NoPrompt, Stays(st), NEW yes \in BOOLEAN,
         NEW x, x = Answer(st, yes)
  PROVE Sound(u, x) /\ x.client = st.client
<1>1. st \in States /\ st.prompt \in AllPrompts BY DEF Sound, Good, States
<1>2. st.prompt.more \in Nat /\ st.prompt.more > 0 BY <1>1 DEF AllPrompts, Stays
<1>3. st.prompt.kind = "command" BY <1>2 DEF Sound, Good, Fits
<1> DEFINE n == st.prompt.more - 1
<1>4. n \in Nat /\ n <= st.prompt.more BY <1>2
<1> HIDE DEF n
<1> DEFINE q == [st.prompt EXCEPT !.more = n, !.size = 0]
<1>5. /\ q \in AllPrompts /\ q.kind = st.prompt.kind /\ q.type = st.prompt.type
      /\ q.item = st.prompt.item
      /\ q.freezes = st.prompt.freezes /\ q.under = st.prompt.under /\ q.more = n /\ q.size = 0
  BY <1>1, <1>4 DEF AllPrompts
<1>6. x = [st EXCEPT !.prompt.more = @ - 1, !.prompt.size = 0] BY <1>2, <1>3 DEF Answer
<1>7. x = [st EXCEPT !.prompt = q] BY <1>1, <1>6 DEF n, States
<1> HIDE DEF q
<1> QED BY <1>4, <1>5, <1>7, PromptChanges

\* The callback of one that is.
LEMMA AnswerEnds ==
  ASSUME NEW u, NEW st, Sound(u, st), st.prompt # NoPrompt, ~Stays(st), NEW yes \in BOOLEAN,
         NEW x, x = PromptClear(Answer(st, yes))
  PROVE Sound(u, x) /\ x.client = st.client
<1> DEFINE i == st.prompt.item
           a == Answer(st, yes)
<1>0. i = st.prompt.item /\ a = Answer(st, yes) OBVIOUS
<1> HIDE DEF i, a
<1>1. st \in States /\ st.prompt \in AllPrompts /\ Good(u, st) BY DEF Sound, Good, States
<1>2. ItemOf(st.prompt) = i BY <1>0, <1>1 DEF ItemOf, AllPrompts
<1>3. i \in Waiting(st) \cup {NoItem} BY <1>2 DEF Sound, Agree
<1>4. i \in DOMAIN st.asked \cup {NoItem} BY <1>3 DEF Waiting
<1>5. ~(st.prompt.kind = "command" /\ st.prompt.more > 0) BY DEF Stays
<1>6. CASE yes /\ st.prompt.type # "incremental"
  <2>1. a = Continue(Run(st, i), i) BY <1>0, <1>5, <1>6 DEF Answer
  <2>2. Good(u, a) /\ Others(st, a) /\ Waiting(a) = Waiting(st) \ {i}
    BY <1>1, <1>3, <2>1, RunAndContinue
  <2>3. a.prompt = st.prompt /\ a.overlay = st.overlay /\ a.client = st.client BY <2>2 DEF Others
  <2> QED BY <1>0, <1>2, <2>2, <2>3, ToldAndGone
<1>7. CASE ~(yes /\ st.prompt.type # "incremental")
  <2>1. a = Continue(st, i) BY <1>0, <1>5, <1>7 DEF Answer
  <2>2. Good(u, a) /\ Others(st, a) /\ Waiting(a) = Waiting(st) \ {i}
    BY <1>1, <1>4, <2>1, ContinueSound
  <2>3. a.prompt = st.prompt /\ a.overlay = st.overlay /\ a.client = st.client BY <2>2 DEF Others
  <2> QED BY <1>0, <1>2, <2>2, <2>3, ToldAndGone
<1> QED BY <1>6, <1>7

LEMMA CancelSound ==
  ASSUME NEW u, NEW st, Sound(u, st), st.prompt # NoPrompt, NEW x, x = Cancel(st)
  PROVE Sound(u, x)
<1> DEFINE i == st.prompt.item
           a == Continue(st, i)
<1>0. i = st.prompt.item /\ a = Continue(st, i) OBVIOUS
<1> HIDE DEF i, a
<1>1. st \in States /\ st.prompt \in AllPrompts /\ Good(u, st) BY DEF Sound, Good, States
<1>2. ItemOf(st.prompt) = i BY <1>0, <1>1 DEF ItemOf, AllPrompts
<1>3. i \in DOMAIN st.asked \cup {NoItem} BY <1>2 DEF Sound, Agree, Waiting
<1>4. Good(u, a) /\ Others(st, a) /\ Waiting(a) = Waiting(st) \ {i} BY <1>0, <1>1, <1>3, ContinueSound
<1>5. a.prompt = st.prompt /\ a.overlay = st.overlay BY <1>4 DEF Others
<1>6. x = PromptClear(a) BY <1>0 DEF Cancel
<1> QED BY <1>2, <1>4, <1>5, <1>6, ToldAndGone

LEMMA EnterSound ==
  ASSUME NEW u, NEW st, Sound(u, st), st.prompt # NoPrompt, NEW yes \in BOOLEAN, NEW x,
         x = Enter(st, yes)
  PROVE Sound(u, x)
<1>1. CASE Stays(st) BY <1>1, AnswerStays DEF Enter
<1>2. CASE ~Stays(st) BY <1>2, AnswerEnds DEF Enter
<1> QED BY <1>1, <1>2

\* A menu of completions, over a line.
LEMMA CompletedSound ==
  ASSUME NEW u, NEW st, Sound(u, st), st.client # "dead", st.prompt # NoPrompt,
         st.prompt.type \notin {"single", "key", "numeric"}, NEW menu \in BOOLEAN,
         NEW x, x = Completed(st, menu)
  PROVE Sound(u, x)
<1>1. CASE ~menu BY <1>1, TypedSound DEF Completed
<1>2. CASE menu
  <2> DEFINE o == Overlay("tab", NoItem, TRUE, FALSE, {})
  <2>1. o \in AllOverlays /\ o.item = NoItem /\ o.kind = "tab" BY DEF Overlay, AllOverlays, NoItem
  <2>2. x = OverlaySet(st, o) BY <1>2 DEF Completed
  <2> HIDE DEF o
  <2>3. Good(u, st) BY DEF Sound
  <2>4. /\ Good(u, x) /\ x.overlay = o /\ x.prompt = st.prompt
        /\ Waiting(x) = Waiting(st) \ {ItemOf(st.overlay)}
    BY <2>1, <2>2, <2>3, OverlaySetSound
  <2>5. ItemOf(x.overlay) = NoItem BY <2>1, <2>4 DEF ItemOf
  <2>6. Agree(x) BY <2>4, <2>5 DEF Sound, Agree
  <2> QED BY <2>4, <2>6 DEF Sound
<1> QED BY <1>1, <1>2

LEMMA PromptKeySound ==
  ASSUME NEW u, NEW st, Sound(u, st), st.client # "dead", st.prompt # NoPrompt,
         NEW key \in Keys, NEW menu \in BOOLEAN, NEW x, x = PromptKey(st, key, menu).st
  PROVE Sound(u, x)
<1> DEFINE answer == key = "y" \/ st.prompt.kind # "confirm"
<1>0. answer \in BOOLEAN OBVIOUS
<1> HIDE DEF answer
<1>1. st \in States /\ st.prompt \in AllPrompts /\ st.prompt.size \in Nat
  BY DEF Sound, Good, States, AllPrompts
<1>2. st.prompt.type \in {"key", "numeric"} => ~Stays(st) BY DEF Sound, Good, Fits, Stays
<1>3. CASE st.prompt.type = "key"
  <2>1. x = PromptClear(Answer(st, TRUE)) BY <1>3 DEF PromptKey, Used
  <2> QED BY <1>2, <1>3, <2>1, AnswerEnds
<1>4. CASE st.prompt.type = "numeric"
  <2>1. x = IF key = "0" THEN Typed(st) ELSE PromptClear(Answer(st, TRUE))
    BY <1>4 DEF PromptKey, Used, NotUsed
  <2> QED BY <1>2, <1>4, <2>1, AnswerEnds, TypedSound
<1>5. CASE st.prompt.type = "single"
  <2>1. st.prompt.size = 0 BY <1>5 DEF Sound, Good, Fits
  <2>2. x = IF key = "button 3" THEN st ELSE Enter(st, answer)
    BY <1>5, <2>1 DEF PromptKey, Used, answer
  <2> QED BY <1>0, <2>2, EnterSound
<1>6. CASE st.prompt.type \notin {"key", "numeric", "single"}
  <2>1. x = CASE key = "Escape" -> Cancel(st)
              [] key = "Enter" -> Enter(st, TRUE)
              [] key = "BSpace" -> IF st.prompt.size > 0 THEN [st EXCEPT !.prompt.size = @ - 1]
                                   ELSE IF st.prompt.type = "bspace" THEN Cancel(st) ELSE st
              [] key = "Tab" -> Completed(st, menu /\ st.prompt.size > 0)
              [] key \in {"y", "n", "0"} -> Typed(st)
              [] OTHER -> st
    BY <1>6 DEF PromptKey, Used
  <2>2. CASE key = "Escape" BY <2>1, <2>2, CancelSound
  <2>3. CASE key = "Enter" BY <2>1, <2>3, EnterSound
  <2>4. CASE key = "BSpace"
    <3>1. CASE st.prompt.size > 0
      <4>1. x = [st EXCEPT !.prompt.size = @ - 1] BY <2>1, <2>4, <3>1
      <4> QED BY <1>6, <3>1, <4>1, BackspaceSound
    <3>2. CASE ~(st.prompt.size > 0)
      <4>1. x = IF st.prompt.type = "bspace" THEN Cancel(st) ELSE st BY <2>1, <2>4, <3>2
      <4> QED BY <4>1, CancelSound
    <3> QED BY <3>1, <3>2
  <2>5. CASE key = "Tab"
    <3> DEFINE m == menu /\ st.prompt.size > 0
    <3>1. m \in BOOLEAN /\ x = Completed(st, m) BY <2>1, <2>5
    <3> HIDE DEF m
    <3> QED BY <1>6, <3>1, CompletedSound
  <2>6. CASE key \in {"y", "n", "0"} BY <1>6, <2>1, <2>6, TypedSound
  <2>7. CASE key \notin {"Escape", "Enter", "BSpace", "Tab", "y", "n", "0"} BY <2>1, <2>7
  <2> QED BY <2>2, <2>3, <2>4, <2>5, <2>6, <2>7
<1> QED BY <1>3, <1>4, <1>5, <1>6

\* An overlay of the same kind and for the same item.
LEMMA OverlayChanges ==
  ASSUME NEW u, NEW st, Sound(u, st), st.overlay # NoOverlay, NEW q \in AllOverlays,
         q.kind = st.overlay.kind, q.item = st.overlay.item, NEW x, x = [st EXCEPT !.overlay = q]
  PROVE Sound(u, x) /\ x.overlay = q /\ x.client = st.client
<1>1. st \in States /\ st.overlay \in AllOverlays BY DEF Sound, Good, States
<1>2. /\ x \in States /\ x.overlay = q /\ x.prompt = st.prompt /\ x.message = st.message
      /\ x.asked = st.asked
      /\ x.tty = st.tty /\ x.pushed = st.pushed /\ x.client = st.client /\ x.accepts = st.accepts
  BY <1>1 DEF States
<1>3. q # NoOverlay /\ ItemOf(q) = ItemOf(st.overlay) BY <1>1 DEF AllOverlays, NoOverlay, ItemOf
<1>4. Screen(x) BY <1>2, <1>3 DEF Sound, Good, Screen
<1>5. Fits(x) /\ Limited(u, x) /\ OnceRun(x) BY <1>2 DEF Sound, Good, Fits, Limited, OnceRun
<1>6. Numbered(x) BY <1>2, <1>3 DEF Sound, Good, Numbered
<1>7. Agree(x) BY <1>2, <1>3 DEF Sound, Agree, Waiting
<1> QED BY <1>2, <1>4, <1>5, <1>6, <1>7 DEF Sound, Good

LEMMA RunOverlay ==
  ASSUME NEW u, NEW st, Sound(u, st), st.overlay # NoOverlay, NEW x,
         x = OverlayClear(Run(st, st.overlay.item))
  PROVE Sound(u, x) /\ x.client = st.client
<1> DEFINE i == st.overlay.item
           r == Run(st, i)
           f == Continue(r, i)
<1>0. i = st.overlay.item /\ r = Run(st, i) /\ f = Continue(Run(st, i), i) OBVIOUS
<1>a. f = Continue(r, i) OBVIOUS
<1> HIDE DEF i, r, f
<1>1. st \in States /\ st.overlay \in AllOverlays /\ Good(u, st) BY DEF Sound, Good, States
<1>2. ItemOf(st.overlay) = i BY <1>0, <1>1 DEF ItemOf, AllOverlays
<1>3. i \in Waiting(st) \cup {NoItem} BY <1>2 DEF Sound, Agree
<1>4. i \in DOMAIN st.asked \cup {NoItem} BY <1>3 DEF Waiting
<1>5. r.overlay = st.overlay BY <1>0, <1>1, <1>4, RunIs DEF Others
<1>6. /\ Good(u, f) /\ Others(st, f) /\ Waiting(f) = Waiting(st) \ {i}
  BY <1>0, <1>1, <1>3, RunAndContinue
<1>7. x = Bare(f) BY <1>0, <1>a, <1>5 DEF OverlayClear, OverlayFree, Bare
<1>8. /\ Good(u, x) /\ x.overlay = NoOverlay /\ x.prompt = f.prompt /\ x.asked = f.asked
      /\ x.client = f.client
  BY <1>6, <1>7, BareSound
<1>9. ItemOf(x.overlay) = NoItem BY <1>8 DEF ItemOf, NoOverlay
<1>10. Waiting(x) = Waiting(f) BY <1>8 DEF Waiting
<1>11. Agree(x) BY <1>2, <1>6, <1>8, <1>9, <1>10 DEF Sound, Agree, Others
<1> QED BY <1>6, <1>8, <1>11 DEF Sound, Others

LEMMA OverlayKeySound ==
  ASSUME NEW u, NEW st, Sound(u, st), st.client # "dead", NEW key \in Keys, NEW menu \in BOOLEAN,
         NEW x, x = OverlayKey(st, key, menu).st
  PROVE Sound(u, x) /\ x.client = st.client
<1>1. st \in States /\ st.overlay \in AllOverlays \cup {NoOverlay} BY DEF Sound, Good, States
<1>2. CASE st.overlay.kind = "panes" /\ st.overlay.keys
  <2>1. st.overlay # NoOverlay BY <1>2 DEF NoOverlay
  <2>2. x = IF key = "0" THEN OverlayClear(Run(st, st.overlay.item)) ELSE OverlayClear(st)
    BY <1>2 DEF OverlayKey, PanesKey, Used, NotUsed
  <2> QED BY <2>1, <2>2, RunOverlay, OverlayGone
<1>3. CASE st.overlay.kind \in {"menu", "tab"}
  <2> DEFINE tab == st.overlay.kind = "tab"
             close == \/ key \in {"Escape", "Enter", "n"}
                      \/ tab /\ (key \in {"BSpace", "button 3"} \/ (key = "Tab" /\ menu))
                      \/ key = "button 3" /\ menu
             chosen == tab /\ key \in {"Enter", "n"} /\ st.prompt # NoPrompt
             s == IF chosen THEN Typed(st) ELSE st
  <2>1. x = MenuKey(st, key, menu).st BY <1>3 DEF OverlayKey
  <2>2. x = IF close THEN OverlayClear(s) ELSE st BY <2>1 DEF MenuKey, Used
  <2>3. Sound(u, s) /\ s.client = st.client
    <3>1. CASE chosen
      <4>1. st.prompt # NoPrompt /\ st.prompt.type # "single" BY <3>1 DEF Sound, Good, Fits
      <4> QED BY <3>1, <4>1, TypedSound
    <3>2. CASE ~chosen BY <3>2
    <3> QED BY <3>1, <3>2
  <2> HIDE DEF close, s
  <2> QED BY <2>2, <2>3, OverlayGone
<1>4. CASE st.overlay.kind = "popup"
  <2>1. st.overlay # NoOverlay BY <1>4 DEF NoOverlay
  <2>2. x = PopupKey(st, key, menu).st BY <1>4 DEF OverlayKey
  <2>3. \/ x = OverlayClear(st) \/ x = st
        \/ x = [st EXCEPT !.overlay.menu = FALSE] \/ x = [st EXCEPT !.overlay.menu = TRUE]
    BY <2>2 DEF PopupKey, Used
  <2>4. ASSUME NEW b \in BOOLEAN, x = [st EXCEPT !.overlay.menu = b]
        PROVE Sound(u, x) /\ x.client = st.client
    <3> DEFINE q == [st.overlay EXCEPT !.menu = b]
    <3>1. q \in AllOverlays /\ q.kind = st.overlay.kind /\ q.item = st.overlay.item
      BY <1>1, <2>1 DEF AllOverlays
    <3>2. x = [st EXCEPT !.overlay = q] BY <2>4
    <3> HIDE DEF q
    <3> QED BY <2>1, <3>1, <3>2, OverlayChanges
  <2> QED BY <2>3, <2>4, OverlayGone
<1>5. CASE /\ ~(st.overlay.kind = "panes" /\ st.overlay.keys)
           /\ st.overlay.kind \notin {"menu", "tab", "popup"}
  <2>1. x = OverlayClear(st) BY <1>5 DEF OverlayKey, NotUsed
  <2> QED BY <2>1, OverlayGone
<1> QED BY <1>2, <1>3, <1>4, <1>5

LEMMA MessageCleared ==
  ASSUME NEW u, NEW st, Sound(u, st), NEW x, x = MessageClear(st)
  PROVE Sound(u, x) /\ x.client = st.client
<1>1. /\ Good(u, x) /\ x.prompt = st.prompt /\ x.overlay = st.overlay /\ x.asked = st.asked
      /\ x.client = st.client
  BY MessageClearSound DEF Sound
<1> QED BY <1>1 DEF Sound, Agree, Waiting

LEMMA HandledSound ==
  ASSUME NEW u, NEW st, Sound(u, st), st.client # "dead", NEW key \in Keys, NEW menu \in BOOLEAN,
         NEW x, x = Handled(st, key, menu)
  PROVE Sound(u, x)
<1> DEFINE a == MessageClear(st)
           o == OverlayKey(a, key, menu)
           b == o.st
<1>0. a = MessageClear(st) /\ b = OverlayKey(a, key, menu).st OBVIOUS
<1>1. \/ x = st \/ x = b
      \/ b.prompt # NoPrompt /\ x = PromptKey(b, key, menu).st
  BY DEF Handled
<1> HIDE DEF a, b
<1>2. Sound(u, a) /\ a.client # "dead" BY <1>0, MessageCleared
<1>3. Sound(u, b) /\ b.client # "dead" BY <1>0, <1>2, OverlayKeySound
<1> QED BY <1>1, <1>3, PromptKeySound

-----------------------------------------------------------------------------
(***************************************************************************)
(* The invariant holds at first and after every step.                      *)
(***************************************************************************)
LEMMA BecomeIs ==
  ASSUME NEW st \in States, Become(st)
  PROVE State' = st /\ Uses' = Uses
<1>1. st = [message |-> st.message, prompt |-> st.prompt, overlay |-> st.overlay, pushed |-> st.pushed,
            tty |-> st.tty, client |-> st.client, accepts |-> st.accepts, asked |-> st.asked]
  BY DEF States
<1> QED BY <1>1 DEF Become, State, Uses

LEMMA Becomes ==
  ASSUME Calm, NEW st, Sound(Uses, st), Become(st)
  PROVE PInv'
<1>1. State' = st /\ Uses' = Uses BY BecomeIs DEF Sound, Good
<1>2. how' = how BY DEF Become
<1>3. Calm' BY <1>2 DEF Calm
<1>4. Good(Uses, State)' <=> Good(Uses', State') BY DEF Good, Screen, Fits, Limited, OnceRun, Numbered
<1>5. Agree(State)' <=> Agree(State') BY DEF Agree, Waiting
<1> QED BY <1>1, <1>3, <1>4, <1>5 DEF PInv, Sound

\* A command with a prompt of its own.
LEMMA AskSound ==
  ASSUME Sound(Uses, State), client # "dead", prompt = NoPrompt, NEW w \in BOOLEAN,
         NEW p \in AllPrompts, ~p.under, p.item = Holding(w),
         p.kind # "command" => p.more = 0, p.type \in {"key", "numeric"} => p.more = 0,
         p.type = "single" => p.size = 0, p.more > 0 => "several" \in Uses,
         NEW x, x = PromptSet(Waits(w), p)
  PROVE Sound(Uses, x) /\ x.accepts = accepts
<1> DEFINE a == Waits(w)
<1>0. a = Waits(w) /\ x = PromptSet(a, p) OBVIOUS
<1> HIDE DEF a
<1>1. Good(Uses, State) /\ State.prompt = prompt /\ State.overlay = overlay /\ State.client = client
      /\ State.accepts = accepts /\ State.asked = asked
  BY DEF Sound, State
<1>2. /\ Good(Uses, a) /\ Others(State, a)
      /\ New \notin DOMAIN asked /\ New # NoItem /\ New \in Nat
      /\ DOMAIN a.asked = DOMAIN asked \cup {New}
      /\ Waiting(a) = Waiting(State) \cup (IF w THEN {New} ELSE {})
  BY <1>0, <1>1, WaitsSound
<1>3. a.client # "dead" /\ a.prompt = NoPrompt /\ a.overlay = overlay /\ a.accepts = accepts
  BY <1>1, <1>2 DEF Others
<1>4. p.item \in DOMAIN a.asked \cup {NoItem} BY <1>2 DEF Holding
<1>5. /\ Good(Uses, x) /\ x.prompt = p /\ x.overlay = NoOverlay /\ x.accepts = accepts
      /\ Waiting(x) = Waiting(a) \ {ItemOf(overlay)}
  BY <1>0, <1>2, <1>3, <1>4, PromptSetSound
<1>6. ItemOf(overlay) \in DOMAIN asked \cup {NoItem} BY <1>1 DEF Good, Numbered
<1>7. Waiting(State) = {ItemOf(overlay)} \ {NoItem} BY <1>1 DEF Sound, Agree, ItemOf, NoPrompt
<1>8. ItemOf(x.prompt) = Holding(w) /\ ItemOf(x.overlay) = NoItem
  BY <1>5 DEF ItemOf, NoOverlay, AllPrompts
<1>9. Waiting(x) = IF w THEN {New} ELSE {} BY <1>2, <1>5, <1>6, <1>7
<1>10. Agree(x) BY <1>2, <1>8, <1>9 DEF Agree, Holding
<1> QED BY <1>5, <1>10 DEF Sound

\* A command with an overlay of its own, when there is none.
LEMMA ShowSound ==
  ASSUME Sound(Uses, State), client # "dead", overlay = NoOverlay, NEW w \in BOOLEAN,
         NEW o \in AllOverlays, o.kind # "tab", o.item = Holding(w),
         NEW x, x = OverlaySet(Waits(w), o)
  PROVE Sound(Uses, x)
<1> DEFINE a == Waits(w)
<1>0. a = Waits(w) /\ x = OverlaySet(a, o) OBVIOUS
<1> HIDE DEF a
<1>1. Good(Uses, State) /\ State.prompt = prompt /\ State.overlay = overlay /\ State.client = client
      /\ State.asked = asked
  BY DEF Sound, State
<1>2. /\ Good(Uses, a) /\ Others(State, a)
      /\ New \notin DOMAIN asked /\ New # NoItem /\ New \in Nat
      /\ DOMAIN a.asked = DOMAIN asked \cup {New}
      /\ Waiting(a) = Waiting(State) \cup (IF w THEN {New} ELSE {})
  BY <1>0, <1>1, WaitsSound
<1>3. a.client # "dead" /\ a.prompt = prompt /\ a.overlay = NoOverlay BY <1>1, <1>2 DEF Others
<1>4. o.item \in DOMAIN a.asked \cup {NoItem} BY <1>2 DEF Holding
<1>5. /\ Good(Uses, x) /\ x.overlay = o /\ x.prompt = prompt
      /\ Waiting(x) = Waiting(a) \ {ItemOf(NoOverlay)}
  BY <1>0, <1>2, <1>3, <1>4, OverlaySetSound
<1>6. ItemOf(NoOverlay) = NoItem BY DEF ItemOf, NoOverlay
<1>7. ItemOf(prompt) \in DOMAIN asked \cup {NoItem} BY <1>1 DEF Good, Numbered
<1>8. Waiting(State) = {ItemOf(prompt)} \ {NoItem} BY <1>1, <1>6 DEF Sound, Agree
<1>9. ItemOf(x.prompt) = ItemOf(prompt) /\ ItemOf(x.overlay) = Holding(w)
  BY <1>5 DEF ItemOf, AllOverlays
<1>10. Waiting(x) = ({ItemOf(prompt)} \cup IF w THEN {New} ELSE {}) \ {NoItem}
  BY <1>2, <1>5, <1>6, <1>8
<1>11. Agree(x) BY <1>2, <1>7, <1>9, <1>10 DEF Agree, Holding
<1> QED BY <1>5, <1>11 DEF Sound

\* A command that waits for nothing.
LEMMA PassesSound ==
  ASSUME Sound(Uses, State), NEW x, x = Waits(FALSE)
  PROVE Sound(Uses, x) /\ Others(State, x)
<1>1. Good(Uses, State) BY DEF Sound
<1>2. Good(Uses, x) /\ Others(State, x) /\ Waiting(x) = Waiting(State) BY <1>1, WaitsSound
<1> QED BY <1>2 DEF Sound, Agree, Others

LEMMA Alive == ASSUME PInv, client # "dead" PROVE Calm /\ Sound(Uses, State) BY DEF PInv, Sound

LEMMA CommandPromptStep ==
  ASSUME PInv, NEW type \in Types, NEW background \in BOOLEAN, NEW more \in Mores, NEW size \in 0..1,
         NEW freezes \in BOOLEAN, CommandPrompt(type, background, more, size, freezes)
  PROVE PInv'
<1> DEFINE w == ~background /\ type # "incremental"
           p == Prompt("command", type, Holding(w), more, size, freezes /\ type # "incremental")
<1>1. client # "dead" /\ Become(IF prompt # NoPrompt THEN Waits(FALSE) ELSE PromptSet(Waits(w), p))
  BY DEF CommandPrompt, MayRun, Attached
<1>2. Calm /\ Sound(Uses, State) /\ State \in States BY <1>1, Alive DEF Sound, Good
<1>3. type \in AllTypes BY DEF Types, AllTypes
<1>4. more \in Nat /\ (more > 0 => "several" \in Uses) BY DEF Mores
<1>a. "several keys" \notin Uses /\ "given" \notin Uses BY <1>2 DEF Calm, Uses
<1>b. ~(type \in {"key", "numeric"} /\ more > 0) /\ ~(type = "single" /\ size > 0)
  BY <1>a DEF CommandPrompt
<1>c. ~(more > 0) => more = 0 BY <1>4
<1>d. ~(size > 0) => size = 0 OBVIOUS
<1>5. type \in {"key", "numeric"} => more = 0 BY <1>b, <1>c
<1>6. type = "single" => size = 0 BY <1>b, <1>d
<1>7. CASE prompt # NoPrompt
  <2>1. Become(Waits(FALSE)) BY <1>1, <1>7
  <2> QED BY <1>2, <2>1, PassesSound, Becomes
<1>8. CASE prompt = NoPrompt
  <2>1. w \in BOOLEAN OBVIOUS
  <2>2. Holding(w) \in Nat BY <1>2, <2>1, WaitsSound DEF Holding, Sound, NoItem
  <2> DEFINE x == PromptSet(Waits(w), p)
  <2>3. /\ p \in AllPrompts /\ ~p.under /\ p.item = Holding(w) /\ p.type = type /\ p.more = more
        /\ p.size = size
        /\ p.kind = "command"
    <3> HIDE DEF w
    <3> QED BY <1>3, <1>4, <2>1, <2>2 DEF Prompt, AllPrompts
  <2>4. x = PromptSet(Waits(w), p) /\ Become(x) BY <1>1, <1>8
  <2> HIDE DEF w, p, x
  <2>5. Sound(Uses, x) BY <1>1, <1>2, <1>4, <1>5, <1>6, <1>8, <2>1, <2>3, <2>4, AskSound
  <2> QED BY <1>2, <2>4, <2>5, Becomes
<1> QED BY <1>7, <1>8

LEMMA ConfirmBeforeStep ==
  ASSUME PInv, NEW background \in BOOLEAN, ConfirmBefore(background)
  PROVE PInv'
<1> DEFINE w == ~background
           p == Prompt("confirm", "single", Holding(w), 0, 0, TRUE)
           x == PromptSet(Waits(w), p)
<1>1. client # "dead" /\ Become(x) BY DEF ConfirmBefore, MayRun, Attached
<1>2. Calm /\ Sound(Uses, State) /\ State \in States BY <1>1, Alive DEF Sound, Good
<1>3. prompt = NoPrompt BY <1>2 DEF ConfirmBefore, ReplacesOnly, Calm, Uses
<1>4. w \in BOOLEAN OBVIOUS
<1>5. Holding(w) \in Nat BY <1>2, <1>4, WaitsSound DEF Holding, Sound, NoItem
<1> HIDE DEF w
<1>6. /\ p \in AllPrompts /\ ~p.under /\ p.item = Holding(w) /\ p.type = "single" /\ p.more = 0
      /\ p.size = 0
  BY <1>5 DEF Prompt, AllPrompts, AllTypes
<1>7. x = PromptSet(Waits(w), p) OBVIOUS
<1> HIDE DEF p, x
<1>8. Sound(Uses, x) BY <1>1, <1>2, <1>3, <1>4, <1>6, <1>7, AskSound
<1> QED BY <1>1, <1>2, <1>8, Becomes

LEMMA ModePromptStep ==
  ASSUME PInv, NEW type \in {"line", "single"}, NEW accept \in BOOLEAN, ModePrompt(type, accept)
  PROVE PInv'
<1> DEFINE p == Prompt("mode", type, NoItem, 0, 0, TRUE)
           x == PromptSet(Waits(FALSE), p)
           y == IF accept THEN [x EXCEPT !.accepts = @ + 1] ELSE x
<1>1. client # "dead" /\ Become(y) /\ "mode" \in Uses BY DEF ModePrompt, MayRun, Attached
<1>2. Calm /\ Sound(Uses, State) /\ State \in States /\ accepts \in Nat
  BY <1>1, Alive DEF Sound, Good, States, State
<1>3. prompt = NoPrompt BY <1>2 DEF ModePrompt, ReplacesOnly, Calm, Uses
<1>4. Holding(FALSE) = NoItem BY DEF Holding
<1>5. /\ p \in AllPrompts /\ ~p.under /\ p.item = Holding(FALSE) /\ p.more = 0 /\ p.size = 0
  BY <1>4 DEF Prompt, AllPrompts, AllTypes, NoItem
<1>6. x = PromptSet(Waits(FALSE), p) OBVIOUS
<1> HIDE DEF p, x
<1> DEFINE w == FALSE
<1>a. w \in BOOLEAN /\ p.item = Holding(w) /\ x = PromptSet(Waits(w), p) BY <1>5, <1>6
<1> HIDE DEF w
<1>7. Sound(Uses, x) /\ x.accepts = accepts BY <1>1, <1>2, <1>3, <1>5, <1>a, AskSound
<1>8. Sound(Uses, y)
  <2>1. CASE ~accept BY <1>7, <2>1
  <2>2. CASE accept
    <3> DEFINE n == x.accepts + 1
    <3>1. n \in Nat BY <1>2, <1>7
    <3>2. y = [x EXCEPT !.accepts = n] BY <2>2
    <3> HIDE DEF n, y
    <3>3. x \in States BY <1>7 DEF Sound, Good
    <3>4. /\ y \in States /\ y.message = x.message /\ y.prompt = x.prompt /\ y.overlay = x.overlay
          /\ y.pushed = x.pushed /\ y.tty = x.tty /\ y.client = x.client /\ y.asked = x.asked
      BY <3>1, <3>2, <3>3 DEF States
    <3>5. Screen(y) /\ Fits(y) /\ OnceRun(y) /\ Numbered(y)
      BY <1>7, <3>4 DEF Sound, Good, Screen, Fits, OnceRun, Numbered
    <3>6. Limited(Uses, y) BY <1>1, <1>7, <3>4 DEF Sound, Good, Limited
    <3>7. Agree(y) BY <1>7, <3>4 DEF Sound, Agree, Waiting
    <3> QED BY <3>4, <3>5, <3>6, <3>7 DEF Sound, Good
  <2> QED BY <2>1, <2>2
<1> HIDE DEF y
<1> QED BY <1>1, <1>2, <1>8, Becomes

LEMMA ShowStep ==
  ASSUME PInv, client # "dead", overlay = NoOverlay, NEW w \in BOOLEAN,
         NEW kind \in {"panes", "menu", "popup"},
         NEW takes \in BOOLEAN, NEW timer \in BOOLEAN, NEW flags \in SUBSET {"E", "EE", "k"},
         Become(OverlaySet(Waits(w), Overlay(kind, Holding(w), takes, timer, flags)))
  PROVE PInv'
<1> DEFINE o == Overlay(kind, Holding(w), takes, timer, flags)
           x == OverlaySet(Waits(w), o)
<1>1. Calm /\ Sound(Uses, State) BY Alive
<1>2. Holding(w) \in Nat BY <1>1, WaitsSound DEF Holding, Sound, NoItem
<1>3. o \in AllOverlays /\ o.kind # "tab" /\ o.item = Holding(w) BY <1>2 DEF Overlay, AllOverlays
<1>4. x = OverlaySet(Waits(w), o) /\ Become(x) OBVIOUS
<1> HIDE DEF o, x
<1>5. Sound(Uses, x) BY <1>1, <1>3, <1>4, ShowSound
<1> QED BY <1>1, <1>4, <1>5, Becomes

LEMMA PassesStep ==
  ASSUME PInv, client # "dead", Become(Waits(FALSE))
  PROVE PInv'
BY Alive, PassesSound, Becomes

LEMMA DisplayPanesStep ==
  ASSUME PInv, NEW background \in BOOLEAN, NEW takes \in BOOLEAN, NEW timer \in BOOLEAN,
         DisplayPanes(background, takes, timer)
  PROVE PInv'
<1>1. client # "dead" BY DEF DisplayPanes, MayRun, Attached
<1>2. CASE overlay # NoOverlay BY <1>1, <1>2, PassesStep DEF DisplayPanes
<1>3. CASE overlay = NoOverlay
  <2> DEFINE w == ~background
  <2>1. w \in BOOLEAN /\ Become(OverlaySet(Waits(w), Overlay("panes", Holding(w), takes, timer, {})))
    BY <1>3 DEF DisplayPanes
  <2> HIDE DEF w
  <2> QED BY <1>1, <1>3, <2>1, ShowStep
<1> QED BY <1>2, <1>3

LEMMA DisplayMenuStep ==
  ASSUME PInv, DisplayMenu
  PROVE PInv'
<1>1. client # "dead" BY DEF DisplayMenu, MayRun, Attached
<1>2. CASE overlay # NoOverlay BY <1>1, <1>2, PassesStep DEF DisplayMenu
<1>3. CASE overlay = NoOverlay
  <2>1. Become(OverlaySet(Waits(TRUE), Overlay("menu", Holding(TRUE), TRUE, FALSE, {})))
    BY <1>3 DEF DisplayMenu, Holding
  <2> DEFINE t == TRUE
             f == FALSE
             kind == "menu"
             flags == {}
  <2>2. /\ t \in BOOLEAN /\ f \in BOOLEAN /\ kind \in {"panes", "menu", "popup"}
        /\ flags \in SUBSET {"E", "EE", "k"}
        /\ Become(OverlaySet(Waits(t), Overlay(kind, Holding(t), t, f, flags)))
    BY <2>1
  <2> HIDE DEF t, f, kind, flags
  <2> QED BY <1>1, <1>3, <2>2, ShowStep
<1> QED BY <1>2, <1>3

\* A change of the overlay that leaves what it is.
LEMMA OverlayStep ==
  ASSUME Calm, NEW st, Sound(Uses, st), st.overlay # NoOverlay, NEW q \in AllOverlays,
         q.kind = st.overlay.kind, q.item = st.overlay.item, Become([st EXCEPT !.overlay = q])
  PROVE PInv'
<1> DEFINE x == [st EXCEPT !.overlay = q]
<1>1. x = [st EXCEPT !.overlay = q] /\ Become(x) OBVIOUS
<1> HIDE DEF x
<1>2. Sound(Uses, x) BY <1>1, OverlayChanges
<1> QED BY <1>1, <1>2, Becomes

LEMMA DisplayPopupStep ==
  ASSUME PInv, NEW flags \in PopupFlags, DisplayPopup(flags)
  PROVE PInv'
<1>1. client # "dead" BY DEF DisplayPopup, MayRun, Attached
<1>2. flags \in SUBSET {"E", "EE", "k"} BY DEF PopupFlags
<1>3. CASE overlay.kind = "popup"
  <2> DEFINE a == Waits(FALSE)
             q == [a.overlay EXCEPT !.flags = flags]
  <2>1. Become([a EXCEPT !.overlay.flags = flags]) BY <1>3 DEF DisplayPopup
  <2>2. a = Waits(FALSE) /\ Become([a EXCEPT !.overlay = q]) BY <2>1
  <2>3. Calm /\ Sound(Uses, a) /\ Others(State, a) BY <1>1, Alive, PassesSound
  <2> HIDE DEF a
  <2>4. a.overlay # NoOverlay /\ a.overlay \in AllOverlays
    BY <1>3, <2>3 DEF Others, State, Sound, Good, States, NoOverlay
  <2>5. q \in AllOverlays /\ q.kind = a.overlay.kind /\ q.item = a.overlay.item
    BY <1>2, <2>4 DEF AllOverlays
  <2> HIDE DEF q
  <2> QED BY <2>2, <2>3, <2>4, <2>5, OverlayStep
<1>4. CASE overlay.kind # "popup" /\ overlay # NoOverlay BY <1>1, <1>4, PassesStep DEF DisplayPopup
<1>5. CASE overlay = NoOverlay
  <2>1. Become(OverlaySet(Waits(TRUE), Overlay("popup", Holding(TRUE), TRUE, FALSE, flags)))
    BY <1>5 DEF DisplayPopup, Holding, NoOverlay
  <2> QED BY <1>1, <1>2, <1>5, <2>1, ShowStep
<1> QED BY <1>3, <1>4, <1>5

LEMMA ClosePopupStep ==
  ASSUME PInv, ClosePopup
  PROVE PInv'
<1> DEFINE a == Waits(FALSE)
           x == OverlayClear(a)
<1>1. client # "dead" /\ a = Waits(FALSE) /\ x = OverlayClear(a) /\ Become(x)
  BY DEF ClosePopup, MayRun, Attached
<1> HIDE DEF a, x
<1>2. Calm /\ Sound(Uses, a) BY <1>1, Alive, PassesSound
<1> QED BY <1>1, <1>2, OverlayGone, Becomes

LEMMA MessageStep ==
  ASSUME PInv, client # "dead", NEW stays \in BOOLEAN, NEW ignore \in BOOLEAN,
         NEW freezes \in BOOLEAN,
         Become(MessageSet(Waits(FALSE), stays, ignore, freezes))
  PROVE PInv'
<1> DEFINE a == Waits(FALSE)
           x == MessageSet(a, stays, ignore, freezes)
<1>1. x = MessageSet(a, stays, ignore, freezes) /\ Become(x) OBVIOUS
<1>a. a = Waits(FALSE) OBVIOUS
<1> HIDE DEF a, x
<1>2. Calm /\ Sound(Uses, a) /\ a.client # "dead" BY <1>a, Alive, PassesSound DEF Others, State
<1>b. Good(Uses, a) BY <1>2 DEF Sound
<1>3. /\ Good(Uses, x) /\ x.asked = a.asked /\ x.overlay = a.overlay
      /\ ItemOf(x.prompt) = ItemOf(a.prompt)
  BY <1>1, <1>2, <1>b, MessageSetSound
<1>4. Sound(Uses, x) BY <1>2, <1>3 DEF Sound, Agree, Waiting
<1> QED BY <1>1, <1>2, <1>4, Becomes

LEMMA CommandsStep == ASSUME PInv, Commands PROVE PInv'
<1>1. ASSUME NEW type \in Types, NEW background \in BOOLEAN, NEW freezes \in BOOLEAN, NEW size \in 0..1,
             NEW more \in Mores, CommandPrompt(type, background, more, size, freezes)
      PROVE PInv'
  BY <1>1, CommandPromptStep
<1>2. ASSUME NEW stays \in BOOLEAN, NEW ignore \in BOOLEAN, NEW freezes \in BOOLEAN,
             DisplayMessage(stays, ignore, freezes)
      PROVE PInv'
  BY <1>2, MessageStep DEF DisplayMessage, MayRun, Attached
<1>3. ASSUME Alert PROVE PInv' BY <1>3, MessageStep DEF Alert, MayRun, Attached
<1> QED
  BY <1>1, <1>2, <1>3, ConfirmBeforeStep, ModePromptStep, DisplayPanesStep, DisplayMenuStep, DisplayPopupStep,
     ClosePopupStep DEF Commands

LEMMA KeyStep ==
  ASSUME PInv, NEW key \in Keys, NEW menu \in BOOLEAN, Key(key, menu)
  PROVE PInv'
<1> DEFINE x == Handled(State, key, menu)
<1>1. x = Handled(State, key, menu) /\ Become(x) BY DEF Key
<1>2. client # "dead" /\ State.client = client BY DEF Key, State
<1> HIDE DEF x
<1>3. Calm /\ Sound(Uses, State) BY <1>2, Alive
<1>4. Sound(Uses, x) BY <1>1, <1>2, <1>3, HandledSound
<1> QED BY <1>1, <1>3, <1>4, Becomes

\* What neither shows nor holds anything.
LEMMA Unseen ==
  ASSUME NEW u, NEW st, Sound(u, st), NEW x \in States,
         x.prompt = st.prompt, x.overlay = st.overlay, x.pushed = st.pushed, x.asked = st.asked,
         x.message.shown = st.message.shown, x.tty \subseteq st.tty,
         x.client = "dead" <=> st.client = "dead", x.accepts <= st.accepts
  PROVE Sound(u, x)
<1>1. Screen(x) BY DEF Sound, Good, Screen
<1>2. Fits(x) /\ OnceRun(x) /\ Numbered(x) BY DEF Sound, Good, Fits, OnceRun, Numbered
<1>3. x.accepts \in Nat /\ st.accepts \in Nat BY DEF Sound, Good, States
<1>4. Limited(u, x) BY <1>3 DEF Sound, Good, Limited
<1>5. Agree(x) BY DEF Sound, Agree, Waiting
<1> QED BY <1>1, <1>2, <1>4, <1>5 DEF Sound, Good

LEMMA StateFields ==
  /\ State.message = message /\ State.prompt = prompt /\ State.overlay = overlay
  /\ State.pushed = pushed
  /\ State.tty = tty /\ State.client = client /\ State.accepts = accepts /\ State.asked = asked
BY DEF State

LEMMA MessageTimerStep == ASSUME PInv, MessageTimer PROVE PInv'
<1> DEFINE m == [message EXCEPT !.timer = FALSE]
           a == [State EXCEPT !.message = m]
           x == MessageClear(a)
<1>1. Become(MessageClear([State EXCEPT !.message.timer = FALSE])) /\ client # "dead"
  BY DEF MessageTimer
<1>2. [State EXCEPT !.message.timer = FALSE] = a BY DEF State
<1>3. x = MessageClear(a) /\ Become(x) BY <1>1, <1>2
<1>4. Calm /\ Sound(Uses, State) /\ State \in States BY <1>1, Alive DEF Sound, Good
<1>5. message \in Messages BY <1>4, StateFields DEF States
<1>6. m \in Messages /\ m.shown = message.shown BY <1>5 DEF Messages
<1>a. a = [State EXCEPT !.message = m] OBVIOUS
<1> HIDE DEF x, m, a
<1>7. /\ a \in States /\ a.message = m /\ a.prompt = State.prompt /\ a.overlay = State.overlay
      /\ a.pushed = State.pushed /\ a.asked = State.asked /\ a.tty = State.tty
      /\ a.client = State.client
      /\ a.accepts = State.accepts
  BY <1>4, <1>6, <1>a DEF States
<1>8. a.accepts <= State.accepts BY <1>4, <1>7 DEF States
<1>9. Sound(Uses, a) BY <1>4, <1>6, <1>7, <1>8, StateFields, Unseen
<1>10. Sound(Uses, x) BY <1>3, <1>9, MessageCleared
<1> QED BY <1>3, <1>4, <1>10, Becomes

LEMMA OverlayAlive ==
  ASSUME PInv, overlay # NoOverlay
  PROVE client # "dead"
BY StateFields DEF PInv, Good, Screen

LEMMA ClearStep ==
  ASSUME PInv, client # "dead", Become(OverlayClear(State))
  PROVE PInv'
<1> DEFINE x == OverlayClear(State)
<1>1. x = OverlayClear(State) /\ Become(x) OBVIOUS
<1> HIDE DEF x
<1> QED BY <1>1, Alive, OverlayGone, Becomes

LEMMA JobEndsStep == ASSUME PInv, NEW status \in 0..1, JobEnds(status) PROVE PInv'
<1> DEFINE q == [overlay EXCEPT !.job = FALSE, !.status = status]
           a == [State EXCEPT !.overlay = q]
           x == OverlayClear(a)
<1>1. overlay # NoOverlay BY DEF JobEnds, NoOverlay
<1>2. Calm /\ Sound(Uses, State) BY <1>1, OverlayAlive, Alive
<1>3. overlay \in AllOverlays BY <1>1, <1>2, StateFields DEF Sound, Good, States
<1>4. [State EXCEPT !.overlay.job = FALSE, !.overlay.status = status] = a BY DEF State
<1>5. Become(a) \/ Become(x) BY <1>4 DEF JobEnds
<1>b. status \in Nat OBVIOUS
<1>6. q \in AllOverlays /\ q.kind = overlay.kind /\ q.item = overlay.item
  BY <1>3, <1>b DEF AllOverlays
<1>7. a = [State EXCEPT !.overlay = q] /\ x = OverlayClear(a) OBVIOUS
<1> HIDE DEF q, a, x
<1>8. Sound(Uses, a) BY <1>1, <1>2, <1>6, <1>7, StateFields, OverlayChanges
<1>9. Sound(Uses, x) BY <1>7, <1>8, OverlayGone
<1> QED BY <1>2, <1>5, <1>8, <1>9, Becomes

LEMMA AcceptStep == ASSUME PInv, Accept PROVE PInv'
<1> DEFINE n == accepts - 1
           a == [State EXCEPT !.accepts = n]
           y == Answer(a, TRUE)
           x == PromptClear(y)
<1>1. client # "dead" /\ accepts > 0 BY DEF Accept
<1>2. Calm /\ Sound(Uses, State) /\ State \in States BY <1>1, Alive DEF Sound, Good
<1>3. Become(IF prompt = NoPrompt THEN a ELSE x) BY DEF Accept, State
<1>4. accepts \in Nat BY <1>2, StateFields DEF States
<1>5. n \in Nat /\ n <= accepts BY <1>1, <1>4
<1>6. a = [State EXCEPT !.accepts = n] /\ x = PromptClear(Answer(a, TRUE)) OBVIOUS
<1> HIDE DEF n, a, y, x
<1>7. /\ a \in States /\ a.message = State.message /\ a.prompt = State.prompt
      /\ a.overlay = State.overlay
      /\ a.pushed = State.pushed /\ a.asked = State.asked /\ a.tty = State.tty
      /\ a.client = State.client
      /\ a.accepts = n
  BY <1>2, <1>5, <1>6 DEF States
<1>8. Sound(Uses, a) BY <1>2, <1>5, <1>7, StateFields, Unseen
<1>9. CASE prompt = NoPrompt BY <1>2, <1>3, <1>8, <1>9, Becomes
<1>10. CASE prompt # NoPrompt
  <2>1. "several" \notin Uses BY <1>1, <1>2, StateFields DEF Sound, Good, Limited, Calm, Uses
  <2>2. a.prompt = prompt BY <1>7, StateFields
  <2>3. ~Stays(a) BY <1>2, <1>10, <2>1, <2>2, StateFields DEF Sound, Good, Limited, Stays
  <2> DEFINE yes == TRUE
  <2>4. yes \in BOOLEAN /\ x = PromptClear(Answer(a, yes)) BY <1>6
  <2> HIDE DEF yes
  <2>5. Sound(Uses, x) BY <1>8, <1>10, <2>2, <2>3, <2>4, AnswerEnds
  <2> QED BY <1>2, <1>3, <1>10, <2>5, Becomes
<1> QED BY <1>9, <1>10

LEMMA ResizeStep == ASSUME PInv, Resize PROVE PInv'
<1>1. client # "dead" /\ overlay # NoOverlay BY DEF Resize, Attached
<1>2. Calm /\ Sound(Uses, State) BY <1>1, Alive
<1>3. \/ Become(OverlayClear(State)) \/ Become(State) \/ Become([State EXCEPT !.overlay.menu = FALSE])
  BY DEF Resize
<1>4. CASE Become([State EXCEPT !.overlay.menu = FALSE])
  <2> DEFINE q == [overlay EXCEPT !.menu = FALSE]
  <2>1. Become([State EXCEPT !.overlay = q]) BY <1>4 DEF State
  <2>2. overlay \in AllOverlays BY <1>1, <1>2, StateFields DEF Sound, Good, States
  <2>3. q \in AllOverlays /\ q.kind = overlay.kind /\ q.item = overlay.item BY <2>2 DEF AllOverlays
  <2> HIDE DEF q
  <2> QED BY <1>1, <1>2, <2>1, <2>3, StateFields, OverlayStep
<1> QED BY <1>1, <1>2, <1>3, <1>4, ClearStep, Becomes

LEMMA ReadOnlyStep == ASSUME PInv, ReadOnly PROVE PInv'
<1> DEFINE d == IF client = "attached" THEN "readonly" ELSE "attached"
           x == [State EXCEPT !.client = d]
<1>1. client # "dead" /\ Become(x) BY DEF ReadOnly, Attached, State
<1>2. Calm /\ Sound(Uses, State) /\ State \in States BY <1>1, Alive DEF Sound, Good
<1>3. d \in {"attached", "readonly"} /\ x = [State EXCEPT !.client = d] OBVIOUS
<1> HIDE DEF d, x
<1>4. /\ x \in States /\ x.message = State.message /\ x.prompt = State.prompt
      /\ x.overlay = State.overlay
      /\ x.pushed = State.pushed /\ x.asked = State.asked /\ x.tty = State.tty /\ x.client = d
      /\ x.accepts = State.accepts
  BY <1>2, <1>3 DEF States
<1>5. x.accepts <= State.accepts BY <1>2, <1>4 DEF States
<1>6. Sound(Uses, x) BY <1>1, <1>2, <1>3, <1>4, <1>5, StateFields, Unseen
<1> QED BY <1>1, <1>2, <1>6, Becomes

LEMMA ResumeStep == ASSUME PInv, Resume PROVE PInv'
<1> DEFINE x == [State EXCEPT !.tty = {}]
<1>1. client # "dead" /\ Become(x) /\ x = [State EXCEPT !.tty = {}] BY DEF Resume, Attached
<1> HIDE DEF x
<1>2. Calm /\ Sound(Uses, State) /\ State \in States BY <1>1, Alive DEF Sound, Good
<1>3. /\ x \in States /\ x.message = State.message /\ x.prompt = State.prompt
      /\ x.overlay = State.overlay
      /\ x.pushed = State.pushed /\ x.asked = State.asked /\ x.tty = {} /\ x.client = State.client
      /\ x.accepts = State.accepts
  BY <1>1, <1>2 DEF States
<1>4. x.accepts <= State.accepts BY <1>2, <1>3 DEF States
<1>5. Sound(Uses, x) BY <1>2, <1>3, <1>4, Unseen
<1> QED BY <1>1, <1>2, <1>5, Becomes

\* What a client that is lost leaves is not held, and nothing is shown.
LEMMA LostStep == ASSUME PInv, Lost PROVE PInv'
<1> DEFINE a == OverlayClear(State)
           b == PromptClear(a)
           d == MessageClear(b)
           m == [d.message EXCEPT !.timer = FALSE]
           x == [d EXCEPT !.client = "dead", !.message = m]
<1>1. client # "dead" /\ Become([d EXCEPT !.client = "dead", !.message.timer = FALSE])
  BY DEF Lost, Attached
<1>2. a = OverlayClear(State) /\ b = PromptClear(a) /\ d = MessageClear(b) OBVIOUS
<1> HIDE DEF a, b, d
<1>3. Calm /\ Good(Uses, State) BY <1>1, Alive DEF Sound
<1>4. Good(Uses, a) /\ a.overlay = NoOverlay BY <1>2, <1>3, OverlayClearSound
<1>5. Good(Uses, b) /\ b.overlay = NoOverlay /\ b.prompt = NoPrompt BY <1>2, <1>4, PromptClearSound
<1>6. Good(Uses, d) /\ d.overlay = NoOverlay /\ d.prompt = NoPrompt /\ ~d.message.shown
  BY <1>2, <1>5, MessageClearSound
<1>7. d \in States /\ d.message \in Messages BY <1>6 DEF Good, States
<1>8. m \in Messages /\ m.shown = d.message.shown BY <1>7 DEF Messages
<1>9. Become(x) BY <1>1, <1>7 DEF States
<1>10. x = [d EXCEPT !.client = "dead", !.message = m] OBVIOUS
<1> HIDE DEF x, m
<1>11. /\ x \in States /\ x.message = m /\ x.prompt = NoPrompt /\ x.overlay = NoOverlay
       /\ x.pushed = d.pushed /\ x.asked = d.asked /\ x.tty = d.tty /\ x.client = "dead"
       /\ x.accepts = d.accepts
  BY <1>6, <1>7, <1>8, <1>10 DEF States
<1>12. Screen(x) BY <1>6, <1>8, <1>11 DEF Good, Screen, Number
<1>13. Good(Uses, x) BY <1>6, <1>11, <1>12 DEF Good, Fits, Limited, OnceRun, Numbered
<1>14. State' = x /\ Uses' = Uses BY <1>9, <1>11, BecomeIs
<1>15. client' = "dead" /\ how' = how BY <1>9, <1>11 DEF Become
<1>16. Calm' BY <1>3, <1>15 DEF Calm
<1>17. Good(Uses, State)' <=> Good(Uses', State')
  BY DEF Good, Screen, Fits, Limited, OnceRun, Numbered
<1> QED BY <1>13, <1>14, <1>15, <1>16, <1>17 DEF PInv

LEMMA InitHolds == ASSUME Init, Calm PROVE PInv
<1>1. asked \in Tables /\ DOMAIN asked = {}
  <2>1. asked = [i \in 1..0 |-> 0] /\ 1..0 = {} BY DEF Init
  <2>2. asked \in [1..0 -> [waits : BOOLEAN, ran : Nat]] BY <2>1
  <2> QED BY <2>1, <2>2 DEF Tables
<1>2. State \in States BY <1>1 DEF Init, State, States, Messages, NoPrompt, NoOverlay
<1>3. Screen(State) BY StateFields DEF Init, Screen, Number, NoPrompt, NoOverlay
<1>4. Fits(State) /\ Limited(Uses, State) BY StateFields DEF Init, Fits, Limited, NoPrompt, NoOverlay
<1>5. OnceRun(State) BY <1>1, StateFields DEF OnceRun
<1>6. ItemOf(State.prompt) = NoItem /\ ItemOf(State.overlay) = NoItem
  BY StateFields DEF Init, ItemOf, NoPrompt, NoOverlay
<1>7. Numbered(State) BY <1>6 DEF Numbered
<1>8. Agree(State) BY <1>1, <1>6, StateFields DEF Agree, Waiting
<1> QED BY <1>2, <1>3, <1>4, <1>5, <1>7, <1>8 DEF PInv, Good

LEMMA StepHolds == ASSUME PInv, [Next]_vars PROVE PInv'
<1>1. CASE Next
  <2>1. ASSUME OverlayTimer PROVE PInv' BY <2>1, OverlayAlive, ClearStep DEF OverlayTimer
  <2> QED
    BY <1>1, <2>1, CommandsStep, KeyStep, MessageTimerStep, JobEndsStep, AcceptStep, ResizeStep, ReadOnlyStep,
       ResumeStep, LostStep DEF Next
<1>2. CASE UNCHANGED vars
  <2>1. State' = State /\ how' = how /\ client' = client /\ Uses' = Uses BY <1>2 DEF vars, State, Uses
  <2>2. Calm' BY <2>1 DEF PInv, Calm
  <2>3. Good(Uses, State)' <=> Good(Uses', State')
    BY DEF Good, Screen, Fits, Limited, OnceRun, Numbered
  <2>4. Agree(State)' <=> Agree(State') BY DEF Agree, Waiting
  <2> QED BY <2>1, <2>2, <2>3, <2>4 DEF PInv
<1> QED BY <1>1, <1>2

LEMMA InvariantImplies == ASSUME PInv PROVE PromptsSound
<1>1. /\ Good(Uses, State) /\ prompt \in AllPrompts \cup {NoPrompt}
      /\ overlay \in AllOverlays \cup {NoOverlay}
      /\ asked \in Tables
  BY StateFields DEF PInv, Good, States
<1>2. prompt.kind = "none" <=> prompt = NoPrompt BY <1>1, Nones
<1>3. ShownIsThere BY <1>1, <1>2, StateFields DEF Good, Screen, ShownIsThere
<1>4. AnswersAreHeld
  <2>1. SUFFICES ASSUME client # "dead" PROVE AnswersAreHeld!2 BY DEF AnswersAreHeld
  <2>2. Held = {ItemOf(prompt), ItemOf(overlay)} \ {NoItem} BY DEF Held, ItemOf
  <2>3. Agree(State) BY <2>1 DEF PInv
  <2>4. {i \in DOMAIN asked : asked[i].waits} = Held BY <2>2, <2>3, StateFields DEF Agree, Waiting
  <2>5. prompt.kind # "none" /\ overlay.kind # "none" => prompt.item = NoItem \/ prompt.item # overlay.item
    BY <2>3, StateFields DEF Agree, ItemOf
  <2>6. \A i \in DOMAIN asked : asked[i].ran <= 1 BY <1>1, StateFields DEF Good, OnceRun
  <2> QED BY <2>4, <2>5, <2>6
<1> QED BY <1>3, <1>4 DEF PromptsSound

\* However many commands ask and show things, and whatever is typed in
\* whatever order: an item that waits is held by the prompt or the overlay
\* that will continue it, they hold no other, its commands run once, and what
\* is left on the terminal is there for something that is shown.
THEOREM AnswersReachTheirCommands == Spec /\ Calm => []PromptsSound
<1>1. Init /\ Calm => PInv BY InitHolds
<1>2. PInv /\ [Next]_vars => PInv' BY StepHolds
<1>3. PInv => PromptsSound BY InvariantImplies
<1> QED BY <1>1, <1>2, <1>3, PTL DEF Spec
=============================================================================
