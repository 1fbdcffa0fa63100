------------------------------ MODULE Prompts ------------------------------
(***************************************************************************)
(* What is shown over the panes of an attached client, and the commands    *)
(* that wait for it: a message, a prompt (status.c) and an overlay, which  *)
(* is the numbers of panes, a menu or a popup (server-client.c, menu.c,    *)
(* popup.c).                                                               *)
(*                                                                         *)
(* A command that waits is an item of some queue, of the client or of      *)
(* another one; it is continued by a callback of the prompt or when the    *)
(* overlay is freed. Keys go to what is shown first. Commands may come     *)
(* from any other queue at any time, so they are actions here.             *)
(*                                                                         *)
(* What is typed is a number of characters, up to two; PromptLine has the  *)
(* editing. Positions, drawing and the choice in a menu are left out.      *)
(***************************************************************************)
EXTENDS Naturals, FiniteSets

CONSTANT Instances \* kinds of commands and circumstances, see Features

Features == {"command", "confirm", "mode", "panes", "menu", "popup", "message", "alert",
             \* how command-prompt is asked (-1, -N, -k, -i, -e), for more than one thing (-p)
             "single", "numeric", "key", "incremental", "bspace", "several",
             "readonly", "suspend", "lost",
             \* What leaves a command waiting, as does "mode" with "several": a
             \* prompt over another, -k or -N with several prompts, -1 with an
             \* input (-I)
             "replace", "several keys", "given",
             \* and what leaves a message: -N, and then a delay of zero
             "ignore, then stay"}

PromptsAssumption == \A u \in Instances : u.uses \subseteq Features

VARIABLES message, \* [shown, stays, timer, ignore]
          prompt,  \* NoPrompt or one, see Prompt
          overlay, \* NoOverlay or one, see Overlay
          pushed,  \* references to the screen of the status line
          tty,     \* flags TTY_FREEZE and TTY_NOCURSOR
          client,
          accepts, \* status_prompt_accept, queued
          asked,   \* items that have waited, by number: [waits, ran]
          keys,    \* keys but Escape so far
          how      \* the instance: [uses, most, keys]

vars == <<message, prompt, overlay, pushed, tty, client, accepts, asked, keys, how>>

Uses == how.uses
NoPrompt == [kind |-> "none"]
NoOverlay == [kind |-> "none"]
NoItem == 0

State == [message |-> message, prompt |-> prompt, overlay |-> overlay, pushed |-> pushed,
          tty |-> tty, client |-> client, accepts |-> accepts, asked |-> asked]
Become(st) ==
  /\ message' = st.message /\ prompt' = st.prompt /\ overlay' = st.overlay /\ pushed' = st.pushed
  /\ tty' = st.tty /\ client' = st.client /\ accepts' = st.accepts /\ asked' = st.asked
  /\ UNCHANGED how

Init ==
  /\ how \in Instances
  /\ message = [shown |-> FALSE, stays |-> FALSE, timer |-> FALSE, ignore |-> FALSE]
  /\ prompt = NoPrompt /\ overlay = NoOverlay
  /\ pushed = 0 /\ tty = {} /\ client = "attached" /\ accepts = 0 /\ asked = <<>> /\ keys = 0

-----------------------------------------------------------------------------
(***************************************************************************)
(* Items, and what is shown and cleared.                                   *)
(***************************************************************************)
Continue(st, i) == IF i = NoItem THEN st ELSE [st EXCEPT !.asked[i].waits = FALSE]
\* The commands of an item are put behind it; without one, in the queue.
Run(st, i) == IF i = NoItem THEN st ELSE [st EXCEPT !.asked[i].ran = @ + 1]

Push(st) == [st EXCEPT !.pushed = @ + 1]
Pop(st) == [st EXCEPT !.pushed = @ - 1]

MessageClear(st) ==
  IF ~st.message.shown THEN st
  ELSE Pop([st EXCEPT !.message.shown = FALSE, !.tty = IF st.prompt = NoPrompt THEN {} ELSE @])

\* An item of the prompt is not told.
PromptClear(st) ==
  IF st.prompt = NoPrompt THEN st ELSE Pop([st EXCEPT !.prompt = NoPrompt, !.tty = {}])

\* Variant: the item is not told.
OverlayFreeOnly(st) == st

OverlayFree(st) == Continue(st, st.overlay.item)
OverlayClear(st) ==
  IF st.overlay = NoOverlay THEN st ELSE [OverlayFree(st) EXCEPT !.overlay = NoOverlay, !.tty = {}]

\* status_message_set; stays: a delay of zero.
MessageSet(st, stays, ignore, freezes) ==
  LET x == Push(MessageClear(st))
  IN [x EXCEPT !.message = [shown |-> TRUE, stays |-> stays, timer |-> IF stays THEN @.timer ELSE TRUE,
                            ignore |-> IF stays THEN @.ignore ELSE ignore],
               !.tty = @ \cup {"NOCURSOR"} \cup (IF freezes THEN {"FREEZE"} ELSE {}),
               !.prompt = IF @ = NoPrompt THEN @ ELSE [@ EXCEPT !.under = TRUE]]

Prompt(kind, type, item, more, size, freezes) ==
  [kind |-> kind, type |-> type, item |-> item, more |-> more, size |-> size, freezes |-> freezes,
   under |-> FALSE] \* a message has been shown over it

\* status_prompt_set.
PromptSet(st, p) ==
  LET x == Push(PromptClear(MessageClear(OverlayClear(st))))
  IN [x EXCEPT !.prompt = p, !.tty = IF p.freezes THEN @ \cup {"FREEZE"} ELSE @]

Overlay(kind, item, takes, timer, flags) ==
  [kind |-> kind, item |-> item, keys |-> takes, timer |-> timer, flags |-> flags,
   job |-> kind = "popup", status |-> 1, menu |-> FALSE]

\* server_client_set_overlay: only a popup has a callback that tells what it covers.
OverlaySet(st, o) ==
  [OverlayClear(st) EXCEPT !.overlay = o,
     !.tty = @ \cup (IF o.kind # "popup" THEN {"FREEZE"} ELSE {}) \cup (IF o.kind = "panes" THEN {"NOCURSOR"} ELSE {})]

-----------------------------------------------------------------------------
(***************************************************************************)
(* Commands. An item that is to wait gets the next number.                 *)
(***************************************************************************)
Attached == client \in {"attached", "readonly"}
MayRun == Attached /\ Cardinality(DOMAIN asked) < how.most
New == Cardinality(DOMAIN asked) + 1
Waits(waits) ==
  [State EXCEPT !.asked = [i \in DOMAIN @ \cup {New} |->
                             IF i = New THEN [waits |-> waits, ran |-> 0] ELSE @[i]]]
Holding(waits) == IF waits THEN New ELSE NoItem
Other == UNCHANGED keys

Types == {"line"} \cup ({"single", "numeric", "key", "incremental", "bspace"} \cap Uses)

\* command-prompt. background: -b; more: further prompts; size: of the input.
CommandPrompt(type, background, more, size, freezes) ==
  /\ "command" \in Uses /\ MayRun /\ Other
  /\ type \in {"numeric", "key"} /\ more > 0 => "several keys" \in Uses
  /\ type = "single" /\ size > 0 => "given" \in Uses
  /\ LET waits == ~background /\ type # "incremental"
     IN Become(IF prompt # NoPrompt THEN Waits(FALSE)
               ELSE PromptSet(Waits(waits),
                      Prompt("command", type, Holding(waits), more, size, freezes /\ type # "incremental")))

ReplacesOnly == prompt = NoPrompt \/ "replace" \in Uses

\* confirm-before.
ConfirmBefore(background) ==
  /\ "confirm" \in Uses /\ MayRun /\ Other /\ ReplacesOnly
  /\ Become(PromptSet(Waits(~background), Prompt("confirm", "single", Holding(~background), 0, 0, TRUE)))

\* A mode asks, for one key or a line; accept: choose-tree -y.
ModePrompt(type, accept) ==
  /\ "mode" \in Uses /\ MayRun /\ Other /\ ReplacesOnly
  /\ accept => type = "single"
  /\ LET x == PromptSet(Waits(FALSE), Prompt("mode", type, NoItem, 0, 0, TRUE))
     IN Become(IF accept THEN [x EXCEPT !.accepts = @ + 1] ELSE x)

\* display-panes; takes: without -N.
DisplayPanes(background, takes, timer) ==
  /\ "panes" \in Uses /\ MayRun /\ Other
  /\ Become(IF overlay # NoOverlay THEN Waits(FALSE)
            ELSE OverlaySet(Waits(~background), Overlay("panes", Holding(~background), takes, timer, {})))

\* display-menu, of a menu that fits.
DisplayMenu ==
  /\ "menu" \in Uses /\ MayRun /\ Other
  /\ Become(IF overlay # NoOverlay THEN Waits(FALSE)
            ELSE OverlaySet(Waits(TRUE), Overlay("menu", New, TRUE, FALSE, {})))

\* display-popup: another one, a change of the one that is there, or -C.
DisplayPopup(flags) ==
  /\ "popup" \in Uses /\ MayRun /\ Other
  /\ Become(IF overlay.kind = "popup" THEN [Waits(FALSE) EXCEPT !.overlay.flags = flags]
            ELSE IF overlay # NoOverlay THEN Waits(FALSE)
            ELSE OverlaySet(Waits(TRUE), Overlay("popup", New, TRUE, FALSE, flags)))
ClosePopup ==
  /\ "popup" \in Uses /\ MayRun /\ Other
  /\ Become(OverlayClear(Waits(FALSE)))

\* display-message; ignore: -N, freezes: without -C.
DisplayMessage(stays, ignore, freezes) ==
  /\ "message" \in Uses /\ MayRun /\ Other
  /\ stays /\ message.ignore => "ignore, then stay" \in Uses
  /\ Become(MessageSet(Waits(FALSE), stays, ignore, freezes))

\* alerts_set_message and errors of commands.
Alert ==
  /\ "alert" \in Uses /\ MayRun /\ Other
  /\ Become(MessageSet(Waits(FALSE), FALSE, FALSE, TRUE))

-----------------------------------------------------------------------------
(***************************************************************************)
(* Keys. Each handler says whether the key has been used.                  *)
(***************************************************************************)
\* "n" is a letter that chooses in a menu.
Keys == {"Escape", "Enter", "y", "n", "0", "BSpace", "Tab", "button 3"}

\* The callback of a prompt: what it does with an answer, and whether the
\* prompt stays, which the caller need not care about.
Stays(st) == st.prompt.more > 0
Answer(st, yes) ==
  LET p == st.prompt
  IN IF p.kind = "command" /\ p.more > 0 THEN [st EXCEPT !.prompt.more = @ - 1, !.prompt.size = 0]
     ELSE Continue(IF yes /\ p.type # "incremental" THEN Run(st, p.item) ELSE st, p.item)

\* Variant: the item is not told.
CancelOnly(st) == PromptClear(st)

Cancel(st) == PromptClear(Continue(st, st.prompt.item))
Enter(st, yes) == IF Stays(st) THEN Answer(st, yes) ELSE PromptClear(Answer(st, yes))
Typed(st) == [st EXCEPT !.prompt.size = IF @ < 2 THEN @ + 1 ELSE @]

\* Tab completes or shows a menu over the prompt.
Completed(st, menu) ==
  IF menu THEN OverlaySet(st, Overlay("tab", NoItem, TRUE, FALSE, {})) ELSE Typed(st)

Used(st) == [st |-> st, used |-> TRUE]
NotUsed(st) == [st |-> st, used |-> FALSE]

\* status_prompt_key.
PromptKey(st, key, menu) ==
  LET p == st.prompt
      answer == key = "y" \/ p.kind # "confirm"
  IN CASE p.type = "key" -> Used(PromptClear(Answer(st, TRUE)))
       [] p.type = "numeric" -> IF key = "0" THEN Used(Typed(st)) ELSE NotUsed(PromptClear(Answer(st, TRUE)))
       [] p.type = "single" ->
            IF key = "button 3" THEN Used(st)
            ELSE IF p.size # 0 THEN Used(PromptClear(st)) ELSE Used(Enter(st, answer))
       [] OTHER ->
            Used(CASE key = "Escape" -> Cancel(st)
                   [] key = "Enter" -> Enter(st, TRUE)
                   [] key = "BSpace" -> IF p.size > 0 THEN [st EXCEPT !.prompt.size = @ - 1]
                                        ELSE IF p.type = "bspace" THEN Cancel(st) ELSE st
                   [] key = "Tab" -> Completed(st, menu /\ p.size > 0)
                   [] key \in {"y", "n", "0"} -> Typed(st)
                   [] OTHER -> st)

\* cmd_display_panes_key, which may not know the key.
PanesKey(st, key) ==
  IF key = "0" THEN Used(OverlayClear(Run(st, st.overlay.item)))
  ELSE IF key \in {"y", "n"} THEN Used(OverlayClear(st)) ELSE NotUsed(OverlayClear(st))

\* menu_key_cb: what is chosen is run from the queue, or completes a word; a
\* menu of completions ends at its last choice. A button other than the first
\* ends a menu that does not take the mouse, as that of completions does not;
\* one that does is ended where the pointer is on a choice or nowhere.
MenuKey(st, key, last) ==
  LET tab == st.overlay.kind = "tab"
      close == \/ key \in {"Escape", "Enter", "n"}
               \/ tab /\ (key \in {"BSpace", "button 3"} \/ (key = "Tab" /\ last))
               \/ key = "button 3" /\ last
      chosen == tab /\ key \in {"Enter", "n"} /\ st.prompt # NoPrompt
  IN Used(IF close THEN OverlayClear(IF chosen THEN Typed(st) ELSE st) ELSE st)

\* popup_key_cb, with popup_menu_done: the menu of a popup has its own keys,
\* and what is chosen may close the popup or give its job to a pane.
PopupKey(st, key, last) ==
  LET o == st.overlay
      running == o.job /\ o.flags \cap {"E", "EE"} # {}
  IN Used(IF o.menu
          THEN IF key = "n" THEN OverlayClear(st)
               ELSE IF key \in {"Escape", "Enter"} \/ (key = "button 3" /\ last) THEN [st EXCEPT !.overlay.menu = FALSE] ELSE st
          ELSE IF key = "button 3" THEN [st EXCEPT !.overlay.menu = TRUE]
          ELSE IF (key = "Escape" /\ ~running) \/ (~o.job /\ "k" \in o.flags) THEN OverlayClear(st)
          ELSE st)

OverlayKey(st, key, menu) ==
  CASE st.overlay.kind = "panes" /\ st.overlay.keys -> PanesKey(st, key)
    [] st.overlay.kind \in {"menu", "tab"} -> MenuKey(st, key, menu)
    [] st.overlay.kind = "popup" -> PopupKey(st, key, menu)
    [] OTHER -> NotUsed(OverlayClear(st))

\* server_client_handle_key: the message, the overlay and then the prompt.
Handled(st, key, menu) ==
  LET x == MessageClear(st)
      o == OverlayKey(x, key, menu)
  IN IF st.message.shown /\ st.message.ignore THEN st
     ELSE IF o.used \/ o.st.prompt = NoPrompt THEN o.st ELSE PromptKey(o.st, key, menu).st

Key(key, menu) ==
  /\ client = "attached"
  /\ key # "Escape" => keys < how.keys
  /\ keys' = IF key = "Escape" THEN keys ELSE keys + 1
  /\ Become(Handled(State, key, menu))

-----------------------------------------------------------------------------
(***************************************************************************)
(* Timers, jobs, the queue and the terminal.                               *)
(***************************************************************************)
MessageTimer ==
  /\ message.timer /\ client # "dead"
  /\ Become(MessageClear([State EXCEPT !.message.timer = FALSE])) /\ Other
OverlayTimer ==
  /\ overlay # NoOverlay /\ overlay.timer
  /\ Become(OverlayClear(State)) /\ Other

\* popup_job_complete_cb.
JobEnds(status) ==
  /\ overlay.kind = "popup" /\ overlay.job
  /\ LET x == [State EXCEPT !.overlay.job = FALSE, !.overlay.status = status]
     IN Become(IF "E" \in overlay.flags \/ ("EE" \in overlay.flags /\ status = 0) THEN OverlayClear(x) ELSE x)
  /\ Other

\* status_prompt_accept.
Accept ==
  /\ accepts > 0 /\ client # "dead"
  /\ LET x == [State EXCEPT !.accepts = @ - 1]
     IN Become(IF prompt = NoPrompt THEN x ELSE PromptClear(Answer(x, TRUE)))
  /\ Other

\* A menu moves, a popup loses its menu.
Resize ==
  /\ Attached /\ overlay # NoOverlay
  /\ Become(CASE overlay.kind = "panes" -> OverlayClear(State)
              [] overlay.kind = "popup" -> [State EXCEPT !.overlay.menu = FALSE]
              [] OTHER -> State)
  /\ Other

\* switch-client -r.
ReadOnly ==
  /\ "readonly" \in Uses /\ Attached /\ Other
  /\ Become([State EXCEPT !.client = IF @ = "attached" THEN "readonly" ELSE "attached"])

\* tty_start_tty, when the client continues.
Resume ==
  /\ "suspend" \in Uses /\ Attached /\ tty # {} /\ Other
  /\ Become([State EXCEPT !.tty = {}])

Lost ==
  /\ "lost" \in Uses /\ Attached /\ Other
  /\ Become([MessageClear(PromptClear(OverlayClear(State))) EXCEPT !.client = "dead", !.message.timer = FALSE])

\* How many prompts come after the first.
Mores == IF "several" \in Uses THEN 0..1 ELSE {0}

\* The flags of popups: a close at the end, at success only, by any key.
PopupFlags == {{}, {"E"}, {"EE"}, {"EE", "k"}}

Commands ==
  \/ \E type \in Types, background, freezes \in BOOLEAN, size \in 0..1, more \in Mores :
       CommandPrompt(type, background, more, size, freezes)
  \/ \E background \in BOOLEAN :
       \/ ConfirmBefore(background)
       \/ \E takes, timer \in BOOLEAN : DisplayPanes(background, takes, timer)
  \/ \E type \in {"line", "single"}, accept \in BOOLEAN : ModePrompt(type, accept)
  \/ DisplayMenu \/ ClosePopup \/ \E flags \in PopupFlags : DisplayPopup(flags)
  \/ \E stays, ignore, freezes \in BOOLEAN : DisplayMessage(stays, ignore, freezes)
  \/ Alert

Next ==
  \/ Commands
  \/ \E key \in Keys, menu \in BOOLEAN : Key(key, menu)
  \/ MessageTimer \/ OverlayTimer \/ \E status \in 0..1 : JobEnds(status)
  \/ Accept \/ Resize \/ ReadOnly \/ Resume \/ Lost

Spec == Init /\ [][Next]_vars

-----------------------------------------------------------------------------
(***************************************************************************)
(* Properties.                                                             *)
(***************************************************************************)
Number(b) == IF b THEN 1 ELSE 0
Held == {x.item : x \in {y \in {prompt, overlay} : y.kind # "none"}} \ {NoItem}

\* A command that waits is held by the prompt or the overlay, which is how it
\* is going to be continued, and they hold nothing that has gone on; two do
\* not hold the same (status_prompt_set, server_client_set_overlay,
\* status_prompt_key, popup_free_cb, menu_free_cb). Its commands run once.
AnswersAreHeld ==
  client # "dead" =>
    /\ {i \in DOMAIN asked : asked[i].waits} = Held
    /\ prompt.kind # "none" /\ overlay.kind # "none" => prompt.item = NoItem \/ prompt.item # overlay.item
    /\ \A i \in DOMAIN asked : asked[i].ran <= 1

\* The screen of the status line is the one that messages and prompts are
\* drawn in as long as there is one of them; the terminal is frozen only, and
\* its cursor hidden, while something shown has asked for it. A message over a
\* prompt leaves both behind (status_message_clear).
ShownIsThere ==
  /\ pushed = Number(message.shown) + Number(prompt # NoPrompt)
  /\ client = "dead" => pushed = 0 /\ overlay = NoOverlay
  /\ ~(prompt # NoPrompt /\ prompt.under) =>
       /\ "FREEZE" \in tty => message.shown \/ (prompt # NoPrompt /\ prompt.freezes) \/ overlay.kind \notin {"none", "popup"}
       /\ "NOCURSOR" \in tty => message.shown \/ overlay.kind = "panes"

\* What is shown and what waits for it are in agreement.
PromptsSound == AnswersAreHeld /\ ShownIsThere

\* A client that presses Escape for long enough, while the timers run and the
\* job of a popup ends, has nothing that waits for it.
Quiet == client = "attached" => {i \in DOMAIN asked : asked[i].waits} = {}
EscapeLeaves == []<>Quiet
=============================================================================
