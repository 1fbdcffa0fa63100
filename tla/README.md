# Models and proofs of the tmux server

TLA+ modules that describe parts of tmux (this tree: tmux 3.7 with a native
Windows port), the TLC instances that check them and theorems about them that
TLAPS checks. Every definition is read from the C source; `PROJECT.json` maps
each to its lines.

## 1. The system

tmux is one server process and any number of client processes. The server is
single-threaded: `proc_loop` alternates one pass of libevent
(`event_loop(EVLOOP_ONCE)`, which may run several callbacks) with
`server_loop`, which drains the command queues and then looks at every client
once. Nothing in the server is concurrent in the sense of threads; what is hard
is the *order* in which callbacks, queue items, timers and client messages
follow each other, and the objects that may have gone by the time a callback
that points at them runs.

| component | source | state | operations |
|---|---|---|---|
| command queues | `cmd-queue.c`, `server.c` (loop), `notify.c` | a queue of items for each client and a global one; flags FIRED and WAITING, group, NOHOOKS; references of clients | append, insert after, fire, continue, remove a group, hooks, notifications |
| commands that wait | `cmd-run-shell.c`, `cmd-if-shell.c`, `cmd-source-file.c`, `cmd-load-buffer.c`, `cmd-save-buffer.c`, `cmd-confirm-before.c`, `cmd-command-prompt.c`, `cmd-display-panes.c`, `menu.c`, `popup.c` | a pointer to a waiting item kept by a job, a file, a prompt or an overlay | start, finish (insert commands, continue the item) |
| wait channels | `cmd-wait-for.c` | channels with flags locked and woken, waiters and lockers | signal, wait, lock, unlock, flush |
| client lifetime | `server-client.c` (create, lost, unref, free) | list of clients, references, flags DEAD, EXIT, ATTACHED, SUSPENDED | connect, identify, command, lose, free |
| sessions and windows | `session.c`, `window.c` (winlinks, windows), `server-fn.c`, `cmd-move-window.c` and others | sessions, winlinks by index, current window, stack of last windows, groups, references | attach, detach, select, renumber, synchronize, destroy, link, unlink |
| panes | `window.c` (panes), `spawn.c`, `layout*.c` | panes of a window in order, z-order, active pane, stack of last panes, layout tree | split, kill, swap, resize, zoom |
| window sizes | `resize.c`, `server-client.c` (pane resize queue) | size of a window, pending sizes of a pane | recalculate, resize, timer |
| control mode | `control.c`, pane buffer in `window.c` and `server-client.c` | per client and pane offset and queued, blocks in two lists, flags OFF and PAUSED | read, append, write, pause, discard |
| paste buffers | `paste.c` | buffers by name and by time, limit | add, set, rename, free, walk |
| jobs | `job.c` | running, dead and closed jobs | run, output ends, child dies, free |
| files over the protocol | `file.c` | streams open on a client | read, write, ready, done, cancel |
| status line, prompts, overlays | `status.c`, `server-client.c`, `popup.c`, `menu.c` | message, prompt, overlay of a client with timers | set, clear, key |
| key tables | `key-bindings.c`, `server-client.c` (key handling) | tables with references, repeat timer | bind, unbind, switch table |
| options, environment | `options*.c`, `environ.c` | trees with parents | set, unset, inherit |
| alerts, names, monitors | `alerts.c`, `names.c`, `control.c` (subscriptions) | flags, timers, queue of windows | queue, check, reset |
| terminal input | `input.c`, `input-keys.c`, `tty-keys.c` | parser state, outstanding requests | parse, timeout |
| grid and screen | `grid*.c`, `screen*.c` | lines, history, cursor | write, scroll, reflow |
| copy mode, trees | `window-copy.c`, `window-tree.c`, `mode-tree.c` and others | mode stack of a pane | enter, key, exit |
| output to terminals | `tty*.c` | terminal state, block on slow output | draw, sync, discard |
| formats, styles | `format*.c`, `style.c`, `colour.c` | job cache | expand |
| client process | `client.c`, `proc.c` | exit reason, attached or not | connect with a lock, dispatch |
| Windows port | `compat/win32-*.c` | IPC endpoints, standard I/O bridge, ConPTY, process handles | connect, read, write, close |
| parser of commands | `cmd-parse.y`, `arguments.c` | - | parse |

## 2. What is hard here

* A queue item that waits is continued by somebody else, who must exist, must do
  it once, and must hold a pointer that is still good.
* Notifications are appended to the global queue unless a hook runs; whether a
  hook runs is read from a pointer kept since the last pass over the queue.
* A client may be lost between any two callbacks, with items on its queue, wait
  items on channels, jobs that point at its items.
* References decide when a client, a session or a window is freed.
* Grouped sessions are synchronized through a loop that rebuilds each in turn.
* The control-mode offsets are moved from four places (read, write, pause,
  detach) and the pane buffer is cut at their minimum.
* The panes of a window are in five places at once: the list, the layout tree (two
  of them when the window is zoomed), the stack of last panes, the active pane, the sizes
  processes were told. Each command brings all of them into agreement by hand.
* Copy mode keeps positions of three kinds (on the screen, in the history, at the
  start of a drag) over lines that grow, are trimmed and are wrapped anew.
* What a program writes reaches the terminals late and out of order: text is
  collected, erasures are merged, scrolls counted, and each terminal has a cursor, a
  region and margins that tmux only believes in. A pane that does not show what
  the grid holds is wrong although nothing crashes, and no unit test sees it.
* Clients that find no server start one, each on its own, with a lock file that is
  removed while others have it open, and a name that is taken over by removing it.
* A client and the server use one terminal in turns and tell each other with
  messages that nobody waits for, while signals come to the client.
* Commands wait for a file that a client opens, for an answer at a prompt, for a
  popup: the client, the pane or the prompt may go first.

## 3. What makes each component correct

* **Wait channels.** An item that waits is on exactly one list of one channel;
  a channel is freed only when nobody is on it; nobody waits for something that
  is there; `-L`/`-U` are a lock with one owner that is passed on in order.
* **Command queues.** References of clients are exact; items fire in order; an
  item that waits has exactly one party that will continue it; hooks do not feed
  on themselves; `server_loop` leaves nothing that could run; every item runs.
* **Sessions and windows.** Every living session has a current window that it
  links, a stack of last windows without dangling or double entries; the sessions of
  a group share their windows and nothing else; no client is left on a dead session.
* **Control mode.** What the offsets say and what the blocks say agree; data that
  a block needs is in the buffer; lines held up behind output are written; a
  client that exits goes; a slow client does not stop a pane for ever.
* **Panes and layouts.** The leaves of the tree are the panes of the window, each
  once; sizes add up at every node; a pane has the size of its cell; a zoomed window shows its
  active pane and comes back as it was; the active pane and the last ones are panes of
  the window; every loop over the tree ends.
* **Copy mode.** What is copied is what is highlighted; a selection by lines or words
  holds whole lines or words whichever way it is drawn; word movements stop at words;
  the cursor keeps its character and paragraphs their text when the width changes;
  output in view mode does not move what one looks at.
* **Output to terminals.** When everything is out, each terminal shows what the grid holds;
  nothing outside the pane is written; what tmux believes of a terminal is so; no
  terminal is sent half of a wide character.
* **Files over the protocol.** The references of a client are its open files, the data that
  was given is the data that is written, neither end gets a message for a stream it does not
  know, and a command that waits has a file that will end.
* **Prompts, messages, overlays.** A command that waits is held by the prompt or the overlay
  that is there; the cursor, the freezing of the terminal and the status screen follow
  what is shown; the place in the history is one of its lines.
* **Start of a server.** One process at a time is about to replace the socket, a server that
  runs can be reached by its name, and no client that may start a server is turned away.
* **Client process.** The server does not draw while the client has given up the terminal; a client
  that is suspended is heard of again; what it prints as the reason of its end is so.

## 4. Modules

| module | models | state variables and the code they stand for |
|---|---|---|
| `WaitFor` | `cmd-wait-for.c`, whole | `exists` the tree `wait_channels`; `locked`, `woken`, `waiters`, `lockers` the fields of `struct wait_channel`; `blocked` the queues whose head waits here; `lost` clients after `server_client_lost`; `holder` is history |
| `LockService` | abstract: what `-L` and `-U` promise | `owner` and `asking` of each channel |
| `WaitForProofs` | theorems about `WaitFor` | |
| `CmdQueue` | `cmd-queue.c`, the loop of `server.c`, `notify.c`, waiting in `cmd-run-shell.c` and `cmd-if-shell.c`, references in `server-client.c` | `order` the list of each queue; `it` the items (pool); `running` `queue->item`; `job` the data of jobs; `conn`, `refs`, `freeing` life of clients; `at`, `todo`, `busy` the position in `server_loop` |
| `Sessions` | `session.c`, winlinks in `window.c`, `server-fn.c`, `spawn_window`, and the commands that call them | `sess` the sessions (winlinks, `curw`, `lastw`); `groups` `session_groups`; `att` `c->session`; `noted` windows held by queued notifications |
| `ControlOutput` | `control.c` without subscriptions; the pane buffer in `window.c` and `server_client_check_pane_buffer` | `pane` length of the buffer, `wp->offset`, whether reading is on; `cl` per client `control_panes`, `all_blocks`, `pending_list`, output of the write event; `phase` of the loop; `fatal` the `fatalx` in `control_append_data` |
| `Layout` | `layout.c`, `layout-set.c`, `layout-custom.c` | none: trees of cells and what is done to them |
| `Panes` | panes of `window.c`, `spawn.c`, `server-fn.c`, `resize.c` (one window) and the commands on panes | `win` list, layout, saved layout, zoom, active and last panes of each window; `size` what a pane was told; `marks` `PANE_ZOOMED`; `hung`; `uses` the instance |
| `Grid`, `GridReader` | `grid.c`, `grid-view.c`, `screen.c` (resize), `grid-reader.c` | none: grids are records |
| `CopyMode` | `window-copy.c` without searches | `d` the data of the mode; `pane` the screen below; `use`, `commands` the instance |
| `Tty` | `tty.c`, `tty-draw.c` | none: a tty is a record |
| `ScreenWrite` | `screen-write.c`, `grid-view.c`, redraws in `screen-redraw.c` and `server-client.c` | `screen` grid, cursor, modes and what is put off; `ttys` of the clients; `flags` their redraws; `redraw` `PANE_REDRAW`; `reading` |
| `Files` | `file.c` and the commands that read and write files (`cmd-load-buffer.c`, `cmd-save-buffer.c`, `cmd-source-file.c`), both ends of the protocol | `c` the client in the server; `files` its streams and the local ones; `once` callbacks queued; `item` the command that waits; `toClient`, `toServer` messages under way; `proc` the process of the client and its streams; `pane` that a stream fills; `book` what was given and written (history) |
| `Prompts` | prompts in `status.c`, overlays and menus in `server-client.c`, `menu.c`, `popup.c`, `cmd-command-prompt.c`, `cmd-confirm-before.c`, `cmd-display-panes.c`, messages | `message`, `prompt`, `overlay` with their timers; `pushed` references to the screen of the status line; `tty` its flags; `client`; `accepts` queued; `asked` the items that have waited |
| `PromptLine` | the line of a prompt, its history and its modes in `status.c` | `line` text, position, copy, mode, index in the history; `history`, `added` its lines |
| `Startup` | `client_connect`, `client_get_lock` (`client.c`), `server_start`, `server_create_socket`, `server_accept` (`server.c`), `compat/win32-ipc.c` | `cl` client processes, `sv` servers in the order they were started, `name` the socket its path leads to, `lockname` the lock file its path leads to; `sockets`, `lockfiles` number what is made |
| `Attach` | `client_main`, `client_dispatch_*`, `client_signal` (`client.c`), `proc.c`, `server_client_dispatch`, suspend, detach, lost and exits in `server-client.c`, `server-fn.c` | `proc` the process of the client; `c` `struct client`; `toClient`, `toServer` the messages under way; `server` |
| `MCClient` | `Startup`, `Files` and `PromptLine` side by side | |
| `MCServed` | `Prompts` and four instances of `ControlOutput` side by side; one of them is given by the cfg (`BlocksSound`, `EnoughData`), the others by `INSTANCE` (`OthersSound`) | |
| `MCLive` | `Attach`, `CmdQueue`, `ControlOutput`, `Files` and `Prompts` side by side with their fairness | |
| `CmdQueueProofs` | theorems about `CmdQueue` | |
| `SessionsProofs`, `ControlProofs` (about `ControlOutput`), `StartupProofs`, `AttachProofs`, `PromptsProofs`, `FilesProofs` | theorems about the modules of these names | |

The modules whose names begin with `MC` only name model values and small sets.

### WaitFor

One action for each of the four forms of the command (`Signal`, `Wait`, `Lock`,
`Unlock`), `Flush` for `cmd_wait_for_flush`, and `Lose` for the loss of a client.
`cmd_wait_for_add` and `_remove` are part of the actions that call them. An item
is represented by its queue because `cmdq_next` stops at a waiting item, so a
queue has one such item at most. The queue of a lost client is not run any more
(`server_loop` walks over the list of clients), but its `wait_item`s stay on
the channel: `Unlock` gives the lock to the first of them nevertheless, as the
code does.

`LockService` is the abstract specification: an owner and a set of askers, no
order, no `woken`, no freeing. The refinement mapping is `owner <- holder`,
`asking <- ` the set of elements of `lockers`.

### CmdQueue

A callback and the firing of one item are atomic; everything between them is
a step of its own. `FireCommand` is `cmdq_fire_command` for any command: which
commands it inserts, whether it raises a notification or starts a job, and how
it returns are chosen there and follow one of the shapes of `cmd-run-shell.c`,
`cmd-if-shell.c`, `cmd-load-buffer.c` (which waits and has an after hook) and of commands that do not wait. `Retire` is the part of
`cmdq_next` after the item has returned (remove, or remove its group on an
error); `LoopStart`, `NextClient`, `NextPass` and `LeaveLoop` are `server_loop`;
`Raise` is a notification from a callback; `JobEnds` and `BackgroundEnds` are
the completion callbacks. `Connect`, `Request`, `Lose` and `Free` are the life
of a client. Items come from a pool, so the pointers that the code keeps
(`queue->item`, `cdata->item`) are pointers in the model and could dangle.

### Sessions

Each command is one step since the server does not go back to the event loop
inside it; an operator for each function of the source takes the state of
all sessions to the next one and the commands are made of them in the order
of the code, including `session_group_synchronize_from`, the renumbering and
`server_destroy_session`. A pointer to a winlink is its index, and `Freed` after the
winlink has been freed. Notifications hold windows (`noted`) with the feature
`"later"`; without it they are delivered before the next command.

`groups` is `session_groups`, the sessions of each group in order by its name. Session `s` has the
name `s` as long as it lives (`rename-session` is not modelled), and so has the group that starts with it;
the group may outlive it, and a session made later has the name again. `Grouped` is `new-session -t`
with a session in a group, one in none, or the name of a group. When a session ends, `ClientsLeave`
takes its clients one after the other, each to the place `HomeFor` finds for it, with or
without `no-detach-on-destroy`, and after each `server_check_unattached` may end further sessions.

### ControlOutput

The three callbacks of libevent (`PaneReads`, `ClientTakes` for the write
callback, `ClientExits` and `ClientLost` for the read and error callbacks), the
lines of notifications (`Notify`), `refresh-client` (`Refresh`, `SetNoOutput`),
`SwitchSession`, `PaneExits`, `Respawn`, and `Loop`, which is
`server_client_loop`: exits, draining of buffers and the switching of reading. Bytes
are counted and kept relative to `base_offset`; a position before the buffer
is `Behind`. What a line or a block says is left out.

### Layout and Panes

`Layout` holds `layout.c`, `layout-set.c` and `layout-custom.c` as operators on
trees, which are values; a cell is named by its path from the root. Offsets are
computed, because everything that changes a tree ends in `layout_fix_offsets`.
`Panes` has the commands: split, kill, swap (`-d` and directions), rotate, join and
break, resize (amounts and the mouse), zoom, select-layout in all its forms,
respawn of panes and windows, select-pane and last-pane, the size of the
window. Each is one step, made of an operator for each function of the source in its
order, since the server does not go back to the event loop inside a
command. `hung` says that a loop of the code does not end. Features as
in `Sessions` name groups of commands; an instance is a set of them, chosen in `Init`.

### Grid, GridReader and CopyMode

`Grid` holds lines, history, and the change of size with its splitting and joining of
lines; `GridReader` the cursor movements over lines, whose loops are written
as the first or last position of a kind. `CopyMode` has one record named as `struct
window_copy_mode_data`, an operator for each function, and groups of the commands in
`window_copy_cmd_table` as actions. A cell is a blank, a tab, a separator, a letter or a
wide character with its padding. `pane` is the screen below, which view mode gets its output
from and `refresh-from-pane` copies.

### Tty and ScreenWrite

`ScreenWrite` is the way of a character or a sequence from a program in a pane: the
screen is changed, and what goes to the terminals is collected, merged and put
off as `screen-write.c` does it. `Tty` is what each client does with a command: with
or without margins, back colour erase and so on, on the cursor it remembers. The
terminal itself (`t` in a tty: rows, cursor, pending wrap, region, margins, pen) is not
part of tmux; `Fill`, `Shift`, `ScrollFrom`, `Goto`, `Index`, `Put` and `Vt` are external and
say what a VT does. `Read` is one `input_parse_buffer` of any number of characters
and sequences, `Loop` the redraws of `server_client_loop`, `Block` and `Unblock` a
slow client, `SyncTimer` the end of a synchronized update. Sequences in cases that are known to
go wrong (section 7) put the terminal into `astray`, a ghost variable: it is not compared
until the pane is drawn again.

### Files, Prompts and PromptLine

`Files` has the functions of `file.c` for both ends. An action of the server is one callback
(`Receive` a message, `Fire` an event of `event_once`, a command), one of the client a message, a
read or a write that it finishes. What is written is kept in `book` until the file
is given up, so that `StreamsKept` can compare it with what was given. `Files` and `Startup`
share a run, so the names of `Files` that `Startup` has too begin with `Files`.
`Prompts` has commands that ask (`command-prompt`, `confirm-before`, `display-panes`, menus, popups,
modes), keys, timers and the loss of the client; a callback that asks the next question of a prompt
is part of the key that calls it. `PromptLine` is `status_prompt_key` on a line, by groups of keys.

### Startup and Attach

In `Startup` every system call that another process can see is a step of its own: `connect`, `open`
and `flock` of the lock file, `unlink`, `bind`, `listen`, `accept`; a file that is removed lives on
for who has it open, hence the numbers. A server on Windows that ends goes through `closing`, when its socket is
closed, `ending`, when its endpoint is deleted, and `gone`; its process is there in the first two, and
`Owners` looks at the process and not at the socket, as `win32_ipc_read_endpoint` does. `Attach` has a step for every message on
either side (those read together with one that makes the server kill the connection are still dispatched
before it does anything else, as in `proc_event_cb`: `more`, `Dispatched`), for signals, for what is done to the client by others and for being killed.
A message is its type, since nothing else in it is told apart here.

## 5. Runs

Each cfg gives all of its bounds. Most instances are chosen in `Init` by a variable, so
that one run covers several small ones. Deadlock is checked but where a behaviour may
end: `live` (`fatalx`), `panes` and `copy` (the last command of an instance).

| run | shows |
|---|---|
| `waitfor` | two channels, clients that may be lost and a queue that stays: the inductive invariant, that the locks implement `LockService`, and that nobody starves while owners release |
| `cmdqueue` | two clients, four items, one job: references and freeing (`Lifetimes`), order, waiting items and `queue->item` (`FiringInOrder`), hooks, and the state in which `server_loop` leaves the queues |
| `sessions` | seven instances: two sessions, three windows, groups, `renumber-windows`, and `-a` and `-r` for sessions without a group; three sessions whose groups have names that can be used again; two clients, with and without a session of their own to stay in; windows linked more than once and swapped; commands while notifications are queued, a client that is moved when sessions end, `destroy-unattached keep-last`: current windows and stacks, groups, independence of group members |
| `sessions_renumber` | *violated*: `move-window -r` in a group and the next synchronization leave a session without a current window |
| `served` | two panes and a client that sets them on, off, paused; two clients that share a buffer; clients that switch sessions, a pane that is respawned: offsets and blocks agree, held lines wait for something, no `fatalx` (`BlocksSound` and `EnoughData` in the instance with the parameters of the configuration, `OthersSound` the same in the others); prompts, menus, popups and messages with their timers over a client that may be lost (`PromptsSound`) |
| `control_exit` | *violated*: exit, output and a write in one pass end in "not enough data" |
| `live` | items run, lost clients go; held lines are written, exits complete and panes are read (`OutputGoesOn`); commands that wait for a file, a prompt or an overlay are continued and a client that is to go goes (`WaitsEnd`); and the messages between a client and the server with the terminal both use (`AttachSound`), eight mixes of commands, signals and kills with three of them at most |
| `panes` | three panes in up to two windows, nine mixes of commands: list, tree, sizes, zoom, active pane, neighbours |
| `panes_spread` | *violated*: `select-layout -E` with cells nested the same way does not end |
| `copy` | eighteen screens and key tables with up to three commands each |
| `terminal` | up to four characters and sequences, on five kinds of terminal and two at once |
| `client` | up to four clients that start a server at once, on Unix and Windows, with kills, failures and SIGUSR1 (`StartSound`); files over the protocol with both ends; keys in the line of a prompt |

### Features

`Sessions`, `ControlOutput`, `Panes`, `Files`, `Prompts`, `PromptLine`, `Startup` and `Attach` have a
set of commands and circumstances an instance allows. It has two purposes. Instances stay small;
and where a command breaks a property, that circumstance has a name of its own
(`"-r in groups"`, `"switch early"`, `"respawn zoomed"`), so that the passing runs leave out no more
than that and the property is checked over all the rest. Section 7 lists them.

### Bounds and why they are enough

* `WaitFor`: a channel has no state that depends on another but for the rule
  that a queue is on one list, so two channels are enough to break it; three
  queues are enough for a holder, a first and a second in the list. The proofs
  remove these bounds.
* `CmdQueue`: four items let a client have a line of two commands while the
  global queue has a notification and its hook, or two lines of which one
  waits; one job at a time (a second would do what the first can). A group is a number
  from a set of one; `LineSizes` says how many items a line has. When the pool is empty
  nothing new is made, which is a bound and not a feature of the code.
* `Sessions`: two sessions are a group; three windows at three indexes have
  room for a current window, a last one and one that is moved, renumbered or
  killed. The instance `Twice` has two windows at two indexes: a window is linked twice
  in a session, or in both. `Names` and `Left` have three sessions of one window each: a group
  that outlives the session it is named after needs two besides that one, and of clients that leave a session one
  may go to the second session and end the third. Two clients are needed for that; there are no three.
* `ControlOutput`: two bytes in a buffer can be written, queued and unparsed
  separately; `MaxBlocks` blocks allow output, a held line and output again;
  `Low`, `High` and `Minimum` keep the order of the constants of the code and
  their values are as small as that allows, so that each side of every comparison is reached.
  `MaxOut` bounds only the lines that are added; output goes over it.
* `Panes`: three panes nest a node in a node; 3 and 5 columns are the least that hold
  two and three panes, so that every "no space" is near; all sequences of commands
  are explored, not a number of them. The loop of `select-layout -E` needs four panes.
* `CopyMode`: lines of four columns with a wrapped line, a wide character at the edge, an empty
  line and one of blanks; three commands are a start of a selection, a movement and a
  change. The number of commands is the bound (`most`).
* `ScreenWrite`: three by three cells have a first, a middle and a last of each, wide characters
  at both edges; three or four sequences with any splitting into reads. Five
  terminals stand for the branches on `tty_full_width`, margins, `bce`. `LongBlank` is 2 for 10.

* `Startup`: three clients that may start a server are one that holds the lock, one that waits for
  it and one that comes when the lock file has been removed; on Windows one whose server ends, one that
  meets the server while it closes, and one that comes after it. The proof removes the bound.
* `Attach`: one client, since the server keeps nothing that two share here; three commands or signals are
  a suspension, what comes across it, and a second suspension. The proof removes the bound.
* `Files`: one client and up to three commands, so that a file is open while another ends; data of two
  pieces is read and written in part. `Prompts`: up to three commands, so that a message lies over a prompt
  over an overlay. `PromptLine`: a line of three or four characters of three classes.

### Fairness

`MCLive` states it, for a small instance of each of its modules.

* Queues: `proc_loop` never stops and `cmdq_next` does not block, hence
  weak fairness of the server's own steps. `event_loop(EVLOOP_ONCE)` runs every
  callback that is active before `server_loop` runs again, so a finished job
  or a pending `server_client_free` is not passed over for ever: strong fairness
  for those. That jobs do end is an assumption about the user's processes.
* Control mode: weak fairness of `Loop`; a client that could be written
  to again and again is written to. It is an assumption about the client that
  it reads. The conditions under which the write callback can run are written
  out as `CanTake`, which is what `ENABLED` of it means.
  `ExitCompletes` and `PanesAreRead` (parts of `OutputGoesOn`) hold if notifications for the client end,
  and say so; they are checked without blocks getting old, where the lines
  that are left behind (section 7) block an exit as well.
* Files, and the client process: weak fairness of either side. The server reads what has arrived
  and so does a client that runs; that one which is stopped is continued is not assumed, and
  `ClientEnds` leaves stopped and locked clients out.
* Prompts: weak fairness of pressing Escape, of the timers and of the end of the job of a popup.
* `WaitFor!Released` says that who has a lock releases it at some time; under it
  `NoStarvation` holds.

## 6. Proofs

Eight modules hold proofs; each theorem is for all values of the constants that the named assumptions
of its module allow, hence for any number of clients, items, channels, servers or messages.

### Wait channels (`WaitForProofs`)

From the two assumptions that the global queue is not a client and `Nobody` not a queue:

* `Inductive`: `Spec => []IInv`, where `IInv` is the conjunction of `TypeOK`,
  `Parked`, `FreedIsEmpty` and `NobodyWaitsInVain`. None of the last three is
  inductive without the others. `Parked` alone does not survive `Signal` on a
  channel that is freed, since the code does not look at its lockers; it
  takes `FreedIsEmpty` and `NobodyWaitsInVain` (no lockers without the lock,
  and a locked channel is not freed). `FreedIsEmpty` takes the same. The proof has a
  lemma for each action (`SignalStep`, `WaitStep`, `LockStep`, `UnlockStep`,
  `FlushStep`, `QuietStep`), and lemmas on the elements of a list after `Append`
  and `Tail`. `ParkedNext` says once what a list operation must keep.
* `TypeCorrect`, `WaitsAreParked`, `FreedChannelsAreEmpty`, `NoVainWait`: the parts.
* `Refinement`: `Spec => LocksAreALockService`. `ServiceNext` maps each step: `Lock`
  to `Take` or `Ask`, `Unlock` to `Pass` or `Free`, `Flush` to `Abandon`, all else to a
  stutter; that a queue asks once only comes from `Parked`.

### Command queues (`CmdQueueProofs`)

Assumed (in `CmdQueue`): the pools of items and jobs are finite and disjoint (`PoolAssumption`), the
global queue, `None` and the loop's place are no clients (`NamesAssumption`), groups and lengths are
not 0 (`GroupAssumption`). Lines of any length, any number of clients.

* `QueuesConsistent` is `Spec => []QInv`. `QInv` has `Typed`;
  `Made`, what an item of each kind looks like, its depth in hooks included; `Listed`, an item
  in use is in one place of the one queue it names; `HeadFired`, only a head has fired and only
  what has fired waits; `RunningIsHead`, what `queue->item` points to; and the waiting items and
  jobs, one for one. Removing an item needs `Listed` (nobody else has it) and the jobs (no
  job points to what goes); that a job continues a head needs `HeadFired`.
* `FireInOrder` and `HooksDoEnd` follow: `FiringInOrder` and `HooksEnd` of the run `cmdqueue`. One action,
  `FireCommand`, does almost everything; its shapes (a line inserted, a notification raised, a job
  started, removed or waiting) are taken apart by lemmas on what each does to a list.
* `NothingLeft`, the action property `LoopLeavesNothing`, rests on `Pass`: clients that this pass of
  `server_loop` has visited have nothing that could run unless something has fired (`busy`), in which case
  there is another pass. The excuse in the property, a notification raised by an item that then
  waits, is in the invariant as well, at the point of the pass where it arises.
* `ClientsLiveLongEnough`: `Lifetimes`. `Held` says that the references of a client *are* the number of
  its holders (connection, items, notifications, jobs), as a cardinality of a set of pairs,
  and that none that is lost stays without one. Each step exchanges some holders for others; `Exchange`
  and `CountPairs` say once what that does to the number.

### Sessions (`SessionsProofs`)

`PointersAreSound`, `GroupsDoShare`, `ClientsHaveSessions` and `WindowsStay`: `Spec /\ Calm =>` always
`SessionsSound`, `GroupsShare`, `ClientsOnLiveSessions` and `QuietUnlinkKeepsWindows`, for any number of sessions in
groups of any size, of windows, indexes and clients, with all features at once but these. `Calm` leaves out the
features named after what goes wrong (`"-a in groups"`, `"-r in groups"`, `"-r twice"`, `"fail -k"`, `"name again"`, `"some kept"`), windows that are linked
twice together with `renumber-windows`, and `detach-on-destroy previous` and `next` (section 7). It
also says that renumbered winlinks fit below `MaxIndex`, which is a bound of the model and not of the code. Assumed are
finite sets of sessions, windows and clients, that a number is not a null pointer, and a value of each option.

After every command `Full` holds: each session is dead or `Sound` (a current window that it links, a stack of
different winlinks without it), the sessions of a group are alive and have the same winlinks, groups are apart
and clients are at home. Without windows linked more than once a session also has each window once, which is what renumbering
needs. Inside a command none of this need be so, and the proof is about what is true there:

* `Loose(st, D)` is true between the functions of a command: the sessions of `D`, a group on its way, may be
  without any winlink and need not share what they have. `Detach` of the last winlink leaves the whole group like that (`Emptied`),
  `server_destroy_session_group` ends it one by one, and each end may move clients and so end
  sessions elsewhere, even some of the same group (`DestroySessionKeeps`, `DestroyGroupKeeps`, `CheckUnattachedKeeps`).
* `Headless` is a session without a current window, as `new-window -k` makes it; it may not be synchronized to others
  before it has one again (`ClearAndLink`, `LinkingKeeps`).
* `Follow` is what `session_group_synchronize1` needs from the session that follows: that its winlinks, if the
  current one goes, leave another to move to (`Synchronize1Is`, `SynchronizeKeeps`). `Placed`, `Replaced`, `Detached`, `Gone`, `Having`,
  `Linking` say what a function has left of a state.
* `server_kill_window` visits every session and detaches every winlink to the window, while the session it is in may have
  ended together with its group (`KillInKeeps`): a winlink is looked up again in the state at hand, as the loop of the code does.
* `WindowsStay` is a count: if nothing but the winlinks at one index of one group refers to a window, they
  are as many as the group has sessions (`HowMany`, `OneEach`), which is what `session_is_linked` compares with.

The loops over sessions, winlinks and clients are folds (`FoldLeft`), and what a fold does would be shown by induction, which the
provers cannot instantiate with an operator. The proof counts instead: `FoldLeft` is a function that is chosen to satisfy an
equation on the subsets of `1..n`; that there is one (`Solvable`) follows from a smallest subset that has none, by the well-founded
order of finite subsets, and that each step keeps what the one before has left (`FoldKeeps`) from a least number. Each
fold then has its steps as a function on a set of states, to which these two lemmas apply.

`MatesUndisturbed`, the action property about what other sessions of a group keep, is left to TLC.

### Output to control mode clients (`ControlProofs`)

`OutputIsInStep` and `DataSuffice`: `ControlSpec => []BlocksSound` and `ControlSpec => []EnoughData`, for any number of panes and clients,
any sizes of buffers and messages and any watermarks, from `ControlAssumption` (`Low < High`, none of the sizes is 0, finite sets, a
null pointer is no `control_pane`) and `Calm`: no client asks to go or is lost, which is the run `control_exit`, and no client is
switched and no pane respawned while there is output to write (section 7).

The inductive invariant is `Owes` (`ServedClients`). A client is compared with the buffers alone, so every action is about one client
(`Fits`, `Waits`) or about all of them in the same way:

* `Owed` is what a client is to get of one pane. If its offset holds the buffer, it has not been passed by what is
  removed, and the bytes of the blocks are those between its offsets. `BlocksSound` says no more than that, and of panes
  that are there; the invariant also needs that after the pane has gone the blocks have no *more* bytes than that, that `queued` is never behind
  the end of the buffer, and that blocks are of panes the client sees.
* Bytes of blocks are a cardinality (`Owing`), a set of pairs of a place in the queue and a byte of the block there. Removing
  blocks, shortening one and adding one take pairs away or add some (`KeptOwing`, `ShorterBlock`, `OneMore`), while the places of all
  that is behind change; `InOrder` says of `Kept` that this is one to one.
* `EnoughData` is then a matter of one line in `NextBlock`: a block is not longer than all blocks of its pane, these are what is between the
  offsets, and `queued` is in the buffer.
* That a client with something to write is waited for needs that `control_write_callback` does not stop too early. It turns the write
  event off when the output is empty. `WritePendingIs` says that a pane that may write leaves some output or no
  blocks (`Done`), because `LimitIs` gives it at least one byte; `RoundIs` that one round does so for all pending panes; so if after it the output is empty there
  is nothing left. Each round is a fold over panes, and each message one over blocks; they are followed as those of `Sessions` are.

### Start of a server (`StartupProofs`)

`StartsAreSound`: `Spec /\ Calm => []StartSound`, for any number of clients. `Calm` leaves out what is
known to break it (section 7): on Unix failures, SIGUSR1, servers that end while clients start, and a lock
that cannot be opened; on Windows timeouts, a killed client whose server starts, and process numbers
used again. Kills of clients at any point are in on both, and on Windows failures and servers that end.
`NeverTurnedAway` excuses a client whose own server, or the one whose endpoint it found, was on its way out
by then: on Windows it is refused between `closesocket` and `DeleteFileW` (section 7). What is proved is that there
is no other such case: a server that runs is reached, and a process that is there and cannot be reached is ending.

The invariant differs. On Unix it is a disjunction. `Before`: no server has come up, so there is one
lock file, whoever has it open has the same, and who has locked it is one client, or one server with
the client that has forked it. `After`: one runs, the lock file has been removed and others may have been
made; what protects the socket then is not the lock but that nobody can be about to replace it:
who gets a lock looks for a server again, and finds it. It is why `connect` after `flock`
is needed: without it (`TryLockOnce`) TLC finds an orphan. On Windows a client keeps the mutex
until its server answers; `WindowsServers` says that a server that starts has such a client, and that one that
runs or closes has its own endpoint under the name: `Busy`, starting, running or closing, is one server at a
time, so the endpoint that is deleted is never another's.
Steps that move no process between the places the invariant names, most of those of servers, are
dealt with at once by `QuietClients` and `SamePlaces`.

### A client and the server (`AttachProofs`)

`PartsAgree`: `Spec /\ Calm => []AttachSound`, for any commands and however many of them. `Calm` leaves
out SIGCONT to a client that is not stopped, and suspension on Windows or in control mode (section 7).

What is hard is that neither side waits for the other. `AInv` follows what is under way:

* `OneSuspension`: `MSG_SUSPEND` or `MSG_LOCK` that is sent, the process that is stopped or
  locked, the signal that wakes it and what it then says are one: at most one of them is there and
  it is there once. From it comes that the server, when it hears that the client is back, hears it of the
  latest suspension; SIGCONT at any time breaks exactly this.
* `ReadyFirst`: `MSG_READY` is at the head of what a client has not read until it has read it; without it a
  client that waits could be told to stop, which it ignores (`NotYet`).
* `OneCommand`: the queue has at most one command, so a client is attached once.
* `Leaving`: `MSG_EXITED` is on its way only if the session and the terminal were given up, and
  `MSG_EXITING` only if the client knows why. `Process` and `InServer` tie fields to each other.

A lemma for each message on each side and each command says what the step does field by field
(`ClientIs`, `ProcIs`) and to the queues (`Same`, `More`, `Less`), and then has a step for each part.

### Commands that wait for an answer (`PromptsProofs`)

`AnswersReachTheirCommands`: `Spec /\ Calm => []PromptsSound`, for any number of commands and keys. `Calm`
leaves out `-k` and `-N` with several prompts, `-1` with an input, prompts over one another, and
`choose-tree -y` together with several prompts (section 7).

A handler is a composition of functions from states to states, and most states between two of them
break `PromptsSound`: a command waits and nothing holds it yet, or the prompt still holds one that has gone
on. So the invariant has two parts. `Good` is true of every state, between the functions too: the screen
of the status line is pushed once for each thing shown, and a prompt under a message says so (`Screen`);
a prompt that is closed by one key is empty and the last one (`Fits`), which is why its command has been
told; commands run once, and what is held has a number. `Agree`, that what waits is what is held, is true
of the states between steps. A lemma for each function says what it does to `Good` and which
item it adds to those that wait or takes from them; one for each key and each action puts them together.

### Files over the protocol (`FilesProofs`)

`FilesAndCommandsAgree`: `FilesSpec /\ Calm => []FilesSound`, for any number of commands, any contents and
whatever fails or goes. `Calm` leaves out what section 7 says of `load-buffer -w` and of a client that is lost
while events of its files are pending. `ContentAssumption` says only that a content is a sequence.

A command waits for a file, the file for an answer, and what answers is far away. At the heart
of `FInv` is `OnePlace`: a stream is in one place at most - the message that opens it, the client that reads
it, the answer, the event that tells the command - and it is in the server then. From it comes
that the command is told once and finds its file. `OneWay` says that a stream is
read or written, never both, that data comes before the answer, and that a number is not used before the server gives it;
`Quiet` that nothing is on its way to or from a client that is lost; `Counted` that every reference
to the client has a holder; `Items` that the file of a command is the one it waits for; `Target` that a buffer
for `-w` will not be empty in the end (a client that reads it still has something left, or something has arrived).

A handler is a composition of functions, and between two of them a file may be about to be freed, a
command between two files, or references not settled. So `Sound` has parameters for these (`x`, `soon`,
`k`), a lemma for each function says how it takes one such state to another, and `FInv` is `Sound` with
nothing outstanding. `StreamsKept`, that all data arrives, is left to TLC.

### What is only model-checked

* Liveness (`NoStarvation` of `waitfor`, `EveryItemRuns`, `LostClientsGo`, `OutputGoesOn`, `WaitsEnd`) under fairness, and
  `ENABLED`: out of the provers' reach.
* `MatesUndisturbed` of `Sessions`; it relates the states before and after a command for every pair of
  sessions of a group, through all functions of the command.
* `Panes`, `Layout`, `Grid`, `GridReader`, `CopyMode`, `Tty`, `ScreenWrite`: trees and lines, partly with
  recursive operators; most of their properties compare with a reference definition over bounded inputs.
* `PromptLine`: words and completion are definitions on sequences, compared with reference definitions.
* `StreamsKept` of `Files`: what is written is a concatenation of all the pieces on their way.

## 7. Where the code and its words differ

Three runs end in a violation of what a comment, an assertion or the manual says;
`PROJECT.json` has the quotation and the line of these and of others.

* `move-window -r` renumbers one session of a group; at the next synchronization
  another is left without a current window (`sessions_renumber`).
* A control client that has asked to exit keeps its blocks until `server_client_check_exit`,
  while output moves both offsets past them; a write in the same pass stops the
  server (`control_exit`).
* `select-layout -E` hands `layout_resize_adjust` a change that nothing has bounded, and
  its loop does not end (`panes_spread`).

These show up in the models too; the ones with a feature can be seen by adding it
to `Uses` of the run that is named, and checking the property that is named alone:

| what | feature, run, property |
|---|---|
| `unlink-window` without `-k` compares references and not links, and destroys a window that is linked once while a notification about it is queued (`session.c:378`) | `QuietUnlinkKeepsWindows` asks for it only while none is |
| `new-window -a`, `-b` and a refused `link-window -a` shift the indexes of one session of a group (`window.c:1958`, `cmd-move-window.c:96`) | `"-a in groups"`, `sessions`, `MatesUndisturbed` and `GroupsShare` |
| renumbering a session that has a window twice puts a winlink into the stack of last windows twice (`session.c:724`) | `"-r"`, `"-r twice"`, `sessions`, `SessionsSound` |
| `new-window -k` on the current window whose process does not start leaves `curw` unset (`spawn.c:391`) | `"fail -k"`, `sessions`, `SessionsSound` |
| `new-session -t` with a session whose name an older group still has adds it to that group without its windows (`session.c:533`) | `"name again"`, `sessions` with the instance `Names`, `GroupsShare`; then `SessionsSound` |
| of two clients of a session that ends one is detached, which lets `destroy-unattached` end the session that the other is then moved to (`server-fn.c:493`) | `"some kept"`, `sessions` with the instance `Left`, `ClientsOnLiveSessions` |
| `detach-on-destroy previous` and `next` with a single session "move" clients to the session that is being destroyed (`server-fn.c:475`) | `Policies = {"previous"}`, `sessions`, `ClientsOnLiveSessions` |
| blocks of a pane that has left the session are dropped and the offset is not moved (`control.c:684`) | `"switch early"`, `Visits` in `MCServed`, `OthersSound` |
| `respawn-pane` makes a new buffer and keeps offsets into the old one (`spawn.c:539`) | `"respawn early"`, `Visits` in `MCServed`, `OthersSound` |
| a pane paused by the write callback leaves the lines it held up unwritten (`control.c:770`) | `"age"` without `"refresh"` and `"exit"`, `live`, `OutputGoesOn` |
| `wait-for -U` gives the lock to a client that is gone (`cmd-wait-for.c:232`) | in every instance; `LockService` allows it |
| `cmdq_running(NULL)` returns an item that waited and is not running, and `notify_add` drops notifications for it (`cmd-queue.c:829`) | `RunningGlobal` and `Suppressed` in `CmdQueue` |
| commands that a hook starts in the background have hooks of their own (`cmd-run-shell.c:226`, `cmd-if-shell.c:167`) | `BackgroundEnds` in `CmdQueue` |

Panes:

* `respawn-window -k` in a zoomed window makes a new layout, and unzooming then restores the
  saved one, whose cells hold freed panes (`spawn.c:333`; instance `"respawn zoomed"`).
* `window_unzoom` inverts `PANE_ZOOMED` for all panes, so that all but one have it afterwards
  (`window.c:799`; variable `marks`).
* A split with `-b` and a size as large as the cell wraps around and gives the minimum; with
  `pane-border-status` on top the minimum is a pane of no lines (`layout.c:1024`).
* `select-layout -o` to a layout of one cell does not resize the window (`"undo alone"`).
* Tiled layouts use the width of the window for rows in a window too narrow for them; even layouts
  with `pane-border-status` in a window too small leave cells at the size of the window.
* A split that finds no space, or whose process does not start, loses the zoom; a failed split `-b` gives
  the space to the cell before, not to the one it came from.

Copy mode:

* Lines joined after a reflow lose their wrap flag when the next one begins with a wide
  character that does not fit (`grid.c:1344`).
* What is highlighted and what is copied differ by a cell at column 0 and below the screen
  (`screen.c:594`; `HighlightDiffers` names the cases).
* `other-end` puts the cursor below the screen (`window-copy.c:5805`).
* `select-word` over two lines compares columns of different lines; `cursor-up` at the top of the history does
  not update the selection; `jump-to-mark` after the history has shrunk, and `goto-line`, leave the
  cursor past the end of the line; `scroll` sets `oy` to zero before it subtracts it;
  `resize-pane -T` leaves more lines scrolled than there are; a scroll inside
  a region may join lines that have nothing to do with each other.

* A position on the last line of the grid when that is wrapped (the cursor below a scroll region) is
  looked for beyond it, in memory that is not the grid's (`grid.c:1554`); `UnwrapPosition` has no value
  then, and TLC would stop: no screen of `MCCopyMode` is like that.

Terminals (each is `astray` in the model, so that `Shown` holds for the rest):

* `screen_write_clearscreen` and `screen_write_alignmenttest` do not flush what was scrolled
  before (`screen-write.c:1659`, `1092`), and the second one forgets the last line.
* The redraw of one client ends a synchronized update without a redraw of the others (`screen-redraw.c:964`).
* `tty_cmd_clearstartofscreen` clears one column too many when the cursor is past the last one (`tty.c:2070`).
* `tty_draw_line` takes a line for the continuation of another when the cursor is at the end of a
  third one (`tty-draw.c:197`).
* Insert mode inserts into the old line of the grid and the new one of the terminal when the
  character wraps; ICH is sent with the default background; without wrap mode a character at the end is dropped.
* Inserting, deleting and erasing through a wide character leaves half of it in the grid; inserting
  more cells than there are; IL and DL outside the region.
* A terminal that wraps at the end of a region scrolls, and `tty_putn` counts the line; `tty_cmd_reverseindex` and
  `tty_cmd_scrolldown` place the cursor beyond the margin when it is past the last column.
* `screen_write_reset` ends a synchronized update without what it held back.

Files, prompts and the line of a prompt (features of the modules of these names, runs `client` and `served`):

* `load-buffer -w` keeps its target client for ever when the file is empty or cannot be read
  (`cmd-load-buffer.c:82`; `"target"` with `"fails"`).
* The client stops with `fatalx` for a stream it does not have: a second line printed after its standard
  output could not be opened (`file.c:696`; `"shut"`), a cancelled read whose end it has already sent
  (`file.c:930`; `"pane goes"`). Standard input that is closed after use gives its number to the next
  file (`file.c:848`; `"-"` more than once).
* A prompt over the prompt of a command that waits, `-k` or `-N` with several prompts, and `-1` with `-I`
  leave the command waiting (`status.c:711`, `1448`, `1744`; `"replace"`, `"several keys"`, `"given"`).
* The key that `choose-tree -y` queues for its prompt goes to the prompt that is there when it runs, and closes it
  without its command being told when that is the first of several of another command
  (`status.c:681`; `"mode"` with `"several"`, `PromptsSound`).
* `display-message -d 0` after one with `-N` stays for ever (`status.c:509`; `"ignore, then stay"`); a message over
  a prompt leaves the cursor hidden (`status.c:528`).
* The place in the history is not changed when the history gets shorter (`status.c:1775`; `"shrink"`); the
  longest prefix and `w` in vi mode (`status.c:1930`, `1352`).

Start of a server and the client process (runs `client` and `live`):

* The lock file is removed by its name: when servers end at once, two clients hold "the" lock
  (`server.c:283`; `"short"` with three clients, `"fails"`). SIGUSR1 makes the socket again without the
  lock (`server.c:556`; `"recreate"`). Without a lock file everybody goes on (`client.c:483`; `"no lock"`).
* On Windows the mutex is given up after five seconds while the server may still come up
  (`client.c:380`; `"slow"`), goes with a client that is killed (`"orphan"`), and an endpoint whose process number
  is used again refuses every client (`compat/win32-ipc.c:433`; `"pid"`).
* A Windows server that ends closes its socket and then deletes its endpoint (`compat/win32-ipc.c:815`); a client
  with the mutex that comes in between finds an owner that is alive and is refused (`client.c:428`).
  `NeverTurnedAway` has an exception for it; without `"closing"` and `"ending"` in it TLC finds the client with
  `"windows"` and `"short"`.
* `MSG_WAKEUP` for an earlier SIGCONT is taken for the answer to a later suspension, and the server draws
  while the client is stopped (`server-client.c:2321`; `"continue"`, `AttachSound`).
* `MSG_SUSPEND` is ignored on Windows (`client.c:1776`) and by a client in control mode, which is in
  `client_dispatch_wait`: `server_client_suspend` has set `CLIENT_SUSPENDED`, and nobody will clear it
  (`"suspend"` with `"windows"` or `"control"`, `AttachSound`).

## 8. Not modelled

* In the modelled parts: guards of control mode, printing and state flags of queue
  items; what identify messages contain, environment and terminal modes of a client
  process, the threads of the Windows port; sends that fail while the other side is there; completion of
  windows and sessions, positions and drawing of menus and popups; alerts and names of winlinks, options and environment of
  sessions; subscriptions, `pipe-pane`, the wrap of `base_offset` and data positions past the
  end of a buffer. Panes in `ControlOutput` are assumed to remain on exit, clients to be
  attached and not suspended. Floating panes: nothing in this code makes one. In `CopyMode`: searches, jumps
  to prompts, line numbers, `-s`. In `ScreenWrite` and `Tty`: tabs, combining characters, origin
  mode, overlays, windows larger than their terminal, images, colours but for one background, codesets, panes in a mode.
* Formats and styles, parsing of commands: sequential
  code over large data, for which unit tests and fuzzing fit better than TLC.
* The memory of trees and lists (`compat/tree.h`, `compat/queue.h`): sets and sequences.

## 9. Plan

1. Proofs: `MatesUndisturbed` of `Sessions`; the trees of `Layout`, whose sums over cells can be counted as the bytes of
   `ControlOutput` are.
2. `Resize`: `recalculate_sizes` and the queue of resizes with its timer; eventually the size of
   the process is the size of the pane.
3. `KeyTables`, `Paste`, `Alerts`: small modules with references, limits and deferred callbacks.
4. `Jobs` with two ends (`job.c`); `StdioBridge` for the Windows port.
5. `SharedWindows`: abstract specification of a group (one map of windows, a current window
   per session), implemented by `Sessions` without the commands that break it.
