# A verification project for weave (`wv`)

weave is a terminal multiplexer: a *session server* owns pseudo-terminals, terminal
state and window layouts; *clients* own a terminal each and paint what the server
sends them; one-shot processes (`wv exec`, `wv ls`, ...) send it commands. This
directory holds TLA+ modules translated from that code, the TLC configurations that
check them, and TLAPS proofs about them. File and line numbers refer to `src/`
(so `app.rs` is `src/src/app.rs`).

## The system

| Component | State | Operations | Interacts with | Module |
|---|---|---|---|---|
| **Windows and panes** (`app.rs`: `Workspace`, `execute_now` and what it calls) | nine windows, each a layout tree, a focus, a set of closing panes; the list of panes; `%N` numbers; `current_workspace`; `exit` | every tmux-like command; ticks; `PaneDied`; resize | the backend, the timeline, clients | `Workspaces` |
| **PTY backend** (`backend/native.rs`) and the **event loop** (`App::run`) | the panes it holds, the next id, a reader and a waiter thread per pane, two bounded channels | `spawn`, `write`, `kill`, output, deaths | processes, `app.rs` | `Backend` |
| **Clients** (`app.rs` 2475-2845, `session/server.rs`, `session/client.rs`) | attached clients with their size, the record `front` of their screen, `needs_full_repaint`; a reader and a writer task per connection | attach, detach, resize, switch, quit, frames | the event loop through one channel, each client through its own | `SessionClients` |
| **One-shot requests** (`session/server.rs` 186-213, 294-366; `app.rs` 2793-2819, 3237-3306) | parked replies of `wait-for`; the caller's ten-second timeout | request and reply, `wait-for`, `run-shell`, `if-shell` | the event loop; child processes | `Commands` |
| **Command language, targets, formats** (`command/`, `format.rs`) | none | parse an argv, resolve a `-t`, expand a format | requests, keys, configuration | `CommandLine`, `Formats`, `Commands` |
| **Options and configuration** (`config/`) | the option registry and what is copied from it | load `weave.toml` and `weave.conf`, `source-file`, set | commands, keys | `Options`, `Configuration` |
| **Session names** (`session/paths.rs`, `launch.rs`, `SessionServer::bind`, `rename_session`) | socket files in one directory, shared by all processes | bind, list (which unlinks stale sockets), rename, unlink at exit | other servers and one-shots | `SessionSockets` |
| **Keys** (`input/`, `app.rs` 4391-4472) | key tables, the leader (Alt or Ctrl-Alt), the pending prefix | bind, unbind, look up, encode, move the leader | commands, clients | `Keys`, `Keyboard` |
| **Picker and prompt** (`picker/`, `app.rs` 3367-3662) | an overlay with rows, a filter, an epoch | open, late rows, keys, close | other sessions, commands | `Fuzzy`, `Keyboard` |
| **Agents** (`agent.rs`, `app.rs` 1258-1613) | what each pane's agent was last seen doing | poll, bell | pane screens, deaths | `AgentBell` |
| **Layout tree** (`layout/`) and **timeline** (`anim/`) | a binary tree with ratios; tweens by pane | split, close, rotate, swap, rectangles, directional focus; start, replace, advance, complete | windows, ticks | `LayoutTree`, `Layout` |
| **Rendering** (`render/`, `term/`), **wire framing** (`session/protocol.rs`), **start-up** (`main.rs`) | surfaces; an emulator per pane; unread bytes | compose, diff, repaint; encode, decode | clients | not modelled |

What is hard here, and hard to reach with a test: a pane that dies, is respawned, moved
or killed again *while its closing is being animated*; the several fields of a window
that each name panes (tree, focus, closing set) and must not drift apart; four
handlers that each decide whether the session is over; two threads per pane that report
through bounded channels to a loop that itself blocks on them; differences sent against
a *record* of a terminal's screen while that terminal changes on its own; messages of
clients that have been dropped since; several processes racing for one socket path; a
script that asks the loop which is waiting for it; a list whose rows arrive while a key
is on its way; an agent whose state can only be guessed from a screen that others move
too. `PROJECT.json` lists the hazards at their lines, with the properties that watch
them.

## Modules

Each module's head says what it abstracts. Below, what its state and actions are in the
code.

### `Workspaces`

The windows of one session, above the backend. One action per command, tick or event
that changes which panes exist, where they are, what is focused or closing, which
numbers are given, and how `run` ends. A command runs to its end inside the event loop,
so it is one step; a rejected command changes nothing here and is no action.

| TLA+ | code |
|---|---|
| `win[w]` | `App.workspaces[w]`: the set of leaves of `root`, `focused`, `closing` |
| `panes`, `number` | `App.panes`, `App.pane_numbers` |
| `held`, `process`, `deaths` | `NativeBackend.panes`, the child processes, undelivered `PaneDied` |
| `drawn` | the closing panes whose tween has been advanced since it was last started |
| `Settled` | `snap_workspace_tweens` after its kills |
| `Without` | `detach_pane_from_window` |
| `Reshape`, `Retweened` | commands that lay the window on screen out anew, and start tweens over |
| `Advance`, `FinishClosing` | a frame of `Timeline::advance`; `finish_completed_closings` for one pane |
| `ProcessExits`, `TerminalCloses` | the waiter's report of a death, and the reader's while the program runs on |
| `Resize` | `resize_to` and `attach_client` as far as windows go |
| `CloseFails`, `CommandFails`, `SpawnFails` | a backend error that propagates out of `run` |

Abstractions: a tree is the set of its leaves. The code's "first leaf" is any leaf, since
`swap-pane -d` and `rotate-window` can put any leaf first and do nothing else to this
state. The geometric commands change ratios or move focus within a window and are covered
by `SelectPane` on its leaves, or leave this state alone; they are the subject of
`Layout`. `last_focused` and `last_workspace` only choose among targets, and every target
is allowed; which one a command line names is the subject of `Commands`. The panes that
one tick finishes are finished in separate steps. A collapse takes two steps of the clock,
one that moves it (`Advance`) and one that finds it done, with anything in between;
whether a re-layout starts it over depends on geometry and is left open. A program is
"running" with its terminal, "adrift" when it has closed that and runs on (`Daemons`), or
"exited": a death says only that it is no longer running with its terminal
(native.rs:116-119). The zoom decides only where panes are drawn and is left to `Layout`.
A local run (no session server) is the same but for `detach`, which quits without killing;
it is left out. `ReapedKillFails` says whether killing a process that has exited may
report an error: the waiter thread reaps it, and then the signal fails with ESRCH.

### `Backend`, `MCBackend`

Below `Workspaces`: what `ProcessExits`, `TerminalCloses`, `PaneDied` and the kills of
that module are made of. A pane's reader moves chunks from its terminal into one bounded
channel, its waiter waits for its program, and `Emit` is the flag (`emit_pane_died`) by
which the first of the two to see the end reports it through the other. The event loop is
`loop`: in its `select!` ("idle"), inside a blocking write of several keys, or reporting a
failed spawn. While it does either it empties no channel.

| TLA+ | code |
|---|---|
| `held`, `listed` | `NativeBackend.panes`, `App.panes` |
| `output`, `events` | the two `mpsc` channels, with their capacities |
| `reader`, `batch`, `waiter`, `dead` | `spawn_reader`, what it holds, `spawn_waiter`, the shared `AtomicBool` |
| `Write`, `WriteOn`, `WriteFails` | `handle_key`, `send_keys` and answers to queries, down to `write_all` |
| `ReportSpawnFailed` | `send_spawn_failed`, called on the loop itself |
| `TakeOutput`, `TakeEvent` | the branches of `App::run` |

`tty`, `typed`, `wrote`, `open` and `running` are the kernel and the programs, external:
a terminal holds `TtyCapacity` chunks each way, a *copying* program writes what it has
read before it reads again, a program may close its terminal and go on, and a child of it
may keep the terminal open after it has exited.

### `SessionClients`, `MCSessionClients`

The terminals that watch the session: the real terminal (`term`, `screen`), the client
process (`phase`, `winch`), its connection (`up`, `down`: the reader's messages to the
app and the writer's queue), and the session's view of it (`clients`, `recorded`,
`repaint`, `front`). A handler is a chain of the same pieces as in the code: who is left
(`Drop`), the leader that follows (`RefreshNesting`), the size that follows
(`Negotiated`, `ResizeTo`), the repaints owed.

The windows are one number, `content`, that any tick may change; a frame is the size and
content it was composed from. `Change` stands for everything else that sets `dirty`.
A frame that is a diff leaves a screen right only when that screen showed the frame the
diff was computed from. The terminal is external: it reflows when resized, and raises
a signal that merges with one the client has not noticed. Left at the size it was last
told to have (`Told`) it is reported as if nothing had happened, and what it shows is
`Unheard`: wrong, and known to nobody (app.rs:2652). `Settings` are the values of
`nested-keys` that are ever set. `LastWords` are the `Detach` and `Quit` messages of the
protocol, which the server handles and the repository's own client never sends
(`tests/session_smoke.rs` does). The application channel is bounded, but its only effect
is to delay a reader, which the model allows anyway, so `up` is one queue per connection.

### `SessionSockets`, `SessionNames`

The socket directory, which is all that the processes of different sessions share. Each
system call is a step: a server asks whether its name has a file, whether anybody answers
there, removes it, binds, listens; a rename asks and then moves; a one-shot sees a file,
probes it, unlinks it; a server that stops unlinks whatever is at its path; a server may
be killed between any two steps. A file is the server that bound it, since a server binds
once. `path` is the guard's `SocketPath`; `moving` is a rename between its question and
`rename(2)`. That a launcher finds nobody and starts a server is one step, since the
server asks again.

Nothing is locked, so a file may be removed on an answer that has become false, and the
code loses a living server that way. `crossed` is a history variable that no action
reads: it becomes true when a file comes into use while somebody holds the answer that it
was not, or when somebody is refused between `bind` and `listen`. Everything is promised
up to then: `SessionNames` is that promise, a registry in which a session claims a free
name, exchanges it for another free one, and releases it; `ImplementsNames` is the
refinement.

### `LayoutTree`, `Layout`, `MCLayout`

`LayoutTree` is the pure part: the binary tree, the rounding of a share of so many cells,
rectangles, split, close, rotate, swap, the preset layouts, the neighbour in a direction.
A tree is a function from places to nodes, and a place is the way down from the root, a
sequence of `"a"` and `"b"` (the two children of `Node::Internal`). What the code finds by
walking down is said of the places: the leaves in layout order are the places that are
leaves, by the first turn at which two of them differ (`Before`); the split that a resize
moves is the deepest above the pane on that axis; closing a leaf moves everything below
its sibling's place up by one. Only the rectangles, the chains of the presets and the
removal of several panes recur, and they are recursive functions. `Layout` is every
handler that changes a layout, with what it owes to the panes: `leaf[p]` is where a pane
is drawn (`cur`), where it belongs (`target`), its tween (`to`, `left`), the size its
program was told (`pty`) and its emulator's (`grid`). The timeline is `left`, in ticks,
with the durations of the code in their order. A rectangle part-way through a tween is
`Moving`. `rough` is history: the windows where some handler changed the tree without
moving or sizing every pane that the change concerns (`PaneDied`, `respawn-pane`,
`set-option status` and a few more, named in the module), and `LayoutLands` speaks of the
others. A window that leaves the screen is settled, every pane at its target, and is in
order again when the targets are right (`Left`, `Placed`); one that is resized while it
has a close in flight is not, because `resize_to` lays it out with the pane that is about
to go (app.rs:4499).

### `LetterCase`, `Keys`, `Fuzzy`, `Keyboard`, `MCKeyboard`

`LetterCase` says which characters are upper case, and of what. `Keys` is `input/`: names
of keys, what a key is encoded as for a program that asked for unambiguous keys and for
one that did not, and `MovedTables`, which takes the root table's chords from one leader
to the other. A sequence is its shape with what it carries, and keys with the same bytes
have the same shape: a letter under Ctrl is a control byte whatever its case, and Tab and
Enter are those of i and m. `Read` is external: what a program makes of the bytes, which
is Tab and Enter for those two. Backspace is 0x7f and Esc 27 here, which no letter shares,
since only letters have control bytes (`encode_ctrl_char`). `Fuzzy` is the picker's
ranking as the code computes it, beside the maximum over all embeddings. `Keyboard` is
everything a key can meet, in the order of `handle_key`: the picker, the prompt, the
pending table, the root table, the pane; with `bind-key`, `unbind-key`, prefix options,
terminals that come and go, late rows from other sessions and commands that open or close
overlays between keys. `chords` is history: the default chords nobody has rebound.

### `CommandLine`, `Formats`, `Options`, `Configuration`, `ConfigurationLines`, `MCConfiguration`

`CommandLine` is `command/mod.rs` and `command/target.rs`: what an argv means. Words are
cut into the pieces at which the parser looks, never into characters. `Formats` is
`format.rs` over parsed templates. `Options` is the registry: which options are live,
inert or unknown and what each accepts. `Configuration` reads `weave.toml`, then
`weave.conf` with what it sources, a step per file and per line: split into words, parsed,
applied. `open` is the recursion of `load_into` as a stack. `ConfigurationLines` reads the
same files as one text, for `LastLineWins`; `Whole` says whether all of it can be read,
since otherwise none of its lines count. The characters of a line are
cut finely enough for quotes and escapes; `MCConfiguration` assumes nothing of it: TLC
evaluates `QuotingKeepsWords`, that quoting any words and splitting the line gives them
back.

### `Commands`, `MCCommands`, `CommandsClaims`

A request from a caller's words to its exit status. `request[c].at` is where it is: typed,
waiting for room in the channel, queued, run, parked by `wait-for`, answered. `Take` is
`run`'s session branch; `Execute` is `execute_now` for the commands this module is about,
each with its own refusals and the steps that precede them. `shell` is the foreground
`run-shell` that holds the loop, whose script may run `wv exec` itself (`Child`).
`session` is `App` with windows as sequences of panes, in layout order. break-pane and
join-pane are here with every step that precedes a refusal (`Taken`, `JoinedAt`); a move of
a pane that is only a stale focus puts a leaf with no program into a layout, which
`Workspaces` follows and this module does not (`Leaves`). `End` is the end of the process:
whoever has no answer by then learns that the session is gone, even one whose command was
carried out. Respawn is the subject of `Workspaces`, `select-layout` of `Layout`, key tables of
`Configuration`, prompts of `Keyboard`, clients of `SessionClients`.

### `AgentBell`, `MCAgentBell`

`obs[p]` is the session's record of a pane (`AgentTracker`, its command, its hash, its
reading, `agent_states`, `agent_since`), `died` is `agent_died_working`, `loop` is `run` up
to its last lines. Time passes in poll intervals (`Pass`) and stamps are ages, counted as
far as anybody compares them. The agent and what moved its screen are external. `effort`,
`owed` and `span` are history: how long an agent has worked while watched and left alone,
for how long a bell has been due, since when a screen has been moving. `Excused` clears
them wherever the user has interfered. A tick comes in an interval or it does not: a
foreground `run-shell` holds the loop for as long as its script runs (app.rs:3258). What
nobody looked at counts neither as work (`effort`) nor against a bell that is due (`owed`);
`span[p].missed` counts it. `forgotten` are the panes whose deaths a later one overwrote in
`agent_died_working`.

### Claims and proof modules

`WorkspacesClaims`, `CommandsClaims`: what comments say and the code does not do; see
Findings. `WorkspacesProofs`, `SessionClientsProofs`, `SessionSocketsProofs`,
`BackendProofs`, `AgentBellProofs`, `KeyboardProofs`, `CommandsProofs` (also of
`Configuration`) and `LayoutProofs`: see Proofs.

## Runs

| Run | Instance | Shows |
|---|---|---|
| `windows` | 2 windows, 3 panes ever spawned, one whose program may close its terminal and run on, kills of reaped processes may fail, fairness | `PlacedOnce`, `OwnFocus`, `ProcessRegistered`: a pane is in one place and a program with a terminal never out of reach; `MovesKeepPanes`, `RestKeepsStep`, `QuitsWhenDone`, `NumbersRetire`: which steps may lose a pane, end the session or reuse a number; `ClosingEnds`, `LastExitEnds`: what closes goes unless it is started over for ever, and a session in step ends with the last program that has its terminal |
| `clients_screens` | 2 terminals (one remote), one size inside the other, 1 content change, 1 disturbance, fairness | `DiffsApply`, `SizeFollows`, `ScreensSettle`: each diff meets the frame it was computed from, the size follows whoever is attached, and screens end up right, but for what was resized and back unheard |
| `clients_leave` | one size, the protocol's last words, both ends of the loop, fairness | `FarewellIsLast`, `EveryoneLeaves` |
| `sockets` | 3 servers, 2 names, 1 one-shot | `StaysReachable`, and the refinement `ImplementsNames` |
| `layout` | 2 windows, 4 panes, 2 sizes, 2 commands, all their animations | `LeavesTile`, `FocusCrosses`, `LayoutLands`, `RearrangingKeeps`, `ClosingKeepsOrder` |
| `keys` | 19 keys, 3 pressed, 2 requests, two sessions in the picker | `TypeOK` (cursor and selection stay inside their lists), `ChordsReachable`, `PickerShowsBest`, `PickerKeepsRow`, `KeysArrive` |
| `config` | every line alone with each TOML file, every pair of lines, files that source each other | `SettingsAgree`, `LastLineWins`, `LoadEnds` |
| `commands` | 3 windows, three callers with a script each, two pasts, fairness | `AddressesHold`, `RejectedKeepsPanes`, `ShellReturns`, `WaitersFreed` |
| `backend` | 2 panes, room for two chunks of output, one event and one chunk in a terminal, fairness | `OutputKept`, `DiesOnce`, `LoopReturns`, `DeathsArrive` |
| `agents` | 2 panes, 3 turns of agents and users, unbounded time, intervals in which nobody looks | `FinishHeard`, `BellEarned` |
| `claim_close`, `claim_typo` | small instances | a comment contradicted by what the code does |

Every property has a mutant of the code, in `PROJECT.json`, that its run refutes.

### Bounds

*windows.* Two windows suffice for everything that moves between the window on screen and
another; the window commands never involve three at once except `join-pane`, whose
current, source and target windows may all differ, and there the current window is only
settled, exactly as on a switch. Three panes let a window hold two while a third is
elsewhere, dying or being respawned: a closing pane, its survivor and a newcomer.
`MaxPanes` bounds spawns over the whole run, since ids are never reused. `Daemons` is one
pane, the session's first: its program may close its terminal while others come and go, and
a second one would only be another of them.

*clients.* Two clients show every pairwise race (who is smallest, who is nested, who
left); a third adds only another member to the same minimum. `MaxTurns` bounds terminal
resizes, refreshes and option changes together; a resize and back is one of them. `Settings`
is one value, since the other two change who is nested only as terminals do.
`clients_screens` has also been run with
two disturbances (7.9 million states) and with a third size containing both (3 million).

*sockets.* Three servers, two names: one server can rename into a name that a second is
starting under while a third, or a one-shot, removes what it saw there before.

*layout.* Four panes give three levels of tree; two commands after a start from one or
three panes let one handler act on the tree another has left animating, which is where
they meet. A tick is one step, so any moment of an animation can be interrupted.
`MaxCommands` also bounds deaths and resizes.

*keys.* The keys pressed are one of each way a key can be taken or encoded. Three keys
are a prefix, a chord and what follows; `MaxEvents` bounds keys and requests together.
The session names are chosen so that a greedy search ranks them wrongly.

*config.* A line's effect depends on at most one other line (the prefix options, a binding
and its unbinding), hence pairs; circles of sourcing have lengths one and two, and depth
is cut at `MaxSourceDepth` as in the code.

*commands.* Three windows are the least in which next, previous and last differ. One
caller gives any of some fifty lines and another comes between with four that matter to
it, so every pair of a command and something that happens around it occurs. The third
(`Late`) only signals, and only once two wait, so that a signal meets two waiters parked on
one channel. Two `Pasts` give sessions with closing panes, names, empty windows and a focus
that is gone to start from. `Mortal` and `Interruptible` bound who dies or is interrupted.
A caller's ten seconds are assumed to run out only while a script holds the loop.

*backend.* Small capacities make every buffer full soon; the code's 256 and 64 only
lengthen the way there. The output channel has room for two chunks, so that their order
matters, and one pane writes five, which is more than the way to its emulator holds.
`Killable`, `Keyed` and `Copying` are that pane, which may so be killed with output on its
way; the other is silent. With room for one chunk, the safety properties have also been
run with both panes writing three (19.4 million states).

*agents.* One unit of time is a poll interval (half a second). `Window` 2 and `MinRun` 4
are smaller than the defaults 4 and 6 and keep the same two intervals between them, which
is what a flicker and a run are told apart by. Agents start absent or streaming; how they
go on is what the turns are for. Swapping the two panes is a symmetry:
nothing orders them, and both properties are safety.

A property of `Workspaces` that holds only of a session *in step* says so: `Healthy` is
that every window's focus and closing set name leaves of its own tree. The code can leave
that state (see Findings), but only while a close is being animated (`RestKeepsStep`), and
the premise is true of every state of ordinary use.

## Fairness

`Workspaces`: the event loop polls its clock and the backend's events in a `select!`
that picks fairly among what is ready, and the tick is also taken after an event when a
frame is due, so tweens advance, one that is done ends, a death is handled and the shutdown
loop runs: weak fairness of `Advance`, of finishing what has been drawn (or its failure), of
handling a death, and of `Shutdown`. Nothing is assumed of commands, nor of processes. A
re-layout starts the tween of a closing pane over (app.rs:4048, timeline.rs:61), so
commands that come faster than 140 ms can put its end off for ever: `ClosingEnds` says that
a close ends if it is not started over for ever.

`SessionClients`: the same loop paints and takes each connection's messages; a client's
loop selects over its connection and its terminal; the runtime closes every connection
when `run` has returned. Weak fairness of each; none of users or terminals.

`Backend`: weak fairness of each branch of the loop while it is in its `select!`, of the
loop's own step while it is not, and of each thread. Of programs only that they read what
they are sent, and that one that copies writes what it owes; not that they exit.

`Commands`: weak fairness of the disjunction of what the loop, the connection tasks, the
scripts and the timers do. Each of these happens a bounded number of times in a
run, so one disjunction suffices. None of users, of `PaneDies`, or of animations.

`Configuration`: loading is one call: weak fairness of its steps. `AgentBell` has none:
that a finish is heard *in time* is a safety property with a counter. `Layout` and
`Keyboard` state safety only.

## Proofs

All hold for every value of the constants: any number of windows, panes, names, servers,
one-shots, clients and terminal sizes, and any channel and terminal capacities.

* `WorkspacesProofs`: `TypeCorrect == Spec => []TypeOK`, and `PoolCorrect`, that
  `ProcessRegistered`, `NothingLeftBehind` and `NumbersUnique` are invariants, and
  `NumbersNeverReused == Spec => NumbersRetire`. None of them is inductive. The invariant
  `PoolInv` adds `HandedOut` (listed, held and undelivered panes, and all numbers, are
  below the counter: a fresh pane is new to all of them) and `DeathsTrue` (a reported
  death is of a program that has exited or closed its terminal, so dropping a pane on
  `PaneDied` cannot lose one that has it). What has closed its terminal and runs on *is*
  lost, and the theorems say so. `LayoutCorrect` is that `PlacedOnce`, `OwnFocus` and
  `ClosingOnScreen` are invariants, `FocusCorrect` names the second alone. A move puts a
  pane named by a *focus* into another window, so disjoint leaves alone are not preserved:
  the invariant `LayoutInv` says that the *claims* of two windows, leaves and focus
  together, are disjoint, and that every claim is below the counter. What relates a step
  to both of its ends is in the second half: `MovesLoseNoPane == Spec => MovesKeepPanes`,
  `RestStaysInStep == Spec => RestKeepsStep` and `QuitsOnlyWhenDone == Spec =>
  QuitsWhenDone`, from the invariants above and the premise of each (`Healthy`, nothing
  closing, not told to quit). Every command is a composition of a few changes of windows;
  each has a lemma that says what it leaves in step, and which panes it takes out of the
  layout.
* `SessionClientsProofs`: `TypeCorrect == Spec => []TypeOK` and `SizeAlwaysFollows ==
  Spec => SizeFollows`. A set of numbers has a least one (`LeastIsLeast`, from the
  well-foundedness of `<`), so a negotiated size fits every client it was negotiated for
  and is met by one in each direction; every handler either negotiates or leaves clients,
  record and size alone, except a resize from a client that has been dropped.
  `FarewellAlwaysLast == Spec => []FarewellIsLast`: a goodbye
  could be followed by a frame if its client could be attached again. `Connected` adds
  `AttachFirst` and `Waiting` (a client still to be attached has its request at the head
  of its messages, is not counted, and has at most the end of the stream before it),
  `Fresh` (a connection not made yet carries nothing) and `Streaming` (no stream is closed
  while the session runs). `DiffsAlwaysApply == Spec => []DiffsApply`: whether the *next*
  diff applies depends on `front`, so `Tracked` adds `Forgotten` (nothing is believed of
  who is not attached), `Owed` (an attached client of which nothing is known is owed a
  full repaint, so it is never sent a diff) and `Believed` (while the session runs, a
  client that has read everything on its way shows what `front` says, or has reflowed,
  which the session may never hear of).
* `SessionSocketsProofs`: `SocketsCorrect == Spec => [](TypeOK /\ StaysReachable /\
  NameGivenBack)` and `SocketsImplementNames == Spec => ImplementsNames`. The invariant
  adds `Unpresumed` (while nothing has crossed, no file in use is presumed dead by anyone,
  so nobody is about to remove or replace it) and `Own` (a file is at its server's path).
* `BackendProofs`: `TypeCorrect == Spec => []TypeOK`, `DeathsOnce == Spec => []DiesOnce` and
  `OutputAlwaysKept == Spec => []OutputKept`.
  That a death is queued at most once is not inductive: the flag could be set with nothing
  to show for it. `DeathInv` adds `FlagUp` (whoever is about to report, and whatever is
  queued, has raised the flag; so the other thread, which finds it up, stays silent) and
  `NotSpawned` (a pane not spawned yet has no threads, no reports and a flag that is down, so
  starting two threads finds nothing there). Each thread's steps are a lemma, and one for
  the loop's. `OutputKept` already counts every chunk wherever it is; `OutputInv` adds only
  `Fresh` (an id not spent has nothing shown or on its way, or `Spawn` would list a pane
  with a gap). What a step needs of it is `FirstIsNext`: the first chunk of a pane in the
  channel is the one to be shown next.
* `AgentBellProofs`: `TypeCorrect == Spec => []TypeOK`, `BellAlwaysEarned == Spec =>
  BellEarned` and `FinishAlwaysHeard == Spec => []FinishHeard`, for any activity window,
  grace and minimum run. Both are promises about time, and hang on one invariant `BellInv`
  of four parts for every pane: `KnownOK` (the session's record agrees with itself: a pane
  shows as working exactly while it has a start, and between polls its state is that of
  its command, reading and output), `SpanOK` (a screen that counts as active has moved as
  lately as that, and a pane has been moving since it showed as working), `EffortOK` (an
  agent that works alone shows as working within two intervals of it) and `OwedOK`
  (nothing holds a due bell up for longer than the activity window). `Slack` is the
  interval by which a record may lag while nobody has looked yet (`due`); whole intervals
  without a look are `missed`, which `SpanOK` counts with the time a screen has moved. The
  attempt found the history variables wrong in four places that TLC's window of two had
  hidden: a move that a viewer keeps from being seen, one under way when the status is
  off, a resize at the very end of the window, and a turn from one rest to another;
  `Unseen`, `StirsAnyway`, `Turn` and `Resize` of `AgentBell` say now what they meant.
* `KeyboardProofs`, first: `ScoreIsBest`. The picker's dynamic program finds a match
  exactly when the query can be found in the text, and its score is the best over all ways
  to find it, for every query and text. The table is a recursive function, so what a row
  holds needs induction; it is had from the library's `WFMin`, of which the strict-subset
  order on finite sets is an instance: any set of naturals has a least element (`NatMin`),
  so has the set of rows that are wrong, and the row before that one is right
  (`TableIsRight`). That the tables are functions of naturals at all is shown the same way
  (`TableExists`, `SumExists`). `Unreachable` is an ordinary number: a text must be
  shorter than its magnitude, or a bad score could be mistaken for none (`WorthBound`).
* `KeyboardProofs`, then: `TypeCorrect == Spec => []TypeOK`, `ChordsAlwaysReachable == Spec =>
  []ChordsReachable`, `PickerAlwaysBest == Spec => []PickerShowsBest`, `SelectionKept == Spec
  => PickerKeepsRow` and `KeysAlwaysArrive == Spec => KeysArrive`. That the chords are on the
  leader is not inductive: one left behind in the leader's other place would be in the
  way of the next move. `LeaderOK` says of each leader that no default chord is also where the
  other would put it, and `MovedChord` that moving the leader keeps that. That a picker has
  each row once rests on what is still to come: `RowsOK` says that no task that reports
  under the picker's epoch is for a session whose rows it has (`Missing`), so a late answer
  adds a session's rows to a list without them. Which rows are shown, and in which order, is
  `RankedIs`, over the lexicographic order `Before` and `ScoreIsBest`; `ExtendedOK` is that
  the selected row is found again. `EncodeRead` is over every key and both encodings, with
  the two letters whose control bytes are keys of their own.
* `CommandsProofs`, first: `SettingsAlwaysAgree == LoadSpec => []SettingsAgree`, for any
  files. What the prefix is must be said even of options nobody has set, or the line that
  sets the second could not be known to leave the first alone: `ConfigurationInv` says
  that the prefix *is* what `PrefixKeys` makes of the options, whatever they are, and that
  the TOML file is applied to the defaults. Each option that `ApplyOption` copies has a
  lemma.
* `CommandsProofs`, then: `RefusalsKeepPanes == Spec => RejectedKeepsPanes`, for any
  callers, scripts and command lines. That a target resolves to a window that is there,
  and not to the slot of one, rests on the shape of the session (`SessionOK`: every window
  a sequence of panes, the current one among them), so every command is shown to keep it,
  with what it leaves when it is refused (`Fine`): the session it met or, only
  `resize-pane` among those modelled, that with another window shown. Not so `join-pane`,
  which may be refused when the pane is out of its window: `Safe` names what a command may
  lose when it is refused, and `JoinSafe` that this is what it was to move, only where a
  pane it names has no place in its window (`Strands`). Commands that go over the panes or
  the lines of a sequence are folds over it; each fold is a recursive function, there by
  `FoldExists` and keeping the shape by `FoldOK`, where the least step that does not would
  be a contradiction (`FinMin`).
* `LayoutProofs`, for any number of windows, panes and commands, any screen and any tree
  to start from. The first half is about trees and has no state: rounding a share leaves
  two parts that make up the whole (`SplitExtentIs`), so the leaves of a tree with room
  tile its rectangle; two leaves that meet at an edge are found across it; every operation
  on a tree gives a tree, with the panes and the order that it should; the presets give
  the order they were given. Trees are of any depth, and what is said of each of their
  places is had without induction: of the places where it fails one is shortest
  (`NatMin`), and it holds there because it holds above. The same shows that the recursive
  functions are there at all. `TreesInv`, the first inductive invariant, is that every
  window's root is a tree or none, laid out in some `area`; that trees and closing sets
  name only panes that were spawned; and that no pane of one window's tree is in another's
  tree or closing set. `TreesStayTrees == Spec => []TreesInv`; from it follow
  `LeavesAlwaysTile == Spec => []LeavesTile`, `FocusAlwaysCrosses == Spec =>
  []FocusCrosses`, `RearrangingAlwaysKeeps == Spec => RearrangingKeeps` and
  `ClosingAlwaysKeepsOrder == Spec => ClosingKeepsOrder`. `PanesAlwaysLand == Spec =>
  []LayoutLands` needs more, since what is on the screen now may be hidden, laid out and
  shown again. `LandsInv` says of *every* window that its leaves have rectangles for
  targets, that nothing moves or closes off the screen (`Hidden`), and, unless the window
  is marked, that its panes are drawn, or moving, to where they belong once what is
  closing is gone (`Lands`), from targets that are right unless something is closing
  (`Placed`: a settling window goes to its targets, and a tick that ends a close computes
  them anew). Each handler has a lemma, and the pieces they share (`recompute_layout`,
  settling, fitting) one each. The attempt found `rough` too small: TLC, with two
  commands, could not reach a close that a resize interrupts and a switch then freezes.
  `Left` and `HostResize` of `Layout` mark such a window now.

Each step lemma has one case per action and cites only the definitions that case needs.
The constants' assumptions are those of `Workspaces` (`WindowsAssumption`),
`SessionClients` (`ClientsAssumption`: sizes are pairs of numbers), `SessionSockets`
(`SocketsAssumption`: a value that is neither a name nor a server) and `Backend`
(`BackendAssumption`, `ChunksAssumption`: capacities are positive, bounds are numbers),
`AgentBell` (`AgentAssumption`: times are positive numbers), `Keys` (`KeysAssumption`: no
character is the name of a key) and `Keyboard` (`KeyboardAssumption`: the keys pressed are
keys, sessions are numbered apart, and labels are texts of at most 100 million characters,
which is where the code's `i32` score, at most 20 for each character, would end),
`Configuration` (`InputsAssumption`: a frame rate in a TOML file is a `u16`, or serde
refuses the file), `Formats` (`BranchesAssumption`: the branches of templates are listed
with their own branches) and `Commands` (`CommandsAssumption`: scripts are callers of
their own, the templates in use have their branches among those listed, and what came
before is sequences of lines) and `Layout` (`LayoutAssumption`: sizes, shares and amounts
are numbers, and a session starts from a tree of panes numbered from 1, as `from_backend`
and a startup script give it).

Proved, and in no run's list, because the run would say less than the proof:
`Workspaces.TypeOK`, `NumbersUnique`, `NothingLeftBehind`, `ClosingOnScreen`;
`SessionClients.TypeOK`; `SessionSockets.TypeOK`, `NameGivenBack`; `Backend.TypeOK`;
`AgentBell.TypeOK`.

Only model-checked: liveness, which is outside the prover's reach (`ClosingEnds`,
`LastExitEnds`, `ScreensSettle`, `EveryoneLeaves`, `LoopReturns`, `DeathsArrive`, `LoadEnds`,
`ShellReturns`, `WaitersFreed`); `LastLineWins` (`ConfigurationLines`), which is built on
recursive operators over files that source each other and would need induction over them;
`AddressesHold` of `Commands`, which is about numbers written out and read back: that
`ToString` gives no two the same text is nothing the provers know.

## Findings

Each is a `claim_*` run whose trace shows it.

1. `claim_close`: a pane that dies while closing takes its whole window with it: it is no
   longer in the tree when the animation ends, so the tree is dropped (app.rs:4746).
2. `claim_typo`: `set-option target-fps 0` divides by zero in the event loop
   (app.rs:5239), and `capture-pane -S 3 -E 1` slices backwards (app.rs:3739). Either ends
   the session with every pane, against app.rs:2098 and the test at app.rs:8492.

## Observations

What the models contain, contradicts a comment or is worth knowing, and has no run of its
own.

Windows and layout:

* A session can survive its last process: settling a window leaves its focus on a pane it
  removed (app.rs:1893); the remaining leaf's death then neither closes (it is the last)
  nor clears the tree (it is not focused), against launch.rs:273.
* A kill error ends the whole session: `finish_completed_closings` (app.rs:4732)
  propagates it when a closing pane is respawned or its process exits first, although
  app.rs:2096 says only a failure like a PTY that would not spawn does so. So does
  `send-keys` to a pane whose program has just exited (app.rs:4105).
* A window stays zoomed on a pane that is gone (app.rs:4370, :1819, :4160, against :100).
* A program that closes its terminal and runs on, as a daemon does, is reported dead
  (native.rs:116-119): its pane goes, no command and no end of the session will ever kill
  it, and the session may quit while it runs, against app.rs:4356 ("only a pane that ended on
  its own arrives here").
* A pane that is closing stays for as long as commands keep laying its window out anew, each
  of which starts its tween over (app.rs:4048, timeline.rs:61).
* `join-pane` of a focus that no longer exists drops the window's tree (app.rs:3215,
  against :3207). After `kill-pane -a` and a window switch the focus is on such a pane,
  and `kill-pane` or `send-keys` there is fatal.
* `PaneDied` also arrives for panes closed deliberately (native.rs:402, against
  app.rs:4358), and lays out without a tween or a resize; a respawned pane's terminal has
  the default size until the next layout; panes whose closes overlap are left at stale
  slots, as are those of a window that the terminal's resize meets while it closes one; and
  `animate_to_new_layout` keeps a tween that leads elsewhere when a pane is
  already drawn where it belongs (app.rs:4048); `set-option status` does not lay out.
  These are what `rough` marks.

Clients and names:

* A `Resize` of a client that was detached meanwhile is taken for a local terminal's and
  sizes the session (app.rs:2639, against :2664).
* `Detach` detaches everybody (app.rs:2826, against :2823).
* A terminal that is resized and back before its client looks keeps a reflowed screen: the
  size reported is the one on record, so no repaint is owed (app.rs:2652, against
  :2646-2651, which promise one to a terminal that has reflowed).
* Two servers started under one name at the same time may both end up listening, and `wv
  ls` may unlink the socket of one that is starting (server.rs:44, paths.rs:119, against
  paths.rs:97). The one left without a file cannot be attached to, and unlinks the other's
  when it ends. This is what `crossed` marks. A start that finds the old server still
  answering while it shuts down starts none, and its client polls for nobody
  (launch.rs:31).

Backend:

* The loop blocks for ever in three ways, which `LoopReturns` names: `SpawnFailed` sent
  into a full event channel; a write to a copying program whose output is backed up; a
  write to a terminal that a child keeps open and nobody reads.
* `SpawnFailed` is never handled: the error leaves the loop first, so the branch at
  app.rs:4385 is dead.
* A program that closes its terminal and goes on is reported dead and stays held and
  unlisted (see above). Entries of panes that died by themselves are never removed from
  the backend.

Commands and configuration:

* `new-window -t other:` and `list-panes -a -t other:` skip the session check (app.rs:1757,
  against :1101). A rejected `resize-pane` or `respawn-pane` leaves the window switched.
* A `join-pane` to a window whose focus is a pane that is gone is refused ("the
  destination pane has no layout", app.rs:3184-3190) when the pane has already left its
  window: it runs on in none, and no target names it (app.rs:1175). With such a pane as
  the source, its window is emptied.
* A caller may be told that the session is gone although its command was carried out: the
  loop sleeps fifty milliseconds at the end and exits whether or not the reply was written
  (app.rs:2063, against 2060-2062).
* A foreground `run-shell` stops the loop; a nested `wv exec` times out after ten seconds
  and still runs later, a nested `wait-for` holds the session for good. `wait-for` signals
  are not remembered, and waiters that hang up stay parked until one comes. A branch of
  `if-shell` or a binding cannot run `wait-for -S`; `if-shell -b` runs its condition inline.
  The condition of `if-shell` holds the loop as well (app.rs:3285); here it takes no time,
  so one that runs `wv exec` itself is not covered.
* One unclosed quote, one backslash at the end of a line, or one file that is sourced and
  missing drops *every* line of `weave.conf` and of all it sources (config/mod.rs:116-127,
  tmux_conf.rs:72-114), the last without a diagnostic, against config/mod.rs:29-31 and
  tmux_conf.rs:18-20 ("should not cost you the other forty lines"). `LastLineWins` says
  that then the settings are those of the TOML file alone. A bad key drops the whole TOML
  file. TOML's `status_bar = false` leaves the option `status` on. `nested-prefix` set
  from a file is stored and not applied.
* `list-keys` omits the commands; values with spaces do not survive `show-options`; `-a` is
  ignored by `set-option`; `if-shell` ignores a fourth word; backslashes escape inside
  single quotes; commands of a binding are split at blanks (command/mod.rs:1434 says
  `shell_words`). A window that is emptied keeps its name, and `{last}` may be empty.

Keys:

* A default bound at `C-M-x` while nested comes back as `M-x`, and two chords may move onto
  one key (keymap.rs:190), where the hash order decides.
* Without the protocol, Ctrl with a character that is no letter is sent bare, C-[ as "[",
  although input/mod.rs:33-37 says that nothing is lost; C-i and C-m arrive as Tab and Enter,
  as everywhere, but C-M-i and C-M-m do so, too. Ctrl and Super drop the case of a letter. A
  repeating binding keeps the prefix table for good: `repeat-time` is stored and never
  read. A prefix that cannot be parsed leaves none. `target-fps` set live does not change
  the running clock. Keys of a client that was detached meanwhile are still handled.

Agents:

* Of several agent panes dying between two ticks only the last is remembered
  (app.rs:1438), so a long run's bell is lost if a short one dies after it, although
  app.rs:1425-1426 promises one bell for panes that die together. `forgotten` marks it.
* Transitions while nobody is attached, or with `agent-status` off, ring afterwards, since
  the old states are kept (app.rs:1277, against 1428 and 1314-1317); a death noted while
  the status is off rings when it is turned on.
* An agent that only shows a still footer since the user typed, and dies with its pane, is
  not rung for, nor is one whose pane gets the focus because its neighbour closed just
  before. A first look and one repaint within the activity window ring. So does a single
  repaint when a foreground `run-shell` holds the loop (app.rs:3258) for longer than
  `agent-minimum-run`, since a run is measured by the clock (app.rs:1412, against 1407-1411):
  `BellEarned` counts the time in which nobody looked with the time a screen moved.

## Plan

Done: `Workspaces`, `SessionClients`, `SessionSockets` with `SessionNames`, `Layout`,
`Keyboard`, `CommandLine` with `Configuration` and `Commands`, `Backend`, `AgentBell`; the
proofs above.

Left, in order of weight:

1. `Backend` implementing `ProcessExits`, `TerminalCloses` and `PaneDied` of `Workspaces`.
2. `Commands`: that a pane is in one window, the part of `AddressesHold` that does not
   depend on how a number is written.
3. `FrameDiff` (TLC only): painting a diff on a host whose glyph widths differ.
4. `Framing`: frames cut at any byte, the version handshake.

## Not modelled

The painting of frames (compositor, chrome, sub-cell borders, the escape sequences of a
diff), the terminal emulator (a library), length-prefixed framing over a stream that the
kernel keeps in order, argument parsing and start-up, benchmarks and tests. Within the
modelled parts: wording, colours, status text, the tween curves between their ends, and
a second `Attach` or `Hello` on one connection, which the session ignores.
`PROJECT.json` gives the reason for each component.
