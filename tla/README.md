# teamucks in TLA+

teamucks is a terminal multiplexer: a server owns shells on pseudo-terminals,
emulates a terminal for each, arranges them in a tree of panes and sends what
they show to the clients that watch. This directory models its parts in TLA+,
checks them with TLC on small instances and proves the central invariants with
TLAPS for all instances. Paths below are relative to
`crates/teamucks-core/src/` unless they start with `teamucks`.

## 1. Inventory

| Component | State it keeps | Operations | Talks to |
|---|---|---|---|
| session actor (`actor/mod.rs`) | registry of clients, focused client, panes, `dirty_panes`, `layout_dirty`, the session | one handler per `SessionMsg`, the render tick | everybody: one bounded inbox in, one bounded channel per client out |
| pane (`pane.rs`) | emulator, PTY, child, `last_frame` | `feed`, `write_input`, `compute_diff`, `full_frame`, `is_alive`, `try_reap` | called by the actor |
| frame diff (`render/diff.rs`) | none | `compute_diff`, `full_as_diff` | called by the pane |
| host renderer (`render/mod.rs`) | last SGR state | render a frame, a diff, the cursor | called by the output writer |
| borders and status bar (`render/borders.rs`, `statusbar.rs`) | none | which cells are borders and how they join; formatting of the status line | nobody yet |
| in-process client (`teamucks/src/client.rs`) | renderer | output writer task, input reader task; each ends in silence | the actor's channels, stdin, stdout |
| PTY reader (`actor/pty_reader.rs`) | the master's descriptor | read, send `PtyOutput`, at the end `PaneDied` | actor's inbox |
| PTY and child (`pty/`) | descriptors, pid, reaped exit status | open, fork and exec, read, write, resize, wait | pane, PTY reader |
| signals (`signal.rs`) | none | send SIGWINCH or SIGTERM to a process; nothing turns a signal that arrives into a message | a child, by its pid; no caller yet |
| layout tree (`layout/`) | tree of splits and panes, zoomed pane | split, close, resize, swap, rotate, zoom, resolve, navigate | window |
| window, session (`window.rs`, `session.rs`) | active pane and window, counters | create, close, switch, rename, focus | actor |
| input state machine (`input/prefix.rs`, `command.rs`, `key.rs`) | mode, prefix key | key event, prefix timeout | not yet wired to the actor |
| mouse (`input/mouse.rs`) | drag state | hit test, dispatch | not yet wired to the actor |
| server (`server/`) | socket, connected clients | bind, accept, remove, shut down | not yet wired to the actor |
| wire protocol (`protocol/`) | receive buffer | encode, decode, framing | server's connections |
| configuration (`config/`) | validated configuration | load, validate, reload | main loads; nobody reloads yet |
| terminal emulator: parser (`teamucks-vte`: `parser.rs`, `parser/`, `params.rs`) | state, parameters, string buffers, a UTF-8 character in pieces | one byte | pane, through `feed` |
| terminal emulator: grid (`teamucks-vte`: `grid.rs`, `terminal.rs`, `scrollback.rs`, `tabstops.rs`, `row.rs`, `cell.rs`, `style.rs`, `modes.rs`, `charsets.rs`) | two screens, scrollback, cursor and saved cursor, margins, modes, tab stops, character sets | one operation per control or sequence, resize | called by the parser and the pane |
| terminal emulator: reflow (`teamucks-vte`: `reflow.rs`) | none | rows of one width to rows of another | called by the grid |
| start-up (`teamucks/src/main.rs`, `terminal.rs`) | termios to restore | start, raw mode, panic hook | all of the above |

What makes it hard: senders of unequal speed share one bounded inbox; slow
clients lose messages although diffs are relative; one `last_frame` serves all
clients; clients come and go while ticks run; a timer decides when anything is
shown; tasks outlive each other at shutdown. In the sequential parts (tree,
grid, window bookkeeping, input modes) the hard part is a long sequence of
legal calls that breaks a relation between two fields.

What makes each part correct, in one line each:

- actor: registry and focus agree; the keys of registered clients never mix; what
  a pane shows reaches every screen that missed nothing; a client that is let go of
  leaves no writer behind;
- pane and diff: the diffs compose to the frame;
- layout, window, session: the tree holds each pane once, the active and zoomed
  panes are in it, the resolved rectangles tile the screen;
- input: a key goes to the command or to the pane, once, whatever the timer does;
- emulator: the cursor stays in the grid, wide characters keep both halves, the
  scroll region stays in the screen, a reflow loses no text, a sequence means the
  same however reads cut it;
- configuration: a file takes effect as a whole or not at all;
- protocol: what is decoded is what was encoded, in any segmentation;
- server: socket and client list agree; PTY: a child is reaped once.

## 2. Modules

| Module | Models | Extended or instantiated by |
|---|---|---|
| `Frames` | frames, diffs, what a message paints | `SessionActor`; proofs in `SessionActorProofs` |
| `SessionActor` | the actor, its channels, writers and senders | `ClientMirrors`; proofs in `SessionActorProofs` |
| `FrameStream`, `ClientMirrors` | what a viewer is promised; the mapping under which the actor keeps it | `MCSessionActor`; proofs in `SessionActorProofs` |
| `Layout` | trees of panes as values | `Pointer`, `Session`; proofs in `LayoutProofs` |
| `Pointer` | borders, hit test, reports of the mouse, as operators | `PaneTree`, `Input` |
| `PaneTree` | one tree under its operations | `MCPaneTree`; proofs in `PaneTreeProofs`, on `LayoutProofs` |
| `Session` | windows, active index, windows emptied and removed | `MCSession`; proofs in `SessionProofs`, on `LayoutProofs` |
| `Wire` | framing over a stream in pieces, the server's registry | `MCWire`; proofs in `WireProofs` |
| `Input` | the keyboard's modes with their timer, the mouse's drag | `MCInput`; proofs in `InputProofs` |
| `Config` | load, validation, reload | `MCConfig`; proofs in `InputProofs` |
| `Cells` | cells, rows, styles, as operators | `Reflow`; proofs in `TerminalProofs` |
| `Reflow` | the reflow algorithm, as operators | `Terminal`; proofs in `TerminalProofs` |
| `Terminal` | the emulator's screens under every operation | `MCTerminal`; proofs in `TerminalProofs` |
| `Parser` | bytes to operations | `MCParser`; proofs in `ParserProofs` |

`SessionActor` takes `Feed` of `Frames` for the whole emulator, so `Terminal`
and `Parser` are checked by themselves: what the actor needs of them is only
that a chunk changes the frame. `Parser` ends where `Terminal` begins: its events
are the calls of `Performer`, each of which is an action there.

Each run answers one question about one component. Where several properties need
the same instance they share a run. Each safety property is checked first and then, where
the prover's reach allows, proved for every instance; section 12 says what is left: liveness,
and `SequencesMeanWhatTheySay` of the parser.

## 3. The session actor

### Modules and correspondence

`Frames` has the data: a frame is one row of cells and a cursor, a chunk of
output writes one cell and moves the cursor. A cell's character and style are
one value. `compute_diff` decides row by row whether to send the changed cells
or the whole row, so one row keeps all of its cases (`Resent`); with `Width` 2
both arise. `Render` is what the output writer does with a message.

| Model | Code |
|---|---|
| `inbox` | the `SessionMsg` channel, 512 slots in `main.rs` |
| `phase` | where `run` is: the `try_recv` drain, the `select!`, after it returned |
| `tickDue` | the interval has elapsed (`MissedTickBehavior::Skip`: one, however many) |
| `clients`, `focused`, `dirty`, `layoutDirty` | the actor's fields |
| `terminal`, `lastFrame` | each pane's emulator and `last_frame` |
| `outbox` | each client's bounded channel, `try_send` in `TrySend` |
| `writer`, `screen` | `in_process_output_writer` and the terminal it paints |
| `source` | how far each client task and each PTY reader is |
| `dropped`, `bypassed`, `typists` | auxiliary: nothing else depends on them |
| `Receive`, `Drained`, `TimerFires`, `RenderTick` | the event loop |
| `HandleNewClient` and the other `Handle...` | the handlers of the same names |
| `Connect`, `SendInput`, `ReadPty`, `EndPty` | `main.rs`, the input readers and the PTY readers, with what they send |
| `EndInput` | an input reader at EOF or a read error: it sends nothing |
| `Announce`, `Raise` | a caller outside the program, as in `tests/actor_tests.rs`: `ClientDisconnected`, `HostResize`, `Shutdown` |
| `WriterPaints`, `WriterEnds`, `WriterFails` | a message rendered; the channel closed; a write that failed |

A handler is one step. It never awaits: the actor's state is its own and its
sends are `try_send`. All that can happen while it runs is that a writer takes a
message, or that a sender adds one, and both commute with the rest of the
handler up to a step earlier or later. Where the code iterates over a hash map
or drains a hash set the model allows every order or every choice.

No task of the program sends `ClientDisconnected`, `HostResize` or `Shutdown` at this
commit. An input reader that meets the end of its input, and a writer whose
terminal fails, end without a word; their client stays in the registry, and if it
has the focus it keeps it, so the keys of all others are refused. The model has this
(`EndInput`, `WriterFails` leave `clients` and `focused` alone) and no property says
otherwise. The three messages are the actor's interface, so a caller of the model may
send them: a disconnect for a client that is registered or about to be, the others at any
time. What depends on such a message is stated of the message, not of the
reader that ended.

The end of the shell ends nothing either: `handle_pane_died` is a stub, and `main.rs`
and the actor itself hold a `Sender` of the inbox, so `recv` never reports it closed. The
model has no such arm of `run`, and only a `Shutdown` stops the actor.

`HandlePaneDied` changes nothing because the code's handler is a stub; the model
will follow the code when it is completed. Layout and panes are constants of
this module: at this commit no message changes them. A pane id that is
in no map (`PaneIds \ Panes`) may be named by a message, as after a pane is gone.

### Runs

| Run | Instance | Question |
|---|---|---|
| `registry` | 3 clients, inbox of 2, channels of 1, keys as input, resizes and a shutdown | do registry, focus and keyboard agree whatever the order of connects, keys, silent ends of readers, announced disconnects and a shutdown |
| `mirror` | 2 clients, 1 pane of 2 cells, channels of 2 | can a client that missed nothing rebuild the frame; does the actor implement `FrameStream` |
| `progress` | 2 clients, 1 pane of 1 cell, inbox of 1, channels of 2, announced disconnects | does every change reach `last_frame` in any order of ticks and joins; are changes painted, does a client catch up whatever becomes of the other, does the writer of an announced client end |

Bounds. Three clients are the least at which focus passes to one of several and
then on; an inbox of two has the messages of any two clients, or a client's key and its disconnect,
in either order, while the third's comes next. A channel of one or two is
full after one greeting, so overflow happens at every kind of send. Two cells
have the row above and below the half that decides the resend; `progress` is about when, not
what, and has one. Its two clients are the least at which one may fail while the other
looks on; its disconnects may come from either. Panes outside the map, and more than one pane, would take
`progress` beyond what TLC finishes; `CleanPanesAreSent` is proved for them (section 12). The senders are
not bounded: a PTY reader may write for ever, and only the channels limit it.
Clients are interchangeable (the model compares ids for equality only), so
`registry` takes permutations of them as symmetry; `mirror` singles a viewer out
and `progress` checks liveness, so they do not.

Deadlock is not an error here: when the actor has stopped, the writers have
ended and nobody may send, nothing remains to be done.

### Fairness

`FairSpec` has weak fairness of the loop (`Receive \/ Drained`), of the timer
and of each writer's progress: the runtime polls a task that is woken. It has strong
fairness of `RenderTick`: messages may make the loop leave `wait` again and
again, but `select!` polls its branches in random order, so a tick that is due
every time is taken at some time. Nothing is assumed of clients, children or
callers, and nothing forces a write to fail or not to.

The drain phase has no limit in the code. While senders keep the inbox full the
loop never reaches `select!`. `ChangesArePainted` and `ViewerCatchesUp` therefore assume
`[]<>(phase # "drain")`; without it they fail, and the hazard at
`actor/mod.rs:291` is that assumption.

### Properties

- `FocusIsRegistered`: somebody has the focus exactly when somebody is registered, and it is one
  who is. A client whose reader or writer has ended is still registered.
- `OneTypistAtATime`: the keyboard changes hands only when the disconnect of its holder has
  been handled.
- `CleanPanesAreSent`: outside `dirty_panes`, `last_frame` is what the pane shows.
- `InStep`: for a client that missed nothing, the screen plus what is in its
  channel is `last_frame`: diffs compose. `dropped` and `bypassed` name the
  two ways to miss something, and section 11 says that both are real.
- `ViewerMirrorsThePane`: `FrameStream` is implemented. The abstract pipe holds
  whole frames; the mapping (`ClientMirrors!Whole`) is what the screen will show after each
  message of the channel. Once the client misses something the abstract
  specification promises nothing more (`Lose`).
- `ChangesArePainted`: what a pane shows becomes its `last_frame`.
- `ViewerCatchesUp`: when the child is silent for good, a client that stays and missed nothing shows
  what the pane shows, whatever has become of the other: a failed or full channel holds up its own client only.
- `WriterEndsWithItsClient`: a registered client whose disconnect is in the inbox has its writer
  end; the actor's `Sender` was the last one. It takes no fairness of the caller, for the message is there.

## 4. The layout tree

`Layout` has `LayoutTree` as a value: a function from paths to nodes, with the
sizes, the active and the zoomed pane beside it. Operators carry the names
of the functions (`SplitPane`, `ClosePane`, `SwapPaneIds`, `RotateNearest`,
`ResizePane`, `Resolve`, `Neighbour`). `PaneTree` is the state machine: one tree,
one action per operation. An operation that returns an error leaves the tree
alone and has no action. `Pointer` adds what `render/borders.rs` draws between
panes (`Borders`) and what `hit_test` finds there (`HitTest`). `panicked` records the one operation that may panic.

Ratios are parts of `Unit`. The code's are f32; with `Unit` 24 and the windows
checked every ratio that `clamp_ratio_for_minimums` can return is a whole number
of parts (`RatiosAreExact`, an assumption TLC evaluates), so a product with a
window's extent is rounded as the code rounds it but for the error of f32, which
is abstracted. Ids of new panes are chosen fresh, which the actor's `next_pane_id` counter is for.

Run `edits`: three panes, `MIN_PANE_COLS` 5 and `MIN_PANE_ROWS` 2 as in the code, windows
of 25x13 (every tree of three panes has room), 13x5 (most splits are refused) and
7x3 (less than two panes), a half and a third as ratios, resizes as far as the
clamp lets them. Three panes are the least with a split below a split on either side, with two splits of one
direction above a pane, and with a subtree for `close` to promote. Pane ids are
interchangeable: where order matters it is the order in the tree. Properties:

- `TypeOK`: every pane occurs once in a binary tree, and the active and the zoomed
  pane are in it after any sequence of operations;
- `PanesTileTheWindow`: while the tree fits, rectangles lie in the window, a border apart
  (`PanesAreApart`), and with the borders add up to the window;
- `CloseUndoesSplit`: what `validate_split` lets through, `close` takes back;
- `NavigationIsAdjacent`: navigation crosses one border, never a pane;
- `OthersStayPut`: split and close move only the panes of one rectangle;
- `RoomIsKept`: a tree that fits stops fitting only by a rotation, a resize of a split, a
  smaller window or a split made while zoomed;
- `BordersCanBeGrabbed`: what `compute_borders` finds by looking for empty cells and
  what `hit_test` finds by looking for adjacent rectangles is the same border, but
  for junctions, which are drawn and cannot be grabbed;
- `TreesThatFitDoNotPanic`: only in a tree without room does the clamp of a resize panic.

## 5. Windows and session

`Session` has the list of windows and the active index. A window is its layout
and `pane_count`, the counter by which `close_pane` decides that a window is
empty. `RemoveWindow` is `remove_window`, with `Reindexed` for its four cases;
`CloseOneOfMany` and `CloseLast` are the two outcomes of `close_pane`. The second returns
`WindowEmpty`, with the counter at zero and the last pane still in the tree. What `handle_window_empty`
does then is `RemoveWindow`, a step of its own: no task of the program runs the cascade yet, so anything may come
between the two, a removal of another window or a switch, and the removal may never come. A
split of the emptied window is the one thing left out (the guard of `SplitActive`): `WindowAction`
(`window.rs:77`) documents an empty window as one that should be removed, and a caller that goes on to fill it is outside what the files describe. The active window's operations
(`SplitActive`, `Navigate`) go through `active_window_mut`. Names and the
activity flag are left out: nothing reads them.

Run `windows`: three windows and four panes, a roomy size and one too small to
split, so every position of a removed window relative to the active one
occurs, and a window with two panes beside others. `ActiveWindowExists`,
`WindowsOwnTheirPanes`, `ViewIsKept`.

## 6. The wire

`Wire` has the connections of one server: `peer` is the client's end, `pending`
what its `write_all` has left to write, `stream` what the kernel holds, `read_buf`
the codec's buffer, `registered` the server's map of clients. `Fill` is one
read of `fill_at_least`; whether a frame's length or its payload is still
missing follows from `read_buf` (`Wanted`), as the codec's two calls of
`fill_at_least` do. `Extract` takes the frame out and decodes it in one step: there is no
await between the two. `Sweep` is `remove_disconnected_clients` with the probe
`is_alive` inlined; `ready` is the set of sockets the runtime has noticed to be ready, `failing` those among the
broken ones where the read fails. A client is dead if the read fails or finds the end of the
stream. A connection breaks by `Break`; from then on a read brings what bytes there are or fails, in
the probe (`failing`) as in the codec (`ReadError`).

The code has the codec and the registry but no task yet that uses the two together. The model
lets a reader run for each registered client, read until its first error, and
lets removals, sweeps and the shutdown happen at any time. A client that closes before it is
accepted is not modelled.

A message is its payload. All that decoding needs is that no payload is the
beginning of another (`MessagesEnd`), which holds because every field has a
fixed length or is preceded by it. A frame that is out of step may then decode to a
message, as it may in the code, which ignores what is left of a payload.

The length in front of a payload is a number of `HeaderBytes` digits to the base `Base`, lowest first
(the code's four bytes, little endian). `Shifted(n, k)` is n without its k lowest digits and
`FromLeBytes` adds the digits up; that no payload is longer than the digits can say
is part of `WireAssumption`, as 4 bytes and `MAX_MESSAGE_SIZE` justify.

Run `wire`: one connection, for connections share nothing but the sweep; three
messages, so that one read can bring the end of one, the whole of the next and the
beginning of a third; bytes of three values and a length of two bytes, so that
a length may be zero, valid or too large once bytes are missing; a socket of three bytes, less
than a long frame. Properties:

- `FramesSurvive`: messages are received whole, in order, once; the reader of an honest client fails only at
  the end of the stream or with the socket.
- `EndedReadersHaveAll`: a reader that met the end of the stream has every message that was
  written in full. Hanging up overtakes nothing.
- `OnlyBufferedIsSwept`: a client that is swept away is gone, and if it closed in order the sweep leaves
  nothing in the socket. What its reader holds in `read_buf` is lost with it, whole messages among
  it: a removed client is not read from any more. The property allows that loss since the code has it, and only that one.
- `EverythingArrives`: while a client stays connected and registered, what it sends is received in the end.

`FairSpec` has weak fairness of a client's write and of a reader: both are
tasks woken when the socket is writable or readable. Connection, closing, accepting, sweeping are not fair.

## 7. The terminal emulator's screens

`Cells` has cells, rows and styles, `Reflow` the algorithm of `reflow.rs`,
`Terminal` the state: a `Grid` with what `TerminalState` keeps beside it.

| Model | Code |
|---|---|
| `visible`, `scrollback` | `Grid::visible`, `Grid::scrollback` (newest first, as it indexes) |
| `cursor`, `saved` | `Grid::cursor`, `saved_cursor`; `pending` is `wrap_pending` |
| `region`, `modes`, `tabs`, `charsets` | the fields of those names |
| `alternate` | what `enter_alternate_screen` puts aside: rows, cursor, margins |
| `panicked` | an index was out of a row or out of the rows |
| `typed`, `repertoire` | auxiliary: the characters printed; the operations of this behaviour |
| `PrintChar`, `Mark` | `print` with `write_char`, `combine_with_previous` |
| `LineFeed` ... `SelectCharset` | the controls and sequences of `execute`, `csi_dispatch`, `esc_dispatch` |
| `Resize` | `resize`, by `reflow` or by `basic_resize`, with margins and tab stops |

A character is one of three kinds: of one column, of two, or of none. A cell has
its text, a style and a kind: a single cell, the lead of a pair or its tail. A colour is a
sequence of numbers whose length tells the kind. `ApplySgr` walks over the parameters as
`apply_sgr` does, cut short or not.

An application uses the operations of its `repertoire`. The sixteen of run `screen`
group those that touch the same state: a log, a shell that is resized, line
editors, a pager with margins, programs that save the cursor, full-screen
editors on the alternate screen. All operations at once would take TLC too far; every
pair that shares a field of the grid is in some repertoire, and the theorems of
section 12 hold for all of them together. Sizes 1x2, 2x3 and 3x2: one column, where
a broad character has no room; two, where it fills the line; three, where it can
lie across the edge. Three printed characters fill a line and wrap twice; a scrollback of two rows overflows.

- `MarginsFit`: both screens' margins are rows in order.
- `OnlyRestoringLeavesTheScreen`, `PanicNeedsAStaleCursor`: a restored cursor is the one
  way off the screen and the one cause of a panic. Both ways of restoring are named, DECRC
  and the end of the alternate screen.
- `OnlyCutsOrphanTails`: a tail stands without its lead only where an application uses the alternate
  screen and the pane was resized, since `basic_resize` cuts rows where `reflow` rewraps them.
- `OnlyEdgesTearPairs`: a screen of whole pairs stays one but for a resize, the return from the
  alternate screen, and a broad character that finds no room at the edge.
- `OutputIsKept`: what a program that only writes lines has printed is on the screen and in the
  scrollback, in order, once. Spaces are not compared (`WithoutSpaces`), since a blank cell cannot be told
  from a printed one.
- `ReflowKeepsText`: a reflow moves text and loses only what the scrollback has no room for.
- `PrimaryWaits`: an application on the alternate screen cannot reach the primary one.
- `SgrReadsLeftToRight`: the parameters of two commands do what the commands do one after the other.
- `TypeOK`: both screens have the size of the pane at all times.

Run `edge` has a line editor on the same screens: TLC finds `WritingClearsOnlyHalves` violated, see
section 11. Both disagreements about halves came to light in the attempt to prove that no tail
is ever without its lead: that is not inductive, for a lead left alone at the edge may
come to stand in front of anything, and longer behaviours than TLC had looked at
reach a tail alone. The properties say now what does hold.

## 8. The parser

`Parser` is a record and `ProcessByte` a function of the record and a byte; `Feed`
is the one action. Feeding one byte at a time is what makes reads of any length
the same: `advance` is a loop over `process_byte`, and between two bytes all there is
is the record. The table is written by classes of bytes, with the rules for every state
(CAN, SUB, ESC, DEL) first as in `transition`. A character is the sequence of its bytes.

Run `parser`: five alphabets of eight or nine bytes, each with what can begin, continue,
end, cancel or spoil one kind of sequence: CSI, OSC, DCS, ESC and text. A sequence may have
six bytes, which is enough to overflow two parameters, two intermediates and a
string of three bytes, and for one sequence to be cut by another and that by a third. The properties compare
with definitions that see all of the bytes since the parser last rested, and do
not mention its states:

- `TextIsDecoded`: a character for each valid encoding, one replacement for each piece that is none. `PieceFrom`
  is the longest piece that begins at a byte and `CharFrom` what it says; the reference is these in a row (`CharsOf`);
- `SequencesMeanWhatTheySay`: a sequence is dispatched when its last byte arrives, with its own parameters,
  intermediates and text, and nothing else is dispatched;
- `NothingIsLeftOver`: after anything, a probe makes the calls it makes at the start, in order and with the
  same arguments, after one replacement for a character it cuts short (`CutShort`).

A probe begins with an ESC and does not have the backslash that would end the string the ESC
interrupts (`ProbesAssumption`): there the code does go on with what it has, see section 11.

`SequencesMeanWhatTheySay` does not compare the header of a DCS string, see section 11.

## 9. Keyboard and mouse

`Input` has the two machines of one user side by side; they share no state, and are
in one module because one caller feeds both. `mode`, `prefixKey` and `dragging` are
the code's. The timer is the caller's: it starts with a prefix, and its end may be on its way when the next
key is handled, so `OnPrefixTimeout` needs only a timer that has not been stopped. A key is
told apart by its place among those typed, and `pane` lists the places of what was forwarded.
The mouse sends reports with buttons, modifiers and motions (`ParseSgr`) over a
layout that may be replaced at any time (`Relayout`). A release may happen where the terminal does
not see it (`ReleaseUnseen`).

Run `input`: four keys, of which one enters resize mode, one leaves it, one is a
command there and two may be the prefix; four keys typed are a prefix, its command, a key in
the mode and one more. Two buttons, a window of two or three panes, and four places: a pane, a border of two
panes, a junction, a border of three.

- `KeysHaveOneFate`: a key reaches the pane once and in order, or is used or dropped, or
  is a prefix that waits; a prefix may have two fates, and only when a timer ends too late.
- `OnlyEscapeEndsResizeMode`: but for such a timer.
- `DragsEndWithTheButtons`: a border is dragged only while a button is held or a release went
  unseen, whatever modifiers, motions and new layouts come between.

## 10. Configuration

`Config` has the file, the configuration in force and, auxiliary, what kind of file was read last (`source`) and what the last one
without errors said (`accepted`). A
file is missing, unreadable, garbled, or says a `RawConfig`. `Load` and `Reload` are the two
entry points; `Validated` is the set of results `validate` may give, for the entries of the
table of bindings come in the order of a hash map. Names of keys are a
modifier and a word. `Edit` is the user, in the middle of saving or done, and `Exit` a restart.

Run `config`: every file made of a few prefixes, exit behaviours, themes, positions and tables, right
and wrong, two names of one key among them. `FileIsHonouredOrRefused`: what is in force is all of the last file without
errors, or the defaults; a file with errors leaves nothing of itself in force and has its errors reported. Which of the two is in force after a
file was refused is what the code and its doc disagree about (section 11), and the property takes neither side. Nothing in the components of
sections 7 to 10 has to happen in the end, so no fairness is assumed.

## 11. Where the code and its words disagree

Two have a run in which TLC finds the property violated:

- `probe`: `is_alive` looks for a dead peer by reading a byte. What it takes is
  missing in the stream: the reader is out of step and reports a message nobody sent.
- `edge`: a wide character that has no room in the last column blanks the second half of the
  one in front and leaves its first half marked as wide. When that is written over later, the cell behind it
  is blanked too, whatever was written there since; the comment at `grid.rs:619` says that it is the
  other half that is cleared.

The others are in the models as the code has them, and no property of a passing
run says otherwise. In the core:

- readers and writers that end tell nobody, so a client stays registered with nobody behind it, where
  the doc of `ClientDisconnected` (`actor/mod.rs:88`) says a client disconnected, cleanly or abruptly; nor does SIGWINCH, SIGTERM or SIGINT
  become `HostResize` or `Shutdown`, as lines 112 and 120 have it;
- a diff dropped at a full channel is not made up for, since `last_frame` has moved on;
  the comment at `actor/mod.rs:527` says the next tick will produce a new diff;
- `full_frame` for a joining client resets the `last_frame` all clients share, so what
  changed since the last tick never reaches the others (`bypassed`);
- `compute_diff` sends cells or the cursor, never both, and stores both;
- in a window with less than twice the minimum the bounds of `f32::clamp` cross and it
  panics (`ClampPanics`);
- `resize` moves the outermost split of the direction where `layout/tree.rs:352` says the
  nearest (`ResizeTargets`), and its clamp measures the window instead of the split's
  rectangle, so panes below it may fall under the minimum that line 354 promises;
- `validate_split` measures the pane on the screen, which is the whole window while it is
  zoomed, and lets a split below the minimum through (`CanSplit`). This is why `RoomIsKept`
  leaves resizes and zoomed splits out.

In the emulator (`grid.rs`, `reflow.rs`, `parser.rs`):

- a saved cursor is restored off the screen after a resize, and the next character or
  erasure panics; `grid.rs:31` says the cursor is clamped;
- a combining mark after a character in the last column, or after a wide one, joins another cell;
- after a resize on the alternate screen the primary one comes back with clamped old
  margins, not those of a full screen;
- after a reflow the cursor behind a line that fills the new width goes to its beginning,
  and one in the scrollback to the corner; blanks left before a wide character become text;
- a resize on the alternate screen cuts wide characters of either screen in two, where `cell.rs:140`
  has the second half always behind the first;
- erasing never clears the flag of a soft wrap; a colour cut short is read again as codes;
- `ESC ] x ESC ( \` dispatches the title, since what an ESC interrupted is not
  forgotten; a DCS string ended by `ESC \` is dispatched without its parameters and
  final byte; with two intermediates the final byte is lost (`Hook` is `Collect`);
- bytes 0x80 to 0x9F are dropped from a title and 0x9C ends it, so that UTF-8 titles are
  spoilt, where the comment on `osc_dispatch` calls the title arbitrary UTF-8.

In input and configuration:

- the diagram in `input/prefix.rs` has Escape as the one way out of resize mode; a late
  timeout leaves it too and forwards a prefix that was used;
- any button starts a drag and the release of any button ends it;
- a file that does not parse or validate replaces the working configuration by the default
  one, where the comment at `config/mod.rs:276` says the current one is returned unchanged; the property
  of run `config` holds with either;
- an unknown position of the status bar is passed over without an error; `f` and
  capitals by themselves cannot be bound; `parse_hex_color` cuts the text at fixed bytes and
  panics where a character lies across the cut (`Panics`).

## 12. What is proved

TLAPS checks the following for all values of the constants that satisfy the
named assumptions:

- `FramesAssumption`, `NoFrameAssumption`, `ChunksAssumption`, `ActorAssumption`, `ViewerAssumption`,
  `LayoutAssumption`, `PaneTreeAssumption`, `SessionAssumption`, `InputAssumption`, `WireAssumption`,
  `ConfigAssumption`, `CharactersAssumption`, `TerminalAssumption`, `ParserAssumption`: capacities and sizes are natural numbers, ratios are
  between nothing and the whole, distinguished values are not ids or frames, the kinds of characters are
  disjoint, bytes are bytes, and an entry of a file is there once or not at all;
- `MessagesEnd`: no payload begins another, which the encoding of `protocol/` provides (section 6);
- `SgrAssumption`: the commands of which SGR sequences are made are whole: a code, or 38 or 48 with
  the numbers of its colour;
- `ProbesAssumption`: see section 8.

Three theorems have a hypothesis of their own. `SinglePane` says that the window shows one pane, the active
one, as `main.rs` sets the actor up at this commit and as run `mirror` has it: with two, a full frame of
one paints over the other, since the writer does not look at `pane_id`. `MinCols >= 2` and `MinRows >= 2` hold in the code (5
and 2): with a minimum of one line navigation may meet the end of a border, and a border one
cell long is drawn as a horizontal one.

Session actor (`SessionActorProofs`):

- `TypeCorrect`: `TypeOK` is inductive. The work is in what the channels hold:
  `TrySend` never exceeds the capacity, and a diff in whatever order of
  the dirty set is a sequence of messages.
- `FocusAlwaysRegistered`, `CleanPanesAlwaysSent`: inductive with `TypeOK`.
- `OneTypist`: needs `LastTypistHasFocus` (of those who typed, only the last may
  still be registered, and then it has the focus) and `Registration`: a client is announced to the actor once, and
  while that message waits it is not registered and has not typed. Both rest on the order of the inbox. Readers that end in
  silence leave both as they are.
- `ClientsAreInStep`: from `Mirror`, which adds that there is a last frame from the first greeting on, so
  that every diff is relative to something the clients have. What a sequence of messages paints is a fold:
  `Numbers`, induction over the numbers, shows that it exists, and lemmas take one message from either end of it. The work is in
  `RenderTick`: the diff from `last_frame` painted over `last_frame` is the new frame, however many
  cells changed, and a dropped diff puts the client in `dropped`.
- `ViewerMirrors`: `Spec` implements `FrameStream` under the mapping of `ClientMirrors`, from the same
  `Mirror`: each action appends the frame the channel's last message completes, takes the
  first, loses everything, or is a stutter of the abstract viewer.

Session (`SessionProofs`):

- `ActiveWindowAlwaysExists`, `ViewAlwaysKept`: with `Indexed`, the bound
  on the index together with "without windows the index is zero", which
  `remove_window` does not say and `add_window` after the last window was removed
  relies on. The lemma `Removed` says what `RemoveAt` leaves where.
- `WindowsAlwaysOwnTheirPanes`: from `Owned`, which adds that every layout is a proper
  tree: that a split adds one pane and a close takes one away is true of trees only. The close of a
  last pane leaves a tree of one pane that is not counted (`CloseLastKeepsOwned`).

Layout tree (`PaneTreeProofs` on `LayoutProofs`), for trees of any depth:

- `TreesAlwaysKeepTheirSelection`: `TypeOK`, from `Sound`, which says the same through
  `Proper`: the paths of a tree are the root's and those one turn below a split
  (`Branches`), and each pane is at one leaf. `SplitTree` and `CloseTree`
  show it of the new trees. That the close finds a first leaf to activate, and
  navigation a nearest pane, needs least elements of finite sets under the order of
  the tree (`LeastElement`, `BeforeIsTransitive`, `BeforeIsTotal`). Induction along a path is by the least
  counterexample (`LeastNumber`, `PathInduction`), itself from the library's facts
  about finite subsets.
- `ResizingIsSafeInTreesThatFit`: a resize moves the topmost split of its direction, which is
  as long as the window (`AcrossTheSplit`, `BelowNoSplit`). If the bounds of the clamp cross, the window has no room for
  two panes in that direction, so the split's first child is short (`FirstChildIsShort`) and so is some pane below
  it (`ShortPaneBelow`): the tree does not fit.
- `ClosesAlwaysUndoSplits`: `CloseAfterSplit`, node by node.
- `OthersAlwaysStayPut`: a rectangle depends on the splits above it only (`RectAgrees`).
- `PanesAreAlwaysApart`: where both children of a split have room, they lie in its rectangle, a border
  apart (`ChildrenTile`); a pane lies within every rectangle above it (`NodesPart`); and
  two panes part at some split (`NodesDisjoint`).
- `PanesAlwaysTileTheWindow`: that, and the sum of the areas. Sums over finite sets are folds:
  they exist and add up over disjoint sets (`SumsExist`, `SumsAdd`), by induction on finite sets in the form of a least
  counterexample (`SmallestSubset`). `AreasAddUp` then replaces a split by its children and its border,
  one at a time; a tree has finitely many nodes (`FinitelyManyNodes`).
- `RoomIsAlwaysKept`: more room is never less room for a part: `ShareGrows` does the arithmetic of
  one ratio, `SizesGrow` and `ChildGrows` that of a split, and along a path every rectangle grows. So a close
  gives the sibling's panes no less than they had. A split divides a pane that `validate_split` measured.
- `NavigationIsAlwaysAdjacent`: across the border is a pane (`PaneAcross`), found by descending to it; of the panes
  beyond, the nearest one by the code's distance is one of those that touch the border
  (`NearestCut`, `NearestNeighbour`).
- `BordersCanAlwaysBeGrabbed`: every cell of the window is in a pane or in a split's border (`PaneOrBorder`), and
  in no two (`BorderIsEmpty`). On a border that is not a junction both neighbours are panes
  (`BetweenTwo`), so the lines `compute_borders` draws in a cell (`LinesOfCell`) are those `hit_test` finds first (`FirstLine`).

Input (`InputProofs`):

- `KeysAlwaysHaveOneFate`, `OnlyEscapeLeaves`: from `KeyInv`, which adds to the property what
  the timer knows (`Timed`: it was started by a prefix, which while the mode is PrefixActive
  is the last key, neither used nor forwarded, and otherwise has been used). A key, the timer's end and
  its being stopped have a lemma each.
- `DragsAlwaysEnd`: for any layouts, places and modifiers. The lemma `Stripped` does the
  arithmetic of the modifier bits, `Dispatched` the cases of the dispatch; the hit test may answer
  anything.

Configuration (`InputProofs`, which extends both `Input` and `Config`):

- `FilesAreHonouredOrRefused`: what is in force is all that the last file without errors said, or the default, and a
  file with errors has them reported. A name means one key or none, so a
  merged table (`Merges`) has for each key it binds one of the names the file has for that key, whatever the order of the hash map.

Terminal (`TerminalProofs`):

- `MarginsAlwaysFit`, `CursorLeavesByRestoring`, `PrimaryAlwaysWaits`: from `Shape`, which bounds the margins of both
  screens, the size, and makes every cursor a pair of natural numbers. All actions but six are
  shown to be `Moves`: they leave the geometry and the margins alone and take a cursor that is on the
  screen to one that is. The theorems hold for all repertoires at once and all sizes.
- `PanicAlwaysNeedsAStaleCursor`: from `Shape` and from the fact that every action is `Careful`: it
  panics only with a cursor that is off the screen, and leaves it there.
- `TerminalTypes`: `TypeOK`, from `Typed == Shape /\ Pens /\ Books /\ Kept(Lines)`. `Kept(G)` says that
  both screens have as many rows of G as the pane and the scrollback no more than its limit. One argument serves several
  sets of rows: if `G` is closed under what operations do to a row (`Closed(G)`: a new row, writing,
  erasing, a combining mark, the wrap flag), every action keeps it. `ReflowGivesWholeRows` unfolds the folds
  of the reflow by induction on the number of cells.
- `TailsFollowTheirLeads`, `PairsAreTornAtEdges`: the same argument for `PairedLine(w, e)`: a tail has its lead,
  and a lead its tail except in the last e columns. With e = 0 these are rows of whole pairs. With e = 2
  (`Unsevered`) they are what a broad character without room leaves: a blank in the last
  column and its neighbour's lead alone in front. This is the strengthening without which the absence of orphan tails is not inductive.
- `SgrAlwaysReadsLeftToRight`: for every style. A step over the parameters that is within a command
  reads that command only (`CommandsAreReadWhole`), so the folds over two lists meet where the first list ends
  (`CommandsFollowEachOther`).

- `OutputIsAlwaysKept`: what a program that only writes lines leaves is an invariant of its own: no
  alternate screen, margins that are the whole screen, and nothing written behind the cursor. Then a character joins the end of the text, and
  a line that scrolls away is the next of the scrollback, or loses the front of the text where that is full.
- `ReflowAlwaysKeepsText`: stage by stage. Joining rows into lines, trimming blanks, wrapping again and flattening each keep
  the text (`JoinSays`, `TrimSays`, `RewrapSays`, `FlattenSays`), the rows that fill the screen up have none
  (`PaddingHasNoText`), and pushing rows into the scrollback loses at the front only (`PushingAllTells`). That a character without
  room moves to the next row whole is where `RewrapStepSays` has its cases; on a screen of one column it never has room, and the
  property leaves that out.

Parser (`ParserProofs`):

- `BuffersNeverOverrun`: `TypeOK`, from `Sound`: arrays and strings within their limits, the
  cuts of an OSC string in order and inside the text that there is, and fewer bytes of a character than its first one
  announces, each kept by every action of the table. This is what keeps
  `dispatch_osc` from cutting outside its buffer and `process_utf8` from a fifth byte.
- `NothingIsEverLeftOver`: the parser in any state and a new one hear the same probe. After the ESC they are in one
  state and differ only in what is not read before it is written: `Alike` names
  the fields that must agree and the extra calls in front; `Data` and `Text` say in which states
  the string buffers must. Each action of the table keeps two parsers together (`ByteTogether` and the lemmas before it). The strengthening is `Fresh`: in state `Escape` there are no parameters
  or intermediates, since every way there clears them. `Course` carries one byte to the whole probe.

- `TextIsAlwaysDecoded`: of what was heard, only the last piece can still gain a byte (`OneWaits`), since a byte within a piece is a
  continuation and none begins with one. `Decoded` is the strengthening: the piece that waits is
  what `process_utf8` has kept (`Pending`), and the pieces before it have been printed. A byte then continues that piece, completes it, or
  cuts it short and begins another; `ReferenceContinues` and `ReferenceCuts` say what each does to the reference, `MachineContinues` and `MachineCuts`
  what to the parser.

Wire (`WireProofs`):

- `MessagesSurvive`: from `NothingLost`: for a client from whom the probe took no byte, the messages received, then what is
  in the buffer, in the socket and still to be written, are the messages sent, each in its frame. A frame at the front is
  taken apart in one way only: its length is read back (`LengthRoundTrip`, by induction over the digits),
  and by `MessagesEnd` the payload decodes to the message that was written.
- `EndedHaveAll`: with the socket empty and the client gone, what is missing is what the client had not written. That is less
  than the last frame (`Unwritten`), and a reader that asks for more has less than a frame in `read_buf` (`FrameAwaited`), so all
  frames but an unfinished last one are received (`EndIsComplete`). Nothing changes it later: a client that is gone writes nothing
  (`GoneStays`) and a reader that ended reads nothing (`ReaderEnds`).
- `SweptAreGone`: the action property `OnlyBufferedIsSwept`, from `NothingLost` and the definition of a dead client, errors of the
  read included.

Only model-checked:

- liveness, under the fairness of sections 3 and 6: `ChangesArePainted`, `ViewerCatchesUp`, `WriterEndsWithItsClient`, `EverythingArrives`.
  The prover has no rules for fairness that do not need ENABLED;
- the parser's `SequencesMeanWhatTheySay`, whose reference sorts the semicolons of a text, filters its bytes and folds over
  digits (`SetToSortSeq`, `SelectSeq`, `FoldLeft`): the provers have no definition of the first two to reason from, and what the third computes
  is an induction over data. What can be said without it is proved: that buffers hold (`BuffersNeverOverrun`) and that nothing is left over from
  one sequence to the next (`NothingIsEverLeftOver`).

## 13. Not modelled

- The PTY and its child: calls of the kernel around a status that is reaped. Their order towards
  the actor is `ReadPty` and `EndPty`. Hazards there are listed without a property.
- The status bar's text, names, the activity flag, `serialize` and `deserialize` of layouts, how
  styles are packed into bits: conversions no property depends on.
- Raw mode and the panic hook: two calls of termios around the program's life.
- The server's socket file, two servers on one path, failures of `accept`.
- Signals: `send_sigwinch` and `send_sigterm` are one call of the kernel each, and no handler receives any.
- Pane spawning, exit behaviours and `HostResize` of panes: at this commit the actor's
  handlers for them do nothing.
- The emulator's mouse modes are one flag of `Flags`; `set_max_lines` has no caller.
- Threads inside the runtime, the operating system's buffers, and panics other than those of the
  clamp, the grid's indices and the colours.
- `teamucks-proto`: a placeholder without code.

Several parts have no caller in the running program yet: `SessionActor::new` makes an
`InputStateMachine` from the prefix key alone and with a fixed second, the actor forwards input
without it, and `dispatch_mouse`, `compute_borders`, `reload_config` and the server's loop are called by
tests. Their models are of the code as it is, with a caller that may do anything it could.
