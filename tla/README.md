# Verification of ptybridge

TLA+ models of ptybridge (a headless terminal that runs a child on a PTY and
streams its screen to a host as JSONL or MessagePack), the TLC configurations
that check them and TLAPS proofs about them. Everything is translated from the
Rust source under `src/src`; PROTOCOL.md, the tests and the example hosts are
used only to state what is expected of it. Line numbers in comments are those of
the files named.

## The system

| Component | Source | State it keeps | Operations | Correct when |
| --- | --- | --- | --- | --- |
| Session engine | `engine.rs` session_loop, drive, handle | emulator, renderer, PTY handle, `dirty`, the receiving end of the channel | handshake, receive, coalesce for one frame interval, feed, type, resize, signal, answer, frame, stop, kill, wait, child_exit | output complete and in order, no frame forgotten, child reaped on every path, the session ends when it should |
| Output forwarder | `engine.rs` spawn_output_forwarder | one chunk in hand | forward, announce the end | the end overtakes nothing |
| PTY | `pty.rs` | child, master, writer, reader thread, channel of 64 chunks | spawn, write, resize, signal, kill, wait | backpressure, no orphan |
| Control reader | `engine.rs` spawn_control_reader and below | the line or value being read | read, cap, resynchronize, decode, send, announce the end | every message answered once, in step after an error, bounded memory |
| Controls | `transport/codec.rs`, `protocol.rs`, `control.rs` | none | classify, deserialize, decode an input, name a signal | the error table of PROTOCOL.md section 9 |
| Renderer | `render.rs` | previous screen, cursor, mode, highlight cache | frame | the host's screen equals the emulator's; a page the host repaints is one whole screen |
| Highlight cache | `hlcache.rs` | attribute set -> id | intern | ids stable, defined before use, sent once |
| Wire cells, attributes | `term.rs`, `protocol.rs`, `render.rs`, `palette.rs` | none | row_to_cells, cell_attrs, resolve, expand, compress, serialize, deserialize | the host lays out the same columns in the same colours |
| Emulator adapter | `term.rs` | the library's terminal, committed lines, title, bell, answers | feed, resize, take_pty_writes, snapshot | each committed line exactly once |
| CLI, stdio, main | `cli.rs`, `main.rs`, `lib.rs`, `transport.rs`, `transport/stdio.rs` | none | arguments, handing over stdin and stdout | - |
| Example hosts | `examples/*.ts` | a grid | apply events | - |

Four threads run: the engine (main), the PTY reader, the output forwarder and
the control reader. They share two bounded channels only (64 chunks each):
PTY reader -> forwarder, and forwarder + control reader -> engine. Sends block.
The engine also blocks in writes to the PTY, in writes to stdout (a pipe the host
may stop reading), and in wait.
Nothing persists, so there is no crash recovery; a "crash" here is the child or
the host going away, or an I/O error half way through `drive`.

What is hard: the end of the output racing the output; one channel for two
sources; a loop that may sleep only when host and emulator agree; errors that
leave `drive` in the middle; the engine blocked in a PTY write while everything
behind it fills up; a host that stops reading while the child goes on writing; a
diff against a screen the host has only in part; ids that must be known before
use; history lines that sit in a grid which is not the active one, or that one
chunk pushes out before they are drained; a wide character at the edge of a row;
a length cap that bites in the middle of a chunk; a control that two places
validate, each in part. PROJECT.json lists
each one with its line and the properties aimed at it.

## Modules

| Module | What it is |
| --- | --- |
| `Session` | the four threads, the channels, the tty, both pipes of stdio, the child and the host |
| `SessionPromise` | what a session promises about the output; `Session` implements it |
| `SessionInvariant` | the inductive invariant of the output path |
| `SessionControl` | the properties of the control path, and their inductive invariant |
| `SessionProofs`, `SessionControlProofs` | the theorems about `Session` |
| `Cells`, `CellsProofs` | rows, columns and wire cells, as operators, and theorems about them |
| `Diff` | scroll detection and the baseline diff |
| `Renderer` | emulator, renderer and a host that applies events one by one (uses `Cells` and `Diff`) |
| `RendererInvariant` | the inductive invariant of renderer, wire and host |
| `FrameProofs` | theorems about the diff, and lemmas about one frame: which events, in which order, with which highlights and rows |
| `RendererProofs` | the theorems about `Renderer`, with `Mirror` |
| `Mirror` | what a host that repaints at flush may rely on; `Renderer` implements it |
| `NumberProofs` | induction over the numbers, for the proofs about streams and rows |
| `Palette`, `Term` | colours; a row and a cell of the emulator's grid on their way to `Cells` |
| `Protocol` | event names, attributes on the wire, which fields make a control |
| `Codec` | classification of a message, and the checks the engine makes of a control (extends `Protocol`) |
| `ControlReader` | the control reader at the level of bytes (uses `Codec`) |
| `ReaderInvariant`, `ReaderProofs` | its inductive invariant, and the theorems about it |
| `Wire`, `WireProofs` | what `Term`, `Palette`, `Cells`, `Protocol` and `Codec` must do for every input, and the proofs that they do |
| `MC*` | the values TLC uses; `MCSession` also states two properties of whole sessions |

### Session

One action per step at which another thread can get in between: a channel
operation, a blocking write, the end of the coalescing window. `pc` is where the
engine is (`spawn`, `greet`, `recv`, `drain`, `input`, `reply`, `answer`,
`frame`, `kill`, `wait`, `exit`, `done`). A handler's work is one action:
`HandleResize` resizes the PTY and the emulator and sets `dirty`; `HandleInput`
leaves the engine inside `pty.write`, and `HandleReply` inside the write to
stdout, for those may block. `Fail` is the `?` operator of drive: everything it
still had to do is skipped and session_loop goes on with kill. The window's
deadline is a nondeterministic choice (`WindowClose`), which covers every
`--max-fps`. A chunk is a number, so that losing, repeating or reordering one
shows; a chunk may hold a terminal query (`Queries`). `typed` is everything
written to the PTY master; the kernel has room for `TtyIn` writes the child has
not read.

stdout is a pipe. `Tell` appends one message (hello with the baseline frame, an
answer, a frame, child_exit) and needs room for it (`CanTell`, `PipeRoom`
messages); without room the engine stays where it is, whatever else there is to
do. A message is represented by all the host holds once it has read it (`Told`),
and `view` is what the host does hold: so a state of the host is always one the
bridge did tell, possibly an old one. A frame and its flush are one message here;
`Renderer` has the events one by one. A write that is blocked when the host goes
fails (`WireFails`).

External, modelled by what the bridge may meet: the child (writes, reads, exits,
or closes its tty and lives on; a process it leaves behind may hold the tty
longer than the child lives, and then writes in its place), the kernel's tty
buffers, and the host (sends any of its control messages at any time, closes
stdin, reads stdout or stops doing so for good, or dies). `ClosedTty` says what
a write to a tty nobody holds any more does. It differs between the platforms
the project is built for: on macOS and the BSDs it fails; on Linux it goes on
filling the kernel's buffer and then blocks for good.

Abstracted: column and row bounds are one dimension; the frame interval; the
grace period inside kill; the size of a message in the pipe. Since `WindowClose`
is always possible, a window that output keeps open for ever does not show. In
cooked mode a Linux tty drops input beyond its limit instead of blocking; the
model is of a tty that blocks, as in raw mode.

### Renderer, Mirror, Diff

The emulator is a library: a chunk (`Feed`) leaves any screen of the given rows
behind, may scroll up to `MaxBurst` lines off the primary screen, erase the
history that is not yet drained, with the lines (`lost`) this same chunk has
scrolled off so far, switch screens, set a title, ring the bell. The history keeps
its last `Scrollback` lines, so a burst longer than that loses some. A resize
(`Resize`) leaves any screen of the new size, moves the cursor, and pulls waiting
lines back or pushes some out, no more than a reflow can leave above the screen
(`MostAbove`); to the size there is it changes nothing in the grid. With the
`Scrollback` of one that TLC uses that is one line at most, the proofs are for any.
What term.rs adds is exact: which grid is drained and when, what `resize` leaves
undrained, what a snapshot takes. `Frame` is snapshot and
`Renderer::frame` together and writes the events in the code's order to `wire`;
`Host` applies them one at a time as the hosts of render.rs's tests do, with
colours and ids looked up, and repaints at flush (`page`). A text is an opaque
grapheme, an attribute set an opaque value, a wide character one cell of width 2.

`Mirror` is the promise behind flush: every page is one whole screen the child's
terminal had, none older than the one before. The refinement maps `real` to the
emulator's screen, `taken` to the Renderer's baseline with the side state last
sent, and `page` to what the host repainted; a host step in the middle of a frame
is a stutter. `off`, `gone` and `plain` are history variables: what was captured,
how many lines ever scrolled off, and whether nothing happened that may lose one:
no resize, no alternate screen, no burst beyond the history, no chunk that erases
what it has scrolled off itself.

### Term, Palette, Cells, Protocol, Wire

Operators only, but for `Wire`, whose states are their inputs: a row of the grid
that grows piece by piece, a cell, a palette index or a message. `Term!RowToCells` starts from the library's grid: one cell per
column, a wide character flagged and followed by its spacer, a leading spacer
where one wrapped. That characters and spacers are paired is the library's
doing and taken for granted; `Wire!Pieces` builds rows that way, and the proofs take
nothing else of them. `Wire` carries a row to the host and back (`RowToCells`, `Expand`, `Compress`,
`Serialize`, `Deserialize`, `Place`), an attribute set through hl_attr, holds each
palette index against a description of xterm's palette written down apart from
the code, and each answer against the error table of PROTOCOL.md, with the event
types of its section 3 (`Events`) and not the code's list of them; the one event the
code's list lacks is a named exception (`Overlooked`, and see `Reader_direction`). A message is a function from field names to JSON values; Base64 is a
library's and opaque (a set of texts that are none).

### ControlReader, Codec

Bytes are tagged with the item (line or value) they belong to, their place in it
and whether they end it. `Fill` cuts the stream into chunks of any length up to the buffer's, so
every position of the cap and of the newline within a chunk occurs. The engine
always receives until it stops (`EngineStops`), after which a send fails;
blocking on a full channel is in `Session`. How MessagePack's end-of-stream
error falls (data missing, or a nested marker) is a choice of `ValueEof`. A read
of stdin may fail at any time (`ReadFails`): JSONL drops what it has of a line
without a word, MessagePack reports an error. `Codec!Classify` decides an
item's answer from its fields; `Codec!Reply` adds what only the engine finds out
(an encoding, Base64, a signal's name), and `Outcome` is the two together. Bytes
that are no value of the format cost a JSONL host that line, and end a
MessagePack stream (`Unparsable`); so does a value no serde_json::Value can hold,
a `bin` for one.

## Runs

PROJECT.json names each run's properties and, for each, a plausible bug (an
operator with the suffix of the bug, next to the definition it mutates) that
breaks it.

| Run | Bounds | Shows |
| --- | --- | --- |
| `Session_output` | six chunks, buffers for five on the way, one resize, signal or shutdown, one message in stdout's pipe | output complete when the session ends because it ended, fed once and in order, host and emulator in sync when the engine sleeps, backpressure, child reaped on every path; `SessionPromise` is implemented |
| `Session_control` | two messages out of input, ping and garbage over MessagePack, two chunks with a query each, a channel of two | order of controls and replies; nothing is lost at the end of stdin; queries answered once and in order; the inductive invariants of output and control |
| `Session_live` | every buffer holds one; one input or ping, two chunks, one query | the session ends once nothing holds the tty, even from inside a blocked write; otherwise progress, unless such a write blocks for ever or the host stops reading |
| `Wire_values` | every row of up to five columns, or six where it ends in a wide character, over plain, coloured, accented and wide characters and both spacers; 6400 combinations of flags and colours; 256 colours; some 1200 messages | rows round-trip in the fewest cells; attributes and colours survive hl_attr; the palette is xterm's; the protocol's error table, with one named exception |
| `Renderer_frames` | sizes 2x1, 1x1, 1x2, styled and wide cells, three chunks or resizes, two lines scrolled off in a chunk against a history of one, and a history that is erased before or within the chunk | the mirror, the highlight table, the transcript and its count; the inductive invariant; `Mirror` is implemented |
| `Renderer_scroll` | four plain rows, two chunks | a shift of 1, 2 or 3 can win or tie, and is right |
| `Reader_stream` | three items below, at and above a cap of 2, and one that is no value, chunks of up to 3 bytes, both formats | in step, stops at a fatal value, ends; what passes for a control is all the bytes of one control; the inductive invariant |

The bounds are small but each is past the point where the case occurs: channels
fill and empty, the output is longer than all the buffers, the pipe to the host
is full after one message, a burst is longer than the history, the cap is
smaller than a chunk and a chunk smaller than a line, and with four rows a
shift, a tie between shifts and a stale vacated row all occur (with two rows the
baseline cannot matter). Session's runs share the kinds of control among them,
so that each state space stays small; `Session_output` has those that change the
emulator, the child or the end, `Session_control` those that are answered or
typed. The theorems hold for all capacities, bounds and kinds.
State spaces are between 22 thousand and 2.4 million states.

### Known differences

Five runs show a disagreement between the code and what is said of it, quoted in
PROJECT.json "findings":

| Run | Disagreement |
| --- | --- |
| `Session_stall` | tty full both ways: the engine is in `pty.write`, never receives, and never learns of the end of stdin |
| `Session_lastframe` | a query that cannot be answered (the tty is closed, macOS or BSD) drops the last frame |
| `Renderer_blank` | the example hosts blank the rows a scroll vacates, the diff counts on them staying |
| `Reader_direction` | scrollback_push sent by the host is ignored and not answered with a direction error: EVENT_TYPES lacks it |
| `Reader_overlong` | a line over the cap is accepted if its newline is in the chunk that crosses the cap |

Others the models were built with in mind, and that show when stated:

* On Linux a write to a PTY master that is blocked stays blocked when the slave
  side closes; with `ClosedTty = "accepts"`, `Session_live` violates
  `ChildExitEnds`: the engine outlives the child for ever.
* A process the child leaves behind on the tty keeps the session going after
  the child's exit (`ChildExit` with `closed` unchanged), where
  PROTOCOL.md:303-305 has child_exit follow the exit.
* The child is spawned before hello is sent and before any resize is read
  (`Spawn`, `Greet`), where PROTOCOL.md:294-296 has it the other way round.
* A host that stops reading stops the engine inside `Tell`; neither the end of
  its stdin nor a shutdown is then looked at. `EofEndsUnlessBlocked` needs
  `HostReads` for that reason.
* A push can precede the mode event that ends the alternate screen, in the same
  frame (render.rs:253), where PROTOCOL.md:178-179 says that none is sent while
  the alternate screen is active. `AtomicPages` is not concerned: the two are in
  one frame.
* Lines are lost without any one chunk scrolling off more than the history
  holds: what waits there on the alternate screen, or after a resize, counts too
  (term.rs:120-138; PROTOCOL.md:182-185 and cli.rs speak of one burst). That is
  why `CountExact` asks for `plain`.
* A chunk that scrolls lines off and then erases the history, as `clear` does
  (ESC[2J ESC[3J) and a reset, loses them before term.rs:123 looks, where
  term.rs:117 has draining per chunk keep "the committed count exact". The models
  have it (`lost`), and `plain` leaves it out of `CountExact`.
* A resize reflows the lines that wait in the history (`Resize`), where
  PROTOCOL.md calls the pushed lines a frozen transcript.
* A resize to the size there is gives no grid_resize, only a frame without a
  difference (`Resized`, `Full`).
* A MessagePack value cut just before a nested value's marker ends the stream
  without an error (`ValueEof`), where codec.rs:51 speaks of a value boundary.
* A wide character whose spacer the library has overwritten would make the row a
  column short; `Term` takes the library's rows as paired.

Deadlock is checked in `Session_output`, `Session_control`, `Session_lastframe`
and the runs of `ControlReader`. It is not in `Session_live` and
`Session_stall`, where a tty that is full both ways stops everything, as it does
in the program. `Renderer` and `Wire` stop when their bounds are used up.

## Fairness

`Session!FairSpec`: weak fairness of each thread as a whole (the operating system
schedules it, and each has at most one thing to do at a time), of a write the
kernel has room for, and of a child that is not writing reading its input. The
host is not assumed to do anything: it need not send, and it may stop reading
with its pipe open. Where a property needs a reading host it says so
(`HostReads` is its antecedent, and not a fairness condition). No fairness makes
the child write or exit. `ControlReader!FairSpec`: weak fairness of the reader
thread; a read that fails (`ReadFails`) is never forced.

## Proofs

All for every value of the constants that the named assumptions admit
(`CapacityAssumption`, `SizeAssumption`, `HostAssumption`, `BoundAssumption`,
`ReaderAssumption`: capacities are positive, sizes and bounds natural numbers,
messages and items of known kinds; `RowsAssumption`: finitely many rows, each a
finite sequence of cells, and for every size, of one row at least, a row of its
width; `WireAssumption`: the flags that tell narrow cells, wide ones and spacers
apart, the colours vte has, and that a field of a message is a JSON value, an integer
where it says so).

Recursive functions (`Compress`, `Place`, the folds behind `FlattenSeq`) are
reasoned about through least elements: `NumberProofs!Least` gives the least number
of a set that is not empty, and `AllNumbers` and `NumbersUpTo`, which speak of a set
and its members and so need no operator as a parameter, are induction.

### The output path (`SessionProofs`)

* `TypeCorrect`: `Spec => []TypeOK`, inductive as it is, one step per action.
* `PipelineCorrect`: `Spec => []PipelineInv`. ExitComplete alone is not
  inductive: that a stop for `output_end` means "all fed" rests on the end being
  behind every chunk in every buffer, and on where each chunk is. The invariant
  says that the kernel, the reader's hand and its channel hold consecutive
  numbers (`Upstream`), that the engine's channel holds exactly the chunks that
  are passed on and not yet fed, in order (`InFlight`), that the end is announced
  last at each of the three stages (`EndOvertakesNothing`), that `dirty` is set
  whenever emulator and host differ (`FramesKept`), that what waits in stdout's
  pipe is ever newer, from what the host holds up to what it was told
  (`Delivery`), and how the child's state follows the engine's (`Lifetime`).
* From the two: `ExitIsComplete`, `SleepsInSync`, `ReapsChild`, `FeedsInOrder`
  (an action property: every step that feeds a chunk feeds the one after the last,
  and no other step feeds any) and `ImplementsPromise` (initial states and every
  step).
  The promise is about the host's own view: made = written, seen = what `view`
  shows, and a verdict that stays open until the host has read child_exit. So it
  says that the host that reads that the output is complete has it all.
* `HoldsBack`: Backpressure. What was read and is not yet fed is in a hand or a
  buffer. For the engine's channel, which also carries controls, that is the
  pigeonhole principle: by `InFlight` every such chunk has a position of its own
  there (`RoomInChannel`), so there are no more of them than positions.

### The control path (`SessionControlProofs`)

* `ControlCorrect`: `Spec => []ControlInv`. None of the three properties is
  inductive: they speak of what came out, and what may still come out is in the
  reader's hand, the channel and the engine's. The invariant ties these together by
  one number h, how far the engine has taken the host's messages (`Flow`): what
  was sent after h and is forwarded is in the channel, decoded, in order, and
  nothing else is (`Coming`); the engine is busy with h or with none (`Busy`);
  what it has answered and typed is exactly what the messages before are owed
  (`DoneUpTo`). Besides, the reader passes nothing on after a fatal value
  (`Stream`), the end of stdin is behind every control (`EndComesLast`), each
  message in stdout's pipe answers some first part of what the host sent
  (`Replied`), and the queries up to some g are answered and those after it wait in
  the window (`Asked`). Losing messages is allowed in one case, an engine that has
  failed (`outcome = "err"`), which is why `Coming` and `Asked` ask for "ok" where
  they say that nothing is missing.
* From it: `AppliesInOrder` (ControlsInOrder), `EofLeavesNothing`
  (EofLosesNothing), `AnswersQueries` (QueriesAnswered).

### The control reader (`ReaderProofs`)

* `ReaderCorrect`: `Spec => []ReaderInv`, from which `StaysInStep` (InStep),
  `StopsAtFatalValue` (StopsAtFatal) and `StaysInBounds` (TypeOK) follow. InStep
  is about answers; what makes it inductive is about bytes: in what the reader
  has buffered, the chunk it is given and the kernel's pipe, in this order
  (`Unread`), the bytes of an item are together, end where it ends and are as many
  as its size (`Ordered`, `EndsWhole`, `Sized`); the reader that reads is at the
  first byte of an item (`AtStart`), which is what a wrong resynchronization would
  break; no answer is ahead of those bytes (`Behind`); the line that is being
  skipped has had its answer (`Skipped`); and a MessagePack stream that goes on
  has had no value that stops it (`GoodSoFar`). This is `StreamInv`; `InPlace` adds
  that every byte is at its place in its item, one after the other from the first
  on (`Placed`), also after a cut, a skip or a cap.
* `NothingForged`: `Spec => NothingInvented`, an action property about the bytes
  that are decoded, not the item an answer is counted for. At the moment a control
  is sent to the engine, what the reader holds is all of one item's bytes, from the
  first to the last (`Holds`), and that item parses and is a control: so no rest of
  a line that was too long, no line that a dying host tore (unless it lacks its
  newline only), no bytes of two items taken together. It follows from `ReaderInv`:
  the reader began at a first byte (`FromTheStart`) and what it holds is the head
  of one item (`WholeItem`, or `CutAtEof` at the end of stdin).
* StopsAtFatal says that before any answer of a MessagePack stream every value fits
  the cap and parses, and that only a parse error may answer one that does not.

### The diff (`FrameProofs`)

* `AnyShiftIsCorrect`: the comment of detect_scroll_up, "any `k` is
  correct", for screens of any height: scrolling by any shift and sending the
  rows that differ from the baseline yields the new screen.
* `CommittedShiftPays`: a shift that detect_scroll_up commits sends fewer rows
  than none would, and at most half of the screen; this is the content of
  `Renderer!ScrollPays`.

### The cells (`CellsProofs`)

* `PlaceUndoesCompress`: what the host lays out by counting cells is what compress
  was given, column by column, for rows of every length. `Compress` is described
  by the starts and ends of its runs (`CompressIs`): they tile the row, a cell
  inherits only when the one before it has its id, and repeats only what is equal;
  from that, the highlight a cell ends up with is its own (`HlOf`), and the
  concatenation of the runs is the row.
* `DeserializeUndoesSerialize`: every cell that `Compress` makes comes off the wire
  as it was put there.
* `NoneShorter`: whatever cells a host lays out as some columns, compress makes no
  more of them. A cell paints equal columns and so starts one run at most
  (`UniformStarts`), the row has no more runs than cells (`UniformParts`), and
  compress makes one cell per run (`CompressLength`).

### The wire (`WireProofs`)

What TLC checks for rows of a few columns and the values of `MCWire` holds for rows
of every length, and cells, colours and messages of every kind.

* `GridSurvives` (RoundTrip). The invariant is `Rows`: wide characters and spacers
  are paired, whatever the library puts into a row. From it, the columns that the
  bridge makes of the characters it keeps are those the grid shows (`ExpandIs`): the
  characters that are kept cut the row into tiles of one or two columns
  (`TileWidth`), and a concatenation is determined by such a cut. The rest is
  `PlaceUndoesCompress` and `DeserializeUndoesSerialize`.
* `NothingTwice` (Shortest): no cell repeats the column before it or names a
  highlight it inherits.
* `AttributesSurvive` (LooksSurvive): reading undoes writing for any colours and
  flags, although false is not written (`ReadUndoesWrite`), and only the colours
  that are the host's own become the default (`DefaultOnly`).
* `PaletteHolds` (PaletteIsXterm): cube and ramp by their coordinates
  (`Coordinates`, `IndexedIsXterm`); that no two indices from 16 on are alike rests
  on a packed colour having one set of channels (`IndexedOnce`).
* `AnsweredAsPrescribed` (ErrorTable): one lemma per control, each that what the
  reader checks and what the engine checks are together what the protocol asks
  (`Settled`), for messages with any fields of any JSON values. The event types are
  the protocol's; for the one the code overlooks the theorem says what it does
  instead: it ignores the message where the protocol asks for an error.

### The renderer and its host (`FrameProofs`, `RendererProofs`)

* `RendererCorrect`: `Spec => []RendererInv`. HostMirrors speaks of the moments in
  which nothing is on the way, and neither it nor any other property is inductive:
  the host gets its events one by one while the child writes on. So the invariant
  speaks of the screen of the last frame (`Framed`) and of what the host will show
  once it has read the rest of that frame. The rest is in rank order and ends with
  the flush (`OneFrame`); each row is still to come, or is where it will be after the
  scroll if one is still to come, and a resize or a clear is followed by every
  row (`GridFollows`); the host knows a first part of the highlight table and is
  about to be told the rest, each once (`HighlightsTold`); the scrollback and what
  is being pushed add up to what was captured and not handed to the next frame
  (`Captured`, `BackFills`); cursor, mode and title are sent or coming
  (`SideFollows`, `TitleOwed`); and a frame is owed unless the last one was made of
  this very screen (`FrameOwed`). The steps: `FeedInv` and `ResizeInv` change the
  emulator only; `FrameInv` starts from an empty wire and rests on `FrameProofs`,
  whose blocks of events are shown to be ordered and joined (`BlocksJoin`), on
  `AnyShiftIsCorrect` for the rows and on `PlaceUndoesCompress` for their cells;
  `HostInv` goes by the first event on the wire.
* From it: `HighlightsDefined` (IdsDefined), `HighlightsSentOnce` (SentOnce),
  `HighlightsStable` (IdsStable), `ScrollbackIsTranscript` (Transcript),
  `CountIsExact` (CountExact: `gone` counts what is erased or forgotten too, so the
  content is that a plain session loses nothing), `RendererTypes` (TypeOK), `ScrollIsWorthIt`
  (ScrollPays, with `CommittedShiftPays`).
* `HostMirrorsScreen` (HostMirrors) and `PagesAreAtomic` (AtomicPages, initial states
  and every step of the refinement) assume `Vacated = "stale"`: a host that blanks
  the rows a scroll vacates does not show the screen, which is what `Renderer_blank`
  finds. The other theorems hold for both kinds of host.

### Only model-checked

Liveness is out of the prover's reach (ChildExitEnds, EofEndsUnlessBlocked,
OutputShownUnlessBlocked, AnsweredUnlessBlocked, EofEnds). Every other property of
a passing run is also a theorem. The other way round, `NoneShorter`,
`AnyShiftIsCorrect`, `DeserializeUndoesSerialize` and `HighlightsSentOnce` are
theorems that no run lists; TLC checks the last as a part of `RendererInv`
(`HighlightsTold`).

## Not modelled

The escape sequences (the emulator library), JSON and MessagePack framing and
the flattening of an event's fields into one object, Base64's decoding, the
mapping of the cursor's shape to its name, CLI and logging: conversions without
state, whose tests compare bytes. An adapter of another emulator would have to
meet `Feed` and `Resize` of `Renderer`. Child states not modelled: stopped by a
signal. The Drop of `Pty` runs after kill and wait and finds nothing left to do;
when a later step of Pty::spawn fails after the child was started there is no
`Pty` yet and nobody reaps the child; the model has the outcome, `ChildReaped`
excuses it. The example hosts are in the model only as what they do with
the rows a scroll vacates (`Vacated`). A synchronized update that the child
opens and does not close is held back by the library's parser, whose timeout
nobody in term.rs watches; in the models a chunk that was fed is on the screen.
The time a window lasts is not modelled,
so that output which never pauses keeping a window open up to its deadline, and
no longer, is not checked.

## Plan

1. Done: `Session` with its promise, stdout's pipe included, `ControlReader`,
   `Renderer`, and the operator modules under `Wire`, with the proofs of all their
   safety properties and refinements.
2. Left: the liveness properties, which stay with TLC; the time a window lasts;
   a synchronized update that holds the parser back; a Pty::spawn that fails after
   the child was started.
