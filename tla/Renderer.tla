------------------------------ MODULE Renderer ------------------------------
(***************************************************************************)
(* Renderer::frame of render.rs with the highlight cache of hlcache.rs, the *)
(* emulator that feeds it snapshots (term.rs) and a host that applies the   *)
(* events one by one.                                                       *)
(*                                                                          *)
(*   emulator -- snapshot --> Renderer -- wire --> host                     *)
(*                                                                          *)
(* The emulator itself is a library: a chunk of output may leave any screen *)
(* behind, push any lines off the primary screen, and move any side state.  *)
(***************************************************************************)
EXTENDS Cells, Diff, Functions, TLC

CONSTANTS
    Rows,          \* the rows a screen may hold: sequences of RowCells
    Sizes,         \* the grid sizes, [cols, rows]; one is the initial size
    InitSize,
    DefaultAttrs,  \* Attrs::default()
    Cursors,       \* cursor positions and shapes; one is the initial one
    InitCursor,
    Titles,        \* window titles
    Rings,         \* whether the child ever rings the bell
    Scrollback,    \* --scrollback: the lines the emulator's history holds
    Vacated,       \* what a host does with the rows a scroll vacates: "stale", "blank"
    MaxChanges,    \* bound: chunks fed and resizes
    MaxBurst,      \* bound: lines one chunk scrolls off the primary screen
    MaxOff         \* bound: lines that leave the primary screen

\* What each row looks like.
Looks == [row \in Rows |-> Picture(row)]
Width(row) == Len(Looks[row])

ASSUME RowsAssumption ==
    /\ IsFiniteSet(Rows) /\ \A row \in Rows : row \in Seq(Range(row))
    /\ InitSize \in Sizes /\ InitCursor \in Cursors
    /\ \A s \in Sizes : s.rows \in Nat \ {0} /\ \E row \in Rows : Width(row) = s.cols
    /\ Scrollback \in Nat
    /\ Vacated \in {"stale", "blank"}
    /\ MaxChanges \in Nat /\ MaxBurst \in Nat /\ MaxOff \in Nat

VARIABLES
    \* the emulator
    size,          \* [cols, rows]
    lines,         \* the screen
    cursor,
    alt,           \* the alternate screen is active
    history,       \* lines that left the primary screen, not yet drained
    committed,     \* lines drained since the last snapshot
    title,         \* <<>> or the title set since the last snapshot
    bell,
    dirty,         \* the engine owes a frame
    \* the Renderer
    prev,          \* <<>> or the previous screen, [size, lines]
    hl,            \* the highlight cache: attribute set hl[i] has id i - 1
    prevCursor,    \* <<>> or the cursor last sent
    prevAlt,
    defaultsSent,
    \* stdout
    wire,          \* events written and not yet read by the host
    \* the host
    host,          \* [size, grid, attrs, back, cursor, alt, title, colors, page]
    \* history
    changes,       \* chunks fed and resizes so far
    off,           \* every line captured as it left the primary screen, in order
    gone,          \* how many lines left it, captured or not
    plain,         \* so far no resize, alternate screen, burst beyond the history,
                   \* nor a chunk that erased lines it had scrolled off
    named          \* <<>> or the last title the child set

emulatorVars == <<size, lines, cursor, alt, history, committed, title, bell>>
rendererVars == <<prev, hl, prevCursor, prevAlt, defaultsSent>>
historyVars  == <<changes, off, gone, plain, named>>
vars == <<emulatorVars, dirty, rendererVars, wire, host, historyVars>>

RowsOf(s) == {row \in Rows : Width(row) = s.cols}
Screens(s) == [1 .. s.rows -> RowsOf(s)]
BlankRow(s) == [c \in 1 .. s.cols |-> <<Blank, 0>>]
BlankGrid(s) == [r \in 1 .. s.rows |-> BlankRow(s)]

Init ==
    /\ size = InitSize
    /\ lines \in {[r \in 1 .. InitSize.rows |-> row] : row \in RowsOf(InitSize)}
    /\ cursor = InitCursor /\ alt = FALSE
    /\ history = <<>> /\ committed = <<>> /\ title = <<>> /\ bell = FALSE
    /\ dirty = TRUE      \* the baseline frame that follows hello
    /\ prev = <<>> /\ hl = <<DefaultAttrs>>
    /\ prevCursor = <<>> /\ prevAlt = <<>> /\ defaultsSent = FALSE
    /\ wire = <<>>
    /\ host = [size |-> InitSize, grid |-> BlankGrid(InitSize), attrs |-> <<DefaultAttrs>>,
               back |-> <<>>, cursor |-> <<>>, alt |-> FALSE, title |-> <<>>,
               colors |-> FALSE, page |-> <<>>]
    /\ changes = 0 /\ off = <<>> /\ gone = 0 /\ plain = TRUE /\ named = <<>>

-----------------------------------------------------------------------------
(* The emulator.                                                           *)

\* The history keeps its last Scrollback lines.
Capped(h) == SubSeq(h, Max({1, Len(h) - Scrollback + 1}), Len(h))

\* off once the undrained history is h.
OffWith(h) == SubSeq(off, 1, Len(off) - Len(history)) \o h

\* Mutant: drained into committed and not cleared.
Cleared_not(h) == h

\* clear_history
Cleared(h) == <<>>

\* drive handles nothing before the baseline frame is out.  Bound: MaxChanges.
Running == prev # <<>> /\ changes < MaxChanges

Bursts == UNION {[1 .. n -> RowsOf(size)] : n \in 0 .. MaxBurst}

\* A chunk may erase the undrained history and scroll lines off the primary
\* screen, whichever screen it ends on.  It may erase the history after lines it
\* scrolled off itself, as a child that clears screen and scrollback does: those
\* are lost, since feed looks only at the end of the chunk.  feed drains the
\* history of the screen the chunk ended on; the alternate screen has none.
Feed ==
    /\ Running
    /\ changes' = changes + 1
    /\ lines' \in Screens(size)
    /\ cursor' \in Cursors
    /\ alt' \in BOOLEAN
    /\ \E kept \in {<<>>, history}, lost \in 0 .. MaxBurst, burst \in Bursts :
          LET h == Capped(kept \o burst)
          IN /\ lost > 0 => kept = <<>>
             /\ lost + Len(burst) <= MaxBurst
             /\ gone' = gone + lost + Len(burst) /\ gone' <= MaxOff
             /\ plain' = (plain /\ ~alt' /\ lost = 0 /\ Len(burst) <= Scrollback)
             /\ off' = OffWith(h)
             /\ IF alt' THEN history' = h /\ UNCHANGED committed
                        ELSE history' = Cleared(h) /\ committed' = committed \o h
    /\ \/ title' = title /\ named' = named
       \/ \E t \in Titles : title' = <<t>> /\ named' = <<t>>
    /\ bell' \in {bell, bell \/ Rings}
    /\ dirty' = TRUE
    /\ UNCHANGED <<size, rendererVars, wire, host>>

\* The lines above a screen of size s, at most, once screen and history have been
\* brought to it: a narrower one breaks a line into one for each column, at most,
\* and a taller one is filled up with blank lines.
MostAbove(s) ==
    LET all   == Len(history) + size.rows
        parts == IF s.cols < size.cols THEN size.cols ELSE 1
    IN Max({all * parts - s.rows, all * (parts - 1)})

\* A resize reflows the screen and the undrained history with it, moves the
\* cursor, may push lines into the history or pull them back, and drains nothing.
\* The library does nothing if the size is the one it has.
Resize ==
    /\ Running
    /\ changes' = changes + 1
    /\ size' \in Sizes
    /\ IF size' = size
         THEN UNCHANGED <<lines, cursor, history, off, gone>>
         ELSE /\ lines' \in Screens(size') /\ cursor' \in Cursors
              /\ \E n \in 0 .. MostAbove(size') :
                    /\ n <= Scrollback
                    /\ gone' = gone - Len(history) + n
                    /\ gone' \in 0 .. MaxOff
                    /\ history' \in [1 .. n -> RowsOf(size')]
              /\ off' = OffWith(history')
    /\ plain' = FALSE
    /\ dirty' = TRUE
    /\ UNCHANGED <<alt, committed, title, bell, rendererVars, wire, host, named>>

-----------------------------------------------------------------------------
(* The Renderer.                                                           *)

Event(t, v) == [t |-> t, v |-> v]
When(c, events) == IF c THEN events ELSE <<>>

\* Mutant: an attribute set is looked for in the cache as it was before the frame.
NewAttrs_twice(table, seen) == SelectSeq(seen, LAMBDA a : a \notin Range(table))

\* The attribute sets of seen that are not in the cache, each once, in the order
\* they were met.
NewAttrs(table, seen) ==
    LET first == {i \in DOMAIN seen : seen[i] \notin Range(table)
                                      /\ \A j \in 1 .. i - 1 : seen[j] # seen[i]}
        order == Sorted(first)
    IN [i \in DOMAIN order |-> seen[order[i]]]

Ids(table) == [a \in Range(table) |-> (CHOOSE i \in DOMAIN table : table[i] = a) - 1]

\* Mutant: ids start again with every frame.
NextId_reset(table) == 1

\* The next free id.
NextId(table) == Len(table)

AttrsOf(row) == [i \in DOMAIN row |-> row[i].attrs]

Encode(row, table) == Compress(Expand(row, Ids(table)))

\* Mutant: a change of width alone goes unnoticed.
Resized_rows == prev # <<>> /\ prev[1].size.rows # size.rows

Resized == prev # <<>> /\ prev[1].size # size
Full    == prev = <<>> \/ Resized

Scroll == IF Full THEN 0 ELSE DetectScrollUp(prev[1].lines, lines)

ToSend == IF Full THEN 1 .. size.rows ELSE Changed(prev[1].lines, lines, Scroll)

\* Mutant: the highlights follow the rows that use them.
Body_late(attrs, push, rows) == push \o rows \o attrs

\* Definitions, then committed lines, then the live rows.
Body(attrs, push, rows) == attrs \o push \o rows

\* Mutant: the frame is closed before its side state.
Closed_early(side) == <<Event("flush", 0)>> \o side

Closed(side) == side \o <<Event("flush", 0)>>

\* One frame, in the order PROTOCOL.md gives.
Events ==
    LET rows  == Sorted(ToSend)
        seen  == FlattenSeq([i \in DOMAIN committed |-> AttrsOf(committed[i])])
                   \o FlattenSeq([i \in DOMAIN rows |-> AttrsOf(lines[rows[i]])])
        new   == NewAttrs(hl, seen)
        table == hl \o new
        attrs == [i \in DOMAIN new |->
                    Event("hl_attr", [id |-> NextId(hl) + i - 1, attrs |-> new[i]])]
        push  == When(committed # <<>>,
                   <<Event("scrollback_push",
                           [i \in DOMAIN committed |-> Encode(committed[i], table)])>>)
        live  == When(Full, <<Event("grid_clear", 0)>>)
                   \o When(Scroll > 0, <<Event("grid_scroll", Scroll)>>)
                   \o [i \in DOMAIN rows |->
                         Event("grid_line",
                               [row |-> rows[i], cells |-> Encode(lines[rows[i]], table)])]
    IN [table |-> table,
        events |->
            When(Resized, <<Event("grid_resize", size)>>)
              \o When(~defaultsSent, <<Event("default_colors", 0)>>)
              \o Body(attrs, push, live)
              \o Closed(When(prevCursor # <<cursor>>, <<Event("cursor", cursor)>>)
                           \o When(prevAlt # <<alt>>, <<Event("mode", alt)>>)
                           \o [i \in DOMAIN title |-> Event("title", title[i])]
                           \o When(bell, <<Event("bell", 0)>>))]

\* snapshot and frame.  Bound: the host has read the frame before, which costs
\* no behaviour, for events are read in the order they are written.
Frame ==
    /\ dirty /\ wire = <<>>
    /\ wire' = Events.events
    /\ hl' = Events.table
    /\ prev' = <<[size |-> size, lines |-> lines]>>
    /\ prevCursor' = <<cursor>>
    /\ prevAlt' = <<alt>>
    /\ defaultsSent' = TRUE
    /\ committed' = <<>> /\ title' = <<>> /\ bell' = FALSE
    /\ dirty' = FALSE
    /\ UNCHANGED <<size, lines, cursor, alt, history, host, historyVars>>

-----------------------------------------------------------------------------
(* The host, as PROTOCOL.md and the hosts of the tests and examples have it. *)

\* grid_line: the cells from column 0 on; columns beyond the grid are ignored.
Draw(old, cells) ==
    LET new == Place(cells)
    IN [c \in DOMAIN old |-> IF c <= Len(new) THEN new[c] ELSE old[c]]

Scrolled(k) ==
    IF Vacated = "stale" THEN ScrollUp(host.grid, k)
                         ELSE ScrollUpBlank(host.grid, k, BlankRow(host.size))

Known(id) == id + 1 \in DOMAIN host.attrs

\* The host's columns with their ids looked up.
Resolved(columns) ==
    [c \in DOMAIN columns |->
        <<columns[c][1], IF Known(columns[c][2]) THEN host.attrs[columns[c][2] + 1]
                                                 ELSE "undefined">>]

Page(s, grid, c, a, t) == [size |-> s, grid |-> grid, cursor |-> c, alt |-> a, title |-> t]

\* flush: what the host has on its screen once it has repainted.
Repainted ==
    Page(host.size, [r \in DOMAIN host.grid |-> Resolved(host.grid[r])], host.cursor, host.alt,
         host.title)

Apply(e) ==
    CASE e.t = "grid_resize" -> [host EXCEPT !.size = e.v, !.grid = BlankGrid(e.v)]
      [] e.t = "default_colors" -> [host EXCEPT !.colors = TRUE]
      [] e.t = "hl_attr" -> [host EXCEPT !.attrs = [i \in 1 .. Max({Len(@), e.v.id + 1}) |->
                                                      IF i = e.v.id + 1 THEN e.v.attrs
                                                                        ELSE @[i]]]
      [] e.t = "scrollback_push" ->
            [host EXCEPT !.back = @ \o [i \in DOMAIN e.v |-> Place(e.v[i])]]
      [] e.t = "grid_clear" -> [host EXCEPT !.grid = BlankGrid(host.size)]
      [] e.t = "grid_scroll" -> [host EXCEPT !.grid = Scrolled(e.v)]
      [] e.t = "grid_line" -> [host EXCEPT !.grid[e.v.row] = Draw(@, e.v.cells)]
      [] e.t = "cursor" -> [host EXCEPT !.cursor = <<e.v>>]
      [] e.t = "mode" -> [host EXCEPT !.alt = e.v]
      [] e.t = "title" -> [host EXCEPT !.title = <<e.v>>]
      [] e.t = "flush" -> [host EXCEPT !.page = <<Repainted>>]
      [] OTHER -> host

Host ==
    /\ wire # <<>>
    /\ host' = Apply(Head(wire))
    /\ wire' = Tail(wire)
    /\ UNCHANGED <<emulatorVars, dirty, rendererVars, historyVars>>

Next == Feed \/ Resize \/ Frame \/ Host

Spec == Init /\ [][Next]_vars

-----------------------------------------------------------------------------
(* Properties.                                                             *)

AttrSets == (UNION {Range(AttrsOf(row)) : row \in Rows}) \cup {DefaultAttrs}

\* Types and bounds; the highlight cache never outgrows the attribute sets there
\* are, and what the emulator holds fits the screen it is for.
TypeOK ==
    /\ size \in Sizes /\ lines \in Screens(size)
    /\ cursor \in Cursors /\ alt \in BOOLEAN /\ bell \in BOOLEAN /\ dirty \in BOOLEAN
    /\ history \in Seq(Rows) /\ Len(history) <= Scrollback
    /\ committed \in Seq(Rows) /\ off \in Seq(Rows) /\ Len(off) <= MaxOff
    /\ title \in Seq(Titles) /\ named \in Seq(Titles)
    /\ hl \in Seq(AttrSets) /\ Len(hl) <= Cardinality(AttrSets)
    /\ Len(prev) <= 1 /\ Len(prevCursor) <= 1 /\ Len(prevAlt) <= 1
    /\ changes \in 0 .. MaxChanges /\ gone \in 0 .. MaxOff /\ plain \in BOOLEAN

Quiet == ~dirty /\ wire = <<>>

\* With no frame owed and none in flight the host shows the emulator's screen
\* cell by cell, and its cursor, screen mode and title, although it only ever
\* got differences (render.rs:183-299).
HostMirrors ==
    Quiet =>
        /\ host.size = size
        /\ Len(host.grid) = size.rows
        /\ \A r \in 1 .. size.rows : Resolved(host.grid[r]) = Looks[lines[r]]
        /\ host.cursor = <<cursor>> /\ host.alt = alt /\ host.title = named
        /\ host.colors

\* The host never holds a cell, live or committed, whose highlight it has not
\* been told, not even in the middle of a frame (render.rs:199-250).
IdsDefined ==
    /\ \A r \in DOMAIN host.grid : \A c \in DOMAIN host.grid[r] : Known(host.grid[r][c][2])
    /\ \A l \in DOMAIN host.back : \A c \in DOMAIN host.back[l] : Known(host.back[l][c][2])

\* "The same attribute set is never re-sent" (PROTOCOL.md, hl_attr): whatever
\* the frames, two ids never stand for the same set (hlcache.rs:29-41).
SentOnce == \A i, j \in DOMAIN host.attrs : host.attrs[i] = host.attrs[j] => i = j

\* "A defined id is valid for the lifetime of the connection": no later frame
\* gives it another meaning (hlcache.rs:29-41).
IdsStable == [][\A i \in DOMAIN host.attrs : host'.attrs[i] = host.attrs[i]]_vars

\* The host's scrollback is the transcript of the primary screen: every line
\* captured as it scrolled off, once and in order, across resizes and the
\* alternate screen; lines wait only for the primary screen to be fed again
\* (term.rs:120-138, render.rs:209-213).
Transcript ==
    LET pictures == [i \in DOMAIN off |-> Looks[off[i]]]
        back     == [i \in DOMAIN host.back |-> Resolved(host.back[i])]
    IN /\ IsPrefix(back, pictures)
       /\ Quiet => Len(back) = Len(off) - Len(history)

\* "Draining per chunk keeps the committed count exact" (term.rs:117): as long as
\* the child keeps to the primary screen at one size, and no chunk scrolls off
\* more than the history holds or erases what it has scrolled off itself, the host
\* gets every line that ever scrolled off.
CountExact == plain /\ Quiet => Len(host.back) = gone

GridLines(events) == {i \in DOMAIN events : events[i].t = "grid_line"}

\* A grid_scroll always pays: the frame sends fewer rows than one without it
\* would, and at most half of the screen (render.rs:122-155).
ScrollPays ==
    [][(\E i \in DOMAIN wire' : wire'[i].t = "grid_scroll") =>
          /\ Cardinality(GridLines(wire')) < Cardinality(Changed(prev[1].lines, lines, 0))
          /\ 2 * Cardinality(GridLines(wire')) <= size.rows]_prev

-----------------------------------------------------------------------------
(* A host that repaints at flush mirrors the child's screen.                *)

\* The title of the frame on its way, or of the last one.
TitleSent ==
    LET titles == {i \in DOMAIN wire : wire[i].t = "title"}
    IN IF titles = {} THEN host.title ELSE <<wire[Max(titles)].v>>

Pictures(screen) == [r \in DOMAIN screen |-> Looks[screen[r]]]

\* The screen the child has now, and <<>> or the one a frame was last made of.
Real  == Page(size, Pictures(lines), <<cursor>>, alt, named)
Taken == IF prev = <<>> THEN <<>>
         ELSE <<Page(prev[1].size, Pictures(prev[1].lines), prevCursor, prevAlt[1], TitleSent)>>

HostMirror == INSTANCE Mirror WITH real <- Real, taken <- Taken, page <- host.page

\* "Marks everything since the previous flush as one frame to apply atomically"
\* (PROTOCOL.md, flush): although a frame is differences only, sent while the
\* child writes on, every page is one whole screen the emulator had, in order
\* (render.rs:183-299, term.rs:154-194).
AtomicPages == HostMirror!Spec

=============================================================================
