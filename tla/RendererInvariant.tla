------------------------- MODULE RendererInvariant -------------------------
(***************************************************************************)
(* The inductive invariant of Renderer: what the host will show once it has *)
(* read what is on the wire, and what the wire may hold for that to be so.  *)
(* It is what render.rs, hlcache.rs and term.rs keep up between frames.     *)
(***************************************************************************)
EXTENDS Renderer

IsSequence(s) == Len(s) \in Nat /\ s = [i \in 1 .. Len(s) |-> s[i]]

\* The order of the events in a frame.
Rank == [grid_resize     |-> 1, default_colors |-> 2,  hl_attr     |-> 3,
         scrollback_push |-> 4, grid_clear     |-> 5,  grid_scroll |-> 6,
         grid_line       |-> 7, cursor         |-> 8,  mode        |-> 9,
         title           |-> 10, bell          |-> 11, flush       |-> 12]

\* Highlights go by their ids, lines by their rows.
Within(e) ==
    IF e.t = "hl_attr" THEN e.v.id ELSE IF e.t = "grid_line" THEN e.v.row ELSE 0

Before(e, f) ==
    \/ Rank[e.t] < Rank[f.t]
    \/ e.t = f.t /\ Within(e) < Within(f)

InRankOrder(events) ==
    \A i, j \in DOMAIN events : i < j => Before(events[i], events[j])

\* The rest of one frame, in order, the flush at its end.
OneFrame ==
    /\ IsSequence(wire)
    /\ \A i \in DOMAIN wire : wire[i].t \in DOMAIN Rank
    /\ InRankOrder(wire)
    /\ wire # <<>> => wire[Len(wire)].t = "flush"

Waits(t)     == \E i \in DOMAIN wire : wire[i].t = t
LineWaits(r) == \E i \in DOMAIN wire : wire[i].t = "grid_line" /\ wire[i].v.row = r

-----------------------------------------------------------------------------
(* The emulator and the Renderer.                                          *)

Framed == prev[1]

\* The screen of the last frame, and the frame that is owed if it is not the
\* emulator's.
FrameOwed ==
    /\ prev = <<>> =>
          /\ dirty /\ wire = <<>> /\ size = InitSize /\ host.size = InitSize
          /\ prevCursor = <<>> /\ prevAlt = <<>> /\ host.page = <<>> /\ ~defaultsSent
    /\ prev # <<>> =>
          /\ prev = <<Framed>> /\ Framed.size \in Sizes /\ Framed.lines \in Screens(Framed.size)
          /\ \E c \in Cursors : prevCursor = <<c>>
          /\ prevAlt \in {<<FALSE>>, <<TRUE>>}
          /\ defaultsSent
    /\ ~dirty =>
          /\ prev = <<[size |-> size, lines |-> lines]>>
          /\ prevCursor = <<cursor>> /\ prevAlt = <<alt>>
          /\ committed = <<>> /\ title = <<>>

\* A title is sent with the frame that follows it.
TitleOwed ==
    /\ named = <<>> \/ \E t \in Titles : named = <<t>>
    /\ title = <<>> \/ title = named
    /\ title = <<>> => TitleSent = named

\* How many of the lines that left the primary screen the Renderer has sent.
Pushed == Len(off) - Len(history) - Len(committed)

\* Nothing captured is lost, and nothing at all as long as the emulation is plain.
Captured ==
    /\ Pushed \in Nat /\ Len(off) <= gone
    /\ \A i \in DOMAIN committed : off[Pushed + i] = committed[i]
    /\ plain => history = <<>> /\ gone = Len(off)

-----------------------------------------------------------------------------
(* The host.                                                               *)

\* The columns, their ids looked up in attrs, are the picture.
Shows(columns, picture, attrs) ==
    /\ IsSequence(columns) /\ Len(columns) = Len(picture)
    /\ \A c \in DOMAIN picture :
          /\ columns[c][1] = picture[c][1]
          /\ columns[c][2] + 1 \in DOMAIN attrs
          /\ attrs[columns[c][2] + 1] = picture[c][2]

HostFits ==
    /\ DOMAIN host = {"size", "grid", "attrs", "back", "cursor", "alt", "title", "colors", "page"}
    /\ host.size \in Sizes
    /\ IsSequence(host.grid) /\ Len(host.grid) = host.size.rows
    /\ \A r \in DOMAIN host.grid : DOMAIN host.grid[r] = 1 .. host.size.cols
    /\ IsSequence(host.back)

\* The host knows the first of the highlights, and is about to be told the rest,
\* each under its own id; it holds no cell of any other.
HighlightsTold ==
    /\ \A i, j \in DOMAIN hl : hl[i] = hl[j] => i = j
    /\ host.attrs \in Seq(AttrSets) /\ Len(host.attrs) \in 1 .. Len(hl)
    /\ \A i \in DOMAIN host.attrs : host.attrs[i] = hl[i]
    /\ \A i \in DOMAIN wire : wire[i].t = "hl_attr" =>
          \E n \in Len(host.attrs) + 1 .. Len(hl) : wire[i].v = [id |-> n - 1, attrs |-> hl[n]]
    /\ \A n \in Len(host.attrs) + 1 .. Len(hl) :
          \E i \in DOMAIN wire : wire[i].t = "hl_attr" /\ wire[i].v.id = n - 1
    /\ IdsDefined

\* What has been pushed is in the host's scrollback or about to be.
BackFills ==
    /\ \A i \in DOMAIN host.back : Shows(host.back[i], Looks[off[i]], host.attrs)
    /\ \A i \in DOMAIN wire : wire[i].t = "scrollback_push" =>
          /\ IsSequence(wire[i].v)
          /\ Len(host.back) + Len(wire[i].v) = Pushed
          /\ \A n \in DOMAIN wire[i].v :
                Shows(Place(wire[i].v[n]), Looks[off[Len(host.back) + n]], hl)
    /\ ~Waits("scrollback_push") => Len(host.back) = Pushed

\* The row r of the last frame is still to come or is row n of the host's grid.
RowArrives(r, n) ==
    LineWaits(r) \/ Shows(host.grid[n], Looks[Framed.lines[r]], host.attrs)

\* Every row of the last frame is on the host's grid, or will be once the grid has
\* been resized, cleared and scrolled; a host that blanks the rows a scroll
\* vacates is promised nothing.
GridFollows ==
    /\ \A i \in DOMAIN wire : wire[i].t = "grid_resize" => wire[i].v = Framed.size
    /\ ~Waits("grid_resize") => host.size = Framed.size
    /\ Waits("grid_resize") \/ Waits("grid_clear") => \A r \in 1 .. Framed.size.rows : LineWaits(r)
    /\ \A i \in DOMAIN wire : wire[i].t = "grid_line" =>
          /\ wire[i].v.row \in 1 .. Framed.size.rows
          /\ Shows(Place(wire[i].v.cells), Looks[Framed.lines[wire[i].v.row]], hl)
    /\ \A i \in DOMAIN wire : wire[i].t = "grid_scroll" =>
          /\ wire[i].v \in 1 .. Framed.size.rows - 1
          /\ Vacated = "stale" =>
                \A r \in 1 .. Framed.size.rows :
                   RowArrives(r, IF r + wire[i].v <= Framed.size.rows THEN r + wire[i].v ELSE r)
    /\ ~Waits("grid_scroll") /\ Vacated = "stale" =>
          \A r \in 1 .. Framed.size.rows : RowArrives(r, r)

SideFollows ==
    /\ \A i \in DOMAIN wire : wire[i].t = "cursor" => <<wire[i].v>> = prevCursor
    /\ ~Waits("cursor") => host.cursor = prevCursor
    /\ \A i \in DOMAIN wire : wire[i].t = "mode" => <<wire[i].v>> = prevAlt
    /\ ~Waits("mode") => <<host.alt>> = prevAlt
    /\ ~Waits("default_colors") => host.colors

\* Once a frame has been read to its end, the page is the screen it was made of.
PageTaken == wire = <<>> /\ Vacated = "stale" => host.page = Taken

-----------------------------------------------------------------------------

\* The rest of at most one frame is on its way, and with it the host will show the
\* screen that frame was made of, whatever the emulator has done since
\* (render.rs:157-299, hlcache.rs:21-41, term.rs:109-170).
RendererInv ==
    /\ TypeOK
    /\ FrameOwed /\ TitleOwed /\ Captured
    /\ OneFrame
    /\ HostFits /\ HighlightsTold /\ BackFills
    /\ prev # <<>> => GridFollows /\ SideFollows
    /\ PageTaken

=============================================================================
