--------------------------- MODULE RendererProofs ---------------------------
(***************************************************************************)
(* RendererInv is an invariant of Renderer for every set of rows and sizes,  *)
(* every history and every order of chunks, resizes, frames and reads, and   *)
(* with it hold the properties that the runs check.                         *)
(***************************************************************************)
EXTENDS FrameProofs

-----------------------------------------------------------------------------
(* Rows and highlights.                                                    *)

\* A row that fits a size has that many columns, each a text and an attribute set.
LEMMA RowFits ==
  ASSUME NEW s \in Sizes, NEW row \in RowsOf(s)
  PROVE  /\ row \in Rows /\ Len(Looks[row]) = s.cols
         /\ s.cols \in Nat /\ s.rows \in Nat \ {0} /\ DOMAIN Looks[row] = 1 .. s.cols
         /\ Looks[row] = [c \in 1 .. s.cols |-> <<Looks[row][c][1], Looks[row][c][2]>>]
<1>1. row \in Rows /\ Len(Looks[row]) = s.cols
  BY DEF RowsOf, Width
<1>2. row \in Seq(Range(row)) /\ Looks[row] = Picture(row)
  BY <1>1, RowType
<1>3. Picture(row) \in Seq(TextsOf(row) \X Range(AttrsOf(row)))
  BY <1>2, PictureType
<1> DEFINE picture == Looks[row]
           P == TextsOf(row) \X Range(AttrsOf(row))
<1>4. picture \in Seq(P) /\ Len(picture) = s.cols
  BY <1>1, <1>2, <1>3
<1>5. \A p \in P : p = <<p[1], p[2]>>
  OBVIOUS
<1> HIDE DEF picture, P
<1>6. s.cols \in Nat /\ DOMAIN picture = 1 .. s.cols /\ \A c \in 1 .. s.cols : picture[c] \in P
  BY <1>4
<1>7. picture = [c \in 1 .. s.cols |-> picture[c]]
  BY <1>4, <1>6
<1>8. picture = [c \in 1 .. s.cols |-> <<picture[c][1], picture[c][2]>>]
  BY <1>5, <1>6, <1>7
<1>9. s.rows \in Nat \ {0}
  BY RowsAssumption
<1> QED
  BY <1>1, <1>6, <1>8, <1>9 DEF picture

\* A screen has a row of its width for each of its rows.
LEMMA ScreenFits ==
  ASSUME NEW s \in Sizes, NEW screen \in Screens(s)
  PROVE  /\ s.rows \in Nat \ {0} /\ s.cols \in Nat
         /\ DOMAIN screen = 1 .. s.rows /\ Len(screen) = s.rows
         /\ \A r \in 1 .. s.rows : screen[r] \in RowsOf(s)
<1>1. s.rows \in Nat \ {0}
  BY RowsAssumption
<1>2. screen \in [1 .. s.rows -> RowsOf(s)]
  BY DEF Screens
<1>3. Len(screen) = s.rows
  BY <1>1, <1>2, FunctionIsSeq
<1>4. 1 \in 1 .. s.rows
  BY <1>1
<1>5. screen[1] \in RowsOf(s)
  BY <1>2, <1>4
<1>6. s.cols \in Nat
  BY <1>5, RowFits
<1> QED
  BY <1>1, <1>2, <1>3, <1>6

\* A function over 1 .. n is a sequence.
LEMMA FunctionIsSequence ==
  ASSUME NEW n \in Nat, NEW f, f = [i \in 1 .. n |-> f[i]]
  PROVE  IsSequence(f) /\ Len(f) = n /\ DOMAIN f = 1 .. n
<1>1. DOMAIN f = 1 .. n
  OBVIOUS
<1>2. f \in [1 .. n -> Range(f)]
  BY <1>1 DEF Range
<1>3. Len(f) = n
  BY <1>2, FunctionIsSeq
<1> QED
  BY <1>1, <1>3 DEF IsSequence

\* A grid of the size s.
IsGrid(grid, s) ==
    /\ IsSequence(grid) /\ Len(grid) = s.rows
    /\ DOMAIN grid = 1 .. s.rows /\ \A r \in 1 .. s.rows : DOMAIN grid[r] = 1 .. s.cols

\* A blank grid has the size asked for and only the default highlight.
LEMMA BlankGridIs ==
  ASSUME NEW s \in Sizes
  PROVE  IsGrid(BlankGrid(s), s)
         /\ \A r \in 1 .. s.rows : \A c \in 1 .. s.cols : BlankGrid(s)[r][c][2] = 0
<1> DEFINE grid == BlankGrid(s)
           n    == s.rows
<1>1. grid = [r \in 1 .. n |-> BlankRow(s)] /\ n \in Nat
  BY RowsAssumption DEF BlankGrid
<1>2. BlankRow(s) = [c \in 1 .. s.cols |-> <<Blank, 0>>]
  BY DEF BlankRow
<1> HIDE DEF grid, n
<1>3. grid = [r \in 1 .. n |-> grid[r]]
  BY <1>1
<1>4. IsSequence(grid) /\ Len(grid) = n /\ DOMAIN grid = 1 .. n
  BY <1>1, <1>3, FunctionIsSequence
<1>5. \A r \in 1 .. n : /\ DOMAIN grid[r] = 1 .. s.cols
                        /\ \A c \in 1 .. s.cols : grid[r][c][2] = 0
  BY <1>1, <1>2
<1> QED
  BY <1>4, <1>5 DEF IsGrid, grid, n

\* attrs goes on as more.
Continues(attrs, more) == \A i \in DOMAIN attrs : i \in DOMAIN more /\ more[i] = attrs[i]

\* What is shown stays so, however many highlights the host is told of.
LEMMA ShowsGrows ==
  ASSUME NEW columns, NEW picture, NEW attrs, NEW more,
         Shows(columns, picture, attrs), Continues(attrs, more)
  PROVE  Shows(columns, picture, more)
BY DEF Shows, Continues

\* There are finitely many attribute sets, and a cache that holds each of them at
\* most once is no longer than that.
LEMMA AttrSetsFinite == IsFiniteSet(AttrSets) /\ DefaultAttrs \in AttrSets
<1> DEFINE F == {Range(AttrsOf(row)) : row \in Rows}
           f == [row \in Rows |-> Range(AttrsOf(row))]
<1>1. IsFiniteSet(F)
  <2>1. f \in Surjection(Rows, F)
    BY DEF Surjection
  <2> HIDE DEF f, F
  <2>2. IsFiniteSet(Rows)
    BY RowsAssumption
  <2> QED
    BY <2>1, <2>2, FS_Surjection
<1>2. ASSUME NEW row \in Rows
      PROVE  IsFiniteSet(Range(AttrsOf(row)))
  <2> DEFINE g == AttrsOf(row)
  <2>1. g \in Seq(AttrSets)
    BY RowType
  <2> HIDE DEF g
  <2>2. Len(g) \in Nat /\ DOMAIN g = 1 .. Len(g)
    BY <2>1
  <2>3. IsFiniteSet(1 .. Len(g))
    <3>1. 1 \in Int /\ Len(g) \in Int
      BY <2>2
    <3> QED
      BY <3>1, FS_Interval
  <2>4. g \in Surjection(1 .. Len(g), Range(g))
    <3>1. g \in [1 .. Len(g) -> Range(g)]
      BY <2>1, <2>2 DEF Range
    <3> QED
      BY <2>2, <3>1 DEF Surjection, Range
  <2>5. IsFiniteSet(Range(g))
    BY <2>3, <2>4, FS_Surjection
  <2> QED
    BY <2>5 DEF g
<1>3. \A T \in F : IsFiniteSet(T)
  BY <1>2
<1>4. AttrSets = (UNION F) \cup {DefaultAttrs}
  BY DEF AttrSets
<1> HIDE DEF F
<1>5. IsFiniteSet(UNION F)
  BY <1>1, <1>3, FS_UNION
<1>6. IsFiniteSet(AttrSets)
  BY <1>4, <1>5, FS_AddElement
<1> QED
  BY <1>4, <1>6

\* A table without repetition is no longer than there are attribute sets.
LEMMA CacheFits ==
  ASSUME NEW table \in Seq(AttrSets), Injects(table)
  PROVE  Len(table) <= Cardinality(AttrSets)
<1>1. Len(table) \in Nat /\ DOMAIN table = 1 .. Len(table)
  OBVIOUS
<1>2. table \in Injection(1 .. Len(table), AttrSets)
  <2>1. table \in [1 .. Len(table) -> AttrSets]
    OBVIOUS
  <2> QED
    BY <1>1, <2>1 DEF Injection, Injects, IsInjective
<1>3. Cardinality(1 .. Len(table)) <= Cardinality(AttrSets)
  BY <1>2, AttrSetsFinite, FS_Injection
<1>4. Cardinality(1 .. Len(table)) = Len(table)
  <2>1. 1 \in Int /\ Len(table) \in Int
    BY <1>1
  <2>2. Cardinality(1 .. Len(table)) = IF 1 > Len(table) THEN 0 ELSE Len(table) - 1 + 1
    BY <2>1, FS_Interval
  <2> QED
    BY <1>1, <2>2
<1> QED
  BY <1>3, <1>4

-----------------------------------------------------------------------------
(* The initial states.                                                     *)

\* The invariant holds before the baseline frame (render.rs:171-181).
LEMMA InitInv == Init => RendererInv
<1> SUFFICES ASSUME Init
             PROVE  RendererInv
  OBVIOUS
<1>1. /\ size = InitSize /\ wire = <<>> /\ prev = <<>> /\ dirty = TRUE /\ hl = <<DefaultAttrs>>
      /\ host.size = InitSize /\ host.grid = BlankGrid(InitSize) /\ host.attrs = <<DefaultAttrs>>
      /\ host.back = <<>> /\ host.page = <<>> /\ host.title = <<>>
      /\ DOMAIN host = {"size", "grid", "attrs", "back", "cursor", "alt", "title", "colors", "page"}
  BY DEF Init
<1>2. /\ history = <<>> /\ committed = <<>> /\ off = <<>> /\ title = <<>> /\ named = <<>>
      /\ gone = 0 /\ changes = 0 /\ plain = TRUE /\ bell = FALSE /\ alt = FALSE
      /\ cursor = InitCursor /\ prevCursor = <<>> /\ prevAlt = <<>> /\ defaultsSent = FALSE
  BY DEF Init
<1>3. InitSize \in Sizes /\ InitCursor \in Cursors /\ Scrollback \in Nat /\ MaxChanges \in Nat
      /\ MaxOff \in Nat
  BY RowsAssumption
<1>4. InitSize.rows \in Nat \ {0}
  BY <1>3, RowsAssumption
<1>5. lines \in Screens(InitSize)
  <2>1. PICK row \in RowsOf(InitSize) : lines = [r \in 1 .. InitSize.rows |-> row]
    BY DEF Init
  <2> QED
    BY <2>1 DEF Screens
<1>6. hl \in Seq(AttrSets) /\ Injects(hl) /\ Len(hl) = 1 /\ DOMAIN hl = 1 .. 1
  BY <1>1, AttrSetsFinite DEF Injects
<1>7. TypeOK
  <2>1. Len(hl) <= Cardinality(AttrSets)
    BY <1>6, CacheFits
  <2>2. /\ size \in Sizes /\ lines \in Screens(size) /\ cursor \in Cursors
        /\ alt \in BOOLEAN /\ bell \in BOOLEAN /\ dirty \in BOOLEAN /\ plain \in BOOLEAN
    BY <1>1, <1>2, <1>3, <1>5
  <2>3. /\ history \in Seq(Rows) /\ Len(history) <= Scrollback
        /\ committed \in Seq(Rows) /\ off \in Seq(Rows) /\ Len(off) <= MaxOff
        /\ title \in Seq(Titles) /\ named \in Seq(Titles)
    BY <1>2, <1>3
  <2>4. Len(prev) <= 1 /\ Len(prevCursor) <= 1 /\ Len(prevAlt) <= 1
    BY <1>1, <1>2
  <2>5. changes \in 0 .. MaxChanges /\ gone \in 0 .. MaxOff
    BY <1>2, <1>3
  <2> QED
    BY <1>6, <2>1, <2>2, <2>3, <2>4, <2>5 DEF TypeOK
<1>8. FrameOwed
  BY <1>1, <1>2 DEF FrameOwed
<1>9. TitleOwed
  BY <1>1, <1>2 DEF TitleOwed, TitleSent
<1>10. Captured
  BY <1>2 DEF Captured, Pushed
<1>11. OneFrame
  BY <1>1 DEF OneFrame, IsSequence, InRankOrder
<1>12. HostFits
  <2>1. IsSequence(host.back)
    BY <1>1, NoBlock DEF Block
  <2>2. IsGrid(host.grid, host.size)
    BY <1>1, <1>3, BlankGridIs
  <2> QED
    BY <1>1, <1>3, <2>1, <2>2 DEF HostFits, IsGrid
<1>13. HighlightsTold
  <2>1. IdsDefined
    <3>1. Known(0)
      BY <1>1 DEF Known
    <3>2. \A r \in DOMAIN host.grid : \A c \in DOMAIN host.grid[r] : host.grid[r][c][2] = 0
      <4>1. IsGrid(host.grid, InitSize)
        BY <1>1, <1>3, BlankGridIs
      <4>2. \A r \in 1 .. InitSize.rows : \A c \in 1 .. InitSize.cols : host.grid[r][c][2] = 0
        BY <1>1, <1>3, BlankGridIs
      <4> QED
        BY <4>1, <4>2 DEF IsGrid
    <3> QED
      BY <1>1, <3>1, <3>2 DEF IdsDefined
  <2>2. host.attrs = hl
    BY <1>1
  <2>3. \A i, j \in DOMAIN hl : hl[i] = hl[j] => i = j
    BY <1>6 DEF Injects
  <2>4. Len(host.attrs) + 1 .. Len(hl) = {}
    BY <1>6, <2>2
  <2>5. DOMAIN wire = {}
    BY <1>1
  <2> QED
    BY <1>6, <2>1, <2>2, <2>3, <2>4, <2>5 DEF HighlightsTold
<1>14. BackFills
  <2>1. Pushed = 0 /\ Len(host.back) = 0 /\ DOMAIN host.back = {} /\ DOMAIN wire = {}
    <3>1. Pushed = 0 - 0 - 0
      BY <1>2 DEF Pushed
    <3> QED
      BY <1>1, <3>1
  <2> QED
    BY <2>1 DEF BackFills
<1>15. PageTaken
  BY <1>1 DEF PageTaken, Taken
<1> QED
  BY <1>1, <1>7, <1>8, <1>9, <1>10, <1>11, <1>12, <1>13, <1>14, <1>15 DEF RendererInv

-----------------------------------------------------------------------------
(* Steps of the emulator.                                                  *)

\* The maximum of two numbers, for the host's table of highlights.
LEMMA MaxOfTwo ==
  ASSUME NEW a \in Int, NEW b \in Int
  PROVE  Max({a, b}) = IF a >= b THEN a ELSE b
<1> DEFINE m == IF a >= b THEN a ELSE b
<1>1. m \in {a, b} /\ \A y \in {a, b} : m >= y
  OBVIOUS
<1>2. \A x \in {a, b} : (\A y \in {a, b} : x >= y) => x = m
  OBVIOUS
<1> HIDE DEF m
<1>3. Max({a, b}) = m
  BY <1>1, <1>2 DEF Max
<1> QED
  BY <1>3 DEF m

\* A history that has been cut to its capacity.
IsCapped(c, h) ==
    /\ c \in Seq(Rows) /\ Len(c) \in Nat /\ Len(c) <= Scrollback /\ Len(c) <= Len(h)
    /\ Len(h) <= Scrollback => c = h

\* The history keeps its last lines, and all of them if they fit (term.rs:120-138).
LEMMA CappedIs ==
  ASSUME NEW h \in Seq(Rows)
  PROVE  IsCapped(Capped(h), h)
<1> DEFINE n == Len(h)
           m == IF 1 >= n - Scrollback + 1 THEN 1 ELSE n - Scrollback + 1
<1>1. n \in Nat /\ Scrollback \in Nat /\ m \in Int
  BY RowsAssumption
<1>2. Max({1, n - Scrollback + 1}) = m
  <2>1. 1 \in Int /\ n - Scrollback + 1 \in Int
    BY <1>1
  <2> QED
    BY <2>1, MaxOfTwo
<1>3. Capped(h) = SubSeq(h, m, n)
  BY <1>2 DEF Capped
<1>4. m \in Nat /\ m >= 1 /\ m >= n - Scrollback + 1 /\ (n <= Scrollback => m = 1)
  BY <1>1
<1>5. \A i \in m .. n : h[i] \in Rows
  BY <1>1, <1>4
<1>6. SubSeq(h, 1, n) = h
  BY SubSeqFull
<1> HIDE DEF n, m
<1>7. SubSeq(h, m, n) \in Seq(Rows) /\ Len(SubSeq(h, m, n)) = IF m <= n THEN n - m + 1 ELSE 0
  BY <1>1, <1>5, SubSeqProperties
<1>8. Len(SubSeq(h, m, n)) \in Nat /\ Len(SubSeq(h, m, n)) <= Scrollback
      /\ Len(SubSeq(h, m, n)) <= n
  BY <1>1, <1>4, <1>7
<1> QED
  BY <1>3, <1>4, <1>6, <1>7, <1>8 DEF IsCapped, n

\* o is off with h in the place of the undrained history.
OffGrows(o, h) ==
    /\ o \in Seq(Rows) /\ Len(o) = Len(off) - Len(history) + Len(h)
    /\ Len(o) = Pushed + Len(committed) + Len(h)
    /\ \A i \in 1 .. Pushed + Len(committed) : o[i] = off[i]
    /\ \A i \in 1 .. Len(h) : o[Pushed + Len(committed) + i] = h[i]

\* What is captured grows at its end, where the history is.
LEMMA OffWithIs ==
  ASSUME TypeOK, Captured, NEW h \in Seq(Rows)
  PROVE  OffGrows(OffWith(h), h)
<1> DEFINE n == Len(off) - Len(history)
           s == SubSeq(off, 1, n)
           o == s \o h
<1>1. /\ off \in Seq(Rows) /\ history \in Seq(Rows) /\ committed \in Seq(Rows)
      /\ Len(off) \in Nat /\ Len(history) \in Nat /\ Len(committed) \in Nat /\ Len(h) \in Nat
  BY DEF TypeOK
<1>2. Pushed \in Nat /\ n = Pushed + Len(committed)
  BY <1>1 DEF Captured, Pushed
<1>3. n \in Nat /\ n <= Len(off)
  BY <1>1, <1>2
<1>4. OffWith(h) = o
  BY DEF OffWith
<1> HIDE DEF n
<1>5. s \in Seq(Rows) /\ Len(s) = n /\ \A i \in 1 .. n : s[i] = off[i]
  <2>1. \A i \in 1 .. n : off[i] \in Rows
    BY <1>1, <1>3
  <2>2. 1 \in Int /\ n \in Int
    BY <1>3
  <2>3. /\ s \in Seq(Rows) /\ Len(s) = IF 1 <= n THEN n - 1 + 1 ELSE 0
        /\ \A i \in 1 .. n - 1 + 1 : s[i] = off[1 + i - 1]
    BY <2>1, <2>2, SubSeqProperties
  <2>4. n - 1 + 1 = n /\ \A i \in 1 .. n : 1 + i - 1 = i
    BY <1>3
  <2>5. Len(s) = n
    BY <1>3, <2>3, <2>4
  <2> QED
    BY <2>3, <2>4, <2>5
<1> HIDE DEF s
<1>6. o \in Seq(Rows) /\ Joins(o, s, h)
  BY <1>5, ConcatProperties, ConcatJoins
<1> HIDE DEF o
<1>7. Len(o) = n + Len(h) /\ (\A i \in 1 .. n : o[i] = off[i]) /\ \A i \in 1 .. Len(h) : o[n + i] = h[i]
  BY <1>5, <1>6 DEF Joins
<1>8. Len(o) = Len(off) - Len(history) + Len(h)
  BY <1>7 DEF n
<1> QED
  BY <1>2, <1>4, <1>6, <1>7, <1>8 DEF OffGrows

\* What only the Renderer, the wire and the host are about.
LEMMA EmulatorKeeps ==
  ASSUME RendererInv, UNCHANGED <<rendererVars, wire, host>>
  PROVE  /\ OneFrame' /\ HostFits' /\ HighlightsTold' /\ PageTaken'
         /\ prev # <<>> => GridFollows' /\ SideFollows'
         /\ prev' = prev /\ TitleSent' = TitleSent /\ Taken' = Taken
<1>1. UNCHANGED <<prev, hl, prevCursor, prevAlt, defaultsSent, wire, host>>
  BY DEF rendererVars
<1>2. OneFrame'
  BY <1>1 DEF RendererInv, OneFrame, InRankOrder, Before, Within
<1>3. HostFits'
  BY <1>1 DEF RendererInv, HostFits
<1>4. HighlightsTold'
  <2>1. IdsDefined' <=> IdsDefined
    BY <1>1, Zenon DEF IdsDefined, Known
  <2>2. HighlightsTold
    BY DEF RendererInv
  <2> QED
    <3>1. /\ \A i, j \in DOMAIN hl' : hl'[i] = hl'[j] => i = j
          /\ host'.attrs \in Seq(AttrSets) /\ Len(host'.attrs) \in 1 .. Len(hl')
          /\ \A i \in DOMAIN host'.attrs : host'.attrs[i] = hl'[i]
      BY <1>1, <2>2 DEF HighlightsTold
    <3>2. \A i \in DOMAIN wire' : wire'[i].t = "hl_attr" =>
             \E n \in Len(host'.attrs) + 1 .. Len(hl') :
                wire'[i].v = [id |-> n - 1, attrs |-> hl'[n]]
      <4>1. \A i \in DOMAIN wire : wire[i].t = "hl_attr" =>
               \E n \in Len(host.attrs) + 1 .. Len(hl) :
                  wire[i].v = [id |-> n - 1, attrs |-> hl[n]]
        BY <2>2, Zenon DEF HighlightsTold
      <4>2. wire' = wire /\ hl' = hl /\ host' = host
        BY <1>1
      <4> QED
        BY <4>1, <4>2, Zenon
    <3>3. \A n \in Len(host'.attrs) + 1 .. Len(hl') :
             \E i \in DOMAIN wire' : wire'[i].t = "hl_attr" /\ wire'[i].v.id = n - 1
      BY <1>1, <2>2 DEF HighlightsTold
    <3>4. IdsDefined'
      BY <2>1, <2>2 DEF HighlightsTold
    <3> QED
      BY <3>1, <3>2, <3>3, <3>4 DEF HighlightsTold
<1>5. TitleSent' = TitleSent
  BY <1>1 DEF TitleSent
<1>6. PageTaken' /\ Taken' = Taken
  <2>1. Taken' = Taken
    BY <1>1, <1>5 DEF Taken, Page, Pictures
  <2> QED
    BY <1>1, <2>1 DEF RendererInv, PageTaken
<1>7. prev # <<>> => SideFollows'
  BY <1>1 DEF RendererInv, SideFollows, Waits
<1>8. prev # <<>> => GridFollows'
  <2>1. \A r, n : RowArrives(r, n)' <=> RowArrives(r, n)
    BY <1>1 DEF RowArrives, LineWaits, Shows, Framed
  <2>2. \A r : LineWaits(r)' <=> LineWaits(r)
    BY <1>1 DEF LineWaits
  <2>3. Framed' = Framed /\ \A t : Waits(t)' <=> Waits(t)
    BY <1>1 DEF Framed, Waits
  <2> SUFFICES ASSUME prev # <<>>
               PROVE  GridFollows'
    OBVIOUS
  <2>4. GridFollows
    BY DEF RendererInv
  <2>5. wire' = wire /\ host' = host /\ hl' = hl
    BY <1>1
  <2>6. /\ \A i \in DOMAIN wire' : wire'[i].t = "grid_resize" => wire'[i].v = Framed'.size
        /\ ~Waits("grid_resize")' => host'.size = Framed'.size
        /\ Waits("grid_resize")' \/ Waits("grid_clear")' =>
              \A r \in 1 .. Framed'.size.rows : LineWaits(r)'
    BY <2>2, <2>3, <2>4, <2>5 DEF GridFollows
  <2>7. \A i \in DOMAIN wire' : wire'[i].t = "grid_line" =>
           /\ wire'[i].v.row \in 1 .. Framed'.size.rows
           /\ Shows(Place(wire'[i].v.cells), Looks[Framed'.lines[wire'[i].v.row]], hl')
    BY <2>3, <2>4, <2>5, Zenon DEF GridFollows
  <2>8. (\A i \in DOMAIN wire : wire[i].t = "grid_scroll" =>
            /\ wire[i].v \in 1 .. Framed.size.rows - 1
            /\ Vacated = "stale" =>
                  \A r \in 1 .. Framed.size.rows :
                     RowArrives(r, IF r + wire[i].v <= Framed.size.rows THEN r + wire[i].v ELSE r))'
    BY <2>3, <2>4, <2>5 DEF GridFollows, RowArrives, LineWaits, Framed
  <2>9. (~Waits("grid_scroll") /\ Vacated = "stale" =>
            \A r \in 1 .. Framed.size.rows : RowArrives(r, r))'
    BY <2>1, <2>3, <2>4 DEF GridFollows
  <2> QED
    BY <2>6, <2>7, <2>8, <2>9 DEF GridFollows
<1> QED
  BY <1>1, <1>2, <1>3, <1>4, <1>5, <1>6, <1>7, <1>8

\* Lines captured since the last frame do not touch those that were sent.
LEMMA BackKeeps ==
  ASSUME RendererInv, UNCHANGED <<rendererVars, wire, host>>, Pushed' = Pushed,
         \A i \in 1 .. Pushed : off'[i] = off[i]
  PROVE  BackFills'
<1>1. UNCHANGED <<hl, wire, host>>
  BY DEF rendererVars
<1>2. BackFills /\ Pushed \in Nat
  BY DEF RendererInv, Captured
<1>3. IsSequence(host.back)
  BY DEF RendererInv, HostFits
<1>4. Len(host.back) \in Nat /\ DOMAIN host.back = 1 .. Len(host.back)
  BY <1>3, SequenceType DEF IsSequence
<1>5. ASSUME NEW i \in DOMAIN wire, wire[i].t = "scrollback_push", NEW n \in DOMAIN wire[i].v
      PROVE  Len(host.back) + n \in 1 .. Pushed
  <2>1. IsSequence(wire[i].v) /\ Len(host.back) + Len(wire[i].v) = Pushed
    BY <1>2, <1>5 DEF BackFills
  <2>2. n \in 1 .. Len(wire[i].v) /\ Len(wire[i].v) \in Nat
    BY <1>5, <2>1, SequenceType DEF IsSequence
  <2> DEFINE a == Len(host.back)
             b == Len(wire[i].v)
  <2>3. a \in Nat /\ b \in Nat /\ n \in 1 .. b /\ a + b = Pushed
    BY <1>4, <2>1, <2>2
  <2> HIDE DEF a, b
  <2>4. a + n \in 1 .. Pushed
    BY <2>3
  <2> QED
    BY <2>4 DEF a
<1>6. ASSUME NEW i \in DOMAIN host.back
      PROVE  i \in 1 .. Pushed
  <2>1. CASE Waits("scrollback_push")
    <3>1. PICK j \in DOMAIN wire : wire[j].t = "scrollback_push"
      BY <2>1 DEF Waits
    <3>2. IsSequence(wire[j].v) /\ Len(host.back) + Len(wire[j].v) = Pushed
      BY <1>2, <3>1 DEF BackFills
    <3> DEFINE a == Len(host.back)
               b == Len(wire[j].v)
    <3>3. a \in Nat /\ b \in Nat /\ i \in 1 .. a /\ a + b = Pushed
      BY <1>4, <3>2 DEF IsSequence
    <3> HIDE DEF a, b
    <3> QED
      BY <3>3
  <2>2. CASE ~Waits("scrollback_push")
    BY <1>2, <1>4, <2>2 DEF BackFills
  <2> QED
    BY <2>1, <2>2
<1>7. \A t : Waits(t)' <=> Waits(t)
  BY <1>1 DEF Waits
<1>8. \A i \in DOMAIN host'.back : Shows(host'.back[i], Looks[off'[i]], host'.attrs)
  BY <1>1, <1>2, <1>6 DEF BackFills
<1>9. \A i \in DOMAIN wire' : wire'[i].t = "scrollback_push" =>
          /\ IsSequence(wire'[i].v)
          /\ Len(host'.back) + Len(wire'[i].v) = Pushed'
          /\ \A n \in DOMAIN wire'[i].v :
                Shows(Place(wire'[i].v[n]), Looks[off'[Len(host'.back) + n]], hl')
  BY <1>1, <1>2, <1>5 DEF BackFills
<1>10. ~Waits("scrollback_push")' => Len(host'.back) = Pushed'
  BY <1>1, <1>2, <1>7 DEF BackFills
<1> QED
  BY <1>8, <1>9, <1>10 DEF BackFills

\* The parts of TypeOK that are about the Renderer.
LEMMA TypesKeep ==
  ASSUME TypeOK, UNCHANGED rendererVars
  PROVE  /\ hl' \in Seq(AttrSets) /\ Len(hl') <= Cardinality(AttrSets)
         /\ Len(prev') <= 1 /\ Len(prevCursor') <= 1 /\ Len(prevAlt') <= 1
BY DEF TypeOK, rendererVars

\* A burst is a finite sequence of rows.
LEMMA BurstIs ==
  ASSUME NEW burst \in Bursts
  PROVE  burst \in Seq(Rows) /\ Len(burst) \in Nat
<1>1. PICK n \in 0 .. MaxBurst : burst \in [1 .. n -> RowsOf(size)]
  BY DEF Bursts
<1>2. n \in Nat
  BY RowsAssumption
<1>3. burst \in [1 .. n -> Rows]
  BY <1>1 DEF RowsOf
<1> QED
  BY <1>2, <1>3, FunctionIsSeq

\* A chunk changes the emulator only, and what scrolls off is captured or still in the
\* history, but for what the chunk itself erased (term.rs:120-138).
LEMMA FeedInv ==
  ASSUME RendererInv, Feed
  PROVE  RendererInv'
<1>1. /\ prev # <<>> /\ changes < MaxChanges /\ changes' = changes + 1
      /\ lines' \in Screens(size) /\ cursor' \in Cursors /\ alt' \in BOOLEAN
      /\ bell' \in {bell, bell \/ Rings} /\ dirty' = TRUE
      /\ size' = size /\ UNCHANGED <<rendererVars, wire, host>>
  BY DEF Feed, Running
<1>2. PICK kept \in {<<>>, history}, lost \in 0 .. MaxBurst, burst \in Bursts :
        LET h == Capped(kept \o burst)
        IN /\ lost > 0 => kept = <<>>
           /\ lost + Len(burst) <= MaxBurst
           /\ gone' = gone + lost + Len(burst) /\ gone' <= MaxOff
           /\ plain' = (plain /\ ~alt' /\ lost = 0 /\ Len(burst) <= Scrollback)
           /\ off' = OffWith(h)
           /\ IF alt' THEN history' = h /\ UNCHANGED committed
                      ELSE history' = Cleared(h) /\ committed' = committed \o h
  BY DEF Feed
<1> DEFINE h == Capped(kept \o burst)
<1>3. /\ off' = OffWith(h) /\ gone' = gone + lost + Len(burst) /\ gone' <= MaxOff
      /\ plain' = (plain /\ ~alt' /\ lost = 0 /\ Len(burst) <= Scrollback)
      /\ alt' => history' = h /\ committed' = committed
      /\ ~alt' => history' = <<>> /\ committed' = committed \o h
  BY <1>2 DEF Cleared
<1>4. TypeOK /\ FrameOwed /\ TitleOwed /\ Captured
  BY DEF RendererInv
<1>5. burst \in Seq(Rows) /\ Len(burst) \in Nat /\ lost \in Nat
  BY <1>2, BurstIs
<1>6. /\ history \in Seq(Rows) /\ committed \in Seq(Rows) /\ off \in Seq(Rows)
      /\ Len(history) \in Nat /\ Len(committed) \in Nat /\ Len(off) \in Nat
      /\ gone \in Nat /\ Len(off) <= gone /\ Pushed \in Nat
      /\ Pushed = Len(off) - Len(history) - Len(committed)
  <2>1. gone \in 0 .. MaxOff /\ MaxOff \in Nat
    BY <1>4, RowsAssumption DEF TypeOK
  <2>2. history \in Seq(Rows) /\ committed \in Seq(Rows) /\ off \in Seq(Rows)
    BY <1>4 DEF TypeOK
  <2>3. Len(off) <= gone /\ Pushed \in Nat
    BY <1>4, Zenon DEF Captured
  <2>4. gone \in Nat
    BY <2>1
  <2>5. Len(history) \in Nat /\ Len(committed) \in Nat /\ Len(off) \in Nat
    BY <2>2
  <2> QED
    BY <2>2, <2>3, <2>4, <2>5, Zenon DEF Pushed
<1>7. kept \in Seq(Rows) /\ Len(kept) \in Nat /\ Len(kept) <= Len(history)
  <2>1. CASE kept = history
    BY <1>6, <2>1
  <2>2. CASE kept = <<>>
    <3>1. kept \in Seq(Rows) /\ Len(kept) = 0
      BY <2>2
    <3> QED
      BY <1>6, <3>1
  <2> QED
    BY <2>1, <2>2
<1>8. kept \o burst \in Seq(Rows) /\ Len(kept \o burst) = Len(kept) + Len(burst)
  BY <1>5, <1>7
<1>9. IsCapped(h, kept \o burst)
  BY <1>8, CappedIs
<1> HIDE DEF h
<1>10. /\ h \in Seq(Rows) /\ Len(h) \in Nat /\ Len(h) <= Scrollback
       /\ Len(h) <= Len(kept) + Len(burst)
       /\ Len(kept) + Len(burst) <= Scrollback => h = kept \o burst
  BY <1>8, <1>9 DEF IsCapped
<1>11. OffGrows(off', h)
  BY <1>3, <1>4, <1>10, OffWithIs
<1>12. /\ off' \in Seq(Rows) /\ Len(off') = Len(off) - Len(history) + Len(h)
       /\ Len(off') = Pushed + Len(committed) + Len(h)
       /\ \A i \in 1 .. Pushed + Len(committed) : off'[i] = off[i]
       /\ \A i \in 1 .. Len(h) : off'[Pushed + Len(committed) + i] = h[i]
  BY <1>11 DEF OffGrows
<1>13. /\ history' \in Seq(Rows) /\ Len(history') <= Scrollback /\ committed' \in Seq(Rows)
       /\ Len(committed') + Len(history') = Len(committed) + Len(h)
       /\ Len(committed') \in Nat /\ Len(history') \in Nat
  <2>1. CASE alt'
    BY <1>3, <1>6, <1>10, <2>1
  <2>2. CASE ~alt'
    <3>1. Scrollback \in Nat
      BY RowsAssumption
    <3>2. history' = <<>> /\ committed' = committed \o h
      BY <1>3, <2>2
    <3>3. history' \in Seq(Rows) /\ Len(history') = 0
      BY <3>2
    <3>4. committed' \in Seq(Rows) /\ Len(committed') = Len(committed) + Len(h)
      BY <1>6, <1>10, <3>2, ConcatProperties
    <3> QED
      BY <1>6, <1>10, <3>1, <3>3, <3>4
  <2> QED
    BY <2>1, <2>2
<1>14. Pushed' = Pushed
  <2> DEFINE a == Len(off')
             b == Len(history')
             c == Len(committed')
             d == Len(committed)
             e == Len(h)
  <2>1. Pushed' = a - b - c
    BY DEF Pushed
  <2>2. a = Pushed + d + e /\ c + b = d + e
    BY <1>12, <1>13
  <2>3. b \in Nat /\ c \in Nat /\ d \in Nat /\ e \in Nat /\ Pushed \in Nat
    BY <1>6, <1>10, <1>13
  <2> HIDE DEF a, b, c, d, e
  <2> QED
    BY <2>1, <2>2, <2>3
<1>15. Len(off') <= gone' /\ Len(off') <= MaxOff /\ gone' \in 0 .. MaxOff
  <2>1. Len(off') \in Nat
    BY <1>12
  <2>2. Len(off') <= gone'
    BY <1>3, <1>5, <1>6, <1>7, <1>10, <1>12, <2>1
  <2>3. MaxOff \in Nat /\ gone' \in Nat
    BY <1>3, <1>5, <1>6, RowsAssumption
  <2> QED
    BY <1>3, <2>1, <2>2, <2>3
<1>16. ASSUME NEW i \in DOMAIN committed'
       PROVE  off'[Pushed' + i] = committed'[i]
  <2>1. \A j \in 1 .. Len(committed) : off[Pushed + j] = committed[j]
    <3>1. DOMAIN committed = 1 .. Len(committed)
      BY <1>6
    <3> QED
      BY <1>4, <3>1 DEF Captured
  <2>2. ASSUME i \in 1 .. Len(committed)
        PROVE  off'[Pushed + i] = committed[i]
    <3>1. Pushed + i \in 1 .. Pushed + Len(committed)
      BY <1>6, <2>2
    <3> QED
      BY <1>12, <2>1, <2>2, <3>1
  <2>3. CASE alt'
    BY <1>3, <1>6, <1>14, <2>2, <2>3
  <2>4. CASE ~alt'
    <3>1. Joins(committed', committed, h)
      BY <1>3, <1>6, <1>10, <2>4, ConcatJoins
    <3>2. i \in 1 .. Len(committed')
      BY <1>13
    <3>3. CASE i <= Len(committed)
      <4>1. i \in 1 .. Len(committed)
        BY <1>6, <3>2, <3>3
      <4>2. committed'[i] = committed[i]
        BY <3>1, <4>1 DEF Joins
      <4> QED
        BY <1>14, <2>2, <4>1, <4>2
    <3>4. CASE i > Len(committed)
      <4>1. PICK n \in 1 .. Len(h) : i = Len(committed) + n
        <5>1. Len(committed') = Len(committed) + Len(h)
          BY <3>1 DEF Joins
        <5>2. i - Len(committed) \in 1 .. Len(h) /\ i = Len(committed) + (i - Len(committed))
          BY <1>6, <1>10, <3>2, <3>4, <5>1
        <5> QED
          BY <5>2
      <4>2. committed'[i] = h[n]
        BY <3>1, <4>1 DEF Joins
      <4>3. Pushed + i = Pushed + Len(committed) + n
        BY <1>6, <4>1
      <4> QED
        BY <1>12, <1>14, <4>2, <4>3
    <3> QED
      BY <1>6, <3>2, <3>3, <3>4
  <2> QED
    BY <2>3, <2>4
<1>17. plain' => history' = <<>> /\ gone' = Len(off')
  <2> SUFFICES ASSUME plain'
               PROVE  history' = <<>> /\ gone' = Len(off')
    OBVIOUS
  <2>1. plain /\ ~alt' /\ lost = 0 /\ Len(burst) <= Scrollback
    BY <1>3
  <2>2. history = <<>> /\ gone = Len(off)
    BY <1>4, <2>1 DEF Captured
  <2>3. Len(kept) = 0 /\ Len(history) = 0
    BY <2>2
  <2>4. h = kept \o burst
    BY <1>5, <1>10, <2>1, <2>3
  <2>5. Len(h) = Len(burst)
    BY <1>5, <1>8, <2>3, <2>4
  <2> QED
    BY <1>3, <1>5, <1>6, <1>12, <2>1, <2>2, <2>3, <2>5
<1>18. Captured'
  BY <1>6, <1>14, <1>15, <1>16, <1>17 DEF Captured
<1>19. \/ title' = title /\ named' = named
       \/ \E t \in Titles : title' = <<t>> /\ named' = <<t>>
  BY DEF Feed
<1>20. /\ OneFrame' /\ HostFits' /\ HighlightsTold' /\ PageTaken'
       /\ GridFollows' /\ SideFollows' /\ TitleSent' = TitleSent
  BY <1>1, EmulatorKeeps
<1>21. TitleOwed'
  <2>1. CASE title' = title /\ named' = named
    BY <1>4, <1>20, <2>1 DEF TitleOwed
  <2>2. CASE \E t \in Titles : title' = <<t>> /\ named' = <<t>>
    BY <2>2 DEF TitleOwed
  <2> QED
    BY <1>19, <2>1, <2>2
<1>22. title' \in Seq(Titles) /\ named' \in Seq(Titles)
  <2>1. title \in Seq(Titles) /\ named \in Seq(Titles)
    BY <1>4 DEF TypeOK
  <2>2. \A t \in Titles : <<t>> \in Seq(Titles)
    OBVIOUS
  <2> QED
    BY <1>19, <2>1, <2>2
<1>23. TypeOK'
  <2>1. /\ hl' \in Seq(AttrSets) /\ Len(hl') <= Cardinality(AttrSets)
        /\ Len(prev') <= 1 /\ Len(prevCursor') <= 1 /\ Len(prevAlt') <= 1
    BY <1>1, <1>4, TypesKeep
  <2>2. changes' \in 0 .. MaxChanges
    BY <1>1, <1>4, RowsAssumption DEF TypeOK
  <2>3. size' \in Sizes /\ lines' \in Screens(size') /\ bell' \in BOOLEAN /\ plain' \in BOOLEAN
    BY <1>1, <1>3, <1>4 DEF TypeOK
  <2> QED
    BY <1>1, <1>12, <1>13, <1>15, <1>22, <2>1, <2>2, <2>3 DEF TypeOK
<1>24. FrameOwed'
  BY <1>1, <1>4 DEF FrameOwed, rendererVars, Framed
<1>25. BackFills'
  <2>1. \A i \in 1 .. Pushed : off'[i] = off[i]
    BY <1>6, <1>12
  <2> QED
    BY <1>1, <1>14, <2>1, BackKeeps
<1> QED
  BY <1>18, <1>20, <1>21, <1>23, <1>24, <1>25 DEF RendererInv

\* A resize reflows the screen and the history and owes a frame (term.rs:141-146).
LEMMA ResizeInv ==
  ASSUME RendererInv, Resize
  PROVE  RendererInv'
<1>1. /\ prev # <<>> /\ changes < MaxChanges /\ changes' = changes + 1
      /\ size' \in Sizes /\ plain' = FALSE /\ dirty' = TRUE
      /\ UNCHANGED <<rendererVars, wire, host>>
      /\ UNCHANGED <<alt, committed, title, bell, named>>
  BY DEF Resize, Running
<1>2. TypeOK /\ FrameOwed /\ TitleOwed /\ Captured
  BY DEF RendererInv
<1>3. /\ history \in Seq(Rows) /\ committed \in Seq(Rows) /\ off \in Seq(Rows)
      /\ Len(history) \in Nat /\ Len(committed) \in Nat /\ Len(off) \in Nat
      /\ gone \in Nat /\ Len(off) <= gone /\ Pushed \in Nat
      /\ Pushed = Len(off) - Len(history) - Len(committed)
      /\ Len(off) <= MaxOff /\ gone \in 0 .. MaxOff /\ Len(history) <= Scrollback
  <2>1. gone \in 0 .. MaxOff /\ Len(off) <= MaxOff /\ Len(history) <= Scrollback
    BY <1>2 DEF TypeOK
  <2>2. history \in Seq(Rows) /\ committed \in Seq(Rows) /\ off \in Seq(Rows)
    BY <1>2 DEF TypeOK
  <2>3. Len(history) \in Nat /\ Len(committed) \in Nat /\ Len(off) \in Nat
    BY <2>2
  <2>4. gone \in Nat
    BY <2>1, RowsAssumption
  <2> QED
    BY <1>2, <2>1, <2>2, <2>3, <2>4 DEF Captured, Pushed
<1>4. /\ lines' \in Screens(size') /\ cursor' \in Cursors
      /\ history' \in Seq(Rows) /\ Len(history') <= Scrollback /\ Len(history') \in Nat
      /\ off' \in Seq(Rows) /\ Len(off') = Pushed + Len(committed) + Len(history')
      /\ \A i \in 1 .. Pushed + Len(committed) : off'[i] = off[i]
      /\ gone' \in 0 .. MaxOff /\ Len(off') <= gone'
  <2>1. CASE size' = size
    <3>1. UNCHANGED <<lines, cursor, history, off, gone>>
      BY <2>1 DEF Resize
    <3>2. lines \in Screens(size) /\ cursor \in Cursors
      BY <1>2 DEF TypeOK
    <3> QED
      BY <1>3, <2>1, <3>1, <3>2
  <2>2. CASE size' # size
    <3>1. lines' \in Screens(size') /\ cursor' \in Cursors /\ off' = OffWith(history')
      BY <2>2 DEF Resize
    <3>2. PICK n \in 0 .. MostAbove(size') :
             /\ n <= Scrollback
             /\ gone' = gone - Len(history) + n
             /\ gone' \in 0 .. MaxOff
             /\ history' \in [1 .. n -> RowsOf(size')]
      BY <2>2 DEF Resize
    <3>3. history' \in Seq(Rows) /\ Len(history') = n
      <4>1. history' \in [1 .. n -> Rows] /\ n \in Nat
        BY <3>2 DEF RowsOf
      <4> QED
        BY <4>1, FunctionIsSeq
    <3>4. OffGrows(off', history')
      BY <1>2, <3>1, <3>3, OffWithIs
    <3>5. /\ off' \in Seq(Rows) /\ Len(off') = Len(off) - Len(history) + Len(history')
          /\ Len(off') = Pushed + Len(committed) + Len(history')
          /\ \A i \in 1 .. Pushed + Len(committed) : off'[i] = off[i]
      BY <3>4 DEF OffGrows
    <3>6. n \in Nat /\ Len(off') <= gone'
      BY <1>3, <3>2, <3>3, <3>5
    <3> QED
      BY <3>1, <3>2, <3>3, <3>5, <3>6
  <2> QED
    BY <2>1, <2>2
<1>5. Pushed' = Pushed
  <2>1. Pushed' = Len(off') - Len(history') - Len(committed)
    BY <1>1 DEF Pushed
  <2> QED
    BY <1>3, <1>4, <2>1
<1>6. Len(off') <= MaxOff
  <2>1. MaxOff \in Nat /\ Len(off') \in Nat
    BY <1>3, <1>4, RowsAssumption
  <2> QED
    BY <1>4, <2>1
<1>7. Captured'
  <2>1. ASSUME NEW i \in DOMAIN committed'
        PROVE  off'[Pushed' + i] = committed'[i]
    <3>1. i \in DOMAIN committed /\ i \in 1 .. Len(committed) /\ committed' = committed
      BY <1>1, <1>3
    <3>2. Pushed + i \in 1 .. Pushed + Len(committed)
      BY <1>3, <3>1
    <3>3. off[Pushed + i] = committed[i]
      BY <1>2, <3>1 DEF Captured
    <3> QED
      BY <1>4, <1>5, <3>1, <3>2, <3>3
  <2> QED
    BY <1>1, <1>3, <1>4, <1>5, <2>1 DEF Captured
<1>8. /\ OneFrame' /\ HostFits' /\ HighlightsTold' /\ PageTaken'
      /\ GridFollows' /\ SideFollows' /\ TitleSent' = TitleSent
  BY <1>1, EmulatorKeeps
<1>9. TitleOwed'
  BY <1>1, <1>2, <1>8 DEF TitleOwed
<1>10. TypeOK'
  <2>1. /\ hl' \in Seq(AttrSets) /\ Len(hl') <= Cardinality(AttrSets)
        /\ Len(prev') <= 1 /\ Len(prevCursor') <= 1 /\ Len(prevAlt') <= 1
    BY <1>1, <1>2, TypesKeep
  <2>2. changes' \in 0 .. MaxChanges
    BY <1>1, <1>2, RowsAssumption DEF TypeOK
  <2>3. /\ alt' \in BOOLEAN /\ bell' \in BOOLEAN /\ committed' \in Seq(Rows)
        /\ title' \in Seq(Titles) /\ named' \in Seq(Titles)
    BY <1>1, <1>2 DEF TypeOK
  <2> QED
    BY <1>1, <1>4, <1>6, <2>1, <2>2, <2>3 DEF TypeOK
<1>11. FrameOwed'
  BY <1>1, <1>2 DEF FrameOwed, rendererVars, Framed
<1>12. BackFills'
  <2>1. \A i \in 1 .. Pushed : off'[i] = off[i]
    BY <1>3, <1>4
  <2> QED
    BY <1>1, <1>5, <2>1, BackKeeps
<1> QED
  BY <1>7, <1>8, <1>9, <1>10, <1>11, <1>12 DEF RendererInv

-----------------------------------------------------------------------------
(* Steps of the host.                                                      *)

\* The order of the events, as numbers.
LEMMA Ranks ==
  /\ Rank["grid_resize"] = 1     /\ Rank["default_colors"] = 2  /\ Rank["hl_attr"] = 3
  /\ Rank["scrollback_push"] = 4 /\ Rank["grid_clear"] = 5      /\ Rank["grid_scroll"] = 6
  /\ Rank["grid_line"] = 7       /\ Rank["cursor"] = 8          /\ Rank["mode"] = 9
  /\ Rank["title"] = 10          /\ Rank["bell"] = 11           /\ Rank["flush"] = 12
  /\ DOMAIN Rank = {"grid_resize", "default_colors", "hl_attr", "scrollback_push", "grid_clear",
                    "grid_scroll", "grid_line", "cursor", "mode", "title", "bell", "flush"}
BY DEF Rank

\* The event the host reads next.
First == wire[1]

\* The host reads the first event, and what waits behind it comes later in a frame.
ReadsFirst ==
    /\ prev # <<>> /\ 1 \in DOMAIN wire /\ First.t \in DOMAIN Rank
    /\ host' = Apply(First)
    /\ IsSequence(wire') /\ DOMAIN wire' = 1 .. Len(wire')
    /\ \A i \in DOMAIN wire' :
          i + 1 \in DOMAIN wire /\ wire'[i] = wire[i + 1] /\ Before(First, wire'[i])
    /\ \A i \in DOMAIN wire : i = 1 \/ \E j \in DOMAIN wire' : wire'[j] = wire[i]
    /\ wire' = <<>> => First.t = "flush"
    /\ wire' # <<>> => wire'[Len(wire')].t = "flush"

\* The host reads the first event of a sequence.
LEMMA HostReads ==
  ASSUME RendererInv, Host
  PROVE  ReadsFirst
<1>1. wire # <<>> /\ host' = Apply(Head(wire)) /\ wire' = Tail(wire)
  BY DEF Host
<1>2. OneFrame /\ FrameOwed
  BY DEF RendererInv
<1>3. wire \in Seq(Range(wire)) /\ DOMAIN wire = 1 .. Len(wire) /\ Len(wire) \in Nat
  BY <1>2, SequenceType DEF OneFrame, IsSequence
<1>4. Head(wire) = First /\ 1 \in DOMAIN wire
  <2>1. Len(wire) > 0
    BY <1>1, <1>3
  <2> QED
    BY <1>3, <2>1 DEF First
<1>5. prev # <<>>
  BY <1>1, <1>2 DEF FrameOwed
<1>6. /\ wire' \in Seq(Range(wire)) /\ Len(wire') = Len(wire) - 1
      /\ \A i \in 1 .. Len(wire') : wire'[i] = wire[i + 1]
  BY <1>1, <1>3
<1>7. IsSequence(wire') /\ DOMAIN wire' = 1 .. Len(wire') /\ Len(wire') \in Nat
  BY <1>6, TypeSequence DEF IsSequence
<1>8. ASSUME NEW i \in DOMAIN wire'
      PROVE  i + 1 \in DOMAIN wire /\ wire'[i] = wire[i + 1] /\ Before(First, wire'[i])
  <2>1. i \in 1 .. Len(wire') /\ i + 1 \in DOMAIN wire /\ 1 < i + 1
    BY <1>3, <1>6, <1>7
  <2>2. Before(wire[1], wire[i + 1])
    BY <1>2, <1>4, <2>1 DEF OneFrame, InRankOrder
  <2> QED
    BY <1>6, <2>1, <2>2 DEF First
<1>9. ASSUME NEW i \in DOMAIN wire, i # 1
      PROVE  \E j \in DOMAIN wire' : wire'[j] = wire[i]
  <2>1. i - 1 \in DOMAIN wire' /\ (i - 1) + 1 = i
    BY <1>3, <1>6, <1>7, <1>9
  <2>2. wire'[i - 1] = wire[i]
    BY <1>6, <1>7, <2>1
  <2> QED
    BY <2>1, <2>2
<1>10. wire[Len(wire)].t = "flush"
  BY <1>1, <1>2 DEF OneFrame
<1>11. wire' = <<>> => First.t = "flush"
  <2> DEFINE m == Len(wire')
             n == Len(wire)
  <2>1. m = 0 => n = 1
    <3>1. m = n - 1 /\ n \in Nat
      BY <1>3, <1>6
    <3> HIDE DEF m, n
    <3> QED
      BY <3>1
  <2>2. wire' = <<>> => Len(wire') = 0
    OBVIOUS
  <2> QED
    BY <1>10, <2>1, <2>2 DEF First
<1>12. wire' # <<>> => wire'[Len(wire')].t = "flush"
  <2> SUFFICES ASSUME wire' # <<>>
               PROVE  wire'[Len(wire')].t = "flush"
    OBVIOUS
  <2>1. Len(wire') # 0
    BY <1>6
  <2>2. Len(wire') \in 1 .. Len(wire') /\ Len(wire') + 1 = Len(wire)
    BY <1>3, <1>6, <1>7, <2>1
  <2> QED
    BY <1>6, <1>10, <2>2
<1>13. First.t \in DOMAIN Rank
  BY <1>2, <1>4 DEF OneFrame, First
<1> QED
  BY <1>1, <1>4, <1>5, <1>7, <1>8, <1>9, <1>11, <1>12, <1>13 DEF ReadsFirst

\* What still waits once First has been read.
LEMMA StillWaits ==
  ASSUME ReadsFirst
  PROVE  /\ \A t : Waits(t) <=> First.t = t \/ Waits(t)'
         /\ \A r : LineWaits(r) <=> (First.t = "grid_line" /\ First.v.row = r) \/ LineWaits(r)'
<1>1. \A i \in DOMAIN wire' : i + 1 \in DOMAIN wire /\ wire'[i] = wire[i + 1]
  BY DEF ReadsFirst
<1>2. \A i \in DOMAIN wire : i = 1 \/ \E j \in DOMAIN wire' : wire'[j] = wire[i]
  BY DEF ReadsFirst
<1>3. 1 \in DOMAIN wire /\ wire[1] = First
  BY DEF ReadsFirst, First
<1>4. ASSUME NEW t
      PROVE  Waits(t) <=> First.t = t \/ Waits(t)'
  BY <1>1, <1>2, <1>3 DEF Waits
<1>5. ASSUME NEW r
      PROVE  LineWaits(r) <=> (First.t = "grid_line" /\ First.v.row = r) \/ LineWaits(r)'
  BY <1>1, <1>2, <1>3 DEF LineWaits
<1> QED
  BY <1>4, <1>5

\* Events of lower rank than First have been read, and First waits no longer.
LEMMA ReadBefore ==
  ASSUME ReadsFirst, NEW t \in DOMAIN Rank
  PROVE  /\ Rank[t] < Rank[First.t] => ~Waits(t) /\ ~Waits(t)'
         /\ t = First.t /\ t \notin {"hl_attr", "grid_line"} => ~Waits(t)'
<1>1. \A s \in DOMAIN Rank : Rank[s] \in Nat
  BY DEF Rank
<1>2. First.t \in DOMAIN Rank /\ \A i \in DOMAIN wire' : Before(First, wire'[i])
  BY DEF ReadsFirst
<1>3. ASSUME NEW i \in DOMAIN wire', wire'[i].t = t
      PROVE  ~(Rank[t] < Rank[First.t])
  <2> HIDE DEF Rank
  <2> QED
    BY <1>1, <1>2, <1>3 DEF Before
<1>4. ASSUME t = First.t, t \notin {"hl_attr", "grid_line"}, NEW i \in DOMAIN wire', wire'[i].t = t
      PROVE  FALSE
  <2>1. Within(First) = 0 /\ Within(wire'[i]) = 0
    BY <1>4 DEF Within
  <2> HIDE DEF Rank
  <2> QED
    BY <1>1, <1>2, <1>4, <2>1 DEF Before
<1>5. Rank[t] < Rank[First.t] => ~Waits(t)'
  BY <1>3 DEF Waits
<1>6. Rank[t] < Rank[First.t] => t # First.t
  BY <1>1, <1>2
<1>7. Waits(t) <=> First.t = t \/ Waits(t)'
  BY StillWaits
<1>8. t = First.t /\ t \notin {"hl_attr", "grid_line"} => ~Waits(t)'
  BY <1>4 DEF Waits
<1> QED
  BY <1>5, <1>6, <1>7, <1>8

\* Without its first event the rest of a frame is still the rest of a frame.
LEMMA HostOneFrame ==
  ASSUME RendererInv, Host
  PROVE  OneFrame'
<1>1. ReadsFirst
  BY HostReads
<1>2. OneFrame
  BY DEF RendererInv
<1>3. \A i \in DOMAIN wire' : i + 1 \in DOMAIN wire /\ wire'[i] = wire[i + 1]
  BY <1>1 DEF ReadsFirst
<1>4. \A i \in DOMAIN wire' : wire'[i].t \in DOMAIN Rank
  BY <1>2, <1>3 DEF OneFrame
<1>5. ASSUME NEW i \in DOMAIN wire', NEW j \in DOMAIN wire', i < j
      PROVE  Before(wire'[i], wire'[j])
  <2>1. i + 1 < j + 1
    BY <1>1, <1>5 DEF ReadsFirst
  <2>2. Before(wire[i + 1], wire[j + 1])
    BY <1>2, <1>3, <2>1 DEF OneFrame, InRankOrder
  <2> QED
    BY <1>3, <2>2
<1> QED
  BY <1>1, <1>4, <1>5 DEF ReadsFirst, OneFrame, InRankOrder

\* What each kind of event does to the host, field by field.
HostSays ==
    /\ DOMAIN host' = DOMAIN host
    /\ host'.size = IF First.t = "grid_resize" THEN First.v ELSE host.size
    /\ First.t = "grid_resize" => host'.grid = BlankGrid(First.v)
    /\ First.t = "grid_clear" => host'.grid = BlankGrid(host.size)
    /\ First.t = "grid_scroll" => host'.grid = Scrolled(First.v)
    /\ First.t = "grid_line" =>
          host'.grid = [host.grid EXCEPT ![First.v.row] = Draw(@, First.v.cells)]
    /\ First.t \notin {"grid_resize", "grid_clear", "grid_scroll", "grid_line"} =>
          host'.grid = host.grid
    /\ First.t = "hl_attr" =>
          host'.attrs = [i \in 1 .. Max({Len(host.attrs), First.v.id + 1}) |->
                            IF i = First.v.id + 1 THEN First.v.attrs ELSE host.attrs[i]]
    /\ First.t # "hl_attr" => host'.attrs = host.attrs
    /\ First.t = "scrollback_push" =>
          host'.back = host.back \o [i \in DOMAIN First.v |-> Place(First.v[i])]
    /\ First.t # "scrollback_push" => host'.back = host.back
    /\ host'.cursor = IF First.t = "cursor" THEN <<First.v>> ELSE host.cursor
    /\ host'.alt = IF First.t = "mode" THEN First.v ELSE host.alt
    /\ host'.title = IF First.t = "title" THEN <<First.v>> ELSE host.title
    /\ host'.colors = IF First.t = "default_colors" THEN TRUE ELSE host.colors
    /\ host'.page = IF First.t = "flush" THEN <<Repainted>> ELSE host.page

\* What the host does with the first event, one kind of event at a time.
LEMMA HostApplies ==
  ASSUME HostFits, ReadsFirst
  PROVE  HostSays
<1>1. DOMAIN host = {"size", "grid", "attrs", "back", "cursor", "alt", "title", "colors", "page"}
  BY DEF HostFits
<1>2. host' = Apply(First)
  BY DEF ReadsFirst
<1>3. CASE First.t = "grid_resize"
  BY <1>1, <1>2, <1>3 DEF Apply, HostSays
<1>4. CASE First.t = "default_colors"
  BY <1>1, <1>2, <1>4 DEF Apply, HostSays
<1>5. CASE First.t = "hl_attr"
  BY <1>1, <1>2, <1>5 DEF Apply, HostSays
<1>6. CASE First.t = "scrollback_push"
  BY <1>1, <1>2, <1>6 DEF Apply, HostSays
<1>7. CASE First.t = "grid_clear"
  BY <1>1, <1>2, <1>7 DEF Apply, HostSays
<1>8. CASE First.t = "grid_scroll"
  BY <1>1, <1>2, <1>8 DEF Apply, HostSays
<1>9. CASE First.t = "grid_line"
  BY <1>1, <1>2, <1>9 DEF Apply, HostSays
<1>10. CASE First.t = "cursor"
  BY <1>1, <1>2, <1>10 DEF Apply, HostSays
<1>11. CASE First.t = "mode"
  BY <1>1, <1>2, <1>11 DEF Apply, HostSays
<1>12. CASE First.t = "title"
  BY <1>1, <1>2, <1>12 DEF Apply, HostSays
<1>13. CASE First.t = "flush"
  BY <1>1, <1>2, <1>13 DEF Apply, HostSays
<1>14. CASE First.t = "bell"
  BY <1>1, <1>2, <1>14 DEF Apply, HostSays
<1> QED
  BY <1>3, <1>4, <1>5, <1>6, <1>7, <1>8, <1>9, <1>10, <1>11, <1>12, <1>13, <1>14, Ranks
  DEF ReadsFirst

\* The host does not touch the emulator or the Renderer.
HostLeaves ==
    /\ UNCHANGED <<size, lines, cursor, alt, history, committed, title, bell, dirty>>
    /\ UNCHANGED <<prev, hl, prevCursor, prevAlt, defaultsSent, changes, off, gone, plain, named>>

\* The host changes nothing of the emulator's or the Renderer's.
LEMMA HostLeavesRest ==
  ASSUME RendererInv, Host
  PROVE  /\ HostLeaves /\ TypeOK' /\ FrameOwed' /\ Captured'
         /\ Pushed' = Pushed /\ Framed' = Framed
<1>1. HostLeaves
  BY DEF Host, HostLeaves, emulatorVars, rendererVars, historyVars
<1>2. ReadsFirst
  BY HostReads
<1>3. prev # <<>>
  BY <1>2 DEF ReadsFirst
<1>4. TypeOK'
  BY <1>1 DEF HostLeaves, RendererInv, TypeOK
<1>5. FrameOwed'
  BY <1>1, <1>3 DEF HostLeaves, RendererInv, FrameOwed, Framed
<1>6. Pushed' = Pushed /\ Framed' = Framed
  BY <1>1 DEF HostLeaves, Pushed, Framed
<1>7. Captured'
  BY <1>1, <1>6 DEF HostLeaves, RendererInv, Captured
<1> QED
  BY <1>1, <1>4, <1>5, <1>6, <1>7

\* A frame has at most one title.
LEMMA OneTitle ==
  ASSUME NEW events, IsSequence(events), InRankOrder(events),
         NEW i \in DOMAIN events, events[i].t = "title"
  PROVE  LET titles == {j \in DOMAIN events : events[j].t = "title"}
         IN titles = {i} /\ Max(titles) = i
<1> DEFINE titles == {j \in DOMAIN events : events[j].t = "title"}
<1>1. DOMAIN events = 1 .. Len(events) /\ Len(events) \in Nat
  BY SequenceType DEF IsSequence
<1>2. ASSUME NEW j \in DOMAIN events, NEW k \in DOMAIN events, j < k,
             events[j].t = "title", events[k].t = "title"
      PROVE  FALSE
  <2>1. Before(events[j], events[k])
    BY <1>2 DEF InRankOrder
  <2>2. Within(events[j]) = 0 /\ Within(events[k]) = 0
    BY <1>2 DEF Within
  <2>3. Rank[events[j].t] = 10 /\ Rank[events[k].t] = 10
    BY <1>2, Ranks
  <2> QED
    BY <2>1, <2>2, <2>3 DEF Before
<1>3. ASSUME NEW j \in DOMAIN events, events[j].t = "title"
      PROVE  j = i
  <2>1. j \in Nat /\ i \in Nat
    BY <1>1
  <2>2. ~(i < j) /\ ~(j < i)
    BY <1>2, <1>3
  <2> QED
    BY <2>1, <2>2
<1>4. titles = {i}
  BY <1>3
<1>5. Max({i}) = i
  <2>1. {i, i} = {i} /\ i \in Int
    BY <1>1
  <2>2. Max({i, i}) = i
    BY <2>1, MaxOfTwo
  <2> QED
    BY <2>1, <2>2
<1> QED
  BY <1>4, <1>5

\* The title on its way stays the same as the host reads on.
LEMMA HostTitle ==
  ASSUME RendererInv, Host
  PROVE  TitleOwed' /\ TitleSent' = TitleSent
<1>1. ReadsFirst /\ OneFrame /\ OneFrame' /\ HostFits /\ HostLeaves
  BY HostReads, HostOneFrame, HostLeavesRest DEF RendererInv
<1>2. HostSays
  BY <1>1, HostApplies
<1> DEFINE before == {j \in DOMAIN wire : wire[j].t = "title"}
           after  == {j \in DOMAIN wire' : wire'[j].t = "title"}
<1>3. /\ TitleSent = IF before = {} THEN host.title ELSE <<wire[Max(before)].v>>
      /\ TitleSent' = IF after = {} THEN host'.title ELSE <<wire'[Max(after)].v>>
  BY DEF TitleSent
<1>4. \A i \in DOMAIN wire : wire[i].t = "title" => before = {i} /\ Max(before) = i
  BY <1>1, OneTitle DEF OneFrame
<1>5. \A i \in DOMAIN wire' : wire'[i].t = "title" => after = {i} /\ Max(after) = i
  BY <1>1, OneTitle DEF OneFrame
<1>6. \A i \in DOMAIN wire' : i + 1 \in DOMAIN wire /\ wire'[i] = wire[i + 1]
  BY <1>1 DEF ReadsFirst
<1>7. \A i \in DOMAIN wire : i = 1 \/ \E j \in DOMAIN wire' : wire'[j] = wire[i]
  BY <1>1 DEF ReadsFirst
<1>8. 1 \in DOMAIN wire /\ wire[1] = First
  BY <1>1 DEF ReadsFirst, First
<1> HIDE DEF before, after
<1>9. ASSUME First.t = "title"
      PROVE  TitleSent' = TitleSent
  <2>1. ~Waits("title")'
    BY <1>1, <1>9, ReadBefore DEF ReadsFirst
  <2>2. after = {}
    BY <2>1 DEF Waits, after
  <2>3. before = {1} /\ Max(before) = 1
    BY <1>4, <1>8, <1>9
  <2>4. host'.title = <<First.v>>
    BY <1>2, <1>9 DEF HostSays
  <2> QED
    BY <1>3, <1>8, <2>2, <2>3, <2>4
<1>10. ASSUME First.t # "title"
       PROVE  TitleSent' = TitleSent
  <2>1. host'.title = host.title
    BY <1>2, <1>10 DEF HostSays
  <2>2. CASE after = {}
    <3>1. before = {}
      BY <1>7, <1>8, <1>10, <2>2 DEF before, after
    <3> QED
      BY <1>3, <2>1, <2>2, <3>1
  <2>3. CASE after # {}
    <3>1. PICK i \in DOMAIN wire' : wire'[i].t = "title"
      BY <2>3 DEF after
    <3>2. after = {i} /\ Max(after) = i
      BY <1>5, <3>1
    <3>3. i + 1 \in DOMAIN wire /\ wire'[i] = wire[i + 1]
      BY <1>6
    <3>4. before = {i + 1} /\ Max(before) = i + 1
      BY <1>4, <3>1, <3>3
    <3> QED
      BY <1>3, <3>2, <3>3, <3>4
  <2> QED
    BY <2>2, <2>3
<1>11. TitleSent' = TitleSent
  BY <1>9, <1>10
<1> QED
  BY <1>1, <1>11 DEF RendererInv, TitleOwed, HostLeaves

\* With no highlight on its way the host knows the whole cache.
LEMMA AllTold ==
  ASSUME HighlightsTold, TypeOK, ~Waits("hl_attr")
  PROVE  host.attrs = hl
<1>1. /\ host.attrs \in Seq(AttrSets) /\ hl \in Seq(AttrSets)
      /\ Len(host.attrs) \in 1 .. Len(hl)
      /\ \A i \in DOMAIN host.attrs : host.attrs[i] = hl[i]
  BY DEF HighlightsTold, TypeOK
<1>2. \A n \in Len(host.attrs) + 1 .. Len(hl) : Waits("hl_attr")
  BY DEF HighlightsTold, Waits
<1> DEFINE a == host.attrs
<1>3. a \in Seq(AttrSets) /\ Len(a) \in Nat /\ Len(hl) \in Nat /\ DOMAIN a = 1 .. Len(a)
      /\ DOMAIN hl = 1 .. Len(hl)
  BY <1>1
<1>4. Len(a) \in 1 .. Len(hl) /\ (\A i \in DOMAIN a : a[i] = hl[i])
      /\ ~\E n \in Len(a) + 1 .. Len(hl) : TRUE
  BY <1>1, <1>2
<1> HIDE DEF a
<1>5. Len(a) = Len(hl)
  <2>1. Len(a) < Len(hl) => Len(hl) \in Len(a) + 1 .. Len(hl)
    BY <1>3
  <2>2. ~(Len(a) < Len(hl))
    BY <1>4, <2>1, Zenon
  <2>3. Len(a) <= Len(hl)
    BY <1>3, <1>4
  <2>4. Len(a) \in Nat /\ Len(hl) \in Nat
    BY <1>3
  <2> QED
    BY <2>2, <2>3, <2>4
<1>6. a = hl
  BY <1>1, <1>3, <1>4, <1>5
<1> QED
  BY <1>6 DEF a

\* A highlight that is read is the next of the cache: its id is the host's next.
LEMMA NextTold ==
  ASSUME HighlightsTold, ReadsFirst, TypeOK, First.t = "hl_attr"
  PROVE  /\ Len(host.attrs) + 1 \in 1 .. Len(hl)
         /\ First.v.id = Len(host.attrs) /\ First.v.attrs = hl[Len(host.attrs) + 1]
<1> DEFINE h == Len(host.attrs)
           m == Len(hl)
<1>1. /\ host.attrs \in Seq(AttrSets) /\ h \in 1 .. m /\ hl \in Seq(AttrSets)
      /\ \A i \in DOMAIN wire : wire[i].t = "hl_attr" =>
            \E n \in h + 1 .. m : wire[i].v = [id |-> n - 1, attrs |-> hl[n]]
      /\ \A n \in h + 1 .. m : \E i \in DOMAIN wire : wire[i].t = "hl_attr" /\ wire[i].v.id = n - 1
  BY Zenon DEF HighlightsTold, TypeOK
<1>2. h \in Nat /\ m \in Nat
  BY <1>1
<1>3. 1 \in DOMAIN wire /\ wire[1] = First
  BY DEF ReadsFirst, First
<1> HIDE DEF h, m
<1>4. PICK n \in h + 1 .. m : First.v = [id |-> n - 1, attrs |-> hl[n]]
  BY <1>1, <1>3
<1>5. h + 1 \in h + 1 .. m
  BY <1>2, <1>4
<1>6. PICK i \in DOMAIN wire : wire[i].t = "hl_attr" /\ wire[i].v.id = (h + 1) - 1
  BY <1>1, <1>5
<1>7. (h + 1) - 1 = h /\ n - 1 \in Nat
  BY <1>2, <1>4
<1>8. First.v.id = n - 1 /\ First.v.attrs = hl[n]
  BY <1>4
<1>9. n = h + 1
  <2>1. CASE i = 1
    BY <1>2, <1>3, <1>4, <1>6, <1>7, <1>8, <2>1
  <2>2. CASE i # 1
    <3>1. PICK j \in DOMAIN wire' : wire'[j] = wire[i]
      BY <2>2 DEF ReadsFirst
    <3>2. Before(First, wire[i])
      BY <3>1 DEF ReadsFirst
    <3>3. Rank[First.t] = 3 /\ Rank[wire[i].t] = 3
      BY <1>6, Ranks
    <3>4. Within(First) = n - 1 /\ Within(wire[i]) = h
      BY <1>6, <1>7, <1>8 DEF Within
    <3>5. n - 1 < h
      BY <3>2, <3>3, <3>4 DEF Before
    <3> QED
      BY <1>2, <1>4, <3>5
  <2> QED
    BY <2>1, <2>2
<1>10. h + 1 \in 1 .. m
  BY <1>2, <1>5
<1>11. First.v.id = h /\ First.v.attrs = hl[h + 1]
  BY <1>7, <1>8, <1>9
<1> QED
  BY <1>10, <1>11 DEF h, m

\* HighlightsTold but for the cells.
CacheTold ==
    /\ \A i, j \in DOMAIN hl : hl[i] = hl[j] => i = j
    /\ host.attrs \in Seq(AttrSets) /\ Len(host.attrs) \in 1 .. Len(hl)
    /\ \A i \in DOMAIN host.attrs : host.attrs[i] = hl[i]
    /\ \A i \in DOMAIN wire : wire[i].t = "hl_attr" =>
          \E n \in Len(host.attrs) + 1 .. Len(hl) : wire[i].v = [id |-> n - 1, attrs |-> hl[n]]
    /\ \A n \in Len(host.attrs) + 1 .. Len(hl) :
          \E i \in DOMAIN wire : wire[i].t = "hl_attr" /\ wire[i].v.id = n - 1

\* Definitions arrive in the order of their ids, so the host's table stays a first part
\* of the Renderer's (hlcache.rs:29-41).
LEMMA HostTold ==
  ASSUME RendererInv, Host
  PROVE  CacheTold' /\ Continues(host.attrs, host'.attrs)
<1>1. ReadsFirst /\ HostFits /\ HostLeaves /\ HighlightsTold /\ TypeOK
  BY HostReads, HostLeavesRest DEF RendererInv
<1>2. HostSays
  BY <1>1, HostApplies
<1>3. hl' = hl
  BY <1>1 DEF HostLeaves
<1> DEFINE a == host.attrs
           b == host'.attrs
           h == Len(a)
           m == Len(hl)
<1>4. CacheTold
  BY <1>1, Zenon DEF HighlightsTold, CacheTold
<1>5. /\ a \in Seq(AttrSets) /\ h \in 1 .. m /\ hl \in Seq(AttrSets)
      /\ \A i \in DOMAIN a : a[i] = hl[i]
      /\ \A i, j \in DOMAIN hl : hl[i] = hl[j] => i = j
  BY <1>1, <1>4, Zenon DEF CacheTold, TypeOK
<1>6. /\ \A i \in DOMAIN wire : wire[i].t = "hl_attr" =>
            \E n \in h + 1 .. m : wire[i].v = [id |-> n - 1, attrs |-> hl[n]]
      /\ \A n \in h + 1 .. m : \E i \in DOMAIN wire : wire[i].t = "hl_attr" /\ wire[i].v.id = n - 1
  BY <1>4, Zenon DEF CacheTold
<1>7. h \in Nat /\ m \in Nat /\ h >= 1 /\ h <= m /\ DOMAIN a = 1 .. h /\ DOMAIN hl = 1 .. m
  BY <1>5
<1>8. /\ \A i \in DOMAIN wire' :
            i + 1 \in DOMAIN wire /\ wire'[i] = wire[i + 1] /\ Before(First, wire'[i])
      /\ \A i \in DOMAIN wire : i = 1 \/ \E j \in DOMAIN wire' : wire'[j] = wire[i]
      /\ 1 \in DOMAIN wire /\ wire[1] = First
  BY <1>1 DEF ReadsFirst, First
<1>9. CASE First.t # "hl_attr"
  <2>1. b = a
    BY <1>2, <1>9 DEF HostSays
  <2>2. ASSUME NEW i \in DOMAIN wire', wire'[i].t = "hl_attr"
        PROVE  \E n \in h + 1 .. m : wire'[i].v = [id |-> n - 1, attrs |-> hl[n]]
    <3>1. i + 1 \in DOMAIN wire /\ wire'[i] = wire[i + 1]
      BY <1>8
    <3>2. wire[i + 1].t = "hl_attr"
      BY <2>2, <3>1
    <3> HIDE DEF h, m
    <3>3. PICK n \in h + 1 .. m : wire[i + 1].v = [id |-> n - 1, attrs |-> hl[n]]
      BY <1>6, <3>1, <3>2
    <3> QED
      BY <3>1, <3>3
  <2>3. ASSUME NEW n \in h + 1 .. m
        PROVE  \E i \in DOMAIN wire' : wire'[i].t = "hl_attr" /\ wire'[i].v.id = n - 1
    <3>1. PICK i \in DOMAIN wire : wire[i].t = "hl_attr" /\ wire[i].v.id = n - 1
      BY <1>6
    <3>2. i # 1
      BY <1>8, <1>9, <3>1
    <3> QED
      BY <1>8, <3>1, <3>2
  <2>4. Continues(a, b)
    BY <2>1 DEF Continues
  <2>5. CacheTold'
    BY <1>3, <1>5, <2>1, <2>2, <2>3, Zenon DEF CacheTold
  <2> QED
    BY <2>4, <2>5
<1>10. CASE First.t = "hl_attr"
  <2>1. h + 1 \in 1 .. m /\ First.v.id = h /\ First.v.attrs = hl[h + 1]
    BY <1>1, <1>10, NextTold
  <2>2. Max({h, First.v.id + 1}) = h + 1
    <3>1. h \in Int /\ h + 1 \in Int
      BY <1>7
    <3>2. Max({h, h + 1}) = h + 1
      BY <1>7, <3>1, MaxOfTwo
    <3> QED
      BY <2>1, <3>2
  <2>3. b = [i \in 1 .. h + 1 |-> IF i = h + 1 THEN hl[h + 1] ELSE a[i]]
    <3>1. b = [i \in 1 .. Max({h, First.v.id + 1}) |->
                 IF i = First.v.id + 1 THEN First.v.attrs ELSE a[i]]
      BY <1>2, <1>10, Zenon DEF HostSays
    <3> HIDE DEF a, b, h, m
    <3> QED
      BY <2>1, <2>2, <3>1
  <2> HIDE DEF a, b, h, m
  <2>4. /\ b \in [1 .. h + 1 -> AttrSets]
        /\ \A i \in 1 .. h + 1 : b[i] = hl[i]
    <3>1. ASSUME NEW i \in 1 .. h + 1
          PROVE  i \in DOMAIN hl /\ hl[i] \in AttrSets /\ b[i] = hl[i]
      <4>1. i \in DOMAIN hl
        BY <1>7, <2>1
      <4>2. hl[i] \in AttrSets
        BY <1>5, <4>1
      <4>3. i = h + 1 \/ i \in DOMAIN a
        BY <1>7
      <4> QED
        BY <1>5, <2>3, <4>1, <4>2, <4>3
    <3> QED
      BY <2>3, <3>1
  <2>5. b \in Seq(AttrSets) /\ Len(b) = h + 1 /\ DOMAIN b = 1 .. h + 1
    <3>1. h + 1 \in Nat
      BY <1>7
    <3> QED
      BY <2>4, <3>1, FunctionIsSeq
  <2>6. ASSUME NEW i \in DOMAIN wire', wire'[i].t = "hl_attr"
        PROVE  \E n \in Len(b) + 1 .. m : wire'[i].v = [id |-> n - 1, attrs |-> hl[n]]
    <3>1. i + 1 \in DOMAIN wire /\ wire'[i] = wire[i + 1] /\ Before(First, wire'[i])
      BY <1>8
    <3>2. PICK n \in h + 1 .. m : wire'[i].v = [id |-> n - 1, attrs |-> hl[n]]
      BY <1>6, <2>6, <3>1
    <3>3. Rank[First.t] = 3 /\ Rank[wire'[i].t] = 3
      BY <1>10, <2>6, Ranks
    <3>4. Within(First) = h /\ Within(wire'[i]) = n - 1
      BY <1>10, <2>1, <2>6, <3>2 DEF Within
    <3>5. h < n - 1
      BY <3>1, <3>3, <3>4 DEF Before
    <3>6. n \in Len(b) + 1 .. m
      BY <1>7, <2>5, <3>5
    <3> QED
      BY <3>2, <3>6
  <2>7. ASSUME NEW n \in Len(b) + 1 .. m
        PROVE  \E i \in DOMAIN wire' : wire'[i].t = "hl_attr" /\ wire'[i].v.id = n - 1
    <3>1. n \in h + 1 .. m /\ n - 1 # h
      BY <1>7, <2>5
    <3>2. PICK i \in DOMAIN wire : wire[i].t = "hl_attr" /\ wire[i].v.id = n - 1
      BY <1>6, <3>1
    <3>3. i # 1
      BY <1>8, <2>1, <3>1, <3>2
    <3> QED
      BY <1>8, <3>2, <3>3
  <2>8. Continues(a, b)
    <3>1. ASSUME NEW i \in DOMAIN a
          PROVE  i \in DOMAIN b /\ b[i] = a[i]
      <4>1. i \in 1 .. h + 1
        BY <1>7
      <4> QED
        BY <1>5, <2>4, <2>5, <4>1
    <3> QED
      BY <3>1 DEF Continues
  <2>9. CacheTold'
    <3>1. Len(b) \in 1 .. m /\ \A i \in DOMAIN b : b[i] = hl[i]
      BY <2>1, <2>4, <2>5
    <3> QED
      BY <1>3, <1>5, <2>5, <2>6, <2>7, <3>1, Zenon DEF CacheTold, b, m
  <2> QED
    BY <2>8, <2>9 DEF a, b
<1> QED
  BY <1>9, <1>10

\* Every column's highlight is in attrs.
IsKnown(columns, attrs) == \A c \in DOMAIN columns : columns[c][2] + 1 \in DOMAIN attrs

\* A highlight once known stays known.
LEMMA KnownGrows ==
  ASSUME NEW columns, NEW attrs, NEW more, IsKnown(columns, attrs), Continues(attrs, more)
  PROVE  IsKnown(columns, more)
BY DEF IsKnown, Continues

\* Columns that show a row have highlights the host was told, and the row's width.
LEMMA ShownIsKnown ==
  ASSUME NEW s \in Sizes, NEW row \in RowsOf(s), NEW columns, NEW attrs,
         Shows(columns, Looks[row], attrs)
  PROVE  IsKnown(columns, attrs) /\ DOMAIN columns = 1 .. s.cols
<1>1. Len(Looks[row]) = s.cols /\ DOMAIN Looks[row] = 1 .. s.cols
  BY RowFits
<1>2. DOMAIN columns = 1 .. s.cols
  BY <1>1, SequenceType DEF Shows
<1> QED
  BY <1>1, <1>2 DEF Shows, IsKnown

\* A line that shows a row still does when it is drawn over a row of the grid.
LEMMA DrawShows ==
  ASSUME NEW s \in Sizes, NEW row \in RowsOf(s), NEW old, DOMAIN old = 1 .. s.cols,
         NEW cells, NEW attrs, Shows(Place(cells), Looks[row], attrs)
  PROVE  Shows(Draw(old, cells), Looks[row], attrs)
<1> DEFINE new  == Place(cells)
           then == Draw(old, cells)
           n    == s.cols
           picture == Looks[row]
<1>1. Len(picture) = n /\ DOMAIN picture = 1 .. n /\ n \in Nat
  BY RowFits
<1>2. then = [c \in DOMAIN old |-> IF c <= Len(new) THEN new[c] ELSE old[c]]
  BY DEF Draw
<1>3. /\ Len(new) = Len(picture)
      /\ \A c \in DOMAIN picture :
            /\ new[c][1] = picture[c][1]
            /\ new[c][2] + 1 \in DOMAIN attrs
            /\ attrs[new[c][2] + 1] = picture[c][2]
  BY DEF Shows
<1> HIDE DEF new, then, n, picture
<1>4. DOMAIN then = 1 .. n /\ \A c \in 1 .. n : then[c] = new[c]
  BY <1>1, <1>2, <1>3 DEF n
<1>5. then = [c \in 1 .. n |-> then[c]]
  BY <1>2, <1>4 DEF n
<1>6. Len(then) = n
  <2>1. then \in [1 .. n -> Range(then)]
    BY <1>4, <1>5 DEF Range
  <2> QED
    BY <1>1, <2>1, FunctionIsSeq
<1>7. IsSequence(then)
  BY <1>1, <1>5, <1>6 DEF IsSequence
<1>8. Shows(then, picture, attrs)
  BY <1>1, <1>3, <1>4, <1>6, <1>7 DEF Shows
<1> QED
  BY <1>8 DEF then, picture

\* The screen of the last frame.
LEMMA FramedFits ==
  ASSUME FrameOwed, prev # <<>>
  PROVE  /\ Framed.size \in Sizes /\ Framed.size.rows \in Nat \ {0} /\ Framed.size.cols \in Nat
         /\ DOMAIN Framed.lines = 1 .. Framed.size.rows
         /\ \A r \in 1 .. Framed.size.rows : Framed.lines[r] \in RowsOf(Framed.size)
<1>1. Framed.size \in Sizes /\ Framed.lines \in Screens(Framed.size)
  BY DEF FrameOwed
<1> QED
  BY <1>1, ScreenFits

\* When a row is read, the grid has its size and the highlights are known.
LEMMA LineIsDrawn ==
  ASSUME RendererInv, ReadsFirst, HostSays, First.t = "grid_line"
  PROVE  /\ host.size = Framed.size /\ host.attrs = hl
         /\ First.v.row \in 1 .. Framed.size.rows
         /\ DOMAIN host'.grid = DOMAIN host.grid
         /\ Shows(host'.grid[First.v.row], Looks[Framed.lines[First.v.row]], hl)
         /\ \A r \in DOMAIN host.grid : r # First.v.row => host'.grid[r] = host.grid[r]
<1>1. FrameOwed /\ HostFits /\ HighlightsTold /\ GridFollows /\ TypeOK /\ prev # <<>>
  BY DEF RendererInv, ReadsFirst
<1>2. ~Waits("grid_resize") /\ ~Waits("hl_attr")
  BY Ranks, ReadBefore
<1>3. host.size = Framed.size /\ host.attrs = hl
  BY <1>1, <1>2, AllTold DEF GridFollows
<1> DEFINE r == First.v.row
           row == Framed.lines[r]
           s == Framed.size
<1>4. r \in 1 .. s.rows /\ Shows(Place(First.v.cells), Looks[row], hl)
  <2>1. 1 \in DOMAIN wire /\ wire[1] = First
    BY DEF ReadsFirst, First
  <2> QED
    BY <1>1, <2>1 DEF GridFollows
<1>5. s \in Sizes /\ row \in RowsOf(s)
  BY <1>1, <1>4, FramedFits
<1>6. DOMAIN host.grid = 1 .. s.rows /\ DOMAIN host.grid[r] = 1 .. s.cols
  BY <1>1, <1>3, <1>4, SequenceType DEF HostFits
<1>7. host'.grid = [host.grid EXCEPT ![r] = Draw(@, First.v.cells)]
  BY DEF HostSays
<1> HIDE DEF r, row, s
<1>8. Shows(Draw(host.grid[r], First.v.cells), Looks[row], hl)
  BY <1>4, <1>5, <1>6, DrawShows
<1>9. /\ DOMAIN host'.grid = DOMAIN host.grid
      /\ host'.grid[r] = Draw(host.grid[r], First.v.cells)
      /\ \A q \in DOMAIN host.grid : q # r => host'.grid[q] = host.grid[q]
  BY <1>4, <1>6, <1>7
<1> QED
  BY <1>3, <1>4, <1>8, <1>9 DEF r, row, s

\* When committed lines are read, the highlights are known.
LEMMA LinesArePushed ==
  ASSUME RendererInv, ReadsFirst, HostSays, First.t = "scrollback_push"
  PROVE  /\ host.attrs = hl /\ IsSequence(host'.back)
         /\ Len(host'.back) = Pushed /\ DOMAIN host'.back = 1 .. Pushed
         /\ \A i \in DOMAIN host'.back : Shows(host'.back[i], Looks[off[i]], hl)
<1>1. HostFits /\ HighlightsTold /\ BackFills /\ TypeOK
  BY DEF RendererInv
<1>2. ~Waits("hl_attr")
  BY Ranks, ReadBefore
<1>3. host.attrs = hl
  BY <1>1, <1>2, AllTold
<1> DEFINE back == host.back
           v    == First.v
           more == [i \in DOMAIN v |-> Place(v[i])]
<1>4. /\ IsSequence(v) /\ Len(back) + Len(v) = Pushed
      /\ \A n \in DOMAIN v : Shows(Place(v[n]), Looks[off[Len(back) + n]], hl)
  <2>1. 1 \in DOMAIN wire /\ wire[1] = First
    BY DEF ReadsFirst, First
  <2> QED
    BY <1>1, <2>1 DEF BackFills
<1>5. IsSequence(back) /\ \A i \in DOMAIN back : Shows(back[i], Looks[off[i]], hl)
  BY <1>1, <1>3 DEF HostFits, BackFills
<1>6. host'.back = back \o more
  BY DEF HostSays
<1> HIDE DEF back, v
<1>7. /\ Len(back) \in Nat /\ Len(v) \in Nat
      /\ DOMAIN back = 1 .. Len(back) /\ DOMAIN v = 1 .. Len(v)
  BY <1>4, <1>5, SequenceType DEF IsSequence
<1>8. IsSequence(more) /\ Len(more) = Len(v)
  <2>1. DOMAIN more = 1 .. Len(v)
    BY <1>7
  <2>2. more = [i \in 1 .. Len(v) |-> more[i]]
    BY <1>7
  <2> HIDE DEF more
  <2>3. more \in [1 .. Len(v) -> Range(more)]
    BY <2>1, <2>2 DEF Range
  <2>4. Len(more) = Len(v)
    BY <1>7, <2>3, FunctionIsSeq
  <2> QED
    BY <1>7, <2>2, <2>4 DEF IsSequence
<1>9. \A n \in 1 .. Len(v) : Shows(more[n], Looks[off[Len(back) + n]], hl)
  BY <1>4, <1>7
<1> HIDE DEF more
<1> DEFINE whole == back \o more
<1>10. IsSequence(whole) /\ Joins(whole, back, more)
  BY <1>5, <1>8, SequencesJoin
<1> HIDE DEF whole
<1>11. /\ Len(whole) = Pushed /\ DOMAIN whole = 1 .. Pushed
       /\ \A i \in 1 .. Len(back) : whole[i] = back[i]
       /\ \A n \in 1 .. Len(v) : whole[Len(back) + n] = more[n]
  BY <1>4, <1>8, <1>10, SequenceType DEF Joins
<1>12. ASSUME NEW i \in 1 .. Pushed
       PROVE  Shows(whole[i], Looks[off[i]], hl)
  <2>1. CASE i <= Len(back)
    <3>1. i \in DOMAIN back
      BY <1>7, <2>1
    <3> QED
      BY <1>5, <1>7, <1>11, <3>1
  <2>2. CASE i > Len(back)
    <3>1. i - Len(back) \in 1 .. Len(v) /\ Len(back) + (i - Len(back)) = i
      BY <1>4, <1>7, <2>2
    <3> QED
      BY <1>9, <1>11, <3>1
  <2> QED
    BY <1>7, <2>1, <2>2
<1> QED
  BY <1>3, <1>6, <1>10, <1>11, <1>12 DEF whole

\* The same for a line whose size is another.
LEMMA LineIsKnown ==
  ASSUME NEW row \in Rows, NEW columns, NEW attrs, Shows(columns, Looks[row], attrs)
  PROVE  IsKnown(columns, attrs)
<1> DEFINE picture == Looks[row]
<1>1. row \in Seq(Range(row)) /\ picture = Picture(row)
  BY RowType
<1>2. picture \in Seq(TextsOf(row) \X Range(AttrsOf(row)))
  BY <1>1, PictureType
<1> HIDE DEF picture
<1>3. DOMAIN picture = 1 .. Len(picture)
  BY <1>2
<1>4. Shows(columns, picture, attrs)
  BY DEF picture
<1>5. DOMAIN columns = DOMAIN picture
  BY <1>3, <1>4, SequenceType DEF Shows
<1> QED
  BY <1>4, <1>5 DEF Shows, IsKnown

\* The grid always has the host's size, and no cell with an unknown highlight.
LEMMA HostGrid ==
  ASSUME RendererInv, Host
  PROVE  /\ IsGrid(host'.grid, host'.size) /\ host'.size \in Sizes
         /\ \A r \in DOMAIN host'.grid : IsKnown(host'.grid[r], host'.attrs)
<1>1. ReadsFirst /\ HostFits /\ HighlightsTold /\ FrameOwed /\ GridFollows /\ prev # <<>>
  BY HostReads DEF RendererInv, ReadsFirst
<1>2. HostSays
  BY <1>1, HostApplies
<1>3. Continues(host.attrs, host'.attrs) /\ CacheTold'
  BY HostTold
<1> DEFINE grid == host.grid
           then == host'.grid
           s    == host.size
           attrs == host'.attrs
<1>4. IsGrid(grid, s) /\ s \in Sizes /\ s.rows \in Nat
  <2>1. s \in Sizes /\ s.rows \in Nat
    BY <1>1, RowsAssumption DEF HostFits
  <2>2. DOMAIN grid = 1 .. s.rows
    BY <1>1, SequenceType DEF HostFits
  <2> QED
    BY <1>1, <2>1, <2>2 DEF HostFits, IsGrid
<1>5. \A r \in DOMAIN grid : IsKnown(grid[r], attrs)
  <2>1. \A r \in DOMAIN grid : IsKnown(grid[r], host.attrs)
    BY <1>1 DEF HighlightsTold, IdsDefined, Known, IsKnown
  <2> QED
    BY <1>3, <2>1, KnownGrows
<1>6. 1 \in DOMAIN attrs
  <2>1. attrs \in Seq(AttrSets) /\ Len(attrs) >= 1
    <3>1. attrs \in Seq(AttrSets) /\ Len(attrs) \in 1 .. Len(hl')
      BY <1>3 DEF CacheTold
    <3> QED
      BY <3>1
  <2> QED
    BY <2>1
<1>7. ASSUME NEW z \in Sizes
      PROVE  IsGrid(BlankGrid(z), z) /\ \A r \in DOMAIN BlankGrid(z) : IsKnown(BlankGrid(z)[r], attrs)
  <2> DEFINE g == BlankGrid(z)
  <2>1. IsGrid(g, z) /\ \A r \in 1 .. z.rows : \A c \in 1 .. z.cols : g[r][c][2] = 0
    BY BlankGridIs
  <2> HIDE DEF g
  <2>2. DOMAIN g = 1 .. z.rows /\ \A r \in 1 .. z.rows : DOMAIN g[r] = 1 .. z.cols
    BY <2>1 DEF IsGrid
  <2>3. 0 + 1 = 1
    OBVIOUS
  <2>4. \A r \in DOMAIN g : IsKnown(g[r], attrs)
    BY <1>6, <2>1, <2>2, <2>3 DEF IsKnown
  <2> QED
    BY <2>1, <2>4 DEF g
<1>8. 1 \in DOMAIN wire /\ wire[1] = First
  BY <1>1 DEF ReadsFirst, First
<1> HIDE DEF grid, then, s, attrs
<1>9. ASSUME First.t \notin {"grid_resize", "grid_clear", "grid_scroll", "grid_line"}
      PROVE  IsGrid(then, host'.size) /\ host'.size \in Sizes /\ \A r \in DOMAIN then : IsKnown(then[r], attrs)
  <2>1. then = grid /\ host'.size = s
    BY <1>2, <1>9 DEF HostSays, then, grid, s
  <2> QED
    BY <1>4, <1>5, <2>1
<1>10. ASSUME First.t = "grid_resize"
       PROVE  IsGrid(then, host'.size) /\ host'.size \in Sizes /\ \A r \in DOMAIN then : IsKnown(then[r], attrs)
  <2>1. First.v = Framed.size
    BY <1>1, <1>8, <1>10 DEF GridFollows
  <2>2. First.v \in Sizes
    BY <1>1, <2>1, FramedFits
  <2>3. then = BlankGrid(First.v) /\ host'.size = First.v
    BY <1>2, <1>10 DEF HostSays, then
  <2> QED
    BY <1>7, <2>2, <2>3
<1>11. ASSUME First.t = "grid_clear"
       PROVE  IsGrid(then, host'.size) /\ host'.size \in Sizes /\ \A r \in DOMAIN then : IsKnown(then[r], attrs)
  <2>1. then = BlankGrid(s) /\ host'.size = s
    BY <1>2, <1>11 DEF HostSays, then, s
  <2> QED
    BY <1>4, <1>7, <2>1
<1>12. ASSUME First.t = "grid_scroll"
       PROVE  IsGrid(then, host'.size) /\ host'.size \in Sizes /\ \A r \in DOMAIN then : IsKnown(then[r], attrs)
  <2>1. then = Scrolled(First.v) /\ host'.size = s
    BY <1>2, <1>12 DEF HostSays, then, s
  <2>2. s.rows \in Nat /\ DOMAIN grid = 1 .. s.rows
    BY <1>4 DEF IsGrid
  <2>3. Len(grid) = s.rows
    BY <1>4 DEF IsGrid
  <2> DEFINE k == First.v
             b == BlankRow(s)
  <2>4. k \in 1 .. Framed.size.rows - 1
    BY <1>1, <1>8, <1>12 DEF GridFollows
  <2>5. k \in Nat
    BY <1>1, <2>4, FramedFits
  <2>6. \/ then = [r \in 1 .. s.rows |-> IF r + k <= s.rows THEN grid[r + k] ELSE grid[r]]
        \/ then = [r \in 1 .. s.rows |-> IF r + k <= s.rows THEN grid[r + k] ELSE b]
    BY <2>1, <2>3 DEF Scrolled, ScrollUp, ScrollUpBlank, grid, s
  <2>7. DOMAIN b = 1 .. s.cols /\ IsKnown(b, attrs)
    BY <1>6 DEF BlankRow, IsKnown
  <2> HIDE DEF k, b
  <2>8. ASSUME NEW r \in 1 .. s.rows
        PROVE  DOMAIN then[r] = 1 .. s.cols /\ IsKnown(then[r], attrs)
    <3>1. \A q \in 1 .. s.rows : DOMAIN grid[q] = 1 .. s.cols /\ IsKnown(grid[q], attrs)
      BY <1>4, <1>5, <2>2 DEF IsGrid
    <3>2. r + k <= s.rows => r + k \in 1 .. s.rows
      BY <2>2, <2>5
    <3>3. \/ \E q \in 1 .. s.rows : then[r] = grid[q]
          \/ then[r] = b
      BY <2>6, <3>2
    <3> QED
      BY <2>7, <3>1, <3>3
  <2>9. IsSequence(then) /\ Len(then) = s.rows /\ DOMAIN then = 1 .. s.rows
    <3>1. then = [r \in 1 .. s.rows |-> then[r]]
      BY <2>6
    <3> QED
      BY <2>2, <3>1, FunctionIsSequence
  <2> QED
    BY <1>4, <2>1, <2>8, <2>9 DEF IsGrid
<1>13. ASSUME First.t = "grid_line"
       PROVE  IsGrid(then, host'.size) /\ host'.size \in Sizes /\ \A r \in DOMAIN then : IsKnown(then[r], attrs)
  <2> DEFINE q == First.v.row
             row == Framed.lines[q]
  <2>1. /\ s = Framed.size /\ host.attrs = hl /\ q \in 1 .. s.rows
        /\ DOMAIN then = DOMAIN grid
        /\ Shows(then[q], Looks[row], hl)
        /\ \A r \in DOMAIN grid : r # q => then[r] = grid[r]
    BY <1>1, <1>2, <1>13, LineIsDrawn DEF s, then, grid
  <2>5. IsSequence(then) /\ Len(then) = s.rows
    <3>1. then = [grid EXCEPT ![q] = Draw(@, First.v.cells)]
      BY <1>2, <1>13 DEF HostSays, then, grid
    <3>2. DOMAIN grid = 1 .. s.rows
      BY <1>4 DEF IsGrid
    <3>3. then = [r \in 1 .. s.rows |-> then[r]]
      BY <3>1, <3>2
    <3> QED
      BY <1>4, <3>3, FunctionIsSequence
  <2>2. row \in RowsOf(s)
    BY <1>1, <2>1, FramedFits
  <2> HIDE DEF q, row
  <2>3. attrs = hl /\ host'.size = s
    BY <1>2, <1>13, <2>1 DEF HostSays, attrs, s
  <2>4. IsKnown(then[q], attrs) /\ DOMAIN then[q] = 1 .. s.cols
    BY <1>4, <2>1, <2>2, <2>3, ShownIsKnown
  <2> QED
    BY <1>4, <1>5, <2>1, <2>3, <2>4, <2>5 DEF IsGrid
<1>14. IsGrid(then, host'.size) /\ host'.size \in Sizes /\ \A r \in DOMAIN then : IsKnown(then[r], attrs)
  BY <1>9, <1>10, <1>11, <1>12, <1>13
<1> QED
  BY <1>14 DEF then, attrs

\* The lines of the scrollback.
LEMMA HostBack ==
  ASSUME RendererInv, Host
  PROVE  /\ IsSequence(host'.back) /\ BackFills'
         /\ \A l \in DOMAIN host'.back : IsKnown(host'.back[l], host'.attrs)
<1>1. ReadsFirst /\ HostFits /\ HighlightsTold /\ BackFills /\ HostLeaves /\ TypeOK
      /\ Pushed' = Pushed
  BY HostReads, HostLeavesRest DEF RendererInv
<1>2. HostSays
  BY <1>1, HostApplies
<1>3. Continues(host.attrs, host'.attrs)
  BY HostTold
<1>4. off' = off /\ hl' = hl
  BY <1>1 DEF HostLeaves
<1>5. \A i \in DOMAIN wire' : i + 1 \in DOMAIN wire /\ wire'[i] = wire[i + 1]
  BY <1>1 DEF ReadsFirst
<1>6. CASE First.t # "scrollback_push"
  <2>1. host'.back = host.back
    BY <1>2, <1>6 DEF HostSays
  <2>2. IsSequence(host'.back)
    BY <1>1, <2>1 DEF HostFits
  <2>3. \A i \in DOMAIN host'.back : Shows(host'.back[i], Looks[off'[i]], host'.attrs)
    <3>1. \A i \in DOMAIN host.back : Shows(host.back[i], Looks[off[i]], host.attrs)
      BY <1>1 DEF BackFills
    <3> QED
      BY <1>3, <1>4, <2>1, <3>1, ShowsGrows
  <2>4. ASSUME NEW i \in DOMAIN wire', wire'[i].t = "scrollback_push"
        PROVE  /\ IsSequence(wire'[i].v)
               /\ Len(host'.back) + Len(wire'[i].v) = Pushed'
               /\ \A n \in DOMAIN wire'[i].v :
                     Shows(Place(wire'[i].v[n]), Looks[off'[Len(host'.back) + n]], hl')
    <3>1. i + 1 \in DOMAIN wire /\ wire'[i] = wire[i + 1]
      BY <1>5
    <3> DEFINE e == wire[i + 1]
    <3>2. e.t = "scrollback_push"
      BY <2>4, <3>1
    <3>3. /\ IsSequence(e.v)
          /\ Len(host.back) + Len(e.v) = Pushed
          /\ \A n \in DOMAIN e.v :
                Shows(Place(e.v[n]), Looks[off[Len(host.back) + n]], hl)
      BY <1>1, <3>1, <3>2, Zenon DEF BackFills
    <3> QED
      BY <1>1, <1>4, <2>1, <3>1, <3>3, Zenon
  <2>5. ~Waits("scrollback_push")' => Len(host'.back) = Pushed'
    <3>1. Waits("scrollback_push") <=> Waits("scrollback_push")'
      BY <1>1, <1>6, StillWaits
    <3> QED
      BY <1>1, <2>1, <3>1 DEF BackFills
  <2>6. BackFills'
    BY <2>3, <2>4, <2>5 DEF BackFills
  <2>7. \A l \in DOMAIN host'.back : IsKnown(host'.back[l], host'.attrs)
    <3>1. \A l \in DOMAIN host.back : IsKnown(host.back[l], host.attrs)
      BY <1>1 DEF HighlightsTold, IdsDefined, Known, IsKnown
    <3> QED
      BY <1>3, <2>1, <3>1, KnownGrows
  <2> QED
    BY <2>2, <2>6, <2>7
<1>7. CASE First.t = "scrollback_push"
  <2>1. /\ host.attrs = hl /\ IsSequence(host'.back)
        /\ Len(host'.back) = Pushed /\ DOMAIN host'.back = 1 .. Pushed
        /\ \A i \in DOMAIN host'.back : Shows(host'.back[i], Looks[off[i]], hl)
    BY <1>1, <1>2, <1>7, LinesArePushed
  <2>2. host'.attrs = hl
    BY <1>2, <1>7, <2>1 DEF HostSays
  <2>3. ~Waits("scrollback_push")'
    BY <1>1, <1>7, ReadBefore DEF ReadsFirst
  <2>4. \A i \in DOMAIN wire' : wire'[i].t # "scrollback_push"
    BY <2>3 DEF Waits
  <2>5. BackFills'
    BY <1>1, <1>4, <2>1, <2>2, <2>4, Zenon DEF BackFills
  <2>6. ASSUME NEW l \in DOMAIN host'.back
        PROVE  IsKnown(host'.back[l], host'.attrs)
    <3>1. off[l] \in Rows
      <4>1. off \in Seq(Rows) /\ Len(off) \in Nat /\ Pushed <= Len(off)
        <5>1. off \in Seq(Rows) /\ history \in Seq(Rows) /\ committed \in Seq(Rows)
          BY <1>1 DEF TypeOK
        <5>2. Len(off) \in Nat /\ Len(history) \in Nat /\ Len(committed) \in Nat
          BY <5>1
        <5>3. Pushed = Len(off) - Len(history) - Len(committed)
          BY DEF Pushed
        <5> QED
          BY <5>1, <5>2, <5>3
      <4>2. Pushed \in Nat
        BY DEF RendererInv, Captured
      <4>3. l \in 1 .. Len(off)
        BY <2>1, <4>1, <4>2
      <4> QED
        BY <4>1, <4>3
    <3>2. Shows(host'.back[l], Looks[off[l]], host'.attrs)
      BY <2>1, <2>2
    <3> QED
      BY <3>1, <3>2, LineIsKnown
  <2> QED
    BY <2>1, <2>5, <2>6
<1> QED
  BY <1>6, <1>7

\* The host's grid keeps its size, its cells known highlights, its scrollback the lines
\* pushed.
LEMMA HostKeepsFit ==
  ASSUME RendererInv, Host
  PROVE  HostFits' /\ HighlightsTold' /\ BackFills'
<1>1. ReadsFirst /\ HostFits
  BY HostReads DEF RendererInv
<1>2. DOMAIN host' = DOMAIN host
  BY <1>1, HostApplies DEF HostSays
<1>3. /\ IsGrid(host'.grid, host'.size) /\ host'.size \in Sizes
      /\ \A r \in DOMAIN host'.grid : IsKnown(host'.grid[r], host'.attrs)
  BY HostGrid
<1>4. /\ IsSequence(host'.back) /\ BackFills'
      /\ \A l \in DOMAIN host'.back : IsKnown(host'.back[l], host'.attrs)
  BY HostBack
<1>5. HostFits'
  BY <1>1, <1>2, <1>3, <1>4 DEF HostFits, IsGrid
<1>6. IdsDefined'
  BY <1>3, <1>4 DEF IdsDefined, IsKnown, Known
<1>7. HighlightsTold'
  BY <1>6, HostTold, Zenon DEF HighlightsTold, CacheTold
<1> QED
  BY <1>4, <1>5, <1>7

\* Cursor, mode and colours are those of the last frame or still to come.
LEMMA HostSide ==
  ASSUME RendererInv, Host
  PROVE  SideFollows'
<1>1. ReadsFirst /\ HostFits /\ HostLeaves /\ prev # <<>>
  BY HostReads, HostLeavesRest DEF RendererInv, ReadsFirst
<1>2. SideFollows
  BY <1>1 DEF RendererInv
<1>3. HostSays
  BY <1>1, HostApplies
<1>4. prevCursor' = prevCursor /\ prevAlt' = prevAlt
  BY <1>1 DEF HostLeaves
<1>5. \A i \in DOMAIN wire' : i + 1 \in DOMAIN wire /\ wire'[i] = wire[i + 1]
  BY <1>1 DEF ReadsFirst
<1>6. 1 \in DOMAIN wire /\ wire[1] = First
  BY <1>1 DEF ReadsFirst, First
<1>7. \A t : Waits(t) <=> First.t = t \/ Waits(t)'
  BY <1>1, StillWaits
<1>8. /\ \A i \in DOMAIN wire' : wire'[i].t = "cursor" => <<wire'[i].v>> = prevCursor'
      /\ \A i \in DOMAIN wire' : wire'[i].t = "mode" => <<wire'[i].v>> = prevAlt'
  BY <1>2, <1>4, <1>5 DEF SideFollows
<1>9. ~Waits("cursor")' => host'.cursor = prevCursor'
  <2>1. CASE First.t = "cursor"
    BY <1>2, <1>3, <1>4, <1>6, <2>1 DEF SideFollows, HostSays
  <2>2. CASE First.t # "cursor"
    BY <1>2, <1>3, <1>4, <1>7, <2>2 DEF SideFollows, HostSays
  <2> QED
    BY <2>1, <2>2
<1>10. ~Waits("mode")' => <<host'.alt>> = prevAlt'
  <2>1. CASE First.t = "mode"
    BY <1>2, <1>3, <1>4, <1>6, <2>1 DEF SideFollows, HostSays
  <2>2. CASE First.t # "mode"
    BY <1>2, <1>3, <1>4, <1>7, <2>2 DEF SideFollows, HostSays
  <2> QED
    BY <2>1, <2>2
<1>11. ~Waits("default_colors")' => host'.colors
  BY <1>2, <1>3, <1>7 DEF SideFollows, HostSays
<1> QED
  BY <1>8, <1>9, <1>10, <1>11 DEF SideFollows

\* RowArrives(r, n) once the host has read the event.
NowArrives(r, n) ==
    LineWaits(r)' \/ Shows(host'.grid[n], Looks[Framed'.lines[r]], host'.attrs)

\* A row that arrives still does once an event is read that touches no row.
LEMMA ArrivesStill ==
  ASSUME RendererInv, Host, NEW r, NEW n, RowArrives(r, n),
         First.t \notin {"grid_resize", "grid_clear", "grid_scroll", "grid_line"}
  PROVE  NowArrives(r, n)
<1>1. ReadsFirst /\ HostFits /\ Framed' = Framed
  BY HostReads, HostLeavesRest DEF RendererInv
<1>2. host'.grid = host.grid
  BY <1>1, HostApplies DEF HostSays
<1>3. CASE LineWaits(r)
  BY <1>1, <1>3, StillWaits DEF NowArrives
<1>4. CASE Shows(host.grid[n], Looks[Framed.lines[r]], host.attrs)
  <2>1. Shows(host.grid[n], Looks[Framed.lines[r]], host'.attrs)
    BY <1>4, HostTold, ShowsGrows
  <2> QED
    BY <1>1, <1>2, <2>1 DEF NowArrives
<1> QED
  BY <1>3, <1>4 DEF RowArrives

\* While the grid is still to be resized or cleared, every row is still to come.
LEMMA LinesWait ==
  ASSUME RendererInv, Host,
         Waits("grid_resize") \/ Waits("grid_clear"), First.t # "grid_line"
  PROVE  \A r \in 1 .. Framed.size.rows : LineWaits(r)'
<1>1. ReadsFirst
  BY HostReads
<1>2. \A r \in 1 .. Framed.size.rows : LineWaits(r)
  BY <1>1 DEF RendererInv, GridFollows, ReadsFirst
<1> QED
  BY <1>1, <1>2, StillWaits

\* Each event that changes the grid leaves every row in its place or still to come
\* (render.rs:189-232).
LEMMA HostGridFollows ==
  ASSUME RendererInv, Host
  PROVE  GridFollows'
<1>1. ReadsFirst /\ HostFits /\ HostLeaves /\ prev # <<>> /\ FrameOwed /\ GridFollows
      /\ Framed' = Framed /\ hl' = hl
  BY HostReads, HostLeavesRest DEF RendererInv, ReadsFirst, HostLeaves
<1>2. HostSays
  BY <1>1, HostApplies
<1>3. \A i \in DOMAIN wire' : i + 1 \in DOMAIN wire /\ wire'[i] = wire[i + 1]
  BY <1>1 DEF ReadsFirst
<1>4. 1 \in DOMAIN wire /\ wire[1] = First
  BY <1>1 DEF ReadsFirst, First
<1>5. /\ \A t : Waits(t) <=> First.t = t \/ Waits(t)'
      /\ \A r : LineWaits(r) <=> (First.t = "grid_line" /\ First.v.row = r) \/ LineWaits(r)'
  BY <1>1, StillWaits
<1> DEFINE n == Framed.size.rows
           Shift(r, k) == IF r + k <= n THEN r + k ELSE r
<1>6. \A i \in DOMAIN wire' : wire'[i].t = "grid_resize" => wire'[i].v = Framed'.size
  BY <1>1, <1>3 DEF GridFollows
<1>7. ~Waits("grid_resize")' => host'.size = Framed'.size
  <2>1. CASE First.t = "grid_resize"
    <3>1. First.v = Framed.size
      BY <1>1, <1>4, <2>1 DEF GridFollows
    <3> QED
      BY <1>1, <1>2, <2>1, <3>1 DEF HostSays
  <2>2. CASE First.t # "grid_resize"
    BY <1>1, <1>2, <1>5, <2>2 DEF GridFollows, HostSays
  <2> QED
    BY <2>1, <2>2
<1>8. Waits("grid_resize")' \/ Waits("grid_clear")' => \A r \in 1 .. Framed'.size.rows : LineWaits(r)'
  <2> SUFFICES ASSUME Waits("grid_resize")' \/ Waits("grid_clear")'
               PROVE  \A r \in 1 .. Framed'.size.rows : LineWaits(r)'
    OBVIOUS
  <2>1. First.t # "grid_line"
    BY <1>1, Ranks, ReadBefore
  <2>2. Waits("grid_resize") \/ Waits("grid_clear")
    BY <1>5
  <2> QED
    BY <1>1, <2>1, <2>2, LinesWait
<1>9. \A i \in DOMAIN wire' : wire'[i].t = "grid_line" =>
          /\ wire'[i].v.row \in 1 .. Framed'.size.rows
          /\ Shows(Place(wire'[i].v.cells), Looks[Framed'.lines[wire'[i].v.row]], hl')
  <2>1. \A i \in DOMAIN wire : wire[i].t = "grid_line" =>
          /\ wire[i].v.row \in 1 .. Framed.size.rows
          /\ Shows(Place(wire[i].v.cells), Looks[Framed.lines[wire[i].v.row]], hl)
    BY <1>1, Zenon DEF GridFollows
  <2> QED
    BY <1>1, <1>3, <2>1
<1>10. ASSUME NEW i \in DOMAIN wire', wire'[i].t = "grid_scroll"
       PROVE  /\ wire'[i].v \in 1 .. n - 1
              /\ Vacated = "stale" => \A r \in 1 .. n : NowArrives(r, Shift(r, wire'[i].v))
  <2> DEFINE k == wire'[i].v
  <2>1. Waits("grid_scroll")'
    BY <1>10 DEF Waits
  <2>2. First.t # "grid_line" /\ First.t # "grid_scroll"
    BY <1>1, <2>1, Ranks, ReadBefore
  <2>3. k \in 1 .. n - 1 /\ (Vacated = "stale" => \A r \in 1 .. n : RowArrives(r, Shift(r, k)))
    <3>1. i + 1 \in DOMAIN wire /\ wire[i + 1].t = "grid_scroll" /\ wire[i + 1].v = k
      BY <1>3, <1>10
    <3> HIDE DEF k
    <3> QED
      BY <1>1, <3>1 DEF GridFollows
  <2> HIDE DEF k
  <2>4. ASSUME Vacated = "stale", NEW r \in 1 .. n
        PROVE  NowArrives(r, Shift(r, k))
    <3>1. CASE First.t \in {"grid_resize", "grid_clear"}
      <4>1. LineWaits(r)'
        BY <1>5, <3>1, LinesWait
      <4> QED
        BY <4>1 DEF NowArrives
    <3>2. CASE First.t \notin {"grid_resize", "grid_clear"}
      <4> DEFINE m == Shift(r, k)
      <4>1. RowArrives(r, m)
        BY <2>3, <2>4
      <4> HIDE DEF m
      <4>2. NowArrives(r, m)
        BY <2>2, <3>2, <4>1, ArrivesStill
      <4> QED
        BY <4>2 DEF m
    <3> QED
      BY <3>1, <3>2
  <2> QED
    BY <2>3, <2>4 DEF k
<1>11. ASSUME ~Waits("grid_scroll")', Vacated = "stale", NEW r \in 1 .. n
       PROVE  NowArrives(r, r)
  <2>1. CASE First.t \in {"grid_resize", "grid_clear"}
    <3>1. LineWaits(r)'
      BY <1>5, <2>1, LinesWait
    <3> QED
      BY <3>1 DEF NowArrives
  <2>2. CASE First.t = "grid_scroll"
    <3> DEFINE k == First.v
               m == IF r + k <= n THEN r + k ELSE r
    <3>1. k \in 1 .. n - 1 /\ RowArrives(r, m)
      BY <1>1, <1>4, <1>11, <2>2 DEF GridFollows
    <3>2. host.size = Framed.size
      <4>1. ~Waits("grid_resize")
        BY <1>1, <2>2, Ranks, ReadBefore
      <4> QED
        BY <1>1, <4>1 DEF GridFollows
    <3>3. Len(host.grid) = n
      BY <1>1, <3>2 DEF HostFits
    <3>4. host'.grid = Scrolled(k) /\ host'.attrs = host.attrs
      BY <1>2, <2>2 DEF HostSays
    <3>5. Scrolled(k) = [q \in 1 .. n |-> IF q + k <= n THEN host.grid[q + k] ELSE host.grid[q]]
      BY <1>11, <3>3 DEF Scrolled, ScrollUp
    <3> HIDE DEF k, n
    <3>6. host'.grid[r] = host.grid[m]
      BY <3>4, <3>5
    <3>7. CASE LineWaits(r)
      BY <1>5, <2>2, <3>7 DEF NowArrives
    <3>8. CASE Shows(host.grid[m], Looks[Framed.lines[r]], host.attrs)
      BY <1>1, <3>4, <3>6, <3>8 DEF NowArrives
    <3> QED
      BY <3>1, <3>7, <3>8 DEF RowArrives
  <2>3. CASE First.t = "grid_line"
    <3>1. /\ host.size = Framed.size /\ host.attrs = hl
          /\ Shows(host'.grid[First.v.row], Looks[Framed.lines[First.v.row]], hl)
          /\ \A q \in DOMAIN host.grid : q # First.v.row => host'.grid[q] = host.grid[q]
      BY <1>1, <1>2, <2>3, LineIsDrawn
    <3>2. host'.attrs = host.attrs
      BY <1>2, <2>3 DEF HostSays
    <3>3. CASE r = First.v.row
      BY <1>1, <3>1, <3>2, <3>3 DEF NowArrives
    <3>4. CASE r # First.v.row
      <4>1. RowArrives(r, r)
        BY <1>1, <1>5, <1>11, <2>3 DEF GridFollows
      <4>2. DOMAIN host.grid = 1 .. n
        BY <1>1, <3>1, SequenceType DEF HostFits
      <4>3. host'.grid[r] = host.grid[r]
        BY <3>1, <3>4, <4>2
      <4>4. CASE LineWaits(r)
        BY <1>5, <3>4, <4>4 DEF NowArrives
      <4>5. CASE Shows(host.grid[r], Looks[Framed.lines[r]], host.attrs)
        BY <1>1, <3>2, <4>3, <4>5 DEF NowArrives
      <4> QED
        BY <4>1, <4>4, <4>5 DEF RowArrives
    <3> QED
      BY <3>3, <3>4
  <2>4. CASE First.t \notin {"grid_resize", "grid_clear", "grid_scroll", "grid_line"}
    <3>1. RowArrives(r, r)
      BY <1>1, <1>5, <1>11, <2>4 DEF GridFollows
    <3> QED
      BY <2>4, <3>1, ArrivesStill
  <2> QED
    BY <2>1, <2>2, <2>3, <2>4
<1>12. \A i \in DOMAIN wire' : wire'[i].t = "grid_scroll" =>
          /\ wire'[i].v \in 1 .. Framed'.size.rows - 1
          /\ Vacated = "stale" =>
                \A r \in 1 .. Framed'.size.rows :
                   NowArrives(r, IF r + wire'[i].v <= Framed'.size.rows THEN r + wire'[i].v ELSE r)
  BY <1>1, <1>10
<1>13. ~Waits("grid_scroll")' /\ Vacated = "stale" =>
          \A r \in 1 .. Framed'.size.rows : NowArrives(r, r)
  BY <1>1, <1>11
<1> HIDE DEF n
<1> QED
  BY <1>6, <1>7, <1>8, <1>9, <1>12, <1>13, Zenon DEF GridFollows, RowArrives, NowArrives

\* Looked up, a line that shows a row is the row's picture.
LEMMA ResolvedShows ==
  ASSUME NEW row \in Rows, NEW columns, Shows(columns, Looks[row], host.attrs)
  PROVE  Resolved(columns) = Looks[row]
<1> DEFINE picture == Looks[row]
           P == TextsOf(row) \X Range(AttrsOf(row))
<1>1. row \in Seq(Range(row)) /\ picture = Picture(row)
  BY RowType
<1>2. picture \in Seq(P)
  BY <1>1, PictureType
<1>3. \A p \in P : p = <<p[1], p[2]>>
  OBVIOUS
<1> HIDE DEF picture, P
<1>4. DOMAIN picture = 1 .. Len(picture) /\ \A c \in 1 .. Len(picture) : picture[c] \in P
  BY <1>2
<1>5. picture = [c \in 1 .. Len(picture) |-> <<picture[c][1], picture[c][2]>>]
  <2>1. picture = [c \in 1 .. Len(picture) |-> picture[c]]
    BY <1>2, <1>4
  <2> QED
    BY <1>3, <1>4, <2>1
<1>6. /\ IsSequence(columns) /\ Len(columns) = Len(picture)
      /\ \A c \in DOMAIN picture :
            /\ columns[c][1] = picture[c][1]
            /\ columns[c][2] + 1 \in DOMAIN host.attrs
            /\ host.attrs[columns[c][2] + 1] = picture[c][2]
  BY DEF Shows, picture
<1>7. DOMAIN columns = 1 .. Len(picture)
  BY <1>6, SequenceType
<1>8. Resolved(columns) = [c \in 1 .. Len(picture) |-> <<picture[c][1], picture[c][2]>>]
  BY <1>4, <1>6, <1>7 DEF Resolved, Known
<1> QED
  BY <1>5, <1>8 DEF picture

\* Once all of a frame but its flush has been read, the host has its screen.
LEMMA FrameIsShown ==
  ASSUME HostFits, FrameOwed, GridFollows, SideFollows, prev # <<>>, Vacated = "stale",
         \A t \in DOMAIN Rank : t # "flush" => ~Waits(t)
  PROVE  /\ host.size = Framed.size /\ host.cursor = prevCursor /\ <<host.alt>> = prevAlt
         /\ host.colors
         /\ [r \in DOMAIN host.grid |-> Resolved(host.grid[r])] = Pictures(Framed.lines)
<1>1. ~Waits("grid_resize") /\ ~Waits("grid_scroll") /\ ~Waits("grid_line") /\ ~Waits("cursor")
      /\ ~Waits("mode") /\ ~Waits("default_colors")
  BY Ranks
<1>2. /\ host.size = Framed.size /\ host.cursor = prevCursor /\ <<host.alt>> = prevAlt
      /\ host.colors
  BY <1>1 DEF GridFollows, SideFollows
<1> DEFINE n == Framed.size.rows
<1>3. DOMAIN host.grid = 1 .. n
  BY <1>2, SequenceType DEF HostFits
<1>4. DOMAIN Framed.lines = 1 .. n /\ \A r \in 1 .. n : Framed.lines[r] \in Rows
  BY FramedFits DEF RowsOf
<1>5. ASSUME NEW r \in 1 .. n
      PROVE  Resolved(host.grid[r]) = Looks[Framed.lines[r]]
  <2>1. RowArrives(r, r) /\ ~LineWaits(r)
    BY <1>1 DEF GridFollows, LineWaits, Waits
  <2>2. Shows(host.grid[r], Looks[Framed.lines[r]], host.attrs)
    BY <2>1 DEF RowArrives
  <2> QED
    BY <1>4, <2>2, ResolvedShows
<1>6. [r \in DOMAIN host.grid |-> Resolved(host.grid[r])] = Pictures(Framed.lines)
  BY <1>3, <1>4, <1>5 DEF Pictures
<1> QED
  BY <1>2, <1>6

\* The flush is the last event of a frame and no other is.
LEMMA FlushIsLast ==
  ASSUME ReadsFirst
  PROVE  First.t = "flush" <=> wire' = <<>>
<1>1. ASSUME First.t = "flush", wire' # <<>>
      PROVE  FALSE
  <2>1. wire'[Len(wire')].t = "flush" /\ DOMAIN wire' = 1 .. Len(wire') /\ IsSequence(wire')
    BY <1>1 DEF ReadsFirst
  <2>2. ~Waits("flush")'
    BY <1>1, ReadBefore DEF ReadsFirst
  <2>3. Len(wire') \in Nat /\ Len(wire') # 0
    BY <1>1, <2>1, SequenceType DEF IsSequence
  <2>4. Len(wire') \in DOMAIN wire'
    BY <2>1, <2>3
  <2> QED
    BY <2>1, <2>2, <2>4 DEF Waits
<1> QED
  BY <1>1 DEF ReadsFirst

\* What is not a flush waits no longer when the flush is read.
LEMMA OnlyFlush ==
  ASSUME ReadsFirst, First.t = "flush"
  PROVE  \A t \in DOMAIN Rank : t # "flush" => ~Waits(t)
<1>1. ASSUME NEW t \in DOMAIN Rank, t # "flush"
      PROVE  Rank[t] < Rank["flush"]
  BY <1>1, Ranks
<1> QED
  BY <1>1, ReadBefore

\* What is repainted at the flush is the screen the frame was made of.
LEMMA HostPage ==
  ASSUME RendererInv, Host
  PROVE  PageTaken'
<1> SUFFICES ASSUME wire' = <<>>, Vacated = "stale"
             PROVE  host'.page = Taken'
  BY DEF PageTaken
<1>1. ReadsFirst /\ HostFits /\ HostLeaves /\ prev # <<>> /\ FrameOwed /\ GridFollows
      /\ SideFollows
  BY HostReads, HostLeavesRest DEF RendererInv, ReadsFirst
<1>2. HostSays
  BY <1>1, HostApplies
<1>3. First.t = "flush"
  BY <1>1, FlushIsLast
<1>4. \A t \in DOMAIN Rank : t # "flush" => ~Waits(t)
  BY <1>1, <1>3, OnlyFlush
<1>5. /\ host.size = Framed.size /\ host.cursor = prevCursor /\ <<host.alt>> = prevAlt
      /\ [r \in DOMAIN host.grid |-> Resolved(host.grid[r])] = Pictures(Framed.lines)
  BY <1>1, <1>4, FrameIsShown
<1>6. host'.page = <<Repainted>> /\ host'.title = host.title
  BY <1>2, <1>3 DEF HostSays
<1>7. TitleSent' = host'.title
  <2>1. DOMAIN wire' = {}
    OBVIOUS
  <2>2. {i \in DOMAIN wire' : wire'[i].t = "title"} = {}
    BY <2>1
  <2> QED
    BY <2>2, Zenon DEF TitleSent
<1>8. prev' = prev /\ prevCursor' = prevCursor /\ prevAlt' = prevAlt
  BY <1>1 DEF HostLeaves
<1>9. prevAlt[1] = host.alt
  BY <1>5
<1>10. Taken' = <<Page(Framed.size, Pictures(Framed.lines), prevCursor, prevAlt[1], TitleSent')>>
  BY <1>1, <1>8 DEF Taken, Framed, Page, Pictures
<1>11. Repainted = Page(Framed.size, Pictures(Framed.lines), prevCursor, prevAlt[1], host.title)
  BY <1>5, <1>9 DEF Repainted
<1> QED
  BY <1>6, <1>7, <1>10, <1>11

\* The host's step keeps the invariant.
LEMMA HostInv ==
  ASSUME RendererInv, Host
  PROVE  RendererInv'
BY HostLeavesRest, HostTitle, HostOneFrame, HostKeepsFit, HostGridFollows, HostSide, HostPage
DEF RendererInv

-----------------------------------------------------------------------------
(* Steps of the Renderer.                                                  *)

\* A screen is a sequence of rows.
LEMMA ScreenIsSeq ==
  ASSUME NEW s \in Sizes, NEW screen \in Screens(s)
  PROVE  screen \in Seq(Rows) /\ Len(screen) = s.rows
<1>1. s.rows \in Nat /\ screen \in [1 .. s.rows -> Rows]
  BY RowsAssumption DEF Screens, RowsOf
<1> QED
  BY <1>1, FunctionIsSeq

\* A shift is only looked for between two screens of one size, and it leaves a row.
LEMMA ScrollIs ==
  ASSUME RendererInv
  PROVE  /\ Scroll \in Nat
         /\ Scroll > 0 => ~Full /\ Scroll \in 1 .. size.rows - 1
<1>1. CASE Full
  BY <1>1 DEF Scroll
<1>2. CASE ~Full
  <2>1. prev # <<>> /\ Scroll = DetectScrollUp(Framed.lines, lines)
    BY <1>2 DEF Full, Scroll, Framed
  <2>2. Framed.lines \in Seq(Rows) /\ lines \in Seq(Rows) /\ Len(lines) = size.rows
    <3>1. Framed.size \in Sizes /\ Framed.lines \in Screens(Framed.size)
      BY <2>1 DEF RendererInv, FrameOwed
    <3>2. size \in Sizes /\ lines \in Screens(size)
      BY DEF RendererInv, TypeOK
    <3> QED
      BY <3>1, <3>2, ScreenIsSeq
  <2>3. CASE Scroll = 0
    BY <2>3
  <2>4. CASE Scroll # 0
    <3>1. DetectScrollUp(Framed.lines, lines) \in 1 .. Len(lines) - 1
      BY <2>1, <2>2, <2>4, CommittedShiftPays
    <3>2. size.rows \in Nat
      BY <2>2
    <3> QED
      BY <1>2, <2>1, <2>2, <3>1, <3>2
  <2> QED
    BY <2>3, <2>4
<1> QED
  BY <1>1, <1>2

\* When a frame is made nothing is left of the one before.
LEMMA ReadyIs ==
  ASSUME RendererInv
  PROVE  ReadyToFrame
<1>1. TypeOK /\ TitleOwed /\ HighlightsTold
  BY DEF RendererInv
<1>2. Injects(hl)
  BY <1>1 DEF HighlightsTold, Injects
<1>3. Len(title) <= 1 /\ IsSequence(title)
  <2>1. CASE title = <<>>
    <3>1. IsSequence(<<>>)
      BY NoBlock DEF Block
    <3> QED
      BY <2>1, <3>1
  <2>2. CASE title # <<>>
    <3>1. PICK t \in Titles : title = <<t>>
      BY <1>1, <2>2 DEF TitleOwed
    <3>2. Len(<<t>>) = 1 /\ <<t>> \in Seq(Titles)
      OBVIOUS
    <3>3. IsSequence(<<t>>)
      BY <3>2, TypeSequence
    <3> QED
      BY <3>1, <3>2, <3>3
  <2> QED
    BY <2>1, <2>2
<1> QED
  BY <1>1, <1>2, <1>3, ScrollIs DEF ReadyToFrame, TypeOK

\* What each kind of event in a frame says.
Says(e, table) ==
    /\ e.t = "grid_resize" => Resized /\ e.v = size
    /\ e.t = "hl_attr" =>
          \E n \in Len(hl) + 1 .. Len(table) : e.v = [id |-> n - 1, attrs |-> table[n]]
    /\ e.t = "scrollback_push" => e.v = [i \in DOMAIN committed |-> Encode(committed[i], table)]
    /\ e.t = "grid_clear" => Full
    /\ e.t = "grid_scroll" => Scroll > 0 /\ e.v = Scroll
    /\ e.t = "grid_line" =>
          \E r \in ToSend : e.v = [row |-> r, cells |-> Encode(lines[r], table)]
    /\ e.t = "cursor" => e.v = cursor
    /\ e.t = "mode" => e.v = alt
    /\ e.t = "title" => Holds(title, e.v)

\* What an event says follows from its kind.
LEMMA InFrameSays ==
  ASSUME NEW table, NEW e, InFrame(e, table)
  PROVE  Says(e, table)
<1>1. \A t, v : Event(t, v).t = t /\ Event(t, v).v = v
  BY DEF Event
<1>2. CASE Resized /\ e = Event("grid_resize", size)
  <2>1. e.t = "grid_resize" /\ e.v = size
    BY <1>1, <1>2
  <2> QED
    BY <1>2, <2>1 DEF Says
<1>3. CASE ~defaultsSent /\ e = Event("default_colors", 0)
  <2>1. e.t = "default_colors"
    BY <1>1, <1>3
  <2> QED
    BY <2>1 DEF Says
<1>4. CASE \E n \in Len(hl) + 1 .. Len(table) :
              e = Event("hl_attr", [id |-> n - 1, attrs |-> table[n]])
  <2>1. e.t = "hl_attr" /\ \E n \in Len(hl) + 1 .. Len(table) :
                              e.v = [id |-> n - 1, attrs |-> table[n]]
    <3>1. PICK n \in Len(hl) + 1 .. Len(table) :
             e = Event("hl_attr", [id |-> n - 1, attrs |-> table[n]])
      BY <1>4
    <3>2. e.t = "hl_attr" /\ e.v = [id |-> n - 1, attrs |-> table[n]]
      BY <1>1, <3>1
    <3> QED
      BY <3>2
  <2> QED
    BY <2>1 DEF Says
<1>5. CASE committed # <<>> /\ e = Event("scrollback_push",
                                         [i \in DOMAIN committed |-> Encode(committed[i], table)])
  <2>1. e.t = "scrollback_push" /\ e.v = [i \in DOMAIN committed |-> Encode(committed[i], table)]
    BY <1>1, <1>5
  <2> QED
    BY <2>1 DEF Says
<1>6. CASE Full /\ e = Event("grid_clear", 0)
  <2>1. e.t = "grid_clear"
    BY <1>1, <1>6
  <2> QED
    BY <1>6, <2>1 DEF Says
<1>7. CASE Scroll > 0 /\ e = Event("grid_scroll", Scroll)
  <2>1. e.t = "grid_scroll" /\ e.v = Scroll
    BY <1>1, <1>7
  <2> QED
    BY <1>7, <2>1 DEF Says
<1>8. CASE \E r \in ToSend : e = Event("grid_line", [row |-> r, cells |-> Encode(lines[r], table)])
  <2>1. e.t = "grid_line" /\ \E r \in ToSend : e.v = [row |-> r, cells |-> Encode(lines[r], table)]
    BY <1>1, <1>8
  <2> QED
    BY <2>1 DEF Says
<1>9. CASE prevCursor # <<cursor>> /\ e = Event("cursor", cursor)
  <2>1. e.t = "cursor" /\ e.v = cursor
    BY <1>1, <1>9
  <2> QED
    BY <2>1 DEF Says
<1>10. CASE prevAlt # <<alt>> /\ e = Event("mode", alt)
  <2>1. e.t = "mode" /\ e.v = alt
    BY <1>1, <1>10
  <2> QED
    BY <2>1 DEF Says
<1>11. CASE Holds(title, e.v) /\ e = Event("title", e.v)
  <2>1. e.t = "title"
    BY <1>1, <1>11
  <2> QED
    BY <1>11, <2>1 DEF Says
<1>12. CASE bell /\ e = Event("bell", 0)
  <2>1. e.t = "bell"
    BY <1>1, <1>12
  <2> QED
    BY <2>1 DEF Says
<1>13. CASE e = Event("flush", 0)
  <2>1. e.t = "flush"
    BY <1>1, <1>13
  <2> QED
    BY <2>1 DEF Says
<1> QED
  BY <1>2, <1>3, <1>4, <1>5, <1>6, <1>7, <1>8, <1>9, <1>10, <1>11, <1>12, <1>13 DEF InFrame

\* A frame is made: the whole of it is on the wire, and it is the last one.
FrameMade ==
    /\ dirty /\ wire = <<>>
    /\ UNCHANGED <<size, lines, cursor, alt, history, host, changes, off, gone, plain, named>>
    /\ prev' = <<[size |-> size, lines |-> lines]>>
    /\ prevCursor' = <<cursor>> /\ prevAlt' = <<alt>> /\ defaultsSent' = TRUE
    /\ committed' = <<>> /\ title' = <<>> /\ bell' = FALSE /\ dirty' = FALSE
    /\ IsSequence(wire') /\ InRankOrder(wire') /\ DOMAIN wire' = 1 .. Len(wire')
    /\ wire' # <<>> /\ wire'[Len(wire')].t = "flush"
    /\ \A i \in DOMAIN wire' : wire'[i].t \in DOMAIN Rank /\ Says(wire'[i], hl')
    /\ \A e : InFrame(e, hl') => \E i \in DOMAIN wire' : wire'[i] = e
    /\ hl' \in Seq(AttrSets) /\ Injects(hl') /\ Len(hl) <= Len(hl')
    /\ Continues(hl, hl')
    /\ \A i \in DOMAIN committed : Covers(hl', committed[i])
    /\ \A r \in ToSend : Covers(hl', lines[r])

\* The frame that Frame puts on the wire is the one FrameProofs describes.
LEMMA FrameMakes ==
  ASSUME RendererInv, Frame
  PROVE  FrameMade
<1> DEFINE events == Events.events
           table  == Events.table
<1>1. wire' = events /\ hl' = table
  BY DEF Frame
<1>2. Frames(events, table)
  BY ReadyIs, FrameIs
<1> HIDE DEF events, table
<1>3. IsSequence(events) /\ InRankOrder(events) /\ \A i \in DOMAIN events : events[i].t \in DOMAIN Rank
  BY <1>2 DEF Frames, Block
<1>4. DOMAIN events = 1 .. Len(events)
  BY <1>3, SequenceType
<1>5. ASSUME NEW i \in DOMAIN events
      PROVE  Says(events[i], table)
  <2>1. Holds(events, events[i])
    BY <1>4 DEF Holds
  <2>2. InFrame(events[i], table)
    BY <1>2, <2>1 DEF Frames
  <2> QED
    BY <2>2, InFrameSays
<1>6. ASSUME NEW e, InFrame(e, table)
      PROVE  \E i \in DOMAIN events : events[i] = e
  <2>1. Holds(events, e)
    BY <1>2, <1>6 DEF Frames
  <2> QED
    BY <1>4, <2>1 DEF Holds
<1>7. events # <<>> /\ events[Len(events)].t = "flush"
  <2>1. Len(events) > 0 /\ events[Len(events)].t = "flush"
    BY <1>2 DEF Frames
  <2> QED
    BY <2>1
<1>8. /\ table \in Seq(AttrSets) /\ Injects(table) /\ Len(hl) <= Len(table)
      /\ Continues(hl, table)
      /\ \A i \in DOMAIN committed : Covers(table, committed[i])
      /\ \A r \in ToSend : Covers(table, lines[r])
  BY <1>2 DEF Frames, Continues
<1>9. /\ dirty /\ wire = <<>>
      /\ UNCHANGED <<size, lines, cursor, alt, history, host, changes, off, gone, plain, named>>
      /\ prev' = <<[size |-> size, lines |-> lines]>>
      /\ prevCursor' = <<cursor>> /\ prevAlt' = <<alt>> /\ defaultsSent' = TRUE
      /\ committed' = <<>> /\ title' = <<>> /\ bell' = FALSE /\ dirty' = FALSE
  BY DEF Frame, historyVars
<1> QED
  BY <1>1, <1>3, <1>4, <1>5, <1>6, <1>7, <1>8, <1>9, Zenon DEF FrameMade

\* Everything before the frame has been read: nothing waits.
LEMMA NothingWaits ==
  ASSUME RendererInv, wire = <<>>
  PROVE  /\ \A t : ~Waits(t)
         /\ \A r : ~LineWaits(r)
         /\ host.attrs = hl /\ Len(host.back) = Pushed /\ TitleSent = host.title
         /\ prev # <<>> =>
               /\ host.size = Framed.size /\ host.cursor = prevCursor /\ <<host.alt>> = prevAlt
               /\ host.colors
<1>1. DOMAIN wire = {}
  OBVIOUS
<1>2. (\A t : ~Waits(t)) /\ \A r : ~LineWaits(r)
  BY <1>1 DEF Waits, LineWaits
<1>3. host.attrs = hl
  BY <1>2, AllTold DEF RendererInv
<1>4. Len(host.back) = Pushed
  BY <1>2 DEF RendererInv, BackFills
<1>5. TitleSent = host.title
  <2>1. {i \in DOMAIN wire : wire[i].t = "title"} = {}
    BY <1>1
  <2> QED
    BY <2>1, Zenon DEF TitleSent
<1>6. prev # <<>> =>
         /\ host.size = Framed.size /\ host.cursor = prevCursor /\ <<host.alt>> = prevAlt
         /\ host.colors
  BY <1>2 DEF RendererInv, GridFollows, SideFollows
<1> QED
  BY <1>2, <1>3, <1>4, <1>5, <1>6

\* A frame brings the Renderer up to the emulator, and takes what was committed.
LEMMA FrameTypes ==
  ASSUME RendererInv, FrameMade
  PROVE  TypeOK' /\ FrameOwed' /\ Captured' /\ Pushed' = Pushed + Len(committed)
<1>1. TypeOK /\ Captured
  BY DEF RendererInv
<1>2. Len(hl') <= Cardinality(AttrSets)
  BY CacheFits DEF FrameMade
<1>3. Len(prev') <= 1 /\ Len(prevCursor') <= 1 /\ Len(prevAlt') <= 1
  BY DEF FrameMade
<1>4. committed' \in Seq(Rows) /\ title' \in Seq(Titles)
  BY DEF FrameMade
<1>5. TypeOK'
  BY <1>1, <1>2, <1>3, <1>4 DEF TypeOK, FrameMade
<1>6. FrameOwed'
  <2>1. size \in Sizes /\ lines \in Screens(size) /\ cursor \in Cursors /\ alt \in BOOLEAN
    BY <1>1 DEF TypeOK
  <2> QED
    BY <2>1 DEF FrameOwed, Framed, FrameMade
<1>7. /\ Len(off) \in Nat /\ Len(history) \in Nat /\ Len(committed) \in Nat
      /\ Pushed \in Nat /\ Pushed = Len(off) - Len(history) - Len(committed)
  <2>1. off \in Seq(Rows) /\ history \in Seq(Rows) /\ committed \in Seq(Rows)
    BY <1>1 DEF TypeOK
  <2> QED
    BY <1>1, <2>1 DEF Captured, Pushed
<1>8. Pushed' = Pushed + Len(committed)
  <2>1. Len(committed') = 0 /\ Len(off') = Len(off) /\ Len(history') = Len(history)
    BY DEF FrameMade
  <2>2. Pushed' = Len(off') - Len(history') - Len(committed')
    BY DEF Pushed
  <2> QED
    BY <1>7, <2>1, <2>2
<1>9. Captured'
  <2>1. DOMAIN committed' = {} /\ UNCHANGED <<off, history, gone, plain>>
    BY DEF FrameMade
  <2>2. Pushed' \in Nat
    BY <1>7, <1>8
  <2> QED
    BY <1>1, <2>1, <2>2 DEF Captured
<1> QED
  BY <1>5, <1>6, <1>8, <1>9

\* The title goes with the frame.
LEMMA FrameTitle ==
  ASSUME RendererInv, FrameMade
  PROVE  TitleOwed'
<1> DEFINE titles == {i \in DOMAIN wire' : wire'[i].t = "title"}
<1>1. TitleOwed /\ named' = named /\ title' = <<>> /\ host' = host
  BY DEF RendererInv, FrameMade
<1>2. TitleSent = host.title
  BY NothingWaits DEF FrameMade
<1>3. TitleSent' = IF titles = {} THEN host'.title ELSE <<wire'[Max(titles)].v>>
  BY DEF TitleSent
<1>4. \A i \in DOMAIN wire' : wire'[i].t = "title" => Holds(title, wire'[i].v)
  BY DEF FrameMade, Says
<1> HIDE DEF titles
<1>5. ASSUME title = <<>>
      PROVE  TitleSent' = named
  <2>1. titles = {}
    BY <1>4, <1>5, NoBlock DEF titles
  <2> QED
    BY <1>1, <1>2, <1>3, <1>5, <2>1 DEF TitleOwed
<1>6. ASSUME title # <<>>
      PROVE  TitleSent' = named
  <2>1. PICK t \in Titles : title = <<t>> /\ named = <<t>>
    BY <1>1, <1>6 DEF TitleOwed
  <2>2. \A v : Holds(<<t>>, v) <=> v = t
    BY DEF Holds
  <2>3. InFrame(Event("title", t), hl')
    <3>1. Event("title", t).v = t
      BY DEF Event
    <3> QED
      BY <2>1, <2>2, <3>1 DEF InFrame
  <2>4. PICK i \in DOMAIN wire' : wire'[i] = Event("title", t)
    BY <2>3 DEF FrameMade
  <2>5. wire'[i].t = "title" /\ wire'[i].v = t
    BY <2>4 DEF Event
  <2>6. IsSequence(wire') /\ InRankOrder(wire')
    BY DEF FrameMade
  <2>7. titles = {i} /\ Max(titles) = i
    BY <2>5, <2>6, OneTitle DEF titles
  <2> QED
    BY <1>3, <2>1, <2>5, <2>7
<1> QED
  BY <1>1, <1>5, <1>6 DEF TitleOwed

\* The new highlights are on the wire, each once and under its id (render.rs:203-250).
LEMMA FrameHighlights ==
  ASSUME RendererInv, FrameMade
  PROVE  HighlightsTold'
<1>1. HighlightsTold /\ host' = host /\ host.attrs = hl
  BY NothingWaits DEF RendererInv, FrameMade
<1>2. hl \in Seq(AttrSets) /\ Len(hl) \in 1 .. Len(hl)
  BY <1>1 DEF HighlightsTold
<1>3. Len(hl) \in 1 .. Len(hl')
  BY <1>2 DEF FrameMade
<1>4. IdsDefined'
  BY <1>1 DEF HighlightsTold, IdsDefined, Known
<1>5. \A i \in DOMAIN hl : hl[i] = hl'[i]
  BY DEF FrameMade, Continues
<1>6. ASSUME NEW i \in DOMAIN wire', wire'[i].t = "hl_attr"
      PROVE  \E n \in Len(hl) + 1 .. Len(hl') : wire'[i].v = [id |-> n - 1, attrs |-> hl'[n]]
  <2>1. Says(wire'[i], hl')
    BY DEF FrameMade
  <2> QED
    BY <1>6, <2>1, Zenon DEF Says
<1>7. ASSUME NEW n \in Len(hl) + 1 .. Len(hl')
      PROVE  \E i \in DOMAIN wire' : wire'[i].t = "hl_attr" /\ wire'[i].v.id = n - 1
  <2> DEFINE v == [id |-> n - 1, attrs |-> hl'[n]]
             e == Event("hl_attr", v)
  <2>1. InFrame(e, hl')
    BY Zenon DEF InFrame
  <2>2. PICK i \in DOMAIN wire' : wire'[i] = e
    BY <2>1 DEF FrameMade
  <2>3. e.t = "hl_attr" /\ e.v = v /\ v.id = n - 1
    BY DEF Event
  <2> QED
    BY <2>2, <2>3
<1>8. \A i, j \in DOMAIN hl' : hl'[i] = hl'[j] => i = j
  BY DEF FrameMade, Injects
<1> QED
  BY <1>1, <1>2, <1>3, <1>4, <1>5, <1>6, <1>7, <1>8, Zenon DEF HighlightsTold

\* A row a frame covers is shown by the line it is sent as.
LEMMA CoveredShows ==
  ASSUME NEW row \in Rows, NEW table \in Seq(AttrSets), Covers(table, row)
  PROVE  Shows(Place(Encode(row, table)), Looks[row], table)
<1>1. row \in Seq(Range(row)) /\ Looks[row] = Picture(row)
  BY RowType
<1>2. \A i \in DOMAIN row : row[i].attrs \in Range(table)
  BY DEF Covers
<1> QED
  BY <1>1, <1>2, EncodeShows

\* The committed lines are on the wire, encoded with the new table (render.rs:250-258).
LEMMA FrameBack ==
  ASSUME RendererInv, FrameMade
  PROVE  BackFills'
<1>1. BackFills /\ TypeOK /\ Captured /\ host' = host /\ host.attrs = hl /\ off' = off
      /\ Len(host.back) = Pushed /\ hl' \in Seq(AttrSets)
  BY NothingWaits DEF RendererInv, FrameMade
<1>2. Pushed' = Pushed + Len(committed)
  BY FrameTypes
<1>3. committed \in Seq(Rows)
  BY <1>1 DEF TypeOK
<1>4. Len(committed) \in Nat /\ DOMAIN committed = 1 .. Len(committed)
      /\ \A i \in DOMAIN committed : committed[i] \in Rows
  BY <1>3
<1>5. ASSUME NEW i \in DOMAIN wire', wire'[i].t = "scrollback_push"
      PROVE  /\ IsSequence(wire'[i].v)
             /\ Len(host.back) + Len(wire'[i].v) = Pushed'
             /\ \A n \in DOMAIN wire'[i].v :
                   Shows(Place(wire'[i].v[n]), Looks[off[Len(host.back) + n]], hl')
  <2> DEFINE v == wire'[i].v
  <2>1. v = [n \in DOMAIN committed |-> Encode(committed[n], hl')]
    BY <1>5, Zenon DEF FrameMade, Says
  <2> HIDE DEF v
  <2>2. v = [n \in 1 .. Len(committed) |-> v[n]]
    BY <1>4, <2>1
  <2>3. IsSequence(v) /\ Len(v) = Len(committed) /\ DOMAIN v = 1 .. Len(committed)
    BY <1>4, <2>2, FunctionIsSequence
  <2>4. ASSUME NEW n \in 1 .. Len(committed)
        PROVE  Shows(Place(v[n]), Looks[off[Pushed + n]], hl')
    <3>1. off[Pushed + n] = committed[n] /\ committed[n] \in Rows
      BY <1>1, <1>4 DEF Captured
    <3>2. v[n] = Encode(committed[n], hl')
      BY <1>4, <2>1
    <3>3. Covers(hl', committed[n])
      BY <1>4 DEF FrameMade
    <3> QED
      BY <1>1, <3>1, <3>2, <3>3, CoveredShows
  <2> QED
    BY <1>1, <1>2, <2>3, <2>4 DEF v
<1>6. ~Waits("scrollback_push")' => Len(host.back) = Pushed'
  <2>1. CASE committed = <<>>
    <3>1. Len(committed) = 0
      BY <2>1
    <3>2. Pushed \in Nat
      BY <1>1 DEF Captured
    <3> QED
      BY <1>1, <1>2, <3>1, <3>2
  <2>2. CASE committed # <<>>
    <3> DEFINE e == Event("scrollback_push",
                          [i \in DOMAIN committed |-> Encode(committed[i], hl')])
    <3>1. InFrame(e, hl')
      BY <2>2, Zenon DEF InFrame
    <3>2. PICK i \in DOMAIN wire' : wire'[i] = e
      BY <3>1 DEF FrameMade
    <3>3. e.t = "scrollback_push"
      BY DEF Event
    <3> QED
      BY <3>2, <3>3 DEF Waits
  <2> QED
    BY <2>1, <2>2
<1>7. \A i \in DOMAIN host'.back : Shows(host'.back[i], Looks[off'[i]], host'.attrs)
  BY <1>1 DEF BackFills
<1> QED
  BY <1>1, <1>5, <1>6, <1>7, Zenon DEF BackFills

\* Every row to be sent is on its way.
LEMMA SentWait ==
  ASSUME FrameMade, NEW r \in ToSend
  PROVE  LineWaits(r)'
<1> DEFINE v == [row |-> r, cells |-> Encode(lines[r], hl')]
           e == Event("grid_line", v)
<1>1. InFrame(e, hl')
  BY Zenon DEF InFrame
<1>2. PICK i \in DOMAIN wire' : wire'[i] = e
  BY <1>1 DEF FrameMade
<1>3. e.t = "grid_line" /\ e.v.row = r
  BY DEF Event
<1> HIDE DEF e
<1> QED
  BY <1>2, <1>3 DEF LineWaits

\* A row that is not sent is one the host already has, at its place or k below.
LEMMA SparedArrives ==
  ASSUME RendererInv, FrameMade, ~Full, Vacated = "stale", NEW r \in 1 .. size.rows
  PROVE  NowArrives(r, IF r + Scroll <= size.rows THEN r + Scroll ELSE r)
<1>1. prev # <<>> /\ Framed.size = size
  BY DEF Full, Resized, Framed
<1>2. FrameOwed /\ GridFollows /\ TypeOK /\ HostFits /\ host' = host /\ host.attrs = hl
      /\ Continues(hl, hl')
  BY <1>1, NothingWaits DEF RendererInv, FrameMade
<1>3. CASE r \in ToSend
  BY <1>3, SentWait DEF NowArrives
<1>4. CASE r \notin ToSend
  <2> DEFINE k == Scroll
             m == IF r + k <= size.rows THEN r + k ELSE r
             old == Framed.lines
  <2>1. k \in Nat /\ size.rows \in Nat
    BY <1>2, ScrollIs, ScreenFits DEF TypeOK
  <2>2. m \in 1 .. size.rows
    <3> HIDE DEF k
    <3> QED
      BY <2>1
  <2>3. Len(old) = size.rows /\ Len(lines) = size.rows
    <3>1. old \in Screens(size) /\ lines \in Screens(size) /\ size \in Sizes
      BY <1>1, <1>2 DEF FrameOwed, TypeOK
    <3> HIDE DEF old
    <3> QED
      BY <3>1, ScreenIsSeq
  <2>4. ToSend = Changed(old, lines, k)
    BY DEF ToSend, Framed
  <2>5. Baseline(old, r, k) = old[m]
    <3> HIDE DEF k, old
    <3> QED
      BY <2>3 DEF Baseline
  <2>6. old[m] = lines[r]
    <3> HIDE DEF k, m, old
    <3> QED
      BY <1>4, <2>3, <2>4, <2>5 DEF Changed
  <2>7. RowArrives(m, m) /\ ~LineWaits(m)
    <3>1. ~Waits("grid_scroll") /\ ~LineWaits(m)
      BY NothingWaits DEF FrameMade
    <3> HIDE DEF m
    <3> QED
      BY <1>1, <1>2, <2>2, <3>1 DEF GridFollows
  <2>8. Shows(host.grid[m], Looks[lines[r]], hl)
    <3> HIDE DEF m
    <3> QED
      BY <1>2, <2>6, <2>7 DEF RowArrives
  <2>9. host'.attrs = hl /\ Framed'.lines = lines /\ host'.grid = host.grid
    BY <1>2 DEF Framed, FrameMade
  <2> HIDE DEF m
  <2>10. NowArrives(r, m)
    BY <2>8, <2>9 DEF NowArrives
  <2> QED
    BY <2>10 DEF m
<1> QED
  BY <1>3, <1>4

\* The changed rows are on the wire; the others are where the scroll will leave them
\* (render.rs:189-232).
LEMMA FrameGrid ==
  ASSUME RendererInv, FrameMade
  PROVE  GridFollows'
<1>1. Framed' = [size |-> size, lines |-> lines]
  BY DEF Framed, FrameMade
<1>2. TypeOK /\ host' = host /\ hl' \in Seq(AttrSets) /\ ReadyToFrame
  BY ReadyIs DEF RendererInv, FrameMade
<1>3. \A i \in DOMAIN wire' : Says(wire'[i], hl')
  BY DEF FrameMade
<1>4. ToSend \subseteq 1 .. size.rows /\ lines \in [1 .. size.rows -> Rows]
  BY <1>2, ToSendIs
<1>5. Full => \A r \in 1 .. size.rows : LineWaits(r)'
  BY SentWait DEF ToSend
<1>6. \A i \in DOMAIN wire' : wire'[i].t = "grid_resize" => wire'[i].v = Framed'.size
  BY <1>1, <1>3 DEF Says
<1>7. ~Waits("grid_resize")' => host'.size = Framed'.size
  <2>1. CASE prev = <<>>
    BY <1>1, <1>2, <2>1 DEF RendererInv, FrameOwed
  <2>2. CASE prev # <<>> /\ ~Resized
    <3>1. Framed.size = size
      BY <2>2 DEF Resized, Framed
    <3>2. host.size = Framed.size
      BY <2>2, NothingWaits DEF FrameMade
    <3> QED
      BY <1>1, <1>2, <3>1, <3>2
  <2>3. CASE Resized
    <3>1. InFrame(Event("grid_resize", size), hl')
      BY <2>3 DEF InFrame
    <3>2. PICK i \in DOMAIN wire' : wire'[i] = Event("grid_resize", size)
      BY <3>1 DEF FrameMade
    <3> QED
      BY <3>2 DEF Waits, Event
  <2> QED
    BY <2>1, <2>2, <2>3
<1>8. Waits("grid_resize")' \/ Waits("grid_clear")' => \A r \in 1 .. Framed'.size.rows : LineWaits(r)'
  <2>1. Waits("grid_resize")' \/ Waits("grid_clear")' => Full
    BY <1>3 DEF Waits, Says, Full
  <2> QED
    BY <1>1, <1>5, <2>1
<1>9. ASSUME NEW i \in DOMAIN wire', wire'[i].t = "grid_line"
      PROVE  /\ wire'[i].v.row \in 1 .. Framed'.size.rows
             /\ Shows(Place(wire'[i].v.cells), Looks[Framed'.lines[wire'[i].v.row]], hl')
  <2>1. PICK r \in ToSend : wire'[i].v = [row |-> r, cells |-> Encode(lines[r], hl')]
    BY <1>3, <1>9 DEF Says
  <2>2. wire'[i].v.row = r /\ wire'[i].v.cells = Encode(lines[r], hl')
    BY <2>1
  <2>3. r \in 1 .. size.rows /\ lines[r] \in Rows
    BY <1>4
  <2>4. Covers(hl', lines[r])
    BY DEF FrameMade
  <2>5. Shows(Place(Encode(lines[r], hl')), Looks[lines[r]], hl')
    BY <1>2, <2>3, <2>4, CoveredShows
  <2> QED
    BY <1>1, <2>2, <2>3, <2>5
<1>10. ASSUME NEW i \in DOMAIN wire', wire'[i].t = "grid_scroll"
       PROVE  /\ wire'[i].v \in 1 .. size.rows - 1
              /\ Vacated = "stale" =>
                    \A r \in 1 .. size.rows :
                       NowArrives(r, IF r + wire'[i].v <= size.rows THEN r + wire'[i].v ELSE r)
  <2>1. Scroll > 0 /\ wire'[i].v = Scroll
    BY <1>3, <1>10 DEF Says
  <2>2. ~Full /\ Scroll \in 1 .. size.rows - 1
    BY <2>1, ScrollIs
  <2>3. Vacated = "stale" =>
           \A r \in 1 .. size.rows :
              NowArrives(r, IF r + Scroll <= size.rows THEN r + Scroll ELSE r)
    BY <2>2, SparedArrives
  <2> QED
    BY <2>1, <2>2, <2>3
<1>11. ASSUME ~Waits("grid_scroll")', Vacated = "stale", NEW r \in 1 .. size.rows
       PROVE  NowArrives(r, r)
  <2>1. CASE Full
    BY <1>5, <2>1 DEF NowArrives
  <2>2. CASE ~Full
    <3>1. ~(Scroll > 0)
      <4> SUFFICES ASSUME Scroll > 0
                   PROVE  FALSE
        OBVIOUS
      <4> DEFINE e == Event("grid_scroll", Scroll)
      <4>1. InFrame(e, hl')
        BY Zenon DEF InFrame
      <4>2. PICK i \in DOMAIN wire' : wire'[i] = e
        BY <4>1 DEF FrameMade
      <4>3. e.t = "grid_scroll"
        BY DEF Event
      <4> QED
        BY <1>11, <4>2, <4>3 DEF Waits
    <3>2. Scroll = 0
      BY <3>1, ScrollIs
    <3>3. NowArrives(r, IF r + Scroll <= size.rows THEN r + Scroll ELSE r)
      BY <1>11, <2>2, SparedArrives
    <3>4. r + 0 = r
      <4>1. size.rows \in Nat
        BY <1>2, ToSendIs
      <4> QED
        BY <4>1
    <3> QED
      BY <3>2, <3>3, <3>4
  <2> QED
    BY <2>1, <2>2
<1>12. \A i \in DOMAIN wire' : wire'[i].t = "grid_scroll" =>
          /\ wire'[i].v \in 1 .. Framed'.size.rows - 1
          /\ Vacated = "stale" =>
                \A r \in 1 .. Framed'.size.rows :
                   NowArrives(r, IF r + wire'[i].v <= Framed'.size.rows THEN r + wire'[i].v ELSE r)
  BY <1>1, <1>10
<1>13. ~Waits("grid_scroll")' /\ Vacated = "stale" =>
          \A r \in 1 .. Framed'.size.rows : NowArrives(r, r)
  BY <1>1, <1>11
<1> QED
  BY <1>6, <1>7, <1>8, <1>9, <1>12, <1>13, Zenon DEF GridFollows, RowArrives, NowArrives

\* Cursor and mode are on the wire unless the host has them (render.rs:271-285).
LEMMA FrameSide ==
  ASSUME RendererInv, FrameMade
  PROVE  SideFollows'
<1>1. /\ host' = host /\ prevCursor' = <<cursor>> /\ prevAlt' = <<alt>>
      /\ \A i \in DOMAIN wire' : Says(wire'[i], hl')
      /\ \A e : InFrame(e, hl') => \E i \in DOMAIN wire' : wire'[i] = e
  BY DEF FrameMade
<1>2. prev # <<>> => host.cursor = prevCursor /\ <<host.alt>> = prevAlt /\ host.colors
  BY NothingWaits DEF FrameMade
<1>3. prev = <<>> => prevCursor = <<>> /\ prevAlt = <<>> /\ ~defaultsSent
  BY DEF RendererInv, FrameOwed
<1>4. /\ \A i \in DOMAIN wire' : wire'[i].t = "cursor" => <<wire'[i].v>> = prevCursor'
      /\ \A i \in DOMAIN wire' : wire'[i].t = "mode" => <<wire'[i].v>> = prevAlt'
  BY <1>1 DEF Says
<1>5. \A t, v : Event(t, v).t = t
  BY DEF Event
<1>6. <<>> # <<cursor>> /\ <<>> # <<alt>>
  OBVIOUS
<1>7. ~Waits("cursor")' => host'.cursor = prevCursor'
  <2>1. CASE prevCursor = <<cursor>>
    BY <1>1, <1>2, <1>3, <1>6, <2>1
  <2>2. CASE prevCursor # <<cursor>>
    <3>1. InFrame(Event("cursor", cursor), hl')
      BY <2>2 DEF InFrame
    <3> QED
      BY <1>1, <1>5, <3>1 DEF Waits
  <2> QED
    BY <2>1, <2>2
<1>8. ~Waits("mode")' => <<host'.alt>> = prevAlt'
  <2>1. CASE prevAlt = <<alt>>
    BY <1>1, <1>2, <1>3, <1>6, <2>1
  <2>2. CASE prevAlt # <<alt>>
    <3>1. InFrame(Event("mode", alt), hl')
      BY <2>2 DEF InFrame
    <3> QED
      BY <1>1, <1>5, <3>1 DEF Waits
  <2> QED
    BY <2>1, <2>2
<1>9. ~Waits("default_colors")' => host'.colors
  <2>1. CASE defaultsSent
    BY <1>1, <1>2, <1>3, <2>1
  <2>2. CASE ~defaultsSent
    <3>1. InFrame(Event("default_colors", 0), hl')
      BY <2>2 DEF InFrame
    <3> QED
      BY <1>1, <1>5, <3>1 DEF Waits
  <2> QED
    BY <2>1, <2>2
<1> QED
  BY <1>4, <1>7, <1>8, <1>9 DEF SideFollows

\* A frame keeps the invariant.
LEMMA FrameInv ==
  ASSUME RendererInv, Frame
  PROVE  RendererInv'
<1>1. FrameMade
  BY FrameMakes
<1>2. TypeOK' /\ FrameOwed' /\ Captured'
  BY <1>1, FrameTypes
<1>3. OneFrame'
  BY <1>1 DEF FrameMade, OneFrame
<1>4. HostFits'
  BY <1>1 DEF FrameMade, RendererInv, HostFits
<1>5. PageTaken'
  BY <1>1 DEF FrameMade, PageTaken
<1> QED
  BY <1>1, <1>2, <1>3, <1>4, <1>5, FrameTitle, FrameHighlights, FrameBack, FrameGrid, FrameSide
  DEF RendererInv

\* So does a step of nothing.
LEMMA StutterInv ==
  ASSUME RendererInv, UNCHANGED vars
  PROVE  RendererInv'
<1>1. /\ UNCHANGED <<size, lines, cursor, alt, history, committed, title, bell, dirty>>
      /\ UNCHANGED <<prev, hl, prevCursor, prevAlt, defaultsSent, wire, host>>
      /\ UNCHANGED <<changes, off, gone, plain, named>>
  BY DEF vars, emulatorVars, rendererVars, historyVars
<1>2. UNCHANGED <<rendererVars, wire, host>>
  BY <1>1 DEF rendererVars
<1>3. /\ OneFrame' /\ HostFits' /\ HighlightsTold' /\ PageTaken'
      /\ prev # <<>> => GridFollows' /\ SideFollows'
      /\ prev' = prev /\ TitleSent' = TitleSent
  BY <1>2, EmulatorKeeps
<1>4. TypeOK'
  BY <1>1 DEF RendererInv, TypeOK
<1>5. FrameOwed'
  BY <1>1 DEF RendererInv, FrameOwed, Framed
<1>6. TitleOwed'
  BY <1>1, <1>3 DEF RendererInv, TitleOwed
<1>7. Pushed' = Pushed
  BY <1>1 DEF Pushed
<1>8. Captured'
  BY <1>1, <1>7 DEF RendererInv, Captured
<1>9. BackFills'
  BY <1>1, <1>2, <1>7, BackKeeps
<1> QED
  BY <1>3, <1>4, <1>5, <1>6, <1>8, <1>9 DEF RendererInv

-----------------------------------------------------------------------------
(* Theorems.                                                               *)

\* RendererInv is inductive: whatever the child writes between two frames, the host
\* will show the screen the last one was made of (render.rs:157-299,
\* hlcache.rs:21-41, term.rs:109-170).
THEOREM RendererCorrect == Spec => []RendererInv
<1>1. RendererInv /\ [Next]_vars => RendererInv'
  BY FeedInv, ResizeInv, FrameInv, HostInv, StutterInv DEF Next
<1> QED
  BY InitInv, <1>1, PTL DEF Spec

\* The highlight cache stays within the attribute sets there are, and what the
\* emulator holds fits its screen (hlcache.rs:21-41, term.rs:109-170).
THEOREM RendererTypes == Spec => []TypeOK
<1>1. RendererInv => TypeOK
  BY DEF RendererInv
<1> QED
  BY <1>1, RendererCorrect, PTL

\* Differences are enough: a host that keeps the rows a scroll vacates shows the
\* emulator's screen, cell by cell, whenever no frame is owed or on its way
\* (render.rs:183-299).
THEOREM HostMirrorsScreen ==
  ASSUME Vacated = "stale"
  PROVE  Spec => []HostMirrors
<1>1. RendererInv => HostMirrors
  <2> SUFFICES ASSUME RendererInv, Quiet
               PROVE  /\ host.size = size
                      /\ Len(host.grid) = size.rows
                      /\ \A r \in 1 .. size.rows : Resolved(host.grid[r]) = Looks[lines[r]]
                      /\ host.cursor = <<cursor>> /\ host.alt = alt /\ host.title = named
                      /\ host.colors
    BY DEF HostMirrors
  <2>1. wire = <<>> /\ prev = <<[size |-> size, lines |-> lines]>> /\ prev # <<>>
        /\ prevCursor = <<cursor>> /\ prevAlt = <<alt>> /\ title = <<>>
    BY DEF RendererInv, Quiet, FrameOwed
  <2>2. Framed.size = size /\ Framed.lines = lines
    BY <2>1 DEF Framed
  <2>3. \A t : ~Waits(t)
    BY <2>1, NothingWaits
  <2>4. /\ host.size = size /\ host.cursor = <<cursor>> /\ <<host.alt>> = <<alt>> /\ host.colors
        /\ [r \in DOMAIN host.grid |-> Resolved(host.grid[r])] = Pictures(lines)
    BY <2>1, <2>2, <2>3, FrameIsShown DEF RendererInv
  <2>5. host.alt = alt
    BY <2>4
  <2>6. host.title = named
    BY <2>1, NothingWaits DEF RendererInv, TitleOwed
  <2>7. Len(host.grid) = size.rows /\ DOMAIN host.grid = 1 .. size.rows
    BY <2>4, SequenceType DEF RendererInv, HostFits
  <2>8. DOMAIN lines = 1 .. size.rows
    BY ScreenFits DEF RendererInv, TypeOK
  <2>9. ASSUME NEW r \in 1 .. size.rows
        PROVE  Resolved(host.grid[r]) = Looks[lines[r]]
    <3> DEFINE shown == [q \in DOMAIN host.grid |-> Resolved(host.grid[q])]
    <3>1. shown[r] = Resolved(host.grid[r])
      BY <2>7
    <3>2. Pictures(lines)[r] = Looks[lines[r]]
      BY <2>8 DEF Pictures
    <3> HIDE DEF shown
    <3> QED
      BY <2>4, <3>1, <3>2 DEF shown
  <2> QED
    BY <2>4, <2>5, <2>6, <2>7, <2>9
<1> QED
  BY <1>1, RendererCorrect, PTL

\* No cell of the grid or the scrollback ever has a highlight the host has not been
\* told (render.rs:199-250).
THEOREM HighlightsDefined == Spec => []IdsDefined
<1>1. RendererInv => IdsDefined
  BY DEF RendererInv, HighlightsTold
<1> QED
  BY <1>1, RendererCorrect, PTL

\* No attribute set is told twice (hlcache.rs:29-41).
THEOREM HighlightsSentOnce == Spec => []SentOnce
<1>1. RendererInv => SentOnce
  <2> SUFFICES ASSUME RendererInv, NEW i \in DOMAIN host.attrs, NEW j \in DOMAIN host.attrs,
                      host.attrs[i] = host.attrs[j]
               PROVE  i = j
    BY DEF SentOnce
  <2>1. HighlightsTold /\ TypeOK
    BY DEF RendererInv
  <2>2. /\ \A m, n \in DOMAIN hl : hl[m] = hl[n] => m = n
        /\ host.attrs \in Seq(AttrSets) /\ Len(host.attrs) \in 1 .. Len(hl)
        /\ \A m \in DOMAIN host.attrs : host.attrs[m] = hl[m]
        /\ hl \in Seq(AttrSets)
    BY <2>1 DEF HighlightsTold, TypeOK
  <2>3. i \in DOMAIN hl /\ j \in DOMAIN hl
    BY <2>2
  <2> QED
    BY <2>2, <2>3
<1> QED
  BY <1>1, RendererCorrect, PTL

\* No id ever changes its meaning (hlcache.rs:29-41).
THEOREM HighlightsStable == Spec => IdsStable
<1>1. ASSUME RendererInv, [Next]_vars
      PROVE  [\A i \in DOMAIN host.attrs : host'.attrs[i] = host.attrs[i]]_vars
  <2>1. CASE Host
    <3>1. Continues(host.attrs, host'.attrs)
      BY <1>1, <2>1, HostTold
    <3>2. \A i \in DOMAIN host.attrs : host'.attrs[i] = host.attrs[i]
      BY <3>1 DEF Continues
    <3> QED
      BY <3>2
  <2>2. CASE Feed \/ Resize \/ Frame
    <3>1. host' = host
      BY <2>2 DEF Feed, Resize, Frame
    <3> QED
      BY <3>1
  <2> QED
    BY <1>1, <2>1, <2>2 DEF Next
<1> QED
  BY <1>1, RendererCorrect, PTL DEF Spec, IdsStable

\* The first part of a sequence.
LEMMA SubSeqOf ==
  ASSUME NEW s, IsSequence(s), NEW n \in 0 .. Len(s)
  PROVE  SubSeq(s, 1, n) = [i \in 1 .. n |-> s[i]]
<1>1. s \in Seq(Range(s)) /\ Len(s) \in Nat /\ DOMAIN s = 1 .. Len(s)
  BY SequenceType DEF IsSequence
<1>2. n \in Nat /\ n \in Int /\ 1 \in Int
  BY <1>1
<1>3. \A i \in 1 .. n : s[i] \in Range(s)
  BY <1>1 DEF Range
<1> DEFINE u == SubSeq(s, 1, n)
<1>4. /\ u \in Seq(Range(s)) /\ Len(u) = IF 1 <= n THEN n - 1 + 1 ELSE 0
      /\ \A i \in 1 .. n - 1 + 1 : u[i] = s[1 + i - 1]
  BY <1>2, <1>3, SubSeqProperties
<1> HIDE DEF u
<1>5. n - 1 + 1 = n /\ \A i \in 1 .. n : 1 + i - 1 = i
  BY <1>2
<1>6. Len(u) = n /\ \A i \in 1 .. n : u[i] = s[i]
  BY <1>2, <1>4, <1>5
<1>7. u = [i \in 1 .. n |-> u[i]]
  BY <1>4, <1>6
<1> QED
  BY <1>6, <1>7 DEF u

\* How many lines the host has of those captured.
LEMMA BackIs ==
  ASSUME RendererInv
  PROVE  /\ Len(host.back) \in Nat /\ DOMAIN host.back = 1 .. Len(host.back)
         /\ off \in Seq(Rows) /\ Len(off) \in Nat /\ Len(history) \in Nat
         /\ Len(host.back) <= Len(off)
         /\ Quiet => Len(host.back) = Len(off) - Len(history)
<1>1. /\ off \in Seq(Rows) /\ history \in Seq(Rows) /\ committed \in Seq(Rows)
      /\ Pushed \in Nat /\ IsSequence(host.back) /\ BackFills
  BY DEF RendererInv, TypeOK, Captured, HostFits
<1>2. Len(off) \in Nat /\ Len(history) \in Nat /\ Len(committed) \in Nat
  BY <1>1
<1>3. Len(host.back) \in Nat /\ DOMAIN host.back = 1 .. Len(host.back)
  BY <1>1, SequenceType DEF IsSequence
<1>4. Pushed = Len(off) - Len(history) - Len(committed)
  BY DEF Pushed
<1> DEFINE b == Len(host.back)
<1> HIDE DEF b
<1>5. b <= Pushed
  <2>1. CASE Waits("scrollback_push")
    <3>1. PICK i \in DOMAIN wire : wire[i].t = "scrollback_push"
      BY <2>1 DEF Waits
    <3>2. IsSequence(wire[i].v) /\ b + Len(wire[i].v) = Pushed
      BY <1>1, <3>1 DEF BackFills, b
    <3>3. Len(wire[i].v) \in Nat /\ b \in Nat
      BY <1>3, <3>2 DEF IsSequence, b
    <3> DEFINE n == Len(wire[i].v)
    <3> HIDE DEF n
    <3>4. b + n = Pushed /\ n \in Nat
      BY <3>2, <3>3 DEF n
    <3> QED
      BY <3>3, <3>4
  <2>2. CASE ~Waits("scrollback_push")
    <3>1. b = Pushed
      BY <1>1, <2>2 DEF BackFills, b
    <3> QED
      BY <1>1, <3>1
  <2> QED
    BY <2>1, <2>2
<1>6. b <= Len(off)
  <2>1. b \in Nat
    BY <1>3 DEF b
  <2> QED
    BY <1>1, <1>2, <1>4, <1>5, <2>1
<1>7. Quiet => b = Len(off) - Len(history)
  <2> SUFFICES ASSUME Quiet
               PROVE  b = Len(off) - Len(history)
    OBVIOUS
  <2>1. b = Pushed
    BY NothingWaits DEF Quiet, b
  <2>2. committed = <<>>
    BY DEF RendererInv, FrameOwed, Quiet
  <2>3. Len(committed) = 0
    BY <2>2
  <2> QED
    BY <1>2, <1>4, <2>1, <2>3
<1> QED
  BY <1>1, <1>2, <1>3, <1>6, <1>7 DEF b

\* The host's scrollback is what was captured of the primary screen, in order
\* (term.rs:120-138, render.rs:209-213).
THEOREM ScrollbackIsTranscript == Spec => []Transcript
<1>1. RendererInv => Transcript
  <2> SUFFICES ASSUME RendererInv
               PROVE  Transcript
    OBVIOUS
  <2> DEFINE pictures == [i \in DOMAIN off |-> Looks[off[i]]]
             back     == [i \in DOMAIN host.back |-> Resolved(host.back[i])]
             n == Len(host.back)
             m == Len(off)
  <2>1. /\ n \in Nat /\ DOMAIN host.back = 1 .. n
        /\ off \in Seq(Rows) /\ m \in Nat /\ n <= m
        /\ Quiet => n = m - Len(history)
    BY BackIs
  <2>2. DOMAIN off = 1 .. m /\ \A i \in 1 .. m : off[i] \in Rows
    BY <2>1
  <2> HIDE DEF n, m
  <2>3. ASSUME NEW i \in 1 .. n
        PROVE  Resolved(host.back[i]) = Looks[off[i]]
    <3>1. Shows(host.back[i], Looks[off[i]], host.attrs)
      BY <2>1 DEF RendererInv, BackFills
    <3>2. off[i] \in Rows
      BY <2>1, <2>2
    <3> QED
      BY <3>1, <3>2, ResolvedShows
  <2>4. /\ back = [i \in 1 .. n |-> Looks[off[i]]]
        /\ pictures = [i \in 1 .. m |-> Looks[off[i]]]
    BY <2>1, <2>2, <2>3
  <2> HIDE DEF back, pictures
  <2>5. /\ DOMAIN back = 1 .. n /\ DOMAIN pictures = 1 .. m
        /\ \A i \in 1 .. n : back[i] = pictures[i]
        /\ back = [i \in 1 .. n |-> back[i]] /\ pictures = [i \in 1 .. m |-> pictures[i]]
    BY <2>1, <2>4
  <2>6. Len(back) = n /\ Len(pictures) = m /\ IsSequence(back) /\ IsSequence(pictures)
    BY <2>1, <2>5, FunctionIsSequence
  <2>7. IsPrefix(back, pictures)
    <3>1. SubSeq(back, 1, n) = [i \in 1 .. n |-> back[i]]
      BY <2>1, <2>5, <2>6, SubSeqOf
    <3>2. SubSeq(pictures, 1, n) = [i \in 1 .. n |-> pictures[i]]
      BY <2>1, <2>5, <2>6, SubSeqOf
    <3>3. SubSeq(back, 1, n) = SubSeq(pictures, 1, n)
      BY <2>5, <3>1, <3>2
    <3> QED
      BY <2>1, <2>6, <3>3 DEF IsPrefix
  <2>8. Quiet => Len(back) = Len(off) - Len(history)
    BY <2>1, <2>6 DEF m
  <2> QED
    BY <2>7, <2>8 DEF Transcript, back, pictures
<1> QED
  BY <1>1, RendererCorrect, PTL

\* A child that keeps to the primary screen at one size, and in one chunk neither
\* scrolls off more than the history holds nor erases what it has scrolled off,
\* loses no line (term.rs:120-138).
THEOREM CountIsExact == Spec => []CountExact
<1>1. RendererInv => CountExact
  <2> SUFFICES ASSUME RendererInv, plain, Quiet
               PROVE  Len(host.back) = gone
    BY DEF CountExact
  <2>1. history = <<>> /\ gone = Len(off)
    BY DEF RendererInv, Captured
  <2>2. Len(history) = 0
    BY <2>1
  <2>3. Len(host.back) = Len(off) - Len(history) /\ Len(off) \in Nat
    BY BackIs
  <2> QED
    BY <2>1, <2>2, <2>3
<1> QED
  BY <1>1, RendererCorrect, PTL

\* A frame has one line for each row it sends.
LEMMA LinesAreSent ==
  ASSUME RendererInv, FrameMade
  PROVE  Cardinality(GridLines(wire')) <= Cardinality(ToSend)
<1> DEFINE L == GridLines(wire')
           row == [i \in L |-> wire'[i].v.row]
<1>1. ReadyToFrame
  BY ReadyIs
<1>2. IsFiniteSet(ToSend)
  BY <1>1, ToSendIs
<1>3. DOMAIN wire' = 1 .. Len(wire') /\ InRankOrder(wire') /\ Len(wire') \in Nat
  BY DEF FrameMade, IsSequence
<1>4. \A i \in L : i \in DOMAIN wire' /\ wire'[i].t = "grid_line"
  BY DEF GridLines
<1>5. ASSUME NEW i \in L
      PROVE  wire'[i].v.row \in ToSend
  <2>1. i \in DOMAIN wire' /\ wire'[i].t = "grid_line"
    BY <1>4
  <2>2. PICK r \in ToSend : wire'[i].v = [row |-> r, cells |-> Encode(lines[r], hl')]
    BY <2>1, Zenon DEF FrameMade, Says
  <2> QED
    BY <2>2
<1>6. ASSUME NEW i \in L, NEW j \in L, i < j
      PROVE  wire'[i].v.row # wire'[j].v.row
  <2>1. i \in DOMAIN wire' /\ j \in DOMAIN wire' /\ wire'[i].t = "grid_line" /\ wire'[j].t = "grid_line"
    BY <1>4
  <2>2. Before(wire'[i], wire'[j])
    BY <1>3, <1>6, <2>1 DEF InRankOrder
  <2>3. Within(wire'[i]) = wire'[i].v.row /\ Within(wire'[j]) = wire'[j].v.row
    BY <2>1 DEF Within
  <2>4. Rank[wire'[i].t] = 7 /\ Rank[wire'[j].t] = 7
    BY <2>1, Ranks
  <2>5. wire'[i].v.row < wire'[j].v.row
    BY <2>2, <2>3, <2>4 DEF Before
  <2>6. wire'[i].v.row \in Nat /\ wire'[j].v.row \in Nat
    <3>1. ToSend \in SUBSET Nat
      BY <1>1, ToSendIs
    <3> QED
      BY <1>5, <3>1
  <2> QED
    BY <2>5, <2>6
<1> HIDE DEF L
<1>7. ASSUME NEW i \in L, NEW j \in L, row[i] = row[j]
      PROVE  i = j
  <2>1. i \in Nat /\ j \in Nat
    BY <1>3, <1>4
  <2>2. row[i] = wire'[i].v.row /\ row[j] = wire'[j].v.row
    OBVIOUS
  <2>3. ~(i < j) /\ ~(j < i)
    BY <1>6, <1>7, <2>2
  <2> QED
    BY <2>1, <2>3
<1>8. row \in Injection(L, ToSend)
  <2>1. row \in [L -> ToSend]
    BY <1>5
  <2> HIDE DEF row
  <2> QED
    BY <1>7, <2>1 DEF Injection, IsInjective
<1>9. Cardinality(L) <= Cardinality(ToSend)
  <2> HIDE DEF row
  <2> QED
    BY <1>2, <1>8, FS_Injection
<1> QED
  BY <1>9 DEF L

\* A shift that is sent pays: fewer rows are sent than without it, and at most half
\* of the screen (render.rs:122-155).
THEOREM ScrollIsWorthIt == Spec => ScrollPays
<1> DEFINE Pays == (\E i \in DOMAIN wire' : wire'[i].t = "grid_scroll") =>
                     /\ Cardinality(GridLines(wire')) < Cardinality(Changed(prev[1].lines, lines, 0))
                     /\ 2 * Cardinality(GridLines(wire')) <= size.rows
<1>1. ASSUME RendererInv, Frame
      PROVE  Pays
  <2> SUFFICES ASSUME NEW i \in DOMAIN wire', wire'[i].t = "grid_scroll"
               PROVE  /\ Cardinality(GridLines(wire')) < Cardinality(Changed(prev[1].lines, lines, 0))
                      /\ 2 * Cardinality(GridLines(wire')) <= size.rows
    OBVIOUS
  <2>1. FrameMade
    BY <1>1, FrameMakes
  <2>2. Scroll > 0
    BY <2>1 DEF FrameMade, Says
  <2>3. ~Full /\ Scroll \in Nat
    BY <1>1, <2>2, ScrollIs
  <2> DEFINE old == prev[1].lines
             n   == Cardinality(GridLines(wire'))
             m   == Cardinality(ToSend)
             o   == Cardinality(Changed(old, lines, 0))
  <2>4. Scroll = DetectScrollUp(old, lines) /\ prev # <<>>
    BY <2>3 DEF Scroll, Full
  <2>5. old \in Seq(Rows) /\ lines \in Seq(Rows) /\ Len(lines) = size.rows
    <3>1. Framed.size \in Sizes /\ Framed.lines \in Screens(Framed.size)
      BY <1>1, <2>4 DEF RendererInv, FrameOwed
    <3>2. size \in Sizes /\ lines \in Screens(size)
      BY <1>1 DEF RendererInv, TypeOK
    <3> QED
      BY <3>1, <3>2, ScreenIsSeq DEF Framed
  <2>6. ToSend = Changed(old, lines, Scroll)
    BY <2>3 DEF ToSend
  <2> HIDE DEF old
  <2>7. DetectScrollUp(old, lines) # 0
    BY <2>2, <2>4
  <2>8. m < o /\ 2 * m <= size.rows
    BY <2>4, <2>5, <2>6, <2>7, CommittedShiftPays
  <2>9. n <= m
    BY <1>1, <2>1, LinesAreSent
  <2>10. m \in Nat /\ o \in Nat /\ n \in Nat /\ size.rows \in Nat
    <3>1. ReadyToFrame
      BY <1>1, ReadyIs
    <3>2. m \in Nat /\ size.rows \in Nat
      BY <3>1, ToSendIs, FS_CardinalityType
    <3>3. o \in Nat
      <4>1. Changed(old, lines, 0) \subseteq 1 .. size.rows
        BY <2>5 DEF Changed
      <4>2. IsFiniteSet(1 .. size.rows)
        <5>1. 1 \in Int /\ size.rows \in Int
          BY <3>2
        <5> QED
          BY <5>1, FS_Interval
      <4> QED
        BY <4>1, <4>2, FS_Subset, FS_CardinalityType
    <3>4. n \in Nat
      <4>1. GridLines(wire') \subseteq 1 .. Len(wire') /\ Len(wire') \in Nat
        BY <2>1 DEF GridLines, FrameMade, IsSequence
      <4>2. IsFiniteSet(1 .. Len(wire'))
        <5>1. 1 \in Int /\ Len(wire') \in Int
          BY <4>1
        <5> QED
          BY <5>1, FS_Interval
      <4> QED
        BY <4>1, <4>2, FS_Subset, FS_CardinalityType
    <3> QED
      BY <3>2, <3>3, <3>4
  <2> HIDE DEF n, m, o
  <2>11. n < o /\ 2 * n <= size.rows
    BY <2>8, <2>9, <2>10
  <2> QED
    BY <2>11 DEF n, o, old
<1>2. ASSUME RendererInv, [Next]_vars
      PROVE  [Pays]_prev
  <2>1. CASE Frame
    BY <1>1, <1>2, <2>1
  <2>2. CASE Feed \/ Resize \/ Host \/ UNCHANGED vars
    <3>1. prev' = prev
      BY <2>2 DEF Feed, Resize, Host, vars, rendererVars
    <3> QED
      BY <3>1
  <2> QED
    BY <1>2, <2>1, <2>2 DEF Next
<1> QED
  BY <1>2, RendererCorrect, PTL DEF Spec, ScrollPays

\* Every page a host shows is one whole screen the emulator had, the screens in
\* order, although what it is sent are differences and the child writes on
\* meanwhile: Renderer implements Mirror (render.rs:183-299, term.rs:154-194).
THEOREM PagesAreAtomic ==
  ASSUME Vacated = "stale"
  PROVE  Spec => AtomicPages
<1>1. Init => HostMirror!Init
  BY DEF Init, HostMirror!Init, Taken
<1>2. ASSUME RendererInv, [Next]_vars
      PROVE  [HostMirror!Next]_<<Real, Taken, host.page>>
  <2>1. ASSUME UNCHANGED <<rendererVars, wire, host>>
        PROVE  [HostMirror!Next]_<<Real, Taken, host.page>>
    <3>1. Taken' = Taken /\ host'.page = host.page
      BY <1>2, <2>1, EmulatorKeeps
    <3> QED
      BY <3>1 DEF HostMirror!Next, HostMirror!Change
  <2>2. CASE Feed \/ Resize \/ UNCHANGED vars
    <3>1. UNCHANGED <<rendererVars, wire, host>>
      BY <2>2 DEF Feed, Resize, vars
    <3> QED
      BY <2>1, <3>1
  <2>3. CASE Frame
    <3>1. FrameMade
      BY <1>2, <2>3, FrameMakes
    <3>2. Real' = Real /\ host'.page = host.page
      BY <3>1 DEF FrameMade, Real, Page, Pictures
    <3>3. host.page = Taken
      BY <1>2, <3>1 DEF RendererInv, PageTaken, FrameMade
    <3>4. TitleSent' = named
      BY <1>2, <3>1, FrameTitle DEF TitleOwed, FrameMade
    <3>5. prev' # <<>> /\ prev'[1] = [size |-> size, lines |-> lines]
          /\ prevCursor' = <<cursor>> /\ prevAlt'[1] = alt
      BY <3>1 DEF FrameMade
    <3>6. Taken' = <<Real>>
      BY <3>4, <3>5 DEF Taken, Real, Page, Pictures
    <3> QED
      BY <3>2, <3>3, <3>6 DEF HostMirror!Next, HostMirror!Take
  <2>4. CASE Host
    <3>1. ReadsFirst /\ HostFits /\ HostLeaves /\ prev # <<>>
      BY <1>2, <2>4, HostReads, HostLeavesRest DEF RendererInv, ReadsFirst
    <3>2. HostSays
      BY <3>1, HostApplies
    <3>3. TitleSent' = TitleSent
      BY <1>2, <2>4, HostTitle
    <3>4. Real' = Real /\ Taken' = Taken
      <4>1. Real' = Real
        BY <3>1 DEF HostLeaves, Real, Page, Pictures
      <4>2. Taken' = Taken
        BY <3>1, <3>3 DEF HostLeaves, Taken, Page, Pictures
      <4> QED
        BY <4>1, <4>2
    <3>5. CASE First.t # "flush"
      <4>1. host'.page = host.page
        BY <3>2, <3>5 DEF HostSays
      <4> QED
        BY <3>4, <4>1
    <3>6. CASE First.t = "flush"
      <4>1. host'.page = Taken'
        BY <1>2, <2>4, <3>1, <3>6, FlushIsLast, HostPage DEF PageTaken
      <4> QED
        BY <3>4, <4>1 DEF HostMirror!Next, HostMirror!Show
    <3> QED
      BY <3>5, <3>6
  <2> QED
    BY <1>2, <2>2, <2>3, <2>4 DEF Next
<1> QED
  BY <1>1, <1>2, RendererCorrect, PTL DEF Spec, AtomicPages, HostMirror!Spec

=============================================================================
