----------------------------- MODULE WireProofs -----------------------------
(***************************************************************************)
(* What is proved of the pure parts of the bridge, for rows of every length *)
(* and cells, looks and messages of every kind.                             *)
(***************************************************************************)
EXTENDS Wire, CellsProofs

GridCells == NarrowCells \cup WideCells \cup SpacerCells

IsWide(cell)   == "WIDE_CHAR" \in cell.flags
IsSpacer(cell) == "WIDE_CHAR_SPACER" \in cell.flags

\* A wide character is followed by its spacer, and there is no other spacer.
Paired(row) ==
    /\ row \in Seq(GridCells)
    /\ \A c \in 1 .. Len(row) :
          /\ IsWide(row[c]) => c + 1 \in 1 .. Len(row) /\ IsSpacer(row[c + 1])
          /\ IsSpacer(row[c]) => c - 1 \in 1 .. Len(row) /\ IsWide(row[c - 1])

\* The three kinds of cells.
LEMMA CellKinds ==
  /\ \A cell \in NarrowCells : ~IsWide(cell) /\ ~IsSpacer(cell)
  /\ \A cell \in WideCells : IsWide(cell) /\ ~IsSpacer(cell)
  /\ \A cell \in SpacerCells : ~IsWide(cell) /\ IsSpacer(cell)
  /\ \A cell \in GridCells : ~IsSpacer(cell) => cell \in NarrowCells \cup WideCells
  /\ \A cell \in GridCells : ~(IsWide(cell) /\ IsSpacer(cell))
BY WireAssumption DEF IsWide, IsSpacer, GridCells

\* A row goes on with a narrow cell, or with a wide one and its spacer.
LEMMA PairedGrows ==
  ASSUME NEW row, Paired(row), NEW piece \in Pieces
  PROVE  Paired(row \o piece)
<1> DEFINE whole == row \o piece
           n == Len(row)
<1>1. row \in Seq(GridCells) /\ n \in Nat
  BY DEF Paired
<1>2. \/ \E cell \in NarrowCells : piece = <<cell>>
      \/ \E wide \in WideCells, after \in SpacerCells : piece = <<wide, after>>
  BY DEF Pieces
<1>3. CASE \E cell \in NarrowCells : piece = <<cell>>
  <2>1. PICK cell \in NarrowCells : piece = <<cell>>
    BY <1>3
  <2>2. cell \in GridCells /\ piece \in Seq(GridCells)
    BY <2>1 DEF GridCells
  <2>3. /\ whole \in Seq(GridCells) /\ Len(whole) = n + 1
        /\ \A c \in 1 .. n : whole[c] = row[c]
        /\ whole[n + 1] = cell
    BY <1>1, <2>1, <2>2
  <2>4. ~IsWide(cell) /\ ~IsSpacer(cell)
    BY CellKinds
  <2> HIDE DEF whole, n
  <2>5. ASSUME NEW c \in 1 .. Len(whole)
        PROVE  /\ IsWide(whole[c]) => c + 1 \in 1 .. Len(whole) /\ IsSpacer(whole[c + 1])
               /\ IsSpacer(whole[c]) => c - 1 \in 1 .. Len(whole) /\ IsWide(whole[c - 1])
    <3>1. CASE c = n + 1
      BY <2>3, <2>4, <3>1
    <3>2. CASE c # n + 1
      <4>1. c \in 1 .. n
        BY <1>1, <2>3, <3>2
      <4>2. /\ IsWide(row[c]) => c + 1 \in 1 .. n /\ IsSpacer(row[c + 1])
            /\ IsSpacer(row[c]) => c - 1 \in 1 .. n /\ IsWide(row[c - 1])
        BY <4>1 DEF Paired, n
      <4>3. 1 .. n \subseteq 1 .. Len(whole)
        BY <1>1, <2>3
      <4> QED
        BY <2>3, <4>1, <4>2, <4>3
    <3> QED
      BY <3>1, <3>2
  <2> QED
    BY <2>3, <2>5 DEF Paired, whole
<1>4. CASE \E wide \in WideCells, after \in SpacerCells : piece = <<wide, after>>
  <2>1. PICK wide \in WideCells, after \in SpacerCells : piece = <<wide, after>>
    BY <1>4
  <2>2. wide \in GridCells /\ after \in GridCells /\ piece \in Seq(GridCells)
    BY <2>1 DEF GridCells
  <2>3. /\ whole \in Seq(GridCells) /\ Len(whole) = n + 2
        /\ \A c \in 1 .. n : whole[c] = row[c]
        /\ whole[n + 1] = wide /\ whole[n + 2] = after
    BY <1>1, <2>1, <2>2
  <2>4. IsWide(wide) /\ ~IsSpacer(wide) /\ ~IsWide(after) /\ IsSpacer(after)
    BY CellKinds
  <2> HIDE DEF whole, n
  <2>5. ASSUME NEW c \in 1 .. Len(whole)
        PROVE  /\ IsWide(whole[c]) => c + 1 \in 1 .. Len(whole) /\ IsSpacer(whole[c + 1])
               /\ IsSpacer(whole[c]) => c - 1 \in 1 .. Len(whole) /\ IsWide(whole[c - 1])
    <3>1. CASE c = n + 1
      <4>1. c + 1 = n + 2 /\ n + 2 \in 1 .. Len(whole)
        BY <1>1, <2>3, <3>1
      <4> QED
        BY <2>3, <2>4, <3>1, <4>1
    <3>2. CASE c = n + 2
      <4>1. c - 1 = n + 1 /\ n + 1 \in 1 .. Len(whole)
        BY <1>1, <2>3, <3>2
      <4> QED
        BY <2>3, <2>4, <3>2, <4>1
    <3>3. CASE c # n + 1 /\ c # n + 2
      <4>1. c \in 1 .. n
        BY <1>1, <2>3, <3>3
      <4>2. /\ IsWide(row[c]) => c + 1 \in 1 .. n /\ IsSpacer(row[c + 1])
            /\ IsSpacer(row[c]) => c - 1 \in 1 .. n /\ IsWide(row[c - 1])
        BY <4>1 DEF Paired, n
      <4>3. 1 .. n \subseteq 1 .. Len(whole)
        BY <1>1, <2>3
      <4> QED
        BY <2>3, <4>1, <4>2, <4>3
    <3> QED
      BY <3>1, <3>2, <3>3
  <2> QED
    BY <2>3, <2>5 DEF Paired, whole
<1> QED
  BY <1>2, <1>3, <1>4

\* Whatever the library has put into it, a row is paired.
Rows == kind = "row" => Paired(subject)

LEMMA RowsPaired == Spec => []Rows
<1>1. Init => Rows
  <2> SUFFICES ASSUME Init, kind = "row"
               PROVE  Paired(subject)
    BY DEF Rows
  <2>1. subject = <<>>
    BY DEF Init
  <2> QED
    BY <2>1 DEF Paired
<1>2. Rows /\ [Next]_<<kind, subject>> => Rows'
  <2> SUFFICES ASSUME Rows, [Next]_<<kind, subject>>
               PROVE  Rows'
    OBVIOUS
  <2>1. CASE Next
    <3>1. kind = "row" /\ kind' = "row"
      BY <2>1 DEF Next
    <3>2. PICK piece \in Pieces : subject' = subject \o piece
      BY <2>1 DEF Next
    <3>3. Paired(subject)
      BY <3>1 DEF Rows
    <3>4. Paired(subject \o piece)
      BY <3>3, PairedGrows
    <3> QED
      BY <3>2, <3>4 DEF Rows, Paired
  <2>2. CASE UNCHANGED <<kind, subject>>
    BY <2>2 DEF Rows, Paired
  <2> QED
    BY <2>1, <2>2
<1> QED
  BY <1>1, <1>2, PTL DEF Spec

-----------------------------------------------------------------------------
(* From the grid to the columns.                                           *)

\* Where the emulator's row has a character.
Kept(row) == {c \in 1 .. Len(row) : ~IsSpacer(row[c])}

\* A character reaches from its place to the next one's: two columns when it is
\* wide, else one.
LEMMA TileWidth ==
  ASSUME NEW row, Paired(row), NEW starts, Len(starts) \in Nat, NEW ends,
         Tiles(Kept(row), Len(row), starts, ends), NEW j \in 1 .. Len(starts)
  PROVE  /\ starts[j] \in 1 .. Len(row) /\ ends[j] \in 1 .. Len(row) /\ ~IsSpacer(row[starts[j]])
         /\ starts[j] = ends[j - 1] + 1 /\ ends[j - 1] \in Nat
         /\ ends[j] = IF IsWide(row[starts[j]]) THEN starts[j] + 1 ELSE starts[j]
<1> DEFINE L == Len(row)
           s == starts[j]
           e == ends[j]
           b == ends[j - 1]
<1>1. L \in Nat
  BY DEF Paired
<1>2. j \in 0 .. Len(starts) /\ j - 1 \in 0 .. Len(starts)
  OBVIOUS
<1>3. e \in 0 .. L /\ b \in 0 .. L
  BY <1>2 DEF Tiles
<1>4. /\ s \in Kept(row) /\ s \in 1 .. L /\ s = b + 1 /\ s <= e
      /\ \A p \in s + 1 .. e : p \notin Kept(row)
      /\ j # Len(starts) => e + 1 \in Kept(row)
      /\ j = Len(starts) => e = L
  BY DEF Tiles
<1>5. \A c \in 1 .. L :
         /\ IsWide(row[c]) => c + 1 \in 1 .. L /\ IsSpacer(row[c + 1])
         /\ IsSpacer(row[c]) => c - 1 \in 1 .. L /\ IsWide(row[c - 1])
         /\ row[c] \in GridCells
  BY DEF Paired
<1>6. \A c \in 1 .. L : c \in Kept(row) <=> ~IsSpacer(row[c])
  BY DEF Kept
<1> HIDE DEF L, s, e, b
<1>7. ~IsSpacer(row[s]) /\ e \in 1 .. L
  BY <1>1, <1>3, <1>4, <1>6
<1>8. CASE IsWide(row[s])
  <2>1. s + 1 \in 1 .. L /\ IsSpacer(row[s + 1])
    BY <1>4, <1>5, <1>8
  <2>2. e # s
    BY <1>1, <1>4, <1>6, <2>1
  <2>3. ~(e >= s + 2)
    <3> SUFFICES ASSUME e >= s + 2
                 PROVE  FALSE
      OBVIOUS
    <3>1. s + 2 \in s + 1 .. e /\ s + 2 \in 1 .. L /\ (s + 2) - 1 = s + 1
      BY <1>1, <1>4, <1>7
    <3>2. IsSpacer(row[s + 2])
      BY <1>4, <1>6, <3>1
    <3>3. IsWide(row[s + 1])
      BY <1>5, <3>1, <3>2
    <3> QED
      BY <1>5, <2>1, <3>3, CellKinds
  <2>4. e = s + 1
    BY <1>1, <1>4, <1>7, <2>2, <2>3
  <2> QED
    BY <1>3, <1>4, <1>7, <1>8, <2>4 DEF L, s, e, b
<1>9. CASE ~IsWide(row[s])
  <2>1. e = s
    <3> SUFFICES ASSUME e # s
                 PROVE  FALSE
      OBVIOUS
    <3>1. s + 1 \in s + 1 .. e /\ s + 1 \in 1 .. L /\ (s + 1) - 1 = s
      BY <1>1, <1>4, <1>7
    <3>2. IsSpacer(row[s + 1])
      BY <1>4, <1>6, <3>1
    <3> QED
      BY <1>5, <1>9, <3>1, <3>2
  <2> QED
    BY <1>3, <1>4, <1>7, <1>9, <2>1 DEF L, s, e, b
<1> QED
  BY <1>8, <1>9

\* The first column of a row is no spacer.
LEMMA FirstKept ==
  ASSUME NEW row, Paired(row)
  PROVE  /\ Len(row) \in Nat /\ DOMAIN row = 1 .. Len(row)
         /\ Kept(row) \in SUBSET (1 .. Len(row))
         /\ Len(row) # 0 => 1 \in Kept(row)
<1>1. Len(row) \in Nat /\ DOMAIN row = 1 .. Len(row)
  BY DEF Paired
<1>2. Kept(row) \in SUBSET (1 .. Len(row))
  BY DEF Kept
<1>3. Len(row) # 0 => 1 \in Kept(row)
  <2> SUFFICES ASSUME Len(row) # 0
               PROVE  1 \in Kept(row)
    OBVIOUS
  <2>1. 1 \in 1 .. Len(row) /\ 1 - 1 \notin 1 .. Len(row)
    BY <1>1
  <2> QED
    BY <2>1 DEF Paired, Kept
<1> QED
  BY <1>1, <1>2, <1>3

\* The columns the bridge makes of the row are those the grid shows: the spacers
\* it drops are the ones it puts back (term.rs:201-227, render.rs:64-79).
LEMMA ExpandIs ==
  ASSUME Paired(subject)
  PROVE  Expand(RowToCells(subject), Ids) = [c \in DOMAIN subject |-> Shown(c)]
<1> DEFINE L == Len(subject)
           screen == [c \in DOMAIN subject |-> Shown(c)]
           C == {Shown(c) : c \in 1 .. L}
           starts == Sorted(Kept(subject))
           cells == RowToCells(subject)
           parts == [j \in DOMAIN cells |-> CellColumns(cells[j], Ids[cells[j].attrs])]
           Of(cell) == RowCell(Text(cell), CellAttrs(cell), IF "WIDE_CHAR" \in cell.flags THEN 2 ELSE 1)
<1>1. /\ L \in Nat /\ DOMAIN subject = 1 .. L
      /\ Kept(subject) \in SUBSET (1 .. L)
      /\ L # 0 => 1 \in Kept(subject)
  BY FirstKept
<1>2. Ascends(starts, Kept(subject))
  BY <1>1, TilesExist
<1>3. PICK ends : Tiles(Kept(subject), L, starts, ends)
  BY <1>1, TilesExist
<1>4. Len(starts) \in Nat /\ DOMAIN starts = 1 .. Len(starts)
  BY <1>2 DEF Ascends
<1>5. {c \in DOMAIN subject : ~Dropped(subject[c])} = Kept(subject)
  BY <1>1 DEF Kept, Dropped, IsSpacer
<1>6. cells = [j \in DOMAIN starts |-> Of(subject[starts[j]])]
  BY <1>5 DEF RowToCells
<1>7. Expand(cells, Ids) = FlattenSeq(parts)
  BY DEF Expand
<1>8. screen \in [1 .. L -> C]
  BY <1>1
<1>9. screen \in Seq(C) /\ Len(screen) = L
  BY <1>1, <1>8, FunctionIsSeq
<1>10. \A c \in 1 .. L : screen[c] = Shown(c) /\ Shown(c) \in C
  BY <1>1
<1> HIDE DEF L, screen, C, starts, cells
<1>11. DOMAIN parts = 1 .. Len(starts)
  BY <1>4, <1>6
<1>12. ASSUME NEW j \in 1 .. Len(starts)
       PROVE  /\ parts[j] \in Seq(C)
              /\ Len(parts[j]) = ends[j] - ends[j - 1]
              /\ \A c \in 1 .. Len(parts[j]) : parts[j][c] = screen[ends[j - 1] + c]
  <2> DEFINE s == starts[j]
             cell == subject[s]
             b == ends[j - 1]
             e == ends[j]
             mark == Ids[CellAttrs(cell)]
  <2>1. /\ s \in 1 .. L /\ e \in 1 .. L /\ ~IsSpacer(cell)
        /\ s = b + 1 /\ b \in Nat
        /\ e = IF IsWide(cell) THEN s + 1 ELSE s
    BY <1>3, <1>4, TileWidth DEF L
  <2>2. parts[j] = IF IsWide(cell) THEN <<<<Text(cell), mark>>, <<Spacer, mark>>>>
                                   ELSE <<<<Text(cell), mark>>>>
    BY <1>4, <1>6, <1>11 DEF CellColumns, RowCell, IsWide
  <2>3. Shown(s) = <<Text(cell), mark>>
    BY <2>1 DEF Shown, IsSpacer
  <2>4. IsWide(cell) => Shown(s + 1) = <<Spacer, mark>> /\ s + 1 \in 1 .. L
    <3> SUFFICES ASSUME IsWide(cell)
                 PROVE  Shown(s + 1) = <<Spacer, mark>> /\ s + 1 \in 1 .. L
      OBVIOUS
    <3>1. s + 1 \in 1 .. L /\ IsSpacer(subject[s + 1])
      BY <2>1 DEF Paired, L
    <3>2. (s + 1) - 1 = s
      BY <2>1
    <3> QED
      BY <3>1, <3>2 DEF Shown, IsSpacer
  <2> HIDE DEF s, cell, b, e, mark, parts
  <2>5. CASE IsWide(cell)
    <3>1. parts[j] = <<Shown(s), Shown(s + 1)>> /\ e - b = 2 /\ b + 1 = s /\ b + 2 = s + 1
      BY <2>1, <2>2, <2>3, <2>4, <2>5
    <3>2. Shown(s) \in C /\ Shown(s + 1) \in C /\ screen[s] = Shown(s) /\ screen[s + 1] = Shown(s + 1)
      BY <1>10, <2>1, <2>4, <2>5
    <3>3. parts[j] \in Seq(C) /\ Len(parts[j]) = 2
      BY <3>1, <3>2
    <3>4. \A c \in 1 .. 2 : parts[j][c] = screen[b + c]
      <4> SUFFICES ASSUME NEW c \in 1 .. 2
                   PROVE  parts[j][c] = screen[b + c]
        OBVIOUS
      <4>1. c = 1 \/ c = 2
        OBVIOUS
      <4> QED
        BY <3>1, <3>2, <4>1
    <3> QED
      BY <3>1, <3>3, <3>4 DEF b, e
  <2>6. CASE ~IsWide(cell)
    <3>1. parts[j] = <<Shown(s)>> /\ e - b = 1 /\ b + 1 = s
      BY <2>1, <2>2, <2>3, <2>6
    <3>2. Shown(s) \in C /\ screen[s] = Shown(s)
      BY <1>10, <2>1
    <3>3. parts[j] \in Seq(C) /\ Len(parts[j]) = 1
      BY <3>1, <3>2
    <3>4. \A c \in 1 .. 1 : parts[j][c] = screen[b + c]
      BY <3>1, <3>2
    <3> QED
      BY <3>1, <3>3, <3>4 DEF b, e
  <2> QED
    BY <2>5, <2>6
<1> HIDE DEF parts
<1>13. parts \in Seq(Seq(C)) /\ Len(parts) = Len(starts)
  <2>1. parts = [j \in 1 .. Len(starts) |-> parts[j]]
    BY <1>11 DEF parts
  <2>2. parts \in [1 .. Len(starts) -> Seq(C)]
    BY <1>12, <2>1
  <2> QED
    BY <1>4, <2>2, FunctionIsSeq
<1>14. ends[0] = 0 /\ ends[Len(starts)] = L /\ ends \in [0 .. Len(starts) -> 0 .. L]
  BY <1>3 DEF Tiles
<1>15. Cut(parts, screen, ends)
  BY <1>9, <1>12, <1>13, <1>14 DEF Cut
<1>16. FlattenSeq(parts) = screen
  BY <1>9, <1>13, <1>15, FlattenCut
<1> QED
  BY <1>7, <1>16 DEF cells, screen

\* Columns are pairs.
LEMMA ScreenIsPairs ==
  ASSUME Paired(subject)
  PROVE  \E Texts, Marks : [c \in DOMAIN subject |-> Shown(c)] \in Seq(Texts \X Marks)
<1> DEFINE L == Len(subject)
           Texts == {Shown(c)[1] : c \in 1 .. L}
           Marks == {Shown(c)[2] : c \in 1 .. L}
<1>1. L \in Nat /\ DOMAIN subject = 1 .. L
  BY FirstKept
<1>2. ASSUME NEW c \in 1 .. L
      PROVE  Shown(c) \in Texts \X Marks
  <2>1. Shown(c) = <<Shown(c)[1], Shown(c)[2]>>
    BY DEF Shown
  <2>2. Shown(c)[1] \in Texts /\ Shown(c)[2] \in Marks
    OBVIOUS
  <2> HIDE DEF Texts, Marks
  <2> QED
    BY <2>1, <2>2
<1> HIDE DEF L, Texts, Marks
<1>3. [c \in DOMAIN subject |-> Shown(c)] \in [1 .. L -> Texts \X Marks]
  BY <1>1, <1>2
<1> QED
  BY <1>1, <1>3, FunctionIsSeq

\* The wire loses nothing: what the host reads is what compress made.
LEMMA ReadIs ==
  ASSUME Paired(subject)
  PROVE  Read = Compress([c \in DOMAIN subject |-> Shown(c)])
<1> DEFINE screen == [c \in DOMAIN subject |-> Shown(c)]
           cells == Compress(screen)
<1>1. PICK Texts, Marks : screen \in Seq(Texts \X Marks)
  BY ScreenIsPairs
<1>2. Expand(RowToCells(subject), Ids) = screen
  BY ExpandIs
<1> HIDE DEF screen
<1>3. Read = [j \in DOMAIN cells |-> Deserialize(Serialize(cells[j]))]
  BY <1>2 DEF Read
<1>4. \A j \in DOMAIN cells : Deserialize(Serialize(cells[j])) = cells[j]
  BY <1>1, DeserializeUndoesSerialize
<1>5. cells = [j \in DOMAIN cells |-> cells[j]]
  BY DEF Compress
<1> HIDE DEF cells
<1>6. Read = cells
  BY <1>3, <1>4, <1>5
<1> QED
  BY <1>6 DEF cells, screen

\* The host lays out every column of the emulator's grid at its place, for rows of
\* every length and cells of every kind: no mixture of runs, inherited highlights,
\* wide characters and their spacers shifts or changes a column (term.rs:201-227,
\* render.rs:64-120, protocol.rs:67-129, PROTOCOL.md "CJK-safety rule").
THEOREM GridSurvives == Spec => []RoundTrip
<1>1. Rows => RoundTrip
  <2> SUFFICES ASSUME Rows, kind = "row"
               PROVE  Place(Read) = [c \in DOMAIN subject |-> Shown(c)]
    BY DEF RoundTrip
  <2>1. Paired(subject)
    BY DEF Rows
  <2>2. PICK Texts, Marks : [c \in DOMAIN subject |-> Shown(c)] \in Seq(Texts \X Marks)
    BY <2>1, ScreenIsPairs
  <2> QED
    BY <2>1, <2>2, ReadIs, PlaceUndoesCompress
<1> QED
  BY <1>1, RowsPaired, PTL

-----------------------------------------------------------------------------
(* The shortest wire.                                                      *)

\* The j-th cell has nothing it could do without.
Lean(cells, j) ==
    /\ cells[j].rep # <<>> => cells[j].hl # <<>> /\ cells[j].rep[1] > 1
    /\ j > 1 => /\ <<cells[j].text, HlOf(cells, j)>>
                      # <<cells[j - 1].text, HlOf(cells, j - 1)>>
                /\ cells[j].rep = <<>> /\ cells[j].hl # <<>>
                      => HlOf(cells, j) # HlOf(cells, j - 1)

\* The cells compress makes of any columns waste nothing.
LEMMA NoWaste ==
  ASSUME NEW Texts, NEW Marks, NEW columns \in Seq(Texts \X Marks),
         NEW j \in DOMAIN Compress(columns)
  PROVE  Lean(Compress(columns), j)
<1> DEFINE cells == Compress(columns)
<1>1. PICK starts, ends :
         /\ Len(starts) \in Nat /\ starts \in Seq(Nat)
         /\ Runs(columns, starts, ends)
         /\ Compressed(cells, columns, starts, ends)
  BY CompressIs
<1>2. HlsFound(cells, columns, starts)
  BY <1>1, HlOfIs
<1> HIDE DEF cells
<1> DEFINE id(k) == columns[starts[k]][2]
           n == ends[j] - ends[j - 1]
<1>3. j \in 1 .. Len(starts)
  BY <1>1 DEF Compressed, cells
<1>4. CellOf(cells[j], columns, starts, ends, j)
  BY <1>1, <1>3 DEF Compressed
<1>5. \A k \in 1 .. Len(starts) : HlOf(cells, k) = id(k)
  BY <1>2 DEF HlsFound
<1>6. \/ n > 1 /\ cells[j].hl = <<id(j)>> /\ cells[j].rep = <<n>>
      \/ cells[j].hl = <<>> /\ cells[j].rep = <<>>
      \/ (j > 1 => id(j) # id(j - 1)) /\ cells[j].hl = <<id(j)>> /\ cells[j].rep = <<>>
  <2>1. \A t, i, m : /\ RunCell(t, i, m).hl = <<i>> /\ RunCell(t, i, m).rep = <<m>>
                     /\ InheritCell(t).hl = <<>> /\ InheritCell(t).rep = <<>>
                     /\ NewCell(t, i).hl = <<i>> /\ NewCell(t, i).rep = <<>>
    BY DEF RunCell, InheritCell, NewCell
  <2>2. CASE n > 1 /\ cells[j] = RunCell(cells[j].text, id(j), n)
    <3> DEFINE t == cells[j].text
               i == id(j)
               m == n
    <3>1. cells[j] = RunCell(t, i, m)
      BY <2>2
    <3> HIDE DEF t, i, m, id, n
    <3>2. cells[j].hl = <<i>> /\ cells[j].rep = <<m>>
      BY <2>1, <3>1
    <3> QED
      BY <2>2, <3>2 DEF i, m
  <2>3. CASE cells[j] = InheritCell(cells[j].text)
    <3>1. cells[j].hl = <<>> /\ cells[j].rep = <<>>
      BY <2>1, <2>3, Zenon
    <3> QED
      BY <3>1
  <2>4. CASE (j > 1 => id(j) # id(j - 1)) /\ cells[j] = NewCell(cells[j].text, id(j))
    <3> DEFINE t == cells[j].text
               i == id(j)
    <3>1. cells[j] = NewCell(t, i)
      BY <2>4
    <3> HIDE DEF t, i, id
    <3>2. cells[j].hl = <<i>> /\ cells[j].rep = <<>>
      BY <2>1, <3>1
    <3> QED
      BY <2>4, <3>2 DEF i
  <2> QED
    BY <1>4, <2>2, <2>3, <2>4 DEF CellOf
<1>7. cells[j].rep # <<>> => cells[j].hl # <<>> /\ cells[j].rep[1] > 1
  BY <1>6
<1>8. ASSUME j > 1
      PROVE  /\ <<cells[j].text, HlOf(cells, j)>> # <<cells[j - 1].text, HlOf(cells, j - 1)>>
             /\ cells[j].rep = <<>> /\ cells[j].hl # <<>> => HlOf(cells, j) # HlOf(cells, j - 1)
  <2>1. j - 1 \in 1 .. Len(starts) /\ j - 1 # Len(starts) /\ j \in 0 .. Len(starts)
        /\ (j - 1) - 1 \in 0 .. Len(starts) /\ j - 1 \in 0 .. Len(starts)
    BY <1>1, <1>3, <1>8
  <2>2. columns[starts[j]] # columns[starts[j - 1]]
    <3>1. /\ starts[j] = ends[j - 1] + 1
          /\ starts[j - 1] <= ends[j - 1]
          /\ \A p \in starts[j - 1] .. ends[j - 1] : columns[p] = columns[starts[j - 1]]
          /\ columns[ends[j - 1] + 1] # columns[ends[j - 1]]
          /\ starts[j - 1] = ends[(j - 1) - 1] + 1
      BY <1>1, <1>3, <2>1 DEF Runs
    <3>2. ends[j - 1] \in Nat /\ ends[(j - 1) - 1] \in Nat
      BY <1>1, <2>1 DEF Runs
    <3>3. ends[j - 1] \in starts[j - 1] .. ends[j - 1]
      BY <3>1, <3>2
    <3> QED
      BY <3>1, <3>3
  <2>3. starts[j] \in 1 .. Len(columns) /\ starts[j - 1] \in 1 .. Len(columns)
    <3>1. ASSUME NEW k \in 1 .. Len(starts)
          PROVE  starts[k] \in 1 .. Len(columns)
      <4>1. k \in 0 .. Len(starts) /\ k - 1 \in 0 .. Len(starts)
        BY <1>1
      <4>2. ends[k] \in 0 .. Len(columns) /\ ends[k - 1] \in 0 .. Len(columns)
        BY <1>1, <4>1 DEF Runs
      <4>3. starts[k] = ends[k - 1] + 1 /\ starts[k] <= ends[k]
        BY <1>1 DEF Runs
      <4> QED
        BY <4>2, <4>3
    <3> QED
      BY <1>3, <2>1, <3>1
  <2>4. columns[starts[j]] \in Texts \X Marks /\ columns[starts[j - 1]] \in Texts \X Marks
    BY <2>3
  <2>5. cells[j].text = columns[starts[j]][1] /\ cells[j - 1].text = columns[starts[j - 1]][1]
    BY <1>1, <1>3, <2>1 DEF Compressed, CellOf
  <2>6. HlOf(cells, j) = columns[starts[j]][2] /\ HlOf(cells, j - 1) = columns[starts[j - 1]][2]
    BY <1>3, <1>5, <2>1
  <2>7. <<cells[j].text, HlOf(cells, j)>> # <<cells[j - 1].text, HlOf(cells, j - 1)>>
    <3> DEFINE a == columns[starts[j]]
               b == columns[starts[j - 1]]
    <3>1. a # b /\ a \in Texts \X Marks /\ b \in Texts \X Marks
      BY <2>2, <2>4
    <3>2. cells[j].text = a[1] /\ cells[j - 1].text = b[1]
      BY <2>5
    <3>3. HlOf(cells, j) = a[2] /\ HlOf(cells, j - 1) = b[2]
      BY <2>6
    <3> HIDE DEF a, b
    <3>4. a = <<a[1], a[2]>> /\ b = <<b[1], b[2]>>
      BY <3>1
    <3>5. a[1] # b[1] \/ a[2] # b[2]
      BY <3>1, <3>4
    <3> QED
      BY <3>2, <3>3, <3>5
  <2>8. cells[j].rep = <<>> /\ cells[j].hl # <<>> => HlOf(cells, j) # HlOf(cells, j - 1)
    BY <1>3, <1>5, <1>6, <1>8, <2>1
  <2> QED
    BY <2>7, <2>8
<1> QED
  BY <1>7, <1>8 DEF cells, Lean

\* No row is sent with a cell, a repetition or a highlight it could do without:
\* compress merges all that is equal and names a highlight only where it changes
\* (render.rs:81-106, protocol.rs:19-21).
THEOREM NothingTwice == Spec => []Shortest
<1>1. Rows => Shortest
  <2> SUFFICES ASSUME Rows, kind = "row"
               PROVE  Shortest
    BY DEF Shortest
  <2> DEFINE screen == [c \in DOMAIN subject |-> Shown(c)]
  <2>1. Paired(subject)
    BY DEF Rows
  <2>2. PICK Texts, Marks : screen \in Seq(Texts \X Marks)
    BY <2>1, ScreenIsPairs
  <2>3. Read = Compress(screen)
    BY <2>1, ReadIs
  <2> HIDE DEF screen
  <2>4. \A j \in DOMAIN Read : Lean(Read, j)
    BY <2>2, <2>3, NoWaste
  <2> QED
    BY <2>4, Zenon DEF Shortest, Lean
<1> QED
  BY <1>1, RowsPaired, PTL

-----------------------------------------------------------------------------
(* Attributes and colours.                                                 *)

\* Only a row changes; a cell, an index and a message stay what they are.
Inputs ==
    /\ kind = "look" => subject \in Looks
    /\ kind = "colour" => subject \in 0 .. 255
    /\ kind = "message" => subject \in Messages

LEMMA InputsStay == Spec => []Inputs
<1>1. Init => Inputs
  BY DEF Init, Inputs
<1>2. Inputs /\ [Next]_<<kind, subject>> => Inputs'
  BY DEF Inputs, Next
<1> QED
  BY <1>1, <1>2, PTL DEF Spec

\* A style is there or it is not.
LEMMA AttrsType ==
  ASSUME NEW cell
  PROVE  /\ CellAttrs(cell) = [field \in Colors \cup Styles |-> CellAttrs(cell)[field]]
         /\ \A field \in Styles : CellAttrs(cell)[field] \in BOOLEAN
<1>1. DOMAIN CellAttrs(cell) = Colors \cup Styles
  BY DEF CellAttrs, Colors, Styles
<1>2. CellAttrs(cell) = [field \in DOMAIN CellAttrs(cell) |-> CellAttrs(cell)[field]]
  BY DEF CellAttrs
<1>3. \A field \in Styles : CellAttrs(cell)[field] \in BOOLEAN
  <2>1. \A field \in Styles : CellAttrs(cell)[field] = TRUE \/ CellAttrs(cell)[field] = FALSE
    BY DEF CellAttrs, Styles
  <2> QED
    BY <2>1
<1> QED
  BY <1>1, <1>2, <1>3

\* Reading undoes writing for any attributes, although a style that is false is
\* not written (protocol.rs:131-162).
LEMMA ReadUndoesWrite ==
  ASSUME NEW attrs, attrs = [field \in Colors \cup Styles |-> attrs[field]],
         \A field \in Styles : attrs[field] \in BOOLEAN
  PROVE  ReadAttrs(WriteAttrs(attrs)) = attrs
<1> DEFINE fields == WriteAttrs(attrs)
<1>1. /\ DOMAIN fields = {f \in Colors \cup Styles : ~Omitted(attrs, f)}
      /\ \A f \in DOMAIN fields : fields[f] = attrs[f]
  BY DEF WriteAttrs
<1> HIDE DEF fields
<1>2. ASSUME NEW f \in Colors \cup Styles
      PROVE  attrs[f] = IF f \in DOMAIN fields THEN fields[f]
                        ELSE IF f \in Colors THEN <<>> ELSE FALSE
  <2>1. CASE f \in DOMAIN fields
    BY <1>1, <2>1
  <2>2. CASE f \notin DOMAIN fields
    <3>1. Omitted(attrs, f)
      BY <1>1, <2>2
    <3>2. f \in Styles /\ ~attrs[f]
      BY <3>1 DEF Omitted
    <3>3. attrs[f] = FALSE
      BY <3>2
    <3>4. f \notin Colors
      BY <3>2 DEF Colors, Styles
    <3> QED
      BY <2>2, <3>3, <3>4
  <2> QED
    BY <2>1, <2>2
<1>3. ReadAttrs(fields) = [f \in Colors \cup Styles |-> attrs[f]]
  BY <1>2 DEF ReadAttrs
<1> QED
  BY <1>3 DEF fields

\* The host chooses the colours that are its own, and no other.
LEMMA DefaultOnly ==
  ASSUME NEW color, IsVtColor(color)
  PROVE  Resolve(PaletteColor(color)) = <<>> <=> color \in {Named(name) : name \in HostsOwn}
<1>1. CASE \E name \in ColorNames : color = Named(name)
  <2>1. PICK name \in ColorNames : color = Named(name)
    BY <1>1
  <2>2. color.k = "named" /\ color.v = name
    BY <2>1 DEF Named
  <2>3. color \in {Named(n) : n \in HostsOwn} <=> name \in HostsOwn
    BY <2>1 DEF Named
  <2>4. \A i : Resolve(Palette(i)) # <<>>
    BY DEF Resolve, Palette
  <2>5. Resolve(Default) = <<>>
    BY DEF Resolve, Default
  <2> DEFINE given == Names(Base) \cup Names(Bright) \cup Names(Dim)
  <2>6. name \in given => \E i : PaletteColor(color) = Palette(i)
    BY <2>2 DEF PaletteColor, Names
  <2>7. name \notin given => PaletteColor(color) = Default
    BY <2>2 DEF PaletteColor, Names
  <2>8. name \in given <=> name \notin HostsOwn
    <3>1. name \in given \/ name \in HostsOwn
      BY DEF ColorNames
    <3>2. given \cap HostsOwn = {}
      BY DEF Names, Base, Bright, Dim, HostsOwn
    <3> QED
      BY <3>1, <3>2
  <2> HIDE DEF given
  <2> QED
    BY <2>3, <2>4, <2>5, <2>6, <2>7, <2>8
<1>2. CASE \E i \in 0 .. 255 : color = Palette(i)
  <2>1. PICK i \in 0 .. 255 : color = Palette(i)
    BY <1>2
  <2>2. PaletteColor(color) = color /\ color.k = "indexed"
    BY <2>1 DEF PaletteColor, Palette
  <2>3. Resolve(color) # <<>>
    BY <2>2 DEF Resolve
  <2> QED
    BY <2>2, <2>3 DEF Named
<1>3. CASE color.k = "rgb"
  <2>1. PaletteColor(color) = color
    BY <1>3 DEF PaletteColor
  <2>2. Resolve(color) # <<>>
    BY <1>3 DEF Resolve
  <2> QED
    BY <1>3, <2>1, <2>2 DEF Named
<1> QED
  BY <1>1, <1>2, <1>3 DEF IsVtColor

\* The host reads back from hl_attr the attributes the cell has, whatever its
\* colours and flags: black is not taken for the default, nor a style that is
\* missing for one that is set (term.rs:273-293, protocol.rs:131-162).
THEOREM AttributesSurvive == Spec => []LooksSurvive
<1>1. Inputs => LooksSurvive
  <2> SUFFICES ASSUME Inputs, kind = "look"
               PROVE  LooksSurvive
    BY DEF LooksSurvive
  <2> DEFINE attrs == CellAttrs(subject)
  <2>1. IsVtColor(subject.fg) /\ IsVtColor(subject.bg)
    BY WireAssumption DEF Inputs
  <2>2. ReadAttrs(WriteAttrs(attrs)) = attrs
    BY AttrsType, ReadUndoesWrite
  <2>3. attrs.fg = Resolve(PaletteColor(subject.fg)) /\ attrs.bg = Resolve(PaletteColor(subject.bg))
    BY DEF CellAttrs
  <2> HIDE DEF attrs
  <2>4. attrs.fg = <<>> <=> subject.fg \in {Named(name) : name \in HostsOwn}
    BY <2>1, <2>3, DefaultOnly
  <2>5. attrs.bg = <<>> <=> subject.bg \in {Named(name) : name \in HostsOwn}
    BY <2>1, <2>3, DefaultOnly
  <2>6. Colors \subseteq DOMAIN WriteAttrs(attrs)
    BY DEF WriteAttrs, Omitted, Colors, Styles
  <2> QED
    BY <2>2, <2>4, <2>5, <2>6 DEF LooksSurvive, attrs
<1> QED
  BY <1>1, InputsStay, PTL

\* The steps of the cube: all different, and none a step of the ramp.
LEMMA LevelIs ==
  /\ \A v \in 0 .. 5 : Level(v) = Steps[v + 1] /\ Level(v) \in 0 .. 255
  /\ \A v, w \in 0 .. 5 : Level(v) = Level(w) => v = w
  /\ \A v \in 0 .. 5, n \in 0 .. 23 : Level(v) # 8 + 10 * n
<1>1. \A v \in 0 .. 5 : Level(v) = Steps[v + 1] /\ Level(v) \in 0 .. 255
  BY DEF Level, Steps
<1>2. \A v, w \in 0 .. 5 : Level(v) = Level(w) => v = w
  BY DEF Level
<1>3. \A v \in 0 .. 5, n \in 0 .. 23 : Level(v) # 8 + 10 * n
  BY DEF Level
<1> QED
  BY <1>1, <1>2, <1>3

\* A number up to 215 in base 6.
LEMMA BaseSix ==
  ASSUME NEW n \in 0 .. 215
  PROVE  /\ n \div 6 \in 0 .. 35 /\ n % 6 \in 0 .. 5
         /\ \E q, r : q = n \div 6 /\ r = n % 6 /\ n = 6 * q + r
<1> DEFINE q == n \div 6
           r == n % 6
<1>1. q \in 0 .. 35 /\ r \in 0 .. 5
  OBVIOUS
<1>2. r = n - 6 * q
  OBVIOUS
<1> HIDE DEF q, r
<1>3. n = 6 * q + r
  BY <1>1, <1>2
<1> QED
  BY <1>1, <1>3 DEF q, r

\* A place in the cube is its three coordinates.
LEMMA Coordinates ==
  ASSUME NEW n \in 0 .. 215
  PROVE  /\ n \div 36 \in 0 .. 5 /\ (n \div 6) % 6 \in 0 .. 5 /\ n % 6 \in 0 .. 5
         /\ \E x, y, z : /\ x = n \div 36 /\ y = (n \div 6) % 6 /\ z = n % 6
                        /\ n = 36 * x + 6 * y + z
<1>1. PICK q, z : q = n \div 6 /\ z = n % 6 /\ n = 6 * q + z
  BY BaseSix
<1>2. q \in 0 .. 35 /\ z \in 0 .. 5
  BY <1>1, BaseSix
<1>3. PICK x, y : x = q \div 6 /\ y = q % 6 /\ q = 6 * x + y
  BY <1>2, BaseSix
<1>4. x \in 0 .. 5 /\ y \in 0 .. 5
  BY <1>2, <1>3
<1>5. x = n \div 36 /\ y = (n \div 6) % 6
  BY <1>1, <1>3
<1>6. n = 36 * x + 6 * y + z
  <2>1. \A d \in 0 .. 215, a \in 0 .. 35, b, c, e \in 0 .. 5 :
           d = 6 * a + c /\ a = 6 * b + e => d = 36 * b + 6 * e + c
    OBVIOUS
  <2> QED
    BY <1>1, <1>2, <1>3, <1>4, <2>1
<1> QED
  BY <1>1, <1>2, <1>4, <1>5, <1>6

\* From 16 on an index is a place in the cube or on the ramp.
LEMMA IndexedIs ==
  ASSUME NEW i \in 16 .. 255
  PROVE  \/ \E n \in 0 .. 215 : n = i - 16 /\ i < 232 /\ Indexed(i) = Cube(n)
         \/ \E n \in 0 .. 23 : n = i - 232 /\ i >= 232 /\ Indexed(i) = Gray(n)
<1>1. CASE i < 232
  <2>1. i - 16 \in 0 .. 215 /\ i \in 16 .. 231 /\ ~(i < 16)
    BY <1>1
  <2>2. Indexed(i) = Cube(i - 16)
    BY <2>1 DEF Indexed
  <2> QED
    BY <1>1, <2>1, <2>2
<1>2. CASE i >= 232
  <2>1. i - 232 \in 0 .. 23 /\ i \notin 16 .. 231 /\ ~(i < 16)
    BY <1>2
  <2>2. Indexed(i) = Gray(i - 232)
    BY <2>1 DEF Indexed
  <2> QED
    BY <1>2, <2>1, <2>2
<1> QED
  BY <1>1, <1>2

\* palette.rs computes what xterm shows, index by index.
LEMMA IndexedIsXterm ==
  ASSUME NEW i \in 0 .. 255
  PROVE  Indexed(i) = Xterm(i)
<1>1. CASE i \in 0 .. 15
  <2>1. Indexed(i) = ANSI16[i + 1]
    BY <1>1 DEF Indexed
  <2>2. CASE i = 7
    BY <2>1, <2>2 DEF ANSI16, Xterm, Pack
  <2>3. CASE i = 8
    BY <2>1, <2>3 DEF ANSI16, Xterm, Pack
  <2>4. CASE i \in 0 .. 6
    <3>1. Xterm(i) = Pack(128 * Bit(i, 1), 128 * Bit(i, 2), 128 * Bit(i, 4))
      BY <2>4 DEF Xterm
    <3> QED
      BY <2>1, <2>4, <3>1 DEF ANSI16, Pack, Bit
  <2>5. CASE i \in 9 .. 15
    <3>1. Xterm(i) = Pack(255 * Bit(i, 1), 255 * Bit(i, 2), 255 * Bit(i, 4))
      BY <2>5 DEF Xterm
    <3> QED
      BY <2>1, <2>5, <3>1 DEF ANSI16, Pack, Bit
  <2> QED
    BY <1>1, <2>2, <2>3, <2>4, <2>5
<1>2. ASSUME NEW n \in 0 .. 215, n = i - 16, i \in 16 .. 231, Indexed(i) = Cube(n)
      PROVE  Indexed(i) = Xterm(i)
  <2> DEFINE x == n \div 36
             y == (n \div 6) % 6
             z == n % 6
  <2>1. Xterm(i) = Pack(Steps[x + 1], Steps[y + 1], Steps[z + 1])
    BY <1>2 DEF Xterm
  <2>2. x \in 0 .. 5 /\ y \in 0 .. 5 /\ z \in 0 .. 5
    BY Coordinates
  <2>3. Cube(n) = Pack(Level(x), Level(y), Level(z))
    BY DEF Cube
  <2> HIDE DEF x, y, z
  <2>4. Level(x) = Steps[x + 1] /\ Level(y) = Steps[y + 1] /\ Level(z) = Steps[z + 1]
    BY <2>2, LevelIs
  <2> QED
    BY <1>2, <2>1, <2>3, <2>4
<1>3. ASSUME NEW n \in 0 .. 23, n = i - 232, i \in 232 .. 255, Indexed(i) = Gray(n)
      PROVE  Indexed(i) = Xterm(i)
  <2> DEFINE level == 8 + ((238 - 8) * (i - 232)) \div 23
  <2>1. Xterm(i) = Pack(level, level, level)
    BY <1>3 DEF Xterm
  <2>2. level = 8 + 10 * n
    <3>1. (230 * n) \div 23 = 10 * n
      OBVIOUS
    <3> QED
      BY <1>3, <3>1
  <2> HIDE DEF level
  <2>3. Gray(n) = Pack(8 + 10 * n, 8 + 10 * n, 8 + 10 * n)
    BY DEF Gray
  <2> QED
    BY <1>3, <2>1, <2>2, <2>3
<1>4. CASE i \in 16 .. 255
  <2>1. CASE \E n \in 0 .. 215 : n = i - 16 /\ i < 232 /\ Indexed(i) = Cube(n)
    <3>1. i \in 16 .. 231
      BY <1>4, <2>1
    <3> QED
      BY <1>2, <2>1, <3>1
  <2>2. CASE \E n \in 0 .. 23 : n = i - 232 /\ i >= 232 /\ Indexed(i) = Gray(n)
    <3>1. i \in 232 .. 255
      BY <1>4, <2>2
    <3> QED
      BY <1>3, <2>2, <3>1
  <2> QED
    BY <1>4, <2>1, <2>2, IndexedIs
<1> QED
  BY <1>1, <1>4

\* From 16 on the palette has no colour twice.
LEMMA IndexedOnce ==
  ASSUME NEW i \in 16 .. 255, NEW j \in 16 .. 255, Indexed(i) = Indexed(j)
  PROVE  i = j
<1>1. ASSUME NEW n \in 0 .. 215
      PROVE  \E x, y, z \in 0 .. 5 : n = 36 * x + 6 * y + z /\ Cube(n) = Pack(Level(x), Level(y), Level(z))
  BY Coordinates DEF Cube
<1>2. ASSUME NEW n \in 0 .. 23
      PROVE  /\ 8 + 10 * n \in 0 .. 255
             /\ Gray(n) = Pack(8 + 10 * n, 8 + 10 * n, 8 + 10 * n)
  BY DEF Gray
<1>3. ASSUME NEW m \in 0 .. 215, NEW n \in 0 .. 215, Cube(m) = Cube(n)
      PROVE  m = n
  <2>1. PICK x, y, z \in 0 .. 5 : m = 36 * x + 6 * y + z /\ Cube(m) = Pack(Level(x), Level(y), Level(z))
    BY <1>1
  <2>2. PICK u, v, w \in 0 .. 5 : n = 36 * u + 6 * v + w /\ Cube(n) = Pack(Level(u), Level(v), Level(w))
    BY <1>1
  <2>3. Level(x) = Level(u) /\ Level(y) = Level(v) /\ Level(z) = Level(w)
    <3> DEFINE a == Level(x)
               b == Level(y)
               c == Level(z)
               d == Level(u)
               e == Level(v)
               f == Level(w)
    <3>1. a \in 0 .. 255 /\ b \in 0 .. 255 /\ c \in 0 .. 255
      BY LevelIs
    <3>2. d \in 0 .. 255 /\ e \in 0 .. 255 /\ f \in 0 .. 255
      BY LevelIs
    <3>3. Pack(a, b, c) = Pack(d, e, f)
      BY <1>3, <2>1, <2>2
    <3> HIDE DEF a, b, c, d, e, f
    <3>4. a = d /\ b = e /\ c = f
      BY <3>1, <3>2, <3>3 DEF Pack
    <3> QED
      BY <3>4 DEF a, b, c, d, e, f
  <2>4. x = u /\ y = v /\ z = w
    BY <2>3, LevelIs
  <2> QED
    BY <2>1, <2>2, <2>4
<1>4. ASSUME NEW m \in 0 .. 215, NEW n \in 0 .. 23
      PROVE  Cube(m) # Gray(n)
  <2>1. PICK x, y, z \in 0 .. 5 : Cube(m) = Pack(Level(x), Level(y), Level(z))
    BY <1>1
  <2>2. Level(x) # 8 + 10 * n /\ Level(x) \in 0 .. 255 /\ Level(y) \in 0 .. 255 /\ Level(z) \in 0 .. 255
    BY LevelIs
  <2> SUFFICES ASSUME Cube(m) = Gray(n)
               PROVE  FALSE
    OBVIOUS
  <2> DEFINE g == 8 + 10 * n
             a == Level(x)
             b == Level(y)
             c == Level(z)
  <2>3. Pack(a, b, c) = Pack(g, g, g) /\ g \in 0 .. 255
    BY <1>2, <2>1
  <2> HIDE DEF g, a, b, c
  <2>4. a \in 0 .. 255 /\ b \in 0 .. 255 /\ c \in 0 .. 255 /\ a # g
    BY <2>2 DEF g, a, b, c
  <2> QED
    BY <2>3, <2>4 DEF Pack
<1>5. ASSUME NEW m \in 0 .. 23, NEW n \in 0 .. 23, Gray(m) = Gray(n)
      PROVE  m = n
  <2> DEFINE g == 8 + 10 * m
             h == 8 + 10 * n
  <2>1. Pack(g, g, g) = Pack(h, h, h) /\ g \in 0 .. 255 /\ h \in 0 .. 255
    BY <1>2, <1>5
  <2> HIDE DEF g, h
  <2>2. g = h
    BY <2>1 DEF Pack
  <2> QED
    BY <2>2 DEF g, h
<1>6. CASE i < 232
  <2>1. PICK m \in 0 .. 215 : m = i - 16 /\ Indexed(i) = Cube(m)
    BY <1>6, IndexedIs
  <2>2. \A n \in 0 .. 23 : Indexed(j) # Gray(n)
    BY <1>4, <2>1
  <2>3. PICK n \in 0 .. 215 : n = j - 16 /\ Indexed(j) = Cube(n)
    BY <2>2, IndexedIs
  <2>4. m = n
    BY <1>3, <2>1, <2>3
  <2> QED
    BY <2>1, <2>3, <2>4
<1>7. CASE i >= 232
  <2>1. PICK m \in 0 .. 23 : m = i - 232 /\ Indexed(i) = Gray(m)
    BY <1>7, IndexedIs
  <2>2. \A n \in 0 .. 215 : Indexed(j) # Cube(n)
    BY <1>4, <2>1
  <2>3. PICK n \in 0 .. 23 : n = j - 232 /\ Indexed(j) = Gray(n)
    BY <2>2, IndexedIs
  <2>4. Gray(m) = Gray(n)
    BY <2>1, <2>3
  <2>5. m = n
    BY <1>5, <2>4, Zenon
  <2> QED
    BY <2>1, <2>3, <2>5
<1> QED
  BY <1>6, <1>7

\* Every index is shown in xterm's colour, and from 16 on no two look alike
\* (palette.rs:25-48).
THEOREM PaletteHolds == Spec => []PaletteIsXterm
<1>1. Inputs => PaletteIsXterm
  <2> SUFFICES ASSUME Inputs, kind = "colour"
               PROVE  PaletteIsXterm
    BY DEF PaletteIsXterm
  <2>1. subject \in 0 .. 255
    BY DEF Inputs
  <2>2. Resolve(PaletteColor(Palette(subject))) = <<Indexed(subject)>>
    BY DEF Resolve, PaletteColor, Palette
  <2>3. Indexed(subject) = Xterm(subject)
    BY <2>1, IndexedIsXterm
  <2>4. ASSUME subject >= 16, NEW i \in 16 .. 255, Indexed(i) = Indexed(subject)
        PROVE  i = subject
    <3>1. subject \in 16 .. 255
      BY <2>1, <2>4
    <3> QED
      BY <2>4, <3>1, IndexedOnce
  <2> QED
    BY <2>2, <2>3, <2>4 DEF PaletteIsXterm
<1> QED
  BY <1>1, InputsStay, PTL

-----------------------------------------------------------------------------
(* Messages.                                                               *)

\* No type is both the host's and the bridge's.
LEMMA TypesAre ==
  /\ ControlTypes \cap Events = {}
  /\ Overlooked \subseteq Events
  /\ EventTypes = Events \ Overlooked
  /\ NoType \notin ControlTypes
BY DEF ControlTypes, EventTypes, Events, Overlooked, NoType

\* A control is good when it fits its type and the engine obeys it: only a ping
\* is answered then.
Settled(m) ==
    Good(m) <=> Fits(TypeOf(m), m)
                  /\ Reply(m, NotBase64) = IF TypeOf(m) = "ping" THEN <<"pong">> ELSE <<>>

\* What Reply may be.
LEMMA ReplyIs ==
  ASSUME NEW m
  PROVE  /\ TypeOf(m) = "ping" => Reply(m, NotBase64) = <<"pong">>
         /\ TypeOf(m) # "ping" => Reply(m, NotBase64) \in {<<>>, <<"bad_message">>}
<1>1. TypeOf(m) = "ping" => Reply(m, NotBase64) = <<"pong">>
  BY DEF Reply
<1>2. ASSUME TypeOf(m) # "ping"
      PROVE  Reply(m, NotBase64) \in {<<>>, <<"bad_message">>}
  <2>1. CASE TypeOf(m) = "input"
    BY <2>1 DEF Reply
  <2>2. CASE TypeOf(m) = "signal"
    BY <2>2 DEF Reply
  <2>3. CASE TypeOf(m) \notin {"ping", "input", "signal"}
    BY <2>3 DEF Reply
  <2> QED
    BY <1>2, <2>1, <2>2, <2>3
<1> QED
  BY <1>1, <1>2

\* Input: the type of enc is the reader's to check, its value the engine's, and
\* whether the data is Base64 only when enc says so (control.rs:10-20).
LEMMA InputSettled ==
  ASSUME NEW m, TypeOf(m) = "input"
  PROVE  Settled(m)
<1> DEFINE enc == IF "enc" \in DOMAIN m THEN m.enc ELSE Null
<1>1. Reply(m, NotBase64) = IF Decodes(enc, m.data, NotBase64) THEN <<>> ELSE <<"bad_message">>
  BY DEF Reply
<1>2. Fits(TypeOf(m), m) <=> IsString(m, "data")
                                /\ (IsString(m, "enc") \/ "enc" \notin DOMAIN m \/ m.enc = Null)
  BY DEF Fits
<1>3. Good(m) <=> /\ IsString(m, "data")
                  /\ \/ "enc" \notin DOMAIN m
                     \/ m.enc \in {Null, Str("utf8")}
                     \/ m.enc = Str("base64") /\ m.data.v \notin NotBase64
  BY DEF Good
<1>4. \A s : Str(s).k = "string"
  BY DEF Str
<1>5. Decodes(enc, m.data, NotBase64) <=> \/ enc \in {Null, Str("utf8")}
                                          \/ enc = Str("base64") /\ m.data.v \notin NotBase64
  BY DEF Decodes
<1>6. Good(m) <=> Fits(TypeOf(m), m) /\ Decodes(enc, m.data, NotBase64)
  <2>1. CASE "enc" \notin DOMAIN m
    <3>1. enc = Null
      BY <2>1
    <3> QED
      BY <1>2, <1>3, <1>5, <2>1, <3>1
  <2>2. CASE "enc" \in DOMAIN m
    <3>1. enc = m.enc
      BY <2>2
    <3>2. m.enc \in {Str("utf8"), Str("base64")} => IsString(m, "enc")
      BY <1>4, <2>2 DEF IsString
    <3> QED
      BY <1>2, <1>3, <1>5, <2>2, <3>1, <3>2
  <2> QED
    BY <2>1, <2>2
<1> QED
  BY <1>1, <1>6 DEF Settled

\* Resize: two numbers a u16 holds.
LEMMA ResizeSettled ==
  ASSUME NEW m, \A field \in DOMAIN m : IsJson(m[field]), TypeOf(m) = "resize"
  PROVE  Settled(m)
<1>1. Reply(m, NotBase64) = <<>>
  BY DEF Reply
<1>2. Fits(TypeOf(m), m) <=> IsU16(m, "cols") /\ IsU16(m, "rows")
  BY DEF Fits
<1>3. ASSUME NEW f
      PROVE  IsU16(m, f) <=> f \in DOMAIN m /\ m[f].k = "integer" /\ m[f].v \in 0 .. MaxU16
  <2>1. f \in DOMAIN m /\ m[f].k = "integer" => m[f].v \in Int
    BY DEF IsJson
  <2> DEFINE v == m[f].v
             number == f \in DOMAIN m /\ m[f].k = "integer"
  <2>2. IsU16(m, f) <=> number /\ v >= 0 /\ v <= MaxU16
    BY DEF IsU16, IsUnsigned
  <2>3. number => v \in Int
    BY <2>1
  <2> HIDE DEF v, number
  <2>4. ASSUME v \in Int
        PROVE  v >= 0 /\ v <= MaxU16 <=> v \in 0 .. MaxU16
    <3>1. \A n \in Int : v >= 0 /\ v <= n <=> v \in 0 .. n
      BY <2>4
    <3>2. MaxU16 \in Int
      BY DEF MaxU16
    <3> QED
      BY <3>1, <3>2
  <2>5. IsU16(m, f) <=> number /\ v \in 0 .. MaxU16
    BY <2>2, <2>3, <2>4, Zenon
  <2> QED
    BY <2>5 DEF v, number
<1>4. Good(m) <=> \A f \in {"cols", "rows"} :
                     f \in DOMAIN m /\ m[f].k = "integer" /\ m[f].v \in 0 .. MaxU16
  BY DEF Good
<1> QED
  BY <1>1, <1>2, <1>3, <1>4 DEF Settled

\* Signal: any string is a name to the reader, five are to the engine
\* (control.rs:21-30).
LEMMA SignalSettled ==
  ASSUME NEW m, \A field \in DOMAIN m : IsJson(m[field]), TypeOf(m) = "signal"
  PROVE  Settled(m)
<1> DEFINE Signals == {"HUP", "INT", "QUIT", "KILL", "TERM"}
<1>1. Reply(m, NotBase64) = IF SignalNumber(m.name.v) = 0 THEN <<"bad_message">> ELSE <<>>
  BY DEF Reply
<1>2. Fits(TypeOf(m), m) <=> IsString(m, "name")
  BY DEF Fits
<1>3. Good(m) <=> "name" \in DOMAIN m /\ m.name \in {Str(s) : s \in Signals}
  BY DEF Good
<1>4. \A s : SignalNumber(s) # 0 <=> s \in Signals
  BY DEF SignalNumber
<1>5. ASSUME "name" \in DOMAIN m
      PROVE  m.name \in {Str(s) : s \in Signals} <=> m.name.k = "string" /\ m.name.v \in Signals
  <2>1. m.name = [k |-> m.name.k, v |-> m.name.v]
    BY <1>5 DEF IsJson
  <2>2. ASSUME m.name.k = "string"
        PROVE  m.name = Str(m.name.v)
    BY <2>1, <2>2 DEF Str
  <2>3. \A s : Str(s).k = "string" /\ Str(s).v = s
    BY DEF Str
  <2> HIDE DEF Signals
  <2> QED
    BY <2>2, <2>3
<1> HIDE DEF Signals
<1>6. Good(m) <=> IsString(m, "name") /\ m.name.v \in Signals
  BY <1>3, <1>5 DEF IsString
<1> QED
  BY <1>1, <1>2, <1>4, <1>6 DEF Settled

\* Ping: a number that is not negative.
LEMMA PingSettled ==
  ASSUME NEW m, \A field \in DOMAIN m : IsJson(m[field]), TypeOf(m) = "ping"
  PROVE  Settled(m)
<1>1. Reply(m, NotBase64) = <<"pong">>
  BY DEF Reply
<1>2. Fits(TypeOf(m), m) <=> IsUnsigned(m, "id")
  BY DEF Fits
<1>3. Good(m) <=> "id" \in DOMAIN m /\ m.id.k = "integer" /\ m.id.v \in Nat
  BY DEF Good
<1>4. "id" \in DOMAIN m /\ m.id.k = "integer" => m.id.v \in Int
  BY DEF IsJson
<1> QED
  BY <1>1, <1>2, <1>3, <1>4 DEF Settled, IsUnsigned

\* Shutdown has no fields.
LEMMA ShutdownSettled ==
  ASSUME NEW m, TypeOf(m) = "shutdown"
  PROVE  Settled(m)
<1>1. Reply(m, NotBase64) = <<>> /\ Fits(TypeOf(m), m) /\ Good(m)
  BY DEF Reply, Fits, Good
<1> QED
  BY <1>1 DEF Settled

\* Whatever the host sends, it is answered as the protocol's own tables have it,
\* with the one exception Overlooked names: no message is rejected both by the
\* reader and by the engine, none by neither that should be, and none that is good
\* (codec.rs:134-157, control.rs:10-30, engine.rs:235-276, PROTOCOL.md sections 3
\* and 9).
THEOREM AnsweredAsPrescribed == Spec => []ErrorTable
<1>1. ASSUME NEW m, \A field \in DOMAIN m : IsJson(m[field]),
             ~(IsString(m, "t") /\ TypeOf(m) \in Overlooked)
      PROVE  Outcome(m, NotBase64) = Prescribed(m)
  <2> DEFINE t == TypeOf(m)
  <2>1. CASE ~IsString(m, "t")
    BY <2>1 DEF Outcome, Classify, Prescribed
  <2>2. CASE IsString(m, "t") /\ t \in Events
    <3>1. t \in EventTypes
      BY <1>1, <2>2, TypesAre
    <3> QED
      BY <2>2, <3>1 DEF Outcome, Classify, Prescribed
  <2>3. CASE IsString(m, "t") /\ t \notin Events /\ t \notin ControlTypes
    <3>1. t \notin EventTypes
      BY <2>3, TypesAre
    <3> QED
      BY <2>3, <3>1 DEF Outcome, Classify, Prescribed
  <2>4. CASE IsString(m, "t") /\ t \in ControlTypes
    <3>1. t \notin Events /\ t \notin EventTypes
      BY <2>4, TypesAre
    <3>2. Settled(m)
      <4>1. t \in {"input", "resize", "signal", "ping", "shutdown"}
        BY <2>4 DEF ControlTypes
      <4> QED
        BY <1>1, <4>1, InputSettled, ResizeSettled, SignalSettled, PingSettled, ShutdownSettled
    <3>3. Classify(m) = IF Fits(t, m) THEN <<"control">> ELSE <<"bad_message">>
      BY <2>4, <3>1 DEF Classify
    <3>4. Outcome(m, NotBase64) = IF Fits(t, m) THEN Reply(m, NotBase64) ELSE <<"bad_message">>
      BY <3>3 DEF Outcome
    <3>5. Prescribed(m) = IF ~Good(m) THEN <<"bad_message">>
                          ELSE IF t = "ping" THEN <<"pong">> ELSE <<>>
      BY <2>4, <3>1 DEF Prescribed
    <3> QED
      BY <3>2, <3>4, <3>5, ReplyIs DEF Settled
  <2> QED
    BY <2>1, <2>2, <2>3, <2>4
<1>2. ASSUME NEW m, IsString(m, "t"), TypeOf(m) \in Overlooked
      PROVE  Outcome(m, NotBase64) = <<>> /\ Prescribed(m) = <<"direction">>
  <2>1. TypeOf(m) \in Events /\ TypeOf(m) \notin EventTypes /\ TypeOf(m) \notin ControlTypes
    BY <1>2, TypesAre
  <2> QED
    BY <1>2, <2>1 DEF Outcome, Classify, Prescribed
<1>3. Inputs => ErrorTable
  BY <1>1, <1>2, WireAssumption DEF Inputs, ErrorTable
<1> QED
  BY <1>3, InputsStay, PTL

=============================================================================
