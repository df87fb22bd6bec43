---------------------------- MODULE FrameProofs ----------------------------
(***************************************************************************)
(* What one frame of the Renderer holds, for rows, screens and highlight    *)
(* caches of every size: the rows the diff finds, the events in the order of *)
(* PROTOCOL.md, a highlight for every attribute set they use, and lines a   *)
(* host lays out as they were.                                              *)
(***************************************************************************)
EXTENDS RendererInvariant, CellsProofs

-----------------------------------------------------------------------------
(* The diff, for screens of every height and rows of every kind.           *)

\* Any shift is correct: a host that holds the previous screen, scrolls it by k
\* keeping the vacated rows, and redraws the rows that differ from the baseline,
\* shows the new screen.  "So any k is correct" (render.rs:126).
THEOREM AnyShiftIsCorrect ==
    ASSUME NEW S, NEW last \in Seq(S), NEW cur \in Seq(S), Len(last) = Len(cur),
           NEW k \in Nat
    PROVE  Redraw(ScrollUp(last, k), cur, Changed(last, cur, k)) = cur
<1> DEFINE scrolled == ScrollUp(last, k)
           shown    == Redraw(scrolled, cur, Changed(last, cur, k))
<1>1. Len(scrolled) = Len(cur)
  BY DEF ScrollUp
<1>2. shown = [r \in 1 .. Len(cur) |-> IF r \in Changed(last, cur, k) THEN cur[r] ELSE scrolled[r]]
  BY <1>1 DEF Redraw
<1>3. ASSUME NEW r \in 1 .. Len(cur), r \notin Changed(last, cur, k)
      PROVE  scrolled[r] = cur[r]
  <2>1. scrolled[r] = Baseline(last, r, k)
    BY DEF ScrollUp, Baseline
  <2> QED
    BY <2>1, <1>3 DEF Changed
<1>4. shown = [r \in 1 .. Len(cur) |-> cur[r]]
  BY <1>2, <1>3
<1> QED
  BY <1>4

\* The rows to send and the rows spared make up the screen.
LEMMA SentAndSpared ==
    ASSUME NEW S, NEW last \in Seq(S), NEW cur \in Seq(S), Len(last) = Len(cur),
           NEW k \in Nat
    PROVE  /\ Matches(last, cur, k) \in Nat
           /\ Cardinality(Changed(last, cur, k)) \in Nat
           /\ Cardinality(Changed(last, cur, k)) <= Len(cur) - Matches(last, cur, k)
           /\ k = 0 => Cardinality(Changed(last, cur, k)) = Len(cur) - Matches(last, cur, k)
<1> DEFINE all    == 1 .. Len(cur)
           rest   == all \ Spared(last, cur, k)
<1>1. IsFiniteSet(all) /\ Cardinality(all) = Len(cur)
  <2>1. Len(cur) \in Nat /\ 1 \in Int /\ Len(cur) \in Int
    OBVIOUS
  <2>2. /\ IsFiniteSet(all)
        /\ Cardinality(all) = IF 1 > Len(cur) THEN 0 ELSE Len(cur) - 1 + 1
    BY <2>1, FS_Interval
  <2> QED
    BY <2>1, <2>2
<1>2. Spared(last, cur, k) \subseteq all
  BY DEF Spared
<1>3. IsFiniteSet(Spared(last, cur, k)) /\ Matches(last, cur, k) \in Nat
  BY <1>1, <1>2, FS_Subset, FS_CardinalityType DEF Matches
<1>4. IsFiniteSet(rest) /\ Cardinality(rest) = Len(cur) - Matches(last, cur, k)
  <2>1. all \cap Spared(last, cur, k) = Spared(last, cur, k)
    BY <1>2
  <2>2. /\ IsFiniteSet(rest)
        /\ Cardinality(rest) = Cardinality(all) - Cardinality(all \cap Spared(last, cur, k))
    BY <1>1, FS_Difference, Zenon
  <2> QED
    BY <1>1, <2>1, <2>2 DEF Matches
<1>5. Changed(last, cur, k) \subseteq rest
  BY DEF Changed, Spared, Baseline
<1>6. /\ IsFiniteSet(Changed(last, cur, k))
      /\ Cardinality(Changed(last, cur, k)) <= Cardinality(rest)
      /\ Cardinality(Changed(last, cur, k)) \in Nat
  BY <1>4, <1>5, FS_Subset, FS_CardinalityType
<1>7. k = 0 => Changed(last, cur, k) = rest
  BY DEF Changed, Spared, Baseline
<1> QED
  BY <1>3, <1>4, <1>6, <1>7

\* A shift that is committed pays: it sends fewer rows than staying put would and
\* at most half of the screen; and it is one the screen has room for
\* (render.rs:122-155).
THEOREM CommittedShiftPays ==
    ASSUME NEW S, NEW last \in Seq(S), NEW cur \in Seq(S),
           DetectScrollUp(last, cur) # 0
    PROVE  LET k == DetectScrollUp(last, cur)
           IN /\ k \in 1 .. Len(cur) - 1
              /\ Cardinality(Changed(last, cur, k)) < Cardinality(Changed(last, cur, 0))
              /\ 2 * Cardinality(Changed(last, cur, k)) <= Len(cur)
<1> DEFINE k      == DetectScrollUp(last, cur)
           shifts == {j \in 1 .. Len(cur) - 1 : IsBest(last, cur, j) /\ PaysOff(last, cur, j)}
<1>1. Len(last) = Len(cur) /\ k \in shifts
  BY DEF DetectScrollUp
<1>2. k \in 1 .. Len(cur) - 1 /\ PaysOff(last, cur, k) /\ Len(cur) \in Nat
  BY <1>1
<1> HIDE DEF k
<1>3. k \in Nat
  BY <1>2
<1>4. /\ Matches(last, cur, k) \in Nat
      /\ Cardinality(Changed(last, cur, k)) \in Nat
      /\ Cardinality(Changed(last, cur, k)) <= Len(cur) - Matches(last, cur, k)
  BY <1>1, <1>3, SentAndSpared
<1>5. /\ Matches(last, cur, 0) \in Nat
      /\ Cardinality(Changed(last, cur, 0)) = Len(cur) - Matches(last, cur, 0)
  BY <1>1, SentAndSpared
<1>6. Matches(last, cur, k) > Matches(last, cur, 0) /\ 2 * Matches(last, cur, k) >= Len(cur)
  BY <1>2 DEF PaysOff
<1>7. /\ Cardinality(Changed(last, cur, k)) < Cardinality(Changed(last, cur, 0))
      /\ 2 * Cardinality(Changed(last, cur, k)) <= Len(cur)
  BY <1>2, <1>4, <1>5, <1>6
<1> QED
  BY <1>2, <1>7 DEF k

-----------------------------------------------------------------------------
(* Rows.                                                                   *)

TextsOf(row) == {row[i].text : i \in DOMAIN row} \cup {Spacer}

\* The columns of a row whose cells have the marks of marks.
Parts(row, marks)   == [i \in DOMAIN row |-> CellColumns(row[i], marks[i])]
Columns(row, marks) == FlattenSeq(Parts(row, marks))

\* The columns of one cell with the mark m.
OneCell(columns, cell, m) ==
    /\ Len(columns) = IF cell.width = 2 THEN 2 ELSE 1
    /\ \A c \in 1 .. Len(columns) : columns[c] = <<IF c = 1 THEN cell.text ELSE Spacer, m>>

\* A cell of width two takes two columns of one highlight.
LEMMA CellColumnsIs ==
  ASSUME NEW T, NEW M, NEW cell, NEW m \in M, cell.text \in T, Spacer \in T
  PROVE  CellColumns(cell, m) \in Seq(T \X M) /\ OneCell(CellColumns(cell, m), cell, m)
<1>1. CASE cell.width = 2
  <2>1. CellColumns(cell, m) = <<<<cell.text, m>>, <<Spacer, m>>>>
    BY <1>1 DEF CellColumns
  <2>2. <<cell.text, m>> \in T \X M /\ <<Spacer, m>> \in T \X M
    OBVIOUS
  <2>3. CellColumns(cell, m) \in Seq(T \X M) /\ Len(CellColumns(cell, m)) = 2
    BY <2>1, <2>2
  <2>4. \A c \in 1 .. 2 : CellColumns(cell, m)[c] = <<IF c = 1 THEN cell.text ELSE Spacer, m>>
    BY <2>1
  <2> QED
    BY <1>1, <2>3, <2>4 DEF OneCell
<1>2. CASE cell.width # 2
  <2>1. CellColumns(cell, m) = <<<<cell.text, m>>>>
    BY <1>2 DEF CellColumns
  <2>2. <<cell.text, m>> \in T \X M
    OBVIOUS
  <2>3. CellColumns(cell, m) \in Seq(T \X M) /\ Len(CellColumns(cell, m)) = 1
    BY <2>1, <2>2
  <2>4. \A c \in 1 .. 1 : CellColumns(cell, m)[c] = <<IF c = 1 THEN cell.text ELSE Spacer, m>>
    BY <2>1
  <2> QED
    BY <1>2, <2>3, <2>4 DEF OneCell
<1> QED
  BY <1>1, <1>2

\* Every mark of a row's cells is on its columns.
LEMMA ColumnsType ==
  ASSUME NEW C, NEW row \in Seq(C), NEW M, NEW marks, \A i \in DOMAIN row : marks[i] \in M
  PROVE  /\ Columns(row, marks) \in Seq(TextsOf(row) \X M)
         /\ Parts(row, marks) \in Seq(Seq(TextsOf(row) \X M))
         /\ Len(Parts(row, marks)) = Len(row)
<1> DEFINE parts == Parts(row, marks)
           T == TextsOf(row)
<1>1. DOMAIN row = 1 .. Len(row) /\ Len(row) \in Nat
  OBVIOUS
<1>2. ASSUME NEW i \in DOMAIN row
      PROVE  CellColumns(row[i], marks[i]) \in Seq(T \X M)
  <2>1. row[i].text \in T /\ Spacer \in T
    BY DEF TextsOf
  <2> HIDE DEF T
  <2> QED
    BY <2>1, CellColumnsIs
<1> HIDE DEF T
<1>3. parts \in [1 .. Len(row) -> Seq(T \X M)]
  BY <1>1, <1>2 DEF Parts
<1> HIDE DEF parts
<1>4. parts \in Seq(Seq(T \X M)) /\ Len(parts) = Len(row)
  BY <1>1, <1>3, FunctionIsSeq
<1>5. FlattenSeq(parts) \in Seq(T \X M)
  BY <1>4, FlattenType
<1> QED
  BY <1>4, <1>5 DEF parts, T, Columns

\* Rows are alike under marks that are related.
LEMMA ColumnsAlike ==
  ASSUME NEW C, NEW row \in Seq(C), NEW M, NEW N, NEW marks, NEW names, NEW R,
         \A i \in DOMAIN row : marks[i] \in M /\ names[i] \in N,
         \A i \in DOMAIN row : \A t \in TextsOf(row) : <<<<t, marks[i]>>, <<t, names[i]>>>> \in R
  PROVE  Alike(Columns(row, marks), Columns(row, names), R)
<1> DEFINE a == Parts(row, marks)
           b == Parts(row, names)
           T == TextsOf(row)
<1>1. /\ a \in Seq(Seq(T \X M)) /\ Len(a) = Len(row)
      /\ b \in Seq(Seq(T \X N)) /\ Len(b) = Len(row)
  BY ColumnsType
<1>2. ASSUME NEW i \in 1 .. Len(a)
      PROVE  Alike(a[i], b[i], R)
  <2>1. i \in DOMAIN row /\ marks[i] \in M /\ names[i] \in N
    <3>1. i \in DOMAIN row
      BY <1>1
    <3> QED
      BY <3>1
  <2>2. row[i].text \in T /\ Spacer \in T
    BY <2>1 DEF TextsOf
  <2>3. a[i] = CellColumns(row[i], marks[i]) /\ b[i] = CellColumns(row[i], names[i])
    BY <2>1 DEF Parts
  <2>4. \A t \in T : <<<<t, marks[i]>>, <<t, names[i]>>>> \in R
    BY <2>1
  <2> HIDE DEF a, b, T
  <2>5. OneCell(a[i], row[i], marks[i])
    BY <2>1, <2>2, <2>3, CellColumnsIs
  <2>6. OneCell(b[i], row[i], names[i])
    BY <2>1, <2>2, <2>3, CellColumnsIs
  <2>7. ASSUME NEW c \in 1 .. Len(a[i])
        PROVE  <<a[i][c], b[i][c]>> \in R
    BY <2>2, <2>4, <2>5, <2>6 DEF OneCell
  <2> QED
    BY <2>5, <2>6, <2>7 DEF Alike, OneCell
<1> HIDE DEF a, b
<1>3. Alike(FlattenSeq(a), FlattenSeq(b), R)
  BY <1>1, <1>2, FlattenAlike
<1> QED
  BY <1>3 DEF a, b, Columns

\* A picture is made of the texts and the attributes of its row.
LEMMA PictureType ==
  ASSUME NEW C, NEW row \in Seq(C)
  PROVE  /\ Picture(row) = Columns(row, AttrsOf(row))
         /\ Picture(row) \in Seq(TextsOf(row) \X Range(AttrsOf(row)))
<1> DEFINE looks == AttrsOf(row)
           A == Range(looks)
<1>1. DOMAIN looks = DOMAIN row /\ \A i \in DOMAIN row : looks[i] = row[i].attrs
  BY DEF AttrsOf
<1>2. \A i \in DOMAIN row : looks[i] \in A
  BY <1>1 DEF Range
<1>3. [i \in DOMAIN row |-> CellColumns(row[i], row[i].attrs)] = Parts(row, looks)
  BY <1>1 DEF Parts
<1>4. Picture(row) = Columns(row, looks)
  BY <1>3 DEF Picture, Columns
<1> HIDE DEF looks, A
<1>5. Columns(row, looks) \in Seq(TextsOf(row) \X A)
  BY <1>2, ColumnsType
<1> QED
  BY <1>4, <1>5 DEF looks, A

\* A row encoded with the ids of table, laid out by the host and looked up in table
\* again, is the row's picture.
LEMMA EncodeShows ==
  ASSUME NEW C, NEW row \in Seq(C), NEW A, NEW table \in Seq(A),
         \A i \in DOMAIN row : row[i].attrs \in Range(table)
  PROVE  Shows(Place(Encode(row, table)), Picture(row), table)
<1> DEFINE ids   == Ids(table)
           marks == [i \in DOMAIN row |-> ids[row[i].attrs]]
           looks == AttrsOf(row)
           M     == Range(marks)
           T     == TextsOf(row)
           N     == Range(looks)
           R     == {p \in (T \X M) \X (T \X N) :
                       /\ p[1][1] = p[2][1]
                       /\ p[1][2] + 1 \in DOMAIN table
                       /\ table[p[1][2] + 1] = p[2][2]}
<1>1. ASSUME NEW a \in Range(table)
      PROVE  ids[a] + 1 \in DOMAIN table /\ table[ids[a] + 1] = a
  <2> DEFINE i == CHOOSE j \in DOMAIN table : table[j] = a
  <2>1. \E j \in DOMAIN table : table[j] = a
    BY DEF Range
  <2>2. i \in DOMAIN table /\ table[i] = a
    BY <2>1
  <2>3. ids[a] = i - 1
    BY DEF Ids
  <2> HIDE DEF i, ids
  <2>4. DOMAIN table = 1 .. Len(table) /\ Len(table) \in Nat
    OBVIOUS
  <2>5. (i - 1) + 1 = i
    BY <2>2, <2>4
  <2> QED
    BY <2>2, <2>3, <2>5
<1> HIDE DEF ids
<1>2. ASSUME NEW i \in DOMAIN row
      PROVE  /\ marks[i] \in M /\ looks[i] \in N
             /\ marks[i] + 1 \in DOMAIN table /\ table[marks[i] + 1] = looks[i]
  <2>1. marks[i] = ids[row[i].attrs] /\ looks[i] = row[i].attrs
    BY DEF AttrsOf
  <2>2. marks[i] \in M /\ looks[i] \in N
    BY DEF Range, AttrsOf
  <2> QED
    BY <1>1, <2>1, <2>2
<1>3. Expand(row, ids) = Columns(row, marks)
  <2>1. [i \in DOMAIN row |-> CellColumns(row[i], ids[row[i].attrs])] = Parts(row, marks)
    BY DEF Parts
  <2> QED
    BY <2>1 DEF Expand, Columns
<1>4. Picture(row) = Columns(row, looks)
  BY PictureType
<1> HIDE DEF marks, looks, M, N, T
<1>5. Columns(row, marks) \in Seq(T \X M)
  BY <1>2, ColumnsType DEF T
<1>6. Place(Encode(row, table)) = Columns(row, marks)
  BY <1>3, <1>5, PlaceUndoesCompress DEF Encode, ids
<1>7. Alike(Columns(row, marks), Columns(row, looks), R)
  <2>1. ASSUME NEW i \in DOMAIN row, NEW t \in T
        PROVE  <<<<t, marks[i]>>, <<t, looks[i]>>>> \in R
    BY <1>2
  <2>2. \A i \in DOMAIN row : marks[i] \in M /\ looks[i] \in N
    BY <1>2
  <2> HIDE DEF R
  <2> QED
    BY <2>1, <2>2, ColumnsAlike DEF T
<1>8. \A p \in R : /\ p[1][1] = p[2][1] /\ p[1][2] + 1 \in DOMAIN table
                   /\ table[p[1][2] + 1] = p[2][2]
  OBVIOUS
<1> DEFINE columns == Columns(row, marks)
           picture == Columns(row, looks)
<1> HIDE DEF R, columns, picture
<1>9. Len(columns) = Len(picture) /\ \A c \in 1 .. Len(columns) : <<columns[c], picture[c]>> \in R
  BY <1>7 DEF Alike, columns, picture
<1>10. DOMAIN picture = 1 .. Len(picture) /\ IsSequence(columns)
  <2>1. picture \in Seq(T \X N)
    BY <1>2, ColumnsType DEF T, picture
  <2>2. columns \in Seq(T \X M)
    BY <1>5 DEF columns
  <2> QED
    BY <2>1, <2>2 DEF IsSequence
<1>11. Shows(columns, picture, table)
  <2>1. ASSUME NEW c \in DOMAIN picture
        PROVE  /\ columns[c][1] = picture[c][1]
               /\ columns[c][2] + 1 \in DOMAIN table
               /\ table[columns[c][2] + 1] = picture[c][2]
    <3>1. <<columns[c], picture[c]>> \in R
      BY <1>9, <1>10
    <3>2. <<columns[c], picture[c]>>[1] = columns[c] /\ <<columns[c], picture[c]>>[2] = picture[c]
      OBVIOUS
    <3> QED
      BY <1>8, <3>1, <3>2
  <2> QED
    BY <1>9, <1>10, <2>1 DEF Shows
<1> QED
  BY <1>4, <1>6, <1>11 DEF columns, picture

-----------------------------------------------------------------------------
(* The highlight cache.                                                    *)

Injects(table) == \A i, j \in DOMAIN table : table[i] = table[j] => i = j

\* whole is table with the attribute sets of seen it lacked at its end.
GrowsBy(whole, table, seen) ==
    /\ Injects(whole)
    /\ Len(table) <= Len(whole)
    /\ \A i \in DOMAIN table : i \in DOMAIN whole /\ whole[i] = table[i]
    /\ \A i \in DOMAIN seen : seen[i] \in Range(whole)

\* An attribute set is looked for in the cache and among those the frame has met
\* already, so no two ids stand for the same (hlcache.rs:29-41).
LEMMA NewAttrsIs ==
  ASSUME NEW A, NEW table \in Seq(A), NEW seen \in Seq(A), Injects(table)
  PROVE  /\ NewAttrs(table, seen) \in Seq(A)
         /\ table \o NewAttrs(table, seen) \in Seq(A)
         /\ Joins(table \o NewAttrs(table, seen), table, NewAttrs(table, seen))
         /\ GrowsBy(table \o NewAttrs(table, seen), table, seen)
<1> DEFINE first == {i \in DOMAIN seen : seen[i] \notin Range(table)
                                         /\ \A j \in 1 .. i - 1 : seen[j] # seen[i]}
           order == Sorted(first)
           new   == NewAttrs(table, seen)
           whole == table \o new
<1>1. DOMAIN seen = 1 .. Len(seen) /\ Len(seen) \in Nat
      /\ DOMAIN table = 1 .. Len(table) /\ Len(table) \in Nat
  OBVIOUS
<1>2. first \in SUBSET Nat /\ IsFiniteSet(first)
  <2>1. IsFiniteSet(1 .. Len(seen))
    <3>1. 1 \in Int /\ Len(seen) \in Int
      BY <1>1
    <3> QED
      BY <3>1, FS_Interval
  <2>2. first \subseteq 1 .. Len(seen)
    BY <1>1
  <2>3. IsFiniteSet(first)
    <3> HIDE DEF first
    <3> QED
      BY <2>1, <2>2, FS_Subset
  <2> QED
    BY <2>2, <2>3
<1>3. Ascends(order, first)
  <2> HIDE DEF first
  <2> QED
    BY <1>2, SortedAscends
<1>4. new = [i \in DOMAIN order |-> seen[order[i]]]
  BY DEF NewAttrs
<1>5. /\ order \in Seq(first) /\ Len(order) \in Nat
      /\ \A v \in first : Holds(order, v)
      /\ \A i, j \in 1 .. Len(order) : i < j => order[i] < order[j]
  BY <1>3 DEF Ascends
<1>6. \A i \in first : /\ i \in 1 .. Len(seen) /\ seen[i] \notin Range(table)
                       /\ \A j \in 1 .. i - 1 : seen[j] # seen[i]
  BY <1>1
<1> HIDE DEF first, order, new
<1>7. DOMAIN order = 1 .. Len(order) /\ \A i \in 1 .. Len(order) : order[i] \in first
  BY <1>5
<1>8. new \in Seq(A) /\ Len(new) = Len(order)
  <2>1. new \in [1 .. Len(order) -> A]
    <3>1. \A i \in 1 .. Len(order) : seen[order[i]] \in A
      BY <1>6, <1>7
    <3> QED
      BY <1>4, <1>7, <3>1
  <2> QED
    BY <1>5, <2>1, FunctionIsSeq
<1>9. \A i \in 1 .. Len(order) : new[i] = seen[order[i]]
  BY <1>4, <1>7
<1>10. whole \in Seq(A) /\ Joins(whole, table, new)
  BY <1>8, ConcatJoins, ConcatProperties
<1> HIDE DEF whole
<1>11. DOMAIN whole = 1 .. Len(whole) /\ Len(whole) = Len(table) + Len(order)
  BY <1>8, <1>10 DEF Joins
<1>12. \A i \in 1 .. Len(table) : whole[i] = table[i]
  BY <1>10 DEF Joins
<1>13. \A i \in 1 .. Len(order) : whole[Len(table) + i] = seen[order[i]]
  BY <1>8, <1>9, <1>10 DEF Joins
<1>14. ASSUME NEW i \in 1 .. Len(whole), i > Len(table)
       PROVE  \E n \in 1 .. Len(order) : i = Len(table) + n
  <2>1. i - Len(table) \in 1 .. Len(order) /\ i = Len(table) + (i - Len(table))
    BY <1>1, <1>5, <1>11, <1>14
  <2> QED
    BY <2>1
<1>15. ASSUME NEW i \in 1 .. Len(order), NEW j \in 1 .. Len(order), seen[order[i]] = seen[order[j]]
       PROVE  i = j
  <2>1. ASSUME NEW m \in 1 .. Len(order), NEW n \in 1 .. Len(order), m < n
        PROVE  seen[order[m]] # seen[order[n]]
    <3>1. order[m] \in first /\ order[n] \in first /\ order[m] < order[n]
      BY <1>5, <1>7, <2>1
    <3>2. order[m] \in 1 .. order[n] - 1
      BY <1>1, <1>6, <3>1
    <3> QED
      BY <1>6, <3>1, <3>2
  <2>2. ~(i < j) /\ ~(j < i)
    BY <1>15, <2>1
  <2> QED
    BY <2>2
<1>16. ASSUME NEW i \in 1 .. Len(order)
       PROVE  seen[order[i]] \notin Range(table)
  BY <1>6, <1>7
<1>17. ASSUME NEW i \in 1 .. Len(whole), NEW j \in 1 .. Len(whole), whole[i] = whole[j]
       PROVE  i = j
  <2>1. ASSUME NEW m \in 1 .. Len(whole), NEW n \in 1 .. Len(whole), m <= Len(table), n > Len(table)
        PROVE  whole[m] # whole[n]
    <3>1. PICK k \in 1 .. Len(order) : n = Len(table) + k
      BY <1>14, <2>1
    <3>2. whole[m] = table[m] /\ whole[n] = seen[order[k]]
      BY <1>12, <1>13, <2>1, <3>1
    <3>3. table[m] \in Range(table)
      <4>1. m \in DOMAIN table
        BY <1>1, <2>1
      <4> QED
        BY <4>1 DEF Range
    <3> QED
      BY <1>16, <3>2, <3>3
  <2>2. CASE i <= Len(table) /\ j <= Len(table)
    BY <1>1, <1>12, <1>17, <2>2 DEF Injects
  <2>3. CASE i > Len(table) /\ j > Len(table)
    <3>1. PICK m \in 1 .. Len(order) : i = Len(table) + m
      BY <1>14, <2>3
    <3>2. PICK n \in 1 .. Len(order) : j = Len(table) + n
      BY <1>14, <2>3
    <3>3. seen[order[m]] = seen[order[n]]
      BY <1>13, <1>17, <3>1, <3>2
    <3> QED
      BY <1>15, <3>1, <3>2, <3>3
  <2>4. \/ i <= Len(table) /\ j <= Len(table)
        \/ i > Len(table) /\ j > Len(table)
        \/ i <= Len(table) /\ j > Len(table)
        \/ i > Len(table) /\ j <= Len(table)
    <3>1. i \in Nat /\ j \in Nat /\ Len(table) \in Nat
      BY <1>1
    <3> QED
      BY <3>1
  <2> QED
    BY <1>17, <2>1, <2>2, <2>3, <2>4
<1>18. ASSUME NEW i \in DOMAIN seen
       PROVE  seen[i] \in Range(whole)
  <2>1. CASE seen[i] \in Range(table)
    <3>1. PICK n \in DOMAIN table : table[n] = seen[i]
      BY <2>1 DEF Range
    <3>2. n \in DOMAIN whole /\ whole[n] = seen[i]
      BY <1>1, <1>5, <1>11, <1>12, <3>1
    <3> QED
      BY <3>2 DEF Range
  <2>2. CASE seen[i] \notin Range(table)
    <3> DEFINE same == {j \in 1 .. Len(seen) : seen[j] = seen[i]}
    <3>1. same \subseteq Nat /\ same # {}
      BY <1>1
    <3>2. PICK m \in same : \A j \in same : m <= j
      <4> HIDE DEF same
      <4> QED
        BY <3>1, Least
    <3>3. m \in first
      <4>1. ASSUME NEW j \in 1 .. m - 1
            PROVE  seen[j] # seen[m]
        <5>1. j \in 1 .. Len(seen) /\ ~(m <= j)
          BY <1>1, <3>2
        <5>2. j \notin same
          BY <3>2, <5>1
        <5> QED
          BY <5>1, <5>2, <3>2
      <4>2. m \in 1 .. Len(seen) /\ seen[m] = seen[i]
        BY <3>2
      <4> QED
        BY <1>1, <2>2, <4>1, <4>2 DEF first
    <3>4. PICK n \in 1 .. Len(order) : order[n] = m
      BY <1>5, <3>3 DEF Holds
    <3>5. whole[Len(table) + n] = seen[i]
      BY <1>13, <3>2, <3>4
    <3>6. Len(table) + n \in DOMAIN whole
      BY <1>1, <1>5, <1>11
    <3> QED
      BY <3>5, <3>6 DEF Range
  <2> QED
    BY <2>1, <2>2
<1>19. GrowsBy(whole, table, seen)
  <2>1. Injects(whole)
    BY <1>11, <1>17 DEF Injects
  <2>2. Len(table) <= Len(whole)
    BY <1>1, <1>5, <1>11
  <2>3. \A i \in DOMAIN table : i \in DOMAIN whole /\ whole[i] = table[i]
    BY <1>1, <1>11, <1>12, <2>2
  <2> QED
    BY <1>18, <2>1, <2>2, <2>3 DEF GrowsBy
<1> QED
  BY <1>8, <1>10, <1>19 DEF new, whole

-----------------------------------------------------------------------------
(* Sequences of events.                                                    *)

\* The two ways to say that something is a sequence, one from the other.
LEMMA SequenceType ==
  ASSUME NEW s, IsSequence(s)
  PROVE  s \in Seq(Range(s)) /\ DOMAIN s = 1 .. Len(s)
<1>1. Len(s) \in Nat /\ s = [i \in 1 .. Len(s) |-> s[i]]
  BY DEF IsSequence
<1>2. DOMAIN s = 1 .. Len(s)
  BY <1>1
<1>3. s \in [1 .. Len(s) -> Range(s)]
  BY <1>1, <1>2 DEF Range
<1> QED
  BY <1>1, <1>2, <1>3, FunctionIsSeq

\* And the other from the one.
LEMMA TypeSequence ==
  ASSUME NEW S, NEW s \in Seq(S)
  PROVE  IsSequence(s) /\ DOMAIN s = 1 .. Len(s)
BY DEF IsSequence

\* Sequences can be joined.
LEMMA SequencesJoin ==
  ASSUME NEW s, NEW t, IsSequence(s), IsSequence(t)
  PROVE  IsSequence(s \o t) /\ Joins(s \o t, s, t)
<1> DEFINE S == Range(s) \cup Range(t)
<1>1. s \in Seq(S) /\ t \in Seq(S)
  <2>1. s \in Seq(Range(s)) /\ t \in Seq(Range(t))
    BY SequenceType
  <2>2. Range(s) \subseteq S /\ Range(t) \subseteq S
    OBVIOUS
  <2> HIDE DEF S
  <2> QED
    BY <2>1, <2>2, SeqMonotonic
<1> HIDE DEF S
<1>2. s \o t \in Seq(S)
  BY <1>1, ConcatProperties
<1> QED
  BY <1>1, <1>2, ConcatJoins, TypeSequence

\* Events of the ranks a to b, in order.
Block(s, a, b) ==
    /\ IsSequence(s)
    /\ InRankOrder(s)
    /\ \A i \in DOMAIN s : s[i].t \in DOMAIN Rank /\ Rank[s[i].t] \in a .. b

\* What u holds is in s or in t.
Merges(u, s, t) == \A e : Holds(u, e) <=> Holds(s, e) \/ Holds(t, e)

\* Two blocks make one if the ranks of the first come before those of the second.
LEMMA BlocksJoin ==
  ASSUME NEW s, NEW t, NEW a \in Nat, NEW b \in Nat, NEW c \in Nat, NEW d \in Nat,
         Block(s, a, b), Block(t, c, d), b < c, a <= c, b <= d
  PROVE  Block(s \o t, a, d) /\ Merges(s \o t, s, t) /\ Joins(s \o t, s, t)
<1> DEFINE u == s \o t
<1>1. IsSequence(u) /\ Joins(u, s, t)
  BY SequencesJoin DEF Block
<1> HIDE DEF u
<1>2. /\ DOMAIN s = 1 .. Len(s) /\ DOMAIN t = 1 .. Len(t) /\ DOMAIN u = 1 .. Len(u)
      /\ Len(s) \in Nat /\ Len(t) \in Nat /\ Len(u) = Len(s) + Len(t)
  BY <1>1, SequenceType DEF Block, Joins
<1>3. \A i \in 1 .. Len(s) : u[i] = s[i]
  BY <1>1 DEF Joins
<1>4. ASSUME NEW i \in 1 .. Len(u), i > Len(s)
      PROVE  \E n \in 1 .. Len(t) : i = Len(s) + n /\ u[i] = t[n]
  <2>1. i - Len(s) \in 1 .. Len(t) /\ i = Len(s) + (i - Len(s))
    BY <1>2, <1>4
  <2> QED
    BY <1>1, <2>1 DEF Joins
<1>5. /\ \A i \in 1 .. Len(s) : s[i].t \in DOMAIN Rank /\ Rank[s[i].t] \in a .. b
      /\ \A i \in 1 .. Len(t) : t[i].t \in DOMAIN Rank /\ Rank[t[i].t] \in c .. d
  BY <1>2 DEF Block
<1>6. ASSUME NEW i \in 1 .. Len(u)
      PROVE  u[i].t \in DOMAIN Rank /\ Rank[u[i].t] \in a .. d
  <2>1. CASE i <= Len(s)
    <3>1. i \in 1 .. Len(s)
      BY <1>2, <2>1
    <3>2. u[i].t \in DOMAIN Rank /\ Rank[u[i].t] \in a .. b
      BY <1>3, <1>5, <3>1
    <3> HIDE DEF Rank
    <3> QED
      BY <3>2
  <2>2. CASE i > Len(s)
    <3>1. u[i].t \in DOMAIN Rank /\ Rank[u[i].t] \in c .. d
      BY <1>4, <1>5, <2>2
    <3> QED
      BY <3>1
  <2> QED
    BY <1>2, <2>1, <2>2
<1>7. ASSUME NEW i \in 1 .. Len(u), NEW j \in 1 .. Len(u), i < j
      PROVE  Before(u[i], u[j])
  <2>1. CASE j <= Len(s)
    <3>1. i \in 1 .. Len(s) /\ j \in 1 .. Len(s)
      BY <1>2, <1>7, <2>1
    <3>2. Before(s[i], s[j])
      BY <1>2, <1>7, <3>1 DEF Block, InRankOrder
    <3> QED
      BY <1>3, <3>1, <3>2
  <2>2. CASE i <= Len(s) /\ j > Len(s)
    <3>1. PICK n \in 1 .. Len(t) : u[j] = t[n]
      BY <1>4, <2>2
    <3>2. i \in 1 .. Len(s)
      BY <1>2, <2>2
    <3>3. Rank[u[i].t] \in a .. b /\ Rank[u[j].t] \in c .. d
      BY <1>3, <1>5, <3>1, <3>2
    <3> DEFINE p == Rank[u[i].t]
               q == Rank[u[j].t]
    <3>4. p \in a .. b /\ q \in c .. d
      BY <3>3
    <3> HIDE DEF p, q
    <3>5. p < q
      BY <3>4
    <3> QED
      BY <3>5 DEF Before, p, q
  <2>3. CASE i > Len(s)
    <3>0. j > Len(s)
      BY <1>2, <1>7, <2>3
    <3>1. PICK m \in 1 .. Len(t) : i = Len(s) + m /\ u[i] = t[m]
      BY <1>4, <2>3
    <3>2. PICK n \in 1 .. Len(t) : j = Len(s) + n /\ u[j] = t[n]
      BY <1>4, <3>0
    <3>3. m < n
      BY <1>2, <1>7, <3>1, <3>2
    <3>4. Before(t[m], t[n])
      BY <1>2, <3>3 DEF Block, InRankOrder
    <3> QED
      BY <3>1, <3>2, <3>4
  <2> QED
    BY <1>2, <2>1, <2>2, <2>3
<1>8. Block(u, a, d)
  BY <1>1, <1>2, <1>6, <1>7 DEF Block, InRankOrder
<1>9. Merges(u, s, t)
  <2>1. ASSUME NEW e, Holds(u, e)
        PROVE  Holds(s, e) \/ Holds(t, e)
    <3>1. PICK i \in 1 .. Len(u) : u[i] = e
      BY <2>1 DEF Holds
    <3>2. CASE i <= Len(s)
      <4>1. i \in 1 .. Len(s) /\ s[i] = e
        BY <1>2, <1>3, <3>1, <3>2
      <4> QED
        BY <4>1 DEF Holds
    <3>3. CASE i > Len(s)
      BY <1>4, <3>1, <3>3 DEF Holds
    <3> QED
      BY <1>2, <3>2, <3>3
  <2>2. \A e : Holds(s, e) \/ Holds(t, e) => Holds(u, e)
    BY <1>1, JoinsHolds
  <2> QED
    BY <2>1, <2>2, Zenon DEF Merges
<1> QED
  BY <1>1, <1>8, <1>9 DEF u

\* No event at all is a block of any ranks.
LEMMA NoBlock ==
  ASSUME NEW a, NEW b
  PROVE  Block(<<>>, a, b) /\ \A e : ~Holds(<<>>, e)
BY DEF Block, IsSequence, InRankOrder, Holds

\* One event is a block of its rank.
LEMMA OneBlock ==
  ASSUME NEW e, e.t \in DOMAIN Rank, NEW a, NEW b, Rank[e.t] \in a .. b
  PROVE  Block(<<e>>, a, b) /\ \A f : Holds(<<e>>, f) <=> f = e
<1>1. Len(<<e>>) = 1 /\ <<e>>[1] = e /\ DOMAIN <<e>> = 1 .. 1
  OBVIOUS
<1>2. IsSequence(<<e>>)
  BY DEF IsSequence
<1>3. InRankOrder(<<e>>)
  BY <1>1 DEF InRankOrder
<1> HIDE DEF Rank
<1>4. Block(<<e>>, a, b)
  BY <1>1, <1>2, <1>3 DEF Block
<1>5. \A f : Holds(<<e>>, f) <=> f = e
  BY <1>1 DEF Holds
<1> QED
  BY <1>4, <1>5

\* s holds e if c, and nothing else.
HoldsIf(s, c, e) == \A f : Holds(s, f) <=> c /\ f = e

\* An event that is sent on a condition.
LEMMA WhenBlock ==
  ASSUME NEW e, e.t \in DOMAIN Rank, NEW a, NEW b, Rank[e.t] \in a .. b, NEW c \in BOOLEAN
  PROVE  Block(When(c, <<e>>), a, b) /\ HoldsIf(When(c, <<e>>), c, e)
<1>1. CASE c
  BY <1>1, OneBlock DEF When, HoldsIf
<1>2. CASE ~c
  BY <1>2, NoBlock DEF When, HoldsIf
<1> QED
  BY <1>1, <1>2

-----------------------------------------------------------------------------
(* One frame.                                                              *)

\* e is an event of the frame, the highlight cache being table once it is made.
InFrame(e, table) ==
    \/ Resized /\ e = Event("grid_resize", size)
    \/ ~defaultsSent /\ e = Event("default_colors", 0)
    \/ \E n \in Len(hl) + 1 .. Len(table) : e = Event("hl_attr", [id |-> n - 1, attrs |-> table[n]])
    \/ committed # <<>> /\ e = Event("scrollback_push",
                                     [i \in DOMAIN committed |-> Encode(committed[i], table)])
    \/ Full /\ e = Event("grid_clear", 0)
    \/ Scroll > 0 /\ e = Event("grid_scroll", Scroll)
    \/ \E r \in ToSend : e = Event("grid_line", [row |-> r, cells |-> Encode(lines[r], table)])
    \/ prevCursor # <<cursor>> /\ e = Event("cursor", cursor)
    \/ prevAlt # <<alt>> /\ e = Event("mode", alt)
    \/ Holds(title, e.v) /\ e = Event("title", e.v)
    \/ bell /\ e = Event("bell", 0)
    \/ e = Event("flush", 0)

\* The attribute sets of a row are in table.
Covers(table, row) == \A i \in DOMAIN row : row[i].attrs \in Range(table)

\* The state a frame is made of.
ReadyToFrame ==
    /\ hl \in Seq(AttrSets) /\ Injects(hl)
    /\ committed \in Seq(Rows)
    /\ size \in Sizes /\ lines \in Screens(size)
    /\ Len(title) <= 1 /\ IsSequence(title)
    /\ bell \in BOOLEAN /\ Scroll \in Nat

\* A row, its picture and its attributes.
LEMMA RowType ==
  ASSUME NEW row \in Rows
  PROVE  /\ row \in Seq(Range(row)) /\ Looks[row] = Picture(row)
         /\ AttrsOf(row) \in Seq(AttrSets)
         /\ DOMAIN AttrsOf(row) = DOMAIN row
<1>1. row \in Seq(Range(row))
  BY RowsAssumption
<1>2. DOMAIN row = 1 .. Len(row) /\ Len(row) \in Nat
  BY <1>1
<1>3. AttrsOf(row) \in [1 .. Len(row) -> AttrSets]
  <2>1. \A i \in DOMAIN row : AttrsOf(row)[i] \in Range(AttrsOf(row))
    BY DEF AttrsOf, Range
  <2>2. Range(AttrsOf(row)) \subseteq AttrSets
    BY DEF AttrSets
  <2>3. AttrsOf(row) = [i \in 1 .. Len(row) |-> AttrsOf(row)[i]]
    BY <1>2 DEF AttrsOf
  <2> QED
    BY <1>2, <2>1, <2>2, <2>3
<1>4. AttrsOf(row) \in Seq(AttrSets) /\ DOMAIN AttrsOf(row) = DOMAIN row
  BY <1>2, <1>3, FunctionIsSeq
<1> QED
  BY <1>1, <1>4 DEF Looks

\* The attribute sets that the rows of a list use.
LEMMA AttrsSeen ==
  ASSUME NEW n \in Nat, NEW rows \in [1 .. n -> Rows],
         NEW lists, lists = [i \in 1 .. n |-> AttrsOf(rows[i])]
  PROVE  /\ FlattenSeq(lists) \in Seq(AttrSets)
         /\ \A i \in 1 .. n : \A c \in DOMAIN rows[i] : Holds(FlattenSeq(lists), rows[i][c].attrs)
<1>1. ASSUME NEW i \in 1 .. n
      PROVE  lists[i] \in Seq(AttrSets) /\ DOMAIN lists[i] = DOMAIN rows[i]
  <2>1. lists[i] = AttrsOf(rows[i]) /\ rows[i] \in Rows
    OBVIOUS
  <2> QED
    BY <2>1, RowType
<1>2. lists \in Seq(Seq(AttrSets)) /\ Len(lists) = n
  <2>1. lists \in [1 .. n -> Seq(AttrSets)]
    BY <1>1
  <2> QED
    BY <2>1, FunctionIsSeq
<1>3. FlattenSeq(lists) \in Seq(AttrSets)
  BY <1>2, FlattenType
<1>4. ASSUME NEW i \in 1 .. n, NEW c \in DOMAIN rows[i]
      PROVE  Holds(FlattenSeq(lists), rows[i][c].attrs)
  <2>1. lists[i][c] = rows[i][c].attrs
    BY DEF AttrsOf
  <2>2. c \in 1 .. Len(lists[i])
    BY <1>1
  <2>3. Holds(lists[i], rows[i][c].attrs)
    BY <2>1, <2>2 DEF Holds
  <2>4. i \in 1 .. Len(lists)
    BY <1>2
  <2> QED
    BY <1>2, <2>3, <2>4, FlattenHolds
<1> QED
  BY <1>3, <1>4

\* The rows to send are rows of the screen.
LEMMA ToSendIs ==
  ASSUME ReadyToFrame
  PROVE  /\ ToSend \subseteq 1 .. size.rows
         /\ ToSend \in SUBSET Nat /\ IsFiniteSet(ToSend)
         /\ size.rows \in Nat \ {0}
         /\ lines \in [1 .. size.rows -> Rows] /\ Len(lines) = size.rows
<1>1. size.rows \in Nat \ {0}
  BY RowsAssumption DEF ReadyToFrame
<1>2. lines \in [1 .. size.rows -> Rows]
  BY DEF ReadyToFrame, Screens, RowsOf
<1>3. Len(lines) = size.rows
  BY <1>1, <1>2, FunctionIsSeq
<1>4. ToSend \subseteq 1 .. size.rows
  BY <1>3 DEF ToSend, Changed
<1>5. IsFiniteSet(1 .. size.rows)
  <2>1. 1 \in Int /\ size.rows \in Int
    BY <1>1
  <2> QED
    BY <2>1, FS_Interval
<1>6. IsFiniteSet(ToSend)
  BY <1>4, <1>5, FS_Subset
<1>7. ToSend \in SUBSET Nat
  BY <1>1, <1>4
<1> QED
  BY <1>1, <1>2, <1>3, <1>4, <1>6, <1>7

\* What Events is made of, block by block, the highlight cache being table.
Definitions(new) ==
    [i \in DOMAIN new |-> Event("hl_attr", [id |-> NextId(hl) + i - 1, attrs |-> new[i]])]
Pushes(table) ==
    When(committed # <<>>,
         <<Event("scrollback_push", [i \in DOMAIN committed |-> Encode(committed[i], table)])>>)
RowLines(rows, table) ==
    [i \in DOMAIN rows |->
        Event("grid_line", [row |-> rows[i], cells |-> Encode(lines[rows[i]], table)])]
Titled == [i \in DOMAIN title |-> Event("title", title[i])]
Live(rows, table) ==
    When(Full, <<Event("grid_clear", 0)>>) \o When(Scroll > 0, <<Event("grid_scroll", Scroll)>>)
      \o RowLines(rows, table)
SideEvents ==
    When(prevCursor # <<cursor>>, <<Event("cursor", cursor)>>)
      \o When(prevAlt # <<alt>>, <<Event("mode", alt)>>)
      \o Titled
      \o When(bell, <<Event("bell", 0)>>)
Opening == When(Resized, <<Event("grid_resize", size)>>)
             \o When(~defaultsSent, <<Event("default_colors", 0)>>)
Seen(rows) ==
    FlattenSeq([i \in DOMAIN committed |-> AttrsOf(committed[i])])
      \o FlattenSeq([i \in DOMAIN rows |-> AttrsOf(lines[rows[i]])])

\* A frame is its opening, the definitions, the committed lines, the live rows, the side
\* state and the flush, in this order (render.rs:183-299).
LEMMA EventsAre ==
  LET rows  == Sorted(ToSend)
      new   == NewAttrs(hl, Seen(rows))
      table == hl \o new
  IN /\ Events.table = table
     /\ Events.events = (Opening \o (Definitions(new) \o Pushes(table) \o Live(rows, table)))
                          \o (SideEvents \o <<Event("flush", 0)>>)
BY Zenon DEF Events, Opening, Definitions, Pushes, Live, RowLines, SideEvents, Titled, Seen,
         Body, Closed

\* One definition for each new highlight, in the order of the ids.
LEMMA DefinitionsBlock ==
  ASSUME ReadyToFrame, NEW new \in Seq(AttrSets), NEW table, Joins(table, hl, new)
  PROVE  /\ Block(Definitions(new), 3, 3)
         /\ \A e : Holds(Definitions(new), e) <=>
               \E n \in Len(hl) + 1 .. Len(table) :
                  e = Event("hl_attr", [id |-> n - 1, attrs |-> table[n]])
<1> DEFINE s == Definitions(new)
           f(i) == Event("hl_attr", [id |-> Len(hl) + i - 1, attrs |-> new[i]])
<1>1. DOMAIN new = 1 .. Len(new) /\ Len(new) \in Nat /\ Len(hl) \in Nat
      /\ Len(table) = Len(hl) + Len(new)
  BY DEF Joins
<1>2. s = [i \in 1 .. Len(new) |-> f(i)]
  BY <1>1 DEF Definitions, NextId
<1>3. IsSequence(s) /\ DOMAIN s = 1 .. Len(new) /\ Len(s) = Len(new)
      /\ \A i \in 1 .. Len(new) : s[i] = f(i)
  <2>1. DOMAIN s = 1 .. Len(new) /\ \A i \in 1 .. Len(new) : s[i] = f(i)
    BY <1>2
  <2>2. s \in [1 .. Len(new) -> Range(s)]
    <3> HIDE DEF f
    <3> QED
      BY <1>2, <2>1 DEF Range
  <2> HIDE DEF s, f
  <2>3. s \in Seq(Range(s)) /\ Len(s) = Len(new)
    BY <1>1, <2>2, FunctionIsSeq
  <2>4. IsSequence(s)
    BY <2>3, TypeSequence
  <2> QED
    BY <2>1, <2>3, <2>4
<1>4. \A i \in 1 .. Len(new) : /\ f(i).t = "hl_attr" /\ f(i).v.id = Len(hl) + i - 1
  BY DEF Event
<1>5. ASSUME NEW i \in 1 .. Len(new), NEW j \in 1 .. Len(new), i < j
      PROVE  Before(s[i], s[j])
  <2>1. /\ s[i].t = "hl_attr" /\ s[j].t = "hl_attr"
        /\ s[i].v.id = Len(hl) + i - 1 /\ s[j].v.id = Len(hl) + j - 1
    BY <1>3, <1>4
  <2>2. Len(hl) + i - 1 < Len(hl) + j - 1
    BY <1>1, <1>5
  <2>3. s[i].v.id < s[j].v.id
    BY <2>1, <2>2
  <2> HIDE DEF s
  <2> QED
    BY <2>1, <2>3 DEF Before, Within
<1>6. Block(s, 3, 3)
  <2>1. \A i \in 1 .. Len(new) : s[i].t \in DOMAIN Rank /\ Rank[s[i].t] \in 3 .. 3
    <3>1. "hl_attr" \in DOMAIN Rank /\ Rank["hl_attr"] \in 3 .. 3
      BY DEF Rank
    <3>2. \A i \in 1 .. Len(new) : s[i].t = "hl_attr"
      BY <1>3, <1>4
    <3> QED
      BY <3>1, <3>2
  <2> QED
    BY <1>3, <1>5, <2>1 DEF Block, InRankOrder
<1> HIDE DEF s
<1>7. ASSUME NEW i \in 1 .. Len(new)
      PROVE  Len(hl) + i \in Len(hl) + 1 .. Len(table) /\ table[Len(hl) + i] = new[i]
             /\ s[i] = Event("hl_attr", [id |-> (Len(hl) + i) - 1, attrs |-> table[Len(hl) + i]])
  <2>1. Len(hl) + i \in Len(hl) + 1 .. Len(table)
    BY <1>1
  <2>2. table[Len(hl) + i] = new[i]
    BY DEF Joins
  <2> QED
    BY <1>3, <2>1, <2>2
<1>8. ASSUME NEW n \in Len(hl) + 1 .. Len(table)
      PROVE  \E i \in 1 .. Len(new) : n = Len(hl) + i
  <2>1. n - Len(hl) \in 1 .. Len(new) /\ n = Len(hl) + (n - Len(hl))
    BY <1>1
  <2> QED
    BY <2>1
<1>9. \A e : Holds(s, e) <=>
               \E n \in Len(hl) + 1 .. Len(table) :
                  e = Event("hl_attr", [id |-> n - 1, attrs |-> table[n]])
  <2>1. ASSUME NEW e, Holds(s, e)
        PROVE  \E n \in Len(hl) + 1 .. Len(table) :
                  e = Event("hl_attr", [id |-> n - 1, attrs |-> table[n]])
    <3>1. PICK i \in 1 .. Len(new) : s[i] = e
      BY <1>3, <2>1 DEF Holds
    <3> QED
      BY <1>7, <3>1
  <2>2. ASSUME NEW n \in Len(hl) + 1 .. Len(table)
        PROVE  Holds(s, Event("hl_attr", [id |-> n - 1, attrs |-> table[n]]))
    <3>1. PICK i \in 1 .. Len(new) : n = Len(hl) + i
      BY <1>8
    <3> QED
      BY <1>3, <1>7, <3>1 DEF Holds
  <2> QED
    BY <2>1, <2>2
<1> QED
  BY <1>6, <1>9 DEF s

\* One grid_line for each row to send, from top to bottom.
LEMMA RowLinesBlock ==
  ASSUME ReadyToFrame, NEW table
  PROVE  /\ Block(RowLines(Sorted(ToSend), table), 7, 7)
         /\ \A e : Holds(RowLines(Sorted(ToSend), table), e) <=>
               \E r \in ToSend : e = Event("grid_line", [row |-> r, cells |-> Encode(lines[r], table)])
<1> DEFINE rows == Sorted(ToSend)
           s == RowLines(rows, table)
           f(r) == Event("grid_line", [row |-> r, cells |-> Encode(lines[r], table)])
           n == Len(rows)
<1>1. Ascends(rows, ToSend) /\ ToSend \subseteq Nat
  BY ToSendIs, SortedAscends
<1> HIDE DEF rows
<1>2. /\ n \in Nat /\ DOMAIN rows = 1 .. n
      /\ \A i \in 1 .. n : rows[i] \in ToSend /\ rows[i] \in Nat
      /\ \A v \in ToSend : \E i \in 1 .. n : rows[i] = v
      /\ \A i, j \in 1 .. n : i < j => rows[i] < rows[j]
  <2>1. rows \in Seq(ToSend) /\ n \in Nat
    BY <1>1 DEF Ascends
  <2>2. DOMAIN rows = 1 .. n /\ \A i \in 1 .. n : rows[i] \in ToSend
    BY <2>1
  <2>3. \A v \in ToSend : \E i \in 1 .. n : rows[i] = v
    BY <1>1 DEF Ascends, Holds
  <2>4. \A i, j \in 1 .. n : i < j => rows[i] < rows[j]
    BY <1>1 DEF Ascends
  <2> HIDE DEF n
  <2>5. \A i \in 1 .. n : rows[i] \in Nat
    BY <1>1, <2>2
  <2> QED
    BY <2>1, <2>2, <2>3, <2>4, <2>5
<1> HIDE DEF n
<1>3. s = [i \in 1 .. n |-> f(rows[i])]
  BY <1>2 DEF RowLines
<1>4. \A r : f(r).t = "grid_line" /\ f(r).v.row = r
  BY DEF Event
<1> HIDE DEF s, f
<1>5. DOMAIN s = 1 .. n /\ \A i \in 1 .. n : s[i] = f(rows[i])
  BY <1>3
<1>6. IsSequence(s) /\ Len(s) = n
  <2>1. s \in [1 .. n -> Range(s)]
    BY <1>3, <1>5 DEF Range
  <2>2. s \in Seq(Range(s)) /\ Len(s) = n
    BY <1>2, <2>1, FunctionIsSeq
  <2> QED
    BY <2>2, TypeSequence
<1>7. ASSUME NEW i \in 1 .. n, NEW j \in 1 .. n, i < j
      PROVE  Before(s[i], s[j])
  <2>1. /\ s[i].t = "grid_line" /\ s[j].t = "grid_line"
        /\ s[i].v.row = rows[i] /\ s[j].v.row = rows[j]
    BY <1>4, <1>5
  <2>2. rows[i] < rows[j]
    BY <1>2, <1>7
  <2> QED
    BY <2>1, <2>2 DEF Before, Within
<1>8. Block(s, 7, 7)
  <2>1. \A i \in 1 .. n : s[i].t \in DOMAIN Rank /\ Rank[s[i].t] \in 7 .. 7
    <3>1. "grid_line" \in DOMAIN Rank /\ Rank["grid_line"] \in 7 .. 7
      BY DEF Rank
    <3>2. \A i \in 1 .. n : s[i].t = "grid_line"
      BY <1>4, <1>5
    <3> QED
      BY <3>1, <3>2
  <2> QED
    BY <1>5, <1>6, <1>7, <2>1 DEF Block, InRankOrder
<1>9. \A e : Holds(s, e) <=> \E r \in ToSend : e = f(r)
  BY <1>2, <1>5, <1>6 DEF Holds
<1> QED
  BY <1>8, <1>9 DEF s, f, rows

\* A title, if there is one to send.
LEMMA TitledBlock ==
  ASSUME ReadyToFrame
  PROVE  /\ Block(Titled, 10, 10)
         /\ \A e : Holds(Titled, e) <=> Holds(title, e.v) /\ e = Event("title", e.v)
<1>1. Len(title) \in Nat /\ Len(title) <= 1 /\ DOMAIN title = 1 .. Len(title)
  BY SequenceType DEF ReadyToFrame, IsSequence
<1> DEFINE s == Titled
<1>2. DOMAIN s = 1 .. Len(title) /\ \A i \in 1 .. Len(title) : s[i] = Event("title", title[i])
  BY <1>1 DEF Titled
<1>3. s = [i \in 1 .. Len(title) |-> s[i]]
  BY <1>1, <1>2 DEF Titled
<1> HIDE DEF s
<1>4. IsSequence(s) /\ Len(s) = Len(title)
  <2>1. s \in [1 .. Len(title) -> Range(s)]
    BY <1>2, <1>3 DEF Range
  <2>2. s \in Seq(Range(s)) /\ Len(s) = Len(title)
    BY <1>1, <2>1, FunctionIsSeq
  <2> QED
    BY <2>2, TypeSequence
<1>5. InRankOrder(s)
  BY <1>1, <1>2 DEF InRankOrder
<1>6. Block(s, 10, 10)
  <2>1. \A i \in 1 .. Len(title) : s[i].t \in DOMAIN Rank /\ Rank[s[i].t] \in 10 .. 10
    <3>1. "title" \in DOMAIN Rank /\ Rank["title"] \in 10 .. 10
      BY DEF Rank
    <3>2. \A i \in 1 .. Len(title) : s[i].t = "title"
      BY <1>2 DEF Event
    <3> QED
      BY <3>1, <3>2
  <2> QED
    BY <1>2, <1>4, <1>5, <2>1 DEF Block
<1>7. \A e : Holds(s, e) <=> Holds(title, e.v) /\ e = Event("title", e.v)
  <2>1. \A v : Event("title", v).v = v
    BY DEF Event
  <2> QED
    BY <1>2, <1>4, <2>1 DEF Holds
<1> QED
  BY <1>6, <1>7 DEF s

\* A resize if the size is another, the default colours once.
LEMMA OpeningBlock ==
  /\ Block(Opening, 1, 2)
  /\ \A e : Holds(Opening, e) <=> \/ Resized /\ e = Event("grid_resize", size)
                                  \/ ~defaultsSent /\ e = Event("default_colors", 0)
<1> DEFINE resize == Event("grid_resize", size)
           colors == Event("default_colors", 0)
           first == ~defaultsSent
           a == When(Resized, <<resize>>)
           b == When(first, <<colors>>)
<1>1. /\ resize.t \in DOMAIN Rank /\ Rank[resize.t] \in 1 .. 1
      /\ colors.t \in DOMAIN Rank /\ Rank[colors.t] \in 2 .. 2
  BY DEF Event, Rank
<1>2. Resized \in BOOLEAN /\ first \in BOOLEAN
  BY DEF Resized
<1> HIDE DEF resize, colors, first
<1>3. Block(a, 1, 1) /\ HoldsIf(a, Resized, resize)
  BY <1>1, <1>2, WhenBlock
<1>4. Block(b, 2, 2) /\ HoldsIf(b, first, colors)
  BY <1>1, <1>2, WhenBlock
<1> HIDE DEF a, b
<1>5. Block(a \o b, 1, 2) /\ Merges(a \o b, a, b)
  BY <1>3, <1>4, BlocksJoin
<1> QED
  BY <1>3, <1>4, <1>5 DEF Merges, HoldsIf, Opening, a, b, first, resize, colors

\* A clear or a scroll, if any, and then the rows.
LEMMA LiveBlock ==
  ASSUME ReadyToFrame, NEW table
  PROVE  /\ Block(Live(Sorted(ToSend), table), 5, 7)
         /\ \A e : Holds(Live(Sorted(ToSend), table), e) <=>
               \/ Full /\ e = Event("grid_clear", 0)
               \/ Scroll > 0 /\ e = Event("grid_scroll", Scroll)
               \/ \E r \in ToSend :
                     e = Event("grid_line", [row |-> r, cells |-> Encode(lines[r], table)])
<1> DEFINE clear  == Event("grid_clear", 0)
           scroll == Event("grid_scroll", Scroll)
           moved  == Scroll > 0
           a == When(Full, <<clear>>)
           b == When(moved, <<scroll>>)
           c == RowLines(Sorted(ToSend), table)
<1>1. /\ clear.t \in DOMAIN Rank /\ Rank[clear.t] \in 5 .. 5
      /\ scroll.t \in DOMAIN Rank /\ Rank[scroll.t] \in 6 .. 6
  BY DEF Event, Rank
<1>2. Full \in BOOLEAN /\ moved \in BOOLEAN
  BY DEF Full
<1>3. Block(c, 7, 7)
  BY RowLinesBlock
<1> HIDE DEF clear, scroll, moved
<1>4. Block(a, 5, 5) /\ HoldsIf(a, Full, clear)
  BY <1>1, <1>2, WhenBlock
<1>5. Block(b, 6, 6) /\ HoldsIf(b, moved, scroll)
  BY <1>1, <1>2, WhenBlock
<1> HIDE DEF a, b, c
<1>6. Block(a \o b, 5, 6) /\ Merges(a \o b, a, b)
  BY <1>4, <1>5, BlocksJoin
<1>7. Block((a \o b) \o c, 5, 7) /\ Merges((a \o b) \o c, a \o b, c)
  BY <1>3, <1>6, BlocksJoin
<1>8. \A e : Holds(c, e) <=> \E r \in ToSend :
                e = Event("grid_line", [row |-> r, cells |-> Encode(lines[r], table)])
  BY RowLinesBlock DEF c
<1>9. Live(Sorted(ToSend), table) = (a \o b) \o c
  BY DEF Live, a, b, c, clear, scroll, moved
<1> QED
  BY <1>4, <1>5, <1>6, <1>7, <1>8, <1>9 DEF Merges, HoldsIf, clear, scroll, moved

\* Cursor and mode if they differ, title and bell if there are any.
LEMMA SideBlock ==
  ASSUME ReadyToFrame
  PROVE  /\ Block(SideEvents, 8, 11)
         /\ \A e : Holds(SideEvents, e) <=>
               \/ prevCursor # <<cursor>> /\ e = Event("cursor", cursor)
               \/ prevAlt # <<alt>> /\ e = Event("mode", alt)
               \/ Holds(title, e.v) /\ e = Event("title", e.v)
               \/ bell /\ e = Event("bell", 0)
<1> DEFINE at   == Event("cursor", cursor)
           mode == Event("mode", alt)
           ring == Event("bell", 0)
           goes == prevCursor # <<cursor>>
           flips == prevAlt # <<alt>>
           a == When(goes, <<at>>)
           b == When(flips, <<mode>>)
           c == Titled
           d == When(bell, <<ring>>)
<1>1. /\ at.t \in DOMAIN Rank /\ Rank[at.t] \in 8 .. 8
      /\ mode.t \in DOMAIN Rank /\ Rank[mode.t] \in 9 .. 9
      /\ ring.t \in DOMAIN Rank /\ Rank[ring.t] \in 11 .. 11
  BY DEF Event, Rank
<1>2. goes \in BOOLEAN /\ flips \in BOOLEAN /\ bell \in BOOLEAN
  BY DEF ReadyToFrame
<1>3. Block(c, 10, 10) /\ \A e : Holds(c, e) <=> Holds(title, e.v) /\ e = Event("title", e.v)
  BY TitledBlock
<1> HIDE DEF at, mode, ring, goes, flips
<1>4. Block(a, 8, 8) /\ HoldsIf(a, goes, at)
  BY <1>1, <1>2, WhenBlock
<1>5. Block(b, 9, 9) /\ HoldsIf(b, flips, mode)
  BY <1>1, <1>2, WhenBlock
<1>6. Block(d, 11, 11) /\ HoldsIf(d, bell, ring)
  BY <1>1, <1>2, WhenBlock
<1> HIDE DEF a, b, c, d
<1>7. Block(a \o b, 8, 9) /\ Merges(a \o b, a, b)
  BY <1>4, <1>5, BlocksJoin
<1>8. Block((a \o b) \o c, 8, 10) /\ Merges((a \o b) \o c, a \o b, c)
  BY <1>3, <1>7, BlocksJoin
<1>9. Block(((a \o b) \o c) \o d, 8, 11) /\ Merges(((a \o b) \o c) \o d, (a \o b) \o c, d)
  BY <1>6, <1>8, BlocksJoin
<1>10. SideEvents = ((a \o b) \o c) \o d
  BY DEF SideEvents, a, b, c, d, at, mode, ring, goes, flips
<1>11. \A e : Holds(SideEvents, e) <=> \/ Holds(a, e) \/ Holds(b, e)
                                      \/ Holds(c, e) \/ Holds(d, e)
  BY <1>7, <1>8, <1>9, <1>10 DEF Merges
<1> QED
  BY <1>3, <1>4, <1>5, <1>6, <1>9, <1>10, <1>11 DEF HoldsIf, at, mode, ring, goes, flips

\* The frame: the highlight cache it leaves, and its events.
Frames(events, table) ==
    /\ table \in Seq(AttrSets) /\ Injects(table)
    /\ Len(hl) <= Len(table)
    /\ \A i \in DOMAIN hl : i \in DOMAIN table /\ table[i] = hl[i]
    /\ \A i \in DOMAIN committed : Covers(table, committed[i])
    /\ \A r \in ToSend : Covers(table, lines[r])
    /\ Block(events, 1, 12)
    /\ Len(events) > 0 /\ events[Len(events)].t = "flush"
    /\ \A e : Holds(events, e) <=> InFrame(e, table)

\* A table that holds what was seen in a row can encode it.
LEMMA CoversIs ==
  ASSUME NEW table, NEW row, NEW seen, \A i \in DOMAIN row : Holds(seen, row[i].attrs),
         \A i \in 1 .. Len(seen) : seen[i] \in Range(table)
  PROVE  Covers(table, row)
BY DEF Covers, Holds

\* The frame in whole: in order, closed by a flush, and exactly the events it should hold.
LEMMA FrameIs ==
  ASSUME ReadyToFrame
  PROVE  Frames(Events.events, Events.table)
<1> DEFINE rows  == Sorted(ToSend)
           lists == [i \in DOMAIN committed |-> AttrsOf(committed[i])]
           rowLists == [i \in DOMAIN rows |-> AttrsOf(lines[rows[i]])]
           seen  == Seen(rows)
           new   == NewAttrs(hl, seen)
           table == hl \o new
           middle == (Definitions(new) \o Pushes(table)) \o Live(rows, table)
           flush == Event("flush", 0)
           push  == Event("scrollback_push", [i \in DOMAIN committed |-> Encode(committed[i], table)])
           body  == Definitions(new) \o Pushes(table) \o Live(rows, table)
           events == (Opening \o body) \o (SideEvents \o <<flush>>)
<1>1. Events.table = table /\ Events.events = events
  BY EventsAre
<1>2. Ascends(rows, ToSend)
  BY ToSendIs, SortedAscends
<1> HIDE DEF rows
<1>3. rows \in Seq(ToSend) /\ Len(rows) \in Nat /\ \A v \in ToSend : Holds(rows, v)
  BY <1>2 DEF Ascends
<1>4. committed \in Seq(Rows) /\ hl \in Seq(AttrSets) /\ Injects(hl)
  BY DEF ReadyToFrame
<1>5. /\ FlattenSeq(lists) \in Seq(AttrSets)
      /\ \A i \in 1 .. Len(committed) : \A c \in DOMAIN committed[i] :
            Holds(FlattenSeq(lists), committed[i][c].attrs)
  <2>1. Len(committed) \in Nat /\ committed \in [1 .. Len(committed) -> Rows]
        /\ lists = [i \in 1 .. Len(committed) |-> AttrsOf(committed[i])]
    BY <1>4
  <2> HIDE DEF lists
  <2> QED
    BY <2>1, AttrsSeen
<1>6. /\ FlattenSeq(rowLists) \in Seq(AttrSets)
      /\ \A i \in 1 .. Len(rows) : \A c \in DOMAIN lines[rows[i]] :
            Holds(FlattenSeq(rowLists), lines[rows[i]][c].attrs)
  <2> DEFINE sent == [i \in 1 .. Len(rows) |-> lines[rows[i]]]
  <2>1. DOMAIN rows = 1 .. Len(rows) /\ \A i \in 1 .. Len(rows) : rows[i] \in ToSend
    BY <1>3
  <2>2. \A r \in ToSend : lines[r] \in Rows
    BY ToSendIs
  <2>3. sent \in [1 .. Len(rows) -> Rows]
    BY <2>1, <2>2
  <2>4. rowLists = [i \in 1 .. Len(rows) |-> AttrsOf(sent[i])]
    BY <2>1
  <2>5. \A i \in 1 .. Len(rows) : sent[i] = lines[rows[i]]
    OBVIOUS
  <2> HIDE DEF rowLists, sent
  <2>6. /\ FlattenSeq(rowLists) \in Seq(AttrSets)
        /\ \A i \in 1 .. Len(rows) : \A c \in DOMAIN sent[i] :
              Holds(FlattenSeq(rowLists), sent[i][c].attrs)
    BY <1>3, <2>3, <2>4, AttrsSeen
  <2> QED
    BY <2>5, <2>6
<1>7. seen = FlattenSeq(lists) \o FlattenSeq(rowLists)
  BY DEF Seen
<1> HIDE DEF lists, rowLists, seen
<1>8. seen \in Seq(AttrSets) /\ Joins(seen, FlattenSeq(lists), FlattenSeq(rowLists))
  BY <1>5, <1>6, <1>7, ConcatJoins, ConcatProperties
<1>9. /\ new \in Seq(AttrSets) /\ table \in Seq(AttrSets)
      /\ Joins(table, hl, new) /\ GrowsBy(table, hl, seen)
  BY <1>4, <1>8, NewAttrsIs
<1> HIDE DEF new, table
<1>10. \A i \in 1 .. Len(seen) : seen[i] \in Range(table)
  BY <1>8, <1>9 DEF GrowsBy
<1>11. ASSUME NEW i \in DOMAIN committed
       PROVE  Covers(table, committed[i])
  <2>1. i \in 1 .. Len(committed)
    BY <1>4
  <2>2. \A c \in DOMAIN committed[i] : Holds(seen, committed[i][c].attrs)
    BY <1>5, <1>8, <2>1, JoinsHolds
  <2> QED
    BY <1>10, <2>2, CoversIs
<1>12. ASSUME NEW r \in ToSend
       PROVE  Covers(table, lines[r])
  <2>1. PICK i \in 1 .. Len(rows) : rows[i] = r
    BY <1>3 DEF Holds
  <2>2. \A c \in DOMAIN lines[r] : Holds(seen, lines[r][c].attrs)
    BY <1>6, <1>8, <2>1, JoinsHolds
  <2> QED
    BY <1>10, <2>2, CoversIs
<1>13. /\ Block(Definitions(new), 3, 3)
       /\ \A e : Holds(Definitions(new), e) <=>
             \E n \in Len(hl) + 1 .. Len(table) :
                e = Event("hl_attr", [id |-> n - 1, attrs |-> table[n]])
  BY <1>9, DefinitionsBlock
<1> DEFINE some == committed # <<>>
<1>14. Block(Pushes(table), 4, 4) /\ HoldsIf(Pushes(table), some, push)
  <2>1. push.t \in DOMAIN Rank /\ Rank[push.t] \in 4 .. 4 /\ some \in BOOLEAN
    BY DEF Event, Rank
  <2>2. Pushes(table) = When(some, <<push>>)
    BY DEF Pushes
  <2> HIDE DEF push, some
  <2> QED
    BY <2>1, <2>2, WhenBlock
<1>15. Block(Live(rows, table), 5, 7)
  BY LiveBlock DEF rows
<1>16. Block(<<flush>>, 12, 12) /\ \A f : Holds(<<flush>>, f) <=> f = flush
  <2>1. flush.t \in DOMAIN Rank /\ Rank[flush.t] \in 12 .. 12
    BY DEF Event, Rank
  <2> HIDE DEF flush
  <2> QED
    BY <2>1, OneBlock
<1> DEFINE a == Definitions(new)
           b == Pushes(table)
           c == Live(rows, table)
           d == SideEvents
           f == <<flush>>
           o == Opening
<1>17. Block(o, 1, 2) /\ Block(d, 8, 11)
  BY OpeningBlock, SideBlock
<1>18. events = (o \o ((a \o b) \o c)) \o (d \o f)
  OBVIOUS
<1> HIDE DEF a, b, c, d, f, o, events
<1>19. Block(a \o b, 3, 4) /\ Merges(a \o b, a, b)
  BY <1>13, <1>14, BlocksJoin DEF a, b
<1>20. Block((a \o b) \o c, 3, 7) /\ Merges((a \o b) \o c, a \o b, c)
  BY <1>15, <1>19, BlocksJoin DEF c
<1>21. Block(o \o ((a \o b) \o c), 1, 7) /\ Merges(o \o ((a \o b) \o c), o, (a \o b) \o c)
  BY <1>17, <1>20, BlocksJoin
<1>22. Block(d \o f, 8, 12) /\ Merges(d \o f, d, f) /\ Joins(d \o f, d, f)
  BY <1>16, <1>17, BlocksJoin DEF f
<1>23. Block(events, 1, 12) /\ Merges(events, o \o ((a \o b) \o c), d \o f)
       /\ Joins(events, o \o ((a \o b) \o c), d \o f)
  BY <1>18, <1>21, <1>22, BlocksJoin
<1>24. \A e : Holds(events, e) <=> \/ Holds(o, e) \/ Holds(a, e) \/ Holds(b, e)
                                  \/ Holds(c, e) \/ Holds(d, e) \/ Holds(f, e)
  BY <1>19, <1>20, <1>21, <1>22, <1>23 DEF Merges
<1>25. Len(events) > 0 /\ events[Len(events)].t = "flush"
  <2> DEFINE x == o \o ((a \o b) \o c)
             y == d \o f
  <2>1. /\ Len(x) \in Nat /\ Len(y) \in Nat /\ Len(events) = Len(x) + Len(y)
        /\ \A i \in 1 .. Len(y) : events[Len(x) + i] = y[i]
    BY <1>23 DEF Joins
  <2>2. /\ Len(d) \in Nat /\ Len(y) = Len(d) + Len(f)
        /\ \A i \in 1 .. Len(f) : y[Len(d) + i] = f[i]
    BY <1>22 DEF Joins
  <2>3. Len(f) = 1 /\ f[1] = flush
    BY DEF f
  <2> HIDE DEF x, y
  <2>4. y[Len(d) + 1] = flush /\ Len(y) = Len(d) + 1
    BY <2>2, <2>3
  <2>5. Len(y) \in 1 .. Len(y) /\ Len(events) > 0
    BY <2>1, <2>2, <2>4
  <2>6. events[Len(events)] = y[Len(y)]
    BY <2>1, <2>5
  <2> QED
    BY <2>4, <2>5, <2>6 DEF Event
<1>26. \A e : Holds(events, e) <=> InFrame(e, table)
  <2>1. ASSUME NEW e
        PROVE  Holds(events, e) <=> InFrame(e, table)
    <3>1. Holds(o, e) <=> \/ Resized /\ e = Event("grid_resize", size)
                          \/ ~defaultsSent /\ e = Event("default_colors", 0)
      BY OpeningBlock DEF o
    <3>2. Holds(a, e) <=> \E n \in Len(hl) + 1 .. Len(table) :
                             e = Event("hl_attr", [id |-> n - 1, attrs |-> table[n]])
      BY <1>13 DEF a
    <3>3. Holds(b, e) <=> committed # <<>> /\ e = push
      BY <1>14 DEF b, HoldsIf
    <3>4. Holds(c, e) <=>
               \/ Full /\ e = Event("grid_clear", 0)
               \/ Scroll > 0 /\ e = Event("grid_scroll", Scroll)
               \/ \E r \in ToSend :
                     e = Event("grid_line", [row |-> r, cells |-> Encode(lines[r], table)])
      BY LiveBlock DEF c, rows
    <3>5. Holds(d, e) <=>
               \/ prevCursor # <<cursor>> /\ e = Event("cursor", cursor)
               \/ prevAlt # <<alt>> /\ e = Event("mode", alt)
               \/ Holds(title, e.v) /\ e = Event("title", e.v)
               \/ bell /\ e = Event("bell", 0)
      BY SideBlock DEF d
    <3>6. Holds(f, e) <=> e = Event("flush", 0)
      BY <1>16 DEF f
    <3> QED
      BY <1>24, <3>1, <3>2, <3>3, <3>4, <3>5, <3>6, Zenon DEF InFrame
  <2> QED
    BY <2>1
<1>27. Frames(events, table)
  <2>1. /\ Injects(table) /\ Len(hl) <= Len(table)
        /\ \A i \in DOMAIN hl : i \in DOMAIN table /\ table[i] = hl[i]
    BY <1>9 DEF GrowsBy
  <2> QED
    BY <1>9, <1>11, <1>12, <1>23, <1>25, <1>26, <2>1 DEF Frames
<1> QED
  BY <1>1, <1>27

=============================================================================
