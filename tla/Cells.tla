-------------------------------- MODULE Cells --------------------------------
(***************************************************************************)
(* A row of the screen on its way to the host.  The emulator's row is a     *)
(* sequence of RowCells, one per grapheme, one or two columns wide; expand  *)
(* turns it into one <<text, highlight id>> per column; compress turns the  *)
(* columns into wire cells; the host lays the wire cells out again.  A text *)
(* is one grapheme: an opaque value.                                        *)
(***************************************************************************)
EXTENDS Naturals, Sequences, SequencesExt, FiniteSetsExt

\* The numbers in S in ascending order.  (SetToSortSeq goes through every
\* permutation of S.)
Sorted(S) ==
    [n \in 1 .. Cardinality(S) |-> CHOOSE i \in S : Cardinality({j \in S : j < i}) = n - 1]

Spacer == ""     \* the empty cell that follows a wide character
Blank  == " "

RowCell(text, attrs, width) == [text |-> text, attrs |-> attrs, width |-> width]

\* The columns of one cell, each with the mark m.
CellColumns(cell, m) ==
    IF cell.width = 2 THEN <<<<cell.text, m>>, <<Spacer, m>>>> ELSE <<<<cell.text, m>>>>

\* expand, the ids being those of the highlight table ids.
Expand(row, ids) == FlattenSeq([i \in DOMAIN row |-> CellColumns(row[i], ids[row[i].attrs])])

\* What the row looks like: each column's text and attributes.
Picture(row) == FlattenSeq([i \in DOMAIN row |-> CellColumns(row[i], row[i].attrs)])

-----------------------------------------------------------------------------
(* Wire cells.  hl and rep are <<>> when absent.                            *)

NewCell(text, id)    == [text |-> text, hl |-> <<id>>, rep |-> <<>>]
InheritCell(text)    == [text |-> text, hl |-> <<>>, rep |-> <<>>]
RunCell(text, id, n) == [text |-> text, hl |-> <<id>>, rep |-> <<n>>]

\* Mutant: runs are not merged.
RunStarts_all(columns) == DOMAIN columns

RunStarts(columns) == {i \in DOMAIN columns : i = 1 \/ columns[i] # columns[i - 1]}

RunLength(columns, i) ==
    Max({n \in 1 .. Len(columns) - i + 1 : \A k \in 0 .. n - 1 : columns[i + k] = columns[i]})

\* Mutant: every cell after the first inherits.
Inherits_always(columns, i) == i > 1

\* The cell before this one has the same highlight, so it may go without.
Inherits(columns, i) == i > 1 /\ columns[i - 1][2] = columns[i][2]

CompressRun(columns, i) ==
    LET text == columns[i][1]
        id   == columns[i][2]
        n    == RunLength(columns, i)
    IN IF n > 1 THEN RunCell(text, id, n)
       ELSE IF Inherits(columns, i) THEN InheritCell(text) ELSE NewCell(text, id)

\* compress: one cell per maximal run of identical columns.
Compress(columns) ==
    LET starts == Sorted(RunStarts(columns))
    IN [j \in DOMAIN starts |-> CompressRun(columns, starts[j])]

\* Serialize: the shortest array the values allow.  An element is <<value>>, and
\* null is <<>>.
Serialize(cell) ==
    CASE cell.rep # <<>> -> <<<<cell.text>>, cell.hl, cell.rep>>
      [] cell.rep = <<>> /\ cell.hl # <<>> -> <<<<cell.text>>, cell.hl>>
      [] OTHER -> <<<<cell.text>>>>

\* Deserialize: missing and null elements are absent; more than three are not read.
Deserialize(a) ==
    [text |-> a[1][1],
     hl   |-> IF Len(a) >= 2 THEN a[2] ELSE <<>>,
     rep  |-> IF Len(a) >= 3 THEN a[3] ELSE <<>>]

-----------------------------------------------------------------------------
(* The host's side.                                                        *)

Span(cell) == IF cell.rep = <<>> THEN 1 ELSE cell.rep[1]

\* The highlight of the j-th cell: its own or the nearest one before it.
HlOf(cells, j) ==
    LET given == {i \in 1 .. j : cells[i].hl # <<>>}
    IN IF given = {} THEN 0 ELSE cells[Max(given)].hl[1]

\* The columns the host lays out.
Place(cells) ==
    FlattenSeq([j \in DOMAIN cells |->
                  [c \in 1 .. Span(cells[j]) |-> <<cells[j].text, HlOf(cells, j)>>]])

=============================================================================
