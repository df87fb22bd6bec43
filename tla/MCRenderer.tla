---------------------------- MODULE MCRenderer ----------------------------
(***************************************************************************)
(* Renderer for TLC: the rows and sizes its runs use.                       *)
(***************************************************************************)
EXTENDS RendererInvariant

Size(cols, rows) == [cols |-> cols, rows |-> rows]

Plain(t) == RowCell(t, "plain", 1)
Red(t)   == RowCell(t, "red", 1)

\* Two columns: two cells with different highlights, and a wide character; one
\* column.
Mixed    == <<Plain("a"), Red("b")>>
WideLine == <<RowCell("w", "blue", 2)>>
Narrow   == <<Red("a")>>

StyledRows == {Mixed, WideLine, Narrow}
StyledSizes == {Size(2, 1), Size(1, 1), Size(1, 2)}
StyledInit == Size(2, 1)

\* One column, plain rows, for the diff of taller screens.
TallRows == {<<Plain(t)>> : t \in {Blank, "a", "b"}}
TallSizes == {Size(1, 4)}
TallInit  == Size(1, 4)

=============================================================================
