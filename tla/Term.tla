-------------------------------- MODULE Term --------------------------------
(***************************************************************************)
(* What term.rs makes of a row of the emulator's grid.  The library's grid  *)
(* has one cell per column: a wide character is a cell flagged WIDE_CHAR    *)
(* with a WIDE_CHAR_SPACER in the next column; the column a wide character  *)
(* left free at the end of a row, having wrapped, is a                      *)
(* LEADING_WIDE_CHAR_SPACER, a blank like any other.                        *)
(***************************************************************************)
EXTENDS Cells, Palette

\* A cell of the library: a character, the zero-width ones on it, two colours
\* and a set of flags.
VtCell(c, zerowidth, fg, bg, flags) ==
    [c |-> c, zerowidth |-> zerowidth, fg |-> fg, bg |-> bg, flags |-> flags]

\* The library's colours that are not already a palette's.
Named(name) == [k |-> "named", v |-> name]

Base == <<"Black", "Red", "Green", "Yellow", "Blue", "Magenta", "Cyan", "White">>
Bright ==
    <<"BrightBlack", "BrightRed", "BrightGreen", "BrightYellow", "BrightBlue", "BrightMagenta",
      "BrightCyan", "BrightWhite">>
Dim ==
    <<"DimBlack", "DimRed", "DimGreen", "DimYellow", "DimBlue", "DimMagenta", "DimCyan",
      "DimWhite">>
Position(names, name) == CHOOSE i \in DOMAIN names : names[i] = name

\* Dim colours are shown as the plain ones; every other name is the default.
PaletteColor(color) ==
    IF color.k # "named" THEN color
    ELSE LET In(names) == color.v \in {names[i] : i \in DOMAIN names}
             At(names, offset) == Palette(Position(names, color.v) - 1 + offset)
         IN IF In(Base) THEN At(Base, 0)
            ELSE IF In(Bright) THEN At(Bright, 8)
            ELSE IF In(Dim) THEN At(Dim, 0) ELSE Default

Underlines ==
    {"UNDERLINE", "DOUBLE_UNDERLINE", "DOTTED_UNDERLINE", "DASHED_UNDERLINE"}

\* cell_attrs
CellAttrs(cell) ==
    [fg |-> Resolve(PaletteColor(cell.fg)), bg |-> Resolve(PaletteColor(cell.bg)), sp |-> <<>>,
     bold          |-> "BOLD" \in cell.flags,
     italic        |-> "ITALIC" \in cell.flags,
     underline     |-> cell.flags \cap Underlines # {},
     undercurl     |-> "UNDERCURL" \in cell.flags,
     reverse       |-> "INVERSE" \in cell.flags,
     strikethrough |-> "STRIKEOUT" \in cell.flags,
     dim           |-> "DIM" \in cell.flags,
     blink         |-> FALSE]

Text(cell) == cell.c \o cell.zerowidth

\* Mutant: both kinds of spacer are dropped.
Dropped_both(cell) ==
    cell.flags \cap {"WIDE_CHAR_SPACER", "LEADING_WIDE_CHAR_SPACER"} # {}

\* expand will put the spacer back.
Dropped(cell) == "WIDE_CHAR_SPACER" \in cell.flags

\* row_to_cells
RowToCells(row) ==
    LET kept == Sorted({c \in DOMAIN row : ~Dropped(row[c])})
        Of(cell) == RowCell(Text(cell), CellAttrs(cell), IF "WIDE_CHAR" \in cell.flags THEN 2 ELSE 1)
    IN [i \in DOMAIN kept |-> Of(row[kept[i]])]

=============================================================================
