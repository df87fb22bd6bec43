------------------------------- MODULE MCWire -------------------------------
(***************************************************************************)
(* Wire for TLC: rows of a few kinds of cells, sets of attributes, and      *)
(* messages over a few values for each field.                               *)
(***************************************************************************)
EXTENDS Wire, TLC

Foreground == Named("Foreground")
Background == Named("Background")

Plain(c)     == VtCell(c, "", Foreground, Background, {})
Coloured(c)  == VtCell(c, "", Named("DimRed"), Background, {})
Wide(cell)   == [cell EXCEPT !.c = "w", !.flags = {"WIDE_CHAR"}]
After        == VtCell(Blank, "", Foreground, Background, {"WIDE_CHAR_SPACER"})
Wrapped      == VtCell(Blank, "", Foreground, Background, {"LEADING_WIDE_CHAR_SPACER"})
Accented     == VtCell("x", "'", Foreground, Background, {})

Narrow  == {Plain(Blank), Plain("x"), Coloured("x"), Coloured(Blank), Accented, Wrapped}
WideOnes == {Wide(Plain("w")), Wide(Coloured("w"))}
Spacers == {After}

VtFlags == {"BOLD", "ITALIC", "INVERSE", "STRIKEOUT", "DIM", "UNDERCURL", "UNDERLINE",
            "DOTTED_UNDERLINE"}
VtColors == {Foreground, Named("Black"), Named("BrightWhite"), Palette(16), Direct(0, 0, 1)}
StyledCells == {VtCell("x", "", fg, bg, flags) :
            fg \in VtColors, bg \in VtColors, flags \in SUBSET VtFlags}

\* The fields a message may have, and the values of each; NotThere is no value.
NotThere == [k |-> "absent", v |-> ""]
Texts   == {NotThere, Null, Str("text"), Str("dGV4dA=="), Integer(1)}
NoBase64 == {"text"}
Numbers == {NotThere, Null, Integer(-1), Integer(0), Integer(MaxU16), Integer(MaxU16 + 1), Float}
Types   == {NotThere, Integer(1)}
             \cup {Str(t) : t \in ControlTypes \cup {"flush", "scrollback_push", "zoom"}}

Present(m) == [field \in {f \in DOMAIN m : m[f] # NotThere} |-> m[field]]
SomeMessages ==
    {Present([t |-> t, data |-> d, enc |-> e, extra |-> x]) :
        t \in Types, d \in Texts, x \in {NotThere, Str("text")},
        e \in Texts \cup {Str("utf8"), Str("base64")}}
    \cup {Present([t |-> t, cols |-> c, rows |-> r]) : t \in Types, c \in Numbers, r \in Numbers}
    \cup {Present([t |-> t, id |-> n]) : t \in Types, n \in Numbers}
    \cup {Present([t |-> t, name |-> n]) :
            t \in Types, n \in Texts \cup {Str(s) : s \in {"INT", "TERM", "STOP"}}}
    \cup {[t |-> Str(t)] : t \in Events}
    \cup {<<>>}

=============================================================================
