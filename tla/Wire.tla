-------------------------------- MODULE Wire --------------------------------
(***************************************************************************)
(* The pure parts of the bridge, each with what it must do for every input: *)
(* a row of the emulator's grid, growing cell by cell; a cell's attributes; *)
(* a palette index; a message of the host.  The input is the state.         *)
(***************************************************************************)
EXTENDS Term, Codec

CONSTANTS
    NarrowCells,   \* cells of the library's grid one column wide
    WideCells,     \* wide characters
    SpacerCells,   \* what the library puts behind them
    Looks,         \* cells, for their attributes
    Messages,      \* messages
    NotBase64,     \* texts that are no Base64
    MaxCells       \* bound: columns of a row

\* The library's names for colours: the sixteen, their dim forms, and those that
\* are the host's to choose.
HostsOwn == {"Foreground", "Background", "Cursor", "BrightForeground", "DimForeground"}
Names(list) == {list[i] : i \in DOMAIN list}
ColorNames == Names(Base) \cup Names(Bright) \cup Names(Dim) \cup HostsOwn

IsVtColor(color) ==
    \/ \E name \in ColorNames : color = Named(name)
    \/ \E i \in 0 .. 255 : color = Palette(i)
    \/ color.k = "rgb"

\* A value of JSON; of null there is one.
IsJson(value) ==
    /\ value = [k |-> value.k, v |-> value.v]
    /\ value.k = "integer" => value.v \in Int
    /\ value.k = "null" => value = Null

ASSUME WireAssumption ==
    /\ \A cell \in NarrowCells : cell.flags \cap {"WIDE_CHAR", "WIDE_CHAR_SPACER"} = {}
    /\ \A cell \in WideCells : "WIDE_CHAR" \in cell.flags /\ "WIDE_CHAR_SPACER" \notin cell.flags
    /\ \A cell \in SpacerCells : "WIDE_CHAR_SPACER" \in cell.flags /\ "WIDE_CHAR" \notin cell.flags
    /\ \A cell \in Looks : IsVtColor(cell.fg) /\ IsVtColor(cell.bg)
    /\ \A m \in Messages : \A field \in DOMAIN m : IsJson(m[field])
    /\ MaxCells \in Nat

VARIABLES
    kind,    \* "row", "look", "colour" or "message"
    subject  \* the row so far, a cell, an index or a message

\* What the library puts into a row, column by column: a wide character brings
\* its spacer, which has its own attributes.
Pieces == {<<cell>> : cell \in NarrowCells} \cup {<<wide, after>> : wide \in WideCells, after \in SpacerCells}

Init ==
    \/ kind = "row" /\ subject = <<>>
    \/ kind = "look" /\ subject \in Looks
    \/ kind = "colour" /\ subject \in 0 .. 255
    \/ kind = "message" /\ subject \in Messages

Next ==
    /\ kind = "row" /\ Len(subject) < MaxCells
    /\ \E piece \in Pieces : subject' = subject \o piece
    /\ UNCHANGED kind

Spec == Init /\ [][Next]_<<kind, subject>>

-----------------------------------------------------------------------------
(* Rows.                                                                   *)

CellLooks == {CellAttrs(cell) : cell \in NarrowCells \cup WideCells}
Ids == LET order == SetToSeq(CellLooks)
       IN [a \in CellLooks |-> CHOOSE i \in DOMAIN order : order[i] = a]

\* The row as the host reads it.
Read ==
    LET cells == Compress(Expand(RowToCells(subject), Ids))
    IN [j \in DOMAIN cells |-> Deserialize(Serialize(cells[j]))]

\* What the grid shows in column c; a wide character reaches over its spacer.
Shown(c) ==
    IF "WIDE_CHAR_SPACER" \in subject[c].flags
      THEN <<Spacer, Ids[CellAttrs(subject[c - 1])]>>
      ELSE <<Text(subject[c]), Ids[CellAttrs(subject[c])]>>

\* Whatever the mixture of runs, inherited highlights, wide characters and both
\* kinds of spacer, the host lays out every column of the emulator's grid at its
\* place, by counting cells alone (term.rs:201-227, render.rs:83-120,
\* protocol.rs:67-129, PROTOCOL.md "CJK-safety rule").
RoundTrip ==
    kind = "row" => LET cells == Read IN Place(cells) = [c \in DOMAIN subject |-> Shown(c)]

\* The wire is as short as its format allows: no cell repeats the column the
\* cell before it ended with, none names a highlight it could inherit but for a
\* run, which always names its own (render.rs:81-106, protocol.rs:19-21).
Shortest ==
    kind = "row" =>
        LET cells == Read IN
        \A j \in DOMAIN cells :
            /\ cells[j].rep # <<>> => cells[j].hl # <<>> /\ cells[j].rep[1] > 1
            /\ j > 1 => /\ <<cells[j].text, HlOf(cells, j)>>
                              # <<cells[j - 1].text, HlOf(cells, j - 1)>>
                        /\ cells[j].rep = <<>> /\ cells[j].hl # <<>>
                              => HlOf(cells, j) # HlOf(cells, j - 1)

-----------------------------------------------------------------------------
(* Attributes and colours.                                                 *)

\* The host reads back from hl_attr exactly the attributes the cell has: black
\* is not taken for the default, nor a style that is missing for one that is set
\* (term.rs:273-293, protocol.rs:131-162, "null means the default color ...
\* absent = false", PROTOCOL.md, hl_attr).
LooksSurvive ==
    kind = "look" =>
        LET attrs == CellAttrs(subject)
        IN /\ ReadAttrs(WriteAttrs(attrs)) = attrs
           /\ attrs.fg = <<>> <=> subject.fg \in {Named(name) : name \in HostsOwn}
           /\ attrs.bg = <<>> <=> subject.bg \in {Named(name) : name \in HostsOwn}
           /\ Colors \subseteq DOMAIN WriteAttrs(attrs)

\* xterm's palette by its own description: 8 dark and 8 bright colours whose bits
\* are red, green and blue, "each channel steps 0, 95, 135, 175, 215, 255"
\* (palette.rs:37), and a ramp "from 8 to 238" (palette.rs:43).
Steps == <<0, 95, 135, 175, 215, 255>>
Bit(i, b) == (i \div b) % 2
Xterm(i) ==
    CASE i = 7  -> Pack(192, 192, 192)
      [] i = 8  -> Pack(128, 128, 128)
      [] i \in 0 .. 15 \ {7, 8} -> LET full == IF i < 8 THEN 128 ELSE 255
                                    IN Pack(full * Bit(i, 1), full * Bit(i, 2), full * Bit(i, 4))
      [] i \in 16 .. 231 ->
            LET n == i - 16
            IN Pack(Steps[n \div 36 + 1], Steps[((n \div 6) % 6) + 1], Steps[(n % 6) + 1])
      [] OTHER -> LET level == 8 + ((238 - 8) * (i - 232)) \div 23 IN Pack(level, level, level)

\* Every index is the colour xterm shows for it, and from 16 on no two are alike.
PaletteIsXterm ==
    kind = "colour" =>
        /\ Resolve(PaletteColor(Palette(subject))) = <<Xterm(subject)>>
        /\ subject >= 16 => \A i \in 16 .. 255 : Indexed(i) = Indexed(subject) => i = subject

-----------------------------------------------------------------------------
(* Messages.                                                               *)

\* A control as PROTOCOL.md, section 5, has it, read with its error table.
Good(m) ==
    CASE TypeOf(m) = "input" ->
            /\ IsString(m, "data")
            /\ \/ "enc" \notin DOMAIN m
               \/ m.enc \in {Null, Str("utf8")}
               \/ m.enc = Str("base64") /\ m.data.v \notin NotBase64
      [] TypeOf(m) = "resize" ->
            \A f \in {"cols", "rows"} :
               f \in DOMAIN m /\ m[f].k = "integer" /\ m[f].v \in 0 .. MaxU16
      [] TypeOf(m) = "signal" ->
            "name" \in DOMAIN m
                /\ m.name \in {Str(s) : s \in {"HUP", "INT", "QUIT", "KILL", "TERM"}}
      [] TypeOf(m) = "ping" -> "id" \in DOMAIN m /\ m.id.k = "integer" /\ m.id.v \in Nat
      [] OTHER -> TRUE

\* Section 9's table; the events are those section 3 lists (PROTOCOL.md:54), which
\* are protocol.rs's and not classify's.
Prescribed(m) ==
    IF ~IsString(m, "t") THEN <<"parse">>
    ELSE IF TypeOf(m) \in Events THEN <<"direction">>
    ELSE IF TypeOf(m) \notin ControlTypes THEN <<>>
    ELSE IF ~Good(m) THEN <<"bad_message">>
    ELSE IF TypeOf(m) = "ping" THEN <<"pong">> ELSE <<>>

\* The event whose wrong direction the bridge does not see: codec.rs:102-118 has
\* no entry for it.
Overlooked == {"scrollback_push"}

\* The reader rejects some bad controls and the engine others: between them every
\* message is answered as PROTOCOL.md, sections 3 and 9, has it, none twice and none
\* that is good - but for one, which is ignored as a type nobody knows is and which
\* the protocol has answered as any event (codec.rs:134-157, control.rs:10-30,
\* engine.rs:235-276).
ErrorTable ==
    kind = "message" =>
        IF IsString(subject, "t") /\ TypeOf(subject) \in Overlooked
          THEN Outcome(subject, NotBase64) = <<>> /\ Prescribed(subject) = <<"direction">>
          ELSE Outcome(subject, NotBase64) = Prescribed(subject)

=============================================================================
