------------------------------ MODULE Protocol ------------------------------
(***************************************************************************)
(* The wire types of protocol.rs that carry more than their fields: the     *)
(* names of the events, the attributes of hl_attr, and the controls, read   *)
(* from a message of the host.  A message is a function from the names of   *)
(* its fields to JSON values; one that is no object has no fields.          *)
(***************************************************************************)
EXTENDS Integers, Sequences

\* The types of Event.
Events ==
    {"hello", "grid_resize", "default_colors", "hl_attr", "grid_clear", "grid_scroll",
     "grid_line", "scrollback_push", "cursor", "mode", "title", "bell", "flush",
     "child_exit", "pong", "error"}

-----------------------------------------------------------------------------
(* Attributes.  A colour is <<0xRRGGBB>>, or <<>>, which is null on the wire. *)

Colors == {"fg", "bg", "sp"}
Styles == {"bold", "italic", "underline", "undercurl", "reverse", "strikethrough", "dim",
           "blink"}

\* Mutant: a colour of zero is left out as a style that is false is.
Omitted_zero(attrs, field) == IF field \in Colors THEN attrs[field] = <<0>> ELSE ~attrs[field]

\* is_false
Omitted(attrs, field) == field \in Styles /\ ~attrs[field]

\* Serialize and Deserialize of Attrs: styles that are false and fields that are
\* missing.
WriteAttrs(attrs) ==
    [field \in {f \in Colors \cup Styles : ~Omitted(attrs, f)} |-> attrs[field]]
ReadAttrs(fields) ==
    [field \in Colors \cup Styles |->
        IF field \in DOMAIN fields THEN fields[field]
        ELSE IF field \in Colors THEN <<>> ELSE FALSE]

-----------------------------------------------------------------------------
(* Controls.  An integer a u64 cannot hold is a float to serde_json.        *)

Null   == [k |-> "null", v |-> ""]
Str(s) == [k |-> "string", v |-> s]
Integer(n) == [k |-> "integer", v |-> n]
Float  == [k |-> "float", v |-> ""]

IsString(m, field)   == field \in DOMAIN m /\ m[field].k = "string"
IsUnsigned(m, field) == field \in DOMAIN m /\ m[field].k = "integer" /\ m[field].v >= 0

MaxU16 == 65535

IsU16(m, field) == IsUnsigned(m, field) /\ m[field].v <= MaxU16

\* Deserialize of Control: fields of other names are not looked at.
Fits(t, m) ==
    CASE t = "input"    -> IsString(m, "data")
                              /\ (IsString(m, "enc") \/ "enc" \notin DOMAIN m \/ m.enc = Null)
      [] t = "resize"   -> IsU16(m, "cols") /\ IsU16(m, "rows")
      [] t = "signal"   -> IsString(m, "name")
      [] t = "ping"     -> IsUnsigned(m, "id")
      [] t = "shutdown" -> TRUE

=============================================================================
