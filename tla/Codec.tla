------------------------------- MODULE Codec -------------------------------
(***************************************************************************)
(* How a message from the host is classified (classify of                   *)
(* transport/codec.rs), and what the helpers of control.rs make of the      *)
(* fields the engine looks at only when it handles it.                      *)
(***************************************************************************)
EXTENDS Protocol

NoType == ""

TypeOf(m) == IF IsString(m, "t") THEN m.t.v ELSE NoType

\* EVENT_TYPES, the event types classify knows.  (scrollback_push is an event of
\* the protocol and not among them.)
EventTypes ==
    {"hello", "grid_resize", "default_colors", "hl_attr", "grid_clear", "grid_scroll",
     "grid_line", "cursor", "mode", "title", "bell", "flush", "child_exit", "pong",
     "error"}

ControlTypes == {"input", "resize", "signal", "ping", "shutdown"}

\* What goes to the engine: the control, an error for the host, or nothing.
Classify(m) ==
    IF ~IsString(m, "t") THEN <<"parse">>
    ELSE IF TypeOf(m) \in EventTypes THEN <<"direction">>
    ELSE IF TypeOf(m) \notin ControlTypes THEN <<>>
    ELSE IF Fits(TypeOf(m), m) THEN <<"control">> ELSE <<"bad_message">>

-----------------------------------------------------------------------------
(* control.rs.  A text is opaque; Base64 decoding is a library's: badText   *)
(* are the texts that are no Base64.                                        *)

\* Mutant: an encoding nobody knows passes for UTF-8.
Decodes_any(enc, data, badText) == enc # Str("base64") \/ data.v \notin badText

\* decode_input finds bytes to write; enc is Null when absent.
Decodes(enc, data, badText) ==
    \/ enc \in {Null, Str("utf8")}
    \/ enc = Str("base64") /\ data.v \notin badText

\* signal_number; 0 is None.
SignalNumber(name) ==
    CASE name = "HUP"  -> 1
      [] name = "INT"  -> 2
      [] name = "QUIT" -> 3
      [] name = "KILL" -> 9
      [] name = "TERM" -> 15
      [] OTHER         -> 0

\* The answer handle gives at once to a control that Fits; <<>> if it just obeys.
Reply(m, badText) ==
    CASE TypeOf(m) = "ping" -> <<"pong">>
      [] TypeOf(m) = "input" ->
            IF Decodes(IF "enc" \in DOMAIN m THEN m.enc ELSE Null, m.data, badText)
              THEN <<>> ELSE <<"bad_message">>
      [] TypeOf(m) = "signal" -> IF SignalNumber(m.name.v) = 0 THEN <<"bad_message">> ELSE <<>>
      [] OTHER -> <<>>

\* What the host is answered, by the reader or by the engine.
Outcome(m, badText) == IF Classify(m) = <<"control">> THEN Reply(m, badText) ELSE Classify(m)

=============================================================================
