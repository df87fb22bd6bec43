-------------------------- MODULE MCControlReader --------------------------
(***************************************************************************)
(* ControlReader for TLC: the messages its runs use.                        *)
(***************************************************************************)
EXTENDS ReaderInvariant

Item(size, m) == [size |-> size, parses |-> TRUE, m |-> m]
Garbage(size) == [size |-> size, parses |-> FALSE, m |-> <<>>]

Ping      == [t |-> Str("ping"), id |-> Integer(1)]
BadResize == [t |-> Str("resize"), cols |-> Integer(MaxU16 + 1), rows |-> Integer(24)]
Flush     == [t |-> Str("flush")]
Typeless  == [id |-> Integer(1)]
Unknown   == [t |-> Str("zoom")]

\* A message of every class, and sizes around the cap of 2: a blank line, values
\* that fit exactly, lines that fit exactly, may fit, and never fit; and bytes that
\* are no value.
MCItems == {Item(1, Unknown), Item(2, BadResize), Item(2, Typeless), Item(3, Flush),
            Item(4, Ping), Item(6, Ping), Garbage(2)}

\* A line just longer than the cap.
LongLine == {Item(4, Ping)}

\* Every event, sent the wrong way.
Misdirected == {Item(2, [t |-> Str(t)]) : t \in Events}

=============================================================================
