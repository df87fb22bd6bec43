--------------------------- MODULE SessionPromise ---------------------------
(***************************************************************************)
(* What a session promises about the child's output, whatever happens       *)
(* inside: the host's picture only ever grows, is never ahead of the child, *)
(* and a session that closes as complete has shown everything.  A session   *)
(* the host ends, or an I/O error, may cut the output short.                *)
(***************************************************************************)
EXTENDS Naturals

VARIABLES
    made,       \* chunks the child has written
    seen,       \* chunks in the last frame the host has read
    verdict     \* "open", "complete" or "cut"

Init == made = 0 /\ seen = 0 /\ verdict = "open"

Produce == verdict = "open" /\ made' = made + 1 /\ UNCHANGED <<seen, verdict>>

Show ==
    /\ verdict = "open"
    /\ seen' \in seen .. made
    /\ UNCHANGED <<made, verdict>>

Complete ==
    /\ verdict = "open"
    /\ seen' = made
    /\ verdict' = "complete"
    /\ UNCHANGED made

CutShort ==
    /\ verdict = "open"
    /\ seen' \in seen .. made
    /\ verdict' = "cut"
    /\ UNCHANGED made

Next == Produce \/ Show \/ Complete \/ CutShort

Spec == Init /\ [][Next]_<<made, seen, verdict>>

=============================================================================
