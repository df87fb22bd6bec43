------------------------------- MODULE Mirror -------------------------------
(***************************************************************************)
(* What a host may rely on, that repaints at every flush: the pages it      *)
(* shows are whole screens the child's terminal really had, one after the   *)
(* other; never a mixture of two, and never one that is older than the page *)
(* before.  Which screens are skipped is not promised.                      *)
(***************************************************************************)

VARIABLES
    real,       \* the child's screen
    taken,      \* <<>> or the screen a frame was last made of
    page        \* <<>> or the page the host shows

Init == taken = <<>> /\ page = <<>>

\* The child writes, or is resized.
Change == real' # real /\ UNCHANGED <<taken, page>>

\* A frame is made once the one before it is on show.
Take == page = taken /\ taken' = <<real>> /\ UNCHANGED <<real, page>>

Show == page # taken /\ page' = taken /\ UNCHANGED <<real, taken>>

Next == Change \/ Take \/ Show

Spec == Init /\ [][Next]_<<real, taken, page>>

=============================================================================
