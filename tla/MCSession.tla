----------------------------- MODULE MCSession -----------------------------
(***************************************************************************)
(* Session for TLC, with the properties of whole sessions.                  *)
(***************************************************************************)
EXTENDS SessionInvariant, SessionControl, Functions

\* A child that exits by itself, under a host that stays and reads, has all its
\* output in the last frame: "the session ends when the child exits, after the
\* colored frame has been emitted" (tests/msgpack.rs:27-28).
FinalFrame ==
    pc = "done" /\ view.greeted /\ exit = "own" /\ hostUp /\ stdinOpen /\ stdout = <<>>
        => view.shown = written

\* A host that reads has every ping, and every message it got wrong, answered for
\* as long as the session lasts, whatever output it competes with
\* (engine.rs:231-276).
AnsweredUnlessBlocked ==
    []<>~Blocked /\ HostReads =>
        \A n \in 1 .. MaxControls :
            (Len(sent) >= n /\ NeedsReply(sent[n])) ~> (n \in Range(view.replies) \/ ~Open)

=============================================================================
